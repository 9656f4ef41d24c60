------------------------------ MODULE FecChannel ------------------------------
(***************************************************************************)
(* What the QUIC+FEC receive path hands the TS demux of each peer: whole   *)
(* FEC groups, one group at a time, each group's K data units together.    *)
(* A group may be lost, groups may go out in any order of their ids, and   *)
(* the order of the units inside a group is left open (spec 4.1 asks for   *)
(* index order; the code does not keep it).  A group may be handed out     *)
(* again: spec 3.2 and 4.2 say a repaired group is consumed, but a shard   *)
(* that arrives after the repair (late, or a network duplicate) re-creates *)
(* the erased group, so that promise is not part of this specification.    *)
(***************************************************************************)
EXTENDS Integers, Sequences, FiniteSets, Functions

CONSTANTS
    Peers,      \* the peers, one demux each
    GroupIds,   \* the FEC group ids
    K           \* data shards per group

VARIABLE out    \* out[p]: the units <<group, data index>> p's demux was given

\* The units of group g, its data indices in the order perm.
GroupRun(g, perm) == [j \in 1..K |-> <<g, perm[j]>>]

Init == out = [p \in Peers |-> <<>>]

\* p's demux is handed group g: its K units together, in some order.
Deliver(p, g) ==
    \E perm \in Bijection(1..K, 0..(K - 1)) :
        out' = [out EXCEPT ![p] = @ \o GroupRun(g, perm)]

Next == \E p \in Peers, g \in GroupIds : Deliver(p, g)

Spec == Init /\ [][Next]_out
=============================================================================
