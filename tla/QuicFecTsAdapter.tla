--------------------------- MODULE QuicFecTsAdapter ---------------------------
(***************************************************************************)
(* The QUIC+FEC receive path of QuicFecTsAdapter (quic_fec_ts_adapter.cpp) *)
(* for a set of peers.  QuicUdpHandler gives every peer ip:port its own    *)
(* adapter, whose start() creates one FecRepairManager and one             *)
(* ReorderBuffer; feed() runs add_block, then process_fec_groups (the      *)
(* sweep, and ++global_seq_counter for every restored shard into the       *)
(* reorder buffer), then process_reorder_buffer (the drain into the TS     *)
(* demux).  global_seq_counter is a function-local static: one counter for *)
(* all adapters.  The sender of each peer sends every shard of the groups  *)
(* GroupIds once; the network delivers them in any order, loses them, or  *)
(* delivers a copy of one again (at most MaxDups copies in a behaviour).   *)
(* Payload bytes are all 0 (the decoders run, their bytes are not looked   *)
(* at here); a TS unit handed to the demux is <<group, index>>.            *)
(***************************************************************************)
EXTENDS FecRepairManager, ReorderBuffer

CONSTANTS
    Peers,        \* remote ip:port of the UDP datagrams
    GroupIds,     \* FEC group ids the senders use
    MaxTime,      \* bound on the cached clock, in units of 1 ms
    MaxDups       \* bound on the datagrams the network duplicates

ASSUME GroupIds \subseteq Nat /\ MaxTime \in Nat /\ MaxDups \in Nat

VARIABLES
    net,              \* datagrams sent and not yet received or lost
    fecManagers,      \* fecManagers[p]: the FecRepairManager of p's adapter
    reorderBuffers,   \* reorderBuffers[p]: the ReorderBuffer of p's adapter
    delivered,        \* delivered[p]: TS units handed to p's demux, in order
    globalSeqCounter, \* the static global_seq_counter of process_fec_groups
    clock,            \* srs_time_now_cached() in ms
    dups              \* copies the network has delivered

vars == <<net, fecManagers, reorderBuffers, delivered, globalSeqCounter, clock, dups>>

\* A QUIC+FEC datagram: [seq][group_id][block_index][flags] and payload.
Datagram ==
    {d \in [peer : Peers, grp : GroupIds, index : 0..(K - 1), parity : BOOLEAN] :
        IndexInRange(d.index, d.parity)}

\* The sender's seq_num of a shard, and its flags: bit0 parity, bit1 keyframe
\* (the first data shard of a group).
WireSeq(d) == d.grp * N + NormIndex(d.index, d.parity) + 1

ShardOf(d) ==
    [parity |-> d.parity, val |-> 0, seq |-> WireSeq(d),
     key |-> ~d.parity /\ d.index = 0]

Init ==
    /\ net = Datagram
    /\ fecManagers = [p \in Peers |-> EmptyManager]
    /\ reorderBuffers = [p \in Peers |-> EmptyReorderBuffer]
    /\ delivered = [p \in Peers |-> <<>>]
    /\ globalSeqCounter = 0
    /\ clock = 0
    /\ dups = 0

RECURSIVE AddRestored_no_increment(_, _, _, _)
\* Mutant of AddRestored: every restored shard of a sweep gets the same
\* seq_num (global_seq_counter read, not incremented, in the loop).
AddRestored_no_increment(buf, items, first, ts) ==
    IF items = <<>> THEN buf
    ELSE AddRestored_no_increment(add_packet(buf, first, ts, Head(items).key,
                                             <<Head(items).grp, Head(items).index>>),
                                  Tail(items), first, ts)

RECURSIVE AddRestored(_, _, _, _)
\* The loop of process_fec_groups: restored shard i gets seq_num
\* ++global_seq_counter (first + i - 1 here) and goes to add_packet, whose
\* error is only logged.
AddRestored(buf, items, first, ts) ==
    IF items = <<>> THEN buf
    ELSE AddRestored(add_packet(buf, first, ts, Head(items).key,
                                <<Head(items).grp, Head(items).index>>),
                     Tail(items), first + 1, ts)

\* handle_quic_data: the shard goes to the adapter's FecRepairManager.
handle_quic_data(m, d, ts) ==
    manager_add_block(m, d.grp, d.index, d.parity, ShardOf(d), ts)

\* The restored shards of the sweep c into the reorder buffer buf, numbered
\* from counter + 1 on.
AddSwept(c, buf, counter, ts) ==
    [mgr |-> c.mgr,
     rb |-> AddRestored(buf, c.out, counter + 1, ts),
     counter |-> counter + Len(c.out)]

\* process_fec_groups: the sweep of the manager, then every restored shard
\* into the reorder buffer with the next value of the shared counter.
\* Result: the manager, the reorder buffer and the counter.
process_fec_groups(m, buf, counter, ts) ==
    AddSwept(check_and_repair_with_metadata(m, ts), buf, counter, ts)

\* process_reorder_buffer: drain the ready fragments to the demux
\* (output_ts_packets) when has_ready_packets.
process_reorder_buffer(buf, ts) ==
    IF has_ready_packets(buf) THEN get_ordered_packets(buf, ts)
    ELSE [rb |-> buf, out |-> <<>>]

\* The end of feed() for peer p: process_reorder_buffer drained dr.
Drained(p, dr) ==
    /\ reorderBuffers' = [reorderBuffers EXCEPT ![p] = dr.rb]
    /\ delivered' = [delivered EXCEPT ![p] = @ \o dr.out]

\* feed() for peer p after process_fec_groups returned f.
Swept(p, f) ==
    /\ fecManagers' = [fecManagers EXCEPT ![p] = f.mgr]
    /\ globalSeqCounter' = f.counter
    /\ Drained(p, process_reorder_buffer(f.rb, clock))

\* feed() for peer p after handle_quic_data returned a: its error returns
\* from feed before the sweep and the drain.
Handled(p, a) ==
    IF a.ok
    THEN Swept(p, process_fec_groups(a.mgr, reorderBuffers[p], globalSeqCounter, clock))
    ELSE /\ fecManagers' = [fecManagers EXCEPT ![p] = a.mgr]
         /\ UNCHANGED <<reorderBuffers, delivered, globalSeqCounter>>

\* feed() of p's adapter for datagram d (a valid header: the sender never
\* uses seq 0 with group 0 nor an empty payload): handle_quic_data, then
\* process_fec_groups and process_reorder_buffer, at one cached time.
feed(d) ==
    /\ Handled(d.peer, handle_quic_data(fecManagers[d.peer], d, clock))
    /\ UNCHANGED clock

\* Datagram d arrives.
Feed(d) ==
    /\ d \in net
    /\ net' = net \ {d}
    /\ feed(d)
    /\ UNCHANGED dups

\* A second copy of datagram d arrives after the first one was received
\* (or lost: then this copy is the one that arrives, late).
Duplicate(d) ==
    /\ d \notin net
    /\ dups < MaxDups
    /\ dups' = dups + 1
    /\ feed(d)
    /\ UNCHANGED net

\* A datagram lost by the network.
Lose(d) ==
    /\ d \in net
    /\ net' = net \ {d}
    /\ UNCHANGED <<fecManagers, reorderBuffers, delivered, globalSeqCounter, clock, dups>>

\* The cached clock advances.
Tick ==
    /\ clock < MaxTime
    /\ clock' = clock + 1
    /\ UNCHANGED <<net, fecManagers, reorderBuffers, delivered, globalSeqCounter, dups>>

Next ==
    \/ \E d \in net : Feed(d) \/ Lose(d)
    \/ \E d \in Datagram : Duplicate(d)
    \/ Tick

Spec == Init /\ [][Next]_vars
=============================================================================
