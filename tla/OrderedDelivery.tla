--------------------------- MODULE OrderedDelivery ---------------------------
(***************************************************************************)
(* What the reorder buffer promises its caller (spec section 4.3, the      *)
(* reorder component of QuicFecTsAdapter): the sequence numbers it is      *)
(* given may arrive in any order, repeated or not at all; what it hands    *)
(* out is a subset of them, in strictly increasing order, each at most     *)
(* once.  Loss is allowed (a gap may be skipped, a late unit dropped);     *)
(* reordering and duplication are not.                                     *)
(***************************************************************************)
EXTENDS Naturals, Sequences, SequencesExt

CONSTANT Seqs   \* the sequence numbers that can be given

VARIABLES
    given,      \* the sequence numbers given so far
    delivered   \* the sequence numbers handed out, in order

vars == <<given, delivered>>

\* The last sequence number handed out, 0 before the first.
LastDelivered == IF delivered = <<>> THEN 0 ELSE Last(delivered)

Init ==
    /\ given = {}
    /\ delivered = <<>>

\* A unit with sequence number s is given.
Give(s) ==
    /\ given' = given \cup {s}
    /\ UNCHANGED delivered

\* A run of given sequence numbers, all above the last one handed out, is
\* handed out in increasing order.
Deliver(S) ==
    /\ S # {}
    /\ \A s \in S : s > LastDelivered
    /\ delivered' = delivered \o SetToSortSeq(S, <)
    /\ UNCHANGED given

Next ==
    \/ \E s \in Seqs : Give(s)
    \/ \E S \in SUBSET given : Deliver(S)

Spec == Init /\ [][Next]_vars
=============================================================================
