---------------------------- MODULE ReorderBuffer ----------------------------
(***************************************************************************)
(* ReorderBuffer (reorder_buffer.cpp): fragments keyed by sequence number, *)
(* the expected sequence number and the statistics counters.  A fragment   *)
(* is [ts, key, item]: its arrival time, its keyframe flag and the unit it *)
(* carries; its bytes are one size unit, so max_buffer_size becomes a cap  *)
(* on the number of stored fragments.  The 188-byte alignment of the       *)
(* drained bytes (align_ts_packets) is byte layout and is left out: a      *)
(* drained fragment hands out its item.                                    *)
(***************************************************************************)
EXTENDS Integers, FiniteSets, Sequences

CONSTANTS
    Window,           \* reorder_window_ms
    KeyframeRelax,    \* enable_keyframe_relax
    RelaxMs,          \* keyframe_relax_ms
    MaxFragments      \* max_buffer_size in fragments

ASSUME Window \in Nat /\ KeyframeRelax \in BOOLEAN /\ RelaxMs \in Nat
       /\ MaxFragments \in Nat \ {0}

\* The constructor: empty map, expected_sequence_ = 0, zero stats.
EmptyReorderBuffer ==
    [buf |-> <<>>, expected |-> 0,
     total |-> 0, duplicate |-> 0, outOfOrder |-> 0, dropped |-> 0]

\* Mutant of add_packet: the first-packet initialization of
\* expected_sequence_ dropped.
add_packet_no_init(rb, seq, ts, key, item) ==
    LET r   == [rb EXCEPT !.total = @ + 1]
        frg == [ts |-> ts, key |-> key, item |-> item]
    IN  IF seq \in DOMAIN rb.buf THEN [r EXCEPT !.duplicate = @ + 1]
        ELSE IF Cardinality(DOMAIN rb.buf) + 1 > MaxFragments
             THEN [r EXCEPT !.dropped = @ + 1]
        ELSE IF seq < rb.expected THEN [r EXCEPT !.outOfOrder = @ + 1]
        ELSE [r EXCEPT !.buf = [s \in DOMAIN rb.buf \cup {seq} |->
                                  IF s = seq THEN frg ELSE rb.buf[s]]]

\* Mutant of add_packet: the late check seq < expected dropped.
add_packet_no_late_check(rb, seq, ts, key, item) ==
    LET r   == [rb EXCEPT !.total = @ + 1]
        frg == [ts |-> ts, key |-> key, item |-> item]
        exp == IF DOMAIN rb.buf = {} /\ rb.expected = 0 THEN seq ELSE rb.expected
    IN  IF seq \in DOMAIN rb.buf THEN [r EXCEPT !.duplicate = @ + 1]
        ELSE IF Cardinality(DOMAIN rb.buf) + 1 > MaxFragments
             THEN [r EXCEPT !.dropped = @ + 1]
        ELSE [r EXCEPT !.expected = exp,
                       !.buf = [s \in DOMAIN rb.buf \cup {seq} |->
                                  IF s = seq THEN frg ELSE rb.buf[s]]]

\* Mutant of add_packet: expected re-initialized whenever the buffer is
\* empty, the expected_sequence_ == 0 test dropped.
add_packet_reinit(rb, seq, ts, key, item) ==
    LET r   == [rb EXCEPT !.total = @ + 1]
        frg == [ts |-> ts, key |-> key, item |-> item]
        exp == IF DOMAIN rb.buf = {} THEN seq ELSE rb.expected
    IN  IF seq \in DOMAIN rb.buf THEN [r EXCEPT !.duplicate = @ + 1]
        ELSE IF Cardinality(DOMAIN rb.buf) + 1 > MaxFragments
             THEN [r EXCEPT !.dropped = @ + 1]
        ELSE IF seq < exp THEN [r EXCEPT !.expected = exp, !.outOfOrder = @ + 1]
        ELSE [r EXCEPT !.expected = exp,
                       !.buf = [s \in DOMAIN rb.buf \cup {seq} |->
                                  IF s = seq THEN frg ELSE rb.buf[s]]]

\* add_packet(seq_num, data, size, timestamp_ms, is_keyframe): count it; a
\* stored seq is a duplicate; a full buffer drops it (an error the caller
\* only logs); the first packet into an empty buffer with expected 0 sets
\* expected; a seq below expected is out of order and ignored; otherwise the
\* fragment is stored.
add_packet(rb, seq, ts, key, item) ==
    LET r   == [rb EXCEPT !.total = @ + 1]
        frg == [ts |-> ts, key |-> key, item |-> item]
        exp == IF DOMAIN rb.buf = {} /\ rb.expected = 0 THEN seq ELSE rb.expected
    IN  IF seq \in DOMAIN rb.buf THEN [r EXCEPT !.duplicate = @ + 1]
        ELSE IF Cardinality(DOMAIN rb.buf) + 1 > MaxFragments
             THEN [r EXCEPT !.dropped = @ + 1]
        ELSE IF seq < exp THEN [r EXCEPT !.expected = exp, !.outOfOrder = @ + 1]
        ELSE [r EXCEPT !.expected = exp,
                       !.buf = [s \in DOMAIN rb.buf \cup {seq} |->
                                  IF s = seq THEN frg ELSE rb.buf[s]]]

\* is_packet_expired: older than the window, plus the keyframe grace for a
\* keyframe when the grace is enabled.
is_packet_expired(frg, now) ==
    now - frg.ts > Window + (IF KeyframeRelax /\ frg.key THEN RelaxMs ELSE 0)

has_ready_packets(rb) == rb.expected \in DOMAIN rb.buf

\* The map without key s.
Erase(buf, s) == [t \in DOMAIN buf \ {s} |-> buf[t]]

RECURSIVE get_ordered_packets_uncounted(_, _)
\* Mutant of get_ordered_packets: an expired fragment is erased without
\* counting it in dropped_packets.
get_ordered_packets_uncounted(rb, now) ==
    IF ~has_ready_packets(rb) THEN [rb |-> rb, out |-> <<>>]
    ELSE LET frg  == rb.buf[rb.expected]
             exp  == is_packet_expired(frg, now)
             r    == [rb EXCEPT !.buf = Erase(rb.buf, rb.expected),
                                !.expected = @ + 1]
             rest == get_ordered_packets_uncounted(r, now)
         IN  [rb |-> rest.rb,
              out |-> (IF exp THEN <<>> ELSE <<frg.item>>) \o rest.out]

RECURSIVE get_ordered_packets_double_step(_, _)
\* Mutant of get_ordered_packets: the drop path advances expected twice.
get_ordered_packets_double_step(rb, now) ==
    IF ~has_ready_packets(rb) THEN [rb |-> rb, out |-> <<>>]
    ELSE LET frg  == rb.buf[rb.expected]
             exp  == is_packet_expired(frg, now)
             r    == [rb EXCEPT !.buf = Erase(rb.buf, rb.expected),
                                !.expected = IF exp THEN @ + 2 ELSE @ + 1,
                                !.dropped = IF exp THEN @ + 1 ELSE @]
             rest == get_ordered_packets_double_step(r, now)
         IN  [rb |-> rest.rb,
              out |-> (IF exp THEN <<>> ELSE <<frg.item>>) \o rest.out]

RECURSIVE get_ordered_packets(_, _)
\* get_ordered_packets(packets, current_time_ms): while the expected seq is
\* stored, erase it and advance expected, dropping it (counted) when it has
\* expired and handing out its item otherwise.  Result: the buffer and the
\* items in output order.
get_ordered_packets(rb, now) ==
    IF ~has_ready_packets(rb) THEN [rb |-> rb, out |-> <<>>]
    ELSE LET frg  == rb.buf[rb.expected]
             exp  == is_packet_expired(frg, now)
             r    == [rb EXCEPT !.buf = Erase(rb.buf, rb.expected),
                                !.expected = @ + 1,
                                !.dropped = IF exp THEN @ + 1 ELSE @]
             rest == get_ordered_packets(r, now)
         IN  [rb |-> rest.rb,
              out |-> (IF exp THEN <<>> ELSE <<frg.item>>) \o rest.out]
=============================================================================
