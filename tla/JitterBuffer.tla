---------------------------- MODULE JitterBuffer ----------------------------
(***************************************************************************)
(* JitterBuffer (components/frame/jitter_buffer.hpp) behind FrameBus        *)
(* (components/frame/frame_bus.cpp): a min-heap of frames by dts_ms, the    *)
(* dts of the last frame popped, the history of pushed dts used for         *)
(* duplicate detection, and the configuration.  A frame is its dts.  Every *)
(* method takes mutex_, so push (the producer) and pop (the consumer) are   *)
(* atomic steps against each other.                                        *)
(*                                                                         *)
(* Left out: the statistics (stats_, jitter max/average, FrameBus totals), *)
(* which no control path reads; receive times (the values of dts_history_  *)
(* and last_receive_time_), which nothing compares; is_closed_, which no    *)
(* code ever sets, so the closed checks of push and pop never fire; and    *)
(* FrameBus's plain queue, dead since use_jitter_buffer_ is always true.   *)
(***************************************************************************)
EXTENDS Naturals, Bags, BagsExt, FiniteSetsExt

\* A JitterBufferConfig reduced to the fields the control reads.
ConfigType(Delays) == [max_delay : Delays, drop_late : BOOLEAN]

\* The constructor: empty heap, last_output_dts_ = 0, empty history.
EmptyJitterBuffer(cfg) ==
    [buf |-> EmptyBag, last_output |-> 0, history |-> {}, config |-> cfg]

\* is_frame_late: never before the first output (last_output_dts_ == 0);
\* otherwise any dts below last_output_dts_ + max_delay_ms.
is_frame_late(jb, dts) ==
    /\ jb.last_output # 0
    /\ dts < jb.last_output + jb.config.max_delay

\* is_frame_duplicate: the dts was pushed before (the history is never
\* trimmed, only emptied by clear).
is_frame_duplicate(jb, dts) == dts \in jb.history

\* push: a duplicate is ignored; a late frame is dropped when
\* drop_late_frames; otherwise the frame enters the heap and its dts the
\* history.
push(jb, dts) ==
    IF is_frame_duplicate(jb, dts) \/ (is_frame_late(jb, dts) /\ jb.config.drop_late)
    THEN jb
    ELSE [jb EXCEPT !.buf = BagAdd(@, dts), !.history = @ \cup {dts}]

\* The smallest dts in the heap (FrameComparator makes a min-heap).
Top(jb) == Min(BagToSet(jb.buf))

pop_no_last_output(jb) ==
    [frame |-> Top(jb), jb |-> [jb EXCEPT !.buf = BagRemove(@, Top(jb))]]

\* pop on a non-empty heap: the top frame is removed and returned, and its
\* dts becomes last_output_dts_.  (On an empty heap pop times out with an
\* error and changes nothing.)
pop(jb) ==
    [frame |-> Top(jb),
     jb    |-> [jb EXCEPT !.buf = BagRemove(@, Top(jb)), !.last_output = Top(jb)]]

\* flush: every frame is taken off the heap and discarded.
flush(jb) == [jb EXCEPT !.buf = EmptyBag]

\* clear: empty heap, last_output_dts_ and the history reset.
clear(jb) == [jb EXCEPT !.buf = EmptyBag, !.last_output = 0, !.history = {}]

update_config(jb, cfg) == [jb EXCEPT !.config = cfg]
=============================================================================
