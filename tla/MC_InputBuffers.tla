------------------------- MODULE MC_InputBuffers ---------------------------
(***************************************************************************)
(* The input buffers of the adapters, each checked by its own harness; a   *)
(* behaviour runs one harness, chosen in the initial state among Levels,   *)
(* and holds the others' variables fixed:                                  *)
(*   "reorder" - one ReorderBuffer fed by add_packet calls with any         *)
(*               sequence numbers in 1..MaxSeq, in any order, repeated or  *)
(*               late, keyframe or not, and drained by                      *)
(*               process_reorder_buffer (get_ordered_packets when           *)
(*               has_ready_packets) while the cached clock advances; given *)
(*               is a history variable, the sequence numbers add_packet    *)
(*               has been called with;                                     *)
(*   "jitter"  - one FrameBus over its JitterBuffer, a producer pushing     *)
(*               frames of any dts in Dts, a consumer popping, and flush,  *)
(*               clear and update_jitter_config called in between;         *)
(*               popped is a history variable, the dts the consumer has    *)
(*               received since the last clear;                            *)
(*   "ts"      - one QuicFecTsAdapter fed a sender's TS stream (one of     *)
(*               Wires) cut into datagrams of any length in DgramLens,     *)
(*               with protocol detection on or off, until close; units is  *)
(*               what handle_bare_ts_data handed to output_ts_packets and  *)
(*               bareFrom a history variable, the offset of the datagram   *)
(*               that selected bare-TS mode;                               *)
(*   "demux"   - one TsHandlerAdapter given complete PES messages, any of   *)
(*               Pes in any order, at most MaxMsgs of them; the pushes of  *)
(*               one unit of a message may fail, at most MaxFails times in *)
(*               a behaviour; pushed is the log of push_to_live_source.    *)
(***************************************************************************)
EXTENDS ReorderBuffer, JitterBuffer, BareTsInput, TsHandler, Sequences, SequencesExt

CONSTANTS
    Levels,     \* the harnesses to run
    MaxSeq, MaxAdds, MaxTime,   \* reorder: sequence numbers, calls, clock
    Dts,        \* jitter: dts values of the frames pushed
    Configs,    \* jitter: configurations given to the constructor and updates
    MaxPushes,  \* jitter: bound on FrameBus::push calls
    Wires,      \* ts: the sender's streams, sequences of blocks
    DgramLens,  \* ts: datagram lengths
    Detection,  \* ts: values of enable_protocol_detection
    Pes,        \* demux: PES messages, records [codec, units]
    MaxMsgs,    \* demux: bound on on_ts_message calls
    MaxFails    \* demux: bound on failed pushes

ASSUME /\ Levels \subseteq {"reorder", "jitter", "ts", "demux"}
       /\ Dts \subseteq Nat /\ MaxPushes \in Nat

VARIABLES
    level,                      \* the harness of this behaviour
    rb, now, out, given,        \* reorder
    jb, popped, pushes,         \* jitter
    wire, detection, mode, sent, lo, units, started, stopped, closed,
    bareFrom,                   \* ts
    th, pushed, msgs            \* demux

reorderVars == <<rb, now, out, given>>
jitterVars  == <<jb, popped, pushes>>
tsVars == <<wire, detection, mode, sent, lo, units, started, stopped, closed,
            bareFrom>>
demuxVars == <<th, pushed, msgs>>
vars == <<level, reorderVars, jitterVars, tsVars, demuxVars>>

ReorderIdle == rb = EmptyReorderBuffer /\ now = 0 /\ out = <<>> /\ given = {}
JitterIdle  == jb = EmptyJitterBuffer(CHOOSE c \in Configs : TRUE)
               /\ popped = <<>> /\ pushes = 0
\* A started adapter: mode unknown, empty input buffer, stream not started.
TsStart(w, d) ==
    /\ wire = w /\ detection = d /\ mode = "UNKNOWN"
    /\ sent = 0 /\ lo = 0 /\ units = <<>>
    /\ started = FALSE /\ stopped = FALSE /\ closed = FALSE /\ bareFrom = 0
TsIdle == TsStart(CHOOSE w \in Wires : TRUE, TRUE)
DemuxIdle == th = EmptyTsHandler /\ pushed = <<>> /\ msgs = 0

Init ==
    \/ /\ "reorder" \in Levels /\ level = "reorder"
       /\ ReorderIdle /\ JitterIdle /\ TsIdle /\ DemuxIdle
    \/ /\ "jitter" \in Levels /\ level = "jitter"
       /\ ReorderIdle /\ TsIdle /\ DemuxIdle
       /\ \E cfg \in Configs : jb = EmptyJitterBuffer(cfg)
       /\ popped = <<>> /\ pushes = 0
    \/ /\ "ts" \in Levels /\ level = "ts"
       /\ ReorderIdle /\ JitterIdle /\ DemuxIdle
       /\ \E w \in Wires, d \in Detection : TsStart(w, d)
    \/ /\ "demux" \in Levels /\ level = "demux"
       /\ ReorderIdle /\ JitterIdle /\ TsIdle /\ DemuxIdle

(***************************************************************************)
(* Reorder harness.                                                        *)
(***************************************************************************)
AddPacket(seq, key) ==
    /\ level = "reorder"
    /\ rb.total < MaxAdds
    /\ rb' = add_packet(rb, seq, now, key, seq)
    /\ given' = given \cup {seq}
    /\ UNCHANGED <<level, now, out, jitterVars, tsVars, demuxVars>>

ProcessReorderBuffer ==
    /\ level = "reorder"
    /\ has_ready_packets(rb)
    /\ LET r == get_ordered_packets(rb, now)
       IN  rb' = r.rb /\ out' = out \o r.out
    /\ UNCHANGED <<level, now, given, jitterVars, tsVars, demuxVars>>

Tick ==
    /\ level = "reorder"
    /\ now < MaxTime
    /\ now' = now + 1
    /\ UNCHANGED <<level, rb, out, given, jitterVars, tsVars, demuxVars>>

(***************************************************************************)
(* Jitter harness: the FrameBus methods, each delegating to the            *)
(* JitterBuffer.                                                           *)
(***************************************************************************)
BusPush(dts) ==
    /\ level = "jitter"
    /\ pushes < MaxPushes
    /\ jb' = push(jb, dts)
    /\ pushes' = pushes + 1
    /\ UNCHANGED <<level, reorderVars, tsVars, demuxVars, popped>>

\* FrameBus::pop with a frame in the heap (an empty heap times out).
BusPop ==
    /\ level = "jitter"
    /\ jb.buf # EmptyBag
    /\ LET r == pop(jb) IN jb' = r.jb /\ popped' = Append(popped, r.frame)
    /\ UNCHANGED <<level, reorderVars, tsVars, demuxVars, pushes>>

BusFlush ==
    /\ level = "jitter"
    /\ jb' = flush(jb)
    /\ UNCHANGED <<level, reorderVars, tsVars, demuxVars, popped, pushes>>

BusClear ==
    /\ level = "jitter"
    /\ jb' = clear(jb)
    /\ popped' = <<>>
    /\ UNCHANGED <<level, reorderVars, tsVars, demuxVars, pushes>>

BusUpdateConfig(cfg) ==
    /\ level = "jitter"
    /\ jb' = update_config(jb, cfg)
    /\ UNCHANGED <<level, reorderVars, tsVars, demuxVars, popped, pushes>>

(***************************************************************************)
(* TS harness: QuicFecTsAdapter::feed with the next datagram of the        *)
(* stream, and close.                                                      *)
(***************************************************************************)
\* feed: while the mode is unknown and detection enabled, detect_protocol
\* looks at the datagram.  In bare-TS mode (the datagram that selected it
\* included) it goes to handle_bare_ts_data, and units cut from it to
\* output_ts_packets, which starts the stream on its first call.  Any
\* other datagram goes to the QUIC+FEC header parse and never reaches
\* input_buffer_, empty outside bare-TS mode.  The session cleanup, FEC
\* and reorder sweeps that end feed are modelled in QuicFecTsAdapter.
Feed(len) ==
    /\ level = "ts"
    /\ ~closed
    /\ sent < StreamLen(wire)
    /\ LET to == IF sent + len < StreamLen(wire) THEN sent + len ELSE StreamLen(wire)
           m  == IF mode = "UNKNOWN" /\ detection
                 THEN detect_protocol(wire, sent, to) ELSE mode
           r  == handle_bare_ts_data(wire, lo, to)
       IN  /\ mode' = m
           /\ sent' = to
           /\ IF m = "BARE_TS"
              THEN /\ lo' = r.lo
                   /\ units' = units \o r.units
                   /\ started' = output_ts_packets(started, r.units)
              ELSE /\ lo' = to
                   /\ UNCHANGED <<units, started>>
           /\ bareFrom' = IF mode # "BARE_TS" /\ m = "BARE_TS" THEN sent ELSE bareFrom
    /\ UNCHANGED <<level, reorderVars, jitterVars, demuxVars, wire, detection, stopped, closed>>

\* close: on_stop_stream if the stream started, the input buffer cleared,
\* stream_started_ false and the mode unknown.  The UDP handler erases the
\* adapter right after, so nothing is fed after it.
Close ==
    /\ level = "ts"
    /\ ~closed
    /\ stopped' = started
    /\ started' = FALSE
    /\ mode' = "UNKNOWN"
    /\ lo' = sent
    /\ closed' = TRUE
    /\ UNCHANGED <<level, reorderVars, jitterVars, demuxVars, wire, detection, sent, units,
                   bareFrom>>

(***************************************************************************)
(* Demux harness: the TS demuxer hands a complete PES to on_ts_message.    *)
(***************************************************************************)
NFailed(log) == Len(SelectSeq(log, LAMBDA e : ~e.ok))

\* on_ts_message on PES p, the pushes for unit number fail failing (0:
\* none fails).
OnTsMessage(p, fail) ==
    /\ level = "demux"
    /\ msgs < MaxMsgs
    /\ fail = 0 \/ NFailed(pushed) < MaxFails
    /\ LET r == on_ts_message(th, p.codec, p.units, fail)
       IN  th' = r.h /\ pushed' = pushed \o r.log
    /\ msgs' = msgs + 1
    /\ UNCHANGED <<level, reorderVars, jitterVars, tsVars>>

Next ==
    \/ \E seq \in 1..MaxSeq, key \in BOOLEAN : AddPacket(seq, key)
    \/ ProcessReorderBuffer
    \/ Tick
    \/ \E dts \in Dts : BusPush(dts)
    \/ BusPop
    \/ BusFlush
    \/ BusClear
    \/ \E cfg \in Configs : BusUpdateConfig(cfg)
    \/ \E len \in DgramLens : Feed(len)
    \/ Close
    \/ \E p \in Pes : \E fail \in 0..Len(p.units) : OnTsMessage(p, fail)

Spec == Init /\ [][Next]_vars

\* The configurations of the jitter harness: drop_late_frames as in the
\* default JitterBufferConfig, max_delay_ms either zero or two dts steps.
MCConfigs == {[max_delay |-> d, drop_late |-> TRUE] : d \in {0, 2}}

\* A TS packet and junk of n bytes whose first byte has the high bit hi.
Pkt == [sync |-> TRUE, len |-> TsPacketSize, hi |-> FALSE]
Junk(n, hi) == [sync |-> FALSE, len |-> n, hi |-> hi]

\* A packet cut short after n bytes.
Short(n) == [sync |-> TRUE, len |-> n, hi |-> FALSE]

\* The streams: packets with 5 bytes of junk between the second and third;
\* one starting with junk whose first byte looks like a QUIC short
\* header; one whose second packet is not 188 bytes after the first; and
\* one with a packet cut short, after which the cut units straddle packets.
MCWires == {<<Pkt, Pkt, Junk(5, FALSE), Pkt, Pkt>>,
            <<Junk(20, TRUE), Pkt, Pkt>>,
            <<Pkt, Junk(5, FALSE), Pkt, Pkt>>,
            <<Pkt, Short(100), Pkt, Pkt>>}

\* Units of a PES: a parameter set or ADTS frame of value v, or a unit of
\* type t.
U(t, v) == [t |-> t, v |-> v]
N(t) == U(t, NoValue)

\* The PES messages: for H.264, a full IDR access unit, a slice, an IDR
\* behind a new SPS only (the encoder changed one of the two sets), an AUD
\* and an access unit with the first sets, and a payload the demuxer fails
\* on; for HEVC the same with VPS, an SEI and a slice ahead of the sets
\* (refused before a header); for AAC two frames of configuration 1, one
\* of configuration 2, and a payload adts_demux fails on.
MCPes ==
    {[codec |-> "h264", units |-> u] :
        u \in {<<U("sps", 1), U("pps", 1), N("idr")>>, <<N("slice")>>,
               <<U("sps", 2), N("idr")>>, <<N("aud"), U("sps", 1), U("pps", 1), N("idr")>>,
               <<N("bad"), N("slice")>>}}
    \cup
    {[codec |-> "hevc", units |-> u] :
        u \in {<<U("vps", 1), U("sps", 1), U("pps", 1), N("irap")>>, <<N("slice")>>,
               <<U("sps", 2), N("irap")>>,
               <<N("sei"), N("slice"), U("vps", 1), U("sps", 1), U("pps", 1)>>,
               <<N("bad"), N("slice")>>}}
    \cup
    {[codec |-> "aac", units |-> u] :
        u \in {<<U("adts", 1), U("adts", 1)>>, <<U("adts", 2)>>, <<N("bad")>>}}

TypeOK ==
    /\ level \in Levels
    /\ DOMAIN rb.buf \subseteq 1..MaxSeq
    /\ \A s \in DOMAIN rb.buf :
          rb.buf[s] \in [ts : 0..MaxTime, key : BOOLEAN, item : 1..MaxSeq]
    /\ rb.expected \in 0..(MaxSeq + 1)
    /\ out \in Seq(1..MaxSeq)
    /\ now \in 0..MaxTime
    /\ given \subseteq 1..MaxSeq
    /\ IsABag(jb.buf) /\ BagToSet(jb.buf) \subseteq Dts
    /\ jb.last_output \in {0} \cup Dts
    /\ jb.history \subseteq Dts
    /\ jb.config \in Configs
    /\ popped \in Seq(Dts)
    /\ pushes \in 0..MaxPushes
    /\ wire \in Wires /\ detection \in Detection
    /\ mode \in {"UNKNOWN", "BARE_TS", "QUIC_FEC"}
    /\ 0 <= lo /\ lo <= sent /\ sent <= StreamLen(wire)
    /\ units \in Seq(0..StreamLen(wire))
    /\ {started, stopped, closed} \subseteq BOOLEAN
    /\ bareFrom \in 0..sent
    /\ th.avc \in [sps : Nat, pps : Nat, spsChanged : BOOLEAN, ppsChanged : BOOLEAN,
                   sent : BOOLEAN]
    /\ th.hevc \in [vps : Nat, sps : Nat, pps : Nat, changed : BOOLEAN, sent : BOOLEAN]
    /\ th.aac \in Nat
    /\ pushed \in Seq([codec : {"h264", "hevc", "aac"}, kind : {"sh", "frame"},
                       ps : Seq(Nat), ok : BOOLEAN])
    /\ msgs \in 0..MaxMsgs

\* Every fragment add_packet was given is accounted for exactly once: as a
\* duplicate, as out of order, as dropped (buffer full, or expired at the
\* head in get_ordered_packets), as still stored, or as handed out.
FragmentAccounting ==
    rb.total = rb.duplicate + rb.outOfOrder + rb.dropped
               + Cardinality(DOMAIN rb.buf) + Len(out)

\* No fragment is stored below the expected sequence number: the drain loop
\* only looks at expected and upwards, so such a fragment would hold its
\* share of max_buffer_size forever.
StoredNotBelowExpected ==
    \A s \in DOMAIN rb.buf : s >= rb.expected

\* Spec property 4: the expected sequence number never decreases, across
\* the first-packet initialization, late packets and the drain loop.
ExpectedMonotonic == [][rb'.expected >= rb.expected]_vars

Delivery == INSTANCE OrderedDelivery WITH Seqs <- 1..MaxSeq, delivered <- out

\* The reorder buffer implements ordered delivery: whatever the order,
\* repetition and timing of add_packet calls, the first-packet
\* initialization, the late-packet rule, the full-buffer drop and the
\* expiry at the head of get_ordered_packets only ever hand out sequence
\* numbers that were given, each once, in strictly increasing order.
ImplementsOrderedDelivery == Delivery!Spec

\* Spec section 6 (ordering guarantees): frames leave the jitter buffer in
\* increasing DTS order.  With drop_late_frames set, whatever the
\* interleaving of push and pop, flushes and changes of max_delay_ms, the
\* consumer receives strictly increasing dts between two clears: the
\* history rejects a dts seen before and the late rule one below the last
\* output, so a frame pushed after a pop never overtakes it.
PopsIncreasing == \A i \in 1..(Len(popped) - 1) : popped[i] < popped[i + 1]

\* The last index below i of a successful header push of codec c (0: none).
LastHeader(c, i) ==
    LET J == {j \in 1..(i - 1) : pushed[j].codec = c /\ pushed[j].kind = "sh"
                                 /\ pushed[j].ok}
    IN  IF J = {} THEN 0 ELSE CHOOSE j \in J : \A k \in J : k <= j

\* No coded video frame reaches the live source before a sequence header
\* of its codec did: write_h264_ipb_frame and write_h265_ipb_frame refuse
\* frames until h264_sps_pps_sent_ / h265_vps_sps_pps_sent_, which the
\* header writers set only after their push succeeded, whatever headers
\* failed, which PES broke off, and how the codecs interleave.
NoFrameBeforeSequenceHeader ==
    \A i \in DOMAIN pushed :
        pushed[i].kind = "frame" /\ pushed[i].ok /\ pushed[i].codec \in {"h264", "hevc"}
        => LastHeader(pushed[i].codec, i) > 0

\* The frames of codec c the live source receives are decoded with the
\* parameter sets they were encoded against: the last header of c that
\* reached the source before a frame carries the sets the handler held
\* when the frame was pushed.  No run checks it: it is violated for H.264
\* (a new SPS alone is never sent, finding U), for AAC (a failed or
\* changed configuration is never re-sent, findings V and W) and for HEVC
\* (sets stored before a header push that failed are never sent again,
\* because a repeat of them is skipped, finding Y).
FramesUnderCurrentHeader(c) ==
    \A i \in DOMAIN pushed :
        pushed[i].kind = "frame" /\ pushed[i].ok /\ pushed[i].codec = c
        => LET h == LastHeader(c, i)
           IN  h > 0 /\ pushed[h].ps = pushed[i].ps
=============================================================================
