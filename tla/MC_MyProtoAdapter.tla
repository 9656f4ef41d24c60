------------------------- MODULE MC_MyProtoAdapter -------------------------
(***************************************************************************)
(* One MyProtoAdapter fed the byte stream of one sender, cut into          *)
(* datagrams at frame starts and at CutOffsets into frames.  QuicUdpHandler *)
(* hands each datagram of the peer to its adapter's feed; here they arrive *)
(* in the order sent and none is lost.  The cached clock advances between  *)
(* datagrams.                                                              *)
(***************************************************************************)
EXTENDS MyProtoAdapter

\* A NAL unit: start code length, type, bytes.
U(sc, t, n) == [sc |-> sc, t |-> t, n |-> n]

\* The payload length of a sequence of units.
PayloadLen(nals) == FoldLeft(LAMBDA acc, u : acc + u.sc + u.n, 0, nals)

\* A frame of the wire, its length that of its payload.
Frm(valid, key, b, ts, nals) ==
    [len |-> PayloadLen(nals), valid |-> valid, key |-> key, b |-> b, ts |-> ts,
     nals |-> nals]

Slice == <<U(4, 1, 8)>>

\* Keyframe, B-frame, then P-frames with a later keyframe: the heartbeat
\* may pause the stream between any two datagrams.  The first keyframe's
\* SPS has no start code (the Annex-B prefix is added), the second
\* carries a new SPS and is followed by one more frame, so that it does
\* not wait in STATE_COMPLETE for ever (finding H).
WireGop == <<Frm(TRUE, TRUE, FALSE, 0, <<U(0, 7, 8), U(4, 8, 4), U(4, 5, 8)>>),
             Frm(TRUE, FALSE, TRUE, 10, Slice), Frm(TRUE, FALSE, FALSE, 20, Slice),
             Frm(TRUE, TRUE, FALSE, 30, <<U(4, 7, 9), U(4, 8, 4), U(4, 5, 8)>>),
             Frm(TRUE, FALSE, FALSE, 40, Slice)>>

\* A timestamp going back, then a header with a bad magic; the keyframe's
\* SPS follows a 3-byte start code.
WireBackwards == <<Frm(TRUE, TRUE, FALSE, 0, <<U(3, 7, 8), U(4, 8, 4), U(4, 5, 8)>>),
                   Frm(TRUE, FALSE, FALSE, 20, Slice), Frm(TRUE, FALSE, FALSE, 10, Slice),
                   Frm(FALSE, FALSE, FALSE, 30, Slice)>>

\* A keyframe ending in a 2-byte SPS that validation rejects, then a last
\* frame whose payload is shorter than sizeof(MyProtoFrame) - 35.
WireShortTail == <<Frm(TRUE, TRUE, FALSE, 0, <<U(4, 8, 4), U(4, 5, 8), U(4, 7, 2)>>),
                   Frm(TRUE, FALSE, FALSE, 10, <<U(4, 1, 1)>>)>>

PassWires == {WireGop, WireBackwards, WireShortTail}

\* Two frames, a bad magic, and a frame after it.
BadMagicWires == {<<Frm(TRUE, TRUE, FALSE, 0, Slice), Frm(TRUE, FALSE, FALSE, 10, Slice),
                    Frm(FALSE, FALSE, FALSE, 20, Slice), Frm(TRUE, TRUE, FALSE, 30, Slice)>>}

\* Scenario A: one frame with a 5-byte payload.
ScenarioAWires == {<<Frm(TRUE, TRUE, FALSE, 0, <<U(4, 5, 1)>>)>>}

FrameEvent == [ev : {"frame"}, i : Nat, dts : Int, pts : Int, key : BOOLEAN]

NalUnit == [sc : {0, 3, 4}, t : Nat, n : Nat]

ParamEvent == [ev : {"param"}, kind : {"SPS", "PPS", "VPS"}, data : Seq(NalUnit),
               dts : Int]

TypeOK ==
    /\ sent \in 0..WireLen(wire)
    /\ base \in 0..sent
    /\ pos \in 0..WireLen(wire) /\ (inFeed => base + pos <= sent)
    /\ inFeed \in BOOLEAN
    /\ state \in {"HEADER", "PAYLOAD", "COMPLETE"}
    /\ hdr \in DOMAIN wire
    /\ got \in 0..wire[hdr].len
    /\ started \in BOOLEAN /\ hasBase \in BOOLEAN
    /\ lastDts \in Nat /\ lastWall \in 0..MaxTime /\ now \in 1..MaxTime
    /\ hotStart \in HotStarts
    /\ out \in Seq(FrameEvent \cup ParamEvent \cup [ev : {"start", "stop"}])
    /\ handled \subseteq DOMAIN wire
    /\ DOMAIN psets \subseteq {"SPS", "PPS"} /\ \A k \in DOMAIN psets : psets[k] \in Seq(NalUnit)
    /\ closed \in BOOLEAN

FrameIdx == {k \in DOMAIN out : out[k].ev = "frame"}

\* Spec invariant: dts_ms is non-decreasing within a stream.  The frames
\* createStdFrame pushes have non-decreasing dts, whatever the timestamps
\* on the wire, the frames dropped on the way, heartbeat pauses and the
\* re-parse after an error (validateTimestamp against last_dts_ms_).
PublishedDtsMonotone ==
    \A k1, k2 \in FrameIdx : k1 < k2 => out[k1].dts <= out[k2].dts

\* Scenario F and the stream-started state machine: without hot start, a
\* non-keyframe is pushed only right after another pushed frame: never as
\* the first frame, nor as the first after a heartbeat stop-of-stream (the
\* heartbeat check in feed must clear stream_started_).
PausedUntilKeyframe ==
    ~hotStart =>
        \A k \in FrameIdx : ~out[k].key => k > 1 /\ out[k - 1].ev = "frame"

\* Every call of feed returns (the spec's state machine consumes whatever
\* bytes it has): a running loop eventually ends.
FeedReturns == [](inFeed => <>~inFeed)

\* Spec property 9: a bad magic is fatal and no further bytes are
\* consumed, so no frame is pushed twice.
NoFramePublishedTwice ==
    \A k1, k2 \in FrameIdx : k1 < k2 => out[k1].i # out[k2].i

\* The SPS that processParameterSets finds in a keyframe's payload: the
\* bytes from the last SPS unit behind a 4-byte start code that
\* validation accepts, or none.
CarriedSps(f) ==
    LET p == Normalize(f.nals)
        I == {i \in 1..Len(p) : /\ p[i].sc = 4 /\ p[i].t = 7
                                /\ validate_parameter_set("SPS", SubSeq(p, i, Len(p)))}
    IN  IF ~f.key \/ I = {} THEN <<>> ELSE SubSeq(p, Max(I), Len(p))

\* Spec section 4.5 (hot start): a pushed keyframe that carries a new SPS
\* is preceded, in the run of parameter-set frames right before it, by that
\* SPS with the keyframe's dts: processParameterSets latches it before
\* resend_parameter_sets reads the store, and the store replaces the SPS
\* an earlier keyframe latched, so the decoder never receives the IDR
\* with the stale SPS.
NewSpsBeforeKeyframe ==
    \A k \in FrameIdx :
        hotStart /\ CarriedSps(wire[out[k].i]) # <<>> =>
            \E j \in 1..(k - 1) :
                /\ out[j] = [ev |-> "param", kind |-> "SPS",
                             data |-> CarriedSps(wire[out[k].i]), dts |-> out[k].dts]
                /\ \A m \in (j + 1)..(k - 1) : out[m].ev = "param"
=============================================================================
