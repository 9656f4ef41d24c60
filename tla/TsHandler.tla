------------------------------ MODULE TsHandler ------------------------------
(***************************************************************************)
(* QuicFecTsAdapter::TsHandlerAdapter (quic_fec_ts_adapter.cpp): the       *)
(* handler the TS demuxer calls with every complete PES message.  It cuts  *)
(* the payload into NAL units (H.264, HEVC) or ADTS frames (AAC), keeps    *)
(* the parameter sets it has seen, writes a sequence header when they      *)
(* change and pushes coded frames to the live source.                      *)
(*                                                                         *)
(* A PES payload is a sequence of units [t, v]: t the unit's type as the   *)
(* code classifies it ("bad" when the demuxer fails on it), v the value of *)
(* a parameter set or of an AAC codec configuration (0 is the empty        *)
(* std::string).  Timestamps, FLV muxing and the frame statistics are left *)
(* out; the muxers are taken not to fail on units the demuxer accepted.    *)
(*                                                                         *)
(* Every push_to_live_source is recorded in a log (an observation the code *)
(* does not read) as [codec, kind, ps, ok]: a sequence header carries the  *)
(* parameter sets it was muxed from, a coded frame the parameter sets the  *)
(* handler holds when it is pushed (what the frame was encoded against),   *)
(* and ok is FALSE when the push failed (no source, or on_frame failed).   *)
(***************************************************************************)
EXTENDS Integers, Sequences

NoValue == 0    \* an empty parameter-set or configuration string

\* The constructor: no parameter set, nothing changed, nothing sent.
EmptyTsHandler ==
    [avc  |-> [sps |-> NoValue, pps |-> NoValue,
               spsChanged |-> FALSE, ppsChanged |-> FALSE, sent |-> FALSE],
     hevc |-> [vps |-> NoValue, sps |-> NoValue, pps |-> NoValue,
               changed |-> FALSE, sent |-> FALSE],
     aac  |-> NoValue]

\* One push_to_live_source; ok is the outcome the live source gives.
push_to_live_source(codec, kind, ps, ok) ==
    <<[codec |-> codec, kind |-> kind, ps |-> ps, ok |-> ok]>>

\* The result of one unit: the handler's new state, the pushes it made,
\* and whether the loop over the payload ends here.
Step(h, log, stop) == [h |-> h, log |-> log, stop |-> stop]

(***************************************************************************)
(* H.264                                                                   *)
(***************************************************************************)

\* write_h264_sps_pps: a header only when both SPS and PPS changed; the
\* flags are reset, and sent set, only after a successful push.
write_h264_sps_pps(a, ok) ==
    IF ~(a.spsChanged /\ a.ppsChanged) THEN Step(a, <<>>, FALSE)
    ELSE Step(IF ok THEN [a EXCEPT !.spsChanged = FALSE, !.ppsChanged = FALSE,
                                   !.sent = TRUE]
                    ELSE a,
              push_to_live_source("h264", "sh", <<a.sps, a.pps>>, ok), ~ok)

\* Mutant of write_h264_ipb_frame: the h264_sps_pps_sent_ check left out.
write_h264_ipb_frame_nosent(a, ok) ==
    Step(a, push_to_live_source("h264", "frame", <<a.sps, a.pps>>, ok), ~ok)

\* write_h264_ipb_frame: before a header was sent the frame is dropped with
\* a "drop sps/pps" error, which on_ts_video skips; a failed push returns.
write_h264_ipb_frame(a, ok) ==
    IF ~a.sent THEN Step(a, <<>>, FALSE)
    ELSE Step(a, push_to_live_source("h264", "frame", <<a.sps, a.pps>>, ok), ~ok)

\* One iteration of the loop of on_ts_video.  A demux error that consumes
\* nothing breaks the loop; an AUD is skipped; an SPS or PPS equal to the
\* one held is skipped, a new one is stored, flagged and tried as a header.
on_ts_video(a, n, ok) ==
    CASE n.t = "bad" -> Step(a, <<>>, TRUE)
      [] n.t = "aud" -> Step(a, <<>>, FALSE)
      [] n.t = "sps" -> IF a.sps = n.v THEN Step(a, <<>>, FALSE)
                        ELSE write_h264_sps_pps([a EXCEPT !.spsChanged = TRUE,
                                                          !.sps = n.v], ok)
      [] n.t = "pps" -> IF a.pps = n.v THEN Step(a, <<>>, FALSE)
                        ELSE write_h264_sps_pps([a EXCEPT !.ppsChanged = TRUE,
                                                          !.pps = n.v], ok)
      [] OTHER       -> write_h264_ipb_frame(a, ok)

(***************************************************************************)
(* HEVC                                                                    *)
(***************************************************************************)

\* write_h265_vps_sps_pps: one changed flag for the three sets; no header
\* while one of them is still empty.
write_h265_vps_sps_pps(e, ok) ==
    IF ~e.changed \/ NoValue \in {e.vps, e.sps, e.pps} THEN Step(e, <<>>, FALSE)
    ELSE Step(IF ok THEN [e EXCEPT !.changed = FALSE, !.sent = TRUE] ELSE e,
              push_to_live_source("hevc", "sh", <<e.vps, e.sps, e.pps>>, ok), ~ok)

\* write_h265_ipb_frame: before a header was sent the frame is refused with
\* an error, and on_ts_video_hevc returns it.
write_h265_ipb_frame(e, ok) ==
    IF ~e.sent THEN Step(e, <<>>, TRUE)
    ELSE Step(e, push_to_live_source("hevc", "frame", <<e.vps, e.sps, e.pps>>, ok), ~ok)

\* One iteration of the loop of on_ts_video_hevc: any demux error returns;
\* SEI and AUD are skipped; a new VPS, SPS or PPS is stored, sets the one
\* changed flag and is tried as a header.
on_ts_video_hevc(e, n, ok) ==
    CASE n.t = "bad"            -> Step(e, <<>>, TRUE)
      [] n.t \in {"sei", "aud"} -> Step(e, <<>>, FALSE)
      [] n.t \in {"vps", "sps", "pps"} ->
             IF e[n.t] = n.v THEN Step(e, <<>>, FALSE)
             ELSE write_h265_vps_sps_pps([e EXCEPT !.changed = TRUE,
                                                   ![n.t] = n.v], ok)
      [] OTHER -> write_h265_ipb_frame(e, ok)

(***************************************************************************)
(* AAC                                                                     *)
(***************************************************************************)

\* write_audio_raw_frame: mux to FLV and push.
write_audio_raw_frame(kind, cfg, ok) == push_to_live_source("aac", kind, <<cfg>>, ok)

\* One iteration of the loop of on_ts_audio: a demux error returns; while
\* no configuration is held, the frame's is stored first and then pushed
\* as a sequence header; then the frame is pushed.  A failed push returns.
on_ts_audio(cfg, n, ok) ==
    CASE n.t = "bad"     -> Step(cfg, <<>>, TRUE)
      [] cfg = NoValue   -> IF ~ok THEN Step(n.v, write_audio_raw_frame("sh", n.v, FALSE), TRUE)
                            ELSE Step(n.v, write_audio_raw_frame("sh", n.v, TRUE)
                                           \o write_audio_raw_frame("frame", n.v, TRUE), FALSE)
      [] OTHER           -> Step(cfg, write_audio_raw_frame("frame", n.v, ok), ~ok)

(***************************************************************************)
(* on_ts_message                                                           *)
(***************************************************************************)

\* One unit through the handler of the message's stream type.
OnUnit(th, codec, n, ok) ==
    CASE codec = "h264" -> LET r == on_ts_video(th.avc, n, ok)
                           IN  [r EXCEPT !.h = [th EXCEPT !.avc = r.h]]
      [] codec = "hevc" -> LET r == on_ts_video_hevc(th.hevc, n, ok)
                           IN  [r EXCEPT !.h = [th EXCEPT !.hevc = r.h]]
      [] codec = "aac"  -> LET r == on_ts_audio(th.aac, n, ok)
                           IN  [r EXCEPT !.h = [th EXCEPT !.aac = r.h]]

RECURSIVE on_ts_message(_, _, _, _)
\* on_ts_message on a PES of the given stream type whose units are
\* `units`; the pushes made for unit number fail (if any) fail, all other
\* pushes succeed.  The loop stops at the first unit that ends it.
\* Result: the handler's new state and the pushes, in order.
on_ts_message(th, codec, units, fail) ==
    IF units = <<>> THEN [h |-> th, log |-> <<>>]
    ELSE LET r    == OnUnit(th, codec, Head(units), fail # 1)
             rest == on_ts_message(r.h, codec, Tail(units), fail - 1)
         IN  IF r.stop THEN [h |-> r.h, log |-> r.log]
             ELSE [h |-> rest.h, log |-> r.log \o rest.log]
=============================================================================
