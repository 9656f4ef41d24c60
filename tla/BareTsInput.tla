---------------------------- MODULE BareTsInput ----------------------------
(***************************************************************************)
(* Protocol detection and the bare-TS path of QuicFecTsAdapter             *)
(* (quic_fec_ts_adapter.cpp): detect_protocol on the first datagrams,      *)
(* handle_bare_ts_data (accumulate, find a sync byte, cut 188-byte units)  *)
(* and the stream start of output_ts_packets.                              *)
(*                                                                         *)
(* The sender's stream is a sequence of blocks [sync, len, hi]: a TS       *)
(* packet (sync: its first byte is 0x47, len TsPacketSize) or junk (no     *)
(* 0x47 in it), hi telling whether the block's first byte has its high     *)
(* bit set; no other byte is 0x47 or has the high bit set.  Bytes are      *)
(* named by their offset in the stream.  In bare-TS mode every datagram is *)
(* appended, so input_buffer_ is the stream between offsets lo and sent.   *)
(* A datagram fed while the mode is not bare-TS goes to the QUIC+FEC       *)
(* header parse instead and its bytes never reach input_buffer_; what that *)
(* path makes of TS bytes is left out (QuicFecTsAdapter models it for      *)
(* QUIC+FEC datagrams).                                                    *)
(***************************************************************************)
EXTENDS Integers, Sequences, FiniteSets

CONSTANT TsPacketSize   \* SRS_TS_PACKET_SIZE

RECURSIVE BlockStart(_, _)
\* The stream offset of the first byte of block i.
BlockStart(w, i) == IF i = 1 THEN 0 ELSE BlockStart(w, i - 1) + w[i - 1].len

StreamLen(w) == IF w = <<>> THEN 0 ELSE BlockStart(w, Len(w)) + w[Len(w)].len

\* The offsets of the 0x47 bytes: the first byte of every TS packet.
SyncBytes(w) == {BlockStart(w, i) : i \in {j \in DOMAIN w : w[j].sync}}

\* The byte at offset o has its high bit set.
HighBit(w, o) == \E i \in DOMAIN w : BlockStart(w, i) = o /\ w[i].hi

\* detect_protocol on the datagram [from, to): fewer than 4 bytes wait; a
\* first byte 0x47 selects bare TS unless a second packet's position
\* (offset 188, when 2 * 188 bytes are there) holds another byte; a high
\* first bit, or 16 bytes whose seq or group parse non-zero (any 16 bytes
\* of a TS stream do), select QUIC+FEC; otherwise the mode stays unknown
\* (the default_mode fallback sits under !enable_protocol_detection, which
\* is false whenever detect_protocol runs, and detection_timeout_ms is
\* never read).
detect_protocol(w, from, to) ==
    LET size == to - from IN
    IF size < 4 THEN "UNKNOWN"
    ELSE IF from \in SyncBytes(w)
            /\ ~(size >= 2 * TsPacketSize /\ from + TsPacketSize \notin SyncBytes(w))
         THEN "BARE_TS"
    ELSE IF HighBit(w, from) THEN "QUIC_FEC"
    ELSE IF size >= 16 THEN "QUIC_FEC"
    ELSE "UNKNOWN"

\* The sync search of handle_bare_ts_data over input_buffer_ [lo, hi): the
\* first 0x47, or lo itself when there is none (sync_pos stays 0).
SyncPos(w, lo, hi) ==
    LET S == {o \in SyncBytes(w) : lo <= o /\ o < hi}
    IN  IF S = {} THEN lo ELSE CHOOSE o \in S : \A x \in S : o <= x

\* handle_bare_ts_data after the datagram made the buffer [lo, hi): the
\* bytes before the sync position are erased; with fewer than 188 bytes
\* left it waits; otherwise every whole 188-byte unit is cut, in order, and
\* erased.  Result: the new lo and the start offsets of the units.
handle_bare_ts_data(w, lo, hi) ==
    LET s  == SyncPos(w, lo, hi)
        nb == (hi - s) \div TsPacketSize
    IN  IF hi - s < TsPacketSize THEN [lo |-> s, units |-> <<>>]
        ELSE [lo    |-> s + nb * TsPacketSize,
              units |-> [k \in 1..nb |-> s + (k - 1) * TsPacketSize]]

\* output_ts_packets as far as the adapter's state goes: a non-empty batch
\* starts the stream (stream_started_, on_start_stream) on the first call;
\* the units go to the TS demuxer, which is not modelled.
output_ts_packets(started, batch) == started \/ batch # <<>>
=============================================================================
