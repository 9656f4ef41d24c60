# TLA+ models of the SRS-IAdapter receive path

This directory models the SRS-IAdapter source (`src/srs-source/trunk/src/app/adapter`) in TLA+. The models are checked with TLC.

The current models cover the QUIC+FEC transport-stream ingest path and the framed-protocol adapter:

- GF(2^8) arithmetic;
- the Reed–Solomon and XOR repair of one FEC group;
- the FEC repair manager;
- the reorder buffer, checked against an abstract ordered-delivery specification by refinement;
- `QuicFecTsAdapter::feed`, which composes the three components above, for one or more peers, checked against an abstract FEC-channel specification by refinement;
- protocol detection and the bare-TS path of `QuicFecTsAdapter` (sync search and 188-byte cutting);
- the jitter buffer behind `FrameBus`;
- the framed-protocol parser `MyProtoAdapter::feed` (header/payload state machine, timestamps, stream start/stop, the parameter-set store and the hot-start resend, `close`);
- the UDP front end: the two casters' `QuicUdpHandler`s, with their adapters, QUIC sessions and idle cleanup, over the shared `AdapterStatsManager` connection registry.

## 1. The system (inventory)

| Part (spec) | Source | State | Operations that change state |
|---|---|---|---|
| GF(2^8), RS solver | `fec_group_buffer.cpp` 382–597 | exp/log tables (static, built once) | `init_gf_tables`; `build_vandermonde_matrix` and `solve_linear_system` are pure |
| FEC group buffer (C2) | `fec_group_buffer.cpp` 16–379, 599–615 | `blocks_`: index → block | `add_block`, `repair` (`repair_rs`, `repair_xor`) |
| FEC repair manager (C3) | `fec_group_buffer.cpp` 618–804 | `groups_`: id → group, stats | `create_group_if_needed`, `add_block`, `check_and_repair_with_metadata`, `cleanup_expired` |
| Reorder buffer (C4) | `reorder_buffer.cpp` | `buffer_`: seq → fragment, `expected_sequence_`, stats | `add_packet`, `get_ordered_packets`, `clear` |
| QUIC+FEC TS adapter | `quic_fec_ts_adapter.cpp` | per connection: a manager and a reorder buffer; the static `global_seq_counter`; mode; sessions; the TS handler's parameter sets, changed and sent flags, AAC configuration | `start`, `feed`, `detect_protocol`, `handle_quic_data`, `handle_bare_ts_data`, `process_fec_groups`, `process_reorder_buffer`, `cleanup_expired_sessions`, `close`; the TS handler's `on_ts_message`, `on_ts_video`, `on_ts_video_hevc`, `on_ts_audio`, the header and frame writers, `push_to_live_source` |
| UDP dispatcher (C10) | `quic_udp_handler.cpp` | per handler: adapters, last activity and QUIC sessions per ip:port; the static `packet_count` shared by all handlers | `on_udp_packet`, `get_or_create_adapter`, `get_or_create_quic_session`, `cleanup_expired_adapters` |
| QUIC session wrapper (C9) | `quic_session_wrapper.cpp` | datagram callback and its context (the adapter); the QUIC library connection when built with `SRS_QUIC_ENABLED` | `init_server`, `on_udp_packet`, `process_connections`, `close` |
| Framed-protocol adapter (C8) | `myproto_adapter.cpp` | input buffer, header/payload state | `feed`, `parseHeader`, `parsePayload`, `createStdFrame` |
| Jitter buffer (C5) | `jitter_buffer.hpp` | min-heap by dts, last output dts, dts history, config | `push`, `pop`, `flush`, `clear`, `update_config` |
| Parameter set store (C6) | `parameter_set_manager.hpp` | latest SPS/PPS/VPS/ASC/Opus header | `update_parameter_set`, `get_all_parameter_sets`, `clear_all` |
| TS demux bridge, frame bus (C7) | `frame_bus.cpp`, `frame_to_source_bridge.cpp` | the bus's jitter buffer; the bridge's SRS source | `push`, `pop`, `flush`, `clear`; the bridge publishes to SRS |
| Stats (C12) | `adapter_stats.cpp` | connection map, counters | `add_connection`, `remove_connection` |
| Registry, listener, casters (C11) | `core/`, `srs_app_caster_*` | factory map | registration at startup |

**How the parts interact.** SRS runs all ingest on one coroutine per UDP endpoint, so nothing here is preempted. The interleavings that matter are these:

- the order in which datagrams arrive;
- the order of feeds of different peers;
- the passage of time between feeds.

A datagram takes the following path:

1. `QuicUdpHandler::on_udp_packet` gives the datagram to the adapter of its ip:port.
2. `feed` parses the 16-byte header.
3. `handle_quic_data` calls `FecRepairManager::add_block`, which creates the group if needed.
4. `process_fec_groups` runs the sweep `check_and_repair_with_metadata`. The sweep removes expired groups and repairs the groups that can be repaired.
5. Each restored shard goes to `ReorderBuffer::add_packet` with seq `++global_seq_counter`. This counter is a function-local static, so it is shared by all adapters.
6. `process_reorder_buffer` drains the contiguous fragments to the TS demux.
7. The TS demuxer (`SrsTsContext`) calls `TsHandlerAdapter::on_ts_message` with each complete PES. The handler cuts it into NAL units or ADTS frames, sends a sequence header when the parameter sets change, and pushes frames to the live source.

An error from step 3 returns from `feed` before steps 4–6.

In step 1 the handler creates the adapter on the first datagram of an ip:port and starts it, and a failed start deletes it again. It creates one `QuicSessionWrapper` per ip:port, whose datagram callback holds the adapter pointer. By default `SRS_QUIC_ENABLED` is 0, so the wrapper is a placeholder that passes the datagram straight to the callback, and the callback swallows feed errors. A build with QUIC but no certificate fails `init_server`, and the handler falls back to calling `feed` directly.

Each caster (`myproto`, `quic_fec_ts`) has its own handler. The two handlers share two things:

- the `AdapterStatsManager` singleton, where both the handler and the adapter's `start()` register connections;
- the function-static `packet_count`. Every 100th datagram, counted over both handlers, runs `cleanup_expired_adapters` on the handler that received it.

**Hard behaviours.** The code is exposed to these:

- loss, duplication and reordering of shards;
- shards that arrive after their group was repaired and erased;
- expiry racing repair;
- the group cap and its eviction;
- the reorder buffer's cap, its initial `expected_sequence_` and its window;
- several peers sharing one counter;
- GF table edge cases (log[1], wrap at 255);
- singular pivots.

## 2. Modules

Each module below lists its source, its state and its actions.

- **`GF256`.** Source: the GF(2^8) tables and the RS solver.
  - `gf_exp_table` and `gf_log_table` are built exactly as `init_gf_tables` does (in blocks of 16 steps). This includes `log[1]` never being written.
  - `gf_mul_fast` and `gf_inv` are modelled as written.
  - `BuildVandermonde` models `build_vandermonde_matrix`.
  - Gauss–Jordan elimination (`PivotRow`, `SwapRows`, `NormalizeRow`, `EliminateRow`, `EliminateColumn`, `GaussJordan`, `SolveLinearSystem`) keeps the code's pivot rule: the first later non-zero row, else the diagonal.
  - `RefMul` and `RefApply` are reference arithmetic: shift-and-add modulo 0x11D.
- **`FecGroup`** (EXTENDS `GF256`). Source: one `FecGroupBuffer`.
  - `blocks_` is a function from normalized index to shard. A shard's payload is one byte, since the code decodes every byte position alike.
  - `AddBlock`, `can_repair`, `is_complete`, `get_missing_blocks`, `repair`, `repair_rs` and `repair_xor` are modelled, each with the code's branch order.
  - `Recovered` extrapolates the seq and takes the keyframe flag, as the code does.
- **`FecRepairManager`** (EXTENDS `FecGroup`). Source: the manager's group map with creation times and its statistics.
  - `create_group_if_needed` includes its `oldest_id > 0` test.
  - `manager_add_block` models `add_block`.
  - `check_and_repair_with_metadata` models the sweep (`SweepResult` gives its effect from the expired, tried and repaired groups).
- **`ReorderBuffer`.** Source: `add_packet`, `get_ordered_packets`, `is_packet_expired` and `has_ready_packets`.
  - A fragment is one size unit, so `MaxFragments` stands for `max_buffer_size`.
  - `align_ts_packets` is abstracted: a fragment yields its item.
- **`QuicFecTsAdapter`** (EXTENDS `FecRepairManager` and `ReorderBuffer`). Source: the composition of the components above.
  - State: `net` (the datagrams in flight), and per peer `fecManagers`, `reorderBuffers` and `delivered`. It also holds the shared `globalSeqCounter` and the cached `clock`.
  - `Feed(d)` is the whole of `feed` for a valid QUIC+FEC datagram, including the early error return. The modelled seqs are below 71, for which `detect_protocol` always picks QUIC+FEC; `cleanup_expired_sessions` has no effect, because `sessions_` is never filled.
  - `feed(d)` is the code; `Feed(d)`, `Duplicate(d)` and `Lose(d)` are the network, which has no code. `Feed` delivers a datagram in flight. `Duplicate` delivers a second copy of one already received or lost, at most `MaxDups` times. `Lose` drops one.
  - `Tick` advances the clock.
- **`BareTsInput`.** Source: `detect_protocol`, `handle_bare_ts_data` and the stream start of `output_ts_packets`.
  - The sender's TS stream is a sequence of blocks: a TS packet (188 bytes, first byte 0x47), a packet cut short, or junk (no 0x47). A block records whether its first byte has the high bit set. Bytes are named by stream offset.
  - In bare-TS mode every datagram is appended, so `input_buffer_` is the stream between `lo` and `sent`. `SyncPos` is the search loop, with `sync_pos` staying 0 when no 0x47 is found. `handle_bare_ts_data` returns the new `lo` and the start offsets of the units cut.
  - `detect_protocol` keeps the code's rules in order: the 4-byte minimum, the 0x47 test with the check at offset 188, the high bit, and the 16-byte seq/group test. Any 16 bytes of a TS stream parse to a non-zero seq or group.
- **`TsHandler`.** Source: `QuicFecTsAdapter::TsHandlerAdapter`, the handler the TS demuxer calls with each complete PES message (`quic_fec_ts_adapter.cpp` 33–98 and 789–1256).
  - A PES payload is a sequence of units `[t, v]`. `t` is the type the code classifies: SPS, PPS, VPS, IDR/IRAP, slice, AUD, SEI, ADTS frame, or `"bad"` for a unit the demuxer fails on. `v` is the value of a parameter set or of an AAC configuration; 0 stands for the empty string.
  - The handler state is the code's members: `h264_sps_`, `h264_pps_`, the two H.264 changed flags and `h264_sps_pps_sent_`; `h265_vps_`, `h265_sps_`, `h265_pps_`, the one HEVC changed flag and `h265_vps_sps_pps_sent_`; and `aac_specific_config_`.
  - `on_ts_video`, `on_ts_video_hevc` and `on_ts_audio` are one iteration of their loops, with the code's skips and early returns. H.264 breaks on a demux error and skips the "drop sps/pps" error; HEVC returns on both. The writers keep their guards: H.264 needs both changed flags; HEVC needs its flag and three non-empty sets; the flags are reset only after a successful push. `on_ts_message` is RECURSIVE over the units and stops where the code's loop ends.
  - Every `push_to_live_source` is appended to a log `[codec, kind, ps, ok]`, which the code never reads. A header carries the sets it was muxed from. A frame carries the sets the handler held when it was pushed, i.e. the ones the encoder sent last. `ok` is FALSE when the push failed: no source (`get_source()` empty before `create_source` or after `close`), or `on_frame` failed.
  - Left out: timestamps, FLV muxing (taken not to fail on units the demuxer accepted), the frame statistics, and the unsupported-codec error, which changes no state.
- **`JitterBuffer`.** Source: `jitter_buffer.hpp`. The heap is a bag of dts. `push` has the duplicate check and the late check (`is_frame_late`). `pop` takes the minimum and sets `last_output_dts_`. `flush`, `clear` and `update_config` are modelled too. Statistics, receive times and the never-set `is_closed_` are left out.
- **`FecChannel`.** An abstract specification with no code behind it: what the QUIC+FEC receive path hands each peer's TS demux. The demux is handed whole groups, one group per step, each group's K data units together. A group may be lost, and groups may go out in any order of their ids. The order inside a group is left open, because the code does not keep index order (finding B). A group may be handed out again: spec 3.2 and 4.2 say a repaired group is consumed, but a late or duplicated shard re-creates it (finding F), so that promise is left out of the abstract specification and is checked on its own by `DeliveredAtMostOnce` in the violation run.
- **`OrderedDelivery`.** An abstract specification with no code behind it: what the reorder buffer promises. Any sequence numbers may be given. What is delivered is a subset of them, in strictly increasing order, each at most once.
- **`ParameterSets`.** Source: `ParameterSetManager`. A value is a sequence of NAL units `[sc, t, n]` (start-code length, type, length). It has the validators, `update_parameter_set` (replace when valid), `get_all_parameter_sets` in enum order, and `clear_all`.
- **`MyProtoAdapter`.** Source: `myproto_adapter.cpp`.
  - The sender's byte stream is `wire`, a sequence of frames `[len, valid, key, b, ts]`. Bytes are counted, not stored: `input_buffer_` is the wire between `base` and `sent`, and `pos` is `buffer_->pos()`.
  - `Feed(c)` is the top of `feed`: the heartbeat check (`HeartbeatCheck`), the append and a fresh `SrsBuffer`.
  - Each iteration of the `while (left > 0)` loop is one step: `ParseHeader`, `parsePayload` or `createStdFrame`. `FeedReturn` is the erase at the end; `FeedError` is an error return, which erases nothing.
  - `ParseHeader` compares with `SizeofHeader` (`sizeof(MyProtoFrame)`, 44 on LP64) and reads `HeaderBytes` = 35. When fewer bytes are left, the iteration changes nothing and the loop goes round again.
  - A header read at an offset that is not a frame start reads payload bytes, whose magic does not match: it is an error.
  - `createStdFrame` keeps the base timestamp, the B-frame pts, `validateTimestamp`, the stream gating (keyframe or hot start), the low-latency B drop, and the update of `last_dts_ms_` and the wallclock. A frame's payload is a sequence of NAL units. `Normalize` gives a payload without a start code a 4-byte one, and `processParameterSets` latches each SPS/PPS behind a 4-byte start code into `psets`. With hot start, a keyframe is preceded by `resend_parameter_sets`. Codec fields and the media bytes are left out.
  - `hotStart` is chosen in the initial state from `HotStarts`. `Close` is `close()`: a stop event if the stream started, the parser reset, `clear_all`, and `closed`, after which `feed` is never called.
  - No other step interleaves with a running feed (all actions but the loop steps are guarded by `~inFeed`): the adapter runs on one coroutine.
- **`AdapterStats`.** Source: `add_connection` and `remove_connection` of `AdapterStatsManager`. Each is an operator on the stats value: the set of connection ids plus `total_connections` and `active_connections`. A connection's record is reduced to its id, because `add_connection` replaces a record under the same id.
- **`QuicUdpHandler`** (EXTENDS `AdapterStats`). Source: `quic_udp_handler.cpp`, plus the placeholder and no-certificate behaviour of `quic_session_wrapper.cpp`.
  - State: per handler `adapters` (peer → adapter generation and its own stats id), `lastActivity` and `sessions` (peer → the generation the callback points to). Shared state: `stats`, `packetCount`, the cached clock `now`, and the `build` of the session wrapper.
  - `on_udp_packet(h, p)` is the whole handler, composed of `get_or_create_adapter`, `get_or_create_quic_session`, `DatagramCounted` and `CountAndSweep` (which includes `cleanup_expired_adapters`). Its inputs are the start outcome, MyProto's `rand()` and the feed outcome.
  - Adapters are abstract: only their stats registrations are kept. `start()` registers the adapter's own id as its last step. That id is `OwnId`: the ip:port for QUIC+FEC, and `<<now, r>>` for MyProto. `close()` removes the id, and the destructor calls `close()` again (`ReleaseAdapter`).
  - `Tick` advances the clock.
- **MC modules**: `MC_FecDecoder`, `MC_InputBuffers`, `MC_QuicFecTsAdapter`, `MC_MyProtoAdapter` and `MC_QuicUdpHandler` hold the harnesses and the properties.
  - `MC_FecDecoder` has three harnesses, and a behaviour runs the one chosen among `Levels` in its initial state.
    - `field`: every byte pair is an initial state, checked through `gf_mul_fast` and `gf_inv`.
    - `solver`: the elimination runs one column per step on every Vandermonde system the code builds.
    - `group`: every shard of one group is sent, with XOR parity at index k; `Receive` can carry a duplicate or an out-of-range index.
  - `MC_InputBuffers` has four harnesses in the same way.
    - `reorder`: `add_packet` with any seq in 1..MaxSeq and either keyframe flag, the drain and the clock. The history variable `given` lets `ImplementsOrderedDelivery` instantiate `OrderedDelivery`, with `out` as `delivered`.
    - `jitter`: `FrameBus::push` of any dts, `pop`, `flush`, `clear` and `update_jitter_config`. `popped` records what the consumer received since the last clear.
    - `ts`: one `QuicFecTsAdapter` fed a stream from `Wires` in datagrams of any length in `DgramLens`, with detection on or off, until `close`. `bareFrom` records where bare-TS mode began.
    - `demux`: one `TsHandlerAdapter` given up to `MaxMsgs` PES messages from `Pes`, in any order and any mix of codecs. In each message, the pushes made for one chosen unit may fail, at most `MaxFails` times per behaviour. `OnTsMessage` is the call from the decode loop of `output_ts_packets`.
  - `MC_QuicUdpHandler` gives each caster two peers of its own.
  - `MC_MyProtoAdapter` defines the wires: a GOP with a raw SPS, a B-frame, a later keyframe bringing a new SPS and a trailing slice; a timestamp going back followed by a bad magic; and a last frame shorter than `sizeof(MyProtoFrame)` − 35. Datagrams end at frame starts, 45 bytes into a frame, or at the end of the wire.

Heavy results (a repair, a sweep, an elimination step) are passed to small operators as arguments (`AfterRs`, `RsSolve`, `SweepResult`, `Handled`, `Swept`, `Drained`, `EliminateSwapped`) rather than named by a LET used several times, so each is evaluated once per step.

**Refinement.** `OrderedDelivery` is the abstract specification of the reorder buffer. `MC_InputBuffers` checks `ImplementsOrderedDelivery == Delivery!Spec`, where `Delivery == INSTANCE OrderedDelivery WITH Seqs <- 1..MaxSeq, delivered <- out`. An `add_packet` step is a `Give`. A drain step is a `Deliver` of the seqs it hands out. A tick is a stutter. `MC_QuicFecTsAdapter` checks `ImplementsFecChannel == Channel!Spec`, where `Channel == INSTANCE FecChannel WITH out <- delivered`. A `Feed` or `Duplicate` that repairs a group is a `Deliver` of that group. Every other step is a stutter: a feed that repairs nothing, a loss, a tick. It holds because each feed's sweep can repair only the group its shard joined (a group that failed to repair before fails again on the same shards), the sweep hands out all K data units of a repaired group, the shared counter numbers them without a gap, and with one peer the reorder buffer drains them in the same feed. The other properties are stated directly over the detailed state.

## 3. Runs

The `group` harness of `MC_FecDecoder` sends XOR parity at index k, as `repair_xor` expects. RS parity is whatever the sender put there.

| Run | cfg | Expect | Bounds | What it shows |
|---|---|---|---|---|
| fec_decoder | `MC_FecDecoder.cfg` | pass | field: all 256×256 pairs; solver: k=8, 1–4 missing indices, unknowns in {3,200}; group: k=6, n=9, payload bits {0,1} | `gf_mul_fast` equals the reference product and `gf_inv` is an inverse. The elimination recovers the unknowns of every Vandermonde system the code builds. Repair hands out k distinct indices, and fails only when fewer data than missing indices are present (finding C). |
| fec_group_scenario_c | `MC_FecDecoder_ScenarioC.cfg` | violation | group harness, k=4, n=5 | A single loss is "repaired" to the wrong bytes (finding A). |
| input_buffers | `MC_InputBuffers.cfg` | pass | reorder: seq 1..4, 6 adds, time 0..3, 2 fragments, window 1; jitter: dts 0..4, 6 pushes, max_delay {0,2}; ts: 4 streams of 3–5 blocks, datagrams of {3,12,100,188,376} bytes, detection on/off; demux: 13 PES messages (5 H.264, 5 HEVC, 3 AAC), 5 messages, 2 failed pushes | Every fragment is accounted for; nothing is stored below expected; expected never decreases; the reorder buffer refines `OrderedDelivery`. The jitter buffer's consumer gets strictly increasing dts between clears. The bare-TS path runs over every datagram cut (only `TypeOK` is checked there; its findings R, S and T are violations). In the TS handler, no H.264 or HEVC frame reaches the live source before a header of its codec got through (`NoFrameBeforeSequenceHeader`). |
| adapter | `MC_QuicFecTsAdapter.cfg` | pass | 1 peer, groups {0,1,2}, k=2, n=3, 2 groups max, deadline 1, time 0..2, 1 duplicated datagram | No fragment is stranded; group accounting holds; the receive path refines `FecChannel` (`ImplementsFecChannel`): each feed hands the demux at most one group, whole. |
| adapter_evict | `MC_QuicFecTsAdapter_Evict.cfg` | violation | as above, time 0..3, no duplicate | An expired group 0 is not evicted (finding E). |
| adapter_two_peers | `MC_QuicFecTsAdapter_TwoPeers.cfg` | violation | 2 peers, groups {0,1} | The shared counter strands one peer's fragments (finding D). |
| adapter_late_shards | `MC_QuicFecTsAdapter_LateShards.cfg` | violation | 1 peer, group {0}, k=2, n=4 | Late shards cause a second delivery (finding F). |
| myproto | `MC_MyProtoAdapter.cfg` | pass | 3 wires of 3–5 frames, heartbeat 1, time 1..3, hot start off and on, drop-B | Pushed dts never decreases. Without hot start, no non-keyframe is pushed first or right after a stop-of-stream. With hot start, every keyframe that carries an SPS behind a 4-byte start code is preceded, with only parameter-set events between, by that SPS and not by one latched earlier. |
| myproto_scenario_a | `MC_MyProtoAdapter_ScenarioA.cfg` | violation | Scenario A: one frame, 5-byte payload | `feed` never returns (finding G). |
| myproto_bad_magic | `MC_MyProtoAdapter_BadMagic.cfg` | violation | 2 frames, a bad magic, a frame | A frame is pushed twice after the error (finding I). |
| udp_handler | `MC_QuicUdpHandler.cfg` | pass | both casters, 2 peers each, both builds, start may fail, timeout 1, sweep every 2nd datagram, time 0..4, 6 datagrams, 4 adapters | Every kept session calls back into its peer's live adapter, including a peer that returns after its adapter expired. The stats' ip:port entries are exactly the peers with a live adapter, through start failures, the double `close()` and expiry. |
| udp_handler_active_leak | `MC_QuicUdpHandler_ActiveLeak.cfg` | violation | as above | The first QUIC+FEC datagram leaves `active_connections` at 2 with one connection listed (finding L). |

**Why the bounds are enough.**

- k=6, n=9 reaches every branch of `repair`: complete, RS of 1 to 3 unknowns, RS failure, the XOR fallback, and failure.
- The adapter bounds are large enough for each of the following:
  - fill the group map (cap 2, three group ids);
  - let a group expire (deadline 1; clock up to 2 in `adapter`, where a group created at 0 has expired at 2, and up to 3 in the violation runs);
  - re-create a repaired group from a duplicate (one copy, of a datagram already received or lost; the violation runs keep `MaxDups = 0` so that each shows its own finding);
  - reorder shards within and across groups;
  - repair from parity.
- Window=200 keeps reorder expiry out of the adapter runs (the default `reorder_window_ms` is 200 and the modelled feeds are a few ms apart). An expired fragment would be dropped and leave a group cut short, which `FecChannel` does not allow. Expiry is covered by the `reorder` harness of `MC_InputBuffers` with window 1 and relax 1.
- The `jitter` harness uses dts 0..4 with max_delay 0 and 2. This reaches a duplicate, a frame late by the rule, a frame pushed after a pop that is still accepted, a pop of dts 0 (which leaves the late check off), and a clear followed by old dts.
- The `ts` streams reach every branch of `detect_protocol`: too short, 0x47 with and without a packet at offset 188, the high bit, 16 bytes, and unknown. They also reach junk between packets, a partial packet left in the buffer across datagrams, and a short packet after which units straddle packets until the next call realigns. With detection off the mode stays unknown. The real packet size 188 is kept, because only offsets are stored.
- The `demux` messages reach every branch of the handler. For H.264: a full IDR access unit, a new SPS alone, an AUD, a repeated SPS/PPS, and a demux error that breaks the loop. For HEVC: the same with VPS, an SEI, and a slice ahead of the sets, which is refused and ends the message. For AAC: the first frame with its header, a second frame, a changed configuration, and a demux error. Five messages are enough to send a header, change one set, push a frame, fail a push and recover. Two failures let a header push and a frame push both fail in one behaviour.
- In `udp_handler`, the timeout 1 with the clock at 0..4 lets an adapter expire and its peer come back. The sweep every 2nd datagram, with 6 datagrams, runs the sweep three times, from either handler. Two peers per caster are needed: the datagram that triggers a sweep refreshes its own peer, so with one peer per caster no sweep ever removes anything (finding M). `Rands` has one value, so two MyProto adapters created in the same tick get the same id, as the code can. The symmetry permutes each caster's own peers, which `Targets` treats alike.
- The MyProto wires reach every path of the loop: a datagram that ends in a payload, at a frame end (the frame waits in COMPLETE), or inside a header (the loop spins). They also reach a bad magic and a re-parse after it, a timestamp going back, a B-frame, a non-keyframe before the stream starts, and a heartbeat stop followed by a non-keyframe and then a keyframe. Heartbeat 1 with the clock at 1..3 stands for `heartbeat_interval_ms` scaled down; only "gap > interval" matters.

**Fairness.**

- The UDP handler properties are safety properties. No fairness is assumed, because nothing in the handler runs without a datagram (finding M).
- The QUIC+FEC, FEC and reorder properties are safety properties, so no fairness is assumed there: the code guarantees no progress, because datagrams may never come.
- `MyProtoAdapter` assumes weak fairness of `FeedLoop`. The loop is straight-line code on one coroutine: once `feed` is called, its iterations keep running.
- `FeedReturns` is violated by a behaviour that ends in stuttering. That stuttering is the loop going round with `parseHeader` consuming nothing.

`CHECK_DEADLOCK FALSE` is set in every run, for these reasons:

- the network or the sender may deliver everything and then stop;
- the harnesses of the pure algorithms end when their input is consumed.

## 4. Findings

Findings A, D, E, F, G, I and L are listed in `PROJECT.json` with the runs that show them:

- **A.** The RS right-hand side is the raw parity (line 314), and RS runs before XOR, so single losses are mis-repaired.
- **D.** The shared static `global_seq_counter` stalls the reorder buffer of a second peer.
- **E.** `oldest_id > 0` never evicts group 0. Together with `feed`'s early return, the map stays full.
- **F.** A shard arriving after its group was repaired re-creates the erased group. With n−k ≥ k late shards alone repair it again. With any n, a network duplicate of a received shard plus one late shard do: with k=2, n=3 and `MaxDups = 1`, TLC finds group 0 delivered twice, after data 0, data 1, parity, and a copy of data 0. The group reaches the demux twice.
- **G.** `parseHeader` waits for `sizeof(MyProtoFrame)` bytes: 44 on LP64 (40 on i386). It reads only 35 and consumes nothing while waiting, so `feed`'s loop never ends on a datagram that stops inside a header, or on a last frame with a payload under 9 bytes. Spec Scenario A is such a frame. The spec gives a 36-byte header.
- **L.** `QuicFecTsAdapter::start` registers its `connection_id_`, which is the handler's ip:port, and `get_or_create_adapter` registers the same id again. `add_connection` replaces the record but increments `active_connections` both times, while cleanup removes the id once. So `active_connections` gains one per QUIC+FEC session and never returns to zero.
- **I.** An error inside the loop returns before the erase. The UDP handler keeps the adapter and feeds it again, so the next `feed` re-parses frames already pushed, and pushes one of them (dts equal to `last_dts_ms_`) again. Spec property 9 says a bad magic is fatal.

The following were found while modelling. No run checks them; each is a hazard in `PROJECT.json`:

- **B.** Repair output is not in index order. `repair_rs` and `repair_xor` push the recovered shards first, and `process_fec_groups` numbers the TS data in that order.
- **C.** `build_vandermonde_matrix` needs at least as many received data shards as missing ones. The passing `RepairFailsOnlyWithoutEnoughData` states exactly when repair fails; spec property 12 expects success whenever parity suffices.
- **H.** The last frame of a datagram waits in `STATE_COMPLETE` until the next datagram arrives.
- **J.** `detect_protocol` locks a QUIC+FEC peer into bare-TS mode when its first datagram's seq has low byte 0x47.
- **K.** `processParameterSets` stores an SPS/PPS as the rest of the keyframe payload, so the hot-start resend repeats the slice data. `ParameterSets` now models this, and the latched values carry the following units.
- **M.** Idle adapters are released only by `cleanup_expired_adapters`, which runs inside `on_udp_packet`, on the handler whose datagram reaches the 100th count. That datagram has just refreshed its own peer. So once traffic stops, the last client of a caster is never released, and its stream is never stopped. The spec says sessions idle-expire after 5 minutes.
- **N.** `is_frame_late` drops every dts below `last_output_dts_ + max_delay_ms`. That includes in-order frames arriving within `max_delay_ms` after the last output. The spec drops only frames older than the last output by more than `max_delay_ms`.
- **O.** `JitterBuffer::flush` takes every frame off the heap and discards it, without counting it. The spec says flush processes the remaining frames.
- **Q.** `processParameterSets` searches only 4-byte start codes. An SPS behind a 3-byte start code is never latched, and hot start resends nothing for it (reached by the `WireBackwards` wire).
- **R.** A bare-TS sender whose first datagram holds at least 376 bytes with no 0x47 at offset 188 is detected as QUIC+FEC for good. Every later datagram goes to the header parse, and the stream never starts (reached by the third `ts` wire).
- **S.** `detection_timeout_ms` is never read, and the `default_mode` branch of `detect_protocol` is dead: it sits under `!enable_protocol_detection`, in a call made only when detection is on. A first datagram that decides nothing leaves the mode unknown and is parsed as a QUIC+FEC header. The spec falls back to the default mode after the timeout.
- **T.** The sync search of `handle_bare_ts_data` runs once per datagram and does not check for a second 0x47 188 bytes later. After a short packet, every unit cut in the same call straddles two packets; the next call realigns. A buffer of junk alone is kept (`sync_pos` stays 0) and is cut into units once it reaches 188 bytes.

- **U.** `write_h264_sps_pps` writes a header only when both `h264_sps_changed_` and `h264_pps_changed_` are set (line 1032). An encoder that changes its SPS alone, for example a new resolution with the same PPS, gets no new header. The IDR behind it reaches the live source under the old SPS. `FramesUnderCurrentHeader("h264")` in `MC_InputBuffers` states it: with it as the invariant of the `demux` level, TLC finds <<SPS 1, PPS 1, IDR>> then <<SPS 2, IDR>>. The HEVC writer has one flag for the three sets and passes the same property. No run slot is left for a violation run.
- **V.** `on_ts_audio` stores `aac_specific_config_` before it pushes the AAC sequence header (lines 909–918). If that push fails, the header is never re-sent, and every later AAC frame reaches the live source without one. The `demux` level reaches it: the first ADTS frame's push fails, then any AAC message follows.
- **W.** `aac_specific_config_` is never compared again once set. A later ADTS configuration (sample rate, channels) is never announced, and its frames go out under the first header (reached with the configuration-2 message).
- **Y.** `on_ts_video_hevc` stores a new VPS, SPS or PPS before `write_h265_vps_sps_pps` pushes the header (lines 966–1012). When that push fails, the handler holds the new sets and the changed flag, but a repeat of the same sets is skipped as unchanged (lines 968, 988, 1007), and the header is only written from there. So the header is never re-sent, and frames go out under the old one. `FramesUnderCurrentHeader("hevc")` in `MC_InputBuffers` states the promise; TLC finds a header <<1,1,1>>, a frame, a failed header <<1,2,1>>, then a frame under <<1,2,1>>. No run slot is left for a violation run.
- **X.** `get_route_for_port` (`quic_udp_handler.cpp` 67–73) returns the fixed route for every client port without a port mapping. Every such peer of a caster gets its own adapter on the same vhost/app/stream, and so does one encoder whose NAT port changed while its old adapter waits for idle expiry (finding M). Each adapter's `TsHandlerAdapter` keeps its own parameter sets and sent flags and pushes into the one live source that `fetch_or_create` returns. So peer B's frames can reach the source right after peer A's sequence header, and B's first header replaces A's while A keeps sending. The spec assumes one publisher per hub. `TsHandler` models one handler per source: two handlers on one log break `FramesUnderCurrentHeader` as soon as both send a header, so no run is spent on it.

## 5. Not modelled, and the plan

- **Not modelled**, for these reasons:
  - the QUIC session wrapper in a build with QUIC and certificates. That build cannot occur: the handler's constructor sets empty certificate paths, and `set_quic_cert_files` has no caller. So the wrapper's connection path (`conn_` on an Initial packet, `read_pkt`, `send_datagram`, the handshake callbacks) is unreachable. Its handshake, crypto and timers would be ngtcp2's anyway;
  - the per-frame counters of `AdapterStatsManager`, its JSON and its HTTP handler: they only count and format;
  - the handlers' route setters and `get_route_for_port`: a route only names the stream; the sharing it causes is finding X;
  - `init_config` only range-checks its parameters and rejects the start; the models take k, n, the deadline and the window as constants inside those ranges;
  - the casters, the registry and the listener are startup wiring;
  - `QuicFecTsAdapter::flush`, and `get_parameter_set`, `has_parameter_set` and `clear_parameter_set` of the parameter-set store, have no caller;
  - `cleanup_expired_sessions` only walks `sessions_`, which is never filled;
  - the TS demux inside `output_ts_packets` belongs to SRS (`SrsTsContext`), so `TsHandler` is given whole PES messages. Its early trigger hands a partial video PES to the handler and frees the message, under a function-local static `last_processed_size` that every adapter shares and nothing resets; the byte-level PES assembly it depends on is not modelled. `FrameToSourceBridge` also belongs to SRS; its missing source is one of the push failures `TsHandler` allows;
  - the statistics of the jitter buffer, `FrameBus` and the parameter-set store are read by no control path;
  - `std_frame` and `e2e_tester` have no transitions;
  - `FrameBus` and its `JitterBuffer` are not used by any adapter; they are modelled on their own;
  - `align_ts_packets` and the PES/TS conversions are byte layout;
  - lost or reordered MyProto datagrams are not modelled. The framing has no resynchronization, so a loss leads to the bad-magic path of finding I.
- **What remains**, and why it is not modelled:
  1. Liveness of the MyProto stream start under hot start, and of the reorder drain once the sender stops. The drain never skips a gap (finding D) and nothing runs without a datagram (finding M), so the code gives no fairness under which either would hold.
  2. The early trigger of `output_ts_packets`, which hands `TsHandler` a cut video PES under the shared static `last_processed_size`. This needs the PES length and SRS's `SrsTsContext` in the abstraction; neither is in this repository.
  3. A QUIC+FEC sender whose seqs reach 0x47 fed into the detection of `BareTsInput` (finding J). This needs the header bytes in the byte abstraction and more than 70 shards per peer, beyond what TLC explores in the adapter run.
  4. Several peers on one live source (finding X). It is a composition of `TsHandler` instances over one log; the property it would check is violated as soon as two peers send headers.
