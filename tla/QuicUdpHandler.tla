--------------------------- MODULE QuicUdpHandler ---------------------------
(***************************************************************************)
(* The UDP front end of the adapters: one QuicUdpHandler per caster        *)
(* (AdapterListener creates one for "myproto" and one for "quic_fec_ts"),  *)
(* each keeping per peer ("ip:port") an adapter, its last activity and a   *)
(* QuicSessionWrapper whose datagram callback holds the adapter pointer.   *)
(* The handlers share two things: the AdapterStatsManager singleton and    *)
(* the function-static packet_count of on_udp_packet that schedules       *)
(* cleanup_expired_adapters every CleanupEvery-th datagram (100 in code).  *)
(*                                                                         *)
(* The adapters are abstract here: only their effect on the stats in       *)
(* start() and close() is kept.  Their stats id (connection_id_) is the    *)
(* handler's "ip:port" for QuicFecTsAdapter (start reads the               *)
(* "connection_id" parameter) and "myproto_<sec>_<ms>_<rand>" for          *)
(* MyProtoAdapter, drawn in its constructor from the cached clock: the     *)
(* pair <<now, r>> with r in Rands.  An adapter instance is named by a     *)
(* generation number, the value of the session's callback context.         *)
(*                                                                         *)
(* The session wrapper is modelled in the two behaviours the build can     *)
(* have, chosen once in build: "placeholder" (SRS_QUIC_ENABLED 0: init     *)
(* succeeds, on_udp_packet calls the callback, feed and parseFrame errors  *)
(* are swallowed) and "fallback" (QUIC compiled in, no certificate        *)
(* configured: init_server fails, no session is kept, the datagram is fed  *)
(* directly and a feed error returns before packet_count is incremented).  *)
(***************************************************************************)
EXTENDS AdapterStats, Integers, Functions, FiniteSetsExt, TLC

CONSTANTS
    Handlers,       \* protocol names of the casters' handlers
    Peers,          \* client addresses "ip:port"
    Targets,        \* pairs <<handler, peer>> of the traffic that is sent
    Rands,          \* values of rand() % 10000 in MyProto's connection id
    Builds,         \* session wrapper behaviours: "placeholder", "fallback"
    AdapterTimeout, \* adapter_timeout_ms_, in clock ticks
    CleanupEvery,   \* the 100 of ++packet_count % 100
    MaxTime,        \* bound on the cached clock
    MaxPackets,     \* bound on packet_count
    MaxAdapters     \* bound on adapter instances created

ASSUME /\ Handlers \subseteq {"myproto", "quic_fec_ts"}
       /\ Targets \subseteq Handlers \X Peers
       /\ Builds \subseteq {"placeholder", "fallback"} /\ Builds # {}
       /\ {AdapterTimeout, MaxTime, MaxPackets, MaxAdapters} \subseteq Nat
       /\ CleanupEvery \in Nat \ {0}

VARIABLES
    build,          \* the session wrapper behaviour of this build
    adapters,       \* adapters[h]: peer -> [gen, sid] (adapters_)
    lastActivity,   \* lastActivity[h]: peer -> time (adapter_last_activity_)
    sessions,       \* sessions[h]: peer -> gen of the callback's adapter
    stats,          \* the AdapterStatsManager singleton
    packetCount,    \* static packet_count of on_udp_packet
    now,            \* srs_time_now_cached(), in ticks
    nextGen         \* generation of the next adapter instance

vars == <<build, adapters, lastActivity, sessions, stats, packetCount, now, nextGen>>

StatsIds == Peers \cup ((0..MaxTime) \X Rands)

\* The per-handler maps as one record.
Handler(h) == [adapters |-> adapters[h], last |-> lastActivity[h],
               sessions |-> sessions[h]]

\* connection_id_ of an adapter created for peer p by handler h.
OwnId(h, p, r) == IF h = "myproto" THEN <<now, r>> ELSE p

get_or_create_adapter_no_activity(h, hs, st, p, ok, r, g) ==
    IF p \in DOMAIN hs.adapters
    THEN [hs |-> [hs EXCEPT !.last = [@ EXCEPT ![p] = now]],
          st |-> st, adapter |-> hs.adapters[p].gen]
    ELSE LET sid == OwnId(h, p, r) IN
         IF ~ok
         THEN [hs |-> hs, st |-> remove_connection(st, sid), adapter |-> 0]
         ELSE [hs |-> [hs EXCEPT !.adapters = (p :> [gen |-> g, sid |-> sid]) @@ @],
               st |-> add_connection(add_connection(st, sid), p),
               adapter |-> g]

\* get_or_create_adapter: an existing adapter gets its activity refreshed;
\* otherwise create + start(init).  start registers the adapter's own id
\* as its last step (a failure returns before it); on failure the adapter
\* is deleted, and ~Adapter() calls close(), which removes its own id; on
\* success the handler stores it and registers "ip:port" in the stats.
\* Returns the handler maps, the stats and the adapter (0 for nullptr).
get_or_create_adapter(h, hs, st, p, ok, r, g) ==
    IF p \in DOMAIN hs.adapters
    THEN [hs |-> [hs EXCEPT !.last = [@ EXCEPT ![p] = now]],
          st |-> st, adapter |-> hs.adapters[p].gen]
    ELSE LET sid == OwnId(h, p, r) IN
         IF ~ok
         THEN [hs |-> hs, st |-> remove_connection(st, sid), adapter |-> 0]
         ELSE [hs |-> [hs EXCEPT !.adapters = (p :> [gen |-> g, sid |-> sid]) @@ @,
                                 !.last     = (p :> now) @@ @],
               st |-> add_connection(add_connection(st, sid), p),
               adapter |-> g]

\* QuicSessionWrapper::init_server: the placeholder only marks the session
\* connected; with QUIC compiled in, the empty certificate path the
\* handler passes fails SSL_CTX_use_certificate_chain_file.
init_server_succeeds == build = "placeholder"

\* get_or_create_quic_session: an existing session is returned with the
\* callback context it was created with; a new one is created with the
\* given adapter as context and kept only if init_server succeeds.
get_or_create_quic_session(hs, p, a) ==
    IF ~init_server_succeeds
    THEN [hs |-> hs, session |-> FALSE]
    ELSE IF p \in DOMAIN hs.sessions
    THEN [hs |-> hs, session |-> TRUE]
    ELSE [hs |-> [hs EXCEPT !.sessions = (p :> a) @@ @], session |-> TRUE]

ReleaseAdapter_no_remove(st, sid, id) ==
    remove_connection(remove_connection(st, sid), sid)

\* The stats effect of cleaning up the adapter of id: close(), then
\* adapters_.erase runs ~Adapter(), which calls close() again, then the
\* handler's remove_connection(id).
ReleaseAdapter(st, sid, id) ==
    remove_connection(remove_connection(remove_connection(st, sid), sid), id)

\* The ids whose last activity is more than adapter_timeout_ms_ ago.
Expired(hs) == {id \in DOMAIN hs.last : now - hs.last[id] > AdapterTimeout}

cleanup_keeps_session(hs, st) ==
    LET E == Expired(hs) IN
    [hs |-> [adapters |-> Restrict(hs.adapters, DOMAIN hs.adapters \ E),
             last     |-> Restrict(hs.last, DOMAIN hs.last \ E),
             sessions |-> hs.sessions],
     st |-> FoldSet(LAMBDA id, s : ReleaseAdapter(s, hs.adapters[id].sid, id), st, E)]

\* cleanup_expired_adapters: every expired adapter is closed and erased
\* with its activity entry and stats, and its QUIC session is erased.
cleanup_expired_adapters(hs, st) ==
    LET E == Expired(hs) IN
    [hs |-> [adapters |-> Restrict(hs.adapters, DOMAIN hs.adapters \ E),
             last     |-> Restrict(hs.last, DOMAIN hs.last \ E),
             sessions |-> Restrict(hs.sessions, DOMAIN hs.sessions \ E)],
     st |-> FoldSet(LAMBDA id, s : ReleaseAdapter(s, hs.adapters[id].sid, id), st, E)]

\* The end of on_udp_packet: ++packet_count, and the sweep of this handler
\* when the shared count reaches a multiple of CleanupEvery.
CountAndSweep(hs, st) ==
    IF (packetCount + 1) % CleanupEvery = 0
    THEN cleanup_expired_adapters(hs, st)
    ELSE [hs |-> hs, st |-> st]

\* Whether on_udp_packet goes on to count the datagram: through a session,
\* the placeholder on_udp_packet calls on_quic_datagram_received, which
\* logs and swallows feed and parseFrame errors; without one, the fallback
\* feeds the adapter directly and returns a feed error.
DatagramCounted(q, feedOk) == q.session \/ feedOk

SetHandler(h, hs, st) ==
    /\ adapters'     = [adapters EXCEPT ![h] = hs.adapters]
    /\ lastActivity' = [lastActivity EXCEPT ![h] = hs.last]
    /\ sessions'     = [sessions EXCEPT ![h] = hs.sessions]
    /\ stats'        = st

\* on_udp_packet of handler h for a non-empty datagram from peer p: ok is
\* the outcome of start() should an adapter be created, r the rand() of
\* its constructor, feedOk the outcome of feed (seen only on the fallback
\* path; the session callback swallows it).
on_udp_packet(h, p) ==
    /\ <<h, p>> \in Targets
    /\ packetCount < MaxPackets
    /\ p \notin DOMAIN adapters[h] => nextGen <= MaxAdapters
    /\ \E ok \in BOOLEAN, r \in Rands, feedOk \in BOOLEAN :
         LET c == get_or_create_adapter(h, Handler(h), stats, p, ok, r, nextGen)
             q == get_or_create_quic_session(c.hs, p, c.adapter)
             z == CountAndSweep(q.hs, c.st)
         IN  /\ nextGen' = IF c.adapter = nextGen THEN nextGen + 1 ELSE nextGen
             /\ \/ /\ c.adapter = 0
                   /\ SetHandler(h, c.hs, c.st)
                   /\ UNCHANGED packetCount
                \/ /\ c.adapter # 0 /\ ~DatagramCounted(q, feedOk)
                   /\ SetHandler(h, q.hs, c.st)
                   /\ UNCHANGED packetCount
                \/ /\ c.adapter # 0 /\ DatagramCounted(q, feedOk)
                   /\ SetHandler(h, z.hs, z.st)
                   /\ packetCount' = packetCount + 1
    /\ UNCHANGED <<build, now>>

\* The cached clock advances.
Tick ==
    /\ now < MaxTime
    /\ now' = now + 1
    /\ UNCHANGED <<build, adapters, lastActivity, sessions, stats, packetCount, nextGen>>

NoPeers == [p \in {} |-> 0]

Init ==
    /\ build \in Builds
    /\ adapters = [h \in Handlers |-> NoPeers]
    /\ lastActivity = [h \in Handlers |-> NoPeers]
    /\ sessions = [h \in Handlers |-> NoPeers]
    /\ stats = EmptyStats
    /\ packetCount = 0
    /\ now = 0
    /\ nextGen = 1

Next ==
    \/ \E h \in Handlers, p \in Peers : on_udp_packet(h, p)
    \/ Tick

Spec == Init /\ [][Next]_vars
=============================================================================
