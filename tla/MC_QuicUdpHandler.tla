------------------------- MODULE MC_QuicUdpHandler -------------------------
(***************************************************************************)
(* The two casters' UDP handlers over the shared stats and packet counter. *)
(***************************************************************************)
EXTENDS QuicUdpHandler

CONSTANTS p1, p2, p3, p4  \* client addresses

\* Each caster receives from two peers of its own: a client address is
\* used with one caster only.
MCTargets == {"myproto"} \X {p1, p2} \cup {"quic_fec_ts"} \X {p3, p4}

\* The peers of one caster are interchangeable.
MCSymmetry == Permutations({p1, p2}) \cup Permutations({p3, p4})

TypeOK ==
    /\ build \in Builds
    /\ \A h \in Handlers :
         /\ DOMAIN adapters[h] \subseteq Peers
         /\ DOMAIN lastActivity[h] = DOMAIN adapters[h]
         /\ DOMAIN sessions[h] \subseteq Peers
         /\ \A p \in DOMAIN adapters[h] :
              adapters[h][p] \in [gen : 1..MaxAdapters, sid : StatsIds]
    /\ stats \in StatsType(StatsIds)
    /\ packetCount \in 0..MaxPackets
    /\ now \in 0..MaxTime
    /\ nextGen \in 1..(MaxAdapters + 1)

\* The datagram callback of every kept QUIC session points at the adapter
\* the handler currently holds for that peer: cleanup_expired_adapters
\* never leaves a session whose raw IAdapter* context has been deleted, and
\* a peer returning after its adapter expired gets a session for its new
\* adapter, not the old one.
SessionFeedsLiveAdapter ==
    \A h \in Handlers : \A p \in DOMAIN sessions[h] :
        /\ p \in DOMAIN adapters[h]
        /\ sessions[h][p] = adapters[h][p].gen

\* The "ip:port" entries of the stats singleton are exactly the peers with
\* a live adapter: a start failure (whose ~Adapter() close() removes the
\* QuicFecTsAdapter's "ip:port" id), an idle expiry and the double close()
\* of cleanup leave no stale entry behind and remove no entry of an
\* adapter still running.
StatsTrackLiveAdapters ==
    stats.connections \cap Peers = UNION {DOMAIN adapters[h] : h \in Handlers}

\* Spec C12: active_connections is the number of connections the stats
\* manager lists.
ActiveCountsConnections ==
    stats.active_connections = Cardinality(stats.connections)
=============================================================================
