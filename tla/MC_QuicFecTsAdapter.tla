------------------------ MODULE MC_QuicFecTsAdapter ------------------------
(***************************************************************************)
(* Properties of the QUIC+FEC receive path of one or more peers.           *)
(***************************************************************************)
EXTENDS QuicFecTsAdapter

\* Every shard process_fec_groups hands to a peer's reorder buffer is
\* drained to that peer's demux by the same feed(): no fragment is left
\* waiting behind a gap in the sequence numbers of its reorder buffer.
NoStrandedFragment ==
    \A p \in Peers : DOMAIN reorderBuffers[p].buf = {}

\* No TS unit reaches a peer's demux twice: a repaired group is removed by
\* the sweep, shards arriving after it can re-create the group but never
\* complete it again, and the reorder buffer hands each seq out once.
DeliveredAtMostOnce ==
    \A p \in Peers : IsInjective(delivered[p])

\* Every group a manager created is accounted for exactly once: counted
\* complete, repaired or expired (by the sweep or by the eviction in
\* create_group_if_needed), or still in the map.
GroupAccounting ==
    \A p \in Peers :
        fecManagers[p].total = fecManagers[p].complete + fecManagers[p].repaired
                               + fecManagers[p].expired
                               + Cardinality(DOMAIN fecManagers[p].groups)

Channel == INSTANCE FecChannel WITH out <- delivered

\* The receive path implements FecChannel: every feed() hands each peer's
\* demux at most one group, whole: its K data units together, with
\* duplicated and late datagrams.  It takes the sweep handing out every
\* data unit of a repaired group, the shared counter numbering the
\* restored units without a gap, and the reorder buffer draining them in
\* that order in the same feed().
ImplementsFecChannel == Channel!Spec

\* Spec 3.3: when the group map is full, a shard of a new group evicts an
\* expired group, and the insertion fails with backpressure only when no
\* group has expired.
FullMapEvictsExpired ==
    [][\A d \in net :
         (/\ Feed(d)
          /\ d.grp \notin DOMAIN fecManagers[d.peer].groups
          /\ ExpiredIds(fecManagers[d.peer].groups, clock) # {})
         => fecManagers'[d.peer].total = fecManagers[d.peer].total + 1]_vars
=============================================================================
