--------------------------- MODULE FecRepairManager ---------------------------
(***************************************************************************)
(* FecRepairManager (fec_group_buffer.cpp): the map group_id -> group with *)
(* the group cap and its expired-group eviction, add_block, and the sweep  *)
(* check_and_repair_with_metadata.  A group is [blocks, created]: the      *)
(* blocks_ map of FecGroup and its creation time.  A restored shard is     *)
(* [grp, index, key]: its group, its index and its keyframe flag, the      *)
(* metadata the sweep hands on with the bytes.                             *)
(***************************************************************************)
EXTENDS FecGroup, Functions, TLC

CONSTANTS
    Deadline,     \* repair_deadline_ms
    MaxGroups     \* max_groups_, set_max_groups(k * 10) by the adapter

ASSUME Deadline \in Nat /\ MaxGroups \in Nat \ {0}

\* The constructor: no groups, zero stats.
EmptyManager ==
    [groups |-> <<>>, total |-> 0, repaired |-> 0, complete |-> 0,
     expired |-> 0, failed |-> 0]

\* FecGroupBuffer::is_expired
is_expired(grp, now) == now - grp.created > Deadline

\* The groups of the map that have expired at now.
ExpiredIds(gs, now) == {e \in DOMAIN gs : is_expired(gs[e], now)}

\* Mutant of create_group_if_needed: the eviction does not count the group
\* in expired_groups.
create_group_uncounted(mgr, gid, now) ==
    LET gs     == mgr.groups
        exp    == ExpiredIds(gs, now)
        oldest == IF exp = {} THEN 0 ELSE Ascending(exp)[1]
        full   == Cardinality(DOMAIN gs) >= MaxGroups
        m1     == IF full THEN [mgr EXCEPT !.groups = Restrict(gs, DOMAIN gs \ {oldest})]
                  ELSE mgr
    IN  IF gid \in DOMAIN gs THEN [ok |-> TRUE, mgr |-> mgr]
        ELSE IF full /\ oldest = 0 THEN [ok |-> FALSE, mgr |-> mgr]
        ELSE [ok |-> TRUE,
              mgr |-> [m1 EXCEPT !.groups = @ @@ (gid :> [blocks |-> <<>>, created |-> now]),
                                 !.total = @ + 1]]

\* create_group_if_needed(group_id): a new group when the map is full
\* evicts the first expired group in map (id) order; the scan records it in
\* oldest_id, and only "oldest_id > 0" counts as found, so an expired group
\* 0 is never evicted and the call fails with "buffer full".
create_group_if_needed(mgr, gid, now) ==
    LET gs     == mgr.groups
        exp    == ExpiredIds(gs, now)
        oldest == IF exp = {} THEN 0 ELSE Ascending(exp)[1]
        full   == Cardinality(DOMAIN gs) >= MaxGroups
        m1     == IF full THEN [mgr EXCEPT !.groups = Restrict(gs, DOMAIN gs \ {oldest}),
                                           !.expired = @ + 1]
                  ELSE mgr
    IN  IF gid \in DOMAIN gs THEN [ok |-> TRUE, mgr |-> mgr]
        ELSE IF full /\ oldest = 0 THEN [ok |-> FALSE, mgr |-> mgr]
        ELSE [ok |-> TRUE,
              mgr |-> [m1 EXCEPT !.groups = @ @@ (gid :> [blocks |-> <<>>, created |-> now]),
                                 !.total = @ + 1]]

\* FecRepairManager::add_block: create the group if needed, then the
\* group's add_block; the group stays created when its add_block fails.
manager_add_block(mgr, gid, index, isParity, shard, now) ==
    LET c == create_group_if_needed(mgr, gid, now)
    IN  IF ~c.ok THEN c
        ELSE [ok  |-> IndexInRange(index, isParity),
              mgr |-> [c.mgr EXCEPT !.groups[gid].blocks =
                                       AddBlock(@, index, isParity, shard)]]

\* The restored shards r of group e with their metadata.
Tagged(e, r) == [j \in 1..Len(r) |-> [grp |-> e, index |-> r[j].index, key |-> r[j].key]]

RECURSIVE RestoredOf(_, _)
\* The restored shards of the groups ids (a sequence), in that order, each
\* group's in the order repair pushes them.
RestoredOf(gs, ids) ==
    IF ids = <<>> THEN <<>>
    ELSE Tagged(Head(ids), repair(gs[Head(ids)].blocks).out) \o RestoredOf(gs, Tail(ids))

\* The groups of ids whose repair succeeds.
RepairedIds(gs, ids) == {e \in ids : repair(gs[e].blocks).ok}

\* Mutant of SweepResult: a repaired group is not put on groups_to_remove.
SweepResult_keeps_repaired(mgr, expired, tried, done) ==
    LET gs    == mgr.groups
        whole == {e \in done : is_complete(gs[e].blocks)}
    IN  [mgr |-> [mgr EXCEPT !.groups   = Restrict(gs, DOMAIN gs \ expired),
                             !.expired  = @ + Cardinality(expired),
                             !.complete = @ + Cardinality(whole),
                             !.repaired = @ + Cardinality(done \ whole),
                             !.failed   = @ + Cardinality(tried \ done)],
         out |-> RestoredOf(gs, Ascending(done))]

\* The sweep's result given the expired groups, the groups tried (those
\* that can_repair) and those repaired: expired and repaired groups are
\* removed (groups_to_remove), the counters updated, a repaired group
\* counted complete when it had all its data; the restored shards of the
\* repaired groups in map (id) order.
SweepResult(mgr, expired, tried, done) ==
    LET gs    == mgr.groups
        whole == {e \in done : is_complete(gs[e].blocks)}
    IN  [mgr |-> [mgr EXCEPT !.groups   = Restrict(gs, DOMAIN gs \ (expired \cup done)),
                             !.expired  = @ + Cardinality(expired),
                             !.complete = @ + Cardinality(whole),
                             !.repaired = @ + Cardinality(done \ whole),
                             !.failed   = @ + Cardinality(tried \ done)],
         out |-> RestoredOf(gs, Ascending(done))]

\* The groups of gs, not expired at now, that can_repair.
TriedIds(gs, now) == {e \in DOMAIN gs \ ExpiredIds(gs, now) : can_repair(gs[e].blocks)}

\* check_and_repair_with_metadata: in map (id) order, an expired group is
\* removed and counted; a group that can_repair is repaired, its shards and
\* their metadata appended and the group removed (counted complete or
\* repaired), or the failure counted and the group kept.
check_and_repair_with_metadata(mgr, now) ==
    SweepResult(mgr, ExpiredIds(mgr.groups, now), TriedIds(mgr.groups, now),
                RepairedIds(mgr.groups, TriedIds(mgr.groups, now)))
=============================================================================
