---------------------------- MODULE AdapterStats ----------------------------
(***************************************************************************)
(* The connection bookkeeping of the AdapterStatsManager singleton          *)
(* (core/adapter_stats.cpp): the map connections_ keyed by connection id   *)
(* and the global counters total_connections and active_connections.  A    *)
(* connection's record (protocol, route, frame counters) is abstracted to  *)
(* its id: add_connection replaces a record under the same id, so only the *)
(* set of ids and the counters are observable to the properties.  Every    *)
(* operator is a function of the stats value, one per method; the methods  *)
(* run under mutex_, so each is one atomic step of its caller.             *)
(***************************************************************************)
EXTENDS Naturals, FiniteSets

EmptyStats ==
    [connections |-> {}, total_connections |-> 0, active_connections |-> 0]

\* connections_[id] = new AdapterConnection (replacing any record under id);
\* both global counters are incremented whether or not id was present.
add_connection(st, id) ==
    [st EXCEPT !.connections        = @ \cup {id},
               !.total_connections  = @ + 1,
               !.active_connections = @ + 1]

\* Only an id that is present is erased and decrements active_connections.
remove_connection(st, id) ==
    IF id \in st.connections
    THEN [st EXCEPT !.connections = @ \ {id}, !.active_connections = @ - 1]
    ELSE st

StatsType(Ids) ==
    [connections : SUBSET Ids, total_connections : Nat, active_connections : Nat]
=============================================================================
