---------------------------- MODULE ParameterSets ----------------------------
(***************************************************************************)
(* ParameterSetManager (components/parameter/parameter_set_manager.hpp):   *)
(* the map parameter_sets_ from ParameterSetType to the latched bytes.     *)
(* Bytes are abstracted to NAL units: a unit is [sc, t, n], the length of  *)
(* the start code before it (0, 3 or 4), its type as the codec's header    *)
(* mask extracts it, and its length.  A latched value is the sequence of   *)
(* units from the one the setter found to the end of the payload, the      *)
(* first without its start code.  The statistics (update_stats) are read   *)
(* by nothing and are left out; get_parameter_set, has_parameter_set and   *)
(* clear_parameter_set have no caller.                                     *)
(***************************************************************************)
EXTENDS Naturals, Sequences, SequencesExt, Functions

\* ParameterSetType in declaration order, the order std::map iterates in.
Kinds == <<"SPS", "PPS", "VPS", "ASC", "OPUS_HEADER">>

\* data.size(): the first unit without its start code, the others with.
RECURSIVE DataSize(_)
DataSize(data) ==
    IF data = <<>> THEN 0
    ELSE IF Len(data) = 1 THEN data[1].n
    ELSE DataSize(Front(data)) + Last(data).sc + Last(data).n

EmptyStore == [k \in {} |-> <<>>]

\* The simplified validators: SPS, PPS (H.264) and VPS (H.265) need 4
\* bytes and the NAL type of their kind in the first header byte; an AAC
\* config needs 2 bytes.
validate_h264_sps(data) == DataSize(data) >= 4 /\ data[1].t = 7
validate_h264_pps(data) == DataSize(data) >= 4 /\ data[1].t = 8
validate_h265_vps(data) == DataSize(data) >= 4 /\ data[1].t = 32
validate_aac_asc(data)  == DataSize(data) >= 2

\* validate_parameter_set: empty data is invalid; the four kinds above go
\* to their validator, any other kind is accepted unchecked.
validate_parameter_set(kind, data) ==
    /\ data # <<>>
    /\ CASE kind = "SPS" -> validate_h264_sps(data)
         [] kind = "PPS" -> validate_h264_pps(data)
         [] kind = "VPS" -> validate_h265_vps(data)
         [] kind = "ASC" -> validate_aac_asc(data)
         [] OTHER        -> TRUE

\* Mutant of update_parameter_set: the entry is inserted (map::insert), so
\* the first valid value of a kind is never replaced.
update_parameter_set_keep_first(ps, kind, data) ==
    IF validate_parameter_set(kind, data) /\ kind \notin DOMAIN ps
    THEN (kind :> data) @@ ps
    ELSE ps

\* update_parameter_set: a valid value replaces the latched one of its kind;
\* an invalid one is only counted.
update_parameter_set(ps, kind, data) ==
    IF validate_parameter_set(kind, data) THEN (kind :> data) @@ ps ELSE ps

\* get_all_parameter_sets: the latched values in map (enum) order; every
\* stored ParameterSetInfo was built with is_valid true.
get_all_parameter_sets(ps) ==
    LET sel == SelectSeq(Kinds, LAMBDA k : k \in DOMAIN ps)
    IN  [j \in 1..Len(sel) |-> [kind |-> sel[j], data |-> ps[sel[j]]]]

clear_all(ps) == EmptyStore
=============================================================================
