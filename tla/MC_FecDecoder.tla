--------------------------- MODULE MC_FecDecoder ---------------------------
(***************************************************************************)
(* The FEC decoder of fec_group_buffer.cpp checked at its three levels,    *)
(* each by its own harness; a behaviour runs one harness, chosen in the    *)
(* initial state among Levels, and holds the others' variables fixed:      *)
(*   "field"  - every pair of bytes, as initial states, through            *)
(*              gf_mul_fast and gf_inv, against shift-and-add arithmetic   *)
(*              modulo 0x11D;                                              *)
(*   "solver" - solve_linear_system on every Vandermonde system            *)
(*              build_vandermonde_matrix builds for SolverK data shards   *)
(*              and up to MaxMissing unknowns, one column per step;        *)
(*   "group"  - one FecGroupBuffer under check_and_repair: the sender's    *)
(*              shards arrive in any order and subset, duplicated or with  *)
(*              an index out of range, and repair runs whenever can_repair *)
(*              holds.                                                     *)
(***************************************************************************)
EXTENDS FecGroup

CONSTANTS
    Levels,     \* the harnesses to run
    SolverK,    \* data shards of the solver harness (fec_k)
    MaxMissing, \* parity shards of the solver harness: most unknowns solved
    Vals,       \* byte values the solver's unknowns range over
    Bytes       \* byte values of the group harness's data and parity

ASSUME /\ Levels \subseteq {"field", "solver", "group"}
       /\ SolverK \in 1..255 /\ MaxMissing \in 1..SolverK
       /\ Vals \subseteq Byte /\ Bytes \subseteq Byte

VARIABLES
    level,                            \* the harness of this behaviour
    a, b,                             \* field: the operands
    miss, unknown, aug, col, status,  \* solver
    data, parityVal, blocks, outcome, out  \* group

fieldVars  == <<a, b>>
solverVars == <<miss, unknown, aug, col, status>>
groupVars  == <<data, parityVal, blocks, outcome, out>>
vars == <<level, fieldVars, solverVars, groupVars>>

NoMap == [i \in {} |-> 0]

FieldIdle  == a = 0 /\ b = 0
SolverIdle == miss = {} /\ unknown = <<>> /\ aug = <<>> /\ col = 1 /\ status = "idle"
GroupIdle  == data = NoMap /\ parityVal = NoMap /\ blocks = <<>>
              /\ outcome = "open" /\ out = <<>>

(***************************************************************************)
(* Solver: for a pattern of missing data indices that                      *)
(* build_vandermonde_matrix accepts and a vector u of unknown bytes, the   *)
(* elimination of [V | V * u] (right-hand side by reference arithmetic).   *)
(***************************************************************************)
MissSeq == Ascending(miss)
AvailSeq == Ascending((0..(SolverK - 1)) \ miss)
M == Cardinality(miss)

SolverInit ==
    /\ miss \in {m \in SUBSET (0..(SolverK - 1)) : Cardinality(m) \in 1..MaxMissing}
    /\ \E V \in {BuildVandermonde(AvailSeq, MissSeq)} :
          /\ V.ok
          /\ unknown \in [1..M -> Vals]
          /\ aug = Augment(V.m, RefApply(V.m, unknown))
    /\ col = 1
    /\ status = "solving"

\* One iteration of the column loop of solve_linear_system.
EliminateStep ==
    /\ level = "solver"
    /\ status = "solving"
    /\ col <= M
    /\ LET step == EliminateColumn(aug, col, M)
       IN  /\ aug' = step.aug
           /\ col' = col + 1
           /\ status' = IF ~step.ok THEN "singular"
                        ELSE IF col = M THEN "solved" ELSE "solving"
    /\ UNCHANGED <<level, fieldVars, miss, unknown, groupVars>>

(***************************************************************************)
(* Group: the sender's k data bytes and n-k parity bytes; parity 0 is the  *)
(* XOR of the data (the single-parity code the XOR path decodes), the      *)
(* other parity bytes are whatever arrives.  The sender's seq_num of the   *)
(* shard at normalized index i is i + 1; data shard 0 carries a keyframe.  *)
(***************************************************************************)
XorOfData(d) ==
    MapThenFoldSet(LAMBDA x, y : x ^^ y, 0, LAMBDA i : d[i],
                   LAMBDA S : CHOOSE i \in S : TRUE, DOMAIN d)

\* The shard the sender puts on the wire for normalized index bi.
SentShard(bi) ==
    [parity |-> bi >= K,
     val    |-> IF bi < K THEN data[bi]
                ELSE IF bi < N THEN parityVal[bi - K] ELSE 0,
     seq    |-> bi + 1,
     key    |-> bi = 0]

GroupInit ==
    /\ data \in [0..(K - 1) -> Bytes]
    /\ parityVal \in {p \in [0..(N - K - 1) -> Bytes] : p[0] = XorOfData(data)}
    /\ blocks = <<>>
    /\ outcome = "open"
    /\ out = <<>>

\* A datagram carrying shard (index, is_parity) reaches add_block; the wire
\* index may be out of range and the shard may be a duplicate.
Receive(index, isParity) ==
    /\ level = "group"
    /\ outcome # "repaired"
    /\ blocks' = AddBlock(blocks, index, isParity,
                          SentShard(NormIndex(index, isParity)))
    /\ UNCHANGED <<level, fieldVars, solverVars, data, parityVal, outcome, out>>

\* The group after repair returned r: a failure is counted and the group
\* is kept, a success hands out r.out and consumes the group.
RepairDone(r) ==
    IF r.ok THEN outcome' = "repaired" /\ out' = r.out
    ELSE outcome' = "failed" /\ out' = out

\* check_and_repair on this group: repair when can_repair.
Repair ==
    /\ level = "group"
    /\ outcome # "repaired"
    /\ can_repair(blocks)
    /\ RepairDone(repair(blocks))
    /\ UNCHANGED <<level, fieldVars, solverVars, data, parityVal, blocks>>

Init ==
    \/ /\ "field" \in Levels /\ level = "field"
       /\ a \in Byte /\ b \in Byte /\ SolverIdle /\ GroupIdle
    \/ /\ "solver" \in Levels /\ level = "solver"
       /\ FieldIdle /\ SolverInit /\ GroupIdle
    \/ /\ "group" \in Levels /\ level = "group"
       /\ FieldIdle /\ SolverIdle /\ GroupInit

Next ==
    \/ EliminateStep
    \/ \E index \in 0..K, isParity \in BOOLEAN : Receive(index, isParity)
    \/ Repair

Spec == Init /\ [][Next]_vars

TypeOK ==
    /\ level \in Levels
    /\ a \in Byte /\ b \in Byte
    /\ miss \subseteq 0..(SolverK - 1)
    /\ unknown \in [1..M -> Vals]
    /\ aug \in [1..M -> [1..(M + 1) -> Byte]]
    /\ col \in 1..(M + 1)
    /\ status \in {"idle", "solving", "solved", "singular"}
    /\ level = "group" => /\ data \in [0..(K - 1) -> Bytes]
                          /\ parityVal \in [0..(N - K - 1) -> Bytes]
    /\ DOMAIN blocks \subseteq 0..(N - 1)
    /\ \A i \in DOMAIN blocks : blocks[i] \in Shard
    /\ outcome \in {"open", "failed", "repaired"}
    /\ out \in Seq(OutShard)

\* gf_mul_fast, which goes through the log/exp tables and their wrap-around
\* at 255, computes the field product for every pair of bytes, including
\* zero operands and the log[1] entry the table loop never writes.
GfMulMatchesReference == level = "field" => gf_mul_fast(a, b) = RefMul(a, b)

\* gf_inv, used to normalize each pivot row in solve_linear_system, returns
\* the multiplicative inverse of every non-zero byte.
GfInvIsInverse == level = "field" /\ a # 0 => RefMul(a, gf_inv(a)) = 1

\* Whenever build_vandermonde_matrix accepts the loss pattern (at least as
\* many available data indices as missing ones), the generalized Vandermonde
\* matrix alpha^(a_i * m_j) is non-singular and the per-byte Gauss-Jordan
\* elimination (pivot search, GF-inverse normalization, row ^= factor * row)
\* returns the unknowns exactly.
SolverRecoversUnknowns ==
    /\ status # "singular"
    /\ status = "solved" => SolutionOf(aug, M) = unknown

\* Spec property 3: when repair (complete, RS or XOR path) succeeds it hands
\* out exactly k shards with distinct indices covering 0..k-1.
RepairShape ==
    outcome = "repaired" =>
        /\ Len(out) = K
        /\ {out[j].index : j \in 1..Len(out)} = 0..(K - 1)

\* A repair of a group holding at least k shards fails only when fewer data
\* shards are present than are missing (build_vandermonde_matrix needs one
\* available row per unknown): the Vandermonde systems the RS path builds
\* are never singular, and the repair() dispatch never drops a case RS or
\* XOR could decode.
RepairFailsOnlyWithoutEnoughData ==
    [][Repair /\ outcome' = "failed" =>
         Cardinality(DataIndices(blocks)) < Cardinality(get_missing_blocks(blocks))]_vars

\* Spec properties 5, 6, 14 and Scenario C: every shard repair hands out
\* carries the sender's data byte for its index.
RepairRestoresData ==
    outcome = "repaired" => \A j \in 1..Len(out) : out[j].val = data[out[j].index]
=============================================================================
