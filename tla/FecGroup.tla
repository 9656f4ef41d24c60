------------------------------ MODULE FecGroup ------------------------------
(***************************************************************************)
(* One FEC group of FecGroupBuffer (fec_group_buffer.cpp): add_block,      *)
(* can_repair, is_complete, get_missing_blocks and repair with its two     *)
(* decoders repair_rs and repair_xor.  The map blocks_ is a function from  *)
(* normalized indices (data 0..k-1, parity k..n-1) to shards; a shard's    *)
(* payload is one byte (every byte position is decoded alike), and its     *)
(* timestamp and length are left out (all shards have one length).         *)
(***************************************************************************)
EXTENDS GF256, Folds

CONSTANTS K, N

ASSUME K >= 2 /\ N > K

\* A shard as the decoders read it.
Shard == [parity : BOOLEAN, val : Byte, seq : Nat, key : BOOLEAN]
\* A shard handed out by repair.
OutShard == [index : 0..(K - 1), val : Byte, seq : Nat, key : BOOLEAN]

\* The range check of add_block.
IndexInRange(index, isParity) ==
    IF isParity THEN index < N - K ELSE index < K

\* Parity indices are mapped into k..n-1.
NormIndex(index, isParity) == IF isParity THEN K + index ELSE index

\* Mutant of AddBlock: the range check dropped.
AddBlock_unchecked(blocks, index, isParity, shard) ==
    LET bi == NormIndex(index, isParity)
    IN  IF bi \in DOMAIN blocks THEN blocks
        ELSE [i \in DOMAIN blocks \cup {bi} |-> IF i = bi THEN shard ELSE blocks[i]]

\* add_block: an index out of range is an error and an index already present
\* is skipped; both leave blocks_ as it is.  Otherwise the shard is stored.
AddBlock(blocks, index, isParity, shard) ==
    LET bi == NormIndex(index, isParity)
    IN  IF ~IndexInRange(index, isParity) \/ bi \in DOMAIN blocks THEN blocks
        ELSE [i \in DOMAIN blocks \cup {bi} |-> IF i = bi THEN shard ELSE blocks[i]]

DataIndices(blocks)   == {i \in DOMAIN blocks : ~blocks[i].parity}
ParityIndices(blocks) == {i \in DOMAIN blocks : blocks[i].parity}

is_complete(blocks) == Cardinality(DataIndices(blocks)) >= K

has_enough_blocks_for_repair(blocks) == Cardinality(DOMAIN blocks) >= K

can_repair(blocks) ==
    is_complete(blocks) \/ has_enough_blocks_for_repair(blocks)

get_missing_blocks(blocks) ==
    {i \in 0..(K - 1) : i \notin DOMAIN blocks \/ blocks[i].parity}

\* The copy of a received data shard that repair pushes.
CopyOf(blocks, i) ==
    [index |-> i, val |-> blocks[i].val, seq |-> blocks[i].seq, key |-> blocks[i].key]

\* Copies of every received data shard, in map (index) order.
DataCopies(blocks) ==
    LET d == Ascending(DataIndices(blocks))
    IN  [j \in 1..Len(d) |-> CopyOf(blocks, d[j])]

\* Mutant of Recovered: block_index taken from the reference data shard.
Recovered_wrong_index(blocks, mi, v) ==
    LET d0 == Ascending(DataIndices(blocks))[1]
    IN  [index |-> d0, val |-> v,
         seq |-> blocks[d0].seq + (IF mi > d0 THEN mi - d0 ELSE 0),
         key |-> \E i \in DataIndices(blocks) : blocks[i].key]

\* A recovered shard for missing index mi with payload v: its seq_num is the
\* first data shard's plus (mi - that index) when mi is above it, else equal
\* to it; it is a keyframe when any data shard is.
Recovered(blocks, mi, v) ==
    LET d0 == Ascending(DataIndices(blocks))[1]
    IN  [index |-> mi, val |-> v,
         seq |-> blocks[d0].seq + (IF mi > d0 THEN mi - d0 ELSE 0),
         key |-> \E i \in DataIndices(blocks) : blocks[i].key]

Failed == [ok |-> FALSE, out |-> <<>>]

\* repair_xor: with one data shard missing, at least one parity shard and
\* k-1 data shards, the missing payload is the first parity shard XOR every
\* data shard; the recovered shard is pushed first, then the data copies.
repair_xor(blocks) ==
    LET miss == get_missing_blocks(blocks)
        par  == ParityIndices(blocks)
        dat  == DataIndices(blocks)
    IN  IF Cardinality(miss) = 1 /\ par # {} /\ Cardinality(dat) = K - 1
        THEN LET p0 == Ascending(par)[1]
                 v  == MapThenFoldSet(LAMBDA a, b : a ^^ b, blocks[p0].val,
                                      LAMBDA i : blocks[i].val,
                                      LAMBDA S : CHOOSE i \in S : TRUE, dat)
                 mi == CHOOSE i \in miss : TRUE
             IN  [ok |-> TRUE, out |-> <<Recovered(blocks, mi, v)>> \o DataCopies(blocks)]
        ELSE Failed

\* The outcome of repair_rs for the missing indices miss (ascending), the
\* parity indices par, whether the matrix was built (built) and the
\* solution sol: nothing missing returns the data copies; too little parity,
\* a failed build or a singular system fail; otherwise the recovered shards
\* (in missing-index order) are pushed first, then the data copies.
RsOutcome(blocks, miss, par, built, sol) ==
    IF miss = <<>> THEN [ok |-> TRUE, out |-> DataCopies(blocks)]
    ELSE IF Len(par) < Len(miss) \/ ~built \/ ~sol.ok THEN Failed
    ELSE [ok |-> TRUE,
          out |-> [j \in 1..Len(miss) |-> Recovered(blocks, miss[j], sol.x[j])]
                  \o DataCopies(blocks)]

\* The right-hand side of repair_rs: the first M parity payloads.
ParityRhs(blocks, par, M) == [i \in 1..M |-> blocks[par[i]].val]

\* repair_rs for the missing indices miss, the available data indices
\* avail and the parity indices par (ascending sequences) and the built
\* Vandermonde matrix mat.
RsSolve(blocks, miss, avail, par, mat) ==
    RsOutcome(blocks, miss, par, mat.ok,
              SolveLinearSystem(mat.m, ParityRhs(blocks, par, Len(miss))))

\* repair_rs: the Vandermonde system over the available data indices and
\* the missing ones, with the first M parity payloads as right-hand side.
repair_rs(blocks) ==
    LET miss  == Ascending(get_missing_blocks(blocks))
        avail == Ascending(DataIndices(blocks))
        par   == Ascending(ParityIndices(blocks))
    IN  RsSolve(blocks, miss, avail, par, BuildVandermonde(avail, miss))

\* After repair_rs returned rs: its result when it succeeded, else XOR when
\* exactly one shard is missing, else failure.
AfterRs(blocks, miss, rs) ==
    IF rs.ok THEN rs ELSE IF miss = 1 THEN repair_xor(blocks) ELSE Failed

\* Mutant of repair: RS tried only when missing < num_parity.
repair_strict_bound(blocks) ==
    LET miss      == Cardinality(get_missing_blocks(blocks))
        total     == Cardinality(DOMAIN blocks)
        numParity == total - (K - miss)
    IN  IF ~can_repair(blocks) THEN Failed
        ELSE IF is_complete(blocks) THEN [ok |-> TRUE, out |-> DataCopies(blocks)]
        ELSE IF miss > 0 /\ miss < numParity /\ total >= K
             THEN AfterRs(blocks, miss, repair_rs(blocks))
        ELSE IF miss = 1 THEN repair_xor(blocks)
        ELSE Failed

\* repair: a complete group returns its data copies; otherwise RS is tried
\* when 0 < missing <= num_parity and total >= k, and XOR when exactly one
\* shard is missing (first, or after RS failed).
repair(blocks) ==
    LET miss      == Cardinality(get_missing_blocks(blocks))
        total     == Cardinality(DOMAIN blocks)
        numParity == total - (K - miss)
    IN  IF ~can_repair(blocks) THEN Failed
        ELSE IF is_complete(blocks) THEN [ok |-> TRUE, out |-> DataCopies(blocks)]
        ELSE IF miss > 0 /\ miss <= numParity /\ total >= K
             THEN AfterRs(blocks, miss, repair_rs(blocks))
        ELSE IF miss = 1 THEN repair_xor(blocks)
        ELSE Failed

=============================================================================
