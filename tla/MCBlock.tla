------------------------------ MODULE MCBlock -------------------------------
(* BlockCache on blocks encoded by Block, and, from the initial state, the     *)
(* codecs on every small input.                                                *)
EXTENDS BlockCache, Block, TLC

CONSTANTS r1, r2

\* Blocks of 4, 4, 5 and 9 cells.
FileRecords ==
    <<<< [ts |-> 1, src |-> << >>, payload |-> << >>] >>,
      << [ts |-> 2, src |-> << >>, payload |-> << >>] >>,
      << [ts |-> 2, src |-> <<1>>, payload |-> << >>] >>,
      << [ts |-> 3, src |-> <<1>>, payload |-> << 2 >>], [ts |-> 3, src |-> <<2>>, payload |-> << >>] >>>>
BlockKeys == DOMAIN FileRecords
RowPayloads == [k \in BlockKeys |-> encodeBlock(FileRecords[k]).payload]
TwoReaders == {r1, r2}
Symmetric == Permutations(TwoReaders)
ShortStrings == {<< >>, <<1>>, <<0, 2>>}

BInit == Init /\ SampleInit
BNext ==
    \/ Next /\ raw = << >> /\ recs = << >> /\ UNCHANGED <<recs, raw>>
    \/ /\ lru = << >> /\ bad = {} /\ \A r \in Readers : pc[r] = "idle"
       /\ SampleNext /\ UNCHANGED vars
BSpec == BInit /\ [][BNext]_<<vars, recs, raw>>
=============================================================================
