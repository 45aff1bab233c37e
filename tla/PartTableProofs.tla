-------------------------- MODULE PartTableProofs ---------------------------
(***************************************************************************)
(* Proofs for the partition table: type correctness, and what the two      *)
(* copies protect against, for every set of tables and number of faults.   *)
(***************************************************************************)
EXTENDS PartTable, TLAPS

(***************************************************************************)
(* The inductive invariant.  NeverWithoutTable and RecoversLatest speak of *)
(* the moment of a restart; what makes them hold is where the current      *)
(* table is before it.                                                     *)
(***************************************************************************)
\* Once copy 0 has been rewritten it is the current table, and while a table
\* is in use a restart may come up with it.
CurrentInv ==
  /\ mode \in {"erase1", "write1"} => copy[0] = table
  /\ mode \in Writing => table \in recoverable
  /\ primary + backup <= faults

\* Without backup faults copy 1 is the fallback until copy 0 is rewritten, and
\* copy 0 is never another, older table.
FallbackInv ==
  backup = 0 =>
    /\ mode # "halt"
    /\ mode \in {"off", "idle", "erase0", "write0"} =>
         copy[1] \in recoverable /\ copy[0] \in {Invalid, copy[1]}
    /\ mode = "idle" => table = copy[1]
    /\ primary = 0 /\ mode \in {"off", "idle", "erase0"} => copy[0] = copy[1]

\* After a single backup fault the copy a restart picks is still current.
SingleFaultInv ==
  backup = 1 /\ primary = 0 =>
    /\ mode # "halt"
    /\ mode \in {"off", "idle", "erase0"} =>
         \/ copy[0] \in recoverable
         \/ copy[0] = Invalid /\ copy[1] \in recoverable
    /\ mode = "idle" => table \in recoverable

PTInv == PTTypeOK /\ CurrentInv /\ FallbackInv /\ SingleFaultInv

LEMMA InitInv == TableInit => PTInv
  BY TableAssumption
  DEF TableAssumption, TableInit, InitWith, PTInv, PTTypeOK, CurrentInv,
      FallbackInv, SingleFaultInv, Writing, PART_SLOT0_INVALID

\* The restart: the copy picked is the current table, or too much went wrong.
LEMMA ReadInv == PTInv /\ part_table_read => PTInv'
  BY TableAssumption
  DEF TableAssumption, part_table_read, Found, FirstValid, PTInv, PTTypeOK,
      CurrentInv, FallbackInv, SingleFaultInv, Writing, PART_SLOT0_INVALID

LEMMA NoTableInv == PTInv /\ NoTable => PTInv'
  BY TableAssumption
  DEF TableAssumption, NoTable, Found, FirstValid, PTInv, PTTypeOK,
      CurrentInv, FallbackInv, SingleFaultInv, Writing, PART_SLOT0_INVALID

LEMMA WriteInv ==
  ASSUME NEW t \in Table, PTInv, part_table_write(t)
  PROVE  PTInv'
  BY TableAssumption
  DEF TableAssumption, part_table_write, PTInv, PTTypeOK, CurrentInv,
      FallbackInv, SingleFaultInv, Writing, PART_SLOT0_INVALID

LEMMA EraseInv ==
  ASSUME PTInv, EraseCopy(0) \/ EraseCopy(1)
  PROVE  PTInv'
  <1>1. CASE EraseCopy(0)
    BY <1>1, PTInv, TableAssumption
    DEF TableAssumption, EraseCopy, PTInv, PTTypeOK, CurrentInv, FallbackInv,
        SingleFaultInv, Writing, PART_SLOT0_INVALID
  <1>2. CASE EraseCopy(1)
    BY <1>2, PTInv, TableAssumption
    DEF TableAssumption, EraseCopy, PTInv, PTTypeOK, CurrentInv, FallbackInv,
        SingleFaultInv, Writing, PART_SLOT0_INVALID
  <1>3. QED BY <1>1, <1>2

LEMMA ProgramInv ==
  ASSUME PTInv, WriteCopy0 \/ WriteCopy1
  PROVE  PTInv'
  <1>1. CASE WriteCopy0
    BY <1>1, PTInv, TableAssumption
    DEF TableAssumption, WriteCopy0, PTInv, PTTypeOK, CurrentInv, FallbackInv,
        SingleFaultInv, Writing, PART_SLOT0_INVALID
  <1>2. CASE WriteCopy1
    BY <1>2, PTInv, TableAssumption
    DEF TableAssumption, WriteCopy1, PTInv, PTTypeOK, CurrentInv, FallbackInv,
        SingleFaultInv, Writing, PART_SLOT0_INVALID
  <1>3. QED BY <1>1, <1>2

\* Each command of a write moves the current table to where a cut at the next
\* command leaves it.
LEMMA CutInv ==
  ASSUME PTInv, PowerCut
  PROVE  PTInv'
  <1>1. CASE mode \in {"erase0", "write0"}
    BY <1>1, PTInv, PowerCut, TableAssumption
    DEF TableAssumption, PowerCut, PTInv, PTTypeOK, CurrentInv, FallbackInv,
        SingleFaultInv, Writing, PART_SLOT0_INVALID
  <1>2. CASE mode \in {"erase1", "write1"}
    BY <1>2, PTInv, PowerCut, TableAssumption
    DEF TableAssumption, PowerCut, PTInv, PTTypeOK, CurrentInv, FallbackInv,
        SingleFaultInv, Writing, PART_SLOT0_INVALID
  <1>3. CASE mode \notin Writing
    BY <1>3, PTInv, PowerCut, TableAssumption
    DEF TableAssumption, PowerCut, PTInv, PTTypeOK, CurrentInv, FallbackInv,
        SingleFaultInv, Writing, PART_SLOT0_INVALID
  <1>4. QED BY <1>1, <1>2, <1>3 DEF Writing

LEMMA FaultInv ==
  ASSUME NEW i \in {0, 1}, PTInv, FlashFault(i)
  PROVE  PTInv'
  BY TableAssumption
  DEF TableAssumption, FlashFault, PTInv, PTTypeOK, CurrentInv, FallbackInv,
      SingleFaultInv, Writing, PART_SLOT0_INVALID

LEMMA NextInv == PTInv /\ [TableNext]_ptvars => PTInv'
  <1> SUFFICES ASSUME PTInv, [TableNext]_ptvars PROVE PTInv'
    OBVIOUS
  <1>1. CASE part_table_read BY <1>1, ReadInv
  <1>2. CASE NoTable BY <1>2, NoTableInv
  <1>3. CASE \E t \in Table : part_table_write(t) BY <1>3, WriteInv
  <1>4. CASE WriteStep BY <1>4, EraseInv, ProgramInv DEF WriteStep
  <1>5. CASE Environment BY <1>5, CutInv, FaultInv DEF Environment
  <1>6. CASE UNCHANGED ptvars
    BY <1>6
    DEF ptvars, PTInv, PTTypeOK, CurrentInv, FallbackInv, SingleFaultInv
  <1>7. QED BY <1>1, <1>2, <1>3, <1>4, <1>5, <1>6 DEF TableNext

(***************************************************************************)
(* The theorems                                                            *)
(***************************************************************************)
\* The inductive invariant holds in every reachable state.
THEOREM PTInvariance == TableSpec => []PTInv
  BY InitInv, NextInv, PTL DEF TableSpec

\* part_table_read and part_table_write keep the variables well typed.
THEOREM PTTypeCorrect == TableSpec => []PTTypeOK
  <1>1. PTInv => PTTypeOK BY DEF PTInv
  <1>2. QED BY <1>1, PTInvariance, PTL

\* main()'s assertion that there is a table cannot fail within Tolerated.
THEOREM TableSurvives == TableSpec => []NeverWithoutTable
  <1>1. PTInv => NeverWithoutTable
    BY DEF PTInv, PTTypeOK, FallbackInv, SingleFaultInv, NeverWithoutTable,
           Tolerated
  <1>2. QED BY <1>1, PTInvariance, PTL

\* A restart within Tolerated never comes up with an older table.
THEOREM NoRollback == TableSpec => []RecoversLatest
  <1>1. PTInv => RecoversLatest
    BY DEF PTInv, PTTypeOK, FallbackInv, SingleFaultInv, RecoversLatest,
           Tolerated
  <1>2. QED BY <1>1, PTInvariance, PTL

\* Without faults part_table_write leaves the table in both copies.
THEOREM BothCopies == TableSpec => []Mirrored
  <1>1. PTInv => Mirrored
    BY DEF PTInv, PTTypeOK, CurrentInv, FallbackInv, Mirrored
  <1>2. QED BY <1>1, PTInvariance, PTL
=============================================================================
