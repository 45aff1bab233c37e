-------------------------- MODULE AppStorageProofs --------------------------
(***************************************************************************)
(* Proofs for the storage areas: that AppStorage is a user of the partition *)
(* table like any other, and its safety properties on top of what            *)
(* PartTableProofs proves, for every number of apps, areas and sectors.     *)
(***************************************************************************)
EXTENDS AppStorage, WellFoundedInduction, SequenceTheorems, TLAPS

\* The partition table of AppStorage, with its theorems.
PTP == INSTANCE PartTableProofs WITH Table <- Tables

(***************************************************************************)
(* The helpers of storage.c                                                *)
(***************************************************************************)
LEMMA Least ==
  ASSUME NEW S \in SUBSET Nat, S # {}
  PROVE  \E x \in S : \A y \in S : x <= y
<1> DEFINE Less == {ss \in Nat \X Nat : ss[1] < ss[2]}
<1>1. OpToRel(<, Nat) = Less
  BY Zenon DEF OpToRel
<1>2. IsWellFoundedOn(Less, Nat)
  BY NatLessThanWellFounded, <1>1, Zenon
<1>3. \E x \in S : \A y \in S : <<y, x>> \notin Less
  <2> HIDE DEF Less
  <2> QED BY <1>2, WFMin
<1>4. PICK x \in S : \A y \in S : <<y, x>> \notin Less
  BY <1>3
<1>5. ASSUME NEW y \in S PROVE x <= y
  <2>1. <<y, x>> \notin Less
    BY <1>4
  <2>2. ~(y < x)
    BY <2>1
  <2> QED BY <2>2
<1> QED BY <1>5

LEMMA MinIsMember == ASSUME NEW S \in SUBSET Nat, S # {} PROVE Min(S) \in S
BY Least DEF Min

\* An entry that is in use is one auth_app_create made.
WellFormed(t) ==
  \A i \in Area : t[i].status = 1 => \E c \in Cdi, n \in Nonce : t[i] = auth_app_create(c, n)

HasArea(t, c) == \E i \in Area : Owner(t, i) = c

LEMMA EntryOwner ==
  ASSUME NEW t \in Tables, NEW c \in Cdi, WellFormed(t), NEW i \in Area
  PROVE  Owner(t, i) = c <=> t[i].status # 0 /\ auth_app_authenticate(t[i], c)
<1>1. t[i].status \in {0, 1}
  BY DEF Tables, AreaEntry
<1>2. CASE t[i].status = 0
  BY <1>2, AreaAssumption DEF AreaAssumption, Owner
<1>3. CASE t[i].status = 1
  <2>1. PICK d \in Cdi, n \in Nonce : t[i] = auth_app_create(d, n)
    BY <1>3 DEF WellFormed
  <2> QED
    BY <1>3, <2>1 DEF Owner, auth_app_create, auth_app_authenticate, calculate_auth_digest
<1> QED BY <1>1, <1>2, <1>3

\* storage_get_area finds the area of an app just if there is one.
LEMMA GetArea ==
  ASSUME NEW t \in Tables, NEW c \in Cdi, WellFormed(t)
  PROVE  LET i == storage_get_area(t, c)
         IN  /\ i # -1 <=> HasArea(t, c)
             /\ i # -1 => i \in Area /\ Owner(t, i) = c /\ t[i].status # 0
<1> DEFINE own == {i \in Area : t[i].status # 0 /\ auth_app_authenticate(t[i], c)}
<1>1. own = {i \in Area : Owner(t, i) = c}
  BY EntryOwner
<1>2. own \in SUBSET Nat /\ -1 \notin own
  BY AreaAssumption DEF AreaAssumption, Area
<1>3. storage_get_area(t, c) = IF own = {} THEN -1 ELSE Min(own)
  BY DEF storage_get_area
<1>4. own # {} => Min(own) \in own
  BY <1>2, MinIsMember
<1>5. own # {} <=> HasArea(t, c)
  BY <1>1 DEF HasArea
<1>6. storage_get_area(t, c) # -1 => storage_get_area(t, c) \in own
  BY <1>3, <1>4
<1>7. storage_get_area(t, c) # -1 <=> own # {}
  BY <1>2, <1>3, <1>4
<1> QED BY <1>1, <1>5, <1>6, <1>7

LEMMA FirstEmpty ==
  ASSUME NEW t \in Tables, get_first_empty(t) # -1
  PROVE  get_first_empty(t) \in Area /\ t[get_first_empty(t)].status = 0
<1> DEFINE empty == {i \in Area : t[i].status = 0}
<1>1. get_first_empty(t) = IF empty = {} THEN -1 ELSE Min(empty)
  BY DEF get_first_empty
<1>2. empty \in SUBSET Nat
  BY AreaAssumption DEF AreaAssumption, Area
<1> QED BY <1>1, <1>2, MinIsMember

\* The two blocks are the sectors of an area.
LEMMA Blocks == Block(0) \subseteq Sector /\ Block(1) \subseteq Sector /\ Sector \subseteq Block(0) \cup Block(1)
BY AreaAssumption DEF AreaAssumption, Block, Sector, NSectors

(***************************************************************************)
(* The inductive invariant                                                 *)
(***************************************************************************)
Command == [op : {"erase", "program"}, area : Area, sectors : SUBSET Sector]

TypeInv ==
  /\ flash \in [Area -> [Sector -> SUBSET Cdi]]
  /\ app \in Cdi \cup {None}
  /\ mgmt \in BOOLEAN
  /\ todo \in Seq(Command)
  /\ next \in Tables \cup {Invalid}
  /\ granted \subseteq Cdi
  /\ intact \in BOOLEAN

\* A call runs to its end or is cut: while the table is being written nothing
\* else is left to do, and before an app runs there is no call.
PhaseInv ==
  /\ mode \in {"off", "halt"} => call = "none"
  /\ mode \notin {"off", "halt"} => app \in Cdi
  /\ mode # "idle" => todo = <<>> /\ next = Invalid
  /\ call = "none" => todo = <<>> /\ next = Invalid

\* Every table there is gives an app one area at most.
Sound(t) ==
  /\ WellFormed(t)
  /\ \A i, j \in Area : Owner(t, i) = Owner(t, j) /\ i # j => Owner(t, i) = None

SoundInv == \A t \in {table, copy[0], copy[1], next} \ {Invalid} : Sound(t)

\* The commands of a call are for an area of the app, or one that is free.
OwnInv ==
  \A k \in 1 .. Len(todo) :
    /\ call = "erase_areas" \/ Owner(table, todo[k].area) \in {None, app}
    /\ todo[k].op = "program" => next = Invalid /\ Owner(table, todo[k].area) = app

\* Between two writes a restart can come up with the current table only.
FaultInv ==
  /\ intact => PTP!Tolerated
  /\ mode = "idle" => recoverable \subseteq {table}

\* Whatever table a restart may come up with, the sectors hold what it says.  A
\* table that has yet to be written will be right when the erases are done.
Owned(t, i) == {Owner(t, i)} \ {None}
Belongs(t) == \A i \in Area, s \in Sector : flash[i][s] \subseteq Owned(t, i)
ErasedBy(i, s) ==
  \E k \in 1 .. Len(todo) : todo[k].op = "erase" /\ todo[k].area = i /\ s \in todo[k].sectors
WillBelong(t) ==
  \A i \in Area, s \in Sector : flash[i][s] \subseteq Owned(t, i) \/ ErasedBy(i, s)
DataInv ==
  intact => /\ \A t \in recoverable : Belongs(t)
            /\ next # Invalid => WillBelong(next)

\* Every app that was told it has an area has one in each of these tables.
GrantInv ==
  /\ intact => \A c \in granted : /\ \A t \in recoverable : HasArea(t, c)
                                  /\ next # Invalid => HasArea(next, c)
  /\ call = "allocate" => HasArea(IF next = Invalid THEN table ELSE next, app)

ASInv ==
  PTP!PTInv /\ TypeInv /\ PhaseInv /\ SoundInv /\ OwnInv /\ FaultInv /\ DataInv /\ GrantInv

(***************************************************************************)
(* AppStorage uses the partition table as PartTable says                   *)
(***************************************************************************)
FreeTable == [i \in Area |-> FreeEntry]

LEMMA FreeTables == FreeTable \in Tables /\ Sound(FreeTable) /\ \A i \in Area : Owner(FreeTable, i) = None
<1>1. FreeTable \in Tables
  BY DEF FreeTable, Tables, FreeEntry, AreaEntry
<1>2. \A i \in Area : Owner(FreeTable, i) = None /\ FreeTable[i].status = 0
  BY DEF FreeTable, FreeEntry, Owner
<1> QED BY <1>1, <1>2 DEF Sound, WellFormed

LEMMA Idle ==
  ASSUME ASInv, mode = "idle"
  PROVE  table \in Tables /\ app \in Cdi /\ Sound(table) /\ table # Invalid
BY FaultsAssumption DEF FaultsAssumption, ASInv, PTP!PTInv, PTP!PTTypeOK, PhaseInv, SoundInv

LEMMA InitTable == Init => PTP!TableInit
BY FreeTables DEF Init, PT!InitWith, PTP!TableInit, PTP!InitWith, FreeTable

\* One after the other the actions of AppStorage are actions of PartTable, or
\* leave its variables alone.
LEMMA StepTable == ASInv /\ [Next]_vars => [PTP!TableNext]_(PTP!ptvars)
<1> SUFFICES ASSUME ASInv, [Next]_vars PROVE [PTP!TableNext]_(PTP!ptvars)
  OBVIOUS
<1>1. CASE Syscall
  <2>1. UNCHANGED ptvars
    BY <1>1
    DEF Syscall, AllocateAgain, storage_allocate_area, storage_deallocate_area,
        storage_erase_sector, storage_write_data, storage_erase_areas, Call
  <2> QED BY <2>1 DEF ptvars, PTP!ptvars
<1>2. CASE FlashCommand \/ Return \/ UNCHANGED vars
  BY <1>2 DEF FlashCommand, Return, vars, ptvars, PTP!ptvars
<1>3. CASE WriteTable
  <2>1. next \in Tables
    BY <1>3 DEF WriteTable, ASInv, TypeInv
  <2>2. PTP!part_table_write(next)
    BY <1>3 DEF WriteTable, PT!part_table_write, PTP!part_table_write
  <2> QED BY <2>1, <2>2 DEF PTP!TableNext
<1>4. CASE TableStep
  BY <1>4
  DEF TableStep, PT!WriteStep, PT!EraseCopy, PT!WriteCopy0, PT!WriteCopy1,
      PTP!TableNext, PTP!WriteStep, PTP!EraseCopy, PTP!WriteCopy0, PTP!WriteCopy1
<1>5. CASE \E cdi \in Cdi, privileged \in BOOLEAN : Start(cdi, privileged)
  BY <1>5
  DEF Start, PT!part_table_read, PT!Found, PT!FirstValid, PT!PART_SLOT0_INVALID,
      PTP!TableNext, PTP!part_table_read, PTP!Found, PTP!FirstValid, PTP!PART_SLOT0_INVALID
<1>6. CASE NoTable
  BY <1>6
  DEF NoTable, PT!NoTable, PT!Found, PT!FirstValid,
      PTP!TableNext, PTP!NoTable, PTP!Found, PTP!FirstValid
<1>7. CASE PowerCut
  BY <1>7
  DEF PowerCut, PT!PowerCut, PT!Writing, PTP!TableNext, PTP!Environment, PTP!PowerCut, PTP!Writing
<1>8. CASE \E i \in {0, 1} : TableFault(i)
  BY <1>8 DEF TableFault, PT!FlashFault, PTP!TableNext, PTP!Environment, PTP!FlashFault
<1> QED
  BY <1>1, <1>2, <1>3, <1>4, <1>5, <1>6, <1>7, <1>8 DEF Next, CallStep, Environment

LEMMA KeepsTable == ASInv /\ [Next]_vars => PTP!PTInv'
BY StepTable, PTP!NextInv, FaultsAssumption DEF ASInv, FaultsAssumption, PTP!TableAssumption

(***************************************************************************)
(* What the actions do                                                     *)
(***************************************************************************)
LEMMA Tailed ==
  ASSUME NEW s \in Seq(Command), s # <<>>
  PROVE  /\ Head(s) \in Command /\ Head(s) = s[1] /\ Len(s) \in Nat /\ Len(s) > 0
         /\ Tail(s) \in Seq(Command) /\ Len(Tail(s)) = Len(s) - 1
         /\ \A k \in 1 .. Len(Tail(s)) : Tail(s)[k] = s[k + 1]
BY HeadTailProperties

\* A flash command changes the sectors it names.
LEMMA FlashEffect ==
  ASSUME TypeInv, FlashCommand
  PROVE  /\ flash' \in [Area -> [Sector -> SUBSET (Cdi \cup {app})]]
         /\ \A i \in Area, s \in Sector :
              flash'[i][s] = IF i # todo[1].area \/ s \notin todo[1].sectors THEN flash[i][s]
                             ELSE IF todo[1].op = "erase" THEN {} ELSE flash[i][s] \cup {app}
<1> DEFINE c == Head(todo)
<1>1. c \in Command /\ c = todo[1]
  BY Tailed DEF TypeInv, FlashCommand
<1>2. flash' = [flash EXCEPT ![c.area] =
                  [s \in Sector |-> IF s \in c.sectors
                                    THEN IF c.op = "erase" THEN {} ELSE flash[c.area][s] \cup {app}
                                    ELSE flash[c.area][s]]]
  BY DEF FlashCommand, Executed
<1> HIDE DEF c
<1>3. c.area \in Area /\ flash \in [Area -> [Sector -> SUBSET Cdi]]
  BY <1>1 DEF Command, TypeInv
<1> DEFINE row == [s \in Sector |-> IF s \in c.sectors
                                   THEN IF c.op = "erase" THEN {} ELSE flash[c.area][s] \cup {app}
                                   ELSE flash[c.area][s]]
<1>4. row \in [Sector -> SUBSET (Cdi \cup {app})]
  BY <1>3
<1>5. \A i \in Area : flash'[i] = IF i = c.area THEN row ELSE flash[i]
  BY <1>2, <1>3
<1>6. \A s \in Sector : row[s] = IF s \notin c.sectors THEN flash[c.area][s]
                                ELSE IF c.op = "erase" THEN {} ELSE flash[c.area][s] \cup {app}
  OBVIOUS
<1>7. flash' = [flash EXCEPT ![c.area] = row]
  BY <1>2
<1> HIDE DEF row
<1>8. \A i \in Area : flash[i] \in [Sector -> SUBSET (Cdi \cup {app})]
  BY <1>3
<1>9. flash' \in [Area -> [Sector -> SUBSET (Cdi \cup {app})]]
  BY <1>3, <1>4, <1>7, <1>8
<1> QED BY <1>1, <1>5, <1>6, <1>9

LEMMA ErasePairs ==
  ASSUME NEW i \in Area
  PROVE  /\ EraseBlocks(i) \in Seq(Command) /\ Len(EraseBlocks(i)) = 2
         /\ \A k \in 1 .. 2 : /\ EraseBlocks(i)[k].op = "erase" /\ EraseBlocks(i)[k].area = i
                              /\ EraseBlocks(i)[k].sectors = Block(k - 1)
         /\ \A s \in Sector : \E k \in 1 .. 2 : s \in EraseBlocks(i)[k].sectors
<1>1. EraseBlocks(i) = <<Erase(i, Block(0)), Erase(i, Block(1))>>
  BY DEF EraseBlocks
<1>2. \A b \in {0, 1} : Erase(i, Block(b)) \in Command
  BY Blocks DEF Erase, Command
<1>3. \A k \in 1 .. 2 : EraseBlocks(i)[k] = Erase(i, Block(k - 1))
  BY <1>1
<1> QED BY <1>1, <1>2, <1>3, Blocks DEF Erase

\* The commands of storage_erase_areas reach every sector.
AllErases ==
  [k \in 1 .. 2 * N_STORAGE_AREA |-> EraseBlocks((k - 1) \div 2)[1 + ((k - 1) % 2)]]

LEMMA AllErased ==
  /\ AllErases \in Seq(Command) /\ Len(AllErases) = 2 * N_STORAGE_AREA
  /\ \A k \in 1 .. Len(AllErases) : AllErases[k].op = "erase"
  /\ \A i \in Area, s \in Sector :
       \E k \in 1 .. Len(AllErases) : AllErases[k].area = i /\ s \in AllErases[k].sectors
<1>1. N_STORAGE_AREA \in Nat /\ 2 * N_STORAGE_AREA \in Nat
  BY AreaAssumption DEF AreaAssumption
<1>2. ASSUME NEW k \in 1 .. 2 * N_STORAGE_AREA
      PROVE  (k - 1) \div 2 \in Area /\ 1 + ((k - 1) % 2) \in 1 .. 2
  BY <1>1 DEF Area
<1>3. \A k \in 1 .. 2 * N_STORAGE_AREA : AllErases[k] = EraseBlocks((k - 1) \div 2)[1 + ((k - 1) % 2)]
  BY DEF AllErases
<1>4. ASSUME NEW k \in 1 .. 2 * N_STORAGE_AREA
      PROVE  AllErases[k] \in Command /\ AllErases[k].op = "erase"
  <2> DEFINE i == (k - 1) \div 2
             j == 1 + ((k - 1) % 2)
  <2>1. i \in Area /\ j \in 1 .. 2 /\ AllErases[k] = EraseBlocks(i)[j]
    BY <1>2, <1>3
  <2> HIDE DEF i, j
  <2> QED BY <2>1, ErasePairs
<1>5. AllErases \in Seq(Command) /\ Len(AllErases) = 2 * N_STORAGE_AREA
  BY <1>1, <1>4 DEF AllErases
<1>6. ASSUME NEW i \in Area, NEW s \in Sector
      PROVE  \E k \in 1 .. 2 * N_STORAGE_AREA : AllErases[k].area = i /\ s \in AllErases[k].sectors
  <2>1. PICK j \in 1 .. 2 : s \in EraseBlocks(i)[j].sectors
    BY ErasePairs
  <2> DEFINE k == 2 * i + j
  <2>2. k \in 1 .. 2 * N_STORAGE_AREA /\ (k - 1) \div 2 = i /\ 1 + ((k - 1) % 2) = j
    BY <1>1 DEF Area
  <2>3. AllErases[k] = EraseBlocks(i)[j]
    BY <1>3, <2>2
  <2> HIDE DEF k
  <2>4. AllErases[k].area = i /\ s \in AllErases[k].sectors
    BY <2>1, <2>3, ErasePairs
  <2> QED BY <2>2, <2>4
<1> QED BY <1>4, <1>5, <1>6

(***************************************************************************)
(* System calls                                                            *)
(***************************************************************************)
Rest == TypeInv /\ PhaseInv /\ SoundInv /\ OwnInv /\ FaultInv /\ DataInv /\ GrantInv

\* Between two writes, within what PartTable tolerates, the table in use is one
\* a restart may come up with, and so what is true of those is true of it.
LEMMA Current ==
  ASSUME ASInv, mode = "idle", intact
  PROVE  table \in recoverable /\ Belongs(table) /\ \A c \in granted : HasArea(table, c)
<1>1. PTP!Tolerated
  BY DEF ASInv, FaultInv
<1>2. table \in recoverable
  BY <1>1
  DEF ASInv, PTP!Tolerated, PTP!PTInv, PTP!PTTypeOK, PTP!FallbackInv, PTP!SingleFaultInv
<1> QED BY <1>2 DEF ASInv, DataInv, GrantInv

\* What a call has to see to when it starts.
LEMMA NewCall ==
  ASSUME ASInv, Ready, UNCHANGED <<ptvars, flash, app, mgmt, intact>>,
         call' # "none", todo' \in Seq(Command), next' \in Tables \cup {Invalid},
         granted' \subseteq granted,
         next' # Invalid => Sound(next'),
         OwnInv',
         intact /\ next' # Invalid => WillBelong(next)',
         intact /\ next' # Invalid => \A c \in granted' : HasArea(next', c),
         call' = "allocate" => HasArea(IF next' = Invalid THEN table ELSE next', app)
  PROVE  Rest'
<1>1. /\ mode = "idle" /\ app \in Cdi
      /\ UNCHANGED <<copy, table, mode, recoverable, primary, backup>>
  BY Idle DEF Ready, ptvars
<1>2. TypeInv'
  BY DEF ASInv, TypeInv
<1>3. PhaseInv'
  BY <1>1 DEF PhaseInv
<1>4. SoundInv'
  BY <1>1 DEF ASInv, SoundInv
<1>5. FaultInv'
  BY <1>1 DEF ASInv, FaultInv, PTP!Tolerated
<1>6. DataInv'
  BY <1>1 DEF ASInv, DataInv, Belongs
<1>7. GrantInv'
  BY <1>1 DEF ASInv, GrantInv, HasArea
<1> QED BY <1>2, <1>3, <1>4, <1>5, <1>6, <1>7 DEF Rest

LEMMA AllocateAgainInv == ASSUME ASInv, AllocateAgain PROVE Rest'
<1>1. /\ Ready /\ UNCHANGED <<ptvars, flash, app, mgmt, intact>>
      /\ call' = "allocate" /\ todo' = <<>> /\ next' = Invalid /\ granted' = granted
  BY DEF AllocateAgain, Call
<1>2. table \in Tables /\ app \in Cdi /\ WellFormed(table)
  BY <1>1, Idle DEF Ready, Sound
<1>3. HasArea(table, app)
  BY <1>2, GetArea DEF AllocateAgain, MyArea
<1>4. OwnInv'
  BY <1>1 DEF OwnInv
<1> QED BY <1>1, <1>3, <1>4, NewCall

LEMMA AllocateInv ==
  ASSUME ASInv, NEW nonce \in Nonce, storage_allocate_area(nonce)
  PROVE  Rest'
<1> DEFINE i == get_first_empty(table)
           t == [table EXCEPT ![i] = auth_app_create(app, nonce)]
<1>1. /\ Ready /\ UNCHANGED <<ptvars, flash, app, mgmt, intact>> /\ MyArea = -1 /\ i # -1
      /\ call' = "allocate" /\ todo' = EraseBlocks(i) /\ next' = t /\ granted' = granted
  BY DEF storage_allocate_area, Call
<1>2. table \in Tables /\ app \in Cdi /\ Sound(table)
  BY <1>1, Idle DEF Ready
<1>3. i \in Area /\ table[i].status = 0
  BY <1>1, <1>2, FirstEmpty
<1>4. ~HasArea(table, app)
  BY <1>1, <1>2, GetArea DEF Sound, MyArea
<1> HIDE DEF i
<1>5. /\ t \in Tables /\ t[i] = auth_app_create(app, nonce)
      /\ \A j \in Area : j # i => t[j] = table[j]
  BY <1>2, <1>3 DEF Tables, AreaEntry, auth_app_create, calculate_auth_digest
<1> HIDE DEF t
<1>6. Owner(t, i) = app /\ Owner(table, i) = None /\ app # None
      /\ \A j \in Area : j # i => Owner(t, j) = Owner(table, j)
  BY <1>2, <1>3, <1>5, AreaAssumption
  DEF AreaAssumption, Owner, auth_app_create, calculate_auth_digest
<1>7. Sound(t)
  <2>1. WellFormed(t)
    BY <1>2, <1>5 DEF Sound, WellFormed
  <2>2. ASSUME NEW j \in Area, NEW k \in Area, Owner(t, j) = Owner(t, k), j # k
        PROVE  Owner(t, j) = None
    BY <1>2, <1>4, <1>6, <2>2 DEF Sound, HasArea
  <2> QED BY <2>1, <2>2 DEF Sound
<1>8. todo' \in Seq(Command) /\ Len(todo') = 2
      /\ \A k \in 1 .. 2 : todo'[k].op = "erase" /\ todo'[k].area = i
  BY <1>1, <1>3, ErasePairs
<1>9. OwnInv'
  BY <1>1, <1>6, <1>8 DEF OwnInv, Owner, ptvars
<1>10. ASSUME intact, NEW j \in Area, NEW s \in Sector
       PROVE  flash[j][s] \subseteq Owned(t, j) \/ \E k \in 1 .. 2 : todo'[k].op = "erase" /\ todo'[k].area = j /\ s \in todo'[k].sectors
  <2>1. CASE j = i
    BY <1>1, <1>3, <1>8, <2>1, ErasePairs
  <2>2. CASE j # i
    BY <1>1, <1>6, <1>10, <2>2, Current DEF Ready, Belongs, Owned
  <2> QED BY <2>1, <2>2
<1>11. intact => WillBelong(next)'
  BY <1>1, <1>8, <1>10 DEF WillBelong, ErasedBy, Owned, Owner
<1>12. ASSUME intact, NEW c \in granted PROVE HasArea(t, c)
  BY <1>1, <1>6, <1>12, Current, AreaAssumption DEF Ready, HasArea, ASInv, TypeInv, AreaAssumption
<1>13. HasArea(t, app)
  BY <1>3, <1>6 DEF HasArea
<1>14. t # Invalid
  BY <1>5, FaultsAssumption DEF FaultsAssumption
<1> QED BY <1>1, <1>5, <1>7, <1>8, <1>9, <1>11, <1>12, <1>13, <1>14, NewCall

LEMMA DeallocateInv == ASSUME ASInv, storage_deallocate_area PROVE Rest'
<1> DEFINE i == MyArea
           t == [table EXCEPT ![i] = FreeEntry]
<1>1. /\ Ready /\ UNCHANGED <<ptvars, flash, app, mgmt, intact>> /\ i # -1
      /\ call' = "deallocate" /\ todo' = EraseBlocks(i) /\ next' = t
      /\ granted' = granted \ {app}
  BY DEF storage_deallocate_area, Call
<1>2. table \in Tables /\ app \in Cdi /\ Sound(table)
  BY <1>1, Idle DEF Ready
<1>3. i \in Area /\ Owner(table, i) = app
  BY <1>1, <1>2, GetArea DEF Sound, MyArea
<1> HIDE DEF i
<1>4. /\ t \in Tables /\ t[i] = FreeEntry
      /\ \A j \in Area : j # i => t[j] = table[j]
  BY <1>2, <1>3 DEF Tables, AreaEntry, FreeEntry
<1> HIDE DEF t
<1>5. t[i].status = 0 /\ Owner(t, i) = None
      /\ \A j \in Area : j # i => Owner(t, j) = Owner(table, j)
  BY <1>4 DEF Owner, FreeEntry
<1>6. Sound(t)
  <2>1. WellFormed(t)
    BY <1>2, <1>4, <1>5 DEF Sound, WellFormed
  <2>2. ASSUME NEW j \in Area, NEW k \in Area, Owner(t, j) = Owner(t, k), j # k
        PROVE  Owner(t, j) = None
    BY <1>2, <1>5, <2>2 DEF Sound
  <2> QED BY <2>1, <2>2 DEF Sound
<1>7. todo' \in Seq(Command) /\ Len(todo') = 2
      /\ \A k \in 1 .. 2 : todo'[k].op = "erase" /\ todo'[k].area = i
  BY <1>1, <1>3, ErasePairs
<1>8. OwnInv'
  BY <1>1, <1>3, <1>7 DEF OwnInv, Owner, ptvars
<1>9. ASSUME intact, NEW j \in Area, NEW s \in Sector
      PROVE  flash[j][s] \subseteq Owned(t, j) \/ \E k \in 1 .. 2 : todo'[k].op = "erase" /\ todo'[k].area = j /\ s \in todo'[k].sectors
  <2>1. CASE j = i
    BY <1>1, <1>3, <1>7, <2>1, ErasePairs
  <2>2. CASE j # i
    BY <1>1, <1>5, <1>9, <2>2, Current DEF Ready, Belongs, Owned
  <2> QED BY <2>1, <2>2
<1>10. intact => WillBelong(next)'
  BY <1>1, <1>7, <1>9 DEF WillBelong, ErasedBy, Owned, Owner
<1>11. ASSUME intact, NEW c \in granted \ {app} PROVE HasArea(t, c)
  <2>1. PICK j \in Area : Owner(table, j) = c
    BY <1>1, <1>11, Current DEF Ready, HasArea
  <2> QED BY <1>3, <1>5, <2>1 DEF HasArea
<1> QED BY <1>1, <1>4, <1>6, <1>7, <1>8, <1>10, <1>11, NewCall

\* A call that has flash commands and no table to write.
LEMMA PlainCall ==
  ASSUME ASInv, Ready, UNCHANGED <<ptvars, flash, app, mgmt, intact, granted>>,
         MyArea # -1, call' \in {"erase", "write"}, next' = Invalid,
         todo' \in Seq(Command), \A k \in 1 .. Len(todo') : todo'[k].area = MyArea
  PROVE  Rest'
<1>1. table \in Tables /\ app \in Cdi /\ Sound(table)
  BY Idle DEF Ready
<1>2. Owner(table, MyArea) = app
  BY <1>1, GetArea DEF Sound, MyArea
<1>3. OwnInv'
  BY <1>2 DEF OwnInv, Owner, ptvars
<1> QED BY <1>3, NewCall

LEMMA SectorInArea ==
  ASSUME NEW offset \in 0 .. NSectors + 1, NEW size \in 0 .. NSectors + 1, InArea(offset, size)
  PROVE  size \in Nat /\ \A k \in 1 .. size : offset + k - 1 \in Sector
BY AreaAssumption DEF AreaAssumption, InArea, Sector, NSectors

LEMMA EraseSectorInv ==
  ASSUME ASInv, NEW offset \in 0 .. NSectors + 1, NEW size \in 0 .. NSectors + 1,
         storage_erase_sector(offset, size)
  PROVE  Rest'
<1> DEFINE i == MyArea
           cmds == [k \in 1 .. size |-> Erase(i, {offset + k - 1})]
<1>1. /\ Ready /\ UNCHANGED <<ptvars, flash, app, mgmt, intact, granted>> /\ i # -1
      /\ InArea(offset, size) /\ call' = "erase" /\ todo' = cmds /\ next' = Invalid
  BY DEF storage_erase_sector, Call
<1>2. i \in Area
  BY <1>1, Idle, GetArea DEF Ready, Sound, MyArea
<1>3. size \in Nat /\ \A k \in 1 .. size : offset + k - 1 \in Sector
  BY <1>1, SectorInArea
<1>4. \A k \in 1 .. size : cmds[k] \in Command /\ cmds[k].area = i
  BY <1>2, <1>3 DEF Erase, Command
<1>5. cmds \in Seq(Command) /\ Len(cmds) = size
  <2>1. cmds \in [1 .. size -> Command]
    BY <1>4
  <2> HIDE DEF cmds
  <2> QED BY <1>3, <2>1
<1> QED BY <1>1, <1>4, <1>5, PlainCall

LEMMA WriteDataInv ==
  ASSUME ASInv, NEW offset \in 0 .. NSectors + 1, NEW size \in 0 .. NSectors + 1,
         storage_write_data(offset, size)
  PROVE  Rest'
<1> DEFINE i == MyArea
           cmds == [k \in 1 .. size |-> Program(i, offset + k - 1)]
<1>1. /\ Ready /\ UNCHANGED <<ptvars, flash, app, mgmt, intact, granted>> /\ i # -1
      /\ InArea(offset, size) /\ call' = "write" /\ todo' = cmds /\ next' = Invalid
  BY DEF storage_write_data, Call
<1>2. i \in Area
  BY <1>1, Idle, GetArea DEF Ready, Sound, MyArea
<1>3. size \in Nat /\ \A k \in 1 .. size : offset + k - 1 \in Sector
  BY <1>1, SectorInArea
<1>4. \A k \in 1 .. size : cmds[k] \in Command /\ cmds[k].area = i
  BY <1>2, <1>3 DEF Program, Command
<1>5. cmds \in Seq(Command) /\ Len(cmds) = size
  <2>1. cmds \in [1 .. size -> Command]
    BY <1>4
  <2> HIDE DEF cmds
  <2> QED BY <1>3, <2>1
<1> QED BY <1>1, <1>4, <1>5, PlainCall

LEMMA EraseAreasInv == ASSUME ASInv, storage_erase_areas PROVE Rest'
<1>1. /\ Ready /\ UNCHANGED <<ptvars, flash, app, mgmt, intact>>
      /\ call' = "erase_areas" /\ todo' = AllErases /\ next' = FreeTable /\ granted' = {}
  BY DEF storage_erase_areas, Call, AllErases, FreeTable
<1> HIDE DEF AllErases
<1>2. OwnInv'
  <2>1. \A k \in 1 .. Len(todo') : todo'[k].op = "erase"
    BY <1>1, AllErased
  <2> QED BY <1>1, <2>1 DEF OwnInv
<1>3. ASSUME NEW i \in Area, NEW s \in Sector PROVE ErasedBy(i, s)'
  <2>1. PICK k \in 1 .. Len(AllErases) : AllErases[k].area = i /\ s \in AllErases[k].sectors
    BY AllErased
  <2>2. AllErases[k].op = "erase"
    BY AllErased
  <2> QED BY <1>1, <2>1, <2>2 DEF ErasedBy
<1>4. WillBelong(next)'
  BY <1>3 DEF WillBelong
<1> QED BY <1>1, <1>2, <1>4, FreeTables, AllErased, NewCall, FaultsAssumption DEF FaultsAssumption

(***************************************************************************)
(* Steps of a call                                                         *)
(***************************************************************************)
\* No copy is touched, and what is left to do is what was left after the first
\* command.
LEMMA CommandInv == ASSUME ASInv, FlashCommand PROVE Rest'
<1> DEFINE c == todo[1]
<1>1. /\ mode = "idle" /\ todo # <<>> /\ todo' = Tail(todo)
      /\ UNCHANGED <<copy, table, mode, recoverable, primary, backup>>
      /\ UNCHANGED <<app, mgmt, call, next, granted, intact>>
  BY DEF FlashCommand, ptvars
<1>2. /\ c \in Command /\ Len(todo) \in Nat /\ Len(todo) > 0
      /\ Tail(todo) \in Seq(Command) /\ Len(Tail(todo)) = Len(todo) - 1
      /\ \A k \in 1 .. Len(Tail(todo)) : Tail(todo)[k] = todo[k + 1]
  BY <1>1, Tailed DEF ASInv, TypeInv
<1>3. app \in Cdi /\ app # None /\ call # "none"
  BY <1>1, Idle, AreaAssumption DEF AreaAssumption, ASInv, PhaseInv
<1>4. /\ flash' \in [Area -> [Sector -> SUBSET (Cdi \cup {app})]]
      /\ \A i \in Area, s \in Sector :
           flash'[i][s] = IF i # c.area \/ s \notin c.sectors THEN flash[i][s]
                          ELSE IF c.op = "erase" THEN {} ELSE flash[i][s] \cup {app}
  BY FlashEffect DEF ASInv
<1>5. /\ call = "erase_areas" \/ Owner(table, c.area) \in {None, app}
      /\ c.op = "program" => next = Invalid /\ Owner(table, c.area) = app
  BY <1>2 DEF ASInv, OwnInv
<1> HIDE DEF c
<1>6. c.op \in {"erase", "program"} /\ c.area \in Area
  BY <1>2 DEF Command
<1>7. TypeInv'
  <2>1. Cdi \cup {app} = Cdi
    BY <1>3
  <2> QED BY <1>1, <1>2, <1>4, <2>1 DEF ASInv, TypeInv
<1>8. PhaseInv'
  BY <1>1, <1>3 DEF ASInv, PhaseInv
<1>9. SoundInv'
  BY <1>1 DEF ASInv, SoundInv
<1>10. OwnInv'
  <2>1. \A k \in 1 .. Len(todo') : k + 1 \in 1 .. Len(todo) /\ todo'[k] = todo[k + 1]
    BY <1>1, <1>2
  <2> QED BY <1>1, <2>1 DEF ASInv, OwnInv, Owner
<1>11. FaultInv'
  BY <1>1 DEF ASInv, FaultInv, PTP!Tolerated
<1>12. ASSUME intact PROVE Belongs(table)'
  <2>1. Belongs(table)
    BY <1>1, <1>12, Current
  <2>2. ASSUME NEW i \in Area, NEW s \in Sector PROVE flash'[i][s] \subseteq Owned(table, i)
    <3>1. flash[i][s] \subseteq Owned(table, i)
      BY <2>1 DEF Belongs
    <3>2. CASE i = c.area /\ s \in c.sectors /\ c.op = "program"
      <4>1. flash'[i][s] = flash[i][s] \cup {app} /\ Owner(table, i) = app
        BY <1>4, <1>5, <3>2
      <4>2. app \in Owned(table, i)
        BY <1>3, <4>1 DEF Owned
      <4> QED BY <3>1, <4>1, <4>2
    <3> QED BY <1>4, <1>6, <3>1, <3>2
  <2> QED BY <1>1, <2>2 DEF Belongs, Owned, Owner
<1>13. ASSUME next # Invalid PROVE WillBelong(next) => WillBelong(next)'
  <2> SUFFICES ASSUME WillBelong(next), NEW i \in Area, NEW s \in Sector
               PROVE  flash'[i][s] \subseteq Owned(next, i) \/ ErasedBy(i, s)'
    BY <1>1 DEF WillBelong, Owned, Owner
  <2>1. c.op = "erase"
    BY <1>5, <1>6, <1>13
  <2>2. flash'[i][s] \subseteq flash[i][s]
    BY <1>4, <2>1
  <2>3. CASE flash[i][s] \subseteq Owned(next, i)
    BY <2>2, <2>3
  <2>4. CASE ErasedBy(i, s)
    <3>1. PICK k \in 1 .. Len(todo) : todo[k].op = "erase" /\ todo[k].area = i /\ s \in todo[k].sectors
      BY <2>4 DEF ErasedBy
    <3>2. CASE k = 1
      BY <1>4, <2>1, <3>1, <3>2 DEF c
    <3>3. CASE k # 1
      <4>1. k - 1 \in 1 .. Len(todo') /\ todo'[k - 1] = todo[k]
        BY <1>1, <1>2, <3>3
      <4> QED BY <3>1, <4>1 DEF ErasedBy
    <3> QED BY <3>2, <3>3
  <2> QED BY <2>3, <2>4 DEF WillBelong
<1>14. DataInv'
  <2>1. recoverable' \subseteq {table'}
    BY <1>1 DEF ASInv, FaultInv
  <2> QED BY <1>1, <1>12, <1>13, <2>1 DEF ASInv, DataInv, Belongs
<1>15. GrantInv'
  BY <1>1 DEF ASInv, GrantInv, HasArea, Owner
<1> QED BY <1>7, <1>8, <1>9, <1>10, <1>11, <1>14, <1>15 DEF Rest

\* The erases are done: the table handed to part_table_write is right already,
\* and from here on a restart may come up with it.
LEMMA WriteTableInv == ASSUME ASInv, WriteTable PROVE Rest'
<1>1. /\ mode = "idle" /\ call # "none" /\ todo = <<>> /\ next # Invalid /\ next \in Tables
      /\ table' = next /\ mode' = "erase0" /\ recoverable' = recoverable \cup {next} /\ next' = Invalid
      /\ UNCHANGED <<copy, primary, backup, flash, app, mgmt, call, todo, granted, intact>>
  BY DEF WriteTable, PT!part_table_write, ASInv, TypeInv
<1>2. TypeInv'
  BY <1>1 DEF ASInv, TypeInv
<1>3. PhaseInv'
  BY <1>1 DEF ASInv, PhaseInv
<1>4. SoundInv'
  BY <1>1 DEF ASInv, SoundInv
<1>5. OwnInv'
  BY <1>1 DEF OwnInv
<1>6. FaultInv'
  BY <1>1 DEF ASInv, FaultInv, PTP!Tolerated
<1>7. DataInv'
  <2>1. WillBelong(next) => Belongs(next)
    BY <1>1 DEF WillBelong, Belongs, ErasedBy
  <2>2. intact => \A t \in recoverable \cup {next} : Belongs(t)
    BY <1>1, <2>1 DEF ASInv, DataInv
  <2> QED BY <1>1, <2>2 DEF DataInv, Belongs
<1>8. GrantInv'
  BY <1>1 DEF ASInv, GrantInv, HasArea
<1> QED BY <1>2, <1>3, <1>4, <1>5, <1>6, <1>7, <1>8 DEF Rest

\* What is written is the table in use, which a restart may come up with since
\* the call handed it over.
LEMMA TableStepInv == ASSUME ASInv, TableStep PROVE Rest'
<1>1. /\ mode \in PTP!Writing /\ todo = <<>> /\ next = Invalid
      /\ UNCHANGED <<table, flash, app, mgmt, callvars, granted, intact>>
      /\ mode' \in {"write0", "erase1", "write1", "idle"}
      /\ \A i \in {0, 1} : copy'[i] \in {copy[i], Invalid, table}
      /\ \/ mode' # "idle" /\ UNCHANGED <<recoverable, primary, backup>>
         \/ recoverable' = {table} /\ primary' = 0 /\ backup' = 0
  BY DEF TableStep, PT!WriteStep, PT!EraseCopy, PT!WriteCopy0, PT!WriteCopy1, PTP!Writing,
         ASInv, PhaseInv, PTP!PTInv, PTP!PTTypeOK
<1>2. table \in recoverable
  BY <1>1 DEF ASInv, PTP!PTInv, PTP!CurrentInv
<1>3. recoverable' \subseteq recoverable
  BY <1>1, <1>2
<1>4. TypeInv'
  BY <1>1 DEF ASInv, TypeInv, callvars
<1>5. PhaseInv'
  BY <1>1 DEF ASInv, PhaseInv, callvars, PTP!Writing
<1>6. SoundInv'
  BY <1>1 DEF ASInv, SoundInv, callvars
<1>7. OwnInv'
  BY <1>1 DEF OwnInv, callvars
<1>8. FaultInv'
  BY <1>1 DEF ASInv, FaultInv, PTP!Tolerated
<1>9. DataInv'
  BY <1>1, <1>3 DEF ASInv, DataInv, Belongs, callvars
<1>10. GrantInv'
  BY <1>1, <1>3 DEF ASInv, GrantInv, HasArea, callvars
<1> QED BY <1>4, <1>5, <1>6, <1>7, <1>8, <1>9, <1>10 DEF Rest

\* The area storage_allocate_area reports is in the only table there is.
LEMMA ReturnInv == ASSUME ASInv, Return PROVE Rest'
<1>1. /\ mode = "idle" /\ call # "none" /\ call' = "none" /\ todo = <<>> /\ next = Invalid
      /\ granted' = IF call = "allocate" THEN granted \cup {app} ELSE granted
      /\ UNCHANGED <<copy, table, mode, recoverable, primary, backup>>
      /\ UNCHANGED <<flash, app, mgmt, todo, next, intact>>
  BY DEF Return, ptvars
<1>2. app \in Cdi
  BY <1>1, Idle
<1>3. TypeInv'
  BY <1>1, <1>2 DEF ASInv, TypeInv
<1>4. PhaseInv'
  BY <1>1 DEF ASInv, PhaseInv
<1>5. SoundInv'
  BY <1>1 DEF ASInv, SoundInv
<1>6. OwnInv'
  BY <1>1 DEF OwnInv
<1>7. FaultInv'
  BY <1>1 DEF ASInv, FaultInv, PTP!Tolerated
<1>8. DataInv'
  BY <1>1 DEF ASInv, DataInv, Belongs
<1>9. GrantInv'
  <2>1. call = "allocate" => \A t \in recoverable : HasArea(t, app)
    BY <1>1 DEF ASInv, GrantInv, FaultInv
  <2>2. \A c \in granted' : c \in granted \/ (c = app /\ call = "allocate")
    BY <1>1
  <2> QED BY <1>1, <2>1, <2>2 DEF ASInv, GrantInv, HasArea
<1> QED BY <1>3, <1>4, <1>5, <1>6, <1>7, <1>8, <1>9 DEF Rest

(***************************************************************************)
(* Boot and faults                                                         *)
(***************************************************************************)
LEMMA StartInv ==
  ASSUME ASInv, NEW cdi \in Cdi, NEW privileged \in BOOLEAN, Start(cdi, privileged)
  PROVE  Rest'
<1>1. /\ mode = "off" /\ mode' = "idle" /\ call = "none" /\ todo = <<>> /\ next = Invalid
      /\ table' \in {copy[0], copy[1]}
      /\ recoverable' = recoverable \cap {table'}
      /\ app' = cdi /\ mgmt' = privileged
      /\ UNCHANGED <<copy, primary, backup, flash, call, todo, next, granted, intact>>
  BY DEF Start, PT!part_table_read, PT!FirstValid, callvars, ASInv, PhaseInv
<1>2. TypeInv'
  BY <1>1 DEF ASInv, TypeInv
<1>3. PhaseInv'
  BY <1>1 DEF PhaseInv
<1>4. SoundInv'
  BY <1>1 DEF ASInv, SoundInv
<1>5. OwnInv'
  BY <1>1 DEF OwnInv
<1>6. FaultInv'
  BY <1>1 DEF ASInv, FaultInv, PTP!Tolerated
<1>7. DataInv'
  BY <1>1 DEF ASInv, DataInv, Belongs
<1>8. GrantInv'
  BY <1>1 DEF ASInv, GrantInv, HasArea
<1> QED BY <1>2, <1>3, <1>4, <1>5, <1>6, <1>7, <1>8 DEF Rest

\* Nothing but the table of the firmware, the copies and the counts of faults
\* changes when power is lost, a flash cell goes bad or no table is found; the
\* call in progress, if any, is gone.
LEMMA StopInv ==
  ASSUME ASInv, NoTable \/ PowerCut \/ (\E i \in {0, 1} : TableFault(i))
  PROVE  Rest'
<1>1. /\ UNCHANGED <<flash, granted, recoverable>>
      /\ app' \in Cdi \cup {None} /\ mgmt' \in BOOLEAN /\ intact' \in BOOLEAN
      /\ intact' => intact /\ PTP!Tolerated'
      /\ call' = "none" /\ todo' = <<>> /\ next' = Invalid
      /\ \A i \in {0, 1} : copy'[i] \in {copy[i], Invalid}
      /\ table' \in {table, Invalid}
      /\ mode' \notin {"off", "halt"} => app' \in Cdi
      /\ mode' = "idle" => table' = table /\ mode = "idle"
  <2>1. CASE NoTable
    BY <2>1 DEF NoTable, PT!NoTable, ASInv, PhaseInv, FaultInv, TypeInv, callvars, PTP!Tolerated
  <2>2. CASE PowerCut
    BY <2>2 DEF PowerCut, PT!PowerCut, ASInv, TypeInv, PT!Tolerated, PTP!Tolerated
  <2>3. CASE \E i \in {0, 1} : TableFault(i)
    BY <2>3
    DEF TableFault, PT!FlashFault, ASInv, PhaseInv, TypeInv, callvars, PT!Tolerated,
        PTP!Tolerated, PTP!PTInv, PTP!PTTypeOK
  <2> QED BY <2>1, <2>2, <2>3
<1>2. TypeInv'
  BY <1>1 DEF ASInv, TypeInv
<1>3. PhaseInv'
  BY <1>1 DEF PhaseInv
<1>4. SoundInv'
  BY <1>1 DEF ASInv, SoundInv
<1>5. OwnInv'
  BY <1>1 DEF OwnInv
<1>6. FaultInv'
  BY <1>1 DEF ASInv, FaultInv
<1>7. DataInv'
  BY <1>1 DEF ASInv, DataInv, Belongs
<1>8. GrantInv'
  BY <1>1 DEF ASInv, GrantInv, HasArea
<1> QED BY <1>2, <1>3, <1>4, <1>5, <1>6, <1>7, <1>8 DEF Rest

LEMMA InitAll == Init => ASInv
<1> SUFFICES ASSUME Init PROVE ASInv
  OBVIOUS
<1>1. PTP!PTInv
  BY InitTable, PTP!InitInv, FaultsAssumption DEF FaultsAssumption, PTP!TableAssumption
<1>2. /\ copy = [i \in {0, 1} |-> FreeTable] /\ table = Invalid /\ mode = "off"
      /\ recoverable = {FreeTable} /\ primary = 0 /\ backup = 0
      /\ flash = [i \in Area |-> [s \in Sector |-> {}]]
      /\ app = None /\ mgmt = FALSE /\ call = "none" /\ todo = <<>> /\ next = Invalid
      /\ granted = {} /\ intact = TRUE
  BY DEF Init, PT!InitWith, FreeTable
<1> HIDE DEF FreeTable
<1>3. TypeInv
  <2>1. todo \in Seq(Command)
    BY <1>2, EmptySeq
  <2>2. flash \in [Area -> [Sector -> SUBSET Cdi]]
    BY <1>2
  <2> QED BY <1>2, <2>1, <2>2 DEF TypeInv
<1>4. PhaseInv
  BY <1>2 DEF PhaseInv
<1>5. SoundInv
  BY <1>2, FreeTables DEF SoundInv
<1>6. OwnInv
  BY <1>2 DEF OwnInv
<1>7. FaultInv
  BY <1>2 DEF FaultInv, PTP!Tolerated
<1>8. DataInv
  BY <1>2 DEF DataInv, Belongs
<1>9. GrantInv
  BY <1>2 DEF GrantInv
<1> QED BY <1>1, <1>3, <1>4, <1>5, <1>6, <1>7, <1>8, <1>9 DEF ASInv

LEMMA StutterInv == ASSUME ASInv, UNCHANGED vars PROVE Rest'
<1>1. /\ UNCHANGED <<copy, table, mode, recoverable, primary, backup>>
      /\ UNCHANGED <<flash, app, mgmt, call, todo, next, granted, intact>>
  BY DEF vars, ptvars, callvars
<1>2. TypeInv' /\ PhaseInv'
  BY <1>1 DEF ASInv, TypeInv, PhaseInv
<1>3. SoundInv' /\ OwnInv'
  BY <1>1 DEF ASInv, SoundInv, OwnInv, Owner
<1>4. FaultInv'
  BY <1>1 DEF ASInv, FaultInv, PTP!Tolerated
<1>5. DataInv'
  BY <1>1 DEF ASInv, DataInv, Belongs, WillBelong, ErasedBy
<1>6. GrantInv'
  BY <1>1 DEF ASInv, GrantInv, HasArea
<1> QED BY <1>2, <1>3, <1>4, <1>5, <1>6 DEF Rest

LEMMA NextAll == ASInv /\ [Next]_vars => ASInv'
<1> SUFFICES ASSUME ASInv, [Next]_vars PROVE ASInv'
  OBVIOUS
<1>1. PTP!PTInv'
  BY KeepsTable
<1>2. Rest'
  <2>1. CASE Syscall
    BY <2>1, AllocateAgainInv, AllocateInv, DeallocateInv, EraseSectorInv, WriteDataInv,
       EraseAreasInv DEF Syscall
  <2>2. CASE CallStep
    BY <2>2, CommandInv, WriteTableInv, TableStepInv, ReturnInv DEF CallStep
  <2>3. CASE Environment
    BY <2>3, StartInv, StopInv DEF Environment
  <2> QED BY <2>1, <2>2, <2>3, StutterInv DEF Next
<1> QED BY <1>1, <1>2 DEF ASInv, Rest

(***************************************************************************)
(* The theorems                                                            *)
(***************************************************************************)
\* The inductive invariant holds in every reachable state.
THEOREM ASInvariance == Spec => []ASInv
BY InitAll, NextAll, PTL DEF Spec

\* storage.c changes the partition table in FW_RAM and in flash only through
\* part_table_read and part_table_write: what is proved of PartTable holds here.
THEOREM UsesPartitionTable == Spec => PTP!TableSpec
<1>1. ASInv /\ [Next]_vars => [PTP!TableNext]_(PTP!ptvars)
  BY StepTable
<1> QED BY <1>1, InitTable, ASInvariance, PTL DEF Spec, PTP!TableSpec

\* Whatever an app passes to the storage system calls, the variables stay well
\* typed and no flash command reaches beyond an area.
THEOREM StorageTypes == Spec => []ASTypeOK
<1>1. ASInv => ASTypeOK
  <2> SUFFICES ASSUME ASInv PROVE ASTypeOK
    OBVIOUS
  <2>1. PT!PTTypeOK
    BY DEF ASInv, PTP!PTInv, PTP!PTTypeOK, PT!PTTypeOK, PTP!Writing, PT!Writing,
           PTP!PART_SLOT0_INVALID, PT!PART_SLOT0_INVALID
  <2>2. \A k \in DOMAIN todo : todo[k] \in Command
    BY DEF ASInv, TypeInv
  <2> QED BY <2>1, <2>2 DEF ASInv, TypeInv, ASTypeOK, Command
<1> QED BY <1>1, ASInvariance, PTL

\* storage_get_area has one area to find at most, in every table a restart may
\* come up with.
THEOREM AtMostOneArea == Spec => []OneAreaPerApp
<1>1. ASInv => OneAreaPerApp
  BY DEF ASInv, SoundInv, Sound, OneAreaPerApp
<1> QED BY <1>1, ASInvariance, PTL

\* storage_read_data shows an app what was written under its own CDI only.
THEOREM OwnDataOnly == Spec => []NoForeignData
<1>1. ASInv => NoForeignData
  <2> SUFFICES ASSUME ASInv, intact, mode = "idle", NEW s \in Sector
               PROVE  storage_read_data(s) \subseteq {app}
    BY DEF NoForeignData
  <2>1. MyArea # -1 => MyArea \in Area /\ Owner(table, MyArea) = app
    BY Idle, GetArea DEF Sound, MyArea
  <2>2. Belongs(table)
    BY Current
  <2> QED BY <2>1, <2>2 DEF storage_read_data, Belongs, Owned
<1> QED BY <1>1, ASInvariance, PTL

\* An area is erased before the table that calls it free is written.
THEOREM NothingLeftBehind == Spec => []FreeIsErased
<1>1. ASInv => FreeIsErased
  <2> SUFFICES ASSUME ASInv, intact, mode = "idle", NEW i \in Area, table[i].status = 0,
                      NEW s \in Sector
               PROVE  flash[i][s] = {}
    BY DEF FreeIsErased
  <2>1. Belongs(table) /\ Owner(table, i) = None
    BY Current DEF Owner
  <2> QED BY <2>1 DEF Belongs, Owned
<1> QED BY <1>1, ASInvariance, PTL

\* An area storage_allocate_area has reported survives every restart.
THEOREM AreaSurvives == Spec => []AllocationDurable
<1>1. ASInv => AllocationDurable
  <2> SUFFICES ASSUME ASInv, intact, mode = "idle", NEW c \in granted
               PROVE  storage_get_area(table, c) # -1
    BY DEF AllocationDurable
  <2>1. c \in Cdi /\ HasArea(table, c)
    BY Current DEF ASInv, TypeInv
  <2> QED BY <2>1, Idle, GetArea DEF Sound
<1> QED BY <1>1, ASInvariance, PTL

\* A flash command of a call touches an area of the running app, a free one, or
\* is part of storage_erase_areas.
THEOREM DataIsPrivate == Spec => OnlyOwnerChangesData
<1>1. ASInv /\ [Next]_vars =>
        [\A i \in Area : flash'[i] # flash[i] /\ Owner(table, i) # None =>
           app = Owner(table, i) \/ call = "erase_areas"]_vars
  <2> SUFFICES ASSUME ASInv, Next, NEW i \in Area, flash'[i] # flash[i], Owner(table, i) # None
               PROVE  app = Owner(table, i) \/ call = "erase_areas"
    OBVIOUS
  <2>1. CASE FlashCommand
    <3>1. i = Head(todo).area
      <4>1. flash \in [Area -> [Sector -> SUBSET Cdi]]
        BY DEF ASInv, TypeInv
      <4> QED BY <2>1, <4>1 DEF FlashCommand
    <3>2. Head(todo) = todo[1] /\ 1 \in 1 .. Len(todo)
      BY <2>1, Tailed DEF FlashCommand, ASInv, TypeInv
    <3> QED BY <3>1, <3>2 DEF ASInv, OwnInv
  <2>2. CASE ~FlashCommand
    BY <2>2
    DEF Next, Syscall, AllocateAgain, storage_allocate_area, storage_deallocate_area,
        storage_erase_sector, storage_write_data, storage_erase_areas, Call, CallStep,
        WriteTable, TableStep, Return, Environment, Start, NoTable, PowerCut, TableFault
  <2> QED BY <2>1, <2>2
<1> QED BY <1>1, ASInvariance, PTL DEF Spec, OnlyOwnerChangesData
=============================================================================
