--------------------------- MODULE PreloadProofs ---------------------------
(***************************************************************************)
(* Proofs for the app in preload slot 1: that Preload is a user of the      *)
(* partition table like any other, and its safety properties on top of what *)
(* PartTableProofs proves, for every size of the slot and every number of   *)
(* data, digests and keys.                                                  *)
(***************************************************************************)
EXTENDS Preload, SequenceTheorems, TLAPS

\* The partition table of Preload, with its theorems.
PTP == INSTANCE PartTableProofs WITH Table <- Tables

(***************************************************************************)
(* The inductive invariant                                                 *)
(***************************************************************************)
Command ==
  [op : {"erase"}, chunks : SUBSET Chunk]
    \cup [op : {"program"}, chunks : SUBSET Chunk, data : Data]

TypeInv ==
  /\ slot \in [Chunk -> SUBSET Data]
  /\ mgmt \in BOOLEAN
  /\ next \in Tables \cup {Invalid}
  /\ todo \in Seq(Command)
  /\ told \in {"nothing", "installed", "deleted"}
  /\ intact \in BOOLEAN

\* A call runs to its end or is cut.  It writes the table before it issues
\* flash commands, if it does both.
PhaseInv ==
  /\ mode \in {"off", "halt"} => call = "none"
  /\ mode # "idle" => next = Invalid
  /\ call = "none" => todo = <<>> /\ next = Invalid

\* The table as it will be when the call in progress has written it.
Coming == IF next = Invalid THEN table ELSE next

\* The slot is programmed and erased only under a table that denies that there
\* is an app in it, and what a call will report is true of the coming table.
CallInv ==
  /\ todo # <<>> => Coming.size = 0
  /\ call = "finalize" => Coming.size # 0
  /\ call = "delete" => Coming.size = 0

\* Between two writes a restart can come up with the current table only.
FaultInv ==
  /\ intact => PTP!Tolerated
  /\ mode = "idle" => recoverable \subseteq {table}

\* What a table says of the slot is true.
Whole(t) ==
  t.size # 0 => preload_load(t.size) = installed.image /\ t.digest = installed.digest

\* What the management app was told of the slot is what the table says.
Agrees(t) ==
  /\ told = "installed" => t.size # 0
  /\ told = "deleted" => t.size = 0

\* Both hold of every table a restart may come up with, now or after the call.
SlotInv ==
  intact => \A t \in recoverable \cup ({next} \ {Invalid}) : Whole(t) /\ Agrees(t)

Rest == TypeInv /\ PhaseInv /\ CallInv /\ FaultInv /\ SlotInv
PLInv == PTP!PTInv /\ Rest

(***************************************************************************)
(* Preload uses the partition table as PartTable says                      *)
(***************************************************************************)
LEMMA Idle ==
  ASSUME PLInv, mode = "idle"
  PROVE  table \in Tables /\ table # Invalid
BY FaultsAssumption DEF FaultsAssumption, PLInv, PTP!PTInv, PTP!PTTypeOK

LEMMA Sizes == NChunks \in Nat /\ 0 \in 0 .. NChunks
BY PreloadAssumption DEF PreloadAssumption, NChunks

LEMMA Entry ==
  ASSUME NEW pubkey \in Pubkey \cup {Zero}
  PROVE  EmptyEntry(pubkey) \in Tables /\ EmptyEntry(pubkey).size = 0
BY Sizes DEF EmptyEntry, Tables

LEMMA InitTable == Init => PTP!TableInit
BY Entry DEF Init, PT!InitWith, PTP!TableInit, PTP!InitWith

\* One after the other the actions of Preload are actions of PartTable, or
\* leave its variables alone.
LEMMA StepTable == PLInv /\ [Next]_vars => [PTP!TableNext]_(PTP!ptvars)
<1> SUFFICES ASSUME PLInv, [Next]_vars PROVE [PTP!TableNext]_(PTP!ptvars)
  OBVIOUS
<1>1. CASE Syscall
  <2>1. UNCHANGED ptvars
    BY <1>1
    DEF Syscall, preload_store, preload_store_finalize, DeleteNothing, preload_delete,
        preload_set_pubkey, Call
  <2> QED BY <2>1 DEF ptvars, PTP!ptvars
<1>2. CASE FlashCommand \/ Return \/ UNCHANGED vars
  BY <1>2 DEF FlashCommand, Return, vars, ptvars, PTP!ptvars
<1>3. CASE WriteTable
  <2>1. next \in Tables
    BY <1>3 DEF WriteTable, PLInv, Rest, TypeInv
  <2>2. PTP!part_table_write(next)
    BY <1>3 DEF WriteTable, PT!part_table_write, PTP!part_table_write
  <2> QED BY <2>1, <2>2 DEF PTP!TableNext
<1>4. CASE TableStep
  BY <1>4
  DEF TableStep, PT!WriteStep, PT!EraseCopy, PT!WriteCopy0, PT!WriteCopy1,
      PTP!TableNext, PTP!WriteStep, PTP!EraseCopy, PTP!WriteCopy0, PTP!WriteCopy1
<1>5. CASE \E privileged \in BOOLEAN : Start(privileged)
  BY <1>5
  DEF Start, PT!part_table_read, PT!Found, PT!FirstValid, PT!PART_SLOT0_INVALID,
      PTP!TableNext, PTP!part_table_read, PTP!Found, PTP!FirstValid, PTP!PART_SLOT0_INVALID
<1>6. CASE NoTable
  BY <1>6
  DEF NoTable, PT!NoTable, PT!Found, PT!FirstValid,
      PTP!TableNext, PTP!NoTable, PTP!Found, PTP!FirstValid
<1>7. CASE PowerCut
  BY <1>7
  DEF PowerCut, PT!PowerCut, PT!Writing, PTP!TableNext, PTP!Environment, PTP!PowerCut, PTP!Writing
<1>8. CASE \E i \in {0, 1} : TableFault(i)
  BY <1>8 DEF TableFault, PT!FlashFault, PTP!TableNext, PTP!Environment, PTP!FlashFault
<1> QED
  BY <1>1, <1>2, <1>3, <1>4, <1>5, <1>6, <1>7, <1>8 DEF Next, CallStep, Environment

LEMMA KeepsTable == PLInv /\ [Next]_vars => PTP!PTInv'
BY StepTable, PTP!NextInv, FaultsAssumption DEF PLInv, FaultsAssumption, PTP!TableAssumption

\* Between two writes, within what PartTable tolerates, the table in use is one
\* a restart may come up with.
LEMMA Current ==
  ASSUME PLInv, mode = "idle", intact
  PROVE  table \in recoverable /\ Whole(table) /\ Agrees(table)
<1>1. PTP!Tolerated
  BY DEF PLInv, Rest, FaultInv
<1>2. table \in recoverable
  BY <1>1
  DEF PLInv, PTP!Tolerated, PTP!PTInv, PTP!PTTypeOK, PTP!FallbackInv, PTP!SingleFaultInv
<1> QED BY <1>2 DEF PLInv, Rest, SlotInv

(***************************************************************************)
(* System calls                                                            *)
(***************************************************************************)
\* What a call has to see to when it starts.
LEMMA NewCall ==
  ASSUME PLInv, Ready, UNCHANGED <<ptvars, slot, mgmt, intact>>,
         call' # "none", todo' \in Seq(Command), next' \in Tables \cup {Invalid},
         told' \in {told, "nothing"},
         todo' # <<>> => Coming'.size = 0,
         call' = "finalize" => Coming'.size # 0,
         call' = "delete" => Coming'.size = 0,
         intact => Whole(table)' /\ (next' # Invalid => Whole(next)' /\ Agrees(next)')
  PROVE  Rest'
<1>1. /\ mode = "idle" /\ UNCHANGED <<copy, table, mode, recoverable, primary, backup>>
  BY DEF Ready, ptvars
<1>2. TypeInv'
  BY DEF PLInv, Rest, TypeInv
<1>3. PhaseInv'
  BY <1>1 DEF PhaseInv
<1>4. CallInv'
  BY DEF CallInv
<1>5. FaultInv'
  BY <1>1 DEF PLInv, Rest, FaultInv, PTP!Tolerated
<1>6. SlotInv'
  <2> SUFFICES ASSUME intact' PROVE (\A t \in recoverable \cup ({next} \ {Invalid}) : Whole(t) /\ Agrees(t))'
    BY DEF SlotInv
  <2>1. intact /\ recoverable' \subseteq {table}
    BY <1>1 DEF PLInv, Rest, FaultInv
  <2>2. Whole(table)' /\ Agrees(table)'
    BY <1>1, <2>1, Current DEF Agrees
  <2>3. next' # Invalid => Whole(next)' /\ Agrees(next)'
    BY <2>1
  <2> QED BY <1>1, <2>1, <2>2, <2>3 DEF Whole, Agrees
<1> QED BY <1>2, <1>3, <1>4, <1>5, <1>6 DEF Rest

LEMMA StoreInv ==
  ASSUME PLInv, NEW offset \in Chunk, NEW buf \in Buffers, preload_store(offset, buf)
  PROVE  Rest'
<1> DEFINE cmds == [k \in 1 .. Len(buf) |-> Program(offset + k - 1, buf[k])]
<1>1. /\ Ready /\ UNCHANGED <<ptvars, slot, mgmt, intact, installed>> /\ table.size = 0
      /\ InSlot(offset, Len(buf)) /\ call' = "store" /\ next' = Invalid /\ todo' = cmds
      /\ told' = "nothing"
  BY DEF preload_store, Call
<1>2. buf \in Seq(Data) /\ Len(buf) \in Nat
  BY PreloadAssumption DEF PreloadAssumption
<1>3. \A k \in 1 .. Len(buf) : offset + k - 1 \in Chunk /\ buf[k] \in Data
  BY <1>1, <1>2, Sizes DEF InSlot, Chunk
<1>4. cmds \in Seq(Command)
  <2>1. \A k \in 1 .. Len(buf) : cmds[k] \in Command
    BY <1>3 DEF Program, Command
  <2>2. cmds \in [1 .. Len(buf) -> Command]
    BY <2>1
  <2> HIDE DEF cmds
  <2> QED BY <1>2, <2>2
<1> HIDE DEF cmds
<1>5. Coming'.size = 0
  BY <1>1 DEF Coming, ptvars
<1>6. intact => Whole(table)'
  BY <1>1 DEF Whole, ptvars
<1> QED BY <1>1, <1>4, <1>5, <1>6, NewCall

LEMMA FinalizeInv ==
  ASSUME PLInv, NEW size \in 0 .. NChunks + 1, NEW digest \in Digest,
         preload_store_finalize(size, digest)
  PROVE  Rest'
<1> DEFINE t == [size |-> size, digest |-> digest, pubkey |-> table.pubkey]
<1>1. /\ Ready /\ UNCHANGED <<ptvars, slot, mgmt, intact>> /\ table.size = 0
      /\ size \in 1 .. NChunks /\ call' = "finalize" /\ next' = t /\ todo' = <<>>
      /\ told' = "nothing"
      /\ installed' = [image |-> preload_load(size), digest |-> digest]
  BY DEF preload_store_finalize, Call
<1>2. t \in Tables /\ t.size = size /\ t.digest = digest /\ size # 0
  <2>1. table \in Tables
    BY <1>1, Idle DEF Ready
  <2> QED BY <1>1, <2>1, Sizes DEF Tables
<1> HIDE DEF t
<1>3. Coming'.size # 0
  BY <1>1, <1>2, FaultsAssumption DEF FaultsAssumption, Coming
<1>4. Whole(table)'
  BY <1>1 DEF Whole, ptvars
<1>5. Whole(next)' /\ Agrees(next)'
  BY <1>1, <1>2 DEF Whole, Agrees, preload_load
<1>6. todo' \in Seq(Command)
  BY <1>1, EmptySeq
<1> QED BY <1>1, <1>2, <1>3, <1>4, <1>5, <1>6, NewCall

LEMMA DeleteNothingInv == ASSUME PLInv, DeleteNothing PROVE Rest'
<1>1. /\ mode = "idle" /\ call = "none" /\ table.size = 0 /\ told' = "deleted"
      /\ UNCHANGED <<copy, table, mode, recoverable, primary, backup>>
      /\ UNCHANGED <<slot, mgmt, call, next, todo, installed, intact>>
  BY DEF DeleteNothing, Ready, ptvars, callvars
<1>2. next = Invalid /\ todo = <<>>
  BY <1>1 DEF PLInv, Rest, PhaseInv
<1>3. TypeInv' /\ PhaseInv'
  BY <1>1 DEF PLInv, Rest, TypeInv, PhaseInv
<1>4. CallInv'
  BY <1>1, <1>2 DEF CallInv
<1>5. FaultInv'
  BY <1>1 DEF PLInv, Rest, FaultInv, PTP!Tolerated
<1>6. SlotInv'
  <2>1. recoverable \subseteq {table}
    BY <1>1 DEF PLInv, Rest, FaultInv
  <2> QED BY <1>1, <1>2, <2>1 DEF SlotInv, Whole, Agrees
<1> QED BY <1>3, <1>4, <1>5, <1>6 DEF Rest

LEMMA DeleteInv == ASSUME PLInv, preload_delete PROVE Rest'
<1> DEFINE t == EmptyEntry(table.pubkey)
           cmds == <<EraseBlock(0), EraseBlock(1)>>
<1>1. /\ Ready /\ UNCHANGED <<ptvars, slot, mgmt, intact, installed>>
      /\ call' = "delete" /\ next' = t /\ todo' = cmds /\ told' = "nothing"
  BY DEF preload_delete, Call
<1>2. t \in Tables /\ t.size = 0 /\ t # Invalid
  <2>1. table \in Tables
    BY <1>1, Idle DEF Ready
  <2>2. table.pubkey \in Pubkey \cup {Zero}
    BY <2>1 DEF Tables
  <2> QED BY <2>2, Entry, FaultsAssumption DEF FaultsAssumption
<1>3. cmds \in Seq(Command)
  <2>1. \A b \in {0, 1} : EraseBlock(b) \in Command
    BY PreloadAssumption DEF PreloadAssumption, EraseBlock, Command, Chunk, NChunks
  <2> QED BY <2>1
<1> HIDE DEF t, cmds
<1>4. Coming'.size = 0
  BY <1>1, <1>2 DEF Coming
<1>5. intact => Whole(table)'
  BY <1>1, Current DEF Ready, Whole, preload_load, ptvars
<1>6. Whole(next)' /\ Agrees(next)'
  BY <1>1, <1>2 DEF Whole, Agrees
<1> QED BY <1>1, <1>2, <1>3, <1>4, <1>5, <1>6, NewCall

LEMMA SetPubkeyInv ==
  ASSUME PLInv, NEW pubkey \in Pubkey, preload_set_pubkey(pubkey)
  PROVE  Rest'
<1> DEFINE t == [size |-> table.size, digest |-> table.digest, pubkey |-> pubkey]
<1>1. /\ Ready /\ UNCHANGED <<ptvars, slot, mgmt, intact, installed, told>>
      /\ call' = "set_pubkey" /\ next' = t /\ todo' = <<>>
  BY DEF preload_set_pubkey, Call
<1>2. t \in Tables /\ t.size = table.size /\ t.digest = table.digest
  <2>1. table \in Tables
    BY <1>1, Idle DEF Ready
  <2> QED BY <2>1 DEF Tables
<1> HIDE DEF t
<1>3. intact => Whole(table)' /\ Whole(next)' /\ Agrees(next)'
  BY <1>1, <1>2, Current DEF Ready, Whole, Agrees, preload_load, ptvars
<1>4. todo' \in Seq(Command)
  BY <1>1, EmptySeq
<1> QED BY <1>1, <1>2, <1>3, <1>4, NewCall

(***************************************************************************)
(* Steps of a call                                                         *)
(***************************************************************************)
\* From here on a restart may come up with the table the call has prepared.
LEMMA WriteTableInv == ASSUME PLInv, WriteTable PROVE Rest'
<1>1. /\ mode = "idle" /\ next # Invalid /\ next \in Tables
      /\ table' = next /\ mode' = "erase0" /\ recoverable' = recoverable \cup {next} /\ next' = Invalid
      /\ UNCHANGED <<copy, primary, backup, slot, mgmt, call, todo, told, installed, intact>>
  BY DEF WriteTable, PT!part_table_write, PLInv, Rest, TypeInv
<1>2. TypeInv'
  BY <1>1 DEF PLInv, Rest, TypeInv
<1>3. PhaseInv'
  BY <1>1 DEF PLInv, Rest, PhaseInv
<1>4. CallInv'
  BY <1>1 DEF PLInv, Rest, CallInv, Coming
<1>5. FaultInv'
  BY <1>1 DEF PLInv, Rest, FaultInv, PTP!Tolerated
<1>6. SlotInv'
  BY <1>1 DEF PLInv, Rest, SlotInv, Whole, Agrees, preload_load
<1> QED BY <1>2, <1>3, <1>4, <1>5, <1>6 DEF Rest

\* What is written is the table in use, which a restart may come up with since
\* the call handed it over.
LEMMA TableStepInv == ASSUME PLInv, TableStep PROVE Rest'
<1>1. /\ mode \in PTP!Writing /\ next = Invalid
      /\ UNCHANGED <<table, slot, mgmt, call, next, todo, told, installed, intact>>
      /\ mode' \in {"write0", "erase1", "write1", "idle"}
      /\ \/ mode' # "idle" /\ UNCHANGED <<recoverable, primary, backup>>
         \/ recoverable' = {table} /\ primary' = 0 /\ backup' = 0
  BY DEF TableStep, PT!WriteStep, PT!EraseCopy, PT!WriteCopy0, PT!WriteCopy1, PTP!Writing,
         PLInv, Rest, PhaseInv, callvars
<1>2. table \in recoverable
  BY <1>1 DEF PLInv, PTP!PTInv, PTP!CurrentInv
<1>3. recoverable' \subseteq recoverable
  BY <1>1, <1>2
<1>4. TypeInv'
  BY <1>1 DEF PLInv, Rest, TypeInv
<1>5. PhaseInv'
  BY <1>1 DEF PLInv, Rest, PhaseInv
<1>6. CallInv'
  BY <1>1 DEF PLInv, Rest, CallInv, Coming
<1>7. FaultInv'
  BY <1>1 DEF PLInv, Rest, FaultInv, PTP!Tolerated
<1>8. SlotInv'
  BY <1>1, <1>3 DEF PLInv, Rest, SlotInv, Whole, Agrees, preload_load
<1> QED BY <1>4, <1>5, <1>6, <1>7, <1>8 DEF Rest

LEMMA Tailed ==
  ASSUME NEW s \in Seq(Command), s # <<>>
  PROVE  Head(s) \in Command /\ Tail(s) \in Seq(Command)
BY HeadTailProperties

\* While the slot changes no table says that there is an app in it.
LEMMA CommandInv == ASSUME PLInv, FlashCommand PROVE Rest'
<1> DEFINE c == Head(todo)
<1>1. /\ mode = "idle" /\ next = Invalid /\ todo # <<>> /\ todo' = Tail(todo)
      /\ slot' = [i \in Chunk |-> IF i \in c.chunks THEN Executed(c, slot[i]) ELSE slot[i]]
      /\ UNCHANGED <<copy, table, mode, recoverable, primary, backup>>
      /\ UNCHANGED <<mgmt, call, next, told, installed, intact>>
  BY DEF FlashCommand, ptvars
<1>2. c \in Command /\ Tail(todo) \in Seq(Command)
  BY <1>1, Tailed DEF PLInv, Rest, TypeInv
<1> HIDE DEF c
<1>3. table.size = 0
  BY <1>1 DEF PLInv, Rest, CallInv, Coming
<1>4. TypeInv'
  <2>1. slot \in [Chunk -> SUBSET Data]
    BY DEF PLInv, Rest, TypeInv
  <2>2. ASSUME NEW i \in Chunk PROVE Executed(c, slot[i]) \in SUBSET Data
    BY <1>2, <2>1 DEF Command, Executed
  <2>3. slot' \in [Chunk -> SUBSET Data]
    BY <1>1, <2>1, <2>2
  <2> QED BY <1>1, <1>2, <2>3 DEF PLInv, Rest, TypeInv
<1>5. PhaseInv'
  BY <1>1 DEF PLInv, Rest, PhaseInv
<1>6. CallInv'
  BY <1>1, <1>3 DEF PLInv, Rest, CallInv, Coming
<1>7. FaultInv'
  BY <1>1 DEF PLInv, Rest, FaultInv, PTP!Tolerated
<1>8. SlotInv'
  <2>1. recoverable \subseteq {table}
    BY <1>1 DEF PLInv, Rest, FaultInv
  <2> QED BY <1>1, <1>3, <2>1 DEF PLInv, Rest, SlotInv, Whole, Agrees
<1> QED BY <1>4, <1>5, <1>6, <1>7, <1>8 DEF Rest

\* What the return value says is what the only table there is says.
LEMMA ReturnInv == ASSUME PLInv, Return PROVE Rest'
<1>1. /\ mode = "idle" /\ call # "none" /\ call' = "none" /\ next = Invalid /\ todo = <<>>
      /\ told' = Told
      /\ UNCHANGED <<copy, table, mode, recoverable, primary, backup>>
      /\ UNCHANGED <<slot, mgmt, next, todo, installed, intact>>
  BY DEF Return, ptvars
<1>2. \/ Told = "installed" /\ table.size # 0
      \/ Told = "deleted" /\ table.size = 0
      \/ Told = told
  <2>1. call = "finalize" => Told = "installed"
    BY Zenon DEF Told
  <2>2. call = "delete" => Told = "deleted"
    BY Zenon DEF Told
  <2>3. call \notin {"finalize", "delete"} => Told = told
    BY Zenon DEF Told
  <2> QED BY <1>1, <2>1, <2>2, <2>3 DEF PLInv, Rest, CallInv, Coming
<1>3. TypeInv'
  BY <1>1, <1>2 DEF PLInv, Rest, TypeInv
<1>4. PhaseInv' /\ CallInv'
  BY <1>1 DEF PhaseInv, CallInv, PLInv, Rest
<1>5. FaultInv'
  BY <1>1 DEF PLInv, Rest, FaultInv, PTP!Tolerated
<1>6. SlotInv'
  <2>1. recoverable \subseteq {table}
    BY <1>1 DEF PLInv, Rest, FaultInv
  <2> QED BY <1>1, <1>2, <2>1 DEF PLInv, Rest, SlotInv, Whole, Agrees, preload_load
<1> QED BY <1>3, <1>4, <1>5, <1>6 DEF Rest

(***************************************************************************)
(* Boot and faults                                                         *)
(***************************************************************************)
\* The slot and what was said of it stay as they are; the call in progress, if
\* any, is gone.
LEMMA BootInv == ASSUME PLInv, Environment PROVE Rest'
<1>1. /\ UNCHANGED <<slot, told, installed>>
      /\ mgmt' \in BOOLEAN /\ intact' \in BOOLEAN
      /\ intact' => intact /\ PTP!Tolerated'
      /\ call' = "none" /\ todo' = <<>> /\ next' = Invalid
      /\ recoverable' \subseteq recoverable
      /\ mode' = "idle" => recoverable' \subseteq {table'}
  <2>1. CASE \E privileged \in BOOLEAN : Start(privileged)
    BY <2>1
    DEF Start, PT!part_table_read, callvars, PLInv, Rest, PhaseInv, FaultInv, TypeInv, PTP!Tolerated
  <2>2. CASE NoTable
    BY <2>2 DEF NoTable, PT!NoTable, callvars, PLInv, Rest, PhaseInv, FaultInv, TypeInv, PTP!Tolerated
  <2>3. CASE PowerCut
    BY <2>3 DEF PowerCut, PT!PowerCut, PLInv, Rest, TypeInv, PT!Tolerated, PTP!Tolerated
  <2>4. CASE \E i \in {0, 1} : TableFault(i)
    BY <2>4
    DEF TableFault, PT!FlashFault, PLInv, Rest, PhaseInv, FaultInv, TypeInv, callvars,
        PT!Tolerated, PTP!Tolerated
  <2> QED BY <2>1, <2>2, <2>3, <2>4 DEF Environment
<1>2. TypeInv'
  BY <1>1, EmptySeq DEF PLInv, Rest, TypeInv
<1>3. PhaseInv' /\ CallInv'
  BY <1>1 DEF PhaseInv, CallInv
<1>4. FaultInv'
  BY <1>1 DEF FaultInv
<1>5. SlotInv'
  BY <1>1 DEF PLInv, Rest, SlotInv, Whole, Agrees, preload_load
<1> QED BY <1>2, <1>3, <1>4, <1>5 DEF Rest

LEMMA InitAll == Init => PLInv
<1> SUFFICES ASSUME Init PROVE PLInv
  OBVIOUS
<1>1. PTP!PTInv
  BY InitTable, PTP!InitInv, FaultsAssumption DEF FaultsAssumption, PTP!TableAssumption
<1>2. /\ mode = "off" /\ recoverable = {EmptyEntry(Zero)} /\ primary = 0 /\ backup = 0
      /\ slot = [c \in Chunk |-> {}] /\ mgmt = FALSE /\ call = "none" /\ next = Invalid
      /\ todo = <<>> /\ told = "nothing" /\ intact = TRUE
  BY DEF Init, PT!InitWith
<1>3. TypeInv
  BY <1>2, EmptySeq DEF TypeInv
<1>4. PhaseInv /\ CallInv /\ FaultInv
  BY <1>2 DEF PhaseInv, CallInv, FaultInv, PTP!Tolerated
<1>5. SlotInv
  BY <1>2, Entry DEF SlotInv, Whole, Agrees
<1> QED BY <1>1, <1>3, <1>4, <1>5 DEF PLInv, Rest

LEMMA StutterInv == ASSUME PLInv, UNCHANGED vars PROVE Rest'
<1>1. /\ UNCHANGED <<copy, table, mode, recoverable, primary, backup>>
      /\ UNCHANGED <<slot, mgmt, call, next, todo, told, installed, intact>>
  BY DEF vars, ptvars, callvars
<1>2. TypeInv' /\ PhaseInv'
  BY <1>1 DEF PLInv, Rest, TypeInv, PhaseInv
<1>3. CallInv' /\ FaultInv'
  BY <1>1 DEF PLInv, Rest, CallInv, Coming, FaultInv, PTP!Tolerated
<1>4. SlotInv'
  BY <1>1 DEF PLInv, Rest, SlotInv, Whole, Agrees, preload_load
<1> QED BY <1>2, <1>3, <1>4 DEF Rest

LEMMA NextAll == PLInv /\ [Next]_vars => PLInv'
<1> SUFFICES ASSUME PLInv, [Next]_vars PROVE PLInv'
  OBVIOUS
<1>1. PTP!PTInv'
  BY KeepsTable
<1>2. Rest'
  <2>1. CASE Syscall
    BY <2>1, StoreInv, FinalizeInv, DeleteNothingInv, DeleteInv, SetPubkeyInv DEF Syscall
  <2>2. CASE CallStep
    BY <2>2, WriteTableInv, TableStepInv, CommandInv, ReturnInv DEF CallStep
  <2>3. CASE Environment
    BY <2>3, BootInv
  <2> QED BY <2>1, <2>2, <2>3, StutterInv DEF Next
<1> QED BY <1>1, <1>2 DEF PLInv

(***************************************************************************)
(* The theorems                                                            *)
(***************************************************************************)
\* The inductive invariant holds in every reachable state.
THEOREM PLInvariance == Spec => []PLInv
BY InitAll, NextAll, PTL DEF Spec

\* preload_app.c changes the partition table in FW_RAM and in flash only through
\* part_table_read and part_table_write: what is proved of PartTable holds here.
THEOREM PreloadUsesPartitionTable == Spec => PTP!TableSpec
<1>1. PLInv /\ [Next]_vars => [PTP!TableNext]_(PTP!ptvars)
  BY StepTable
<1> QED BY <1>1, InitTable, PLInvariance, PTL DEF Spec, PTP!TableSpec

\* Whatever offset and size the management app passes, the variables stay well
\* typed and no flash command of preload_store or preload_delete reaches beyond
\* the slot.
THEOREM PreloadTypes == Spec => []PLTypeOK
<1>1. PLInv => PLTypeOK
  <2> SUFFICES ASSUME PLInv PROVE PLTypeOK
    OBVIOUS
  <2>1. PT!PTTypeOK
    BY DEF PLInv, PTP!PTInv, PTP!PTTypeOK, PT!PTTypeOK, PTP!Writing, PT!Writing,
           PTP!PART_SLOT0_INVALID, PT!PART_SLOT0_INVALID
  <2>2. \A k \in DOMAIN todo : todo[k] \in Command
    BY DEF PLInv, Rest, TypeInv
  <2>3. \A k \in DOMAIN todo : todo[k].chunks \subseteq Chunk
    BY <2>2 DEF Command
  <2> QED BY <2>1, <2>3 DEF PLInv, Rest, TypeInv, PLTypeOK
<1> QED BY <1>1, PLInvariance, PTL

\* A table that says there is an app in slot 1 has the app that was finalised
\* behind it, whatever call was interrupted.
THEOREM NoTornApp == Spec => []InstalledIsWhole
<1>1. PLInv => InstalledIsWhole
  BY Current DEF InstalledIsWhole, Whole, preload_get_metadata
<1> QED BY <1>1, PLInvariance, PTL

\* What PRELOAD_STORE_FIN and PRELOAD_DELETE reported survives every restart.
THEOREM ReportsAreDurable == Spec => []ToldIsDurable
<1>1. PLInv => ToldIsDurable
  BY Current DEF ToldIsDurable, Agrees
<1> QED BY <1>1, PLInvariance, PTL
=============================================================================
