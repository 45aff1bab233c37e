---------------------------- MODULE AppStorage ------------------------------
(***************************************************************************)
(* Storage areas for apps (storage.c, auth_app.c) on top of the partition  *)
(* table (PartTable).                                                      *)
(*                                                                         *)
(* A system call runs alone, but power can be lost between any two of its  *)
(* flash commands: a call is the sequence of commands it will issue (todo) *)
(* and the table it will write afterwards (next).  A sector holds the set  *)
(* of CDIs of the apps that programmed it since it was erased: programming *)
(* NOR flash only clears bits, so old data shows through.  The tag of an   *)
(* area, blake2s over CDI and nonce, is modelled by what it identifies,    *)
(* the pair of the two.                                                    *)
(***************************************************************************)
EXTENDS Integers, Sequences, FiniteSetsExt

CONSTANTS
  Cdi,              \* the CDIs of the apps
  MgmtCdi,          \* the CDI of the management app
  None,             \* no app, and an erased authentication field
  Nonce,            \* random nonces
  N_STORAGE_AREA,   \* number of areas, 4 in the code
  BLOCK_SECTORS,    \* sectors in a block of flash, 16 in the code
  Invalid, MaxFaults \* see PartTable

Area == 0 .. N_STORAGE_AREA - 1
NSectors == 2 * BLOCK_SECTORS   \* SIZE_STORAGE_AREA
Sector == 0 .. NSectors - 1

\* struct app_storage_area, with struct auth_metadata.
AreaEntry ==
  [status : {0, 1}, nonce : Nonce \cup {None},
   authentication_digest : (Cdi \X Nonce) \cup {None}]

\* The part of struct partition_table that storage.c works on.
Tables == [Area -> AreaEntry]

ASSUME AreaAssumption ==
  /\ N_STORAGE_AREA \in Nat \ {0}
  /\ BLOCK_SECTORS \in Nat \ {0}
  /\ MgmtCdi \in Cdi
  /\ None \notin Cdi \cup Nonce \cup (Cdi \X Nonce)

\* See PartTable.
ASSUME FaultsAssumption == Invalid \notin Tables /\ MaxFaults \in Nat

VARIABLES
  copy, table, part_status, mode, recoverable, primary, backup, faults,
  flash,    \* the sectors of the areas
  app,      \* the CDI of the running app, None before it is started
  mgmt,     \* what mgmt_app_authenticate answers to it
  call,     \* the system call in progress, "none" if the app runs
  todo,     \* the flash commands the call still has to issue
  next,     \* the table it then writes, Invalid if none
  granted,  \* history: apps told that they have an area
  intact    \* history: never more faults than PartTable tolerates

PT == INSTANCE PartTable WITH Table <- Tables

ptvars == <<copy, table, part_status, mode, recoverable, primary, backup,
            faults>>
callvars == <<call, todo, next>>
vars == <<ptvars, flash, app, mgmt, callvars, granted, intact>>

(***************************************************************************)
(* auth_app.c and the helpers of storage.c                                 *)
(***************************************************************************)
\* calculate_auth_digest.
calculate_auth_digest(cdi, nonce) == <<cdi, nonce>>

\* auth_app_create, for an area that is being allocated.
auth_app_create(cdi, nonce) ==
  [status |-> 1, nonce |-> nonce,
   authentication_digest |-> calculate_auth_digest(cdi, nonce)]

\* auth_app_authenticate.
auth_app_authenticate(entry, cdi) ==
  entry.authentication_digest = calculate_auth_digest(cdi, entry.nonce)

FreeEntry == [status |-> 0, nonce |-> None, authentication_digest |-> None]

\* Mutant: the status is not looked at.
Mutget_first_empty(t) == 0

\* get_first_empty.
get_first_empty(t) ==
  LET empty == {i \in Area : t[i].status = 0}
  IN  IF empty = {} THEN -1 ELSE Min(empty)

\* Mutant: the authentication is left out.
Mutstorage_get_area(t, cdi) ==
  LET own == {i \in Area : t[i].status # 0}
  IN  IF own = {} THEN -1 ELSE Min(own)

\* storage_get_area: the area of the app with this CDI.
storage_get_area(t, cdi) ==
  LET own == {i \in Area : t[i].status # 0 /\ auth_app_authenticate(t[i], cdi)}
  IN  IF own = {} THEN -1 ELSE Min(own)

MyArea == storage_get_area(table, app)

\* flash.c: flash_sector_erase, flash_block_64_erase and flash_write_data.
Erase(i, sectors) == [op |-> "erase", area |-> i, sectors |-> sectors]
Program(i, s) == [op |-> "program", area |-> i, sectors |-> {s}]

\* The sectors of the first or the second 64 KiB block.
Block(b) == b * BLOCK_SECTORS .. (b + 1) * BLOCK_SECTORS - 1

\* Mutant: the second block has the address of the first.
MutEraseBlocks(i) == <<Erase(i, Block(0)), Erase(i, Block(0))>>

\* The two block erases every call that frees or takes an area starts with.
EraseBlocks(i) == <<Erase(i, Block(0)), Erase(i, Block(1))>>

(***************************************************************************)
(* System calls                                                            *)
(***************************************************************************)
\* The app runs: syscall_handler is entered by it alone.
Ready == mode = "idle" /\ call = "none"

\* A system call that has passed its checks.
Call(name, cmds, t) ==
  /\ call' = name
  /\ todo' = cmds
  /\ next' = t
  /\ UNCHANGED <<ptvars, flash, app, mgmt, intact>>

\* storage_allocate_area: the app has an area already.
AllocateAgain ==
  /\ Ready
  /\ MyArea # -1
  /\ Call("allocate", <<>>, Invalid)
  /\ UNCHANGED granted

\* Mutant: an app that has an area gets another one.
Mutstorage_allocate_area(nonce) ==
  LET i == get_first_empty(table)
  IN  /\ Ready
      /\ i # -1
      /\ Call("allocate", EraseBlocks(i),
              [table EXCEPT ![i] = auth_app_create(app, nonce)])
      /\ UNCHANGED granted

\* storage_allocate_area.  With no empty area it returns -1, without effect.
storage_allocate_area(nonce) ==
  LET i == get_first_empty(table)
  IN  /\ Ready
      /\ MyArea = -1
      /\ i # -1
      /\ Call("allocate", EraseBlocks(i),
              [table EXCEPT ![i] = auth_app_create(app, nonce)])
      /\ UNCHANGED granted

\* Mutant: the entry in the table is cleared without an erase.
Mutstorage_deallocate_area ==
  /\ Ready
  /\ MyArea # -1
  /\ Call("deallocate", <<>>, [table EXCEPT ![MyArea] = FreeEntry])
  /\ granted' = granted \ {app}

\* storage_deallocate_area.
storage_deallocate_area ==
  /\ Ready
  /\ MyArea # -1
  /\ Call("deallocate", EraseBlocks(MyArea),
          [table EXCEPT ![MyArea] = FreeEntry])
  /\ granted' = granted \ {app}

\* The checks of storage_erase_sector and storage_write_data on offset and
\* size, here in sectors; flash_write_data refuses a size of 0.
InArea(offset, size) ==
  offset <= NSectors /\ size \in 1 .. NSectors /\ offset + size <= NSectors

\* storage_erase_sector: one sector after the other.
storage_erase_sector(offset, size) ==
  /\ Ready
  /\ MyArea # -1
  /\ InArea(offset, size)
  /\ Call("erase", [k \in 1 .. size |-> Erase(MyArea, {offset + k - 1})],
          Invalid)
  /\ UNCHANGED granted

\* storage_write_data: likewise, page by page and without an erase.
storage_write_data(offset, size) ==
  /\ Ready
  /\ MyArea # -1
  /\ InArea(offset, size)
  /\ Call("write", [k \in 1 .. size |-> Program(MyArea, offset + k - 1)],
          Invalid)
  /\ UNCHANGED granted

\* storage_read_data: what the app gets to see of sector s.
storage_read_data(s) == IF MyArea = -1 THEN {} ELSE flash[MyArea][s]

\* storage_erase_areas: every area is erased, the table is written once.
storage_erase_areas ==
  /\ Ready
  /\ mgmt
  /\ Call("erase_areas",
          [k \in 1 .. 2 * N_STORAGE_AREA |->
             EraseBlocks((k - 1) \div 2)[1 + ((k - 1) % 2)]],
          [i \in Area |-> FreeEntry])
  /\ granted' = {}

(***************************************************************************)
(* Steps of a call                                                         *)
(***************************************************************************)
\* What the command c makes of a sector it names.
Executed(c, old) == IF c.op = "erase" THEN {} ELSE old \cup {app}

\* The next flash command of the call.
FlashCommand ==
  /\ mode = "idle"
  /\ todo # <<>>
  /\ LET c == Head(todo)
     IN  flash' = [flash EXCEPT ![c.area] =
                     [s \in Sector |-> IF s \in c.sectors THEN Executed(c, @[s]) ELSE @[s]]]
  /\ todo' = Tail(todo)
  /\ UNCHANGED <<ptvars, app, mgmt, call, next, granted, intact>>

\* The call changes the table in FW_RAM and hands it to part_table_write.
WriteTable ==
  /\ call # "none"
  /\ todo = <<>>
  /\ next # Invalid
  /\ PT!part_table_write(next)
  /\ next' = Invalid
  /\ UNCHANGED <<flash, app, mgmt, call, todo, granted, intact>>

TableStep ==
  /\ PT!WriteStep
  /\ UNCHANGED <<flash, app, mgmt, callvars, granted, intact>>

\* The call returns 0.
Return ==
  /\ mode = "idle"
  /\ call # "none"
  /\ todo = <<>>
  /\ next = Invalid
  /\ call' = "none"
  /\ granted' = IF call = "allocate" THEN granted \cup {app} ELSE granted
  /\ UNCHANGED <<ptvars, flash, app, mgmt, todo, next, intact>>

(***************************************************************************)
(* Boot and faults                                                         *)
(***************************************************************************)
\* The firmware reads the table and starts an app (Boot).
Start(cdi, privileged) ==
  /\ PT!part_table_read
  /\ privileged => cdi = MgmtCdi
  /\ app' = cdi
  /\ mgmt' = privileged
  /\ UNCHANGED <<flash, callvars, granted, intact>>

NoTable ==
  /\ PT!NoTable
  /\ UNCHANGED <<flash, app, mgmt, callvars, granted, intact>>

PowerCut ==
  /\ PT!PowerCut
  /\ app' = None
  /\ mgmt' = FALSE
  /\ call' = "none"
  /\ todo' = <<>>
  /\ next' = Invalid
  /\ intact' = (intact /\ PT!Tolerated')
  /\ UNCHANGED <<flash, granted>>

\* Flash cells of a copy of the table go bad while no call is in progress.
TableFault(i) ==
  /\ call = "none"
  /\ PT!FlashFault(i)
  /\ intact' = (intact /\ PT!Tolerated')
  /\ UNCHANGED <<flash, app, mgmt, callvars, granted>>

\* A device from the factory: nothing is allocated, the areas are erased.
Init ==
  /\ PT!InitWith([i \in Area |-> FreeEntry])
  /\ flash = [i \in Area |-> [s \in Sector |-> {}]]
  /\ app = None
  /\ mgmt = FALSE
  /\ call = "none"
  /\ todo = <<>>
  /\ next = Invalid
  /\ granted = {}
  /\ intact = TRUE

Syscall ==
  \/ AllocateAgain
  \/ \E nonce \in Nonce : storage_allocate_area(nonce)
  \/ storage_deallocate_area
  \/ \E offset, size \in 0 .. NSectors + 1 :
       storage_erase_sector(offset, size) \/ storage_write_data(offset, size)
  \/ storage_erase_areas

CallStep == FlashCommand \/ WriteTable \/ TableStep \/ Return

Environment ==
  \/ \E cdi \in Cdi, privileged \in BOOLEAN : Start(cdi, privileged)
  \/ NoTable
  \/ PowerCut
  \/ \E i \in {0, 1} : TableFault(i)

Next == Syscall \/ CallStep \/ Environment

Spec == Init /\ [][Next]_vars

(***************************************************************************)
(* Properties                                                              *)
(***************************************************************************)
\* The variables are well typed; no flash command of a call reaches beyond an
\* area, whatever offset and size the app passes (index_to_address and the
\* bounds checks).
ASTypeOK ==
  /\ PT!PTTypeOK
  /\ flash \in [Area -> [Sector -> SUBSET Cdi]]
  /\ app \in Cdi \cup {None}
  /\ mgmt \in BOOLEAN
  /\ \A k \in DOMAIN todo : todo[k].area \in Area /\ todo[k].sectors \subseteq Sector
  /\ next \in Tables \cup {Invalid}
  /\ granted \subseteq Cdi
  /\ intact \in BOOLEAN

\* The app whose area i is, None if it is free.
Owner(t, i) == IF t[i].status = 0 THEN None ELSE t[i].authentication_digest[1]

\* No app owns two areas, in no table a restart may come up with: whatever
\* call was interrupted, storage_get_area finds all there is.
OneAreaPerApp ==
  \A t \in {table, copy[0], copy[1]} \ {Invalid} :
    \A i, j \in Area : Owner(t, i) = Owner(t, j) /\ i # j => Owner(t, i) = None

\* An app reads nothing in its area but what was written under its own CDI,
\* although areas change hands and calls are interrupted.
NoForeignData ==
  intact /\ app # None /\ mode = "idle" =>
    \A s \in Sector : storage_read_data(s) \subseteq {app}

\* An area the table calls free has been erased: storage_deallocate_area and
\* storage_erase_areas erase before they write the table, so no interruption
\* leaves the data of an app behind in an area it has given back.
FreeIsErased ==
  intact /\ mode = "idle" =>
    \A i \in Area : table[i].status = 0 => \A s \in Sector : flash[i][s] = {}

\* An area, once ALLOC_AREA has returned 0, is there after any restart until
\* the app gives it back or the management app erases all.
AllocationDurable ==
  intact /\ mode = "idle" =>
    \A cdi \in granted : storage_get_area(table, cdi) # -1

\* The data of an app changes only while that app, or the management app on
\* its way through storage_erase_areas, runs.
OnlyOwnerChangesData ==
  [][\A i \in Area :
       flash'[i] # flash[i] /\ Owner(table, i) # None =>
         app = Owner(table, i) \/ call = "erase_areas"]_vars
=============================================================================
