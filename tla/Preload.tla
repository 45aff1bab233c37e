------------------------------ MODULE Preload -------------------------------
(***************************************************************************)
(* The app in preload slot 1 (preload_app.c) on top of the partition table *)
(* (PartTable): the PRELOAD_* system calls of the management app, power    *)
(* cuts between any two of their flash commands, and loading at boot.      *)
(*                                                                         *)
(* The slot is a sequence of chunks.  A chunk holds the set of data        *)
(* programmed into it since it was erased: programming NOR flash only      *)
(* clears bits, so a chunk that is not erased first ends up with a mixture *)
(* and {} is an erased chunk.  Digest and signature are one datum: the     *)
(* firmware stores and returns them together and looks at neither.         *)
(***************************************************************************)
EXTENDS Integers, Sequences

CONSTANTS
  Data,         \* contents of a chunk
  Digest,       \* digests (with signatures) passed to PRELOAD_STORE_FIN
  Pubkey,       \* keys passed to PRELOAD_SET_PUBKEY
  Zero,         \* a cleared field
  BLOCK_CHUNKS, \* chunks in a 64 KiB block
  Buffers,      \* what the management app passes to PRELOAD_STORE
  Invalid, MaxFaults \* see PartTable

NChunks == 2 * BLOCK_CHUNKS
Chunk == 0 .. NChunks - 1

\* struct pre_loaded_app_metadata of slot 1; the size is in chunks.
Tables == [size : 0 .. NChunks, digest : Digest \cup {Zero},
           pubkey : Pubkey \cup {Zero}]

ASSUME PreloadAssumption ==
  /\ BLOCK_CHUNKS \in Nat \ {0}
  /\ Zero \notin Digest \cup Pubkey
  /\ Buffers \subseteq Seq(Data) /\ <<>> \notin Buffers

\* See PartTable.
ASSUME FaultsAssumption == Invalid \notin Tables /\ MaxFaults \in Nat

VARIABLES
  copy, table, part_status, mode, recoverable, primary, backup, faults,
  slot,      \* the chunks of slot 1
  mgmt,      \* the management app runs (mgmt_app_authenticate)
  call,      \* its system call in progress, "none" if there is none
  next,      \* the table the call still has to write, Invalid if none
  todo,      \* the flash commands it issues after that
  told,      \* history: what the last call that returned said of the slot
  installed, \* history: image and digest when PRELOAD_STORE_FIN was called
  intact     \* history: never more faults than PartTable tolerates

PT == INSTANCE PartTable WITH Table <- Tables

ptvars == <<copy, table, part_status, mode, recoverable, primary, backup,
            faults>>
callvars == <<call, next, todo>>
vars == <<ptvars, slot, mgmt, callvars, told, installed, intact>>

EmptyEntry(pubkey) == [size |-> 0, digest |-> Zero, pubkey |-> pubkey]

(***************************************************************************)
(* System calls                                                            *)
(***************************************************************************)
\* The management app runs and the call passes mgmt_app_authenticate.
Ready == mode = "idle" /\ call = "none" /\ mgmt

\* The call then writes the table t, unless it is Invalid, and issues cmds.
Call(name, t, cmds) ==
  /\ call' = name
  /\ next' = t
  /\ todo' = cmds
  /\ told' = IF name = "set_pubkey" THEN told ELSE "nothing"
  /\ UNCHANGED <<ptvars, slot, mgmt, intact>>

\* flash.c: flash_write_data, page by page, and flash_block_64_erase.
Program(c, d) == [op |-> "program", chunks |-> {c}, data |-> d]
EraseBlock(b) ==
  [op |-> "erase", chunks |-> b * BLOCK_CHUNKS .. (b + 1) * BLOCK_CHUNKS - 1]

\* preload_load: what it puts into the app RAM.
preload_load(size) == [k \in 1 .. size |-> slot[k - 1]]

\* preload_store: the bounds of offset, size and their sum.
InSlot(offset, size) == offset + size <= NChunks

\* preload_store: refused while there is an app in the slot.
preload_store(offset, buf) ==
  /\ Ready
  /\ table.size = 0
  /\ InSlot(offset, Len(buf))
  /\ Call("store", Invalid,
          [k \in 1 .. Len(buf) |-> Program(offset + k - 1, buf[k])])
  /\ UNCHANGED installed

\* preload_store_finalize: metadata as the caller gives them.
preload_store_finalize(size, digest) ==
  /\ Ready
  /\ table.size = 0
  /\ size \in 1 .. NChunks
  /\ Call("finalize",
          [size |-> size, digest |-> digest, pubkey |-> table.pubkey], <<>>)
  /\ installed' = [image |-> preload_load(size), digest |-> digest]

\* preload_delete without an app in the slot: nothing to do, returns 0.
DeleteNothing ==
  /\ Ready
  /\ table.size = 0
  /\ told' = "deleted"
  /\ UNCHANGED <<ptvars, slot, mgmt, callvars, installed, intact>>

\* Mutant: the slot is erased before the table is written.
Mutpreload_delete ==
  /\ Ready
  /\ table.size # 0
  /\ slot' = [c \in Chunk |-> {}]
  /\ call' = "delete"
  /\ next' = EmptyEntry(table.pubkey)
  /\ todo' = <<>>
  /\ told' = "nothing"
  /\ UNCHANGED <<ptvars, mgmt, installed, intact>>

\* preload_delete: the table first, then the two blocks of the slot.
preload_delete ==
  /\ Ready
  /\ table.size # 0
  /\ Call("delete", EmptyEntry(table.pubkey),
          <<EraseBlock(0), EraseBlock(1)>>)
  /\ UNCHANGED installed

\* preload_set_pubkey.
preload_set_pubkey(pubkey) ==
  /\ Ready
  /\ Call("set_pubkey",
          [size |-> table.size, digest |-> table.digest, pubkey |-> pubkey],
          <<>>)
  /\ UNCHANGED installed

\* preload_get_metadata: what the management app gets to see.
preload_get_metadata == <<table.digest, table.pubkey>>

(***************************************************************************)
(* Steps of a call                                                         *)
(***************************************************************************)
WriteTable ==
  /\ next # Invalid
  /\ PT!part_table_write(next)
  /\ next' = Invalid
  /\ UNCHANGED <<slot, mgmt, call, todo, told, installed, intact>>

TableStep ==
  /\ PT!WriteStep
  /\ UNCHANGED <<slot, mgmt, callvars, told, installed, intact>>

\* What the command c makes of a chunk it names.
Executed(c, old) == IF c.op = "erase" THEN {} ELSE old \cup {c.data}

\* The next flash command: program pages, or erase a block.
FlashCommand ==
  /\ mode = "idle"
  /\ next = Invalid
  /\ todo # <<>>
  /\ LET c == Head(todo)
     IN  slot' = [i \in Chunk |->
                    IF i \in c.chunks THEN Executed(c, slot[i]) ELSE slot[i]]
  /\ todo' = Tail(todo)
  /\ UNCHANGED <<ptvars, mgmt, call, next, told, installed, intact>>

\* What the return value 0 of a call tells the management app.
Told ==
  CASE call = "finalize" -> "installed"
    [] call = "delete" -> "deleted"
    [] OTHER -> told

Return ==
  /\ mode = "idle"
  /\ call # "none"
  /\ next = Invalid
  /\ todo = <<>>
  /\ call' = "none"
  /\ told' = Told
  /\ UNCHANGED <<ptvars, slot, mgmt, next, todo, installed, intact>>

(***************************************************************************)
(* Boot and faults                                                         *)
(***************************************************************************)
\* The table is read and the management app, or another app, is started
\* (Boot, which says when preload_load is called).
Start(privileged) ==
  /\ PT!part_table_read
  /\ mgmt' = privileged
  /\ UNCHANGED <<slot, callvars, told, installed, intact>>

NoTable ==
  /\ PT!NoTable
  /\ UNCHANGED <<slot, mgmt, callvars, told, installed, intact>>

PowerCut ==
  /\ PT!PowerCut
  /\ mgmt' = FALSE
  /\ call' = "none"
  /\ next' = Invalid
  /\ todo' = <<>>
  /\ intact' = (intact /\ PT!Tolerated')
  /\ UNCHANGED <<slot, told, installed>>

TableFault(i) ==
  /\ call = "none"
  /\ PT!FlashFault(i)
  /\ intact' = (intact /\ PT!Tolerated')
  /\ UNCHANGED <<slot, mgmt, callvars, told, installed>>

Init ==
  /\ PT!InitWith(EmptyEntry(Zero))
  /\ slot = [c \in Chunk |-> {}]
  /\ mgmt = FALSE
  /\ call = "none"
  /\ next = Invalid
  /\ todo = <<>>
  /\ told = "nothing"
  /\ installed = [image |-> <<>>, digest |-> Zero]
  /\ intact = TRUE

Syscall ==
  \/ \E offset \in Chunk, buf \in Buffers : preload_store(offset, buf)
  \/ \E size \in 0 .. NChunks + 1, digest \in Digest :
       preload_store_finalize(size, digest)
  \/ DeleteNothing
  \/ preload_delete
  \/ \E pubkey \in Pubkey : preload_set_pubkey(pubkey)

CallStep == WriteTable \/ TableStep \/ FlashCommand \/ Return

Environment ==
  \/ \E privileged \in BOOLEAN : Start(privileged)
  \/ NoTable
  \/ PowerCut
  \/ \E i \in {0, 1} : TableFault(i)

Next == Syscall \/ CallStep \/ Environment

Spec == Init /\ [][Next]_vars

(***************************************************************************)
(* Properties                                                              *)
(***************************************************************************)
\* The variables are well typed; nothing is programmed outside the slot, whose
\* neighbour is the first storage area.
PLTypeOK ==
  /\ PT!PTTypeOK
  /\ slot \in [Chunk -> SUBSET Data]
  /\ mgmt \in BOOLEAN
  /\ next \in Tables \cup {Invalid}
  /\ \A k \in DOMAIN todo : todo[k].chunks \subseteq Chunk
  /\ told \in {"nothing", "installed", "deleted"}
  /\ intact \in BOOLEAN

\* Whenever the table says there is an app in slot 1, at any boot, it is the
\* app that was finalised, complete and with its metadata: no interrupted
\* call leaves a torn app behind a table that vouches for it.  This is why
\* preload_delete writes the table before it erases.
InstalledIsWhole ==
  intact /\ mode = "idle" /\ table.size # 0 =>
    /\ preload_load(table.size) = installed.image
    /\ preload_get_metadata[1] = installed.digest

\* What PRELOAD_STORE_FIN and PRELOAD_DELETE reported stays true over any
\* restart and any interrupted PRELOAD_SET_PUBKEY, until the next call about
\* the app: an installed app is there, a deleted one does not come back.
ToldIsDurable ==
  intact /\ mode = "idle" =>
    /\ told = "installed" => table.size # 0
    /\ told = "deleted" => table.size = 0

\* After PRELOAD_DELETE has returned 0 the slot is erased, so that the next
\* PRELOAD_STORE programs what it is given.
DeletedIsErased ==
  told = "deleted" /\ mode = "idle" => \A c \in Chunk : slot[c] = {}
=============================================================================
