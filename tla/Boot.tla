-------------------------------- MODULE Boot --------------------------------
(***************************************************************************)
(* Measured boot of the TKey: the firmware state machine of main.c, from   *)
(* the reset vector to the jump into the device app, together with the     *)
(* RESET system call through which one app starts the next.                *)
(*                                                                         *)
(* An app image is the function from 0 .. n-1 to its bytes.  A BLAKE2s     *)
(* digest is modelled by what it identifies: the digest of an image is the *)
(* image, and a keyed digest is the record of its key and its inputs, so   *)
(* two digests are equal exactly when all inputs are.  `origin' is a       *)
(* history variable: what the previous app (or power-on) asked for, which  *)
(* the firmware itself forgets on the way.                                 *)
(***************************************************************************)
EXTENDS Integers

CONSTANTS
  Byte,             \* the bytes app images are made of
  TK1_APP_MAX_SIZE, \* size of the app RAM, 0x20000 in the code
  FRAME_DATA,       \* payload of one LOAD_APP_DATA frame, 127 in the code
  Uss,              \* user supplied secrets a client may send
  allowed_app_digest, \* mgmt_app_digest.h: the app allowed in slot 0
  Zero,             \* an all-zero field
  Scrambled,        \* a byte of app RAM after scramble_ram
  Residue,          \* a byte of app RAM written by a running app
  Sizes,            \* sizes a client announces in LOAD_APP
  Frames,           \* payloads a client sends in LOAD_APP_DATA
  Digests,          \* app digests an app passes to the RESET system call
  Seeds,            \* measured id seeds an app passes
  NextData,         \* next_app_data an app passes
  FlashApps,        \* what a preload slot may hold
  MaxResets         \* bound on the number of resets and power cycles

Ram == 0 .. TK1_APP_MAX_SIZE - 1

Image == UNION {[0 .. n - 1 -> Byte] : n \in 1 .. TK1_APP_MAX_SIZE}

Digest == Image \cup {Zero}

\* A preload slot: the size in the partition table, 0 if there is no app, and
\* the bytes in flash.
FlashApp == [size : 0 .. TK1_APP_MAX_SIZE, data : [Ram -> Byte]]

ASSUME SizeAssumption ==
  /\ TK1_APP_MAX_SIZE \in Nat \ {0}
  /\ FRAME_DATA \in Nat \ {0}
  /\ MaxResets \in Nat

ASSUME InputAssumption ==
  /\ Sizes \subseteq Nat
  /\ Frames \subseteq [0 .. FRAME_DATA - 1 -> Byte]
  /\ FlashApps \subseteq FlashApp
  /\ Digests \subseteq Digest

ASSUME DistinctAssumption ==
  /\ allowed_app_digest \in Image
  /\ Zero \notin Image
  /\ Zero \notin Uss
  /\ Scrambled \notin Byte

\* reset.h, enum reset_start; 7 stands for any value outside the enum.
START_DEFAULT == 0
START_FLASH0 == 1
START_FLASH1 == 2
START_FLASH0_VER == 3
START_FLASH1_VER == 4
START_CLIENT == 5
START_CLIENT_VER == 6
ResetType == 0 .. 7

\* state.h, enum state, and the three conditions of the machine outside
\* main(): held in reset, running the app, and trapped.
FwState == {"INITIAL", "WAITCOMMAND", "LOADING", "LOAD_FLASH",
            "LOAD_FLASH_MGMT", "START", "FAIL"}
State == FwState \cup {"RESET", "APP", "HALT"}

\* ver_digest is a pointer: into ROM, into resetinfo, or NULL.
VerPtr == {"NULL", "allowed_app_digest", "resetinfo->app_digest"}

\* main.c, struct context.
Context ==
  [left : 0 .. TK1_APP_MAX_SIZE, digest : Digest,
   loadaddr : 0 .. TK1_APP_MAX_SIZE, use_uss : BOOLEAN,
   uss : Uss \cup {Zero}, flash_slot : {0, 1}, ver_digest : VerPtr]

VARIABLES
  state,              \* main(): state
  ctx,                \* main(): struct context
  resetinfo,          \* struct reset, in FW_RAM outside what start.S clears
  current_app_digest, \* mgmt_app.c, .bss
  ram,                \* the app RAM
  app_size,           \* APP_SIZE register of the tk1 core
  cdi,                \* CDI registers of the tk1 core
  uds_rd,             \* uds_rd_reg of the uds core: has UDS been read?
  flash,              \* the two preload slots
  reply,              \* the last reply to the client
  running,            \* history: the bytes the CPU jumped to
  origin,             \* history: the request that started this boot
  sent_uss,           \* history: the USS the client sent, Zero if none
  resets              \* history: resets so far, for MaxResets

history == <<running, origin, sent_uss, resets>>

vars == <<state, ctx, resetinfo, current_app_digest, ram, app_size, cdi,
          uds_rd, flash, reply, history>>

(***************************************************************************)
(* Digests and identities                                                  *)
(***************************************************************************)
\* main.c, compute_app_digest: blake2s over the first `size' bytes of RAM.
compute_app_digest(mem, size) == [i \in 0 .. size - 1 |-> mem[i]]

\* main.c, compute_cdi: blake2s keyed with what the UDS core returns, over the
\* domain byte (its two bits are `measured' and `use_uss'), an identity and,
\* if used, the USS.
compute_cdi(uds, measured, id, use_uss, uss) ==
  [uds |-> uds, measured |-> measured, use_uss |-> use_uss, id |-> id,
   uss |-> IF use_uss THEN uss ELSE Zero]

\* uds.v, api: UDS is readable once after reset, later reads return zero.
UdsValue == IF uds_rd THEN Zero ELSE "UDS"

\* reset.c, reset: blake2s keyed with the CDI of the caller over the seed.
MeasuredId(key, seed) == [cdi |-> key, seed |-> seed]

\* mgmt_app.c, mgmt_app_authenticate.
mgmt_app_authenticate == current_app_digest = allowed_app_digest

ZeroCtx == [left |-> 0, digest |-> Zero, loadaddr |-> 0, use_uss |-> FALSE,
            uss |-> Zero, flash_slot |-> 0, ver_digest |-> "NULL"]

\* struct reset; RESET_SEED is the only bit of mask with a meaning.
Resetinfo(type, seeded, digest, id, next) ==
  [type |-> type, mask_seed |-> seeded, app_digest |-> digest,
   measured_id |-> id, next_app_data |-> next]

ZeroResetinfo == Resetinfo(START_DEFAULT, FALSE, Zero, Zero, Zero)

Reply(rsp, digest) == [rsp |-> rsp, digest |-> digest]

Init ==
  /\ state = "RESET"
  /\ ctx = ZeroCtx
  /\ resetinfo = ZeroResetinfo
  /\ current_app_digest = Zero
  /\ ram = [i \in Ram |-> Residue]
  /\ app_size = 0
  /\ cdi = Zero
  /\ uds_rd = FALSE
  /\ flash \in [{0, 1} -> FlashApps]
  /\ reply = Reply("none", Zero)
  /\ running = Zero
  /\ origin = ZeroResetinfo
  /\ sent_uss = Zero
  /\ resets = 0

(***************************************************************************)
(* Firmware start                                                          *)
(***************************************************************************)
\* Mutant: .bss is kept over a reset.
MutKeepBss == current_app_digest' = current_app_digest

\* start.S, init: .bss and .data are cleared; resetinfo, after them in FW_RAM,
\* is not.
clear_fw_ram == current_app_digest' = Zero

\* Mutant: the loop over the RAM stops one word early.
MutScrambleShort ==
  ram' = [i \in Ram |-> IF i < TK1_APP_MAX_SIZE - 1 THEN Scrambled ELSE ram[i]]

\* main.c, scramble_ram: every word of the app RAM is overwritten.
scramble_ram == ram' = [i \in Ram |-> Scrambled]

\* start.S, init, and main() up to its loop.
Startup ==
  /\ state = "RESET"
  /\ state' = "INITIAL"
  /\ ctx' = ZeroCtx
  /\ clear_fw_ram
  /\ scramble_ram
  /\ UNCHANGED <<resetinfo, app_size, cdi, uds_rd, flash, reply, history>>

\* start_where: what a reset type stands for, as the slot to load from, the
\* digest to verify the app against and the next state.
StartFrom(type) ==
  CASE type \in {START_DEFAULT, START_FLASH0} ->
         <<0, "allowed_app_digest", "LOAD_FLASH_MGMT">>
    [] type = START_FLASH1 -> <<1, "NULL", "LOAD_FLASH">>
    [] type = START_FLASH0_VER -> <<0, "resetinfo->app_digest", "LOAD_FLASH">>
    [] type = START_FLASH1_VER -> <<1, "resetinfo->app_digest", "LOAD_FLASH">>
    [] type = START_CLIENT -> <<0, "NULL", "WAITCOMMAND">>
    [] type = START_CLIENT_VER -> <<0, "resetinfo->app_digest", "WAITCOMMAND">>
    [] OTHER -> <<0, "NULL", "FAIL">>

start_where ==
  /\ state = "INITIAL"
  /\ ctx' = [ctx EXCEPT !.flash_slot = StartFrom(resetinfo.type)[1],
                        !.ver_digest = StartFrom(resetinfo.type)[2]]
  /\ state' = StartFrom(resetinfo.type)[3]
  /\ UNCHANGED <<resetinfo, current_app_digest, ram, app_size, cdi, uds_rd,
                 flash, reply, history>>

(***************************************************************************)
(* Commands from the client                                                *)
(***************************************************************************)
\* The commands each state answers, with the frame length they must have.
Accepted(st) ==
  IF st = "WAITCOMMAND"
  THEN {<<"NAME_VERSION", 1>>, <<"GET_UDI", 1>>, <<"LOAD_APP", 128>>}
  ELSE {<<"LOAD_APP_DATA", 128>>}

\* A frame readcommand cannot parse ("unreadable"), a command of the wrong
\* length, and a command the state does not know end in FW_STATE_FAIL.
BadCommand(cmd, len) ==
  /\ state \in {"WAITCOMMAND", "LOADING"}
  /\ <<cmd, len>> \notin Accepted(state)
  /\ state' = "FAIL"
  /\ UNCHANGED <<ctx, resetinfo, current_app_digest, ram, app_size, cdi,
                 uds_rd, flash, reply, history>>

\* initial_commands, NAME_VERSION and GET_UDI: answer and stay.
QueryCommand(rsp) ==
  /\ state = "WAITCOMMAND"
  /\ reply' = Reply(rsp, Zero)
  /\ UNCHANGED <<state, ctx, resetinfo, current_app_digest, ram, app_size,
                 cdi, uds_rd, flash, history>>

\* initial_commands: the app sizes LOAD_APP takes.
SizeOk(size) == size # 0 /\ size <= TK1_APP_MAX_SIZE

\* initial_commands, LOAD_APP with a bad size: answer STATUS_BAD and stay.
LoadAppBad(size) ==
  /\ state = "WAITCOMMAND"
  /\ ~SizeOk(size)
  /\ reply' = Reply("LOAD_APP_BAD", Zero)
  /\ UNCHANGED <<state, ctx, resetinfo, current_app_digest, ram, app_size,
                 cdi, uds_rd, flash, history>>

\* initial_commands, LOAD_APP: remember size and USS, expect the data.
LoadApp(size, use_uss, uss) ==
  /\ state = "WAITCOMMAND"
  /\ SizeOk(size)
  /\ app_size' = size
  /\ ctx' = [ctx EXCEPT !.use_uss = use_uss,
                        !.uss = IF use_uss THEN uss ELSE @,
                        !.left = size]
  /\ reply' = Reply("LOAD_APP_OK", Zero)
  /\ state' = "LOADING"
  /\ sent_uss' = IF use_uss THEN uss ELSE Zero
  /\ UNCHANGED <<resetinfo, current_app_digest, ram, cdi, uds_rd, flash,
                 running, origin, resets>>

\* loading_commands: how many bytes of a frame are still wanted.
nbytes == IF ctx.left > FRAME_DATA THEN FRAME_DATA ELSE ctx.left

\* loading_commands: the RAM after the frame has been copied to loadaddr.
Loaded(data) ==
  [i \in Ram |-> IF i \in ctx.loadaddr .. ctx.loadaddr + nbytes - 1
                 THEN data[i - ctx.loadaddr] ELSE ram[i]]

\* Mutant: the digest is computed before the last frame has been copied.
MutLoadedDigest(data) == compute_app_digest(ram, app_size)

\* loading_commands: the digest of the RAM with the last frame in it.
LoadedDigest(data) == compute_app_digest(Loaded(data), app_size)

\* loading_commands, LOAD_APP_DATA before the last frame.
LoadAppData(data) ==
  /\ state = "LOADING"
  /\ ctx.left - nbytes # 0
  /\ ram' = Loaded(data)
  /\ ctx' = [ctx EXCEPT !.loadaddr = @ + nbytes, !.left = @ - nbytes]
  /\ reply' = Reply("LOAD_APP_DATA", Zero)
  /\ UNCHANGED <<state, resetinfo, current_app_digest, app_size, cdi, uds_rd,
                 flash, history>>

\* loading_commands, the last LOAD_APP_DATA: compute the digest, report it to
\* the client and go on to START.
LoadAppDataReady(data) ==
  /\ state = "LOADING"
  /\ ctx.left - nbytes = 0
  /\ ram' = Loaded(data)
  /\ ctx' = [ctx EXCEPT !.loadaddr = @ + nbytes, !.left = 0,
                        !.digest = LoadedDigest(data)]
  /\ reply' = Reply("LOAD_APP_DATA_READY", LoadedDigest(data))
  /\ state' = "START"
  /\ UNCHANGED <<resetinfo, current_app_digest, app_size, cdi, uds_rd, flash,
                 history>>

(***************************************************************************)
(* Loading from flash                                                      *)
(***************************************************************************)
Slot == flash[ctx.flash_slot]

\* preload_load: there is no app in the slot.
LoadFlashEmpty ==
  /\ state \in {"LOAD_FLASH", "LOAD_FLASH_MGMT"}
  /\ Slot.size = 0
  /\ state' = "FAIL"
  /\ UNCHANGED <<ctx, resetinfo, current_app_digest, ram, app_size, cdi,
                 uds_rd, flash, reply, history>>

\* FW_STATE_LOAD_FLASH_MGMT: mgmt_app_init registers the digest.
\* FW_STATE_LOAD_FLASH does not.
mgmt_app_init(digest) ==
  IF state = "LOAD_FLASH_MGMT" THEN digest ELSE current_app_digest

\* load_flash_app: read the app into RAM and compute its digest.
LoadFlash ==
  /\ state \in {"LOAD_FLASH", "LOAD_FLASH_MGMT"}
  /\ Slot.size # 0
  /\ app_size' = Slot.size
  /\ ram' = [i \in Ram |-> IF i < Slot.size THEN Slot.data[i] ELSE ram[i]]
  /\ ctx' = [ctx EXCEPT !.digest = compute_app_digest(ram', Slot.size)]
  /\ current_app_digest' = mgmt_app_init(compute_app_digest(ram', Slot.size))
  /\ state' = "START"
  /\ UNCHANGED <<resetinfo, cdi, uds_rd, flash, reply, history>>

(***************************************************************************)
(* FW_STATE_START                                                          *)
(***************************************************************************)
\* Mutant: the measured id has been wiped before it is used.
MutCdiIdentity == IF resetinfo.mask_seed THEN Zero ELSE ctx.digest

\* What the CDI is computed from: the measured id if the last app asked for
\* it, else the digest of this app.
CdiIdentity ==
  IF resetinfo.mask_seed THEN resetinfo.measured_id ELSE ctx.digest

\* The digest ver_digest points at.
VerDigest == IF ctx.ver_digest = "allowed_app_digest"
             THEN allowed_app_digest ELSE resetinfo.app_digest

\* Mutant: only the management app is verified.
MutVerified == ctx.ver_digest # "allowed_app_digest" \/ ctx.digest = VerDigest

\* FW_STATE_START: nothing to verify against, or the digests agree.
Verified == ctx.ver_digest = "NULL" \/ ctx.digest = VerDigest

\* Mutant: RESET_SEED stays set in mask.
MutForget(digest) == Resetinfo(START_DEFAULT, resetinfo.mask_seed, digest,
                               Zero, resetinfo.next_app_data)

\* resetinfo after the request has been used; app_digest goes later.
Forget(digest) ==
  Resetinfo(START_DEFAULT, FALSE, digest, Zero, resetinfo.next_app_data)

\* compute_cdi, with the UDS read once and the CDI written to its registers.
SetCdi ==
  /\ cdi' = compute_cdi(UdsValue, resetinfo.mask_seed, CdiIdentity,
                        ctx.use_uss, ctx.uss)
  /\ uds_rd' = TRUE

\* The digest is not the one asked for.  The CDI has been computed already.
StartFail ==
  /\ state = "START"
  /\ SetCdi
  /\ ~Verified
  /\ resetinfo' = Forget(resetinfo.app_digest)
  /\ state' = "FAIL"
  /\ UNCHANGED <<ctx, current_app_digest, ram, app_size, flash, reply,
                 history>>

\* jump_to_app: the firmware stack, with the context, is cleared and the CPU
\* runs what is in RAM.
Start ==
  /\ state = "START"
  /\ SetCdi
  /\ Verified
  /\ resetinfo' = Forget(Zero)
  /\ ctx' = ZeroCtx
  /\ state' = "APP"
  /\ running' = compute_app_digest(ram, app_size)
  /\ UNCHANGED <<current_app_digest, ram, app_size, flash, reply, origin,
                 sent_uss, resets>>

\* Mutant: the assertion is compiled out and the loop spins.
MutFail == state = "FAIL" /\ UNCHANGED vars

\* FW_STATE_FAIL: the assertion traps the CPU.
Fail ==
  /\ state = "FAIL"
  /\ state' = "HALT"
  /\ UNCHANGED <<ctx, resetinfo, current_app_digest, ram, app_size, cdi,
                 uds_rd, flash, reply, history>>

(***************************************************************************)
(* The running app, and resets                                             *)
(***************************************************************************)
\* The app uses its RAM.
AppWritesRam ==
  /\ state = "APP"
  /\ ram' = [i \in Ram |-> Residue]
  /\ UNCHANGED <<state, ctx, resetinfo, current_app_digest, app_size, cdi,
                 uds_rd, flash, reply, history>>

\* The management app replaces or deletes the app in slot 1: the PRELOAD_*
\* system calls, as far as the next boot can tell.
PreloadSlot1(app) ==
  /\ state = "APP"
  /\ mgmt_app_authenticate
  /\ flash' = [flash EXCEPT ![1] = app]
  /\ UNCHANGED <<state, ctx, resetinfo, current_app_digest, ram, app_size,
                 cdi, uds_rd, reply, history>>

\* The registers reset_n clears (tk1.v, uds.v).  Neither RAM is cleared.
HardwareReset ==
  /\ resets < MaxResets
  /\ resets' = resets + 1
  /\ state' = "RESET"
  /\ cdi' = Zero
  /\ app_size' = 0
  /\ uds_rd' = FALSE
  /\ running' = Zero
  /\ sent_uss' = Zero
  /\ reply' = Reply("none", Zero)
  /\ UNCHANGED <<ctx, current_app_digest, ram, flash>>

\* reset.c, reset: overwrite resetinfo with the request, bind the measured id
\* to the caller's CDI, reset the system.
reset(type, seeded, digest, seed, next) ==
  /\ state = "APP"
  /\ resetinfo' = Resetinfo(type, seeded, digest, MeasuredId(cdi, seed), next)
  /\ origin' = Resetinfo(type, seeded, digest, MeasuredId(cdi, seed), next)
  /\ HardwareReset

\* Power is lost and restored: FW_RAM comes up zeroed from the bitstream, the
\* app RAM is allowed to keep its contents.
PowerCycle ==
  /\ state # "RESET"
  /\ resetinfo' = ZeroResetinfo
  /\ origin' = ZeroResetinfo
  /\ HardwareReset

Firmware ==
  \/ Startup \/ start_where \/ LoadFlashEmpty \/ LoadFlash
  \/ StartFail \/ Start \/ Fail

Client ==
  \/ \E cmd \in {"NAME_VERSION", "GET_UDI", "LOAD_APP", "LOAD_APP_DATA",
                 "unknown", "unreadable"}, len \in {1, 4, 32, 128} :
       BadCommand(cmd, len)
  \/ \E rsp \in {"NAME_VERSION", "GET_UDI"} : QueryCommand(rsp)
  \/ \E size \in Sizes : LoadAppBad(size)
  \/ \E size \in Sizes : LoadApp(size, FALSE, Zero)
  \/ \E size \in Sizes, uss \in Uss : LoadApp(size, TRUE, uss)
  \/ \E data \in Frames : LoadAppData(data) \/ LoadAppDataReady(data)

App ==
  \/ AppWritesRam
  \/ \E app \in FlashApps : PreloadSlot1(app)
  \/ \E type \in ResetType, seeded \in BOOLEAN, digest \in Digests,
        seed \in Seeds, next \in NextData :
       reset(type, seeded, digest, seed, next)

Next == Firmware \/ Client \/ App \/ PowerCycle

Spec == Init /\ [][Next]_vars

\* The firmware loop waits for nothing but the client.
FairSpec == Spec /\ WF_vars(Firmware)

(***************************************************************************)
(* Properties                                                              *)
(***************************************************************************)
VerifyingTypes == {START_FLASH0_VER, START_FLASH1_VER, START_CLIENT_VER}
MgmtTypes == {START_DEFAULT, START_FLASH0}

\* The variables hold values of their C types; a load never runs past the end
\* of the app RAM (loading_commands, memcpy_s).
TypeOK ==
  /\ state \in State
  /\ ctx \in Context
  /\ resetinfo.type \in ResetType
  /\ resetinfo.mask_seed \in BOOLEAN
  /\ resetinfo.app_digest \in Digest
  /\ current_app_digest \in Digest
  /\ ram \in [Ram -> Byte \cup {Scrambled, Residue}]
  /\ app_size \in 0 .. TK1_APP_MAX_SIZE
  /\ uds_rd \in BOOLEAN
  /\ flash \in [{0, 1} -> FlashApp]
  /\ running \in Digest
  /\ sent_uss \in Uss \cup {Zero}
  /\ resets \in 0 .. MaxResets

\* Verified boot: the bytes the CPU runs are the management app if the reset
\* type starts it, and the app the previous app named if the type verifies
\* (start_where, FW_STATE_START, across a reset of the machine).
VerifiedStart ==
  state = "APP" =>
    /\ origin.type \in MgmtTypes => running = allowed_app_digest
    /\ origin.type \in VerifyingTypes => running = origin.app_digest

\* mgmt_app_authenticate answers TRUE only to the management app itself, and
\* only if it was started as such: neither an app started later nor one loaded
\* under another reset type inherits the privilege.
PrivilegeIsVerified ==
  state = "APP" /\ mgmt_app_authenticate =>
    /\ running = allowed_app_digest
    /\ origin.type \in MgmtTypes

\* The CDI of a running app is a function of the real UDS, of the USS this
\* client sent, and of the identity of the bytes that run, or, if the previous
\* app asked for it, of the measured id bound to that app's own CDI.
CdiBinding ==
  state = "APP" =>
    cdi = compute_cdi("UDS", origin.mask_seed,
                      IF origin.mask_seed THEN origin.measured_id ELSE running,
                      sent_uss # Zero, sent_uss)

\* A request left in resetinfo is used for one start only: when the app runs,
\* nothing of it remains but the data the previous app left for this one.
RequestUsedOnce ==
  state = "APP" =>
    resetinfo = Resetinfo(START_DEFAULT, FALSE, Zero, Zero,
                          origin.next_app_data)

\* The digest reported to the client in the final LOAD_APP_DATA reply is that
\* of the app that is started.
ReportedAppRuns ==
  state = "APP" /\ reply.rsp = "LOAD_APP_DATA_READY" => running = reply.digest

\* When an app starts, the RAM beyond it holds random data only and what runs
\* is bytes that were loaded: nothing of the RAM of an earlier app is left,
\* although no reset clears the RAM.
CleanRam ==
  [][state = "START" /\ state' = "APP" =>
       /\ running' \in Image
       /\ \A i \in Ram : i >= app_size' => ram'[i] = Scrambled]_vars

\* Every reset leads, without the client, to a running app, to a stopped CPU,
\* or to the point where the client is to speak.
BootEnds ==
  state = "RESET" ~> state \in {"APP", "HALT", "WAITCOMMAND"}
=============================================================================
