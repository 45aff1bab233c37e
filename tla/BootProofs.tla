----------------------------- MODULE BootProofs -----------------------------
(***************************************************************************)
(* Verified and measured boot, for every app, size, seed and number of     *)
(* resets.  The inductive invariant says what the firmware knows at each   *)
(* state of main(): which request it serves, what it will verify against,  *)
(* what is in RAM.                                                         *)
(***************************************************************************)
EXTENDS Boot, TLAPS

\* The states of main() in which the request has been read from resetinfo.
Serving == {"WAITCOMMAND", "LOADING", "LOAD_FLASH", "LOAD_FLASH_MGMT", "START"}

\* Until START is done, resetinfo is the request and UDS has not been read.
RequestInv ==
  state \in {"RESET", "INITIAL"} \cup Serving =>
    /\ resetinfo = origin
    /\ ~uds_rd
    /\ state # "RESET" => sent_uss = IF ctx.use_uss THEN ctx.uss ELSE Zero
    /\ state # "RESET" /\ ctx.use_uss => ctx.uss \in Uss
    /\ state \in {"RESET", "INITIAL"} => sent_uss = Zero
    /\ state = "INITIAL" => ctx = ZeroCtx

\* What start_where decided still holds.
PlanInv ==
  /\ state \in Serving => ctx.ver_digest = StartFrom(origin.type)[2]
  /\ state = "LOAD_FLASH_MGMT" => origin.type \in MgmtTypes
  /\ state \in {"WAITCOMMAND", "LOADING", "LOAD_FLASH"} =>
       origin.type \notin MgmtTypes
  /\ state = "WAITCOMMAND" => ctx.loadaddr = 0

\* Only LOAD_FLASH_MGMT registers a digest, and only of what it loaded.
RegisteredInv ==
  /\ state \in {"INITIAL", "WAITCOMMAND", "LOADING", "LOAD_FLASH",
                "LOAD_FLASH_MGMT"} => current_app_digest = Zero
  /\ state = "START" =>
       \/ current_app_digest = Zero
       \/ origin.type \in MgmtTypes /\ current_app_digest = ctx.digest

\* The bytes below loadaddr have been received, those above are random.
RamInv ==
  /\ state \in {"INITIAL", "WAITCOMMAND", "LOAD_FLASH", "LOAD_FLASH_MGMT"} =>
       \A i \in Ram : ram[i] = Scrambled
  /\ state = "LOADING" =>
       /\ ctx.left > 0
       /\ ctx.loadaddr + ctx.left = app_size
       /\ \A i \in Ram : IF i < ctx.loadaddr THEN ram[i] \in Byte
                         ELSE ram[i] = Scrambled
  /\ state = "START" =>
       /\ app_size > 0
       /\ \A i \in Ram : IF i < app_size THEN ram[i] \in Byte
                         ELSE ram[i] = Scrambled
       /\ ctx.digest = compute_app_digest(ram, app_size)

IInv ==
  /\ TypeOK
  /\ RequestInv
  /\ PlanInv
  /\ RegisteredInv
  /\ RamInv
  /\ VerifiedStart
  /\ PrivilegeIsVerified
  /\ CdiBinding
  /\ RequestUsedOnce

-----------------------------------------------------------------------------
\* The digest of a prefix of the RAM that holds bytes is the digest of an
\* image (compute_app_digest).
LEMMA DigestOfBytes ==
  ASSUME NEW mem, NEW n \in 1 .. TK1_APP_MAX_SIZE,
         \A i \in Ram : i < n => mem[i] \in Byte
  PROVE  compute_app_digest(mem, n) \in Image
<1>1. \A i \in 0 .. n - 1 : mem[i] \in Byte
  BY SizeAssumption DEF Ram
<1>2. compute_app_digest(mem, n) \in [0 .. n - 1 -> Byte]
  BY <1>1 DEF compute_app_digest
<1> QED BY <1>2 DEF Image

\* The context main() starts with is one.
LEMMA ZeroCtxType == ZeroCtx \in Context
BY SizeAssumption DEF SizeAssumption, ZeroCtx, Context, Digest, VerPtr

\* The initial states satisfy the invariant.
LEMMA InitInv == Init => IInv
<1> SUFFICES ASSUME Init PROVE IInv
  OBVIOUS
<1> USE DEF Init, ZeroCtx, ZeroResetinfo, Resetinfo
<1>1. TypeOK
  <2>1. flash \in [{0, 1} -> FlashApp]
    BY InputAssumption DEF InputAssumption
  <2>2. ctx \in Context
    BY ZeroCtxType
  <2>3. /\ resetinfo.type \in ResetType
        /\ resetinfo.mask_seed \in BOOLEAN
        /\ resetinfo.app_digest \in Digest
    BY DEF Digest, ResetType, START_DEFAULT
  <2>4. ram \in [Ram -> Byte \cup {Scrambled, Residue}]
    OBVIOUS
  <2>5. app_size \in 0 .. TK1_APP_MAX_SIZE /\ resets \in 0 .. MaxResets
    BY SizeAssumption DEF SizeAssumption
  <2>6. state \in State /\ uds_rd \in BOOLEAN
    BY DEF State
  <2>7. /\ current_app_digest \in Digest
        /\ running \in Digest
        /\ sent_uss \in Uss \cup {Zero}
    BY DEF Digest
  <2> QED BY <2>1, <2>2, <2>3, <2>4, <2>5, <2>6, <2>7 DEF TypeOK
<1>2. RequestInv /\ PlanInv /\ RegisteredInv /\ RamInv
  BY DEF RequestInv, PlanInv, RegisteredInv, RamInv, Serving
<1>3. VerifiedStart /\ PrivilegeIsVerified /\ CdiBinding /\ RequestUsedOnce
  BY DEF VerifiedStart, PrivilegeIsVerified, CdiBinding, RequestUsedOnce
<1> QED BY <1>1, <1>2, <1>3 DEF IInv

\* The properties of a running app hold as long as no app runs.
LEMMA NotRunning ==
  ASSUME state' # "APP"
  PROVE  (VerifiedStart /\ PrivilegeIsVerified /\ CdiBinding /\ RequestUsedOnce)'
BY DEF VerifiedStart, PrivilegeIsVerified, CdiBinding, RequestUsedOnce

\* start.S and main() up to its loop preserve the invariant.
LEMMA StartupInv == IInv /\ Startup => IInv'
<1> SUFFICES ASSUME IInv, Startup PROVE IInv'
  OBVIOUS
<1> USE DEF Startup, clear_fw_ram, scramble_ram, history
<1>1. TypeOK'
  <2>1. ram' \in [Ram -> Byte \cup {Scrambled, Residue}]
    OBVIOUS
  <2> QED BY <2>1, ZeroCtxType DEF IInv, TypeOK, State, FwState, Digest
<1>2. (RequestInv /\ PlanInv /\ RegisteredInv /\ RamInv)'
  BY DEF IInv, RequestInv, PlanInv, RegisteredInv, RamInv, Serving, ZeroCtx
<1> QED BY <1>1, <1>2, NotRunning DEF IInv

\* start_where preserves the invariant.
LEMMA StartWhereInv == IInv /\ start_where => IInv'
<1> SUFFICES ASSUME IInv, start_where PROVE IInv'
  OBVIOUS
<1> USE DEF start_where, history
<1>1. /\ StartFrom(resetinfo.type)[1] \in {0, 1}
      /\ StartFrom(resetinfo.type)[2] \in VerPtr
      /\ StartFrom(resetinfo.type)[3] \in
           {"LOAD_FLASH_MGMT", "LOAD_FLASH", "WAITCOMMAND", "FAIL"}
  BY DEF StartFrom, VerPtr
<1>2. /\ StartFrom(resetinfo.type)[3] = "LOAD_FLASH_MGMT" =>
           resetinfo.type \in MgmtTypes
      /\ StartFrom(resetinfo.type)[3] \in {"WAITCOMMAND", "LOAD_FLASH"} =>
           resetinfo.type \notin MgmtTypes
  BY DEF StartFrom, MgmtTypes, START_DEFAULT, START_FLASH0, START_FLASH1,
     START_FLASH0_VER, START_FLASH1_VER, START_CLIENT, START_CLIENT_VER
<1>3. TypeOK'
  BY <1>1 DEF IInv, TypeOK, State, FwState, Context
<1>4. (RequestInv /\ PlanInv)'
  BY <1>1, <1>2 DEF IInv, TypeOK, Context, RequestInv, PlanInv, Serving, ZeroCtx
<1>5. (RegisteredInv /\ RamInv)'
  BY <1>1 DEF IInv, RegisteredInv, RamInv
<1> QED BY <1>1, <1>3, <1>4, <1>5, NotRunning DEF IInv

\* Commands that fail, and queries, preserve the invariant.
LEMMA SimpleCommandInv ==
  ASSUME IInv,
         \/ \E cmd, len : BadCommand(cmd, len)
         \/ \E rsp : QueryCommand(rsp)
         \/ \E size : LoadAppBad(size)
         \/ Fail
         \/ LoadFlashEmpty
  PROVE  IInv'
<1>1. UNCHANGED <<ctx, resetinfo, current_app_digest, ram, app_size, cdi,
                  uds_rd, flash, running, origin, sent_uss, resets>>
  BY DEF BadCommand, QueryCommand, LoadAppBad, Fail, LoadFlashEmpty, history
<1>2. /\ state' \in {"FAIL", "HALT"} \/ state' = state
      /\ state' # "APP"
  BY DEF BadCommand, QueryCommand, LoadAppBad, Fail, LoadFlashEmpty
<1>3. TypeOK'
  BY <1>1, <1>2 DEF IInv, TypeOK, State, FwState
<1>4. (RequestInv /\ PlanInv)'
  BY <1>1, <1>2 DEF IInv, RequestInv, PlanInv, Serving
<1>5. (RegisteredInv /\ RamInv)'
  BY <1>1, <1>2 DEF IInv, RegisteredInv, RamInv
<1> QED BY <1>2, <1>3, <1>4, <1>5, NotRunning DEF IInv

\* LOAD_APP preserves the invariant.
LEMMA LoadAppInv ==
  ASSUME IInv, NEW size \in Nat, NEW use_uss \in BOOLEAN,
         NEW uss \in Uss \cup {Zero}, use_uss => uss \in Uss,
         LoadApp(size, use_uss, uss)
  PROVE  IInv'
<1>1. /\ SizeOk(size)
      /\ state = "WAITCOMMAND"
      /\ state' = "LOADING"
      /\ app_size' = size
      /\ UNCHANGED <<resetinfo, current_app_digest, ram, cdi, uds_rd, flash,
                     running, origin, resets>>
      /\ sent_uss' = IF use_uss THEN uss ELSE Zero
  BY DEF LoadApp
<1>2. size \in 1 .. TK1_APP_MAX_SIZE
  BY <1>1, SizeAssumption DEF SizeAssumption, SizeOk
<1>3. ctx \in Context
  BY DEF IInv, TypeOK
<1> DEFINE u == IF use_uss THEN uss ELSE ctx.uss
<1>4. /\ ctx' = [ctx EXCEPT !.use_uss = use_uss, !.uss = u, !.left = size]
      /\ u \in Uss \cup {Zero}
  BY <1>3 DEF LoadApp, Context
<1>5. ctx' \in Context
  <2>1. size \in 0 .. TK1_APP_MAX_SIZE
    BY <1>2
  <2> HIDE DEF u
  <2> QED BY <1>3, <1>4, <2>1 DEF Context
<1>6. /\ ctx'.use_uss = use_uss
      /\ ctx'.uss = IF use_uss THEN uss ELSE ctx.uss
      /\ ctx'.left = size
      /\ ctx'.loadaddr = ctx.loadaddr
      /\ ctx'.ver_digest = ctx.ver_digest
  BY <1>3, <1>4 DEF Context
<1> HIDE <1>4
<1>7. TypeOK'
  BY <1>1, <1>2, <1>5, SizeAssumption
     DEF SizeAssumption, IInv, TypeOK, State, FwState
<1>8. (RequestInv /\ PlanInv)'
  BY <1>1, <1>6 DEF IInv, RequestInv, PlanInv, Serving
<1>9. RegisteredInv'
  BY <1>1 DEF IInv, RegisteredInv
<1>10. RamInv'
  BY <1>1, <1>2, <1>6, SizeAssumption
     DEF SizeAssumption, IInv, RamInv, PlanInv, Ram
<1> QED BY <1>1, <1>7, <1>8, <1>9, <1>10, NotRunning DEF IInv

\* A frame of app data goes where loadaddr points, inside the app RAM, and the
\* bytes are counted exactly (loading_commands).
LEMMA LoadedFrame ==
  ASSUME IInv, state = "LOADING", NEW data \in Frames
  PROVE  /\ nbytes \in 1 .. FRAME_DATA
         /\ nbytes <= ctx.left
         /\ ctx.loadaddr + nbytes \in 1 .. app_size
         /\ Loaded(data) \in [Ram -> Byte \cup {Scrambled, Residue}]
         /\ \A i \in Ram : IF i < ctx.loadaddr + nbytes
                           THEN Loaded(data)[i] \in Byte
                           ELSE Loaded(data)[i] = Scrambled
<1>1. /\ ctx.left \in 1 .. TK1_APP_MAX_SIZE
      /\ ctx.loadaddr \in 0 .. TK1_APP_MAX_SIZE
      /\ ctx.loadaddr + ctx.left = app_size
      /\ app_size \in 0 .. TK1_APP_MAX_SIZE
      /\ ram \in [Ram -> Byte \cup {Scrambled, Residue}]
      /\ \A i \in Ram : IF i < ctx.loadaddr THEN ram[i] \in Byte
                        ELSE ram[i] = Scrambled
  BY DEF IInv, TypeOK, Context, RamInv
<1>2. /\ nbytes \in 1 .. FRAME_DATA
      /\ nbytes <= ctx.left
  BY <1>1, SizeAssumption DEF SizeAssumption, nbytes
<1>3. ctx.loadaddr + nbytes \in 1 .. app_size
  BY <1>1, <1>2, SizeAssumption DEF SizeAssumption
<1>4. \A j \in 0 .. FRAME_DATA - 1 : data[j] \in Byte
  BY InputAssumption DEF InputAssumption
<1>5. ASSUME NEW i \in Ram
      PROVE  IF i < ctx.loadaddr + nbytes THEN Loaded(data)[i] \in Byte
             ELSE Loaded(data)[i] = Scrambled
  <2>1. i \in Nat
    BY DEF Ram
  <2>2. CASE i \in ctx.loadaddr .. ctx.loadaddr + nbytes - 1
    <3>1. i - ctx.loadaddr \in 0 .. FRAME_DATA - 1
      BY <1>1, <1>2, <2>1, <2>2, SizeAssumption DEF SizeAssumption
    <3>2. Loaded(data)[i] = data[i - ctx.loadaddr]
      BY <2>2 DEF Loaded
    <3> QED BY <1>1, <1>2, <1>4, <2>1, <2>2, <3>1, <3>2
  <2>3. CASE i \notin ctx.loadaddr .. ctx.loadaddr + nbytes - 1
    <3>1. Loaded(data)[i] = ram[i]
      BY <2>3 DEF Loaded
    <3>2. i < ctx.loadaddr \/ ~(i < ctx.loadaddr + nbytes)
      BY <1>1, <1>2, <2>1, <2>3
    <3>3. i < ctx.loadaddr => i < ctx.loadaddr + nbytes
      BY <1>1, <1>2, <2>1
    <3> QED BY <1>1, <3>1, <3>2, <3>3
  <2> QED BY <2>2, <2>3
<1>6. Loaded(data) \in [Ram -> Byte \cup {Scrambled, Residue}]
  BY <1>5 DEF Loaded
<1> QED BY <1>2, <1>3, <1>5, <1>6

\* LOAD_APP_DATA before the last frame preserves the invariant.
LEMMA LoadAppDataInv ==
  ASSUME IInv, NEW data \in Frames, LoadAppData(data)
  PROVE  IInv'
<1>1. /\ state = "LOADING"
      /\ ctx.left - nbytes # 0
      /\ ram' = Loaded(data)
      /\ ctx' = [ctx EXCEPT !.loadaddr = ctx.loadaddr + nbytes,
                           !.left = ctx.left - nbytes]
      /\ UNCHANGED <<state, resetinfo, current_app_digest, app_size, cdi,
                     uds_rd, flash, running, origin, sent_uss, resets>>
  BY DEF LoadAppData, history
<1>2. /\ ctx \in Context
      /\ app_size \in 0 .. TK1_APP_MAX_SIZE
      /\ ctx.left + ctx.loadaddr = app_size
  BY <1>1 DEF IInv, TypeOK, RamInv, Context
<1>3. /\ ctx.loadaddr + nbytes \in 0 .. TK1_APP_MAX_SIZE
      /\ ctx.left - nbytes \in 1 .. TK1_APP_MAX_SIZE
  BY <1>1, <1>2, LoadedFrame, SizeAssumption DEF SizeAssumption, Context
<1>4. /\ ctx' \in Context
      /\ ctx'.loadaddr = ctx.loadaddr + nbytes
      /\ ctx'.left = ctx.left - nbytes
      /\ ctx'.use_uss = ctx.use_uss
      /\ ctx'.uss = ctx.uss
      /\ ctx'.ver_digest = ctx.ver_digest
  <2>1. ctx.left - nbytes \in 0 .. TK1_APP_MAX_SIZE
    BY <1>3
  <2> QED BY <1>1, <1>2, <1>3, <2>1 DEF Context
<1>5. TypeOK'
  BY <1>1, <1>4, LoadedFrame DEF IInv, TypeOK
<1>6. (RequestInv /\ PlanInv)'
  BY <1>1, <1>4 DEF IInv, RequestInv, PlanInv, Serving
<1>7. RegisteredInv'
  BY <1>1 DEF IInv, RegisteredInv
<1>8. ctx'.loadaddr + ctx'.left = app_size'
  BY <1>1, <1>2, <1>4, LoadedFrame DEF Context
<1>9. RamInv'
  BY <1>1, <1>3, <1>4, <1>8, LoadedFrame DEF RamInv
<1> QED BY <1>1, <1>5, <1>6, <1>7, <1>9, NotRunning DEF IInv

\* The last LOAD_APP_DATA preserves the invariant.
LEMMA LoadAppDataReadyInv ==
  ASSUME IInv, NEW data \in Frames, LoadAppDataReady(data)
  PROVE  IInv'
<1>1. /\ state = "LOADING"
      /\ state' = "START"
      /\ ctx.left - nbytes = 0
      /\ ram' = Loaded(data)
      /\ ctx' = [ctx EXCEPT !.loadaddr = ctx.loadaddr + nbytes, !.left = 0,
                           !.digest = LoadedDigest(data)]
      /\ UNCHANGED <<resetinfo, current_app_digest, app_size, cdi, uds_rd,
                     flash, running, origin, sent_uss, resets>>
  BY DEF LoadAppDataReady, history
<1>2. /\ ctx \in Context
      /\ app_size \in 0 .. TK1_APP_MAX_SIZE
      /\ ctx.left + ctx.loadaddr = app_size
  BY <1>1 DEF IInv, TypeOK, RamInv, Context
<1>3. /\ ctx.loadaddr + nbytes = app_size
      /\ app_size \in 1 .. TK1_APP_MAX_SIZE
  BY <1>1, <1>2, LoadedFrame, SizeAssumption DEF SizeAssumption, Context
<1>4. \A i \in Ram : IF i < app_size THEN ram'[i] \in Byte
                     ELSE ram'[i] = Scrambled
  BY <1>1, <1>3, LoadedFrame
<1>5. LoadedDigest(data) = compute_app_digest(ram', app_size)
  BY <1>1 DEF LoadedDigest
<1>6. LoadedDigest(data) \in Digest
  BY <1>3, <1>4, <1>5, DigestOfBytes DEF Digest
<1>7. /\ ctx' \in Context
      /\ ctx'.digest = compute_app_digest(ram', app_size')
      /\ ctx'.use_uss = ctx.use_uss
      /\ ctx'.uss = ctx.uss
      /\ ctx'.ver_digest = ctx.ver_digest
  <2>1. app_size \in 0 .. TK1_APP_MAX_SIZE /\ 0 \in 0 .. TK1_APP_MAX_SIZE
    BY <1>3, SizeAssumption DEF SizeAssumption
  <2> QED BY <1>1, <1>2, <1>3, <1>5, <1>6, <2>1 DEF Context
<1>8. TypeOK'
  BY <1>1, <1>7, LoadedFrame DEF IInv, TypeOK, State, FwState
<1>9. (RequestInv /\ PlanInv)'
  BY <1>1, <1>7 DEF IInv, RequestInv, PlanInv, Serving
<1>10. RegisteredInv'
  BY <1>1 DEF IInv, RegisteredInv
<1>11. RamInv'
  BY <1>1, <1>3, <1>4, <1>7 DEF RamInv
<1> QED BY <1>1, <1>8, <1>9, <1>10, <1>11, NotRunning DEF IInv

\* load_flash_app, with or without mgmt_app_init, preserves the invariant.
LEMMA LoadFlashInv == IInv /\ LoadFlash => IInv'
<1> SUFFICES ASSUME IInv, LoadFlash PROVE IInv'
  OBVIOUS
<1> DEFINE d == compute_app_digest(ram', Slot.size)
<1>1. /\ state \in {"LOAD_FLASH", "LOAD_FLASH_MGMT"}
      /\ state' = "START"
      /\ Slot.size # 0
      /\ app_size' = Slot.size
      /\ ram' = [i \in Ram |-> IF i < Slot.size THEN Slot.data[i] ELSE ram[i]]
      /\ ctx' = [ctx EXCEPT !.digest = d]
      /\ current_app_digest' = mgmt_app_init(d)
      /\ UNCHANGED <<resetinfo, cdi, uds_rd, flash, running, origin, sent_uss,
                     resets>>
  BY DEF LoadFlash, history
<1>2. ctx \in Context /\ Slot \in FlashApp
  BY DEF IInv, TypeOK, Context, Slot
<1>3. /\ Slot.size \in 1 .. TK1_APP_MAX_SIZE
      /\ \A i \in Ram : Slot.data[i] \in Byte
  BY <1>1, <1>2 DEF FlashApp
<1>4. \A i \in Ram : ram[i] = Scrambled
  BY <1>1 DEF IInv, RamInv
<1>5. \A i \in Ram : IF i < Slot.size THEN ram'[i] \in Byte
                     ELSE ram'[i] = Scrambled
  BY <1>1, <1>3, <1>4
<1>6. ram' \in [Ram -> Byte \cup {Scrambled, Residue}]
  BY <1>1, <1>3, <1>4
<1>7. d \in Digest
  BY <1>3, <1>5, DigestOfBytes DEF Digest
<1>8. d = compute_app_digest(ram', app_size')
  BY <1>1
<1> HIDE DEF d
<1>9. /\ ctx' \in Context
      /\ ctx'.digest = d
      /\ ctx'.use_uss = ctx.use_uss
      /\ ctx'.uss = ctx.uss
      /\ ctx'.ver_digest = ctx.ver_digest
  BY <1>1, <1>2, <1>7 DEF Context
<1>10. /\ current_app_digest' \in Digest
       /\ \/ current_app_digest' = Zero
          \/ origin.type \in MgmtTypes /\ current_app_digest' = d
  BY <1>1, <1>7 DEF mgmt_app_init, IInv, TypeOK, RegisteredInv, PlanInv
<1>11. TypeOK'
  <2>1. app_size' \in 0 .. TK1_APP_MAX_SIZE
    BY <1>1, <1>3
  <2> QED BY <1>1, <1>6, <1>9, <1>10, <2>1 DEF IInv, TypeOK, State, FwState
<1>12. (RequestInv /\ PlanInv)'
  BY <1>1, <1>9 DEF IInv, RequestInv, PlanInv, Serving
<1>13. RegisteredInv'
  BY <1>1, <1>9, <1>10 DEF RegisteredInv
<1>14. RamInv'
  BY <1>1, <1>3, <1>5, <1>8, <1>9 DEF RamInv
<1> QED BY <1>1, <1>11, <1>12, <1>13, <1>14, NotRunning DEF IInv

\* An app that fails verification preserves the invariant.
LEMMA StartFailInv == IInv /\ StartFail => IInv'
<1> SUFFICES ASSUME IInv, StartFail PROVE IInv'
  OBVIOUS
<1>1. /\ state' = "FAIL"
      /\ uds_rd' = TRUE
      /\ resetinfo' = Forget(resetinfo.app_digest)
      /\ UNCHANGED <<ctx, current_app_digest, ram, app_size, flash, running,
                     origin, sent_uss, resets>>
  BY DEF StartFail, SetCdi, history
<1>2. TypeOK'
  BY <1>1 DEF IInv, TypeOK, State, FwState, Forget, Resetinfo, ResetType,
              START_DEFAULT
<1>3. (RequestInv /\ PlanInv /\ RegisteredInv /\ RamInv)'
  BY <1>1 DEF RequestInv, PlanInv, RegisteredInv, RamInv, Serving
<1> QED BY <1>1, <1>2, <1>3, NotRunning DEF IInv

\* Starting a verified app preserves the invariant: here the properties of a
\* running app are established.
LEMMA StartInv == IInv /\ Start => IInv'
<1> SUFFICES ASSUME IInv, Start PROVE IInv'
  OBVIOUS
<1>1. /\ state = "START"
      /\ state' = "APP"
      /\ Verified
      /\ SetCdi
      /\ uds_rd' = TRUE
      /\ resetinfo' = Forget(Zero)
      /\ ctx' = ZeroCtx
      /\ running' = compute_app_digest(ram, app_size)
      /\ UNCHANGED <<current_app_digest, ram, app_size, flash, origin,
                     sent_uss, resets>>
  BY DEF Start, SetCdi
<1>2. /\ resetinfo = origin
      /\ uds_rd = FALSE
      /\ sent_uss = IF ctx.use_uss THEN ctx.uss ELSE Zero
      /\ ctx.use_uss => ctx.uss \in Uss
      /\ ctx.ver_digest = StartFrom(origin.type)[2]
      /\ ctx \in Context
  BY <1>1 DEF IInv, TypeOK, RequestInv, PlanInv, Serving
<1>3. /\ app_size \in 1 .. TK1_APP_MAX_SIZE
      /\ \A i \in Ram : i < app_size => ram[i] \in Byte
      /\ ctx.digest = running'
  BY <1>1 DEF IInv, TypeOK, RamInv
<1>4. running' \in Image
  BY <1>1, <1>3, DigestOfBytes
<1>5. TypeOK'
  BY <1>1, <1>4, ZeroCtxType
     DEF IInv, TypeOK, State, Forget, Resetinfo, ResetType, START_DEFAULT,
         Digest
<1>6. (RequestInv /\ PlanInv /\ RegisteredInv /\ RamInv)'
  BY <1>1 DEF RequestInv, PlanInv, RegisteredInv, RamInv, Serving
<1>7. /\ origin.type \in MgmtTypes => running' = allowed_app_digest
      /\ origin.type \in VerifyingTypes => running' = origin.app_digest
  <2>1. CASE origin.type \in MgmtTypes
    <3>1. StartFrom(origin.type)[2] = "allowed_app_digest"
      BY <2>1 DEF StartFrom, MgmtTypes, START_DEFAULT, START_FLASH0,
         START_FLASH1, START_FLASH0_VER, START_FLASH1_VER, START_CLIENT,
         START_CLIENT_VER
    <3>2. origin.type \notin VerifyingTypes
      BY <2>1 DEF MgmtTypes, VerifyingTypes, START_DEFAULT, START_FLASH0,
         START_FLASH0_VER, START_FLASH1_VER, START_CLIENT_VER
    <3> QED BY <1>1, <1>2, <1>3, <3>1, <3>2 DEF Verified, VerDigest
  <2>2. CASE origin.type \in VerifyingTypes
    <3>1. StartFrom(origin.type)[2] = "resetinfo->app_digest"
      BY <2>2 DEF StartFrom, VerifyingTypes, START_DEFAULT, START_FLASH0,
         START_FLASH1, START_FLASH0_VER, START_FLASH1_VER, START_CLIENT,
         START_CLIENT_VER
    <3>2. origin.type \notin MgmtTypes
      BY <2>2 DEF MgmtTypes, VerifyingTypes, START_DEFAULT, START_FLASH0,
         START_FLASH0_VER, START_FLASH1_VER, START_CLIENT_VER
    <3> QED BY <1>1, <1>2, <1>3, <3>1, <3>2 DEF Verified, VerDigest
  <2> QED BY <2>1, <2>2
<1>8. VerifiedStart'
  BY <1>1, <1>7 DEF VerifiedStart
<1>9. PrivilegeIsVerified'
  BY <1>1, <1>3, <1>7, DistinctAssumption
     DEF DistinctAssumption, IInv, RegisteredInv, PrivilegeIsVerified,
         mgmt_app_authenticate
<1>10. CdiBinding'
  <2>1. cdi' = compute_cdi("UDS", origin.mask_seed,
                           IF origin.mask_seed THEN origin.measured_id
                           ELSE running', ctx.use_uss, ctx.uss)
    BY <1>1, <1>2, <1>3 DEF SetCdi, UdsValue, CdiIdentity
  <2>2. /\ ctx.use_uss = (sent_uss # Zero)
        /\ (IF ctx.use_uss THEN ctx.uss ELSE Zero)
             = (IF sent_uss # Zero THEN sent_uss ELSE Zero)
    BY <1>2, DistinctAssumption DEF DistinctAssumption, Context
  <2> QED BY <1>1, <2>1, <2>2 DEF CdiBinding, compute_cdi
<1>11. RequestUsedOnce'
  BY <1>1, <1>2 DEF RequestUsedOnce, Forget
<1> QED BY <1>5, <1>6, <1>8, <1>9, <1>10, <1>11 DEF IInv

\* What an app does without a reset preserves the invariant.
LEMMA AppInv ==
  ASSUME IInv, AppWritesRam \/ \E app \in FlashApps : PreloadSlot1(app)
  PROVE  IInv'
<1>1. /\ state = "APP"
      /\ UNCHANGED <<state, ctx, resetinfo, current_app_digest, app_size, cdi,
                     uds_rd, reply, running, origin, sent_uss, resets>>
      /\ ram' = ram \/ ram' = [i \in Ram |-> Residue]
      /\ flash' = flash \/ \E app \in FlashApps :
                             flash' = [flash EXCEPT ![1] = app]
  BY DEF AppWritesRam, PreloadSlot1, history
<1>2. /\ ram' \in [Ram -> Byte \cup {Scrambled, Residue}]
      /\ flash' \in [{0, 1} -> FlashApp]
  BY <1>1, InputAssumption DEF InputAssumption, IInv, TypeOK
<1>3. TypeOK'
  BY <1>1, <1>2 DEF IInv, TypeOK
<1>4. (RequestInv /\ PlanInv /\ RegisteredInv /\ RamInv)'
  BY <1>1 DEF RequestInv, PlanInv, RegisteredInv, RamInv, Serving
<1>5. (VerifiedStart /\ PrivilegeIsVerified /\ CdiBinding /\ RequestUsedOnce)'
  BY <1>1 DEF IInv, VerifiedStart, PrivilegeIsVerified, CdiBinding,
     RequestUsedOnce, mgmt_app_authenticate
<1> QED BY <1>3, <1>4, <1>5 DEF IInv

\* A system reset or a power cycle preserves the invariant.
LEMMA ResetInv ==
  ASSUME IInv,
         \/ \E type \in ResetType, seeded \in BOOLEAN, digest \in Digests,
               seed \in Seeds, next \in NextData :
              reset(type, seeded, digest, seed, next)
         \/ PowerCycle
  PROVE  IInv'
<1>1. HardwareReset /\ resetinfo' = origin'
  BY DEF reset, PowerCycle
<1>2. /\ resetinfo'.type \in ResetType
      /\ resetinfo'.mask_seed \in BOOLEAN
      /\ resetinfo'.app_digest \in Digest
  <2>1. CASE PowerCycle
    BY <2>1 DEF PowerCycle, Resetinfo, ZeroResetinfo, ResetType,
       START_DEFAULT, Digest
  <2>2. ASSUME NEW type \in ResetType, NEW seeded \in BOOLEAN,
               NEW digest \in Digests, NEW seed \in Seeds,
               NEW next \in NextData, reset(type, seeded, digest, seed, next)
        PROVE  /\ resetinfo'.type \in ResetType
               /\ resetinfo'.mask_seed \in BOOLEAN
               /\ resetinfo'.app_digest \in Digest
    <3>1. /\ resetinfo'.type = type
          /\ resetinfo'.mask_seed = seeded
          /\ resetinfo'.app_digest = digest
      BY <2>2 DEF reset, Resetinfo
    <3> QED BY <3>1, InputAssumption DEF InputAssumption
  <2> QED BY <2>1, <2>2
<1>3. resets' \in 0 .. MaxResets
  BY <1>1, SizeAssumption DEF SizeAssumption, HardwareReset, IInv, TypeOK
<1>4. TypeOK'
  <2>1. 0 \in 0 .. TK1_APP_MAX_SIZE
    BY SizeAssumption DEF SizeAssumption
  <2> QED BY <1>1, <1>2, <1>3, <2>1
          DEF HardwareReset, IInv, TypeOK, State, Digest
<1>5. (RequestInv /\ PlanInv /\ RegisteredInv /\ RamInv)'
  BY <1>1 DEF HardwareReset, RequestInv, PlanInv, RegisteredInv, RamInv,
              Serving
<1> QED BY <1>1, <1>4, <1>5, NotRunning DEF IInv, HardwareReset

\* Every step preserves the invariant.
LEMMA NextInv == IInv /\ [Next]_vars => IInv'
<1> SUFFICES ASSUME IInv, [Next]_vars PROVE IInv'
  OBVIOUS
<1>1. CASE Firmware
  BY <1>1, StartupInv, StartWhereInv, SimpleCommandInv, LoadFlashInv,
     StartFailInv, StartInv DEF Firmware
<1>2. CASE Client
  <2>1. CASE \E size \in Sizes : LoadApp(size, FALSE, Zero)
    BY <2>1, LoadAppInv, InputAssumption DEF InputAssumption
  <2>2. CASE \E size \in Sizes, uss \in Uss : LoadApp(size, TRUE, uss)
    BY <2>2, LoadAppInv, InputAssumption DEF InputAssumption
  <2>3. CASE \E data \in Frames : LoadAppData(data) \/ LoadAppDataReady(data)
    BY <2>3, LoadAppDataInv, LoadAppDataReadyInv
  <2> QED BY <1>2, <2>1, <2>2, <2>3, SimpleCommandInv DEF Client
<1>3. CASE App
  BY <1>3, AppInv, ResetInv DEF App
<1>4. CASE PowerCycle
  BY <1>4, ResetInv
<1>5. CASE UNCHANGED vars
  <2> USE <1>5 DEF vars, history
  <2>1. TypeOK'
    BY DEF IInv, TypeOK
  <2>2. (RequestInv /\ PlanInv)'
    BY DEF IInv, RequestInv, PlanInv
  <2>3. (RegisteredInv /\ RamInv)'
    BY DEF IInv, RegisteredInv, RamInv
  <2>4. (VerifiedStart /\ PrivilegeIsVerified /\ CdiBinding /\ RequestUsedOnce)'
    BY DEF IInv, VerifiedStart, PrivilegeIsVerified, CdiBinding,
       RequestUsedOnce, mgmt_app_authenticate
  <2> QED BY <2>1, <2>2, <2>3, <2>4 DEF IInv
<1> QED BY <1>1, <1>2, <1>3, <1>4, <1>5 DEF Next

\* IInv is an invariant of the boot.
THEOREM Invariance == Spec => []IInv
<1>1. Init => IInv
  BY InitInv
<1>2. IInv /\ [Next]_vars => IInv'
  BY NextInv
<1> QED BY <1>1, <1>2, PTL DEF Spec

\* Type correctness: in particular no sequence of LOAD_APP_DATA frames runs
\* past the app RAM.
THEOREM TypeCorrect == Spec => []TypeOK
<1>1. IInv => TypeOK
  BY DEF IInv
<1> QED BY <1>1, Invariance, PTL

\* Verified boot, for every chain of apps and every interleaving of resets and
\* power cycles.
THEOREM VerifiedBoot == Spec => []VerifiedStart
<1>1. IInv => VerifiedStart
  BY DEF IInv
<1> QED BY <1>1, Invariance, PTL

\* The management privilege never outlives the boot that verified it.
THEOREM ManagementPrivilege == Spec => []PrivilegeIsVerified
<1>1. IInv => PrivilegeIsVerified
  BY DEF IInv
<1> QED BY <1>1, Invariance, PTL

\* Measured boot: the CDI identifies what runs, or the chain that led to it.
THEOREM MeasuredBoot == Spec => []CdiBinding
<1>1. IInv => CdiBinding
  BY DEF IInv
<1> QED BY <1>1, Invariance, PTL

\* A reset request is served once.
THEOREM ServedOnce == Spec => []RequestUsedOnce
<1>1. IInv => RequestUsedOnce
  BY DEF IInv
<1> QED BY <1>1, Invariance, PTL

\* No RAM contents pass from one app to the next.
THEOREM NoResidue == Spec => CleanRam
<1>1. IInv /\ [Next]_vars =>
        [state = "START" /\ state' = "APP" =>
           /\ running' \in Image
           /\ \A i \in Ram : i >= app_size' => ram'[i] = Scrambled]_vars
  <2> SUFFICES ASSUME IInv, Next, state = "START", state' = "APP"
               PROVE  /\ running' \in Image
                      /\ \A i \in Ram : i >= app_size' => ram'[i] = Scrambled
    OBVIOUS
  <2>1. Start
    BY DEF Next, Firmware, Client, App, Startup, start_where, LoadFlashEmpty,
       LoadFlash, StartFail, Fail, BadCommand, QueryCommand, LoadAppBad,
       LoadApp, LoadAppData, LoadAppDataReady, AppWritesRam, PreloadSlot1,
       reset, PowerCycle, HardwareReset
  <2>2. /\ app_size \in 1 .. TK1_APP_MAX_SIZE
        /\ \A i \in Ram : IF i < app_size THEN ram[i] \in Byte
                          ELSE ram[i] = Scrambled
    BY DEF IInv, TypeOK, RamInv
  <2>3. /\ running' = compute_app_digest(ram, app_size)
        /\ UNCHANGED <<ram, app_size>>
    BY <2>1 DEF Start
  <2>4. \A i \in Ram : i >= app_size => ~(i < app_size)
    BY <2>2 DEF Ram
  <2> QED BY <2>2, <2>3, <2>4, DigestOfBytes
<1> QED BY <1>1, Invariance, PTL DEF Spec, CleanRam
\* The client has seen the final reply of LOAD_APP_DATA only if the app it is
\* about is about to start, has started, or was refused.
ReportInv ==
  reply.rsp = "LOAD_APP_DATA_READY" =>
    /\ state \in {"START", "APP", "FAIL", "HALT"}
    /\ state = "START" => reply.digest = ctx.digest
    /\ state = "APP" => reply.digest = running

LEMMA ReportKept == IInv /\ ReportInv /\ [Next]_vars => ReportInv'
<1> SUFFICES ASSUME IInv, ReportInv, [Next]_vars PROVE ReportInv'
  OBVIOUS
<1> USE DEF ReportInv, Reply
<1>1. CASE Firmware
  <2>1. CASE Startup \/ start_where \/ LoadFlash
    BY <2>1 DEF Startup, start_where, LoadFlash
  <2>2. CASE LoadFlashEmpty \/ StartFail \/ Fail
    BY <2>2 DEF LoadFlashEmpty, StartFail, SetCdi, Fail, history
  <2>3. CASE Start
    <3>1. ctx.digest = compute_app_digest(ram, app_size)
      BY <2>3 DEF Start, IInv, RamInv
    <3> QED BY <2>3, <3>1 DEF Start
  <2> QED BY <1>1, <2>1, <2>2, <2>3 DEF Firmware
<1>2. CASE Client
  <2>1. CASE \E data \in Frames : LoadAppDataReady(data)
    <3>1. PICK data \in Frames : LoadAppDataReady(data)
      BY <2>1
    <3>2. /\ reply' = [rsp |-> "LOAD_APP_DATA_READY", digest |-> LoadedDigest(data)]
          /\ state' = "START" /\ ctx'.digest = LoadedDigest(data)
      BY <3>1 DEF LoadAppDataReady, IInv, TypeOK, Context
    <3> QED BY <3>2
  <2>2. CASE \E data \in Frames : LoadAppData(data)
    BY <2>2 DEF LoadAppData
  <2>3. CASE \/ \E size \in Sizes : LoadAppBad(size) \/ LoadApp(size, FALSE, Zero)
             \/ \E size \in Sizes, uss \in Uss : LoadApp(size, TRUE, uss)
    <3>1. ASSUME NEW size, LoadAppBad(size) PROVE ReportInv'
      BY <3>1 DEF LoadAppBad
    <3>2. ASSUME NEW size, NEW use_uss, NEW uss, LoadApp(size, use_uss, uss) PROVE ReportInv'
      <4>1. reply' = [rsp |-> "LOAD_APP_OK", digest |-> Zero]
        BY <3>2 DEF LoadApp
      <4> QED BY <4>1
    <3> QED BY <2>3, <3>1, <3>2
  <2>4. CASE \E rsp \in {"NAME_VERSION", "GET_UDI"} : QueryCommand(rsp)
    BY <2>4 DEF QueryCommand
  <2>5. CASE \E cmd, len : BadCommand(cmd, len)
    BY <2>5 DEF BadCommand
  <2> QED BY <1>2, <2>1, <2>2, <2>3, <2>4, <2>5 DEF Client
<1>3. CASE App \/ PowerCycle
  BY <1>3 DEF App, AppWritesRam, PreloadSlot1, reset, PowerCycle, HardwareReset, history
<1>4. CASE UNCHANGED vars
  BY <1>4 DEF vars, history
<1> QED BY <1>1, <1>2, <1>3, <1>4 DEF Next

\* The client is told the digest of the app that is started.
THEOREM ReportIsTrue == Spec => []ReportedAppRuns
<1>1. Init => ReportInv
  BY DEF Init, ReportInv, Reply
<1>2. ReportInv => ReportedAppRuns
  BY DEF ReportInv, ReportedAppRuns
<1> QED BY <1>1, <1>2, ReportKept, Invariance, PTL DEF Spec
=============================================================================
