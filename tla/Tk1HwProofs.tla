---------------------------- MODULE Tk1HwProofs ----------------------------
(***************************************************************************)
(* Privilege separation of Tk1Hw for every choice of addresses, values and *)
(* followed words.                                                         *)
(***************************************************************************)
EXTENDS Tk1Hw, TLAPS

\* A word that is held has an origin; a fetch does not write.
BusInv ==
  /\ held.origin = "none" => held = NoWord
  /\ mem.instr => ~mem.we

\* Whatever comes from above the ROM has lowered the privilege on its way, and
\* while a system call is served nothing comes from there.
PrivilegeInv ==
  /\ exec # "rom" => fw_startup_done
  /\ held.origin \in {"ram", "mmio"} => fw_startup_done
  /\ (mem.valid /\ mem.instr /\ muxed_ready /\ mem.addr > FW_ROM_LAST) => fw_startup_done
  /\ (mem.valid /\ mem.instr /\ ~fw_startup_done) => ~Secret(mem.addr)
  /\ eoi => /\ exec = "rom"
            /\ held.origin \in {"none", "rom"}
            /\ (mem.valid /\ mem.instr) => mem.addr <= FW_ROM_LAST

\* When a memory is ready to answer a forbidden fetch the monitor has struck.
MonitorInv ==
  (mem.valid /\ mem.instr /\ core_ready /\ security_monitor) => force_trap

HWInv ==
  /\ HWTypeOK /\ BusInv /\ PrivilegeInv /\ MonitorInv
  /\ NoForbiddenFetch /\ SecretsStayInside

-----------------------------------------------------------------------------
(***************************************************************************)
(* The memory map                                                          *)
(***************************************************************************)

LEMMA AddrsAreNat == Addrs \subseteq Nat
BY AddrsAssumption DEF AddrsAssumption

\* The words of the ROM, the one after it included, and the start of the app are
\* neither secrets nor registers.
LEMMA CodeIsNoSecret ==
  ASSUME NEW a \in Nat, a <= FW_ROM_LAST + 1 \/ a = RAM_FIRST
  PROVE  ~Secret(a)
<1>1. CASE a <= FW_ROM_LAST + 1
  <2>1. area_prefix(a) = 0
    BY <1>1 DEF FW_ROM_LAST, area_prefix
  <2>2. Core(a) = "rom"
    BY <2>1 DEF Core, ROM_PREFIX, RAM_PREFIX, MMIO_PREFIX
  <2> QED BY <2>2 DEF Secret
<1>2. CASE a = RAM_FIRST
  <2>1. area_prefix(a) = 1
    BY <1>2 DEF RAM_FIRST, area_prefix
  <2>2. Core(a) = "ram"
    BY <2>1 DEF Core, ROM_PREFIX, RAM_PREFIX, MMIO_PREFIX
  <2> QED BY <2>2 DEF Secret
<1> QED BY <1>1, <1>2

LEMMA ResetVector ==
  PROGADDR_RESET \in Nat /\ PROGADDR_RESET <= FW_ROM_LAST /\ ~Secret(PROGADDR_RESET)
BY CodeIsNoSecret DEF PROGADDR_RESET, FW_ROM_LAST

LEMMA OriginIsOrigin == \A a : OriginOf(a) \in Origin
BY DEF OriginOf, Origin

\* What comes from anywhere but ROM was fetched from above it.
LEMMA OriginAboveRom ==
  \A a \in Nat : OriginOf(a) # "rom" <=> a > FW_ROM_LAST
BY DEF OriginOf, FW_ROM_LAST

LEMMA UdsWord ==
  ASSUME NEW a \in Nat, Core(a) = "uds"
  PROVE  Cell(a)[2] \in 0 .. 7
<1>1. Cell(a)[2] = Offset(a) % 8
  <2>1. Size["uds"] = 8
    BY DEF Size
  <2>2. Cell(a)[2] = Offset(a) % Size["uds"]
    BY DEF Cell
  <2> QED BY <2>1, <2>2
<1>2. Offset(a) \in Nat
  <2>1. CASE area_prefix(a) = MMIO_PREFIX
    <3>1. Offset(a) = a % 4194304
      BY <2>1 DEF Offset
    <3> QED BY <3>1
  <2>2. CASE area_prefix(a) # MMIO_PREFIX
    <3>1. Offset(a) = a % 268435456
      BY <2>2 DEF Offset
    <3> QED BY <3>1
  <2> QED BY <2>1, <2>2
<1> QED BY <1>1, <1>2

-----------------------------------------------------------------------------
(***************************************************************************)
(* The clock edge                                                          *)
(***************************************************************************)

\* The registers outside of the CPU keep their types.
LEMMA EdgeTypes ==
  ASSUME HWTypeOK, HwEdge
  PROVE  /\ muxed_ready' \in BOOLEAN /\ muxed_real' \in BOOLEAN
         /\ core_ready' \in BOOLEAN /\ fw_startup_done' \in BOOLEAN
         /\ force_trap' \in BOOLEAN /\ cpu_mon_en' \in BOOLEAN
         /\ system_reset' \in BOOLEAN
         /\ uds_rd' \subseteq 0 .. 7
         /\ word' \in [Cells -> Words]
<1>1. mem.addr \in Nat
  <2>1. mem.addr \in Addrs
    BY DEF HWTypeOK
  <2> QED BY <2>1, AddrsAreNat
<1>2. uds_rd' \subseteq 0 .. 7
  <2>1. Selected /\ UdsRead(mem.addr) => Cell(mem.addr)[2] \in 0 .. 7
    BY <1>1, UdsWord DEF UdsRead
  <2> QED BY <2>1 DEF HwEdge, HWTypeOK
<1>3. word' \in [Cells -> Words]
  BY DEF HwEdge, HWTypeOK
<1> QED BY <1>2, <1>3 DEF HwEdge, HWTypeOK, muxed_ready_new, Selected

\* Off the bus, or in the cycle of the answer, no core is selected: nothing is
\* ready afterwards and nothing is written.
LEMMA EdgeQuiet ==
  ASSUME HwEdge, ~mem.valid \/ muxed_ready
  PROVE  /\ ~muxed_ready' /\ ~muxed_real' /\ ~core_ready'
         /\ fw_startup_done => fw_startup_done'
         /\ UNCHANGED uds_rd
BY DEF HwEdge, muxed_ready_new, Selected

-----------------------------------------------------------------------------
LEMMA InitInv == Init => HWInv
<1> SUFFICES ASSUME Init PROVE HWInv
  OBVIOUS
<1>1. HWTypeOK
  BY AddrsAssumption, WordsAssumption
  DEF AddrsAssumption, WordsAssumption, Init, HWTypeOK, Fetch, Request, NoWord, Origin
<1>2. BusInv /\ PrivilegeInv /\ MonitorInv /\ NoForbiddenFetch /\ SecretsStayInside
  <2>1. ~Secret(PROGADDR_RESET) /\ PROGADDR_RESET <= FW_ROM_LAST
    BY ResetVector
  <2>2. Secret(mem.addr) <=> Secret(PROGADDR_RESET)
    BY DEF Init, Fetch, Request
  <2> QED
    BY <2>1, <2>2 DEF Init, BusInv, PrivilegeInv, MonitorInv, NoForbiddenFetch,
                      SecretsStayInside, Fetch, Request, NoWord
<1> QED BY <1>1, <1>2 DEF HWInv

\* Every step keeps the types of the CPU's registers and the shape of the bus.
LEMMA TypeStep ==
  ASSUME HWTypeOK, BusInv, [Next]_vars
  PROVE  HWTypeOK' /\ BusInv'
<1> USE AddrsAssumption, WordsAssumption DEF AddrsAssumption, WordsAssumption
<1>1. CASE WaitCycle
  BY <1>1, EdgeTypes DEF WaitCycle, cpuvars, HWTypeOK, BusInv, Irq31, Writes, Selected, NoWord
<1>2. CASE TakeData
  BY <1>2, EdgeTypes DEF TakeData, Answered, HWTypeOK, BusInv, Idle, Request, NoWord
<1>3. CASE TakeInstr
  <2>1. OriginOf(mem.addr) \in Origin
    BY OriginIsOrigin
  <2> QED
    BY <1>3, <2>1, EdgeTypes
    DEF TakeInstr, Answered, HWTypeOK, BusInv, Idle, Request, NoWord, Origin
<1>4. CASE TakeFirstHalf
  BY <1>4, EdgeTypes DEF TakeFirstHalf, Answered, HWTypeOK, BusInv, FetchSecond, Request, NoWord
<1>5. ASSUME NEW a \in Addrs, FetchNext(a) PROVE HWTypeOK' /\ BusInv'
  BY <1>5, EdgeTypes DEF FetchNext, OffBus, HWTypeOK, BusInv, Fetch, Request, NoWord
<1>6. ASSUME NEW a \in Addrs, RetIrq(a) PROVE HWTypeOK' /\ BusInv'
  BY <1>6, EdgeTypes DEF RetIrq, OffBus, HWTypeOK, BusInv, Fetch, Request, NoWord
<1>7. ASSUME NEW a \in Addrs, NEW we \in BOOLEAN, NEW w \in Words, LoadStore(a, we, w)
      PROVE HWTypeOK' /\ BusInv'
  BY <1>7, EdgeTypes DEF LoadStore, OffBus, HWTypeOK, BusInv, Access, Request, NoWord
<1>8. ASSUME NEW m \in BOOLEAN, MaskIrq(m) PROVE HWTypeOK' /\ BusInv'
  BY <1>8, EdgeTypes DEF MaskIrq, OffBus, HWTypeOK, BusInv, NoWord
<1>9. CASE Branch
  BY <1>9, EdgeTypes DEF Branch, OffBus, HWTypeOK, BusInv, NoWord
<1>10. CASE Execute \/ WaitIrq
  <2>1. held.origin \in Origin
    BY <1>10 DEF Execute, WaitIrq, HWTypeOK, BusInv
  <2>2. CASE Execute
    BY <2>1, <2>2, EdgeTypes DEF Execute, OffBus, HWTypeOK, BusInv, NoWord
  <2>3. CASE WaitIrq
    BY <2>1, <2>3, EdgeTypes DEF WaitIrq, OffBus, HWTypeOK, BusInv, NoWord
  <2> QED BY <1>10, <2>2, <2>3
<1>11. CASE IllegalInstr
  BY <1>11, EdgeTypes DEF IllegalInstr, OffBus, HWTypeOK, BusInv, NoWord
<1>12. CASE TakeIrq
  BY <1>12, EdgeTypes DEF TakeIrq, HWTypeOK, BusInv, Fetch, Request, NoWord, Origin
<1>13. CASE Reset \/ PowerCycle
  <2>1. word' \in [Cells -> Words]
    BY <1>13 DEF Reset, PowerCycle, HWTypeOK
  <2>2. Cleared
    BY <1>13 DEF Reset, PowerCycle
  <2> QED BY <2>1, <2>2 DEF Cleared, HWTypeOK, BusInv, Fetch, Request, NoWord, Origin
<1>14. CASE UNCHANGED vars
  BY <1>14 DEF vars, cpuvars, hwvars, HWTypeOK, BusInv, NoWord
<1> QED
  BY <1>1, <1>2, <1>3, <1>4, <1>5, <1>6, <1>7, <1>8, <1>9, <1>10, <1>11, <1>12, <1>13, <1>14
  DEF Next, Clock

-----------------------------------------------------------------------------
(***************************************************************************)
(* Privilege                                                               *)
(***************************************************************************)

\* The privilege is never raised again by a clock edge, and the edge at which a
\* fetch from above the ROM is answered has lowered it.
LEMMA EdgeLowers ==
  ASSUME HwEdge
  PROVE  /\ fw_startup_done => fw_startup_done'
         /\ (mem.valid /\ mem.instr /\ mem.addr > FW_ROM_LAST) => fw_startup_done'
BY DEF HwEdge, fw_startup_done_ctrl

LEMMA PrivilegeStep ==
  ASSUME HWTypeOK, BusInv, PrivilegeInv, [Next]_vars
  PROVE  PrivilegeInv'
<1> USE DEF PrivilegeInv
<1>0. mem.addr \in Nat /\ Addrs \subseteq Nat
  BY AddrsAreNat DEF HWTypeOK
<1>1. CASE WaitCycle
  BY <1>1, EdgeLowers DEF WaitCycle, cpuvars, Secret
<1>2. CASE TakeData
  BY <1>2, EdgeLowers DEF TakeData, Answered, Idle, Request
<1>3. CASE TakeInstr
  <2>1. held' = [origin |-> OriginOf(mem.addr), real |-> muxed_real] /\ mem' = Idle
    BY <1>3 DEF TakeInstr
  <2>2. OriginOf(mem.addr) # "rom" => mem.addr > FW_ROM_LAST
    BY <1>0, OriginAboveRom
  <2>3. OriginOf(mem.addr) # "none"
    BY OriginIsOrigin DEF Origin
  <2>4. OriginOf(mem.addr) # "rom" => fw_startup_done'
    BY <1>3, <2>2, EdgeLowers DEF TakeInstr, Answered
  <2>5. eoi => OriginOf(mem.addr) = "rom"
    BY <1>0, <1>3, OriginAboveRom DEF TakeInstr, Answered, FW_ROM_LAST
  <2> QED
    BY <1>3, <2>1, <2>3, <2>4, <2>5, EdgeLowers DEF TakeInstr, Answered, Idle, Request
<1>4. CASE TakeFirstHalf
  <2>1. mem' = FetchSecond(mem.addr + 1) /\ ~muxed_ready'
    BY <1>4, EdgeQuiet DEF TakeFirstHalf, Answered
  <2>2. ~fw_startup_done' => ~Secret(mem.addr + 1)
    <3>1. ~fw_startup_done' => mem.addr <= FW_ROM_LAST
      BY <1>0, <1>4, EdgeLowers DEF TakeFirstHalf, Answered, FW_ROM_LAST
    <3>2. mem.addr <= FW_ROM_LAST => mem.addr + 1 <= FW_ROM_LAST + 1 /\ mem.addr + 1 \in Nat
      BY <1>0 DEF FW_ROM_LAST
    <3> QED BY <3>1, <3>2, CodeIsNoSecret
  <2>3. eoi => mem.addr + 1 <= FW_ROM_LAST
    BY <1>4 DEF TakeFirstHalf
  <2>4. Secret(mem.addr)' <=> Secret(mem.addr + 1)
    BY <2>1 DEF FetchSecond, Request, Secret
  <2> QED
    BY <1>4, <2>1, <2>2, <2>3, <2>4, EdgeLowers
    DEF TakeFirstHalf, Answered, FetchSecond, Request
<1>5. ASSUME NEW a \in Addrs, FetchNext(a) PROVE PrivilegeInv'
  <2>1. mem' = Fetch(a) /\ ~muxed_ready'
    BY <1>5, EdgeQuiet DEF FetchNext, Free, OffBus
  <2>2. ~fw_startup_done' => ~Secret(a)
    <3>1. ~fw_startup_done' => exec = "rom"
      BY <1>5, EdgeLowers DEF FetchNext, OffBus
    <3>2. exec = "rom" => a <= FW_ROM_LAST + 1 \/ a = RAM_FIRST
      BY <1>0, <1>5 DEF FetchNext, MayFetch, FW_ROM_LAST
    <3>3. a \in Nat
      BY <1>0
    <3> QED BY <3>1, <3>2, <3>3, CodeIsNoSecret
  <2>3. eoi => a <= FW_ROM_LAST
    BY <1>5 DEF FetchNext, MayFetch
  <2>4. Secret(mem.addr)' <=> Secret(a)
    BY <2>1 DEF Fetch, Request, Secret
  <2> QED BY <1>5, <2>1, <2>2, <2>3, <2>4, EdgeLowers DEF FetchNext, OffBus, Fetch, Request
<1>6. ASSUME NEW a \in Addrs, RetIrq(a) PROVE PrivilegeInv'
  <2>1. mem' = Fetch(a) /\ ~muxed_ready'
    BY <1>6, EdgeQuiet DEF RetIrq, Free, OffBus
  <2>2. ~Secret(a)
    BY <1>6 DEF RetIrq, OriginOf, Secret
  <2>3. Secret(mem.addr)' <=> Secret(a)
    BY <2>1 DEF Fetch, Request, Secret
  <2> QED BY <1>6, <2>1, <2>2, <2>3, EdgeLowers DEF RetIrq, OffBus, Fetch, Request
<1>7. ASSUME NEW a \in Addrs, NEW we \in BOOLEAN, NEW w \in Words, LoadStore(a, we, w)
      PROVE PrivilegeInv'
  BY <1>7, EdgeLowers DEF LoadStore, OffBus, Access, Request
<1>8. ASSUME NEW m \in BOOLEAN, MaskIrq(m) PROVE PrivilegeInv'
  BY <1>8, EdgeLowers DEF MaskIrq, OffBus, Free
<1>9. CASE Branch
  BY <1>9, EdgeLowers DEF Branch, OffBus, Free, NoWord
<1>10. CASE Execute \/ WaitIrq
  <2>1. held.origin \in Origin
    BY <1>10 DEF Execute, WaitIrq, HWTypeOK, BusInv, Origin
  <2> QED BY <1>10, <2>1, EdgeLowers DEF Execute, WaitIrq, OffBus, Free, NoWord, Origin
<1>11. CASE IllegalInstr
  BY <1>11, EdgeLowers DEF IllegalInstr, OffBus, Free
<1>12. CASE TakeIrq
  <2>1. mem' = Fetch(PROGADDR_IRQ) /\ ~muxed_ready'
    BY <1>12, EdgeQuiet DEF TakeIrq, Free
  <2>2. PROGADDR_IRQ \in Nat /\ PROGADDR_IRQ <= FW_ROM_LAST /\ ~Secret(PROGADDR_IRQ)
    BY CodeIsNoSecret DEF PROGADDR_IRQ, FW_ROM_LAST
  <2>3. Secret(mem.addr)' <=> Secret(PROGADDR_IRQ)
    BY <2>1 DEF Fetch, Request, Secret
  <2> QED BY <1>12, <2>1, <2>2, <2>3, EdgeLowers DEF TakeIrq, Fetch, Request, NoWord
<1>13. CASE Reset \/ PowerCycle
  <2>1. mem' = Fetch(PROGADDR_RESET)
    BY <1>13 DEF Reset, PowerCycle, Cleared
  <2>2. Secret(mem.addr)' <=> Secret(PROGADDR_RESET)
    BY <2>1 DEF Fetch, Request, Secret
  <2> QED BY <1>13, <2>2, ResetVector DEF Reset, PowerCycle, Cleared, Fetch, Request, NoWord
<1>14. CASE UNCHANGED vars
  BY <1>14 DEF vars, cpuvars, hwvars, Secret
<1> QED
  BY <1>1, <1>2, <1>3, <1>4, <1>5, <1>6, <1>7, <1>8, <1>9, <1>10, <1>11, <1>12, <1>13, <1>14
  DEF Next, Clock

-----------------------------------------------------------------------------
(***************************************************************************)
(* The monitor and the secrets                                             *)
(***************************************************************************)

\* While the CPU waits for an instruction a permitted fetch does not become a
\* forbidden one: the closed area and the ROM do not change under it.
LEMMA VerdictStands ==
  ASSUME HWTypeOK, BusInv, WaitCycle, mem.instr, security_monitor'
  PROVE  security_monitor
<1>1. UNCHANGED <<mem, eoi>>
  BY DEF WaitCycle, cpuvars
<1>2. ~mem.we
  BY DEF BusInv
<1>3. cpu_mon_en' = cpu_mon_en /\ word' = word
  BY <1>2 DEF WaitCycle, HwEdge, Tk1Write, Writes, HWTypeOK
<1>4. mem.addr <= FW_ROM_LAST => fw_startup_done' = fw_startup_done
  <2>1. mem.addr \in Nat
    BY AddrsAreNat DEF HWTypeOK
  <2> QED BY <2>1 DEF WaitCycle, HwEdge, fw_startup_done_ctrl, FW_ROM_LAST, HWTypeOK
<1> QED
  BY <1>1, <1>3, <1>4 DEF security_monitor, app_mode, InGuard, OutOfBounds

\* The other steps leave nothing ready for the bus.
LEMMA QuietStep ==
  ASSUME [Next]_vars, ~WaitCycle, ~UNCHANGED vars
  PROVE  ~muxed_ready' /\ ~core_ready'
<1>1. CASE TakeData \/ TakeInstr \/ TakeFirstHalf
  BY <1>1, EdgeQuiet DEF TakeData, TakeInstr, TakeFirstHalf, Answered
<1>2. ASSUME NEW a \in Addrs, FetchNext(a) \/ RetIrq(a) PROVE ~muxed_ready' /\ ~core_ready'
  BY <1>2, EdgeQuiet DEF FetchNext, RetIrq, Free, OffBus
<1>3. ASSUME NEW a \in Addrs, NEW we \in BOOLEAN, NEW w \in Words, LoadStore(a, we, w)
      PROVE ~muxed_ready' /\ ~core_ready'
  BY <1>3, EdgeQuiet DEF LoadStore, Free, OffBus
<1>4. ASSUME NEW m \in BOOLEAN, MaskIrq(m) PROVE ~muxed_ready' /\ ~core_ready'
  BY <1>4, EdgeQuiet DEF MaskIrq, Free, OffBus
<1>5. CASE Branch \/ Execute \/ WaitIrq \/ IllegalInstr \/ TakeIrq
  BY <1>5, EdgeQuiet DEF Branch, Execute, WaitIrq, IllegalInstr, TakeIrq, Free, OffBus
<1>6. CASE Reset \/ PowerCycle
  BY <1>6 DEF Reset, PowerCycle, Cleared
<1> QED BY <1>1, <1>2, <1>3, <1>4, <1>5, <1>6 DEF Next, Clock

LEMMA MonitorStep ==
  ASSUME HWTypeOK, BusInv, MonitorInv, NoForbiddenFetch, [Next]_vars
  PROVE  MonitorInv' /\ NoForbiddenFetch'
<1>1. CASE WaitCycle
  <2>1. UNCHANGED mem
    BY <1>1 DEF WaitCycle, cpuvars
  <2>2. MonitorInv'
    <3>1. mem.instr /\ security_monitor' => force_trap'
      BY <1>1, VerdictStands DEF WaitCycle, HwEdge
    <3> QED BY <2>1, <3>1 DEF MonitorInv
  <2>3. ASSUME mem.instr, muxed_ready', muxed_real', Core(mem.addr) \in Memories, security_monitor'
        PROVE  FALSE
    <3>1. mem.valid /\ ~force_trap
      BY <1>1, <2>3 DEF WaitCycle, HwEdge, Selected
    <3>2. core_ready
      BY <1>1, <2>3, <3>1 DEF WaitCycle, HwEdge, muxed_ready_new, Slow, Memories
    <3>3. security_monitor
      BY <1>1, <2>3, VerdictStands
    <3> QED BY <2>3, <3>1, <3>2, <3>3 DEF MonitorInv
  <2>4. NoForbiddenFetch'
    <3>1. Core(mem.addr)' = Core(mem.addr)
      BY <2>1 DEF Core
    <3> QED BY <2>1, <2>3, <3>1 DEF NoForbiddenFetch
  <2> QED BY <2>2, <2>4
<1>2. CASE UNCHANGED vars
  BY <1>2 DEF vars, cpuvars, hwvars, MonitorInv, NoForbiddenFetch, security_monitor, app_mode,
              InGuard, OutOfBounds, Core
<1>3. CASE ~WaitCycle /\ ~UNCHANGED vars
  BY <1>3, QuietStep DEF MonitorInv, NoForbiddenFetch
<1> QED BY <1>1, <1>2, <1>3

LEMMA SecretsStep ==
  ASSUME HWTypeOK, PrivilegeInv, SecretsStayInside, [Next]_vars
  PROVE  SecretsStayInside'
<1>1. CASE WaitCycle
  <2>1. UNCHANGED <<mem, exec>>
    BY <1>1 DEF WaitCycle, cpuvars
  <2>2. Secret(mem.addr)' = Secret(mem.addr) /\ Core(mem.addr)' = Core(mem.addr)
    BY <2>1 DEF Secret, Core, Cell
  <2>3. ASSUME muxed_real', Secret(mem.addr)
        PROVE  exec = "rom" /\ (Core(mem.addr) = "uds" => ~fw_startup_done')
    <3>1. Visible(mem.addr)
      BY <1>1, <2>3 DEF WaitCycle, HwEdge
    <3>2. CASE Core(mem.addr) = "uds"
      <4>1. ~fw_startup_done
        BY <3>1, <3>2 DEF Visible, UdsRead
      <4>2. ~fw_startup_done'
        BY <1>1, <2>3, <4>1 DEF PrivilegeInv, WaitCycle, HwEdge, fw_startup_done_ctrl
      <4> QED BY <4>1, <4>2 DEF PrivilegeInv
    <3>3. CASE Core(mem.addr) # "uds"
      <4>1. ~app_mode
        BY <2>3, <3>1, <3>3 DEF Visible, Secret
      <4> QED BY <3>3, <4>1 DEF app_mode, PrivilegeInv
    <3> QED BY <3>2, <3>3
  <2> QED BY <2>1, <2>2, <2>3 DEF SecretsStayInside
<1>2. CASE UNCHANGED vars
  BY <1>2 DEF vars, cpuvars, hwvars, SecretsStayInside, Secret, Core, Cell
<1>3. CASE ~WaitCycle /\ ~UNCHANGED vars
  BY <1>3, QuietStep DEF SecretsStayInside
<1> QED BY <1>1, <1>2, <1>3

LEMMA StepInv == HWInv /\ [Next]_vars => HWInv'
BY TypeStep, PrivilegeStep, MonitorStep, SecretsStep DEF HWInv

\* The inductive invariant holds in every state.
THEOREM HWInvariance == Spec => []HWInv
BY InitInv, StepInv, PTL DEF Spec

\* HWTypeOK: every register has its type.
THEOREM HWTypeCorrect == Spec => []HWTypeOK
<1>1. HWInv => HWTypeOK
  BY DEF HWInv
<1> QED BY HWInvariance, <1>1, PTL

\* AppUnprivileged: code that is not from ROM runs in app mode.
THEOREM NoPrivilegeAboveRom == Spec => []AppUnprivileged
<1>1. HWInv => AppUnprivileged
  BY DEF HWInv, PrivilegeInv, AppUnprivileged, app_mode
<1> QED BY HWInvariance, <1>1, PTL

\* NoForbiddenFetch: no instruction of a memory reaches the CPU against the
\* verdict of the security monitor.
THEOREM MonitorInTime == Spec => []NoForbiddenFetch
<1>1. HWInv => NoForbiddenFetch
  BY DEF HWInv
<1> QED BY HWInvariance, <1>1, PTL

\* SecretsStayInside: UDS, UDI, FW_RAM and flash data are read by firmware only.
THEOREM SecretsSafe == Spec => []SecretsStayInside
<1>1. HWInv => SecretsStayInside
  BY DEF HWInv
<1> QED BY HWInvariance, <1>1, PTL

-----------------------------------------------------------------------------
(***************************************************************************)
(* What a step may never do                                                *)
(***************************************************************************)

\* Every step but a restart is a clock edge of the hardware.
LEMMA StepIsEdge ==
  [Next]_vars => HwEdge \/ Restarted \/ UNCHANGED vars
BY DEF Next, Clock, Restarted, WaitCycle, TakeData, TakeInstr, TakeFirstHalf, Answered,
       FetchNext, RetIrq, LoadStore, MaskIrq, Branch, Execute, WaitIrq, IllegalInstr, TakeIrq, OffBus

LEMMA ProtectedStep ==
  ASSUME HWInv, [Next]_vars, NEW c \in Cells, word'[c] # word[c]
  PROVE  \/ Restarted
         \/ c \in {MonFirst, MonLast} /\ ~cpu_mon_en
         \/ c \notin {MonFirst, MonLast} /\ exec = "rom"
<1>1. CASE HwEdge
  <2>1. Writable(c)
    BY <1>1 DEF HwEdge
  <2>2. CASE c \in {MonFirst, MonLast}
    BY <2>1, <2>2 DEF Writable
  <2>3. CASE c \notin {MonFirst, MonLast}
    <3>1. c[1] = "fw_ram" \/ c[2] \in FwRegs
      BY <2>3, CellsAssumption DEF CellsAssumption, MonFirst, MonLast
    <3>2. ~app_mode
      BY <2>1, <3>1 DEF Writable
    <3> QED BY <2>3, <3>2 DEF app_mode, HWInv, PrivilegeInv
  <2> QED BY <2>2, <2>3
<1>2. CASE UNCHANGED vars
  BY <1>2 DEF vars, hwvars
<1> QED BY <1>1, <1>2, StepIsEdge

\* ProtectedWords: FW_RAM and the firmware's registers change in the hands of the
\* firmware only, a closed area never.
THEOREM WordsProtected == Spec => ProtectedWords
<1>1. HWInv /\ [Next]_vars =>
        [ \A c \in Cells : word'[c] # word[c] =>
            \/ Restarted
            \/ c \in {MonFirst, MonLast} /\ ~cpu_mon_en
            \/ c \notin {MonFirst, MonLast} /\ exec = "rom" ]_vars
  BY ProtectedStep
<1> QED BY HWInvariance, <1>1, PTL DEF Spec, ProtectedWords

LEMMA SilentStep ==
  ASSUME HWInv, [Next]_vars, force_trap, force_trap', ~UNCHANGED vars
  PROVE  /\ UNCHANGED <<word, uds_rd, cpu_mon_en>>
         /\ ~muxed_real'
         /\ system_reset' => system_reset
         /\ irq_pending' => irq_pending
<1>1. ~Selected
  BY DEF Selected
<1>2. ~Restarted
  BY DEF Restarted, Reset, PowerCycle, Cleared
<1>3. HwEdge
  BY <1>2, StepIsEdge
<1>4. word' = word
  <2>1. word' = [c \in Cells |-> word[c]]
    BY <1>1, <1>3 DEF HwEdge
  <2> QED BY <2>1 DEF HWInv, HWTypeOK
<1>5. irq_pending' => irq_pending
  BY <1>1, <1>2 DEF Next, Clock, Restarted, WaitCycle, TakeData, TakeInstr, TakeFirstHalf,
     Answered, FetchNext, RetIrq, LoadStore, MaskIrq, Branch, Execute, WaitIrq, IllegalInstr,
     TakeIrq, OffBus, Irq31, Writes
<1>6. cpu_mon_en' = cpu_mon_en
  BY <1>1, <1>3 DEF HwEdge, Tk1Write, Writes, HWInv, HWTypeOK
<1> QED
  BY <1>1, <1>3, <1>4, <1>5, <1>6 DEF HwEdge, Tk1Write, Writes

\* TrapIsSilent: after a strike of the monitor the device is not touched.
THEOREM SilentAfterStrike == Spec => TrapIsSilent
<1>1. HWInv /\ [Next]_vars =>
        [ force_trap /\ force_trap' =>
            /\ UNCHANGED <<word, uds_rd, cpu_mon_en>>
            /\ ~muxed_real'
            /\ system_reset' => system_reset
            /\ irq_pending' => irq_pending ]_vars
  BY SilentStep
<1> QED BY HWInvariance, <1>1, PTL DEF Spec, TrapIsSilent
=============================================================================
