------------------------------- MODULE Tk1Hw -------------------------------
(***************************************************************************)
(* The hardware that separates the firmware from the device app: the bus   *)
(* of application_fpga.v, the privilege and the security monitor of tk1.v, *)
(* the access control of the UDS, FW_RAM and tk1 cores, and the interrupt  *)
(* through which an app enters the firmware.                               *)
(*                                                                         *)
(* Every step is a clock edge.  The CPU is PicoRV32 seen from its memory   *)
(* interface: it presents an address, keeps it until the bus answers, may  *)
(* prefetch the next instruction before the data access of the current one *)
(* and may throw a prefetched word away.  The app is any program; the      *)
(* firmware makes any access that stays inside a core.                     *)
(*                                                                         *)
(* An address is the number of a 32-bit word (cpu_addr[31:2]); the CPU     *)
(* only presents word addresses.  Of the words the cores hold the module   *)
(* follows those in Cells, the value of the others decides nothing.        *)
(***************************************************************************)
EXTENDS Integers

CONSTANTS
  Addrs,  \* the word addresses the CPU presents
  Words,  \* the values it writes
  Cells   \* the words of FW_RAM and the registers of tk1 that are followed

(***************************************************************************)
(* The memory map: two bits of address choose the area, six more the core. *)
(***************************************************************************)
area_prefix(a) == a \div 2^28
core_prefix(a) == (a \div 2^22) % 64

ROM_PREFIX == 0
RAM_PREFIX == 1
MMIO_PREFIX == 3

Mmio == [p \in {0, 1, 2, 3, 4, 16, 33, 63} |->
           CASE p = 0  -> "trng"        [] p = 1  -> "timer"
             [] p = 2  -> "uds"         [] p = 3  -> "uart"
             [] p = 4  -> "touch_sense" [] p = 16 -> "fw_ram"
             [] p = 33 -> "syscall"     [] p = 63 -> "tk1"]

Core(a) ==
  CASE area_prefix(a) = ROM_PREFIX -> "rom"
    [] area_prefix(a) = RAM_PREFIX -> "ram"
    [] area_prefix(a) = MMIO_PREFIX /\ core_prefix(a) \in DOMAIN Mmio ->
         Mmio[core_prefix(a)]
    [] OTHER -> "none"

\* The words of each core: the address bits above them must be zero.
Size == [rom |-> 2^11, ram |-> 2^15, fw_ram |-> 2^10, uds |-> 2^3,
         syscall |-> 1, tk1 |-> 2^8, trng |-> 2^8, timer |-> 2^8,
         uart |-> 2^8, touch_sense |-> 2^8, none |-> 0]

Offset(a) == a % (IF area_prefix(a) = MMIO_PREFIX THEN 2^22 ELSE 2^28)

OutOfBounds(a) == Offset(a) >= Size[Core(a)]

\* A core sees only its own address bits: an address outside of it reaches
\* one of its words all the same.
Cell(a) == <<Core(a), IF Core(a) = "none" THEN 0 ELSE Offset(a) % Size[Core(a)]>>

FW_ROM_LAST == 2047
RAM_FIRST == 2^28
PROGADDR_RESET == 0
PROGADDR_IRQ == 4

CDI == 32 .. 39
UDI == 48 .. 49
ADDR_CPU_MON_CTRL == 96
ADDR_CPU_MON_FIRST == 97
ADDR_CPU_MON_LAST == 98
ADDR_SYSTEM_RESET == 112
ADDR_SPI_EN == 128
ADDR_SPI_XFER == 129
ADDR_SPI_DATA == 130

\* APP_START, APP_SIZE, CDI, RAM_ADDR_RAND, RAM_DATA_RAND and the SPI: only
\* the firmware writes them.
FwRegs == CDI \cup {12, 13, 64, 65, ADDR_SPI_EN, ADDR_SPI_XFER, ADDR_SPI_DATA}

MonFirst == <<"tk1", ADDR_CPU_MON_FIRST>>
MonLast == <<"tk1", ADDR_CPU_MON_LAST>>

ASSUME AddrsAssumption ==
  /\ Addrs \subseteq Nat
  /\ {PROGADDR_RESET, PROGADDR_IRQ, RAM_FIRST} \subseteq Addrs

ASSUME WordsAssumption == Words \subseteq Nat /\ 0 \in Words

ASSUME CellsAssumption ==
  /\ Cells \subseteq ({"fw_ram"} \X (0 .. 2^10 - 1))
                       \cup ({"tk1"} \X (FwRegs \cup {ADDR_CPU_MON_FIRST, ADDR_CPU_MON_LAST}))
  /\ {MonFirst, MonLast} \subseteq Cells

(***************************************************************************)
(* Where an instruction comes from, as far as privilege is concerned.      *)
(***************************************************************************)
Origin == {"rom", "ram", "mmio"}

OriginOf(a) == IF a <= FW_ROM_LAST THEN "rom"
               ELSE IF Core(a) = "ram" THEN "ram" ELSE "mmio"

VARIABLES
  mem,    \* the memory interface of the CPU: mem_valid, mem_instr, mem_addr, ...
  exec,   \* origin of the instruction being executed
  step,   \* how far it is: "start", "data" (access made), "jump" (prefetch dropped)
          \* or "wait" (do_waitirq)
  held,   \* the fetched next instruction: its origin and whether it is the real word
  trap,   \* the CPU is in its trap state
  eoi,    \* eoi[31]: the interrupt handler is active
  irq_pending, irq_mask,  \* bit 31 of both
  x3,     \* origin of the interrupt return address
  muxed_ready, \* muxed_ready_reg
  muxed_real,  \* muxed_rdata_reg is a word of the core, not a substituted zero
  core_ready,  \* ready_reg of the ROM, RAM or FW_RAM being read
  fw_startup_done, force_trap, cpu_mon_en,
  system_reset, \* the reset has been asked for and not yet arrived
  uds_rd,       \* the words of the UDS already read
  word          \* the followed words: FW_RAM and tk1 registers

cpuvars == <<mem, exec, step, held, trap, eoi, irq_mask, x3>>
hwvars == <<muxed_ready, muxed_real, core_ready, fw_startup_done, force_trap,
            cpu_mon_en, system_reset, uds_rd, word>>
vars == <<cpuvars, irq_pending, hwvars>>

NoWord == [origin |-> "none", real |-> FALSE]

Request(valid, instr, second, we, a, w) ==
  [valid |-> valid, instr |-> instr, second |-> second, we |-> we, addr |-> a, wdata |-> w]

Idle == Request(FALSE, FALSE, FALSE, FALSE, PROGADDR_RESET, 0)
Fetch(a) == Request(TRUE, TRUE, FALSE, FALSE, a, 0)
FetchSecond(a) == Request(TRUE, TRUE, TRUE, FALSE, a, 0)
Access(a, we, w) == Request(TRUE, FALSE, FALSE, we, a, w)

HWTypeOK ==
  /\ mem \in [valid : BOOLEAN, instr : BOOLEAN, second : BOOLEAN, we : BOOLEAN,
              addr : Addrs, wdata : Words]
  /\ exec \in Origin
  /\ step \in {"start", "data", "jump", "wait"}
  /\ held \in [origin : Origin \cup {"none"}, real : BOOLEAN]
  /\ x3 \in Origin
  /\ uds_rd \subseteq 0 .. 7
  /\ word \in [Cells -> Words]
  /\ trap \in BOOLEAN /\ eoi \in BOOLEAN
  /\ irq_pending \in BOOLEAN /\ irq_mask \in BOOLEAN
  /\ muxed_ready \in BOOLEAN /\ muxed_real \in BOOLEAN /\ core_ready \in BOOLEAN
  /\ fw_startup_done \in BOOLEAN /\ force_trap \in BOOLEAN
  /\ cpu_mon_en \in BOOLEAN /\ system_reset \in BOOLEAN

-----------------------------------------------------------------------------
(***************************************************************************)
(* tk1.v                                                                   *)
(***************************************************************************)
app_mode == fw_startup_done /\ ~eoi

InGuard(a) == cpu_mon_en /\ word[MonFirst] <= a /\ a <= word[MonLast]

\* Any access outside of a core; an instruction fetched from FW_RAM, from ROM
\* in app mode or from the area the app has closed.
security_monitor ==
  /\ mem.valid
  /\ \/ OutOfBounds(mem.addr)
     \/ mem.instr /\ ( \/ Core(mem.addr) = "fw_ram"
                       \/ app_mode /\ mem.addr <= FW_ROM_LAST
                       \/ InGuard(mem.addr) )

\* Privilege is lowered by the first instruction fetched from above the ROM.
fw_startup_done_ctrl == mem.valid /\ mem.instr /\ mem.addr > FW_ROM_LAST

-----------------------------------------------------------------------------
(***************************************************************************)
(* The bus: cpu_mem_ctrl selects the core of the address for as long as    *)
(* the CPU waits, unless the security monitor has struck.                  *)
(***************************************************************************)
MutSelected == mem.valid /\ ~muxed_ready

Selected == mem.valid /\ ~muxed_ready /\ ~force_trap

\* ROM, RAM and FW_RAM answer in the cycle after they are selected (ready_reg),
\* the other cores at once.
MutSlow(a) == Core(a) = "fw_ram"

Slow(a) == Core(a) \in {"rom", "ram", "fw_ram"}

Mutmuxed_ready_new == Selected /\ (~Slow(mem.addr) \/ core_ready)

muxed_ready_new ==
  mem.valid /\ ~muxed_ready /\ (force_trap \/ ~Slow(mem.addr) \/ core_ready)

\* The UDS gives each word once, and none after the firmware has started an app.
MutUdsRead(a) == Core(a) = "uds" /\ ~app_mode /\ Cell(a)[2] \notin uds_rd

UdsRead(a) == Core(a) = "uds" /\ ~fw_startup_done /\ Cell(a)[2] \notin uds_rd

\* The cores that return data, and when they do: a core that refuses returns zero.
Visible(a) ==
  CASE Core(a) = "uds"    -> UdsRead(a)
    [] Core(a) = "fw_ram" -> ~app_mode
    [] Core(a) = "tk1"    -> Cell(a)[2] \in UDI \cup {ADDR_SPI_XFER, ADDR_SPI_DATA} => ~app_mode
    [] OTHER              -> Core(a) \notin {"none", "syscall"}

MutWritable(c) == c[1] = "tk1" => (c[2] \in FwRegs => ~app_mode)

\* Write protection of a word: FW_RAM and the firmware's registers in app mode,
\* the bounds of the closed area once it is closed.
Writable(c) ==
  /\ c[1] = "fw_ram" \/ c[2] \in FwRegs => ~app_mode
  /\ c \in {MonFirst, MonLast} => ~cpu_mon_en

Writes(core) == Selected /\ mem.we /\ Core(mem.addr) = core

Tk1Write(offset) == Writes("tk1") /\ Cell(mem.addr)[2] = offset

\* One clock edge of every register outside of the CPU.
HwEdge ==
  /\ muxed_ready' = muxed_ready_new
  /\ muxed_real' = (Selected /\ Visible(mem.addr))
  /\ core_ready' = (Selected /\ Slow(mem.addr))
  /\ fw_startup_done' = (fw_startup_done \/ fw_startup_done_ctrl)
  /\ force_trap' = (force_trap \/ security_monitor)
  /\ cpu_mon_en' = (cpu_mon_en \/ Tk1Write(ADDR_CPU_MON_CTRL))
  /\ system_reset' = (system_reset \/ (Tk1Write(ADDR_SYSTEM_RESET) /\ ~app_mode))
  /\ uds_rd' = IF Selected /\ UdsRead(mem.addr)
               THEN uds_rd \cup {Cell(mem.addr)[2]} ELSE uds_rd
  /\ word' = [c \in Cells |->
                IF Selected /\ mem.we /\ c = Cell(mem.addr) /\ Writable(c)
                THEN mem.wdata ELSE word[c]]

\* irq_ctrl: a write to the SYSCALL area raises interrupt 31, which the CPU latches.
Irq31 == Writes("syscall")

-----------------------------------------------------------------------------
(***************************************************************************)
(* The CPU                                                                 *)
(***************************************************************************)
Init ==
  /\ mem = Fetch(PROGADDR_RESET) /\ exec = "rom"
  /\ step = "jump" /\ held = NoWord /\ trap = FALSE
  /\ eoi = FALSE /\ irq_pending = FALSE /\ irq_mask = TRUE /\ x3 = "rom"
  /\ muxed_ready = FALSE /\ muxed_real = FALSE /\ core_ready = FALSE
  /\ fw_startup_done = FALSE /\ force_trap = FALSE /\ cpu_mon_en = FALSE
  /\ system_reset = FALSE /\ uds_rd = {}
  /\ word = [c \in Cells |-> 0]

\* A cycle in which the CPU waits for the bus.
WaitCycle ==
  /\ mem.valid /\ ~muxed_ready
  /\ HwEdge
  /\ irq_pending' = (irq_pending \/ Irq31)
  /\ UNCHANGED cpuvars

Answered == mem.valid /\ muxed_ready /\ HwEdge /\ UNCHANGED irq_pending

TakeData ==
  /\ Answered
  /\ ~mem.instr
  /\ mem' = Idle
  /\ UNCHANGED <<exec, step, held, trap, eoi, irq_mask, x3>>

TakeInstr ==
  /\ Answered
  /\ mem.instr
  /\ mem' = Idle
  /\ held' = [origin |-> OriginOf(mem.addr), real |-> muxed_real]
  /\ UNCHANGED <<exec, step, trap, eoi, irq_mask, x3>>

\* A 32-bit instruction that begins in the upper half of a word (mem_la_secondword):
\* the CPU goes on to the next word without leaving the bus.  A zero is the start
\* of a 16-bit instruction, so this only follows a real word.  The firmware does
\* not run off the end of the ROM.
TakeFirstHalf ==
  /\ Answered
  /\ mem.instr /\ ~mem.second /\ muxed_real
  /\ mem.addr + 1 \in Addrs
  /\ eoi => mem.addr + 1 <= FW_ROM_LAST
  /\ mem' = FetchSecond(mem.addr + 1)
  /\ UNCHANGED <<exec, step, held, trap, eoi, irq_mask, x3>>

Free == ~mem.valid /\ ~trap

\* The rest of a step in which the CPU is not on the bus.
OffBus == HwEdge /\ UNCHANGED irq_pending

\* What the firmware jumps to: only ROM, but for the start of the app at the end
\* of the boot (jump_to_app).  The app may jump anywhere.
MutMayFetch(a) == exec = "rom" => (a <= FW_ROM_LAST \/ a = RAM_FIRST)

MayFetch(a) == exec = "rom" => (a <= FW_ROM_LAST \/ (~eoi /\ a = RAM_FIRST))

\* The firmware stays inside the cores it addresses, the app may not.
MayAccess(a) == exec = "rom" => ~OutOfBounds(a)

FetchNext(a) ==
  /\ Free /\ held = NoWord /\ step # "wait" /\ MayFetch(a)
  /\ mem' = Fetch(a)
  /\ OffBus
  /\ UNCHANGED <<exec, step, held, trap, eoi, irq_mask, x3>>

\* The load or store of the current instruction, before or after the next one is
\* prefetched.
LoadStore(a, we, w) ==
  /\ Free /\ step = "start" /\ MayAccess(a)
  /\ mem' = Access(a, we, w)
  /\ step' = "data"
  /\ OffBus
  /\ UNCHANGED <<exec, held, trap, eoi, irq_mask, x3>>

\* The maskirq instruction: syscall_enable in the firmware, or the app.
MaskIrq(m) ==
  /\ Free /\ step = "start"
  /\ irq_mask' = m
  /\ step' = "data"
  /\ OffBus
  /\ UNCHANGED <<mem, exec, held, trap, eoi, x3>>

\* A taken branch throws the prefetched word away.
Branch ==
  /\ Free /\ step = "start" /\ held # NoWord
  /\ held' = NoWord
  /\ step' = "jump"
  /\ OffBus
  /\ UNCHANGED <<mem, exec, trap, eoi, irq_mask, x3>>

Interrupted == irq_pending /\ ~irq_mask /\ ~eoi

\* The fetched instruction is executed.
Execute ==
  /\ Free /\ held # NoWord /\ held.real /\ ~Interrupted
  /\ exec' = held.origin
  /\ step' = "start"
  /\ held' = NoWord
  /\ OffBus
  /\ UNCHANGED <<mem, trap, eoi, irq_mask, x3>>

\* waitirq, which the firmware does not use: the CPU goes on when an interrupt is
\* pending, masked or not, and otherwise fetches nothing until one is.  Only a
\* store of its own raises the interrupt, so it then waits for a reset.
WaitIrq ==
  /\ Free /\ held # NoWord /\ held.real /\ held.origin # "rom" /\ ~Interrupted
  /\ exec' = held.origin
  /\ step' = IF irq_pending THEN "jump" ELSE "wait"
  /\ held' = NoWord
  /\ OffBus
  /\ UNCHANGED <<mem, trap, eoi, irq_mask, x3>>

\* An illegal instruction traps: the zero the bus puts in place of a forbidden
\* word, which cannot be executed, one of the program itself, and illegal_insn()
\* of the handler when the return address is not in the app's RAM.
IllegalInstr ==
  /\ Free
  /\ \/ held # NoWord /\ ~Interrupted
     \/ exec = "rom" /\ eoi /\ step = "start" /\ x3 # "ram"
  /\ trap' = TRUE
  /\ OffBus
  /\ UNCHANGED <<mem, exec, step, held, eoi, irq_mask, x3>>

\* The interrupt is taken in place of the fetched instruction: eoi rises with the
\* fetch of the handler.
TakeIrq ==
  /\ Free /\ held # NoWord /\ Interrupted
  /\ eoi' = TRUE
  /\ x3' = held.origin
  /\ held' = NoWord
  /\ exec' = "rom"
  /\ step' = "jump"
  /\ mem' = Fetch(PROGADDR_IRQ)
  /\ irq_pending' = FALSE
  /\ HwEdge
  /\ UNCHANGED <<trap, irq_mask>>

\* irq_handler returns: retirq is not prefetched past, and eoi has fallen when
\* the app's next instruction is fetched.
RetIrq(a) ==
  /\ Free /\ held = NoWord /\ step = "start" /\ exec = "rom" /\ eoi
  /\ x3 = "ram" /\ OriginOf(a) = x3
  /\ eoi' = FALSE
  /\ step' = "jump"
  /\ mem' = Fetch(a)
  /\ OffBus
  /\ UNCHANGED <<exec, held, trap, irq_mask, x3>>

\* All registers at their reset values.
Cleared ==
  /\ mem' = Fetch(PROGADDR_RESET) /\ exec' = "rom"
  /\ step' = "jump" /\ held' = NoWord /\ trap' = FALSE
  /\ eoi' = FALSE /\ irq_pending' = FALSE /\ irq_mask' = TRUE /\ x3' = "rom"
  /\ muxed_ready' = FALSE /\ muxed_real' = FALSE /\ core_ready' = FALSE
  /\ fw_startup_done' = FALSE /\ force_trap' = FALSE /\ cpu_mon_en' = FALSE
  /\ system_reset' = FALSE /\ uds_rd' = {}

\* clk_reset_gen: the reset arrives some cycles after it was asked for.  FW_RAM
\* keeps its contents.
Reset ==
  /\ system_reset
  /\ Cleared
  /\ word' = [c \in Cells |-> IF c[1] = "fw_ram" THEN word[c] ELSE 0]

\* Power is lost and returns: the bitstream also clears FW_RAM.
PowerCycle == Cleared /\ word' = [c \in Cells |-> 0]

Clock ==
  \/ WaitCycle \/ TakeData \/ TakeInstr \/ TakeFirstHalf
  \/ \E a \in Addrs : FetchNext(a) \/ RetIrq(a)
  \/ \E a \in Addrs, we \in BOOLEAN, w \in Words : LoadStore(a, we, w)
  \/ \E m \in BOOLEAN : MaskIrq(m)
  \/ Branch \/ Execute \/ WaitIrq \/ IllegalInstr \/ TakeIrq
  \/ Reset

Next == Clock \/ PowerCycle

\* The clock always ticks and the CPU waits for nothing but the bus.
Spec == Init /\ [][Next]_vars /\ WF_vars(Clock)

-----------------------------------------------------------------------------
(***************************************************************************)
(* Properties                                                              *)
(***************************************************************************)

\* Code that was not fetched from ROM runs without privilege: when the first
\* instruction of the app reaches the CPU the clock edge that lowers the
\* privilege has already passed, and it is lowered again before the first
\* instruction after a system call (tk1.v, app_mode).
AppUnprivileged == exec # "rom" => app_mode

Memories == {"rom", "ram", "fw_ram"}

\* No instruction is ever delivered from FW_RAM, from ROM in app mode, from
\* outside of a memory or from the RAM the app has closed: the monitor needs a
\* clock cycle to strike, and these memories need one more to answer.
NoForbiddenFetch ==
  (mem.valid /\ mem.instr /\ muxed_ready /\ muxed_real /\ Core(mem.addr) \in Memories) =>
     ~security_monitor

Secret(a) ==
  Core(a) \in {"uds", "fw_ram"}
    \/ (Core(a) = "tk1" /\ Cell(a)[2] \in UDI \cup {ADDR_SPI_XFER, ADDR_SPI_DATA})

\* The words of the UDS, the UDI, FW_RAM and the flash never reach an app, not
\* through an alias outside of a core either, and the UDS does not reach the
\* firmware that serves system calls.
SecretsStayInside ==
  (mem.valid /\ muxed_ready /\ muxed_real /\ Secret(mem.addr)) =>
     /\ exec = "rom"
     /\ Core(mem.addr) = "uds" => ~fw_startup_done

Restarted == Reset \/ PowerCycle

\* FW_RAM, the CDI, the app's place and the RAM randomisation are changed by the
\* firmware only; the bounds of a closed area by nobody, until the next reset.
ProtectedWords ==
  [][ \A c \in Cells : word'[c] # word[c] =>
        \/ Restarted
        \/ c \in {MonFirst, MonLast} /\ ~cpu_mon_en
        \/ c \notin {MonFirst, MonLast} /\ exec = "rom" ]_vars

\* Once the monitor has struck nothing of the device is written, read or
\* interrupted again until the next reset.
TrapIsSilent ==
  [][ force_trap /\ force_trap' =>
        /\ UNCHANGED <<word, uds_rd, cpu_mon_en>>
        /\ ~muxed_real'
        /\ system_reset' => system_reset
        /\ irq_pending' => irq_pending ]_vars

\* A strike of the monitor stops the program: the zeroes it is fed are illegal
\* instructions, unless a prefetched waitirq comes first, after which the CPU
\* fetches nothing at all.
StrikeStops == force_trap ~> (trap \/ step = "wait" \/ ~force_trap)

\* The bus answers every access, the ones the monitor refuses too, unless power
\* keeps failing.
BusAnswers == <>[][~PowerCycle]_vars => (mem.valid ~> ~mem.valid)
=============================================================================
