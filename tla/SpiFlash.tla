------------------------------- MODULE SpiFlash -------------------------------
(***************************************************************************)
(* The flash driver (fw/tk1/flash.c) on the SPI driver (fw/tk1/spi.c) on   *)
(* the SPI master (core/tk1/rtl/tk1_spi_master.v), clock edge by clock     *)
(* edge and bit by bit, with the flash device at the other end.            *)
(*                                                                         *)
(* A step is one rising edge of the system clock, on which the CPU makes   *)
(* at most one access to the registers of the SPI master.  The device is   *)
(* external: it takes a command when it is deselected on a byte boundary,  *)
(* ignores everything but a status read while it is busy, ignores an erase *)
(* or program without write enable, and everything in power-down.          *)
(*                                                                         *)
(* Bits and opcodes are real: a register of eight bits is a function from  *)
(* 1 .. 8, its most significant bit first.  Addresses have digits to the   *)
(* base PAGE_SIZE in the place of bytes, so that the memory may be small.  *)
(***************************************************************************)
EXTENDS Naturals, Sequences

CONSTANTS
  PAGE_SIZE,     \* 256, the base of an address digit
  SectorSize,    \* 4096
  Block32Size,   \* 32768
  Block64Size,   \* 65536, one digit more than a page
  FlashSize,
  Programs,      \* sequences of calls to the driver
  NoCall         \* the call before the first and after the last

CallNames ==
  {"sector_erase", "block_32_erase", "block_64_erase", "write_data", "read_data", "write_disable",
   "powerdown", "release_powerdown", "read_manufacturer_device_id", "read_jedec_id",
   "read_unique_id", "read_status"}

\* The callers stay inside of the flash.
FlashCalls ==
  {c \in [name : CallNames, address : 0 .. FlashSize - 1, size : 0 .. FlashSize] :
     c.name \in {"write_data", "read_data"} => c.address + c.size <= FlashSize}

\* In a program that begins with the device in power-down or not, every call finds
\* it awake but flash_release_powerdown(), with which part_table_read() begins.
WokenFirst(program, down) ==
  \A i \in DOMAIN program :
    \/ program[i].name = "release_powerdown"
    \/ \E j \in 0 .. i - 1 :
         /\ IF j = 0 THEN ~down ELSE program[j].name = "release_powerdown"
         /\ \A k \in j + 1 .. i - 1 : program[k].name # "powerdown"

ASSUME FlashAssumption ==
  /\ PAGE_SIZE \in 1 .. 256
  /\ \E k \in 1 .. PAGE_SIZE : SectorSize = k * PAGE_SIZE
  /\ Block32Size \in Nat \ {0}
  /\ Block64Size = PAGE_SIZE * PAGE_SIZE
  /\ FlashSize \in 1 .. PAGE_SIZE * Block64Size
ASSUME ProgramsAssumption ==
  /\ Programs \subseteq Seq(FlashCalls) /\ NoCall \notin FlashCalls
  /\ \A p \in Programs : WokenFirst(p, TRUE)

\* flash.h
WRITE_ENABLE == 6
WRITE_DISABLE == 4
READ_STATUS_REG_1 == 5
READ_STATUS_REG_2 == 53
PAGE_PROGRAM == 2
SECTOR_ERASE == 32
BLOCK_ERASE_32K == 82
BLOCK_ERASE_64K == 216
POWER_DOWN == 185
READ_DATA == 3
RELEASE_POWER_DOWN == 171
READ_MANUFACTURER_ID == 144
READ_JEDEC_ID == 159
READ_UNIQUE_ID == 75

VARIABLES
  \* tk1_spi_master.v
  spi_ss_reg, spi_csk_reg, spi_tx_data_reg, spi_rx_data_reg, spi_miso_sample_reg,
  spi_bit_ctr_reg, spi_ready_reg, spi_ctrl_reg,
  \* the device
  mem,        \* its contents
  received,   \* whole bytes of the current command
  shift,      \* bits of the next one
  miso,       \* the bit it puts out
  wel,        \* write enable latch
  work,       \* the erase or program it is busy with, or <<>>
  asleep,     \* power-down
  applied,    \* history: commands of the current call that changed the contents
  \* the firmware
  todo,       \* calls still to be made
  call,       \* the call under way
  nth,        \* SPI transfers it has finished
  fpc,        \* place in spi_transfer()
  put,        \* bytes written in this transfer, i of spi_write()
  buf,        \* bytes read in this transfer
  results     \* what the call has read, or, after it, what it returned
mastervars == <<spi_ss_reg, spi_csk_reg, spi_tx_data_reg, spi_rx_data_reg,
                spi_miso_sample_reg, spi_bit_ctr_reg, spi_ready_reg, spi_ctrl_reg>>
devicevars == <<mem, received, shift, miso, wel, work, asleep, applied>>
drivervars == <<todo, call, nth, fpc, put, buf, results>>
flashvars == <<mastervars, devicevars, drivervars>>

Weight == <<128, 64, 32, 16, 8, 4, 2, 1>>
Bits(b) == [i \in 1 .. 8 |-> (b \div Weight[i]) % 2]
Value(bits) == 128 * bits[1] + 64 * bits[2] + 32 * bits[3] + 16 * bits[4]
               + 8 * bits[5] + 4 * bits[6] + 2 * bits[7] + bits[8]
ShiftIn(bits, bit) == [i \in 1 .. 8 |-> IF i < 8 THEN bits[i + 1] ELSE bit]

(***************************************************************************)
(* flash.c: the transfers of each call.  `n' bytes are read back; a `poll' *)
(* is repeated while the busy bit is set.                                  *)
(***************************************************************************)
\* What a digit of an address counts: ADDR_BYTE_2_BIT and ADDR_BYTE_3_BIT in flash.h.
ADDR_BYTE_2 == PAGE_SIZE
ADDR_BYTE_3 == PAGE_SIZE * PAGE_SIZE
Digit(address, weight) == (address \div weight) % PAGE_SIZE

Write(bytes) == [wr |-> bytes, n |-> 0, poll |-> FALSE]
ReadBack(bytes, n) == [wr |-> bytes, n |-> n, poll |-> FALSE]
flash_wait_busy == [wr |-> <<READ_STATUS_REG_1>>, n |-> 1, poll |-> TRUE]
flash_write_enable == Write(<<WRITE_ENABLE>>)

\* Each command in turn with write enable before and the wait for the device after it.
Changing(commands) ==
  [i \in 1 .. 3 * Len(commands) |->
     CASE i % 3 = 1 -> flash_write_enable
       [] i % 3 = 2 -> Write(commands[(i + 1) \div 3])
       [] i % 3 = 0 -> flash_wait_busy]

flash_sector_erase(a) ==
  Changing(<<<<SECTOR_ERASE, Digit(a, ADDR_BYTE_3), Digit(a, ADDR_BYTE_2), 0>>>>)
flash_block_32_erase(a) ==
  Changing(<<<<BLOCK_ERASE_32K, Digit(a, ADDR_BYTE_3), Digit(a, ADDR_BYTE_2), Digit(a, 1)>>>>)
flash_block_64_erase(a) ==
  Changing(<<<<BLOCK_ERASE_64K, Digit(a, ADDR_BYTE_3), 0, 0>>>>)

flash_read_data(a, size) ==
  <<ReadBack(<<READ_DATA, Digit(a, ADDR_BYTE_3), Digit(a, ADDR_BYTE_2), Digit(a, 1)>>, size)>>

\* Data a write may carry: no two neighbours are equal.
Data(i) == (i * 37) % 256

PageCount(size) == (size + PAGE_SIZE - 1) \div PAGE_SIZE
PageBytes(size, p) ==
  LET left == size - (p - 1) * PAGE_SIZE
  IN  [i \in 1 .. (IF left >= PAGE_SIZE THEN PAGE_SIZE ELSE left) |-> Data((p - 1) * PAGE_SIZE + i)]

WriteRefused(a, size) == size = 0 \/ a % PAGE_SIZE # 0

flash_write_data(a, size) ==
  LET page(p) ==
        LET address == a + (p - 1) * PAGE_SIZE
        IN  <<PAGE_PROGRAM, Digit(address, ADDR_BYTE_3), Digit(address, ADDR_BYTE_2), 0>>
              \o PageBytes(size, p)
  IN  IF WriteRefused(a, size) THEN <<>>
      ELSE Changing([p \in 1 .. PageCount(size) |-> page(p)])

flash_read_status == <<ReadBack(<<READ_STATUS_REG_1>>, 1), ReadBack(<<READ_STATUS_REG_2>>, 1)>>

Transfers(c) ==
  CASE c.name = "sector_erase" -> flash_sector_erase(c.address)
    [] c.name = "block_32_erase" -> flash_block_32_erase(c.address)
    [] c.name = "block_64_erase" -> flash_block_64_erase(c.address)
    [] c.name = "write_data" -> flash_write_data(c.address, c.size)
    [] c.name = "read_data" -> flash_read_data(c.address, c.size)
    [] c.name = "write_disable" -> <<Write(<<WRITE_DISABLE>>)>>
    [] c.name = "powerdown" -> <<Write(<<POWER_DOWN>>)>>
    [] c.name = "release_powerdown" -> <<Write(<<RELEASE_POWER_DOWN, 0, 0, 0>>)>>
    [] c.name = "read_manufacturer_device_id" -> <<ReadBack(<<READ_MANUFACTURER_ID, 0, 0, 0>>, 2)>>
    [] c.name = "read_jedec_id" -> <<ReadBack(<<READ_JEDEC_ID>>, 3)>>
    [] c.name = "read_unique_id" -> <<ReadBack(<<READ_UNIQUE_ID, 0, 0, 0, 0>>, 8)>>
    [] c.name = "read_status" -> flash_read_status

\* What write_data returns; the other calls return what they read.
ReturnValue(c, read) ==
  IF c.name = "write_data" THEN (IF WriteRefused(c.address, c.size) THEN <<"-1">> ELSE <<"0">>)
  ELSE read

(***************************************************************************)
(* The device.                                                             *)
(***************************************************************************)
AddressOf(cmd) == cmd[2] * ADDR_BYTE_3 + cmd[3] * ADDR_BYTE_2 + cmd[4]
Aligned(a, size) == LET start == (a \div size) * size IN start .. start + size - 1

Erase(m, region) == [a \in DOMAIN m |-> IF a \in region THEN 255 ELSE m[a]]

\* Programming clears bits and wraps within the page.
BitAnd(a, b) == Value([i \in 1 .. 8 |-> Bits(a)[i] * Bits(b)[i]])
Program(m, address, data) ==
  LET At(a) == 1 + ((a + PAGE_SIZE - address) % PAGE_SIZE)
  IN  [a \in DOMAIN m |->
         IF a \in Aligned(address, PAGE_SIZE) /\ At(a) <= Len(data)
         THEN BitAnd(m[a], data[At(a)]) ELSE m[a]]

Executed(m, cmd) ==
  CASE cmd[1] = SECTOR_ERASE -> Erase(m, Aligned(AddressOf(cmd), SectorSize))
    [] cmd[1] = BLOCK_ERASE_32K -> Erase(m, Aligned(AddressOf(cmd), Block32Size))
    [] cmd[1] = BLOCK_ERASE_64K -> Erase(m, Aligned(AddressOf(cmd), Block64Size))
    [] cmd[1] = PAGE_PROGRAM -> Program(m, AddressOf(cmd), SubSeq(cmd, 5, Len(cmd)))

Ids == [op \in {READ_MANUFACTURER_ID, READ_JEDEC_ID, READ_UNIQUE_ID, READ_STATUS_REG_2} |->
          CASE op = READ_MANUFACTURER_ID -> <<4, <<239, 19>>>>
            [] op = READ_JEDEC_ID -> <<1, <<239, 64, 20>>>>
            [] op = READ_UNIQUE_ID -> <<5, <<201, 2, 33, 4, 5, 6, 7, 136>>>>
            [] op = READ_STATUS_REG_2 -> <<1, <<2>>>>]

\* The byte it puts out after those received.
OutByte(cmd) ==
  LET k == Len(cmd)
      op == cmd[1]
  IN  IF k = 0 \/ asleep THEN 0
      ELSE IF op = READ_STATUS_REG_1 THEN (IF work # <<>> THEN 1 ELSE 0) + (IF wel THEN 2 ELSE 0)
      ELSE IF work # <<>> THEN 0
      ELSE IF op = READ_DATA /\ k >= 4 THEN mem[(AddressOf(cmd) + (k - 4)) % FlashSize]
      ELSE IF op \in DOMAIN Ids /\ k - Ids[op][1] + 1 \in DOMAIN Ids[op][2]
           THEN Ids[op][2][k - Ids[op][1] + 1]
      ELSE 0

Whole(cmd) ==
  /\ shift = <<>> /\ cmd # <<>>
  /\ cmd[1] \in {SECTOR_ERASE, BLOCK_ERASE_32K, BLOCK_ERASE_64K} => Len(cmd) = 4
  /\ cmd[1] = PAGE_PROGRAM => Len(cmd) > 4

Deselected ==
  LET cmd == received
      op == cmd[1]
      takes == Whole(cmd) /\ work = <<>> /\ (asleep => op = RELEASE_POWER_DOWN)
      changes == takes /\ wel /\ op \in {SECTOR_ERASE, BLOCK_ERASE_32K, BLOCK_ERASE_64K, PAGE_PROGRAM}
  IN  /\ wel' = IF takes /\ op = WRITE_ENABLE THEN TRUE
                ELSE IF takes /\ op = WRITE_DISABLE THEN FALSE ELSE wel
      /\ asleep' = IF takes /\ op = POWER_DOWN THEN TRUE
                   ELSE IF takes /\ op = RELEASE_POWER_DOWN THEN FALSE ELSE asleep
      /\ work' = IF changes THEN cmd ELSE work

\* The device sees the select and clock lines change.
Device(mosi) ==
  /\ CASE ~spi_ss_reg /\ spi_csk_reg' /\ ~spi_csk_reg ->
            IF Len(shift) = 7
            THEN received' = Append(received, Value(Append(shift, mosi))) /\ shift' = <<>>
            ELSE shift' = Append(shift, mosi) /\ UNCHANGED received
       [] spi_ss_reg -> received' = <<>> /\ shift' = <<>>
       [] OTHER -> UNCHANGED <<received, shift>>
  /\ miso' = IF spi_csk_reg /\ ~spi_csk_reg' THEN Bits(OutByte(received))[Len(shift) + 1] ELSE miso
  /\ IF spi_ss_reg' /\ ~spi_ss_reg THEN Deselected ELSE UNCHANGED <<wel, asleep, work>>
  /\ UNCHANGED <<mem, applied>>

(* It is done: the contents change, the write enable latch is cleared. *)
Complete ==
  /\ work # <<>>
  /\ mem' = Executed(mem, work)
  /\ work' = <<>> /\ wel' = FALSE
  /\ applied' = applied + 1
  /\ UNCHANGED <<mastervars, received, shift, miso, asleep, drivervars>>

(***************************************************************************)
(* tk1_spi_master.v.  An access is a register and the value written to it, *)
(* Nothing stands for a clock without a write.                             *)
(***************************************************************************)
Nothing == [reg |-> "none", val |-> 0]
EN(v) == [reg |-> "en", val |-> v]
XFER == [reg |-> "xfer", val |-> 1]
DATA(v) == [reg |-> "data", val |-> v]

LoadsData(w) == w.reg = "data" /\ spi_ready_reg
Starts(w) == w.reg = "xfer" /\ spi_ctrl_reg = "IDLE"

spi_ctrl_new(w) ==
  CASE spi_ctrl_reg = "IDLE" -> IF Starts(w) THEN "POS_FLANK" ELSE "IDLE"
    [] spi_ctrl_reg = "POS_FLANK" -> "NEG_FLANK"
    [] spi_ctrl_reg = "NEG_FLANK" -> "NEXT"
    [] spi_ctrl_reg = "NEXT" -> IF spi_bit_ctr_reg = 7 THEN "IDLE" ELSE "POS_FLANK"

SpiEdge(w) ==
  /\ spi_miso_sample_reg' = miso
  /\ spi_ss_reg' = IF w.reg = "en" THEN w.val = 0 ELSE spi_ss_reg
  /\ spi_csk_reg' = (spi_ctrl_reg = "POS_FLANK")
  /\ spi_tx_data_reg' = IF spi_ctrl_reg = "NEG_FLANK" THEN ShiftIn(spi_tx_data_reg, 0)
                        ELSE IF LoadsData(w) THEN Bits(w.val) ELSE spi_tx_data_reg
  /\ spi_rx_data_reg' = IF spi_ss_reg THEN Bits(0)
                        ELSE IF spi_ctrl_reg = "NEXT" THEN ShiftIn(spi_rx_data_reg, spi_miso_sample_reg)
                        ELSE spi_rx_data_reg
  /\ spi_ready_reg' = IF Starts(w) THEN FALSE
                      ELSE IF spi_ctrl_reg = "NEXT" /\ spi_bit_ctr_reg = 7 THEN TRUE
                      ELSE spi_ready_reg
  /\ spi_bit_ctr_reg' = IF Starts(w) THEN 0
                        ELSE IF spi_ctrl_reg = "NEXT" THEN (spi_bit_ctr_reg + 1) % 8
                        ELSE spi_bit_ctr_reg
  /\ spi_ctrl_reg' = spi_ctrl_new(w)
  /\ Device(spi_tx_data_reg[1])

(* The clock of the SPI master goes on while the CPU does something else. *)
Shift == spi_ctrl_reg # "IDLE" /\ SpiEdge(Nothing) /\ UNCHANGED drivervars

FlashInit ==
  /\ spi_ss_reg = TRUE /\ spi_csk_reg = FALSE /\ spi_tx_data_reg = Bits(0) /\ spi_rx_data_reg = Bits(0)
  /\ spi_miso_sample_reg = 0 /\ spi_bit_ctr_reg = 0 /\ spi_ready_reg = TRUE
  /\ spi_ctrl_reg = "IDLE"
  /\ mem = [a \in 0 .. FlashSize - 1 |-> 255]
  /\ received = <<>> /\ shift = <<>> /\ miso = 0
  /\ wel = FALSE /\ work = <<>> /\ asleep \in BOOLEAN
  /\ applied = 0
  /\ todo \in Programs /\ call = NoCall /\ nth = 0
  /\ fpc = "call" /\ put = 0 /\ buf = <<>> /\ results = NoCall

(***************************************************************************)
(* spi_transfer() in spi.c: enable, write the command and the data, read,  *)
(* disable.                                                                *)
(***************************************************************************)
Current == Transfers(call)[nth + 1]
Written == put = Len(Current.wr)

\* One access of the CPU and where it leads to.
Do(at, w, next) ==
  /\ fpc = at /\ fpc' = next
  /\ SpiEdge(w)

CallDriver ==
  /\ fpc = "call" /\ todo # <<>>
  /\ call' = Head(todo) /\ todo' = Tail(todo)
  /\ nth' = 0
  /\ fpc' = IF Transfers(Head(todo)) = <<>> THEN "return" ELSE "enable"
  /\ results' = <<>>
  /\ applied' = 0
  /\ UNCHANGED <<mastervars, mem, received, shift, miso, wel, work, asleep, put, buf>>

spi_enable ==
  /\ Do("enable", EN(1), "write")
  /\ put' = 0 /\ buf' = <<>>
  /\ UNCHANGED <<todo, call, nth, results>>

WaitWriteEarly ==
  /\ Do("write", Nothing, IF Written /\ Current.n = 0 THEN "disable"
                          ELSE IF ~spi_ready_reg THEN "write"
                          ELSE IF ~Written THEN "data" ELSE "dummy")
  /\ UNCHANGED <<todo, call, nth, put, buf, results>>

(* The loop of spi_write(), with its wait after the last byte, and the wait
   before the loop of spi_read(). *)
WaitWrite ==
  /\ Do("write", Nothing, IF ~spi_ready_reg THEN "write"
                          ELSE IF ~Written THEN "data"
                          ELSE IF Current.n > 0 THEN "dummy" ELSE "disable")
  /\ UNCHANGED <<todo, call, nth, put, buf, results>>

WriteData ==
  /\ fpc = "data"
  /\ Do("data", DATA(Current.wr[put + 1]), "start")
  /\ UNCHANGED <<todo, call, nth, put, buf, results>>

StartWrite ==
  /\ Do("start", XFER, "write")
  /\ put' = put + 1
  /\ UNCHANGED <<todo, call, nth, buf, results>>

\* The loop of spi_read().
DummyData ==
  /\ Do("dummy", DATA(0), "startread")
  /\ UNCHANGED <<todo, call, nth, put, buf, results>>

StartRead ==
  /\ Do("startread", XFER, "waitread")
  /\ UNCHANGED <<todo, call, nth, put, buf, results>>

WaitRead ==
  /\ Do("waitread", Nothing, IF spi_ready_reg THEN "read" ELSE "waitread")
  /\ UNCHANGED <<todo, call, nth, put, buf, results>>

ReadData ==
  /\ fpc = "read"
  /\ Do("read", Nothing, IF Len(buf) + 1 < Current.n THEN "dummy" ELSE "disable")
  /\ buf' = Append(buf, Value(spi_rx_data_reg))
  /\ UNCHANGED <<todo, call, nth, put, results>>

(* spi_disable(), and back in flash.c: flash_wait_busy() asks again, other
   calls go on with their next transfer. *)
spi_disable ==
  /\ fpc = "disable"
  /\ IF Current.poll /\ buf[1] % 2 = 1 THEN UNCHANGED <<nth, results>>
     ELSE /\ nth' = nth + 1
          /\ results' = IF Current.poll THEN results ELSE results \o buf
  /\ Do("disable", EN(0), IF nth' = Len(Transfers(call)) THEN "return" ELSE "enable")
  /\ UNCHANGED <<todo, call, put, buf>>

Return ==
  /\ fpc = "return"
  /\ fpc' = "call" /\ call' = NoCall
  /\ results' = ReturnValue(call, results)
  /\ applied' = 0
  /\ UNCHANGED <<mastervars, mem, received, shift, miso, wel, work, asleep, todo, nth, put, buf>>

Driver ==
  \/ CallDriver \/ spi_enable \/ WaitWrite \/ WriteData \/ StartWrite
  \/ DummyData \/ StartRead \/ WaitRead \/ ReadData \/ spi_disable \/ Return

FlashNext == Shift \/ Complete \/ Driver

FlashSpec == FlashInit /\ [][FlashNext]_flashvars

FlashFairness == WF_flashvars(Complete) /\ WF_flashvars(Driver) /\ WF_flashvars(Shift)

(***************************************************************************)
(* Properties                                                              *)
(***************************************************************************)
CallPieces(c) ==
  CASE c.name \in {"sector_erase", "block_32_erase", "block_64_erase"} -> 1
    [] c.name = "write_data" -> IF WriteRefused(c.address, c.size) THEN 0 ELSE PageCount(c.size)
    [] OTHER -> 0

\* What the caller of an erase or a write means by it.
CallPiece(c, i, m) ==
  LET region ==
        CASE c.name = "sector_erase" -> Aligned(c.address, SectorSize)
          [] c.name = "block_32_erase" -> Aligned(c.address, Block32Size)
          [] c.name = "block_64_erase" -> Aligned(c.address, Block64Size)
          [] OTHER -> {}
      first == c.address + (i - 1) * PAGE_SIZE
      last == IF c.name = "write_data" /\ i = PageCount(c.size) THEN c.address + c.size - 1
              ELSE first + PAGE_SIZE - 1
  IN  [a \in DOMAIN m |->
         IF c.name = "write_data"
         THEN IF a \in first .. last THEN BitAnd(m[a], Data(a - c.address + 1)) ELSE m[a]
         ELSE IF a \in region THEN 255 ELSE m[a]]

CallReply(c, m) ==
  CASE c.name = "write_data" -> ReturnValue(c, <<>>)
    [] c.name = "read_data" -> [i \in 1 .. c.size |-> m[c.address + i - 1]]
    [] c.name = "read_manufacturer_device_id" -> Ids[READ_MANUFACTURER_ID][2]
    [] c.name = "read_jedec_id" -> Ids[READ_JEDEC_ID][2]
    [] c.name = "read_unique_id" -> Ids[READ_UNIQUE_ID][2]
    [] c.name = "read_status" -> <<0>> \o Ids[READ_STATUS_REG_2][2]
    [] OTHER -> <<>>

(* Every call of the driver does what the modules above it take it for: each
   erase and each page goes to the device with write enable, on its own byte
   boundary, and never while it is busy, so it is executed, once and completely
   before the call returns; reads get the bits of the right byte. *)
Atomic ==
  INSTANCE AtomicFlash
    WITH Calls <- UNION {{p[i] : i \in DOMAIN p} : p \in Programs},
         Pieces <- CallPieces, Piece <- CallPiece, Reply <- CallReply,
         Erased <- [a \in 0 .. FlashSize - 1 |-> 255], None <- NoCall,
         contents <- mem, done <- applied,
         returned <- IF call = NoCall THEN results ELSE NoCall

ImplementsAtomicFlash == Atomic!Spec
=============================================================================
