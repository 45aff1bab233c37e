------------------------------ MODULE UsbBridge ------------------------------
(***************************************************************************)
(* The CH552 USB controller between the host and the UART of the FPGA      *)
(* (ch552_fw/src/main.c): the interrupt that fills the ring buffer, the    *)
(* main loop that cuts the byte stream into frames and arms the IN         *)
(* endpoints, the forwarding of OUT packets, clear-to-send in both         *)
(* directions, bus resets, CLEAR_FEATURE and the software reset.           *)
(*                                                                         *)
(* A step of the main loop is the code between two places where an         *)
(* interrupt could matter: it masks none, so what it loads from a variable *)
(* that an interrupt changes is in `regs' until it stores it again.  The   *)
(* USB interrupt is atomic but for the UART interrupt, which has priority. *)
(* A byte is a number: a mode, a length, or a payload byte, which is       *)
(* unique.  When the parser is out of step and takes a payload byte for a  *)
(* header or a command, every reading of it is possible.                   *)
(*                                                                         *)
(* The FPGA is an environment that behaves as libcommon/io.c does: it      *)
(* writes whole frames, checks clear-to-send before each byte, and reads   *)
(* nothing while it is writing.  `owed', `sent' and `rx' are history: what *)
(* either side has been promised and not seen yet; `torn' remembers that   *)
(* the last bus reset fell into an update of the ring's pointers or count. *)
(***************************************************************************)
EXTENDS Naturals, Sequences, FiniteSets

CONSTANTS
  UART_RX_BUF_SIZE,  \* 140 in the code
  CTS_STOP_AT,       \* fill level at which clear-to-send is withdrawn, 133
  MAX_FRAME_SIZE,    \* 64, also the size of a USB packet
  MaxLength,         \* what a length byte may be, 255
  FIFO_SIZE,         \* receive FIFO of the FPGA, 511 bytes
  FIFO_STOP_AT,      \* its own clear-to-send threshold, 486
  Keeps,             \* endpoint masks the firmware may set
  FrameLens,         \* FrameLens[m]: payload sizes the FPGA writes to mode m
  PacketLens,        \* PacketLens[e]: packet sizes the host sends to endpoint e
  Budgets            \* bounds: how many frames, commands, packets, bus resets,
                     \* CLEAR_FEATURE requests and lost handshakes there may be, and
                     \* how many packets the host sends before the FPGA has read them

\* io.h, enum ioend
IO_NONE == 0
IO_CH552 == 4
IO_CDC == 8
IO_FIDO == 16
IO_CCID == 32
IO_DEBUG == 64

Modes == {IO_CH552, IO_CDC, IO_FIDO, IO_CCID, IO_DEBUG}
Endpoints == 2 .. 4

SET_ENDPOINTS == 1

FirstPayload == 256  \* payload bytes are numbers above all modes, lengths and masks

ASSUME SizeAssumption ==
  /\ {UART_RX_BUF_SIZE, CTS_STOP_AT, MaxLength, FIFO_SIZE, FIFO_STOP_AT} \subseteq Nat
  /\ MAX_FRAME_SIZE \in 2 .. FirstPayload /\ MAX_FRAME_SIZE <= MaxLength
  /\ MAX_FRAME_SIZE + 2 <= CTS_STOP_AT
  /\ CTS_STOP_AT + 4 < UART_RX_BUF_SIZE /\ UART_RX_BUF_SIZE <= 256
  /\ FIFO_STOP_AT + 2 <= FIFO_SIZE

ASSUME InputAssumption ==
  /\ \A m \in Modes \ {IO_CH552} : FrameLens[m] \subseteq 1 .. MAX_FRAME_SIZE
  /\ \A e \in Endpoints : PacketLens[e] \subseteq 0 .. MAX_FRAME_SIZE
  /\ Keeps \subseteq 0 .. 127
  /\ Budgets \subseteq
       [{"frames", "commands", "packets", "resets", "clears", "lost", "window"} -> Nat]

VARIABLES
  \* the FPGA and the two lines from it
  outq,              \* bytes of the frame being written, not yet on the line
  wire,              \* the byte on the line, if any
  fifo,              \* the receive FIFO
  rx,                \* what the FPGA has read of the current frame
  quiet,             \* it has set the endpoints and waits for the host
  \* the CH552
  RESET_KEEP,        \* endpoint mask, survives a software reset
  cts,               \* P1.5: TRUE tells the FPGA to stop
  ring,              \* UartRxBuf with its input and output pointers
  byteCount,         \* UartRxBufByteCount
  frame,             \* FrameStarted, FrameMode, FrameRemainingBytes, FrameDiscard
  FrameBuf,          \* a sequence of FrameBufLength bytes
  dataAvailable,     \* the modes whose XDataAvailable flag is set; IO_NONE: discard
  CdcSendZeroLenPacket,
  inEp,              \* endpoints towards the host
  outEp,             \* endpoints from the host
  UsbConfig,
  pc,                \* place in the main loop
  ep,                \* OUT endpoint looked at
  tx,                \* SendBuffer: length and position
  regs,              \* FrameMode, and the pointer or count, as last loaded
  \* history and bounds
  resend,            \* the host missed the handshake of its last packet
  owed,              \* frames written by the FPGA, not yet read by the host
  sent,              \* packets taken from the host, not yet read by the FPGA,
                     \* both as frames of a mode and its data
  disturbed,         \* there has been a bus reset or a CLEAR_FEATURE request
  torn,              \* the last bus reset fell into an update of the ring
  left               \* what is left of the budget

fpgavars == <<outq, wire, fifo, rx, quiet>>
uartvars == <<cts, ring>>
parsevars == <<byteCount, frame, FrameBuf, dataAvailable, CdcSendZeroLenPacket>>
usbvars == <<inEp, outEp, UsbConfig>>
loopvars == <<pc, ep, tx, regs>>
faults == <<disturbed, torn>>
ghost == <<faults, left>>
vars == <<fpgavars, RESET_KEEP, uartvars, parsevars, usbvars, loopvars,
          resend, owed, sent, ghost>>

-----------------------------------------------------------------------------
(* Helpers *)

Min2(a, b) == IF a < b THEN a ELSE b

\* main() builds the active endpoints from the mask that was kept.
ActiveEndpoints ==
  LET bits == {m \in Modes : (RESET_KEEP \div m) % 2 = 1} \cup {IO_CDC, IO_CH552}
  IN  IF {IO_FIDO, IO_CCID} \subseteq bits THEN bits \ {IO_FIDO, IO_CCID} ELSE bits

EndpointOf(m) ==
  CASE m = IO_CDC -> 2 [] m \in {IO_FIDO, IO_CCID} -> 3 [] m = IO_DEBUG -> 4

ModeOf(e) ==
  CASE e = 2 -> IO_CDC
    [] e = 3 /\ IO_FIDO \in ActiveEndpoints -> IO_FIDO
    [] e = 3 /\ IO_FIDO \notin ActiveEndpoints -> IO_CCID
    [] e = 4 -> IO_DEBUG

\* Endpoints that appear in the configuration descriptor.
Enabled == {e \in Endpoints : ModeOf(e) \in ActiveEndpoints}

\* What a byte means to a parser that expects a mode or a length; IO_NONE is
\* any byte that is not a mode.
AsMode(b) == IF b \in Modes THEN {b} ELSE Modes \cup {IO_NONE}
AsLength(b) == IF b <= MAX_FRAME_SIZE THEN {b} ELSE 0 .. MaxLength

uart_byte_count(in, out) ==
  IF in >= out THEN in - out ELSE UART_RX_BUF_SIZE - (out - in)

increment_pointer(p, n) == (p + n) % UART_RX_BUF_SIZE

\* Mutant: clear-to-send is withdrawn when the buffer is full.
Mutcheck_cts_stop(in, out) == uart_byte_count(in, out) >= UART_RX_BUF_SIZE - 1
check_cts_stop(in, out) == uart_byte_count(in, out) >= CTS_STOP_AT

\* Mutant: one memcpy, without the wrap.
Mutcircular_copy(start, n) ==
  [i \in 1 .. n |-> ring.buf[Min2(start + i - 1, UART_RX_BUF_SIZE - 1)]]
circular_copy(start, n) ==
  [i \in 1 .. n |-> ring.buf[increment_pointer(start, i - 1)]]

\* An action of the environment that the budget allows a number of times.
Spend(what) == left[what] > 0 /\ left' = [left EXCEPT ![what] = @ - 1]

Payload(n, len) == [i \in 1 .. len |-> FirstPayload + MAX_FRAME_SIZE * n + i]

Frame(m, data) == [mode |-> m, data |-> data]

\* A frame as bytes on the lines between the FPGA and the CH552.
Framed(f) == <<f.mode, Len(f.data)>> \o f.data

-----------------------------------------------------------------------------
(* Initial state: the CH552 after a reset with the mask it kept. *)

EmptyRing == [buf |-> [i \in 0 .. UART_RX_BUF_SIZE - 1 |-> 0], in |-> 0, out |-> 0]
NoFrame == [started |-> FALSE, mode |-> IO_NONE, remaining |-> 0, discard |-> FALSE]
IdleIn == [busy |-> FALSE, res |-> "NAK", data |-> <<>>]
NoRegs == [mode |-> IO_NONE, value |-> 0]
IdleOut == [count |-> 0, res |-> "ACK", data |-> [i \in 1 .. MAX_FRAME_SIZE |-> 0]]

Init ==
  /\ outq = <<>> /\ wire = <<>> /\ fifo = <<>> /\ rx = <<>> /\ quiet = FALSE
  /\ RESET_KEEP \in Keeps
  /\ cts = FALSE
  /\ ring = EmptyRing
  /\ byteCount = 0 /\ frame = NoFrame /\ FrameBuf = <<>>
  /\ dataAvailable = {} /\ CdcSendZeroLenPacket = FALSE
  /\ inEp = [e \in Endpoints |-> IdleIn]
  /\ outEp = [e \in Endpoints |-> IdleOut]
  /\ UsbConfig = FALSE
  /\ pc = "top" /\ ep = 2 /\ tx = [len |-> 0, pos |-> 0] /\ regs = NoRegs
  /\ resend = [e \in Endpoints |-> FALSE]
  /\ owed = [e \in Endpoints |-> <<>>]
  /\ sent = [e \in Endpoints |-> <<>>]
  /\ disturbed = FALSE /\ torn = FALSE /\ left \in Budgets

\* The reset the firmware gives itself: everything but RESET_KEEP starts over and
\* the host sees a new device.  Frames for the host and packets that have not been
\* forwarded are gone; what has been forwarded is in the FIFO of the FPGA.
SoftReset ==
  /\ wire' = <<>> /\ quiet' = FALSE
  /\ cts' = FALSE
  /\ ring' = EmptyRing
  /\ byteCount' = 0 /\ frame' = NoFrame /\ FrameBuf' = <<>>
  /\ dataAvailable' = {} /\ CdcSendZeroLenPacket' = FALSE
  /\ inEp' = [e \in Endpoints |-> IdleIn]
  /\ outEp' = [e \in Endpoints |-> IdleOut]
  /\ UsbConfig' = FALSE
  /\ pc' = "top" /\ ep' = 2 /\ tx' = [len |-> 0, pos |-> 0] /\ regs' = NoRegs
  /\ resend' = [e \in Endpoints |-> FALSE]
  /\ owed' = [e \in Endpoints |-> <<>>]
  /\ sent' = [e \in Endpoints |-> IF outEp[e].count > 0
                                  THEN SubSeq(sent[e], 1, Len(sent[e]) - 1) ELSE sent[e]]
  /\ torn' = FALSE
  /\ UNCHANGED <<outq, fifo, rx, disturbed, left>>

-----------------------------------------------------------------------------
(* The FPGA (libcommon/io.c) *)

\* write_with_header; the payload for the CH552 is the command and its mask.
FpgaWrite(m, len) ==
  /\ outq = <<>> /\ ~quiet
  /\ Spend("frames")
  /\ LET f == Frame(m, Payload(left.frames, len))
     IN  /\ outq' = Framed(f)
         /\ owed' = IF m \in ActiveEndpoints
                    THEN [owed EXCEPT ![EndpointOf(m)] = Append(@, f)] ELSE owed
  /\ UNCHANGED <<wire, fifo, rx, quiet, RESET_KEEP, uartvars, parsevars, usbvars,
                 loopvars, resend, sent, faults>>

FpgaSetEndpoints(mask) ==
  /\ outq = <<>> /\ ~quiet
  /\ Spend("commands")
  /\ outq' = Framed(Frame(IO_CH552, <<SET_ENDPOINTS, mask>>))
  /\ quiet' = TRUE
  /\ UNCHANGED <<wire, fifo, rx, RESET_KEEP, uartvars, parsevars, usbvars,
                 loopvars, resend, owed, sent, faults>>

\* writebyte: the byte is committed once clear-to-send was seen.
FpgaSend ==
  /\ wire = <<>> /\ outq # <<>> /\ ~cts
  /\ wire' = <<Head(outq)>>
  /\ outq' = Tail(outq)
  /\ UNCHANGED <<fifo, rx, quiet, RESET_KEEP, uartvars, parsevars, usbvars,
                 loopvars, resend, owed, sent, ghost>>

FrameRead == Len(rx) >= 2 /\ Len(rx) = 2 + rx[2]

\* readbyte, while nothing is being written.
FpgaRead ==
  /\ outq = <<>> /\ fifo # <<>> /\ ~FrameRead
  /\ rx' = Append(rx, Head(fifo))
  /\ fifo' = Tail(fifo)
  /\ UNCHANGED <<outq, wire, quiet, RESET_KEEP, uartvars, parsevars, usbvars,
                 loopvars, resend, owed, sent, ghost>>

FpgaTake ==
  /\ FrameRead
  /\ rx' = <<>>
  /\ sent' = [e \in Endpoints |-> IF sent[e] # <<>> /\ Head(sent[e]).mode = rx[1]
                                  THEN Tail(sent[e]) ELSE sent[e]]
  /\ UNCHANGED <<outq, wire, fifo, quiet, RESET_KEEP, uartvars, parsevars, usbvars,
                 loopvars, resend, owed, ghost>>

-----------------------------------------------------------------------------
(* Interrupts *)

\* Uart1_ISR with check_cts_stop.  The FPGA may have committed the next byte
\* before it sees clear-to-send withdrawn.
Uart1_ISR ==
  /\ wire # <<>>
  /\ LET in == (ring.in + 1) % UART_RX_BUF_SIZE
     IN  /\ ring' = [ring EXCEPT !.buf[ring.in] = Head(wire), !.in = in]
         /\ cts' = (cts \/ check_cts_stop(in, ring.out))
  /\ \/ wire' = <<>> /\ outq' = outq
     \/ ~cts /\ outq # <<>> /\ wire' = <<Head(outq)>> /\ outq' = Tail(outq)
  /\ UNCHANGED <<fifo, rx, quiet, RESET_KEEP, parsevars, usbvars, loopvars,
                 resend, owed, sent, ghost>>

\* IN token: the host reads what endpoint e offers.
InComplete(e) ==
  /\ UsbConfig /\ inEp[e].res = "ACK"
  /\ inEp' = [inEp EXCEPT ![e] = IdleIn]
  /\ owed' = IF inEp[e].data # <<>> /\ owed[e] # <<>>
             THEN [owed EXCEPT ![e] = Tail(@)] ELSE owed
  /\ UNCHANGED <<fpgavars, RESET_KEEP, uartvars, parsevars, outEp, UsbConfig,
                 loopvars, resend, sent, ghost>>

Received(e, data) ==
  [count |-> Len(data),
   res |-> IF e = 2 /\ data = <<>> THEN "ACK" ELSE "NAK",
   data |-> [i \in 1 .. MAX_FRAME_SIZE |->
               IF i <= Len(data) THEN data[i] ELSE outEp[e].data[i]]]

\* OUT token with the data toggle the endpoint expects (U_TOG_OK); `lost' is
\* whether the handshake is lost on the way to the host.
OutComplete(e, len, lost) ==
  /\ UsbConfig /\ e \in Enabled /\ outEp[e].res = "ACK" /\ ~resend[e]
  /\ Len(sent[2]) + Len(sent[3]) + Len(sent[4]) < left.window
  /\ LET data == Payload(left.packets, len)
     IN  /\ outEp' = [outEp EXCEPT ![e] = Received(e, data)]
         /\ sent' = IF len > 0 THEN [sent EXCEPT ![e] = Append(@, Frame(ModeOf(e), data))]
                    ELSE sent
  /\ left.packets > 0 /\ (lost => left.lost > 0)
  /\ left' = [left EXCEPT !.packets = @ - 1, !.lost = IF lost THEN @ - 1 ELSE @]
  /\ resend' = [resend EXCEPT ![e] = lost]
  /\ UNCHANGED <<fpgavars, RESET_KEEP, uartvars, parsevars, inEp, UsbConfig,
                 loopvars, owed, faults>>

\* Mutant: U_TOG_OK is not looked at.
MutOutRepeated(e) ==
  /\ UsbConfig /\ outEp[e].res = "ACK" /\ resend[e] /\ outEp[e].data # <<>>
  /\ resend' = [resend EXCEPT ![e] = FALSE]
  /\ outEp' = [outEp EXCEPT ![e].count = 1, ![e].res = "NAK"]
  /\ UNCHANGED <<fpgavars, RESET_KEEP, uartvars, parsevars, inEp, UsbConfig, loopvars,
                 owed, sent, ghost>>

\* The same packet once more: the toggle is wrong and the packet is dropped.
OutRepeated(e) ==
  /\ UsbConfig /\ outEp[e].res = "ACK" /\ resend[e]
  /\ resend' = [resend EXCEPT ![e] = FALSE]
  /\ UNCHANGED <<fpgavars, RESET_KEEP, uartvars, parsevars, usbvars, loopvars,
                 owed, sent, ghost>>

\* Places in the main loop where it goes on to use what it read of the ring, or
\* concluded from it.
Updating ==
  pc \in {"countOut", "countStore", "mode", "modeStore", "check", "skip", "skipStore",
          "sub", "subStore", "take", "move", "moveStore"}

\* Bus reset; the frame parser is not part of what it resets.  The UART interrupt
\* may bring a byte between the two assignments of the pointers.
BusReset ==
  /\ Spend("resets") /\ disturbed' = TRUE /\ torn' = Updating
  /\ inEp' = [e \in Endpoints |-> [IdleIn EXCEPT !.data = inEp[e].data]]
  /\ outEp' = [e \in Endpoints |-> [IdleOut EXCEPT !.data = outEp[e].data]]
  /\ \/ /\ ring' = [ring EXCEPT !.in = 0, !.out = 0]
        /\ UNCHANGED <<cts, wire>>
     \/ /\ wire # <<>>
        /\ ring' = [ring EXCEPT !.buf[0] = Head(wire), !.in = 1, !.out = 0]
        /\ cts' = (cts \/ check_cts_stop(1, ring.out))
        /\ wire' = <<>>
  /\ byteCount' = 0
  /\ frame' = [frame EXCEPT !.mode = IO_NONE]
  /\ UsbConfig' = FALSE
  /\ resend' = [e \in Endpoints |-> FALSE]
  /\ UNCHANGED <<outq, fifo, rx, quiet, RESET_KEEP, FrameBuf, dataAvailable,
                 CdcSendZeroLenPacket, loopvars, owed, sent>>

\* SETUP SET_CONFIGURATION, the end of enumeration.
SetConfiguration ==
  /\ ~UsbConfig
  /\ UsbConfig' = TRUE
  /\ UNCHANGED <<fpgavars, RESET_KEEP, uartvars, parsevars, inEp, outEp, loopvars,
                 resend, owed, sent, ghost>>

\* SETUP CLEAR_FEATURE(ENDPOINT_HALT) of an IN or an OUT endpoint.
ClearIn(e) ==
  /\ UsbConfig /\ e \in Enabled /\ Spend("clears")
  /\ disturbed' = TRUE
  /\ inEp' = [inEp EXCEPT ![e].res = "NAK"]
  /\ UNCHANGED <<fpgavars, RESET_KEEP, uartvars, parsevars, outEp, UsbConfig, loopvars,
                 resend, owed, sent, torn>>

ClearOut(e) ==
  /\ UsbConfig /\ e \in Enabled /\ ~resend[e] /\ Spend("clears")
  /\ disturbed' = TRUE
  /\ outEp' = [outEp EXCEPT ![e].res = "ACK"]
  /\ UNCHANGED <<fpgavars, RESET_KEEP, uartvars, parsevars, inEp, UsbConfig, loopvars,
                 resend, owed, sent, torn>>

-----------------------------------------------------------------------------
(* The main loop *)

Goto(l) == pc' = l /\ UNCHANGED <<ep, tx, regs>>

\* A value is loaded into a register, or it has been stored.
Load(v, l) == pc' = l /\ regs' = [regs EXCEPT !.value = v] /\ UNCHANGED <<ep, tx>>
Stored(l) == Load(0, l)

OnlyLoop ==
  UNCHANGED <<fpgavars, RESET_KEEP, uartvars, parsevars, usbvars, resend, owed, sent, ghost>>

Top ==
  /\ pc = "top" /\ UsbConfig
  /\ Goto("poll")
  /\ UNCHANGED <<fpgavars, RESET_KEEP, uartvars, parsevars, usbvars, resend, owed, sent, ghost>>

\* One byte to the FPGA; it is lost when the FIFO has no room.
Transmit(b) ==
  /\ fifo' = IF Len(fifo) < FIFO_SIZE THEN Append(fifo, b) ELSE fifo
  /\ UNCHANGED <<outq, wire, rx, quiet>>

FpgaCts == Len(fifo) >= FIFO_STOP_AT

NextEndpoint ==
  /\ tx' = [len |-> 0, pos |-> 0] /\ regs' = regs
  /\ \/ ep < 4 /\ ep' = ep + 1 /\ pc' = "poll"
     \/ ep = 4 /\ ep' = 2 /\ pc' = "count"

PollEmpty ==
  /\ pc = "poll" /\ outEp[ep].count = 0
  /\ NextEndpoint
  /\ UNCHANGED <<fpgavars, RESET_KEEP, uartvars, parsevars, usbvars, resend, owed, sent, ghost>>

\* CH554UART1SendByte compares the pin mask with 1, so it waits for nothing.
SendMode ==
  /\ pc = "poll" /\ outEp[ep].count > 0
  /\ Transmit(ModeOf(ep))
  /\ Goto("length")
  /\ UNCHANGED <<RESET_KEEP, uartvars, parsevars, usbvars, resend, owed, sent, ghost>>

SendLength ==
  /\ pc = "length"
  /\ Transmit(outEp[ep].count)
  /\ Goto("buffer")
  /\ UNCHANGED <<RESET_KEEP, uartvars, parsevars, usbvars, resend, owed, sent, ghost>>

SendBuffer ==
  /\ pc = "buffer"
  /\ tx' = [len |-> outEp[ep].count, pos |-> 0]
  /\ pc' = "data" /\ UNCHANGED <<ep, regs>>
  /\ UNCHANGED <<fpgavars, RESET_KEEP, uartvars, parsevars, usbvars, resend, owed, sent, ghost>>

SendData ==
  /\ pc = "data" /\ tx.pos < tx.len
  /\ ~FpgaCts
  /\ Transmit(outEp[ep].data[tx.pos + 1])
  /\ tx' = [tx EXCEPT !.pos = @ + 1]
  /\ UNCHANGED <<RESET_KEEP, uartvars, parsevars, usbvars, pc, ep, regs, resend, owed, sent, ghost>>

Forwarded ==
  /\ pc = "data" /\ tx.pos = tx.len
  /\ outEp' = [outEp EXCEPT ![ep].count = 0, ![ep].res = "ACK"]
  /\ NextEndpoint
  /\ UNCHANGED <<fpgavars, RESET_KEEP, uartvars, parsevars, inEp, UsbConfig, resend, owed, sent, ghost>>

\* UartRxBufByteCount = uart_byte_count(): two loads, a difference and a store.
Count ==
  /\ pc = "count"
  /\ Load(ring.in, "countOut")
  /\ OnlyLoop

CountOut ==
  /\ pc = "countOut"
  /\ Load(uart_byte_count(regs.value, ring.out), "countStore")
  /\ OnlyLoop

CountStore ==
  /\ pc = "countStore"
  /\ byteCount' = regs.value
  /\ Stored("header")
  /\ UNCHANGED <<fpgavars, RESET_KEEP, uartvars, frame, FrameBuf, dataAvailable,
                 CdcSendZeroLenPacket, usbvars, resend, owed, sent, ghost>>

HasHeader == byteCount >= 2 /\ ~frame.started

NoHeader ==
  /\ pc = "header" /\ ~HasHeader
  /\ pc' = "copy" /\ regs' = [regs EXCEPT !.mode = frame.mode]
  /\ UNCHANGED <<ep, tx>>
  /\ OnlyLoop

Header ==
  /\ pc = "header" /\ HasHeader
  /\ Goto("mode")
  /\ OnlyLoop

LoadMode ==
  /\ pc = "mode"
  /\ \E mode \in AsMode(ring.buf[ring.out]) : regs' = [regs EXCEPT !.mode = mode]
  /\ pc' = "modeStore"
  /\ UNCHANGED <<ep, tx>>
  /\ OnlyLoop

StoreMode ==
  /\ pc = "modeStore"
  /\ frame' = [frame EXCEPT !.mode = regs.mode]
  /\ Goto("check")
  /\ UNCHANGED <<fpgavars, RESET_KEEP, uartvars, byteCount, FrameBuf, dataAvailable,
                 CdcSendZeroLenPacket, usbvars, resend, owed, sent, ghost>>

\* FrameMode is not volatile: a test may find it in a register, where a bus reset
\* does not clear it, or in memory.
FrameMode == {regs.mode, frame.mode}

BadHeader ==
  /\ pc = "check" /\ IO_NONE \in FrameMode
  /\ SoftReset
  /\ RESET_KEEP' = RESET_KEEP

TakeLength(len) ==
  /\ pc = "check" /\ FrameMode # {IO_NONE}
  /\ len \in AsLength(ring.buf[increment_pointer(ring.out, 1)])
  /\ frame' = [frame EXCEPT !.remaining = len]
  /\ Goto("skip")
  /\ UNCHANGED <<fpgavars, RESET_KEEP, uartvars, byteCount, FrameBuf, dataAvailable,
                 CdcSendZeroLenPacket, usbvars, resend, owed, sent, ghost>>

\* The header is skipped in the ring and in the count, which is eight bits wide.
SkipHeader ==
  /\ pc = "skip"
  /\ Load(increment_pointer(ring.out, 2), "skipStore")
  /\ OnlyLoop

SkipStore ==
  /\ pc = "skipStore"
  /\ ring' = [ring EXCEPT !.out = regs.value]
  /\ Stored("sub")
  /\ UNCHANGED <<fpgavars, RESET_KEEP, cts, parsevars, usbvars, resend, owed, sent, ghost>>

Subtract ==
  /\ pc = "sub"
  /\ Load((byteCount + 254) % 256, "subStore")
  /\ OnlyLoop

SubStore ==
  /\ pc = "subStore"
  /\ byteCount' = regs.value
  /\ Stored("begin")
  /\ UNCHANGED <<fpgavars, RESET_KEEP, uartvars, frame, FrameBuf, dataAvailable,
                 CdcSendZeroLenPacket, usbvars, resend, owed, sent, ghost>>

\* Mutant: frames to inactive endpoints are not marked.
MutDiscards(mode) == FALSE
Discards(mode) == mode \notin ActiveEndpoints

StartFrame ==
  /\ pc = "begin"
  /\ \E mode \in FrameMode :
       frame' = [frame EXCEPT !.started = TRUE, !.discard = @ \/ Discards(mode)]
  /\ Goto("copy")
  /\ UNCHANGED <<fpgavars, RESET_KEEP, uartvars, byteCount, FrameBuf, dataAvailable,
                 CdcSendZeroLenPacket, usbvars, resend, owed, sent, ghost>>

\* What the copy blocks take at once; a FIDO frame must be a full packet.
Chunk == Min2(frame.remaining, MAX_FRAME_SIZE)

CanCopy(mode) ==
  /\ frame.started /\ ~frame.discard
  /\ mode \in Modes \ dataAvailable
  /\ mode = IO_FIDO => frame.remaining >= MAX_FRAME_SIZE
  /\ byteCount >= Chunk

CanDiscard ==
  /\ frame.started /\ frame.discard
  /\ IO_NONE \notin dataAvailable
  /\ byteCount >= Chunk

\* The copy block of a mode, or of IO_NONE: the discard block, which copies nothing.
Enter(mode, l) ==
  /\ pc = "copy" /\ pc' = l
  /\ regs' = [regs EXCEPT !.mode = mode]
  /\ UNCHANGED <<ep, tx>>
  /\ OnlyLoop

CopyBlock(mode) == mode \in FrameMode /\ CanCopy(mode) /\ Enter(mode, "take")

DiscardBlock == CanDiscard /\ Enter(IO_NONE, "move")

NoBlock == ~CanDiscard /\ (\E mode \in FrameMode : ~CanCopy(mode)) /\ Enter(IO_NONE, "cdc")

Copy ==
  /\ pc = "take"
  /\ FrameBuf' = circular_copy(ring.out, Chunk)
  /\ Goto("move")
  /\ UNCHANGED <<fpgavars, RESET_KEEP, uartvars, byteCount, frame, dataAvailable,
                 CdcSendZeroLenPacket, usbvars, resend, owed, sent, ghost>>

SkipChunk ==
  /\ pc = "move"
  /\ Load(increment_pointer(ring.out, Chunk), "moveStore")
  /\ OnlyLoop

ChunkStore ==
  /\ pc = "moveStore"
  /\ ring' = [ring EXCEPT !.out = regs.value]
  /\ frame' = [frame EXCEPT !.remaining = @ - Chunk]
  /\ dataAvailable' = dataAvailable \cup {regs.mode}
  /\ Stored("resume")
  /\ UNCHANGED <<fpgavars, RESET_KEEP, cts, byteCount, FrameBuf, CdcSendZeroLenPacket,
                 usbvars, resend, owed, sent, ghost>>

\* Mutant: clear-to-send is not given back.
Mutcts_start ==
  /\ pc = "resume"
  /\ pc' = "cdc" /\ regs' = NoRegs /\ UNCHANGED <<ep, tx>>
  /\ OnlyLoop
cts_start ==
  /\ pc = "resume"
  /\ cts' = FALSE
  /\ pc' = "cdc" /\ regs' = NoRegs /\ UNCHANGED <<ep, tx>>
  /\ UNCHANGED <<fpgavars, RESET_KEEP, ring, parsevars, usbvars, resend, owed, sent, ghost>>

\* What a frame looks like in the endpoint's buffer; HID reports have one size.
Packet(m, payload) ==
  IF m = IO_DEBUG
  THEN [i \in 1 .. MAX_FRAME_SIZE |-> IF i <= Len(payload) THEN payload[i] ELSE 0]
  ELSE payload

Offer(e, data) == inEp' = [inEp EXCEPT ![e] = [busy |-> TRUE, res |-> "ACK", data |-> data]]

\* A frame of several packets goes on, the others look for the next header.
FrameDone(ends) ==
  frame' = [frame EXCEPT !.started = @ /\ ~(ends \/ frame.remaining = 0)]

Uploaded(m, ends) ==
  /\ Offer(EndpointOf(m), Packet(m, FrameBuf))
  /\ dataAvailable' = dataAvailable \ {m}
  /\ FrameBuf' = <<>>
  /\ FrameDone(ends)

CanUpload(m) == m \in dataAvailable /\ ~inEp[EndpointOf(m)].busy

UploadCdc ==
  /\ pc = "cdc"
  /\ \/ /\ CanUpload(IO_CDC)
        /\ CdcSendZeroLenPacket' = (CdcSendZeroLenPacket \/ Len(FrameBuf) = MAX_FRAME_SIZE)
        /\ Uploaded(IO_CDC, FALSE)
     \/ /\ ~CanUpload(IO_CDC)
        /\ UNCHANGED <<CdcSendZeroLenPacket, inEp, dataAvailable, FrameBuf, frame>>
  /\ Goto("zlp")
  /\ UNCHANGED <<fpgavars, RESET_KEEP, uartvars, byteCount, outEp, UsbConfig,
                 resend, owed, sent, ghost>>

UploadZlp ==
  /\ pc = "zlp"
  /\ \/ /\ CdcSendZeroLenPacket /\ ~inEp[2].busy
        /\ Offer(2, <<>>)
        /\ CdcSendZeroLenPacket' = FALSE
     \/ /\ ~(CdcSendZeroLenPacket /\ ~inEp[2].busy)
        /\ UNCHANGED <<inEp, CdcSendZeroLenPacket>>
  /\ Goto("other")
  /\ UNCHANGED <<fpgavars, RESET_KEEP, uartvars, byteCount, frame, FrameBuf, dataAvailable,
                 outEp, UsbConfig, resend, owed, sent, ghost>>

\* The FIDO, CCID and DEBUG blocks.
UploadOther(m) ==
  /\ pc = "other" /\ CanUpload(m)
  /\ Uploaded(m, m # IO_DEBUG)
  /\ Goto("top")
  /\ UNCHANGED <<fpgavars, RESET_KEEP, uartvars, byteCount, CdcSendZeroLenPacket,
                 outEp, UsbConfig, resend, owed, sent, ghost>>

\* FrameBuf[i], which is read whatever the length of the frame: beyond it there is
\* what earlier frames left.
FrameByte(i) ==
  IF i <= Len(FrameBuf) /\ FrameBuf[i] < FirstPayload THEN {FrameBuf[i]}
  ELSE Keeps \cup {0, SET_ENDPOINTS}

\* The command block: SET_ENDPOINTS resets the controller.
Command ==
  /\ pc = "other" /\ IO_CH552 \in dataAvailable
  /\ SET_ENDPOINTS \in FrameByte(1)
  /\ RESET_KEEP' \in FrameByte(2)
  /\ SoftReset

NoCommand ==
  /\ pc = "other" /\ IO_CH552 \in dataAvailable
  /\ FrameByte(1) # {SET_ENDPOINTS}
  /\ dataAvailable' = dataAvailable \ {IO_CH552}
  /\ FrameBuf' = <<>>
  /\ FrameDone(FALSE)
  /\ Goto("top")
  /\ UNCHANGED <<fpgavars, RESET_KEEP, uartvars, byteCount, CdcSendZeroLenPacket,
                 usbvars, resend, owed, sent, ghost>>

Discarded ==
  /\ pc = "other" /\ IO_NONE \in dataAvailable
  /\ dataAvailable' = dataAvailable \ {IO_NONE}
  /\ frame' = [frame EXCEPT !.started = @ /\ frame.remaining # 0,
                            !.discard = @ /\ frame.remaining # 0]
  /\ Goto("top")
  /\ UNCHANGED <<fpgavars, RESET_KEEP, uartvars, byteCount, FrameBuf, CdcSendZeroLenPacket,
                 usbvars, resend, owed, sent, ghost>>

NothingElse ==
  /\ pc = "other"
  /\ \A m \in {IO_FIDO, IO_CCID, IO_DEBUG} : ~CanUpload(m)
  /\ dataAvailable \cap {IO_CH552, IO_NONE} = {}
  /\ Goto("top")
  /\ UNCHANGED <<fpgavars, RESET_KEEP, uartvars, parsevars, usbvars, resend, owed, sent, ghost>>

MainLoop ==
  \/ Top \/ PollEmpty \/ SendMode \/ SendLength \/ SendBuffer \/ SendData \/ Forwarded
  \/ Count \/ CountOut \/ CountStore
  \/ NoHeader \/ Header \/ LoadMode \/ StoreMode \/ BadHeader
  \/ \E len \in 0 .. MaxLength : TakeLength(len)
  \/ SkipHeader \/ SkipStore \/ Subtract \/ SubStore \/ StartFrame
  \/ \E mode \in Modes : CopyBlock(mode)
  \/ DiscardBlock \/ NoBlock \/ Copy \/ SkipChunk \/ ChunkStore \/ cts_start
  \/ UploadCdc \/ UploadZlp
  \/ \E m \in {IO_FIDO, IO_CCID, IO_DEBUG} : UploadOther(m)
  \/ Command \/ NoCommand \/ Discarded \/ NothingElse

Fpga ==
  \/ \E m \in Modes \ {IO_CH552} : \E len \in FrameLens[m] : FpgaWrite(m, len)
  \/ \E mask \in Keeps : FpgaSetEndpoints(mask)
  \/ FpgaSend \/ FpgaRead \/ FpgaTake

Host ==
  \/ \E e \in Endpoints : InComplete(e) \/ OutRepeated(e) \/ ClearIn(e) \/ ClearOut(e)
  \/ \E e \in Endpoints : \E len \in PacketLens[e], lost \in BOOLEAN : OutComplete(e, len, lost)
  \/ BusReset \/ SetConfiguration

Next == MainLoop \/ Uart1_ISR \/ Fpga \/ Host

Spec == Init /\ [][Next]_vars

\* The processors run, the lines deliver, the host polls every IN endpoint and
\* configures the device.  Nobody has to write, send, reset or clear.
Fairness ==
  /\ WF_vars(MainLoop) /\ WF_vars(Uart1_ISR)
  /\ WF_vars(FpgaSend) /\ WF_vars(FpgaRead) /\ WF_vars(FpgaTake)
  /\ WF_vars(SetConfiguration)
  /\ \A e \in Endpoints : WF_vars(InComplete(e))

FairSpec == Spec /\ Fairness

-----------------------------------------------------------------------------
(* Properties *)

Fill == uart_byte_count(ring.in, ring.out)

\* The UART interrupt never overwrites what the main loop has not read yet:
\* clear-to-send is withdrawn early enough (Uart1_ISR, check_cts_stop), although
\* the interrupt and the main loop both set it.  This holds after a bus reset too,
\* unless the last one fell between a load and a store of a pointer or of the count.
NoOverrun == [][Uart1_ISR /\ ~torn => Fill' = Fill + 1]_vars

\* main.c 646: a bus reset sets both pointers to 0, so the ring is empty and
\* nothing but the UART puts bytes into it.
NothingFromNowhere == [][Fill' > Fill => Uart1_ISR \/ BusReset]_vars

\* What an endpoint offers the host is the oldest frame the FPGA wrote to it,
\* whole and unmixed, across the wrap of the ring, the frame buffer that all
\* endpoints share, and endpoints that are busy.
UploadsInOrder ==
  ~disturbed =>
    \A e \in Endpoints :
      inEp[e].res = "ACK" /\ inEp[e].data # <<>>
        => owed[e] # <<>> /\ inEp[e].data = Packet(Head(owed[e]).mode, Head(owed[e]).data)

\* A frame the FPGA reads is the oldest packet the host sent to that endpoint,
\* once each, also when a handshake is lost and the packet comes again, and when
\* the CH552 has reset itself in between.
DeliveredIsSent ==
  FrameRead /\ ~disturbed =>
    \E e \in Endpoints : sent[e] # <<>> /\ rx = Framed(Head(sent[e]))

\* Nothing is offered on an endpoint the firmware has switched off, whatever
\* the parser takes for a header after a bus reset.
OnlyActiveEndpoints ==
  \A e \in Endpoints : inEp[e].res = "ACK" => e \in Enabled

\* Each side waits for the other's clear-to-send: the main loop of the CH552 sends
\* a packet to a full FIFO, the FPGA writes a frame to a full ring, and neither
\* reads meanwhile.  The FIFO fills only when the host does not wait for replies.
Standoff ==
  /\ pc = "data" /\ tx.pos < tx.len /\ FpgaCts
  /\ outq # <<>> /\ cts
  /\ left.window * (MAX_FRAME_SIZE + 2) > FIFO_STOP_AT

Pending == quiet \/ \E e \in Endpoints : owed[e] # <<>> \/ sent[e] # <<>>

\* Every frame the FPGA writes to an active endpoint reaches the host, every
\* packet of the host reaches the FPGA, and a SET_ENDPOINTS command is executed,
\* through both flow controls.  The standoff is the only way they may all stop, and
\* it takes more packets under way than the FIFO has room for.
EverythingArrives == Pending ~> ~Pending \/ disturbed \/ Standoff

\* main.c 1883 and 1897: a CDC frame of a full packet is terminated by a
\* zero-length packet, before anything else goes to the endpoint.
FullFramesTerminated ==
  [][CdcSendZeroLenPacket /\ inEp[2].res = "NAK" /\ inEp'[2].res = "ACK"
       => inEp'[2].data = <<>>]_vars
=============================================================================
