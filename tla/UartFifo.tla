------------------------------- MODULE UartFifo -------------------------------
(***************************************************************************)
(* The receive side of the UART at the granularity of a clock edge: the    *)
(* hand-over of a byte from the receive engine (uart_core.v, ERX_STOP and  *)
(* ERX_SYN) to the FIFO (uart_fifo.v), the read by the CPU (uart.v, the    *)
(* address RX_DATA) and the clear-to-send signal.                          *)
(*                                                                         *)
(* A step is one rising edge: every register takes the value computed from *)
(* the registers before it.  The bits on the line are left out: `arrival'  *)
(* is the moment a good stop bit has been sampled.  The engine waits in    *)
(* ERX_SYN until the FIFO has taken its byte, and a byte on the line       *)
(* meanwhile is not seen.                                                  *)
(***************************************************************************)
EXTENDS Naturals, Sequences

CONSTANTS
  FIFO_WORDS,  \* size of fifo_mem, 512; one entry stays unused
  CTS_AT,      \* fill level from which no more data is wanted, 486
  Byte         \* what a byte may be

ASSUME FifoAssumption ==
  /\ FIFO_WORDS \in Nat /\ FIFO_WORDS > 1
  /\ CTS_AT \in Nat
  /\ Byte # {}

VARIABLES
  fifo_mem, in_ptr_reg, out_ptr_reg, byte_ctr_reg, in_ack_reg,
  fpga_cts_reg,   \* TRUE asks the CH552 to stop
  rxd_syn_reg,    \* the receive engine holds a byte
  rxd_byte_reg
fifovars == <<fifo_mem, in_ptr_reg, out_ptr_reg, byte_ctr_reg, in_ack_reg, fpga_cts_reg,
              rxd_syn_reg, rxd_byte_reg>>

Slot == 0 .. FIFO_WORDS - 1

fifo_empty == byte_ctr_reg = 0
fifo_full == byte_ctr_reg = FIFO_WORDS - 1

\* uart.v, RX_STATUS and RX_DATA
can_rx == ~fifo_empty
rx == fifo_mem[out_ptr_reg]

\* A pointer has exactly the bits it needs and wraps.
Succ(ptr) == IF ptr = FIFO_WORDS - 1 THEN 0 ELSE ptr + 1

FifoInit ==
  /\ fifo_mem \in [Slot -> Byte]
  /\ in_ptr_reg = 0 /\ out_ptr_reg = 0 /\ byte_ctr_reg = 0
  /\ in_ack_reg = FALSE /\ fpga_cts_reg = FALSE
  /\ rxd_syn_reg = FALSE
  /\ rxd_byte_reg \in Byte

TakenTwice == rxd_syn_reg /\ ~fifo_full

(* in_logic: a byte is taken once, and not while the FIFO is full. *)
fifo_mem_we == rxd_syn_reg /\ ~in_ack_reg /\ ~fifo_full

(* out_logic: a read of RX_DATA takes a byte unless there is none. *)
out_ptr_we(out_ack) == out_ack /\ ~fifo_empty

\* byte_ctr: a read and a write on the same edge cancel out.
byte_ctr_new(inc, dec) ==
  CASE inc /\ ~dec -> byte_ctr_reg + 1
    [] ~inc /\ dec -> byte_ctr_reg - 1
    [] OTHER -> byte_ctr_reg

(* One rising edge.  `out_ack': the CPU reads RX_DATA; `arrival': a byte `b'
   has come in on the line. *)
Edge(out_ack, arrival, b) ==
  /\ IF fifo_mem_we
     THEN /\ fifo_mem' = [fifo_mem EXCEPT ![in_ptr_reg] = rxd_byte_reg]
          /\ in_ptr_reg' = Succ(in_ptr_reg)
     ELSE UNCHANGED <<fifo_mem, in_ptr_reg>>
  /\ out_ptr_reg' = IF out_ptr_we(out_ack) THEN Succ(out_ptr_reg) ELSE out_ptr_reg
  /\ byte_ctr_reg' = byte_ctr_new(fifo_mem_we, out_ptr_we(out_ack))
  /\ in_ack_reg' = fifo_mem_we
  /\ fpga_cts_reg' = (byte_ctr_reg >= CTS_AT)
  /\ IF rxd_syn_reg
     THEN rxd_syn_reg' = ~in_ack_reg /\ UNCHANGED rxd_byte_reg
     ELSE /\ rxd_syn_reg' = arrival
          /\ rxd_byte_reg' = IF arrival THEN b ELSE rxd_byte_reg

FifoNext == \E out_ack, arrival \in BOOLEAN, b \in Byte : Edge(out_ack, arrival, b)

FifoSpec == FifoInit /\ [][FifoNext]_fifovars

(* An edge without a read or an arrival that changes something. *)
Unsettled ==
  rxd_syn_reg \/ in_ack_reg \/ (fpga_cts_reg # (byte_ctr_reg >= CTS_AT))

(***************************************************************************)
(* The bytes in the FIFO, oldest first, and those the engine still has to  *)
(* hand over.                                                              *)
(***************************************************************************)
SlotAfter(i) == IF out_ptr_reg + i < FIFO_WORDS THEN out_ptr_reg + i
                                                ELSE out_ptr_reg + i - FIFO_WORDS
FifoBytes == [i \in 1 .. byte_ctr_reg |-> fifo_mem[SlotAfter(i - 1)]]
Received == FifoBytes \o (IF rxd_syn_reg /\ ~in_ack_reg THEN <<rxd_byte_reg>> ELSE <<>>)

(* The three counters describe the same queue: the write pointer is the read
   pointer plus the fill level, so a byte is never written over an unread one
   and the flag that says `empty' is never about a full FIFO. *)
PointersAgree ==
  /\ byte_ctr_reg \in Slot
  /\ in_ptr_reg = SlotAfter(byte_ctr_reg)
=============================================================================
