---------------------------- MODULE FwProtoProofs ----------------------------
(***************************************************************************)
(* The command channel, for every size of the FIFO and of the packets,     *)
(* every way the host cuts the bytes and every debug packet in between:    *)
(* the receive FIFO is a queue and never full, the firmware stays in step  *)
(* with the CH552, and the layers implement the channel.                   *)
(***************************************************************************)
EXTENDS FwProto, SequenceTheorems, TLAPS

\* The fill level alone does not say that the pointers agree: each is kept by
\* logic of its own, so the invariant ties all three, and what is stored.
FifoInv ==
  /\ PointersAgree
  /\ in_ptr_reg \in Slot /\ out_ptr_reg \in Slot
  /\ fifo_mem \in [Slot -> Byte]
  /\ rxd_byte_reg \in Byte
  /\ in_ack_reg \in BOOLEAN /\ rxd_syn_reg \in BOOLEAN

LEMMA SuccIsSlot == \A p \in Slot : Succ(p) \in Slot
BY FifoAssumption DEF Slot, Succ

LEMMA FifoInitially == FifoInit => FifoInv
<1> SUFFICES ASSUME FifoInit PROVE FifoInv
  OBVIOUS
<1>1. PointersAgree /\ in_ptr_reg \in Slot /\ out_ptr_reg \in Slot
  BY FifoAssumption DEF FifoInit, PointersAgree, Slot, SlotAfter
<1>2. /\ fifo_mem \in [Slot -> Byte] /\ rxd_byte_reg \in Byte
      /\ in_ack_reg \in BOOLEAN /\ rxd_syn_reg \in BOOLEAN
  BY DEF FifoInit
<1> QED BY <1>1, <1>2 DEF FifoInv

\* One edge keeps the counters in step.
LEMMA EdgeKeepsInv ==
  ASSUME FifoInv, NEW out_ack \in BOOLEAN, NEW arrival \in BOOLEAN, NEW b \in Byte,
         Edge(out_ack, arrival, b)
  PROVE  FifoInv'
<1> DEFINE we == fifo_mem_we
           re == out_ptr_we(out_ack)
<1>1. we \in BOOLEAN /\ re \in BOOLEAN
  BY DEF fifo_mem_we, out_ptr_we, FifoInv, fifo_full, fifo_empty
<1>2. (we => byte_ctr_reg < FIFO_WORDS - 1) /\ (re => byte_ctr_reg > 0)
  BY FifoAssumption DEF fifo_mem_we, out_ptr_we, fifo_full, fifo_empty, FifoInv, PointersAgree, Slot
<1>3. /\ in_ptr_reg' = IF we THEN Succ(in_ptr_reg) ELSE in_ptr_reg
      /\ out_ptr_reg' = IF re THEN Succ(out_ptr_reg) ELSE out_ptr_reg
  BY DEF Edge
<1>4. byte_ctr_reg' = IF we /\ ~re THEN byte_ctr_reg + 1
                      ELSE IF ~we /\ re THEN byte_ctr_reg - 1 ELSE byte_ctr_reg
  BY <1>1 DEF Edge, byte_ctr_new
<1>5. fifo_mem' \in [Slot -> Byte]
  BY DEF Edge, FifoInv
<1>6. rxd_byte_reg' \in Byte /\ in_ack_reg' \in BOOLEAN /\ rxd_syn_reg' \in BOOLEAN
  BY <1>1 DEF Edge, FifoInv
<1> HIDE DEF we, re
<1>7. in_ptr_reg' \in Slot /\ out_ptr_reg' \in Slot
  BY <1>1, <1>3, SuccIsSlot DEF FifoInv
<1>8. byte_ctr_reg' \in Slot
  BY <1>1, <1>2, <1>4, FifoAssumption DEF FifoInv, PointersAgree, Slot
<1>9. in_ptr_reg' = SlotAfter(byte_ctr_reg)'
  BY <1>1, <1>2, <1>3, <1>4, FifoAssumption DEF FifoInv, PointersAgree, Slot, SlotAfter, Succ
<1> QED BY <1>5, <1>6, <1>7, <1>8, <1>9 DEF FifoInv, PointersAgree

LEMMA FifoInvariant == FifoSpec => []FifoInv
<1>1. FifoInv /\ [FifoNext]_fifovars => FifoInv'
  <2> SUFFICES ASSUME FifoInv, [FifoNext]_fifovars PROVE FifoInv'
    OBVIOUS
  <2>1. CASE FifoNext
    BY <2>1, EdgeKeepsInv DEF FifoNext
  <2>2. CASE UNCHANGED fifovars
    BY <2>2 DEF fifovars, FifoInv, PointersAgree, SlotAfter
  <2> QED BY <2>1, <2>2
<1> QED BY <1>1, FifoInitially, PTL DEF FifoSpec

\* The fill level is always the distance of the two pointers, so `empty' and
\* `full' are never mistaken for each other (uart_fifo.v keeps the three apart).
THEOREM PointersAlwaysAgree == FifoSpec => []PointersAgree
<1>1. FifoInv => PointersAgree
  BY DEF FifoInv
<1> QED BY <1>1, FifoInvariant, PTL

\* On an edge the FIFO behaves as a queue: what is read leaves at the front, what
\* is taken from the line joins at the end, and every other byte keeps its place,
\* when both happen on the same edge too.
THEOREM FifoIsQueue ==
  ASSUME FifoInv, NEW out_ack \in BOOLEAN, NEW arrival \in BOOLEAN, NEW b \in Byte,
         Edge(out_ack, arrival, b)
  PROVE  LET gone == IF out_ptr_we(out_ack) THEN 1 ELSE 0
             came == IF fifo_mem_we THEN 1 ELSE 0
         IN /\ byte_ctr_reg' = byte_ctr_reg - gone + came
            /\ \A i \in 1 .. byte_ctr_reg - gone : FifoBytes'[i] = FifoBytes[i + gone]
            /\ fifo_mem_we => FifoBytes'[byte_ctr_reg'] = rxd_byte_reg
<1> DEFINE we == fifo_mem_we
           re == out_ptr_we(out_ack)
           gone == IF re THEN 1 ELSE 0
           came == IF we THEN 1 ELSE 0
<1>1. we \in BOOLEAN /\ re \in BOOLEAN
  BY DEF fifo_mem_we, out_ptr_we, FifoInv, fifo_full, fifo_empty
<1>2. (we => byte_ctr_reg < FIFO_WORDS - 1) /\ (re => byte_ctr_reg > 0)
  BY FifoAssumption DEF fifo_mem_we, out_ptr_we, fifo_full, fifo_empty, FifoInv, PointersAgree, Slot
<1>3. out_ptr_reg' = IF re THEN Succ(out_ptr_reg) ELSE out_ptr_reg
  BY DEF Edge
<1>4. byte_ctr_reg' = byte_ctr_reg - gone + came
  BY <1>1 DEF Edge, byte_ctr_new, FifoInv, PointersAgree, Slot
<1>5. fifo_mem' = IF we THEN [fifo_mem EXCEPT ![in_ptr_reg] = rxd_byte_reg] ELSE fifo_mem
  BY DEF Edge
<1>6. FifoBytes' = [i \in 1 .. byte_ctr_reg' |-> fifo_mem'[SlotAfter(i - 1)']]
  BY DEF FifoBytes
<1> HIDE DEF we, re
<1>7. byte_ctr_reg \in Slot /\ out_ptr_reg \in Slot /\ in_ptr_reg = SlotAfter(byte_ctr_reg)
      /\ fifo_mem \in [Slot -> Byte]
  BY DEF FifoInv, PointersAgree
<1>8. ASSUME NEW i \in 1 .. byte_ctr_reg - gone
      PROVE  FifoBytes'[i] = FifoBytes[i + gone]
  <2>1. i \in 1 .. byte_ctr_reg' /\ i + gone \in 1 .. byte_ctr_reg
    BY <1>4, <1>7 DEF Slot
  <2>2. SlotAfter(i - 1)' = SlotAfter(i + gone - 1)
    BY <1>1, <1>2, <1>3, <1>7, FifoAssumption DEF SlotAfter, Succ, Slot
  <2>3. SlotAfter(i + gone - 1) \in Slot /\ SlotAfter(i + gone - 1) # in_ptr_reg
    BY <2>1, <1>7, FifoAssumption DEF SlotAfter, Slot
  <2>4. fifo_mem'[SlotAfter(i + gone - 1)] = fifo_mem[SlotAfter(i + gone - 1)]
    BY <2>3, <1>5, <1>7
  <2> QED BY <2>1, <2>2, <2>4, <1>6 DEF FifoBytes
<1>9. ASSUME we PROVE FifoBytes'[byte_ctr_reg'] = rxd_byte_reg
  <2>1. byte_ctr_reg' \in 1 .. byte_ctr_reg'
    BY <1>2, <1>4, <1>7, <1>9 DEF Slot
  <2>2. \A k \in Nat : k = byte_ctr_reg' => SlotAfter(k - 1)' = in_ptr_reg
    BY <1>1, <1>2, <1>3, <1>4, <1>7, <1>9, FifoAssumption DEF SlotAfter, Succ, Slot
  <2>3. in_ptr_reg \in Slot
    BY <1>7, FifoAssumption DEF SlotAfter, Slot
  <2>4. ASSUME NEW k \in Nat, k = byte_ctr_reg' PROVE FifoBytes'[k] = fifo_mem'[in_ptr_reg]
    BY <2>1, <2>2, <2>4, <1>6
  <2>5. byte_ctr_reg' \in Nat
    BY <1>1, <1>2, <1>4, <1>7 DEF Slot
  <2> QED BY <2>3, <2>4, <2>5, <1>5, <1>7, <1>9
<1> QED BY <1>4, <1>8, <1>9 DEF we, re

(***************************************************************************)
(* What the engine holds and the FIFO hold is one queue of bytes.          *)
(***************************************************************************)
Engine == IF rxd_syn_reg /\ ~in_ack_reg THEN <<rxd_byte_reg>> ELSE <<>>

\* The stored bytes, whatever the three registers are, are a sequence.
Stored(ctr, ptr, mem) ==
  [i \in 1 .. ctr |-> mem[IF ptr + (i - 1) < FIFO_WORDS THEN ptr + (i - 1)
                          ELSE ptr + (i - 1) - FIFO_WORDS]]

LEMMA StoredBytes ==
  ASSUME NEW ctr \in Slot, NEW ptr \in Slot, NEW mem \in [Slot -> Byte]
  PROVE  LET s == Stored(ctr, ptr, mem)
         IN  s \in Seq(Byte) /\ Len(s) = ctr /\ (ctr > 0 => s[1] = mem[ptr])
<1> DEFINE s == Stored(ctr, ptr, mem)
<1>1. ctr \in Nat /\ ptr \in Nat /\ ptr < FIFO_WORDS /\ ctr < FIFO_WORDS
  BY FifoAssumption DEF Slot
<1>2. ASSUME NEW i \in 1 .. ctr PROVE s[i] \in Byte
  <2>1. (IF ptr + (i - 1) < FIFO_WORDS THEN ptr + (i - 1) ELSE ptr + (i - 1) - FIFO_WORDS) \in Slot
    BY <1>1, FifoAssumption DEF Slot
  <2> QED BY <2>1 DEF Stored
<1>3. s \in [1 .. ctr -> Byte]
  BY <1>2 DEF Stored
<1>4. s \in Seq(Byte) /\ Len(s) = ctr
  BY <1>1, <1>3, IsASeq
<1>5. ASSUME ctr > 0 PROVE s[1] = mem[ptr]
  <2>1. 1 \in 1 .. ctr
    BY <1>1, <1>5
  <2>2. ptr + (1 - 1) = ptr
    BY <1>1
  <2>3. s[1] = mem[IF ptr + (1 - 1) < FIFO_WORDS THEN ptr + (1 - 1)
                                            ELSE ptr + (1 - 1) - FIFO_WORDS]
    BY <2>1 DEF Stored
  <2> QED BY <2>2, <2>3, <1>1
<1> QED BY <1>4, <1>5

LEMMA ReceivedType ==
  ASSUME FifoInv
  PROVE  /\ FifoBytes \in Seq(Byte) /\ Len(FifoBytes) = byte_ctr_reg
         /\ Engine \in Seq(Byte) /\ Received = FifoBytes \o Engine
         /\ Received \in Seq(Byte)
         /\ byte_ctr_reg \in Nat /\ byte_ctr_reg < FIFO_WORDS
         /\ can_rx => FifoBytes # <<>> /\ Head(FifoBytes) = rx
<1>1. byte_ctr_reg \in Slot /\ byte_ctr_reg \in Nat /\ byte_ctr_reg < FIFO_WORDS
  BY FifoAssumption DEF FifoInv, PointersAgree, Slot
<1>2. /\ FifoBytes \in Seq(Byte) /\ Len(FifoBytes) = byte_ctr_reg
      /\ byte_ctr_reg > 0 => FifoBytes[1] = rx
  <2>1. FifoBytes \in Seq(Byte) /\ Len(FifoBytes) = byte_ctr_reg
        /\ (byte_ctr_reg > 0 => FifoBytes[1] = fifo_mem[out_ptr_reg])
    <3>1. out_ptr_reg \in Slot /\ fifo_mem \in [Slot -> Byte]
      BY DEF FifoInv
    <3>2. FifoBytes = Stored(byte_ctr_reg, out_ptr_reg, fifo_mem)
      BY DEF FifoBytes, SlotAfter, Stored
    <3> QED BY <1>1, <3>1, <3>2, StoredBytes
  <2> QED BY <2>1 DEF rx
<1>3. Engine \in Seq(Byte)
  BY DEF Engine, FifoInv
<1>4. Received = FifoBytes \o Engine
  BY DEF Received, Engine
<1>5. ASSUME can_rx PROVE FifoBytes # <<>> /\ Head(FifoBytes) = rx
  <2>1. byte_ctr_reg > 0
    BY <1>1, <1>5 DEF can_rx, fifo_empty
  <2> QED BY <1>1, <1>2, <2>1
<1> QED BY <1>1, <1>2, <1>3, <1>4, <1>5

LEMMA ReceivedTypeNext ==
  ASSUME FifoInv'
  PROVE  /\ FifoBytes' \in Seq(Byte) /\ Len(FifoBytes') = byte_ctr_reg'
         /\ Engine' \in Seq(Byte) /\ Received' = FifoBytes' \o Engine'
<1>1. byte_ctr_reg' \in Slot
  BY DEF FifoInv, PointersAgree
<1>2. FifoBytes' \in Seq(Byte) /\ Len(FifoBytes') = byte_ctr_reg'
  <2>1. out_ptr_reg' \in Slot /\ fifo_mem' \in [Slot -> Byte]
    BY DEF FifoInv
  <2>2. FifoBytes' = Stored(byte_ctr_reg', out_ptr_reg', fifo_mem')
    BY DEF FifoBytes, SlotAfter, Stored
  <2> QED BY <1>1, <2>1, <2>2, StoredBytes
<1>3. Engine' \in Seq(Byte)
  BY DEF Engine, FifoInv
<1>4. Received' = FifoBytes' \o Engine'
  BY DEF Received, Engine
<1> QED BY <1>2, <1>3, <1>4

\* An edge that loses no byte takes the head off and puts the new byte at the end.
LEMMA EdgeIsQueueStep ==
  ASSUME FifoInv, NEW out_ack \in BOOLEAN, NEW arrival \in BOOLEAN, NEW b \in Byte,
         Edge(out_ack, arrival, b), arrival => ~rxd_syn_reg, out_ack => can_rx
  PROVE  Received' = (IF out_ack THEN Tail(Received) ELSE Received)
                     \o (IF arrival THEN <<b>> ELSE <<>>)
<1> DEFINE new == IF fifo_mem_we THEN <<rxd_byte_reg>> ELSE <<>>
           old == IF out_ack THEN Tail(FifoBytes) ELSE FifoBytes
           last == IF arrival THEN <<b>> ELSE <<>>
<1>1. /\ FifoBytes' \in Seq(Byte) /\ Len(FifoBytes') = byte_ctr_reg'
      /\ Engine' \in Seq(Byte) /\ Received' = FifoBytes' \o Engine'
  BY EdgeKeepsInv, ReceivedTypeNext
<1>2. /\ FifoBytes \in Seq(Byte) /\ Len(FifoBytes) = byte_ctr_reg
      /\ Engine \in Seq(Byte) /\ Received = FifoBytes \o Engine
      /\ byte_ctr_reg \in Nat
      /\ out_ack => FifoBytes # <<>> /\ byte_ctr_reg > 0
  BY ReceivedType DEF can_rx, fifo_empty
<1>3. out_ptr_we(out_ack) = out_ack
  BY DEF out_ptr_we, can_rx
<1>4. old \in Seq(Byte) /\ Len(old) = byte_ctr_reg - (IF out_ack THEN 1 ELSE 0)
      /\ \A i \in 1 .. Len(old) : old[i] = FifoBytes[i + (IF out_ack THEN 1 ELSE 0)]
  BY <1>2
<1>5. /\ byte_ctr_reg' = byte_ctr_reg - (IF out_ack THEN 1 ELSE 0) + (IF fifo_mem_we THEN 1 ELSE 0)
      /\ \A i \in 1 .. byte_ctr_reg - (IF out_ack THEN 1 ELSE 0) :
           FifoBytes'[i] = FifoBytes[i + (IF out_ack THEN 1 ELSE 0)]
      /\ fifo_mem_we => FifoBytes'[byte_ctr_reg'] = rxd_byte_reg
  BY <1>3, FifoIsQueue
<1>6. /\ rxd_byte_reg \in Byte /\ new \in Seq(Byte) /\ last \in Seq(Byte)
      /\ Len(new) = (IF fifo_mem_we THEN 1 ELSE 0)
      /\ fifo_mem_we => new[1] = rxd_byte_reg
  BY DEF FifoInv
<1> HIDE DEF old
<1>7. FifoBytes' = old \o new
  <2> HIDE DEF new
  <2>1. /\ old \o new \in Seq(Byte) /\ Len(old \o new) = Len(FifoBytes')
        /\ \A i \in 1 .. Len(old \o new) :
             (old \o new)[i] = IF i <= Len(old) THEN old[i] ELSE new[i - Len(old)]
    <3>1. old \in Seq(Byte) /\ new \in Seq(Byte)
      BY <1>4, <1>6
    <3>2. Len(old) + Len(new) = Len(FifoBytes')
      BY <1>1, <1>2, <1>4, <1>5, <1>6
    <3> QED BY <3>1, <3>2, ConcatProperties
  <2>2. ASSUME NEW i \in 1 .. Len(FifoBytes') PROVE FifoBytes'[i] = (old \o new)[i]
    <3>1. CASE i <= Len(old)
      <4>1. i \in 1 .. Len(old) /\ i \in 1 .. Len(old \o new)
        BY <3>1, <2>1, <1>4
      <4>2. (old \o new)[i] = old[i]
        BY <4>1, <3>1, <2>1
      <4>3. i \in 1 .. byte_ctr_reg - (IF out_ack THEN 1 ELSE 0)
        BY <4>1, <1>4
      <4> QED BY <4>1, <4>2, <4>3, <1>4, <1>5
    <3>2. CASE i > Len(old)
      <4>1. fifo_mem_we /\ i = Len(old) + 1 /\ i = byte_ctr_reg'
        BY <3>2, <1>1, <1>2, <1>4, <1>5
      <4>2. (old \o new)[i] = new[1]
        <5>1. i \in 1 .. Len(old \o new) /\ ~(i <= Len(old)) /\ i - Len(old) = 1
          BY <4>1, <2>1, <3>2, <1>4
        <5> QED BY <5>1, <2>1
      <4> QED BY <4>1, <4>2, <1>5, <1>6
    <3>3. Len(old) \in Nat /\ i \in Nat
      BY <1>1, <1>4
    <3>4. i <= Len(old) \/ i > Len(old)
      BY <3>3
    <3> QED BY <3>4, <3>1, <3>2
  <2> QED BY <2>1, <2>2, <1>1, SeqEqual
<1>8. new \o Engine' = Engine \o last
  <2>1. fifo_mem_we \in BOOLEAN /\ in_ack_reg \in BOOLEAN /\ rxd_syn_reg \in BOOLEAN
    BY DEF FifoInv, fifo_mem_we, fifo_full
  <2>2. CASE ~rxd_syn_reg
    <3>1. ~fifo_mem_we /\ ~in_ack_reg' /\ rxd_syn_reg' = arrival /\ (arrival => rxd_byte_reg' = b)
      BY <2>2 DEF Edge, fifo_mem_we
    <3>2. new = <<>> /\ Engine = <<>> /\ Engine' = last
      BY <2>2, <3>1 DEF Engine
    <3> QED BY <3>2, <1>6
  <2>3. CASE rxd_syn_reg
    <3>1. rxd_syn_reg' = ~in_ack_reg /\ rxd_byte_reg' = rxd_byte_reg /\ in_ack_reg' = fifo_mem_we
      BY <2>3 DEF Edge
    <3>2. ~arrival /\ last = <<>>
      BY <2>3
    <3>3. new \o Engine' = Engine
      <4>1. CASE in_ack_reg
        BY <4>1, <3>1, <2>1 DEF Engine, fifo_mem_we
      <4>2. CASE ~in_ack_reg
        <5>1. Engine = <<rxd_byte_reg>>
          BY <4>2, <2>3 DEF Engine
        <5>2. CASE fifo_mem_we
          <6>1. Engine' = <<>> /\ new = <<rxd_byte_reg>>
            BY <5>2, <3>1, <2>1 DEF Engine
          <6> QED BY <6>1, <5>1, <1>6
        <5>3. CASE ~fifo_mem_we
          <6>1. Engine' = <<rxd_byte_reg>> /\ new = <<>>
            BY <5>3, <4>2, <3>1, <2>1 DEF Engine
          <6> HIDE DEF new
          <6> QED BY <6>1, <5>1, <1>6, <1>1, ConcatEmptySeq
        <5> QED BY <5>2, <5>3
      <4> QED BY <4>1, <4>2
    <3> QED BY <3>2, <3>3, <1>2
  <2> QED BY <2>2, <2>3
<1> HIDE DEF new, old, last
<1> HIDE DEF new, last
<1>9. Received' = old \o (Engine \o last)
  <2>1. Received' = (old \o new) \o Engine'
    BY <1>1, <1>7
  <2>2. (old \o new) \o Engine' = old \o (new \o Engine')
    <3>1. old \in Seq(Byte) /\ new \in Seq(Byte) /\ Engine' \in Seq(Byte)
      BY <1>1, <1>4, <1>6
    <3> QED BY <3>1, ConcatAssociative
  <2> QED BY <2>1, <2>2, <1>8
<1>10. (IF out_ack THEN Tail(Received) ELSE Received) = old \o Engine
  BY <1>2, <1>4 DEF old
<1>11. old \o (Engine \o last) = (old \o Engine) \o last
  <2>1. old \in Seq(Byte) /\ Engine \in Seq(Byte) /\ last \in Seq(Byte)
    BY <1>2, <1>4, <1>6
  <2> QED BY <2>1, ConcatAssociative
<1> QED BY <1>9, <1>10, <1>11 DEF last

(***************************************************************************)
(* What a stretch of the stream carries.  After the rest (L bytes) of the  *)
(* packet that is being read come whole packets, cut at B, and the data of *)
(* the client's packets is the client's frame F from byte p on: c[b] bytes *)
(* of it come before place b, and those after the end are with the host.   *)
(***************************************************************************)
Carries(s, L, cdc, p, F, h, B, c) ==
  /\ B \in SUBSET (L .. Len(s)) /\ Cuts(s, L, B)
  /\ c \in [B -> 0 .. Len(F)]
  /\ c[L] = IF cdc THEN p + L ELSE p
  /\ cdc => \A i \in 1 .. L : s[i] = F[p + i]
  /\ \A b \in B \ {Len(s)} :
       IF s[b + 1] = IO_CDC
       THEN /\ c[b + 2 + s[b + 2]] = c[b] + s[b + 2]
            /\ \A i \in 1 .. s[b + 2] : s[b + 2 + i] = F[c[b] + i]
       ELSE c[b + 2 + s[b + 2]] = c[b]
  /\ \A a, b \in B : a <= b => c[a] <= c[b]
  /\ h = Drop(F, c[Len(s)])

Carried(s, L, cdc, p, F, h) ==
  \E B \in SUBSET (L .. Len(s)) : \E c \in [B -> 0 .. Len(F)] : Carries(s, L, cdc, p, F, h, B, c)

LEMMA DropProperties ==
  ASSUME NEW F \in Seq(Byte), NEW k \in 0 .. Len(F)
  PROVE  /\ Drop(F, k) \in Seq(Byte) /\ Len(Drop(F, k)) = Len(F) - k
         /\ \A i \in 1 .. Len(F) - k : Drop(F, k)[i] = F[k + i]
<1>1. k \in Int /\ k + 1 \in Int /\ Len(F) \in Int
  OBVIOUS
<1>2. \A i \in k + 1 .. Len(F) : F[i] \in Byte
  OBVIOUS
<1> HIDE DEF Drop
<1>3. /\ SubSeq(F, k + 1, Len(F)) \in Seq(Byte)
      /\ Len(SubSeq(F, k + 1, Len(F))) = IF k + 1 <= Len(F) THEN Len(F) - (k + 1) + 1 ELSE 0
      /\ \A i \in 1 .. Len(F) - (k + 1) + 1 : SubSeq(F, k + 1, Len(F))[i] = F[k + 1 + i - 1]
  BY <1>1, <1>2, SubSeqProperties
<1>4. Len(F) - (k + 1) + 1 = Len(F) - k
  BY <1>1
<1>5. Drop(F, k) \in Seq(Byte) /\ Len(Drop(F, k)) = Len(F) - k
  <2>1. (IF k + 1 <= Len(F) THEN Len(F) - (k + 1) + 1 ELSE 0) = Len(F) - k
    BY <1>1
  <2> QED BY <1>3, <2>1 DEF Drop
<1>6. ASSUME NEW i \in 1 .. Len(F) - k PROVE Drop(F, k)[i] = F[k + i]
  <2>1. k + 1 + i - 1 = k + i /\ i \in 1 .. Len(F) - (k + 1) + 1
    BY <1>1, <1>4
  <2>2. SubSeq(F, k + 1, Len(F))[i] = F[k + 1 + i - 1]
    BY <2>1, <1>3
  <2> QED BY <2>1, <2>2 DEF Drop
<1> QED BY <1>5, <1>6

LEMMA DropDrop ==
  ASSUME NEW F \in Seq(Byte), NEW k \in 0 .. Len(F), NEW j \in 0 .. Len(F) - k
  PROVE  Drop(Drop(F, k), j) = Drop(F, k + j)
<1> DEFINE a == Drop(Drop(F, k), j)
           b == Drop(F, k + j)
<1>1. k + j \in 0 .. Len(F) /\ j \in 0 .. Len(Drop(F, k)) /\ k \in Nat /\ j \in Nat
  BY DropProperties
<1>2. Drop(F, k) \in Seq(Byte) /\ Len(Drop(F, k)) = Len(F) - k
      /\ \A i \in 1 .. Len(F) - k : Drop(F, k)[i] = F[k + i]
  BY DropProperties
<1>3. a \in Seq(Byte) /\ Len(a) = Len(F) - k - j
      /\ \A i \in 1 .. Len(F) - k - j : a[i] = Drop(F, k)[j + i]
  BY <1>1, <1>2, DropProperties
<1>4. b \in Seq(Byte) /\ Len(b) = Len(F) - (k + j)
      /\ \A i \in 1 .. Len(F) - (k + j) : b[i] = F[k + j + i]
  BY <1>1, DropProperties
<1> HIDE DEF a, b
<1>5. Len(a) = Len(b)
  BY <1>1, <1>3, <1>4
<1>6. ASSUME NEW i \in 1 .. Len(a) PROVE a[i] = b[i]
  <2>1. j + i \in 1 .. Len(F) - k /\ i \in 1 .. Len(F) - k - j /\ i \in 1 .. Len(F) - (k + j)
        /\ k + (j + i) = k + j + i
    BY <1>1, <1>3
  <2>2. a[i] = Drop(F, k)[j + i] /\ Drop(F, k)[j + i] = F[k + (j + i)] /\ b[i] = F[k + j + i]
    BY <2>1, <1>2, <1>3, <1>4
  <2> QED BY <2>1, <2>2
<1>7. a = b
  BY <1>3, <1>4, <1>5, <1>6, SeqEqual
<1> QED BY <1>7 DEF a, b

LEMMA FramedProperties ==
  ASSUME NEW mode \in {IO_CDC, IO_DEBUG}, NEW data \in Seq(Byte),
         Len(data) \in 1 .. USBMODE_PACKET_SIZE
  PROVE  LET f == Framed(mode, data)
         IN  /\ f \in Seq(Byte) /\ Len(f) = 2 + Len(data)
             /\ f[1] = mode /\ f[2] = Len(data)
             /\ \A i \in 1 .. Len(data) : f[2 + i] = data[i]
<1> DEFINE hd == <<mode, Len(data)>>
           f == Framed(mode, data)
<1>1. Len(data) \in Byte /\ mode \in Byte /\ Len(data) \in Nat
  <2>1. USBMODE_PACKET_SIZE \in 1 .. 255 /\ Byte = 0 .. 255
    BY ProtoAssumption
  <2>2. 8 \in 0 .. 255 /\ 64 \in 0 .. 255
    OBVIOUS
  <2>3. mode \in Byte
    BY <2>1, <2>2 DEF IO_CDC, IO_DEBUG
  <2>4. Len(data) \in 0 .. 255 /\ Len(data) \in Nat
    <3>1. \A x \in 1 .. USBMODE_PACKET_SIZE : x \in 0 .. 255 /\ x \in Nat
      BY <2>1
    <3> QED BY <3>1
  <2> QED BY <2>1, <2>3, <2>4
<1>2. hd \in Seq(Byte) /\ Len(hd) = 2 /\ hd[1] = mode /\ hd[2] = Len(data)
  BY <1>1
<1>3. f = hd \o data
  BY DEF Framed
<1> HIDE DEF hd, f
<1>4. /\ f \in Seq(Byte) /\ Len(f) = 2 + Len(data)
      /\ \A i \in 1 .. 2 + Len(data) : f[i] = IF i <= 2 THEN hd[i] ELSE data[i - 2]
  <2>1. /\ hd \o data \in Seq(Byte)
        /\ Len(hd \o data) = Len(hd) + Len(data)
        /\ \A i \in 1 .. Len(hd) + Len(data) :
             (hd \o data)[i] = IF i <= Len(hd) THEN hd[i] ELSE data[i - Len(hd)]
    BY <1>2, ConcatProperties
  <2> QED BY <1>2, <1>3, <2>1
<1>5. f[1] = mode /\ f[2] = Len(data)
  BY <1>1, <1>2, <1>4
<1>6. ASSUME NEW i \in 1 .. Len(data) PROVE f[2 + i] = data[i]
  <2>1. 2 + i \in 1 .. 2 + Len(data) /\ ~(2 + i <= 2) /\ 2 + i - 2 = i
    BY <1>1
  <2> QED BY <2>1, <1>4
<1>7. /\ f \in Seq(Byte) /\ Len(f) = 2 + Len(data)
      /\ f[1] = mode /\ f[2] = Len(data)
      /\ \A i \in 1 .. Len(data) : f[2 + i] = data[i]
  BY <1>4, <1>5, <1>6
<1> QED BY <1>7 DEF f

\* One place of a cut: the packet that begins there and where the next one does.
Holds(s, F, B, c, b) ==
  /\ Starts(s, b) /\ b + 2 + s[b + 2] \in B
  /\ IF s[b + 1] = IO_CDC
     THEN /\ c[b + 2 + s[b + 2]] = c[b] + s[b + 2]
          /\ \A i \in 1 .. s[b + 2] : s[b + 2 + i] = F[c[b] + i]
     ELSE c[b + 2 + s[b + 2]] = c[b]

LEMMA CarriesParts ==
  ASSUME NEW s, NEW L, NEW cdc, NEW p, NEW F, NEW h, NEW B, NEW c
  PROVE  Carries(s, L, cdc, p, F, h, B, c) <=>
           /\ B \in SUBSET (L .. Len(s)) /\ L \in B /\ Len(s) \in B
           /\ c \in [B -> 0 .. Len(F)]
           /\ c[L] = IF cdc THEN p + L ELSE p
           /\ cdc => \A i \in 1 .. L : s[i] = F[p + i]
           /\ \A b \in B \ {Len(s)} : Holds(s, F, B, c, b)
           /\ \A a, b \in B : a <= b => c[a] <= c[b]
           /\ h = Drop(F, c[Len(s)])
BY DEF Carries, Cuts, Holds

LEMMA CarriedIntro ==
  ASSUME NEW s, NEW L, NEW cdc, NEW p, NEW F, NEW h, NEW B, NEW c,
         /\ B \in SUBSET (L .. Len(s)) /\ L \in B /\ Len(s) \in B
         /\ c \in [B -> 0 .. Len(F)]
         /\ c[L] = IF cdc THEN p + L ELSE p
         /\ cdc => \A i \in 1 .. L : s[i] = F[p + i]
         /\ \A b \in B \ {Len(s)} : Holds(s, F, B, c, b)
         /\ \A a, b \in B : a <= b => c[a] <= c[b]
         /\ h = Drop(F, c[Len(s)])
  PROVE  Carried(s, L, cdc, p, F, h)
<1>1. Carries(s, L, cdc, p, F, h, B, c)
  BY CarriesParts
<1> QED BY <1>1 DEF Carried

\* A packet that is sent joins the stream as a whole.
LEMMA PacketJoins ==
  ASSUME NEW s \in Seq(Byte), NEW L \in 0 .. Len(s), NEW cdc, NEW p, NEW F \in Seq(Byte), NEW h,
         Carried(s, L, cdc, p, F, h),
         NEW mode \in {IO_CDC, IO_DEBUG}, NEW data \in Seq(Byte),
         Len(data) \in 1 .. USBMODE_PACKET_SIZE,
         mode = IO_CDC => Len(data) <= Len(h) /\ \A i \in 1 .. Len(data) : data[i] = h[i]
  PROVE  Carried(s \o Framed(mode, data), L, cdc, p, F,
                 IF mode = IO_CDC THEN Drop(h, Len(data)) ELSE h)
<1> DEFINE e == Len(s)
           k == Len(data)
           f == Framed(mode, data)
           T == s \o f
           E2 == e + 2 + k
<1>0. PICK B \in SUBSET (L .. e) : \E c \in [B -> 0 .. Len(F)] : Carries(s, L, cdc, p, F, h, B, c)
  BY DEF Carried
<1>1. PICK c \in [B -> 0 .. Len(F)] : Carries(s, L, cdc, p, F, h, B, c)
  BY <1>0
<1>2. /\ B \in SUBSET (L .. e) /\ L \in B /\ e \in B
      /\ c \in [B -> 0 .. Len(F)]
      /\ c[L] = IF cdc THEN p + L ELSE p
      /\ cdc => \A i \in 1 .. L : s[i] = F[p + i]
      /\ \A b \in B \ {e} : Holds(s, F, B, c, b)
      /\ \A a, b \in B : a <= b => c[a] <= c[b]
      /\ h = Drop(F, c[e])
  BY <1>1, CarriesParts
<1>3. e \in Nat /\ k \in Nat /\ k > 0 /\ L \in Nat /\ L <= e /\ E2 \in Nat /\ e < E2
      /\ Len(F) \in Nat /\ c[e] \in 0 .. Len(F)
  <2>1. \A x \in 1 .. USBMODE_PACKET_SIZE : x \in Nat /\ x > 0
    BY ProtoAssumption
  <2> QED BY <2>1, <1>2
<1>4. /\ T \in Seq(Byte) /\ Len(T) = E2
      /\ \A i \in 1 .. e : T[i] = s[i]
      /\ T[e + 1] = mode /\ T[e + 2] = k
      /\ \A i \in 1 .. k : T[e + 2 + i] = data[i]
  <2>1. /\ f \in Seq(Byte) /\ Len(f) = 2 + k /\ f[1] = mode /\ f[2] = k
        /\ \A i \in 1 .. k : f[2 + i] = data[i]
    BY FramedProperties
  <2> HIDE DEF f
  <2>2. /\ T \in Seq(Byte) /\ Len(T) = e + Len(f)
        /\ \A i \in 1 .. e + Len(f) : T[i] = IF i <= e THEN s[i] ELSE f[i - e]
    <3>1. s \in Seq(Byte) /\ f \in Seq(Byte)
      BY <2>1
    <3>2. /\ s \o f \in Seq(Byte) /\ Len(s \o f) = Len(s) + Len(f)
          /\ \A i \in 1 .. Len(s) + Len(f) : (s \o f)[i] = IF i <= Len(s) THEN s[i] ELSE f[i - Len(s)]
      BY <3>1, ConcatProperties
    <3> QED BY <3>2
  <2> HIDE DEF T
  <2>3. \A i \in 1 .. e : T[i] = s[i]
    BY <1>3, <2>1, <2>2
  <2>4. \A j \in 1 .. 2 + k : T[e + j] = f[j]
    <3> SUFFICES ASSUME NEW j \in 1 .. 2 + k PROVE T[e + j] = f[j]
      OBVIOUS
    <3>1. e + j \in 1 .. e + Len(f) /\ ~(e + j <= e) /\ e + j - e = j
      BY <1>3, <2>1
    <3> QED BY <3>1, <2>2
  <2>5. T[e + 1] = mode /\ T[e + 2] = k
    BY <1>3, <2>1, <2>4
  <2>6. ASSUME NEW i \in 1 .. k PROVE T[e + 2 + i] = data[i]
    <3>1. 2 + i \in 1 .. 2 + k /\ e + (2 + i) = e + 2 + i
      BY <1>3
    <3>2. T[e + (2 + i)] = f[2 + i] /\ f[2 + i] = data[i]
      BY <3>1, <2>1, <2>4
    <3> QED BY <3>1, <3>2
  <2>7. Len(T) = E2
    BY <1>3, <2>1, <2>2
  <2> QED BY <2>2, <2>3, <2>5, <2>6, <2>7
<1> DEFINE B2 == B \cup {E2}
           more == IF mode = IO_CDC THEN k ELSE 0
           c2 == [b \in B2 |-> IF b \in B THEN c[b] ELSE c[e] + more]
<1>5. /\ h \in Seq(Byte) /\ Len(h) = Len(F) - c[e]
      /\ \A i \in 1 .. Len(F) - c[e] : h[i] = F[c[e] + i]
  BY <1>2, <1>3, DropProperties
<1>6. more \in Nat /\ c[e] + more \in 0 .. Len(F) /\ more \in 0 .. Len(F) - c[e]
  BY <1>3, <1>5
<1>7. B2 \in SUBSET (L .. Len(T)) /\ L \in B2 /\ Len(T) \in B2 /\ E2 \notin B
  <2>1. \A b \in B : b \in Nat /\ L <= b /\ b <= e
    BY <1>2, <1>3
  <2>2. E2 \notin B /\ E2 \in L .. E2 /\ Len(T) = E2
    BY <2>1, <1>3, <1>4
  <2>3. \A b \in B : b \in L .. E2
    BY <2>1, <1>3
  <2> QED BY <2>2, <2>3, <1>2
<1>8. c2 \in [B2 -> 0 .. Len(F)] /\ (\A b \in B : c2[b] = c[b]) /\ c2[E2] = c[e] + more
  BY <1>2, <1>6, <1>7
<1> HIDE DEF T, B2, more, c2, E2
<1>9. ASSUME NEW b \in B2 \ {Len(T)} PROVE Holds(T, F, B2, c2, b)
  <2>1. b \in B /\ b \in Nat /\ b <= e
    BY <1>2, <1>3, <1>4, <1>9 DEF B2
  <2>2. CASE b # e
    <3>1. Holds(s, F, B, c, b)
      BY <2>1, <2>2, <1>2
    <3>2. /\ b + 2 <= e /\ s[b + 2] \in 1 .. USBMODE_PACKET_SIZE /\ b + 2 + s[b + 2] \in B
          /\ s[b + 1] \in {IO_CDC, IO_DEBUG}
      BY <3>1 DEF Holds, Starts
    <3>3. s[b + 2] \in Nat /\ b + 2 + s[b + 2] <= e
      <4>1. \A x \in 1 .. USBMODE_PACKET_SIZE : x \in Nat
        BY ProtoAssumption
      <4>2. s[b + 2] \in Nat /\ b + 2 + s[b + 2] \in L .. e
        BY <4>1, <3>2, <1>2
      <4> QED BY <4>2, <1>3
    <3>4. T[b + 1] = s[b + 1] /\ T[b + 2] = s[b + 2]
      BY <2>1, <3>2, <1>3, <1>4
    <3>5. ASSUME NEW i \in 1 .. s[b + 2] PROVE T[b + 2 + i] = s[b + 2 + i]
      <4>1. b + 2 + i \in 1 .. e
        BY <2>1, <3>3, <1>3
      <4> QED BY <4>1, <1>4
    <3>6. c2[b] = c[b] /\ c2[b + 2 + s[b + 2]] = c[b + 2 + s[b + 2]]
      BY <2>1, <3>2, <1>8
    <3>7. b + 2 <= Len(T) /\ b + 2 + s[b + 2] \in B2
      BY <2>1, <3>2, <1>3, <1>4 DEF B2
    <3>8. Starts(T, b)
      BY <3>2, <3>4, <3>7 DEF Starts
    <3>9. CASE s[b + 1] = IO_CDC
      BY <3>1, <3>4, <3>5, <3>6, <3>7, <3>8, <3>9 DEF Holds
    <3>10. CASE s[b + 1] # IO_CDC
      BY <3>1, <3>4, <3>6, <3>7, <3>8, <3>10 DEF Holds
    <3> QED BY <3>9, <3>10
  <2>3. CASE b = e
    <3>1. e + 2 <= Len(T) /\ e + 2 + T[e + 2] = E2 /\ E2 \in B2
      BY <1>3, <1>4 DEF E2, B2
    <3>2. Starts(T, e) /\ e + 2 + T[e + 2] \in B2
      BY <3>1, <1>4 DEF Starts
    <3>3. c2[e + 2 + T[e + 2]] = c2[e] + more
      BY <3>1, <1>2, <1>8
    <3>4. CASE mode = IO_CDC
      <4>1. more = k /\ T[e + 1] = IO_CDC /\ c2[e] = c[e]
        BY <3>4, <1>2, <1>4, <1>8 DEF more
      <4>2. ASSUME NEW i \in 1 .. k PROVE T[e + 2 + i] = F[c[e] + i]
        <5>1. T[e + 2 + i] = data[i] /\ data[i] = h[i]
          BY <3>4, <1>4
        <5>2. i \in 1 .. Len(F) - c[e]
          BY <3>4, <1>3, <1>5
        <5> QED BY <5>1, <5>2, <1>5
      <4> QED BY <2>3, <3>2, <3>3, <4>1, <4>2, <1>4 DEF Holds
    <3>5. CASE mode # IO_CDC
      <4>1. more = 0 /\ T[e + 1] # IO_CDC /\ c2[e] = c[e] /\ c[e] + 0 = c[e]
        BY <3>5, <1>2, <1>3, <1>4, <1>8 DEF more
      <4> QED BY <2>3, <3>2, <3>3, <4>1 DEF Holds
    <3> QED BY <3>4, <3>5
  <2> QED BY <2>2, <2>3
<1>10. c2[L] = IF cdc THEN p + L ELSE p
  BY <1>2, <1>8
<1>11. cdc => \A i \in 1 .. L : T[i] = F[p + i]
  <2>1. \A i \in 1 .. L : i \in 1 .. e
    BY <1>3
  <2> QED BY <2>1, <1>2, <1>4
<1>12. (IF mode = IO_CDC THEN Drop(h, k) ELSE h) = Drop(F, c2[Len(T)])
  <2>1. c2[Len(T)] = c[e] + more
    BY <1>4, <1>8
  <2>2. CASE mode = IO_CDC
    <3>1. more = k
      BY <2>2 DEF more
    <3> QED BY <2>1, <2>2, <3>1, <1>2, <1>3, <1>6, DropDrop
  <2>3. CASE mode # IO_CDC
    <3>1. more = 0 /\ c[e] + 0 = c[e]
      BY <2>3, <1>3 DEF more
    <3> QED BY <2>1, <2>3, <3>1, <1>2
  <2> QED BY <2>2, <2>3
<1>14. \A a, b \in B2 : a <= b => c2[a] <= c2[b]
  <2> SUFFICES ASSUME NEW a \in B2, NEW b \in B2, a <= b PROVE c2[a] <= c2[b]
    OBVIOUS
  <2>1. \A x \in B : x \in Nat /\ x <= e /\ c[x] \in Nat /\ c[x] <= c[e]
    BY <1>2, <1>3
  <2>2. CASE b \in B
    <3>1. a \in B
      BY <2>1, <2>2, <1>3 DEF B2
    <3> QED BY <3>1, <2>2, <1>2, <1>8
  <2>3. CASE b = E2
    <3>1. c2[b] = c[e] + more
      BY <2>3, <1>8
    <3>2. CASE a \in B
      BY <3>1, <3>2, <2>1, <1>3, <1>6, <1>8
    <3>3. CASE a = E2
      BY <3>1, <3>3, <1>3, <1>6, <1>8
    <3> QED BY <3>2, <3>3 DEF B2
  <2> QED BY <2>2, <2>3 DEF B2
<1>13. Carried(T, L, cdc, p, F, IF mode = IO_CDC THEN Drop(h, k) ELSE h)
  BY <1>7, <1>8, <1>9, <1>10, <1>11, <1>12, <1>14, CarriedIntro
<1> QED BY <1>13 DEF T

LEMMA PacketSizes == \A x \in 1 .. USBMODE_PACKET_SIZE : x \in Nat /\ x > 0 /\ x \in Byte
<1>1. USBMODE_PACKET_SIZE \in 1 .. 255 /\ Byte = 0 .. 255
  BY ProtoAssumption
<1> QED BY <1>1

\* T is s without its first d bytes, and the first L2 bytes of T are the rest of
\* a packet.
FrontGone(s, F, h, L, B, c, d, L2, cdc, p, T) ==
  /\ s \in Seq(Byte) /\ F \in Seq(Byte) /\ L \in Nat
  /\ B \in SUBSET (L .. Len(s)) /\ c \in [B -> 0 .. Len(F)] /\ Len(s) \in B
  /\ \A b \in B \ {Len(s)} : Holds(s, F, B, c, b)
  /\ \A a, b \in B : a <= b => c[a] <= c[b]
  /\ h = Drop(F, c[Len(s)])
  /\ d \in Nat /\ L2 \in Nat /\ d + L2 \in B
  /\ c[d + L2] = IF cdc THEN p + L2 ELSE p
  /\ cdc => \A i \in 1 .. L2 : s[d + i] = F[p + i]
  /\ T \in Seq(Byte) /\ Len(T) = Len(s) - d /\ \A i \in 1 .. Len(T) : T[i] = s[d + i]

\* Without its first bytes the stream still carries the same, seen from there.
LEMMA FrontLeaves ==
  ASSUME NEW s, NEW F, NEW h, NEW L, NEW B, NEW c, NEW d, NEW L2, NEW cdc, NEW p, NEW T,
         FrontGone(s, F, h, L, B, c, d, L2, cdc, p, T)
  PROVE  Carried(T, L2, cdc, p, F, h)
<1>0. /\ s \in Seq(Byte) /\ F \in Seq(Byte) /\ L \in Nat
      /\ B \in SUBSET (L .. Len(s)) /\ c \in [B -> 0 .. Len(F)] /\ Len(s) \in B
      /\ \A b \in B \ {Len(s)} : Holds(s, F, B, c, b)
      /\ \A a, b \in B : a <= b => c[a] <= c[b]
      /\ h = Drop(F, c[Len(s)])
      /\ d \in Nat /\ L2 \in Nat /\ d + L2 \in B
      /\ c[d + L2] = IF cdc THEN p + L2 ELSE p
      /\ cdc => \A i \in 1 .. L2 : s[d + i] = F[p + i]
      /\ T \in Seq(Byte) /\ Len(T) = Len(s) - d /\ \A i \in 1 .. Len(T) : T[i] = s[d + i]
  BY DEF FrontGone
<1> DEFINE B2 == {b \in L2 .. Len(T) : d + b \in B}
           c2 == [b \in B2 |-> c[d + b]]
<1>1. Len(s) \in Nat /\ Len(T) \in Nat /\ Len(s) = d + Len(T) /\ d + L2 <= Len(s)
      /\ \A b \in B : b \in Nat /\ b <= Len(s)
  BY <1>0
<1>2. B2 \in SUBSET (L2 .. Len(T)) /\ L2 \in B2 /\ Len(T) \in B2
  <2>1. L2 \in L2 .. Len(T) /\ Len(T) \in L2 .. Len(T) /\ d + Len(T) \in B
    BY <1>0, <1>1
  <2> QED BY <1>0, <2>1
<1>3. c2 \in [B2 -> 0 .. Len(F)]
  BY <1>0
<1>4. c2[L2] = IF cdc THEN p + L2 ELSE p
  BY <1>0, <1>2
<1>5. cdc => \A i \in 1 .. L2 : T[i] = F[p + i]
  <2>1. \A i \in 1 .. L2 : i \in 1 .. Len(T)
    BY <1>0, <1>1
  <2> QED BY <1>0, <2>1
<1>6. h = Drop(F, c2[Len(T)])
  BY <1>0, <1>1, <1>2
<1> HIDE DEF c2
<1>7. ASSUME NEW b \in B2 \ {Len(T)} PROVE Holds(T, F, B2, c2, b)
  <2>1. b \in Nat /\ L2 <= b /\ b <= Len(T) /\ d + b \in B /\ d + b # Len(s)
    BY <1>0, <1>1
  <2>2. Holds(s, F, B, c, d + b)
    BY <1>0, <2>1
  <2> DEFINE k == s[d + b + 2]
  <2>3. /\ d + b + 2 <= Len(s) /\ k \in 1 .. USBMODE_PACKET_SIZE /\ d + b + 2 + k \in B
        /\ s[d + b + 1] \in {IO_CDC, IO_DEBUG}
    BY <1>0, <2>2 DEF Holds, Starts
  <2>4. k \in Nat /\ d + b + 2 + k <= Len(s) /\ b + 2 + k \in L2 .. Len(T)
        /\ d + (b + 2 + k) = d + b + 2 + k
    <3>1. k \in Nat
      BY <1>0, <2>3, PacketSizes
    <3>2. d + b + 2 + k <= Len(s)
      BY <1>0, <2>3, <1>1
    <3> HIDE DEF k
    <3>3. b \in Nat /\ d \in Nat /\ L2 \in Nat /\ Len(T) \in Nat /\ Len(s) = d + Len(T) /\ L2 <= b
      BY <1>0, <1>1, <2>1
    <3>4. d + b + 2 + k = d + (b + 2 + k)
      BY <1>0, <3>1, <3>3
    <3>5. b + 2 + k <= Len(T) /\ L2 <= b + 2 + k
      BY <1>0, <3>1, <3>3, <3>2
    <3> QED BY <1>0, <3>1, <3>3, <3>2, <3>4, <3>5
  <2>5. T[b + 1] = s[d + b + 1] /\ T[b + 2] = k
    <3>1. b + 1 \in 1 .. Len(T) /\ b + 2 \in 1 .. Len(T) /\ d + (b + 1) = d + b + 1 /\ d + (b + 2) = d + b + 2
      BY <1>0, <2>1, <2>3, <1>1
    <3>2. T[b + 1] = s[d + (b + 1)] /\ T[b + 2] = s[d + (b + 2)]
      BY <1>0, <3>1
    <3> QED BY <1>0, <3>1, <3>2
  <2>6. ASSUME NEW i \in 1 .. k PROVE T[b + 2 + i] = s[d + b + 2 + i]
    <3>1. b + 2 + i \in 1 .. Len(T) /\ d + (b + 2 + i) = d + b + 2 + i
      <4>1. b \in Nat /\ k \in Nat /\ Len(T) \in Nat /\ b + 2 + k <= Len(T)
        BY <1>0, <1>1, <2>1, <2>4
      <4> HIDE DEF k
      <4>2. i \in Nat /\ 1 <= i /\ i <= k
        BY <1>0, <4>1
      <4>3. b + 2 + i <= Len(T)
        BY <1>0, <4>1, <4>2
      <4> QED BY <1>0, <4>1, <4>2, <4>3
    <3>2. T[b + 2 + i] = s[d + (b + 2 + i)]
      BY <1>0, <3>1
    <3> QED BY <1>0, <3>1, <3>2
  <2> HIDE DEF k
  <2>7. b + 2 + k \in B2
    BY <1>0, <2>3, <2>4
  <2>8. c2[b] = c[d + b] /\ c2[b + 2 + k] = c[d + b + 2 + k]
    BY <1>0, <2>4, <2>7 DEF c2
  <2>9. Starts(T, b)
    <3>1. b + 2 <= Len(T)
      BY <1>0, <2>1, <2>3, <1>1
    <3> QED BY <1>0, <3>1, <2>3, <2>5 DEF Starts
  <2>10. CASE s[d + b + 1] = IO_CDC
    <3>1. /\ c[d + b + 2 + k] = c[d + b] + k
          /\ \A i \in 1 .. k : s[d + b + 2 + i] = F[c[d + b] + i]
      BY <1>0, <2>2, <2>10 DEF Holds, k
    <3>2. \A i \in 1 .. k : T[b + 2 + i] = F[c2[b] + i]
      BY <1>0, <3>1, <2>6, <2>8
    <3> QED BY <1>0, <3>1, <3>2, <2>5, <2>7, <2>8, <2>9, <2>10 DEF Holds
  <2>11. CASE s[d + b + 1] # IO_CDC
    <3>1. c[d + b + 2 + k] = c[d + b]
      BY <1>0, <2>2, <2>11 DEF Holds, k
    <3> QED BY <1>0, <3>1, <2>5, <2>7, <2>8, <2>9, <2>11 DEF Holds
  <2> QED BY <1>0, <2>10, <2>11
<1>8. \A a, b \in B2 : a <= b => c2[a] <= c2[b]
  <2> SUFFICES ASSUME NEW a \in B2, NEW b \in B2, a <= b PROVE c2[a] <= c2[b]
    OBVIOUS
  <2>1. L2 \in Nat /\ Len(T) \in Nat /\ d \in Nat
    BY <1>0, <1>1
  <2>2. ASSUME NEW x \in B2 PROVE x \in Nat /\ d + x \in B /\ c2[x] = c[d + x]
    <3>1. x \in L2 .. Len(T) /\ d + x \in B
      BY <2>2
    <3> HIDE DEF B2
    <3>2. c2[x] = c[d + x]
      BY <2>2 DEF c2
    <3>3. x \in Nat
      BY <3>1, <2>1
    <3> QED BY <3>1, <3>2, <3>3
  <2> HIDE DEF B2
  <2>3. d + a <= d + b /\ d + a \in B /\ d + b \in B
    BY <2>1, <2>2
  <2>4. \A x, y \in B : x <= y => c[x] <= c[y]
    BY <1>0
  <2> QED BY <2>2, <2>3, <2>4
<1> HIDE DEF B2
<1> QED BY <1>0, <1>2, <1>3, <1>4, <1>5, <1>6, <1>7, <1>8, CarriedIntro

\* read() and discard() take the next byte of the packet.
LEMMA ByteLeaves ==
  ASSUME NEW s \in Seq(Byte), NEW L \in 1 .. Len(s), NEW cdc \in BOOLEAN, NEW F \in Seq(Byte),
         NEW p \in Nat, NEW h, Carried(s, L, cdc, p, F, h)
  PROVE  /\ Carried(Tail(s), L - 1, cdc, IF cdc THEN p + 1 ELSE p, F, h)
         /\ cdc => p + L <= Len(F) /\ s[1] = F[p + 1]
<1>0. PICK B \in SUBSET (L .. Len(s)) :
        \E c \in [B -> 0 .. Len(F)] : Carries(s, L, cdc, p, F, h, B, c)
  BY DEF Carried
<1>1. PICK c \in [B -> 0 .. Len(F)] : Carries(s, L, cdc, p, F, h, B, c)
  BY <1>0
<1>2. /\ B \in SUBSET (L .. Len(s)) /\ c \in [B -> 0 .. Len(F)]
      /\ L \in B /\ Len(s) \in B
      /\ c[L] = IF cdc THEN p + L ELSE p
      /\ cdc => \A i \in 1 .. L : s[i] = F[p + i]
      /\ \A b \in B \ {Len(s)} : Holds(s, F, B, c, b)
      /\ \A a, b \in B : a <= b => c[a] <= c[b]
      /\ h = Drop(F, c[Len(s)])
  BY <1>1, CarriesParts
<1>3. L \in Nat /\ L > 0 /\ Len(s) \in Nat /\ L - 1 \in Nat /\ 1 + (L - 1) = L /\ s # <<>>
  OBVIOUS
<1>4. /\ Tail(s) \in Seq(Byte) /\ Len(Tail(s)) = Len(s) - 1
      /\ \A i \in 1 .. Len(Tail(s)) : Tail(s)[i] = s[1 + i]
  <2>1. /\ Tail(s) \in Seq(Byte) /\ Len(Tail(s)) = Len(s) - 1
        /\ \A i \in 1 .. Len(Tail(s)) : Tail(s)[i] = s[i + 1]
    BY <1>3, HeadTailProperties
  <2>2. \A i \in 1 .. Len(Tail(s)) : i + 1 = 1 + i
    OBVIOUS
  <2> QED BY <2>1, <2>2
<1> DEFINE T == Tail(s)
           q == IF cdc THEN p + 1 ELSE p
<1> HIDE DEF T
<1>5. c[1 + (L - 1)] = IF cdc THEN q + (L - 1) ELSE q
  <2>1. p + 1 + (L - 1) = p + L
    BY <1>3
  <2> QED BY <2>1, <1>2, <1>3
<1>6. cdc => \A i \in 1 .. L - 1 : s[1 + i] = F[q + i]
  <2> SUFFICES ASSUME cdc, NEW i \in 1 .. L - 1 PROVE s[1 + i] = F[q + i]
    OBVIOUS
  <2>1. 1 + i \in 1 .. L /\ p + (1 + i) = p + 1 + i
    BY <1>3
  <2>2. s[1 + i] = F[p + (1 + i)]
    BY <2>1, <1>2
  <2> QED BY <2>1, <2>2
<1>7. cdc => p + L <= Len(F) /\ s[1] = F[p + 1]
  <2> SUFFICES ASSUME cdc PROVE p + L <= Len(F) /\ s[1] = F[p + 1]
    OBVIOUS
  <2>1. c[L] = p + L /\ c[L] \in 0 .. Len(F)
    BY <1>2
  <2>2. 1 \in 1 .. L
    BY <1>3
  <2> QED BY <2>1, <2>2, <1>2
<1> HIDE DEF q
<1>8. Carried(T, L - 1, cdc, q, F, h)
  <2>1. T \in Seq(Byte) /\ Len(T) = Len(s) - 1 /\ \A i \in 1 .. Len(T) : T[i] = s[1 + i]
    BY <1>4 DEF T
  <2>2. 1 \in Nat /\ L - 1 \in Nat /\ 1 + (L - 1) \in B
    BY <1>2, <1>3
  <2>3. c[1 + (L - 1)] = IF cdc THEN q + (L - 1) ELSE q
    BY <1>5
  <2> DEFINE L2 == L - 1
  <2> HIDE DEF L2
  <2>4. L2 \in Nat /\ 1 + L2 \in B /\ c[1 + L2] = (IF cdc THEN q + L2 ELSE q)
        /\ (cdc => \A i \in 1 .. L2 : s[1 + i] = F[q + i])
    BY <2>2, <2>3, <1>6 DEF L2
  <2>5. Carried(T, L2, cdc, q, F, h)
    <3>1. FrontGone(s, F, h, L, B, c, 1, L2, cdc, q, T)
      BY <2>1, <2>4, <1>2, <1>3 DEF FrontGone
    <3> QED BY <3>1, FrontLeaves
  <2> QED BY <2>5 DEF L2
<1> QED BY <1>7, <1>8 DEF T, q

\* readselect() takes the two bytes before a packet.
LEMMA PacketOpens ==
  ASSUME NEW s \in Seq(Byte), s # <<>>, NEW cdc \in BOOLEAN, NEW F \in Seq(Byte),
         NEW p \in Nat, NEW h, Carried(s, 0, cdc, p, F, h)
  PROVE  /\ Len(s) >= 2 /\ s[1] \in {IO_CDC, IO_DEBUG} /\ s[2] \in 1 .. USBMODE_PACKET_SIZE
         /\ s[2] <= Len(s) - 2
         /\ Carried(Tail(Tail(s)), s[2], s[1] = IO_CDC, p, F, h)
<1>0. PICK B \in SUBSET (0 .. Len(s)) :
        \E c \in [B -> 0 .. Len(F)] : Carries(s, 0, cdc, p, F, h, B, c)
  BY DEF Carried
<1>1. PICK c \in [B -> 0 .. Len(F)] : Carries(s, 0, cdc, p, F, h, B, c)
  BY <1>0
<1>2. /\ B \in SUBSET (0 .. Len(s)) /\ c \in [B -> 0 .. Len(F)]
      /\ 0 \in B /\ Len(s) \in B
      /\ c[0] = IF cdc THEN p + 0 ELSE p
      /\ \A b \in B \ {Len(s)} : Holds(s, F, B, c, b)
      /\ \A a, b \in B : a <= b => c[a] <= c[b]
      /\ h = Drop(F, c[Len(s)])
  BY <1>1, CarriesParts
<1>3. Len(s) \in Nat /\ Len(s) > 0 /\ 0 # Len(s)
  OBVIOUS
<1>4. Holds(s, F, B, c, 0)
  BY <1>2, <1>3
<1>5. s[0 + 2] = s[2] /\ s[0 + 1] = s[1] /\ \A i \in Int : 0 + i = i
  OBVIOUS
<1> DEFINE k == s[2]
<1>6. 2 <= Len(s) /\ s[1] \in {IO_CDC, IO_DEBUG} /\ k \in 1 .. USBMODE_PACKET_SIZE
  <2>1. 0 + 2 <= Len(s) /\ s[0 + 1] \in {IO_CDC, IO_DEBUG} /\ s[0 + 2] \in 1 .. USBMODE_PACKET_SIZE
    BY <1>4 DEF Holds, Starts
  <2> QED BY <2>1
<1>7. /\ k \in Nat /\ 2 + k \in B /\ 2 + k <= Len(s)
      /\ c[2 + k] = IF s[1] = IO_CDC THEN p + k ELSE p
      /\ s[1] = IO_CDC => \A i \in 1 .. k : s[2 + i] = F[p + i]
  <2>1. k \in Nat
    BY <1>6, PacketSizes
  <2>2. c[0] = p
    BY <1>2
  <2>3. 0 + 2 + s[0 + 2] = 2 + k /\ 0 + 2 = 2 /\ 0 + 1 = 1
    BY <2>1
  <2>4. 2 + k \in B
    BY <1>4, <2>3 DEF Holds
  <2>5. 2 + k <= Len(s)
    BY <2>1, <1>3, <1>2, <2>4
  <2>6. CASE s[1] = IO_CDC
    <3>1. c[0 + 2 + s[0 + 2]] = c[0] + s[0 + 2] /\ \A i \in 1 .. s[0 + 2] : s[0 + 2 + i] = F[c[0] + i]
      BY <1>4, <2>3, <2>6 DEF Holds
    <3> QED BY <3>1, <2>1, <2>2, <2>3, <2>4, <2>5, <2>6
  <2>7. CASE s[1] # IO_CDC
    <3>1. c[0 + 2 + s[0 + 2]] = c[0]
      BY <1>4, <2>3, <2>7 DEF Holds
    <3>2. c[2 + k] = p
      BY <3>1, <2>2, <2>3
    <3> QED BY <3>2, <2>1, <2>4, <2>5, <2>7
  <2> QED BY <2>6, <2>7
<1> DEFINE T == Tail(Tail(s))
<1>8. /\ T \in Seq(Byte) /\ Len(T) = Len(s) - 2
      /\ \A i \in 1 .. Len(T) : T[i] = s[2 + i]
  <2>1. /\ Tail(s) \in Seq(Byte) /\ Len(Tail(s)) = Len(s) - 1
        /\ \A i \in 1 .. Len(Tail(s)) : Tail(s)[i] = s[i + 1]
    BY HeadTailProperties
  <2>2. Tail(s) # <<>>
    BY <2>1, <1>3, <1>6
  <2> DEFINE u == Tail(s)
  <2> HIDE DEF u
  <2>3. /\ Tail(u) \in Seq(Byte) /\ Len(Tail(u)) = Len(u) - 1
        /\ \A i \in 1 .. Len(Tail(u)) : Tail(u)[i] = u[i + 1]
    BY <2>1, <2>2, HeadTailProperties DEF u
  <2>4. Len(Tail(u)) = Len(s) - 2
    BY <2>1, <2>3, <1>3 DEF u
  <2>5. ASSUME NEW i \in 1 .. Len(Tail(u)) PROVE Tail(u)[i] = s[2 + i]
    <3>1. i + 1 \in 1 .. Len(u) /\ i + 1 + 1 = 2 + i
      BY <2>3, <2>4, <1>3, <2>1 DEF u
    <3>2. u[i + 1] = s[i + 1 + 1]
      BY <3>1, <2>1 DEF u
    <3> QED BY <3>1, <3>2, <2>3
  <2> QED BY <2>3, <2>4, <2>5 DEF u
<1> DEFINE m == s[1] = IO_CDC
<1> HIDE DEF T, k, m
<1>9. Carried(T, k, m, p, F, h)
  <2>1. FrontGone(s, F, h, 0, B, c, 2, k, m, p, T)
    <3>1. c[2 + k] = IF m THEN p + k ELSE p
      BY <1>7 DEF m
    <3>2. m => \A i \in 1 .. k : s[2 + i] = F[p + i]
      BY <1>7 DEF m
    <3>3. 2 \in Nat /\ 0 \in Nat
      OBVIOUS
    <3> QED BY <3>1, <3>2, <3>3, <1>2, <1>7, <1>8 DEF FrontGone
  <2> QED BY <2>1, FrontLeaves
<1>10. Len(s) >= 2 /\ k <= Len(s) - 2
  BY <1>3, <1>6, <1>7
<1> QED BY <1>6, <1>9, <1>10 DEF T, k, m

\* After the last byte of the frame the stream carries no more of it.
LEMMA FrameIsOver ==
  ASSUME NEW s \in Seq(Byte), NEW L \in 0 .. Len(s), NEW cdc \in BOOLEAN, NEW F \in Seq(Byte),
         NEW h, Carried(s, L, cdc, Len(F), F, h)
  PROVE  Carried(s, L, cdc, 0, <<>>, <<>>) /\ h = <<>>
<1>0. PICK B \in SUBSET (L .. Len(s)) :
        \E c \in [B -> 0 .. Len(F)] : Carries(s, L, cdc, Len(F), F, h, B, c)
  BY DEF Carried
<1>1. PICK c \in [B -> 0 .. Len(F)] : Carries(s, L, cdc, Len(F), F, h, B, c)
  BY <1>0
<1>2. /\ B \in SUBSET (L .. Len(s)) /\ c \in [B -> 0 .. Len(F)]
      /\ L \in B /\ Len(s) \in B
      /\ c[L] = IF cdc THEN Len(F) + L ELSE Len(F)
      /\ \A b \in B \ {Len(s)} : Holds(s, F, B, c, b)
      /\ \A a, b \in B : a <= b => c[a] <= c[b]
      /\ h = Drop(F, c[Len(s)])
  BY <1>1, CarriesParts
<1>3. L \in Nat /\ Len(s) \in Nat /\ Len(F) \in Nat /\ c[L] >= Len(F)
  BY <1>2
<1>4. ASSUME NEW b \in B PROVE c[b] = Len(F)
  <2>1. b \in Nat /\ L <= b /\ c[b] \in 0 .. Len(F) /\ c[L] \in 0 .. Len(F)
    BY <1>2, <1>3
  <2>2. c[L] <= c[b]
    BY <2>1, <1>2
  <2> QED BY <2>1, <2>2, <1>3
<1>5. cdc => L = 0
  BY <1>2, <1>3, <1>4
<1> DEFINE z == [b \in B |-> 0]
<1>6. ASSUME NEW b \in B \ {Len(s)} PROVE Holds(s, <<>>, B, z, b)
  <2>1. Holds(s, F, B, c, b)
    BY <1>2
  <2>2. b + 2 + s[b + 2] \in B /\ s[b + 2] \in 1 .. USBMODE_PACKET_SIZE /\ Starts(s, b)
    BY <2>1 DEF Holds, Starts
  <2>3. c[b] = Len(F) /\ c[b + 2 + s[b + 2]] = Len(F) /\ s[b + 2] \in Nat /\ s[b + 2] > 0
    BY <2>2, <1>4, PacketSizes
  <2>4. s[b + 1] # IO_CDC
    <3>1. Len(F) # Len(F) + s[b + 2]
      BY <2>3, <1>3
    <3> QED BY <3>1, <2>1, <2>3 DEF Holds
  <2>5. z[b] = 0 /\ z[b + 2 + s[b + 2]] = 0
    BY <2>2
  <2> QED BY <2>2, <2>4, <2>5 DEF Holds
<1>7. h = <<>>
  <2>1. h = SubSeq(F, Len(F) + 1, Len(F))
    BY <1>2, <1>4 DEF Drop
  <2>2. Len(F) + 1 \in Int /\ Len(F) \in Int /\ Len(F) < Len(F) + 1
    BY <1>3
  <2> QED BY <2>1, <2>2, SubSeqEmpty
<1>8. z \in [B -> 0 .. Len(<<>>)] /\ z[L] = (IF cdc THEN 0 + L ELSE 0)
      /\ (cdc => \A i \in 1 .. L : s[i] = <<>>[0 + i])
      /\ \A a, b \in B : a <= b => z[a] <= z[b]
  BY <1>2, <1>5
<1>9. <<>> = Drop(<<>>, z[Len(s)])
  <2>1. z[Len(s)] = 0
    BY <1>2
  <2>2. Drop(<<>>, 0) = <<>>
    <3>1. SubSeq(<<>>, 0 + 1, Len(<<>>)) = <<>>
      BY SubSeqEmpty
    <3> QED BY <3>1 DEF Drop
  <2> QED BY <2>1, <2>2
<1> HIDE DEF z
<1>10. Carried(s, L, cdc, 0, <<>>, <<>>)
  BY <1>2, <1>6, <1>8, <1>9, CarriedIntro
<1> QED BY <1>7, <1>10

\* A client starts a frame when nothing of one is under way.
LEMMA FrameStarts ==
  ASSUME NEW s \in Seq(Byte), NEW L \in 0 .. Len(s), NEW cdc \in BOOLEAN, NEW h,
         NEW p \in Nat, Carried(s, L, cdc, p, <<>>, h), NEW f \in Seq(Byte)
  PROVE  Carried(s, L, cdc, 0, f, f) /\ (cdc => L = 0)
<1>0. PICK B \in SUBSET (L .. Len(s)) :
        \E c \in [B -> 0 .. Len(<<>>)] : Carries(s, L, cdc, p, <<>>, h, B, c)
  BY DEF Carried
<1>1. PICK c \in [B -> 0 .. Len(<<>>)] : Carries(s, L, cdc, p, <<>>, h, B, c)
  BY <1>0
<1>2. /\ B \in SUBSET (L .. Len(s)) /\ c \in [B -> 0 .. Len(<<>>)]
      /\ L \in B /\ Len(s) \in B
      /\ c[L] = IF cdc THEN p + L ELSE p
      /\ \A b \in B \ {Len(s)} : Holds(s, <<>>, B, c, b)
  BY <1>1, CarriesParts
<1>3. L \in Nat /\ Len(<<>>) = 0 /\ Len(f) \in Nat
  OBVIOUS
<1>4. ASSUME NEW b \in B PROVE c[b] = 0
  <2>1. c[b] \in 0 .. 0
    BY <1>2, <1>3
  <2> QED BY <2>1
<1>5. cdc => L = 0
  <2> SUFFICES ASSUME cdc PROVE L = 0
    OBVIOUS
  <2>1. p \in Nat /\ p + L = 0
    BY <1>2, <1>4
  <2> QED BY <2>1, <1>3
<1> DEFINE z == [b \in B |-> 0]
<1>6. ASSUME NEW b \in B \ {Len(s)} PROVE Holds(s, f, B, z, b)
  <2>1. Holds(s, <<>>, B, c, b)
    BY <1>2
  <2>2. b + 2 + s[b + 2] \in B /\ s[b + 2] \in 1 .. USBMODE_PACKET_SIZE /\ Starts(s, b)
    BY <2>1 DEF Holds, Starts
  <2>3. c[b] = 0 /\ c[b + 2 + s[b + 2]] = 0 /\ s[b + 2] \in Nat /\ s[b + 2] > 0
    BY <2>2, <1>4, PacketSizes
  <2>4. s[b + 1] # IO_CDC
    <3>1. 0 # 0 + s[b + 2]
      BY <2>3
    <3> QED BY <3>1, <2>1, <2>3 DEF Holds
  <2>5. z[b] = 0 /\ z[b + 2 + s[b + 2]] = 0
    BY <2>2
  <2> QED BY <2>2, <2>4, <2>5 DEF Holds
<1>8. /\ z \in [B -> 0 .. Len(f)]
      /\ z[L] = IF cdc THEN 0 + L ELSE 0
      /\ cdc => \A i \in 1 .. L : s[i] = f[0 + i]
      /\ \A a, b \in B : a <= b => z[a] <= z[b]
  BY <1>2, <1>3, <1>5
<1>9. f = Drop(f, z[Len(s)])
  <2>1. z[Len(s)] = 0
    BY <1>2
  <2>2. Drop(f, 0) = f
    BY SubSeqFull DEF Drop
  <2> QED BY <2>1, <2>2
<1> HIDE DEF z
<1>10. Carried(s, L, cdc, 0, f, f)
  BY <1>2, <1>6, <1>8, <1>9, CarriedIntro
<1> QED BY <1>5, <1>10

LEMMA NothingLeft ==
  ASSUME NEW s, NEW cdc, NEW other, NEW F, NEW p \in Nat, NEW h, Carried(s, 0, cdc, p, F, h)
  PROVE  Carried(s, 0, other, p, F, h)
<1>0. PICK B \in SUBSET (0 .. Len(s)) :
        \E c \in [B -> 0 .. Len(F)] : Carries(s, 0, cdc, p, F, h, B, c)
  BY DEF Carried
<1>1. PICK c \in [B -> 0 .. Len(F)] : Carries(s, 0, cdc, p, F, h, B, c)
  BY <1>0
<1>2. Carries(s, 0, other, p, F, h, B, c)
  BY <1>1 DEF Carries
<1> QED BY <1>0, <1>1, <1>2 DEF Carried

LEMMA NothingYet == ASSUME NEW cdc PROVE Carried(<<>>, 0, cdc, 0, <<>>, <<>>)
<1> DEFINE B == {0}
           c == [b \in B |-> 0]
<1>1. B \in SUBSET (0 .. Len(<<>>)) /\ 0 \in B /\ Len(<<>>) \in B /\ B \ {Len(<<>>)} = {}
  OBVIOUS
<1>2. /\ c \in [B -> 0 .. Len(<<>>)]
      /\ c[0] = IF cdc THEN 0 + 0 ELSE 0
      /\ cdc => \A i \in 1 .. 0 : <<>>[i] = <<>>[0 + i]
      /\ \A a, b \in B : a <= b => c[a] <= c[b]
  OBVIOUS
<1>3. <<>> = Drop(<<>>, c[Len(<<>>)])
  <2>1. c[Len(<<>>)] = 0
    OBVIOUS
  <2>2. Drop(<<>>, 0) = <<>>
    <3>1. SubSeq(<<>>, 0 + 1, Len(<<>>)) = <<>>
      BY SubSeqEmpty
    <3> QED BY <3>1 DEF Drop
  <2>3. Drop(<<>>, c[Len(<<>>)]) = Drop(<<>>, 0)
    <3> HIDE DEF c
    <3> QED BY <2>1
  <2> QED BY <2>2, <2>3
<1> HIDE DEF B, c
<1> DEFINE z == <<>>
<1>4. /\ B \in SUBSET (0 .. Len(z)) /\ 0 \in B /\ Len(z) \in B /\ B \ {Len(z)} = {}
      /\ c \in [B -> 0 .. Len(z)]
      /\ c[0] = IF cdc THEN 0 + 0 ELSE 0
      /\ cdc => \A i \in 1 .. 0 : z[i] = z[0 + i]
      /\ \A a, b \in B : a <= b => c[a] <= c[b]
      /\ z = Drop(z, c[Len(z)])
  BY <1>1, <1>2, <1>3
<1> HIDE DEF z
<1>5. Carries(z, 0, cdc, 0, z, z, B, c)
  <2>1. Cuts(z, 0, B)
    BY <1>4 DEF Cuts
  <2>2. \A b \in {} : FALSE
    OBVIOUS
  <2> QED BY <2>1, <2>2, <1>4 DEF Carries
<1>6. Carried(z, 0, cdc, 0, z, z)
  BY <1>4, <1>5 DEF Carried
<1> QED BY <1>6 DEF z

(***************************************************************************)
(* There is room: what the CH552 sends after it was asked to stop fits     *)
(* into the FIFO, so that the engine never has to wait with its byte.      *)
(***************************************************************************)
InFifo == byte_ctr_reg + Len(Engine)

Room ==
  /\ ~fpga_cts_reg => InFifo <= CTS_AT
  /\ packet = <<>> => header = 0 /\ InFifo + Len(line) <= CTS_AT + 1
  /\ packet # <<>> => header < Len(packet) /\ InFifo + Len(line) + header <= CTS_AT + 3

LineTypes ==
  /\ fpga_cts_reg \in BOOLEAN
  /\ packet \in Seq(Byte) /\ line \in Seq(Byte) /\ Len(line) <= 1
  /\ header \in Nat
  /\ todo \in Seq(ClientFrames) /\ asked \in ClientFrames \cup {None}
  /\ host \in Seq(Byte) /\ stray \in Nat

LineInv == FifoInv /\ LineTypes /\ Room

LEMMA EngineLen ==
  ASSUME FifoInv
  PROVE  /\ byte_ctr_reg \in Nat /\ Len(Engine) \in Nat /\ Len(Engine) <= 1
         /\ InFifo \in Nat /\ InFifo = Len(Received)
         /\ ~rxd_syn_reg => Len(Engine) = 0
<1>1. /\ byte_ctr_reg \in Nat /\ FifoBytes \in Seq(Byte) /\ Engine \in Seq(Byte)
      /\ Len(FifoBytes) = byte_ctr_reg /\ Received = FifoBytes \o Engine
  BY ReceivedType
<1>2. Len(Engine) \in Nat /\ Len(Engine) <= 1 /\ (~rxd_syn_reg => Len(Engine) = 0)
  BY DEF Engine
<1>3. Len(Received) = Len(FifoBytes) + Len(Engine)
  BY <1>1, ConcatProperties
<1> QED BY <1>1, <1>2, <1>3 DEF InFifo

\* The FIFO is not full while a byte is on the line.
LEMMA NeverFull ==
  ASSUME LineInv, line # <<>>
  PROVE  ~fifo_full
<1>1. Len(line) = 1 /\ header \in Nat
  <2>1. line \in Seq(Byte) /\ Len(line) \in Nat /\ Len(line) <= 1 /\ header \in Nat
    BY DEF LineInv, LineTypes
  <2>2. Len(line) # 0
    BY <2>1
  <2>3. \A x \in Nat : x <= 1 /\ x # 0 => x = 1
    OBVIOUS
  <2> QED BY <2>1, <2>2, <2>3
<1>2. byte_ctr_reg \in Nat /\ Len(Engine) \in Nat
  BY EngineLen DEF LineInv
<1>3. CTS_AT \in Nat /\ FIFO_WORDS \in Nat /\ CTS_AT + 3 < FIFO_WORDS
  BY FifoAssumption, RoomAssumption
<1>4. InFifo + 1 <= CTS_AT + 3
  <2>1. InFifo \in Nat
    BY <1>2 DEF InFifo
  <2>2. CASE packet = <<>>
    <3>1. InFifo + 1 <= CTS_AT + 1
      BY <2>2, <1>1 DEF LineInv, Room
    <3> QED BY <2>1, <1>3, <3>1
  <2>3. CASE packet # <<>>
    <3>1. InFifo + 1 + header <= CTS_AT + 3
      BY <2>3, <1>1 DEF LineInv, Room
    <3> QED BY <1>1, <2>1, <1>3, <3>1
  <2> QED BY <2>2, <2>3
<1>5. byte_ctr_reg < FIFO_WORDS - 1
  BY <1>2, <1>3, <1>4 DEF InFifo
<1> QED BY <1>2, <1>3, <1>5 DEF fifo_full

LEMMA StopBitIsFree ==
  ASSUME LineInv, StopBit
  PROVE  ~rxd_syn_reg /\ line # <<>> /\ line[1] \in Byte /\ Len(line) = 1
<1>1. line # <<>> /\ ~rxd_syn_reg
  BY NeverFull DEF StopBit
<1>2. line \in Seq(Byte) /\ Len(line) \in Nat /\ Len(line) <= 1
  BY DEF LineInv, LineTypes
<1>3. Len(line) # 0
  BY <1>1, <1>2
<1>4. Len(line) = 1
  <2>1. \A x \in Nat : x <= 1 /\ x # 0 => x = 1
    OBVIOUS
  <2> QED BY <2>1, <1>2, <1>3
<1>5. line[1] \in Byte
  BY <1>2, <1>4
<1> QED BY <1>1, <1>4, <1>5

\* What one edge does to the bytes in the FIFO and to clear-to-send.
LEMMA EdgeCounts ==
  ASSUME FifoInv, NEW out_ack \in BOOLEAN, NEW arrival \in BOOLEAN, NEW b \in Byte,
         Edge(out_ack, arrival, b), arrival => ~rxd_syn_reg, out_ack => can_rx
  PROVE  /\ FifoInv' /\ fpga_cts_reg' \in BOOLEAN /\ InFifo' \in Nat
         /\ InFifo' = InFifo - (IF out_ack THEN 1 ELSE 0) + (IF arrival THEN 1 ELSE 0)
         /\ ~fpga_cts_reg' => InFifo' <= CTS_AT
<1>1. FifoInv'
  BY EdgeKeepsInv
<1>2. /\ Received \in Seq(Byte) /\ InFifo = Len(Received) /\ InFifo \in Nat
      /\ byte_ctr_reg \in Nat /\ Len(Engine) \in Nat /\ Len(Engine) <= 1
      /\ (~rxd_syn_reg => Len(Engine) = 0) /\ (can_rx => Received # <<>>)
  <2>1. can_rx => byte_ctr_reg > 0 /\ byte_ctr_reg \in Nat
    BY ReceivedType DEF can_rx, fifo_empty
  <2>2. /\ Received \in Seq(Byte) /\ InFifo = Len(Received) /\ InFifo \in Nat
        /\ byte_ctr_reg \in Nat /\ Len(Engine) \in Nat /\ Len(Engine) <= 1
        /\ (~rxd_syn_reg => Len(Engine) = 0)
    BY EngineLen, ReceivedType
  <2>3. can_rx => Len(Received) > 0
    BY <2>1, <2>2 DEF InFifo
  <2> QED BY <2>2, <2>3
<1>3. InFifo' = Len(Received')
  <2>1. /\ FifoBytes' \in Seq(Byte) /\ Len(FifoBytes') = byte_ctr_reg'
        /\ Engine' \in Seq(Byte) /\ Received' = FifoBytes' \o Engine'
    BY <1>1, ReceivedTypeNext
  <2>2. Len(Received') = Len(FifoBytes') + Len(Engine')
    BY <2>1
  <2> QED BY <2>1, <2>2 DEF InFifo
<1> DEFINE r == IF out_ack THEN Tail(Received) ELSE Received
           a == IF arrival THEN <<b>> ELSE <<>>
<1>4. Received' = r \o a
  BY EdgeIsQueueStep
<1>5. r \in Seq(Byte) /\ Len(r) = Len(Received) - (IF out_ack THEN 1 ELSE 0)
  BY <1>2
<1>6. a \in Seq(Byte) /\ Len(a) = (IF arrival THEN 1 ELSE 0)
  OBVIOUS
<1> HIDE DEF r, a
<1>7. Len(Received') = Len(r) + Len(a)
  BY <1>4, <1>5, <1>6, ConcatProperties
<1>8. InFifo' = InFifo - (IF out_ack THEN 1 ELSE 0) + (IF arrival THEN 1 ELSE 0)
  BY <1>2, <1>3, <1>5, <1>6, <1>7
<1>9. InFifo' \in Nat
  BY <1>3, <1>4, <1>5, <1>6, <1>7
<1>10. fpga_cts_reg' \in BOOLEAN /\ (~fpga_cts_reg' => byte_ctr_reg < CTS_AT)
  <2>2. byte_ctr_reg \in Nat /\ CTS_AT \in Nat
    BY <1>2, FifoAssumption
  <2>0. fpga_cts_reg' = (byte_ctr_reg >= CTS_AT)
    BY DEF Edge
  <2>1. fpga_cts_reg' \in BOOLEAN /\ (fpga_cts_reg' <=> byte_ctr_reg >= CTS_AT)
    <3> DEFINE high == byte_ctr_reg >= CTS_AT
    <3>1. high \in BOOLEAN
      BY <2>2
    <3>2. fpga_cts_reg' = high
      BY <2>0
    <3> HIDE DEF high
    <3>3. fpga_cts_reg' \in BOOLEAN /\ (fpga_cts_reg' <=> high)
      BY <3>1, <3>2
    <3> QED BY <3>3 DEF high
  <2> QED BY <2>2, <2>1
<1>11. ASSUME ~fpga_cts_reg' PROVE InFifo' <= CTS_AT
  <2>1. byte_ctr_reg \in Nat /\ CTS_AT \in Nat /\ Len(Engine) \in Nat /\ InFifo \in Nat
        /\ byte_ctr_reg < CTS_AT /\ Len(Engine) <= 1 /\ InFifo = byte_ctr_reg + Len(Engine)
    BY <1>2, <1>10, <1>11, FifoAssumption DEF InFifo
  <2>2. CASE arrival
    <3>1. InFifo = byte_ctr_reg
      BY <2>2, <2>1, <1>2
    <3>2. InFifo' <= InFifo + 1
      BY <2>1, <1>8
    <3> QED BY <2>1, <1>9, <3>1, <3>2
  <2>3. CASE ~arrival
    <3>1. InFifo' <= InFifo
      BY <2>3, <2>1, <1>8
    <3> QED BY <2>1, <1>9, <3>1
  <2> QED BY <2>2, <2>3
<1> QED BY <1>1, <1>8, <1>9, <1>10, <1>11

(***************************************************************************)
(* The bytes on their way, but for a mode byte the firmware holds.         *)
(***************************************************************************)
Wire == Received \o line \o packet

LEMMA TailOfConcat ==
  ASSUME NEW s \in Seq(Byte), NEW t \in Seq(Byte), s # <<>>
  PROVE  /\ Tail(s \o t) = Tail(s) \o t /\ s \o t # <<>>
         /\ (s \o t)[1] = s[1] /\ Tail(s) \in Seq(Byte) /\ s[1] \in Byte
<1>1. Len(s) \in Nat /\ Len(t) \in Nat /\ Len(s) > 0
  OBVIOUS
<1>2. /\ Tail(s) \in Seq(Byte) /\ Len(Tail(s)) = Len(s) - 1
      /\ \A i \in 1 .. Len(Tail(s)) : Tail(s)[i] = s[i + 1]
  BY HeadTailProperties
<1> DEFINE u == s \o t
           v == Tail(s) \o t
<1>3. /\ u \in Seq(Byte) /\ Len(u) = Len(s) + Len(t)
      /\ \A i \in 1 .. Len(s) + Len(t) : u[i] = IF i <= Len(s) THEN s[i] ELSE t[i - Len(s)]
  BY ConcatProperties
<1>4. /\ v \in Seq(Byte) /\ Len(v) = Len(Tail(s)) + Len(t)
      /\ \A i \in 1 .. Len(Tail(s)) + Len(t) :
           v[i] = IF i <= Len(Tail(s)) THEN Tail(s)[i] ELSE t[i - Len(Tail(s))]
  BY <1>2, ConcatProperties
<1> HIDE DEF u, v
<1>5. u # <<>> /\ u[1] = s[1] /\ s[1] \in Byte
  <2>1. Len(u) > 0 /\ 1 \in 1 .. Len(s) + Len(t) /\ 1 <= Len(s)
    BY <1>1, <1>3
  <2>2. u[1] = s[1]
    BY <2>1, <1>3
  <2>3. u # <<>>
    BY <2>1
  <2>4. 1 \in 1 .. Len(s)
    BY <1>1
  <2> QED BY <2>2, <2>3, <2>4
<1>6. /\ Tail(u) \in Seq(Byte) /\ Len(Tail(u)) = Len(u) - 1
      /\ \A i \in 1 .. Len(Tail(u)) : Tail(u)[i] = u[i + 1]
  BY <1>3, <1>5, HeadTailProperties
<1>7. Len(Tail(u)) = Len(v)
  BY <1>1, <1>2, <1>3, <1>4, <1>6
<1>8. ASSUME NEW i \in 1 .. Len(Tail(u)) PROVE Tail(u)[i] = v[i]
  <2>1. i \in Nat /\ i + 1 \in 1 .. Len(s) + Len(t) /\ i \in 1 .. Len(Tail(s)) + Len(t)
        /\ i >= 1
    BY <1>1, <1>2, <1>3, <1>6
  <2>2. Tail(u)[i] = IF i + 1 <= Len(s) THEN s[i + 1] ELSE t[i + 1 - Len(s)]
    BY <2>1, <1>3, <1>6
  <2>3. v[i] = IF i <= Len(s) - 1 THEN Tail(s)[i] ELSE t[i - (Len(s) - 1)]
    BY <2>1, <1>2, <1>4
  <2>4. CASE i + 1 <= Len(s)
    <3>1. i <= Len(s) - 1 /\ i \in 1 .. Len(Tail(s))
      BY <2>1, <2>4, <1>1, <1>2
    <3> QED BY <3>1, <2>2, <2>3, <2>4, <1>2
  <2>5. CASE ~(i + 1 <= Len(s))
    <3>1. ~(i <= Len(s) - 1) /\ i + 1 - Len(s) = i - (Len(s) - 1)
      BY <2>1, <2>5, <1>1
    <3> QED BY <3>1, <2>2, <2>3, <2>5
  <2> QED BY <2>4, <2>5
<1>9. Tail(u) = v
  BY <1>4, <1>6, <1>7, <1>8, SeqEqual
<1> QED BY <1>2, <1>5, <1>9 DEF u, v

LEMMA Regroup == \A s, t, u \in Seq(Byte) : (s \o t) \o u = s \o (t \o u)
BY ConcatAssociative

LEMMA WireType ==
  ASSUME LineInv
  PROVE  /\ Wire \in Seq(Byte) /\ Received \in Seq(Byte) /\ Received \o line \in Seq(Byte)
         /\ line \in Seq(Byte) /\ packet \in Seq(Byte)
<1>1. Received \in Seq(Byte) /\ line \in Seq(Byte) /\ packet \in Seq(Byte)
  BY ReceivedType DEF LineInv, LineTypes
<1>2. Received \o line \in Seq(Byte)
  BY <1>1, ConcatProperties
<1>3. (Received \o line) \o packet \in Seq(Byte)
  BY <1>1, <1>2, ConcatProperties
<1> QED BY <1>1, <1>2, <1>3 DEF Wire

\* An edge moves bytes along the way and takes at most the first off it.
LEMMA EdgeMovesBytes ==
  ASSUME LineInv, NEW out_ack \in BOOLEAN, NEW arrival \in BOOLEAN,
         Edge(out_ack, arrival, IF arrival THEN line[1] ELSE 0),
         arrival => StopBit, out_ack => can_rx,
         line' = (IF arrival THEN <<>> ELSE line),
         UNCHANGED <<packet, header, clientvars>>
  PROVE  /\ LineInv'
         /\ Wire' = IF out_ack THEN Tail(Wire) ELSE Wire
         /\ out_ack => Wire # <<>> /\ Wire[1] = rx /\ rx \in Byte
<1> DEFINE b == IF arrival THEN line[1] ELSE 0
<1>1. arrival => ~rxd_syn_reg /\ line # <<>> /\ line[1] \in Byte /\ Len(line) = 1
  BY StopBitIsFree
<1>2. b \in Byte
  <2>1. 0 \in Byte
    BY ProtoAssumption
  <2> QED BY <2>1, <1>1
<1> HIDE DEF b
<1>3. Edge(out_ack, arrival, b)
  BY DEF b
<1>4. FifoInv
  BY DEF LineInv
<1>5. /\ FifoInv' /\ fpga_cts_reg' \in BOOLEAN /\ InFifo' \in Nat
      /\ InFifo' = InFifo - (IF out_ack THEN 1 ELSE 0) + (IF arrival THEN 1 ELSE 0)
      /\ ~fpga_cts_reg' => InFifo' <= CTS_AT
  BY <1>1, <1>2, <1>3, <1>4, EdgeCounts
<1>6. InFifo \in Nat /\ Len(line) \in Nat /\ header \in Nat /\ CTS_AT \in Nat
  BY <1>4, EngineLen, FifoAssumption DEF LineInv, LineTypes
<1>7. LineTypes'
  BY <1>5 DEF LineInv, LineTypes, clientvars
<1>8. Len(line') \in Nat /\ InFifo' + Len(line') <= InFifo + Len(line)
  <2>1. CASE arrival
    <3>1. Len(line') = 0 /\ Len(line) = 1
      BY <2>1, <1>1
    <3>2. InFifo' <= InFifo + 1
      BY <2>1, <1>5, <1>6
    <3> QED BY <3>1, <3>2, <1>5, <1>6
  <2>2. CASE ~arrival
    <3>1. Len(line') = Len(line) /\ InFifo' <= InFifo
      BY <2>2, <1>5, <1>6
    <3> QED BY <3>1, <1>5, <1>6
  <2> QED BY <2>1, <2>2
<1>9. Room'
  <2>1. packet' = packet /\ header' = header
    OBVIOUS
  <2>2. CASE packet = <<>>
    <3>1. header = 0 /\ InFifo + Len(line) <= CTS_AT + 1
      BY <2>2 DEF LineInv, Room
    <3>2. InFifo' + Len(line') <= CTS_AT + 1
      BY <1>5, <1>6, <1>8, <3>1
    <3> QED BY <2>1, <2>2, <3>1, <3>2, <1>5 DEF Room
  <2>3. CASE packet # <<>>
    <3>1. header < Len(packet) /\ InFifo + Len(line) + header <= CTS_AT + 3
      BY <2>3 DEF LineInv, Room
    <3>2. InFifo' + Len(line') + header <= CTS_AT + 3
      BY <1>5, <1>6, <1>8, <3>1
    <3> QED BY <2>1, <2>3, <3>1, <3>2, <1>5 DEF Room
  <2> QED BY <2>2, <2>3
<1>10. LineInv'
  BY <1>5, <1>7, <1>9 DEF LineInv
<1> DEFINE r == IF out_ack THEN Tail(Received) ELSE Received
           a == IF arrival THEN <<b>> ELSE <<>>
<1>11. Received' = r \o a
  BY <1>1, <1>2, <1>3, <1>4, EdgeIsQueueStep
<1>12. /\ Received \in Seq(Byte) /\ line \in Seq(Byte) /\ packet \in Seq(Byte)
       /\ Received \o line \in Seq(Byte) /\ Wire \in Seq(Byte)
  BY WireType
<1>13. out_ack => Received # <<>> /\ Received[1] = rx
  <2>1. /\ FifoBytes \in Seq(Byte) /\ Engine \in Seq(Byte) /\ Received = FifoBytes \o Engine
        /\ can_rx => FifoBytes # <<>> /\ Head(FifoBytes) = rx
    BY <1>4, ReceivedType
  <2>2. can_rx => Received # <<>> /\ Received[1] = FifoBytes[1]
    BY <2>1, TailOfConcat
  <2>3. can_rx => Head(FifoBytes) = FifoBytes[1]
    BY <2>1
  <2> QED BY <2>1, <2>2, <2>3
<1>14. r \in Seq(Byte)
  BY <1>12, <1>13, HeadTailProperties
<1>15. a \in Seq(Byte) /\ line' \in Seq(Byte) /\ a \o line' = line
  <2>1. CASE arrival
    <3>1. line = <<line[1]>>
      BY <2>1, <1>1, <1>12
    <3> QED BY <2>1, <3>1, <1>2, <1>12 DEF b
  <2>2. CASE ~arrival
    BY <2>2, <1>12
  <2> QED BY <2>1, <2>2
<1> HIDE DEF r, a
<1>16. Received' \o line' = r \o line
  <2>1. (r \o a) \o line' = r \o (a \o line')
    <3>1. r \in Seq(Byte) /\ a \in Seq(Byte) /\ line' \in Seq(Byte)
      BY <1>14, <1>15
    <3> QED BY <3>1, Regroup
  <2> QED BY <2>1, <1>11, <1>15
<1>17. Wire' = (r \o line) \o packet
  BY <1>16 DEF Wire
<1>18. CASE out_ack
  <2>1. r = Tail(Received) /\ Received # <<>> /\ Received[1] = rx
    BY <1>13, <1>18 DEF r
  <2>2. /\ Tail(Received \o line) = Tail(Received) \o line /\ Received \o line # <<>>
        /\ (Received \o line)[1] = Received[1] /\ Received[1] \in Byte
    BY <2>1, <1>12, TailOfConcat
  <2> DEFINE w == Received \o line
  <2> HIDE DEF w
  <2>3. w \in Seq(Byte) /\ w # <<>> /\ packet \in Seq(Byte)
    BY <1>12, <2>2 DEF w
  <2>4. Tail(w \o packet) = Tail(w) \o packet /\ w \o packet # <<>> /\ (w \o packet)[1] = w[1]
    BY <2>3, TailOfConcat
  <2> QED BY <1>10, <1>17, <1>18, <2>1, <2>2, <2>4 DEF w, Wire
<1>19. CASE ~out_ack
  BY <1>10, <1>17, <1>19 DEF r, Wire
<1> QED BY <1>18, <1>19

LEMMA FrameType ==
  ASSUME NEW f \in ClientFrames
  PROVE  /\ f \in Seq(Byte) /\ f # None /\ f # <<>> /\ Len(f) = 1 + Length[f[1] % 4]
         /\ IsFrame(f)
BY ClientAssumption DEF IsFrame

LEMMA SendCommandLine ==
  ASSUME LineInv, SendCommand
  PROVE  /\ LineInv' /\ Wire' = Wire
         /\ asked' \in ClientFrames /\ asked = None /\ host' = asked'
<1>1. Head(todo) \in ClientFrames /\ Tail(todo) \in Seq(ClientFrames)
  BY HeadTailProperties DEF LineInv, LineTypes, SendCommand
<1>2. LineTypes'
  BY <1>1, FrameType DEF LineInv, LineTypes, SendCommand, ch552vars, fifovars
<1>3. FifoInv'
  BY DEF LineInv, SendCommand, fifovars, FifoInv, PointersAgree, SlotAfter
<1>4. Room'
  BY DEF LineInv, SendCommand, fifovars, ch552vars, Room, InFifo, Engine
<1>5. Wire' = Wire
  BY DEF SendCommand, fifovars, ch552vars, Wire, Received, FifoBytes, SlotAfter
<1> QED BY <1>1, <1>2, <1>3, <1>4, <1>5 DEF LineInv, SendCommand

LEMMA ReceiveReplyLine ==
  ASSUME LineInv, ReceiveReply
  PROVE  LineInv' /\ Wire' = Wire
<1>1. LineTypes'
  BY DEF LineInv, LineTypes, ReceiveReply, ch552vars, fifovars
<1>2. FifoInv'
  BY DEF LineInv, ReceiveReply, fifovars, FifoInv, PointersAgree, SlotAfter
<1>3. Room'
  BY DEF LineInv, ReceiveReply, fifovars, ch552vars, Room, InFifo, Engine
<1>4. Wire' = Wire
  BY DEF ReceiveReply, fifovars, ch552vars, Wire, Received, FifoBytes, SlotAfter
<1> QED BY <1>1, <1>2, <1>3, <1>4 DEF LineInv

\* What neither the FIFO nor the CH552 nor the client takes part in.
LEMMA InternalLine ==
  ASSUME LineInv, Internal, UNCHANGED clientvars
  PROVE  LineInv' /\ Wire' = Wire
<1>1. LineTypes'
  BY DEF LineInv, LineTypes, Internal, ch552vars, fifovars, clientvars
<1>2. FifoInv'
  BY DEF LineInv, Internal, fifovars, FifoInv, PointersAgree, SlotAfter
<1>3. Room'
  BY DEF LineInv, Internal, fifovars, ch552vars, Room, InFifo, Engine
<1>4. Wire' = Wire
  BY DEF Internal, fifovars, ch552vars, Wire, Received, FifoBytes, SlotAfter
<1> QED BY <1>1, <1>2, <1>3, <1>4 DEF LineInv

\* The CH552 puts a packet together.
LEMMA NewPacketLine ==
  ASSUME LineInv, Idle, NEW mode \in {IO_CDC, IO_DEBUG}, NEW data \in Seq(Byte),
         Len(data) \in 1 .. USBMODE_PACKET_SIZE,
         packet' = Framed(mode, data), header' = 2, host' \in Seq(Byte), stray' \in Nat,
         UNCHANGED <<todo, asked, line, fifovars>>
  PROVE  LineInv' /\ Wire' = Wire \o Framed(mode, data)
<1> DEFINE f == Framed(mode, data)
<1>1. f \in Seq(Byte) /\ Len(f) = 2 + Len(data) /\ Len(data) \in Nat /\ Len(data) > 0
  BY FramedProperties, PacketSizes
<1> HIDE DEF f
<1>2. packet' = f /\ packet = <<>> /\ line = <<>>
  BY DEF f, Idle
<1>3. LineTypes'
  BY <1>1, <1>2 DEF LineInv, LineTypes, fifovars
<1>4. FifoInv'
  BY DEF LineInv, fifovars, FifoInv, PointersAgree, SlotAfter
<1>5. InFifo \in Nat /\ CTS_AT \in Nat /\ Len(line) = 0 /\ line' = line /\ InFifo' = InFifo
  BY <1>2, EngineLen, FifoAssumption DEF LineInv, fifovars, InFifo, Engine
<1>6. InFifo + Len(line) <= CTS_AT + 1
  BY <1>2 DEF LineInv, Room
<1>7. Room'
  <2>1. InFifo' + Len(line') + header' <= CTS_AT + 3
    BY <1>5, <1>6
  <2>2. header' < Len(packet') /\ packet' # <<>>
    BY <1>1, <1>2
  <2>3. ~fpga_cts_reg' => InFifo' <= CTS_AT
    BY <1>5 DEF LineInv, Room, fifovars
  <2> QED BY <2>1, <2>2, <2>3 DEF Room
<1>8. Wire' = Wire \o f
  <2>1. Received' = Received /\ line' = <<>>
    BY <1>2 DEF fifovars, Received, FifoBytes, SlotAfter
  <2>2. Received \in Seq(Byte) /\ Received \o <<>> = Received
    BY WireType, ConcatEmptySeq
  <2>3. Wire = Received
    BY <1>2, <2>2, ConcatEmptySeq DEF Wire
  <2>4. Wire' = Received \o f
    BY <1>2, <2>1, <2>2 DEF Wire
  <2> QED BY <2>3, <2>4
<1> QED BY <1>3, <1>4, <1>7, <1>8 DEF LineInv, f

LEMMA TakeProperties ==
  ASSUME NEW s \in Seq(Byte), NEW k \in 0 .. Len(s)
  PROVE  /\ Take(s, k) \in Seq(Byte) /\ Len(Take(s, k)) = k
         /\ \A i \in 1 .. k : Take(s, k)[i] = s[i]
<1>1. k \in Nat /\ k \in Int /\ 1 \in Int /\ \A i \in 1 .. k : s[i] \in Byte
  OBVIOUS
<1> DEFINE u == SubSeq(s, 1, k)
<1> HIDE DEF u
<1>2. /\ u \in Seq(Byte) /\ Len(u) = IF 1 <= k THEN k - 1 + 1 ELSE 0
      /\ \A i \in 1 .. k - 1 + 1 : u[i] = s[1 + i - 1]
  BY <1>1, SubSeqProperties DEF u
<1>3. k - 1 + 1 = k /\ (IF 1 <= k THEN k - 1 + 1 ELSE 0) = k /\ \A i \in 1 .. k : 1 + i - 1 = i
  BY <1>1
<1>4. u \in Seq(Byte) /\ Len(u) = k
  BY <1>2, <1>3
<1>5. ASSUME NEW i \in 1 .. k PROVE u[i] = s[i]
  BY <1>2, <1>3
<1> QED BY <1>4, <1>5 DEF Take, u

LEMMA CdcPacketLine ==
  ASSUME LineInv, CdcPacket
  PROVE  /\ LineInv'
         /\ \E data \in Seq(Byte) :
              /\ Len(data) \in 1 .. USBMODE_PACKET_SIZE /\ Len(data) <= Len(host)
              /\ \A i \in 1 .. Len(data) : data[i] = host[i]
              /\ host' = Drop(host, Len(data)) /\ Wire' = Wire \o Framed(IO_CDC, data)
<1>1. host \in Seq(Byte) /\ Len(host) \in Nat /\ USBMODE_PACKET_SIZE \in Nat
  <2>1. USBMODE_PACKET_SIZE \in 1 .. 255
    BY ProtoAssumption
  <2> QED BY <2>1 DEF LineInv, LineTypes
<1>2. PICK k \in 1 .. Least(Len(host), USBMODE_PACKET_SIZE) :
        packet' = Framed(IO_CDC, Take(host, k)) /\ host' = Drop(host, k)
  BY DEF CdcPacket
<1>3. k \in 0 .. Len(host) /\ k \in 1 .. USBMODE_PACKET_SIZE
  <2>1. \A x, y \in Nat : \A j \in 1 .. Least(x, y) : j \in 0 .. x /\ j \in 1 .. y
    BY DEF Least
  <2> QED BY <2>1, <1>1, <1>2
<1> DEFINE data == Take(host, k)
<1>4. /\ data \in Seq(Byte) /\ Len(data) = k
      /\ \A i \in 1 .. k : data[i] = host[i]
  BY <1>1, <1>3, TakeProperties
<1>5. host' \in Seq(Byte)
  BY <1>1, <1>2, <1>3, DropProperties
<1> HIDE DEF data
<1>6. packet' = Framed(IO_CDC, data)
  BY <1>2 DEF data
<1>7. LineInv' /\ Wire' = Wire \o Framed(IO_CDC, data)
  BY <1>3, <1>4, <1>5, <1>6, NewPacketLine DEF CdcPacket, LineInv, LineTypes
<1>8. Len(data) <= Len(host)
  BY <1>1, <1>3, <1>4
<1> QED BY <1>2, <1>3, <1>4, <1>7, <1>8

LEMMA DebugPacketLine ==
  ASSUME LineInv, DebugPacket
  PROVE  /\ LineInv' /\ host' = host
         /\ \E data \in Seq(Byte) :
              /\ Len(data) \in 1 .. USBMODE_PACKET_SIZE
              /\ Wire' = Wire \o Framed(IO_DEBUG, data)
<1>1. PICK k \in StraySizes : packet' = Framed(IO_DEBUG, [i \in 1 .. k |-> IO_CDC])
  BY DEF DebugPacket
<1>2. k \in 1 .. USBMODE_PACKET_SIZE /\ k \in Nat
  BY <1>1, ProtoAssumption, PacketSizes
<1> DEFINE data == [i \in 1 .. k |-> IO_CDC]
<1>3. data \in Seq(Byte) /\ Len(data) = k
  <2>1. IO_CDC \in Byte
    BY ProtoAssumption DEF IO_CDC
  <2>2. data \in [1 .. k -> Byte]
    BY <2>1
  <2> HIDE DEF data
  <2> QED BY <1>2, <2>2, IsASeq
<1> HIDE DEF data
<1>4. packet' = Framed(IO_DEBUG, data)
  BY <1>1 DEF data
<1>5. LineInv' /\ Wire' = Wire \o Framed(IO_DEBUG, data)
  <2>1. /\ host' \in Seq(Byte) /\ stray' \in Nat /\ header' = 2 /\ Idle
        /\ UNCHANGED <<todo, asked, line, fifovars>>
    BY DEF DebugPacket, LineInv, LineTypes
  <2>2. IO_DEBUG \in {IO_CDC, IO_DEBUG} /\ Len(data) \in 1 .. USBMODE_PACKET_SIZE
    BY <1>2, <1>3
  <2> QED BY <2>1, <2>2, <1>3, <1>4, NewPacketLine
<1> QED BY <1>2, <1>3, <1>5 DEF DebugPacket

LEMMA Ch552SendLine ==
  ASSUME LineInv, Ch552Send
  PROVE  LineInv' /\ Wire' = Wire
<1> DEFINE h == Head(packet)
           r == Tail(packet)
<1>1. /\ packet \in Seq(Byte) /\ packet # <<>> /\ line = <<>> /\ header \in Nat
      /\ InFifo \in Nat /\ CTS_AT \in Nat /\ Received \in Seq(Byte)
  BY EngineLen, FifoAssumption, WireType DEF LineInv, LineTypes, Ch552Send
<1>2. h \in Byte /\ r \in Seq(Byte) /\ Len(r) = Len(packet) - 1 /\ packet = <<h>> \o r
  <2>1. h \in Byte /\ r \in Seq(Byte) /\ Len(r) = Len(packet) - 1
    BY <1>1, HeadTailProperties
  <2>2. packet = <<h>> \o r
    BY <1>1
  <2> QED BY <2>1, <2>2
<1> HIDE DEF h, r
<1>3. /\ line' = <<h>> /\ packet' = r
      /\ header' = IF header > 0 THEN header - 1 ELSE 0
      /\ header > 0 \/ ~fpga_cts_reg
  BY DEF Ch552Send, h, r
<1>4. LineTypes'
  BY <1>1, <1>2, <1>3 DEF LineInv, LineTypes, Ch552Send, fifovars, clientvars
<1>5. FifoInv'
  BY DEF LineInv, Ch552Send, fifovars, FifoInv, PointersAgree, SlotAfter
<1>6. InFifo' = InFifo /\ Len(line') = 1 /\ Len(line) = 0 /\ fpga_cts_reg' = fpga_cts_reg
  BY <1>1, <1>2, <1>3 DEF Ch552Send, fifovars, InFifo, Engine
<1>7. /\ header < Len(packet) /\ InFifo + Len(line) + header <= CTS_AT + 3
      /\ ~fpga_cts_reg => InFifo <= CTS_AT
  BY <1>1 DEF LineInv, Room
<1>8. Len(packet) \in Nat /\ Len(r) \in Nat
  BY <1>1, <1>2
<1>9. Room'
  <2>1. CASE header > 0
    <3>1. header' = header - 1 /\ header' < Len(r) /\ InFifo' + Len(line') + header' <= CTS_AT + 3
      BY <2>1, <1>1, <1>2, <1>3, <1>6, <1>7, <1>8
    <3>2. r # <<>>
      BY <3>1, <2>1, <1>1, <1>2, <1>3, <1>8
    <3> QED BY <3>1, <3>2, <1>3, <1>6, <1>7 DEF Room
  <2>2. CASE ~(header > 0)
    <3>1. header' = 0 /\ InFifo <= CTS_AT
      BY <2>2, <1>1, <1>3, <1>7
    <3>2. InFifo' + Len(line') <= CTS_AT + 1 /\ InFifo' + Len(line') + header' <= CTS_AT + 3
      BY <3>1, <1>1, <1>6
    <3>3. r # <<>> => header' < Len(r)
      BY <3>1, <1>2, <1>8
    <3> QED BY <3>1, <3>2, <3>3, <1>3, <1>6, <1>7 DEF Room
  <2> QED BY <2>1, <2>2
<1>10. Wire' = Wire
  <2>1. Received' = Received
    BY DEF Ch552Send, fifovars, Received, FifoBytes, SlotAfter
  <2>2. <<h>> \in Seq(Byte)
    BY <1>2
  <2>3. (Received \o <<h>>) \o r = Received \o (<<h>> \o r)
    BY <2>2, <1>1, <1>2, Regroup
  <2>4. Wire = Received \o packet
    BY <1>1, ConcatEmptySeq DEF Wire
  <2> QED BY <2>1, <2>3, <2>4, <1>2, <1>3 DEF Wire
<1> QED BY <1>4, <1>5, <1>9, <1>10 DEF LineInv

LEMMA ArriveLine ==
  ASSUME LineInv, Arrive
  PROVE  LineInv' /\ Wire' = Wire
<1>1. /\ Edge(FALSE, TRUE, IF TRUE THEN line[1] ELSE 0) /\ StopBit
      /\ line' = (IF TRUE THEN <<>> ELSE line)
      /\ UNCHANGED <<packet, header, clientvars>>
  BY DEF Arrive
<1>2. FALSE \in BOOLEAN /\ TRUE \in BOOLEAN
  OBVIOUS
<1>3. LineInv' /\ Wire' = IF FALSE THEN Tail(Wire) ELSE Wire
  BY <1>1, <1>2, EdgeMovesBytes
<1> QED BY <1>3

LEMMA TickLine ==
  ASSUME LineInv, Tick
  PROVE  LineInv' /\ Wire' = Wire
<1>1. /\ Edge(FALSE, FALSE, IF FALSE THEN line[1] ELSE 0)
      /\ line' = (IF FALSE THEN <<>> ELSE line)
      /\ UNCHANGED <<packet, header, clientvars>>
  BY DEF Tick, ch552vars
<1>2. FALSE \in BOOLEAN
  OBVIOUS
<1>3. LineInv' /\ Wire' = IF FALSE THEN Tail(Wire) ELSE Wire
  BY <1>1, <1>2, EdgeMovesBytes
<1> QED BY <1>3

LEMMA readbyteLine ==
  ASSUME LineInv, readbyte, UNCHANGED clientvars
  PROVE  /\ LineInv' /\ Wire' = Tail(Wire)
         /\ Wire # <<>> /\ Wire[1] = rx /\ rx \in Byte
<1>1. can_rx /\ UNCHANGED <<packet, header, clientvars>>
  BY DEF readbyte
<1>2. PICK arrival \in BOOLEAN :
        /\ Edge(TRUE, arrival, IF arrival THEN line[1] ELSE 0)
        /\ arrival => StopBit
        /\ line' = (IF arrival THEN <<>> ELSE line)
  <2>1. CASE Edge(TRUE, FALSE, 0) /\ UNCHANGED line
    <3>1. /\ Edge(TRUE, FALSE, IF FALSE THEN line[1] ELSE 0)
          /\ FALSE => StopBit
          /\ line' = (IF FALSE THEN <<>> ELSE line)
      BY <2>1
    <3> QED BY <3>1
  <2>2. CASE StopBit /\ Edge(TRUE, TRUE, line[1]) /\ line' = <<>>
    <3>1. /\ Edge(TRUE, TRUE, IF TRUE THEN line[1] ELSE 0)
          /\ TRUE => StopBit
          /\ line' = (IF TRUE THEN <<>> ELSE line)
      BY <2>2
    <3> QED BY <3>1
  <2> QED BY <2>1, <2>2 DEF readbyte
<1>3. /\ LineInv'
      /\ Wire' = IF TRUE THEN Tail(Wire) ELSE Wire
      /\ TRUE => Wire # <<>> /\ Wire[1] = rx /\ rx \in Byte
  BY <1>1, <1>2, EdgeMovesBytes
<1> QED BY <1>3

LEMMA LineInitially == Init => LineInv
<1> SUFFICES ASSUME Init PROVE LineInv
  OBVIOUS
<1>1. FifoInv
  BY FifoInitially DEF Init
<1>2. LineTypes
  <2>1. ASSUME NEW c \in Clients PROVE c \in Seq(ClientFrames)
    BY ClientAssumption
  <2>2. todo \in Seq(ClientFrames) /\ asked \in ClientFrames \cup {None}
    BY <2>1 DEF Init
  <2>3. packet = <<>> /\ line = <<>> /\ host = <<>> /\ header = 0 /\ stray = 0
    BY DEF Init, FifoInit
  <2>4. fpga_cts_reg \in BOOLEAN
    BY DEF Init, FifoInit
  <2>5. <<>> \in Seq(Byte) /\ Len(<<>>) <= 1 /\ 0 \in Nat
    OBVIOUS
  <2> QED BY <2>2, <2>3, <2>4, <2>5 DEF LineTypes
<1>3. Room
  <2>1. Engine = <<>> /\ byte_ctr_reg = 0 /\ InFifo = 0
    BY DEF Init, FifoInit, Engine, InFifo
  <2> QED BY <2>1, FifoAssumption DEF Init, FifoInit, Room
<1> QED BY <1>1, <1>2, <1>3 DEF LineInv

LEMMA StutterLine ==
  ASSUME LineInv, UNCHANGED vars
  PROVE  LineInv' /\ Wire' = Wire
BY InternalLine DEF vars, Internal, clientvars, ch552vars

LEMMA LineStep == ASSUME LineInv, [Next]_vars PROVE LineInv'
<1>1. CASE Environment
  BY <1>1, SendCommandLine, CdcPacketLine, DebugPacketLine, Ch552SendLine, ReceiveReplyLine
     DEF Environment
<1>2. CASE Hardware
  BY <1>2, ArriveLine, TickLine DEF Hardware
<1>3. CASE Firmware
  <2>1. CASE ReadMode \/ ReadLength \/ discard \/ ReadHeader \/ ReadByte
    <3>1. readbyte /\ UNCHANGED clientvars
      BY <2>1 DEF ReadMode, ReadLength, discard, ReadHeader, ReadByte
    <3> QED BY <3>1, readbyteLine
  <2>2. CASE Check \/ ReadBody \/ Handle \/ WritePacket \/ NextCommand
    <3>1. Internal /\ UNCHANGED clientvars
      BY <2>2 DEF Check, ReadBody, Handle, WritePacket, NextCommand
    <3> QED BY <3>1, InternalLine
  <2> QED BY <1>3, <2>1, <2>2 DEF Firmware
<1>4. CASE Finished \/ UNCHANGED vars
  BY <1>4, StutterLine DEF Finished
<1> QED BY <1>1, <1>2, <1>3, <1>4 DEF Next

LEMMA LineInvariant == Spec => []LineInv
<1>1. LineInv /\ [Next]_vars => LineInv'
  BY LineStep
<1> QED BY <1>1, LineInitially, PTL DEF Spec

\* What the CH552 sends after it was asked to stop finds room: at most a data byte
\* and the header of the next packet come in above the mark, so the FIFO is not
\* full when a byte arrives and none is missed (uart_fifo.v, CTS_AT; debug.h,
\* CH554UART1SendByte(), waits before a data byte but not before a header).
RoomForTheLine == byte_ctr_reg + Len(line) <= CTS_AT + 3

THEOREM ReceiverHasRoom == Spec => []RoomForTheLine
<1>1. LineInv => RoomForTheLine
  <2> SUFFICES ASSUME LineInv PROVE RoomForTheLine
    OBVIOUS
  <2>1. byte_ctr_reg \in Nat /\ Len(Engine) \in Nat /\ InFifo \in Nat
        /\ Len(line) \in Nat /\ header \in Nat /\ CTS_AT \in Nat
        /\ InFifo = byte_ctr_reg + Len(Engine)
    BY EngineLen, FifoAssumption DEF LineInv, LineTypes, InFifo
  <2>2. CASE packet = <<>>
    <3>1. InFifo + Len(line) <= CTS_AT + 1
      BY <2>2 DEF LineInv, Room
    <3> QED BY <2>1, <3>1 DEF RoomForTheLine
  <2>3. CASE packet # <<>>
    <3>1. InFifo + Len(line) + header <= CTS_AT + 3
      BY <2>3 DEF LineInv, Room
    <3> QED BY <2>1, <3>1 DEF RoomForTheLine
  <2> QED BY <2>2, <2>3
<1> QED BY <1>1, LineInvariant, PTL

(***************************************************************************)
(* The firmware's side.  `Consumed' is how much of the client's frame it   *)
(* has read, as its own state tells it; `Stream' says that exactly the     *)
(* rest of the frame is on the way.                                        *)
(***************************************************************************)
Sent == IF asked = None THEN <<>> ELSE asked
FromCdc == cur_endpoint.endpoint = IO_CDC
Answering == pc = "write" /\ out # <<>>
ReadingPC == {"select", "length", "check", "discard", "header", "body", "read"}
Reading == pc \in ReadingPC

Consumed ==
  IF asked = None THEN 0
  ELSE IF WholeReply(got) \/ pc = "handle" \/ Answering THEN Len(asked)
  ELSE IF pc = "write" THEN 0
  ELSE IF after = "body" THEN 1 + n ELSE 0

Stream ==
  /\ left \in 0 .. Len(OnTheWay)
  /\ \E p \in 0 .. Len(Sent) :
       /\ Carried(OnTheWay, left, FromCdc, p, Sent, host)
       /\ pc # "failed" => p = Consumed

FirmwareTypes ==
  /\ pc \in ReadingPC \cup {"handle", "write", "failed"} /\ after \in {"header", "body"}
  /\ cur_endpoint \in [endpoint : {IO_NONE, IO_CDC, IO_DEBUG}, len : Byte]
  /\ cmd \in [1 .. CMDSIZE -> Byte] /\ n \in Nat /\ available \in Nat
  /\ out \in Seq(Nat) /\ got \in Seq(Nat)

\* Where the firmware is in the packet.
PacketInv ==
  /\ pc \in {"header", "body", "read"} => FromCdc /\ cur_endpoint.len > 0
  /\ pc = "discard" => ~FromCdc /\ cur_endpoint.len > 0 /\ available = cur_endpoint.len
  /\ pc = "check" => cur_endpoint.len > 0
  /\ pc = "length" => cur_endpoint.len = 0
  /\ pc = "header" => after = "header"
  /\ pc \in {"body", "read"} => after = "body" /\ available = cur_endpoint.len

Begun(f, k) == [i \in 1 .. CMDSIZE |-> IF i <= k THEN f[i + 1] ELSE 0]
HasHeader == asked # None /\ parseframe(asked[1]) # None /\ hdr = parseframe(asked[1])

\* Where the firmware is in the command.
CommandInv ==
  /\ asked = None => got = <<>> /\ ((pc = "write" /\ out = <<>>) \/ (Reading /\ after = "header"))
  /\ WholeReply(got) =>
       /\ out = <<>> /\ asked # None /\ IsGood(asked) /\ got \in RepliesTo(asked)
       /\ pc = "write" \/ (Reading /\ after = "header")
  /\ ~WholeReply(got) => Answering \/ got = <<>>
  /\ ~Answering => out = <<>>
  /\ Reading /\ after = "body" => HasHeader /\ 1 + n < Len(asked) /\ cmd = Begun(asked, n)
  /\ pc = "handle" \/ Answering =>
       HasHeader /\ hdr.endpoint = DST_FW /\ cmd = Begun(asked, Len(asked) - 1)
  /\ Answering => IsGood(asked) /\ got \o out \in RepliesTo(asked)
  /\ pc = "failed" => asked # None /\ ~IsGood(asked)

FwInv == LineInv /\ FirmwareTypes /\ PacketInv /\ CommandInv /\ Stream

\* The mode byte joins at the front.
LEMMA Prefixed ==
  ASSUME NEW x \in Seq(Byte), NEW r \in Seq(Byte), NEW l \in Seq(Byte), NEW q \in Seq(Byte)
  PROVE  x \o r \o l \o q = x \o (r \o l \o q) /\ <<>> \o r \o l \o q = r \o l \o q
<1>1. r \o l \in Seq(Byte)
  BY ConcatProperties
<1>2. (x \o r) \o l = x \o (r \o l)
  BY Regroup
<1>3. (x \o (r \o l)) \o q = x \o ((r \o l) \o q)
  BY <1>1, Regroup
<1>4. <<>> \o r = r
  BY ConcatEmptySeq
<1> QED BY <1>2, <1>3, <1>4

LEMMA OnTheWayIsWire ==
  ASSUME LineInv, FirmwareTypes
  PROVE  /\ Wire \in Seq(Byte) /\ OnTheWay \in Seq(Byte)
         /\ pc # "length" => OnTheWay = Wire
         /\ pc = "length" => OnTheWay = <<cur_endpoint.endpoint>> \o Wire
<1>1. Wire \in Seq(Byte) /\ Received \in Seq(Byte) /\ line \in Seq(Byte) /\ packet \in Seq(Byte)
  BY WireType
<1>2. <<cur_endpoint.endpoint>> \in Seq(Byte)
  <2>1. {IO_NONE, IO_CDC, IO_DEBUG} \subseteq Byte
    BY ProtoAssumption DEF IO_NONE, IO_CDC, IO_DEBUG
  <2> QED BY <2>1 DEF FirmwareTypes
<1>3. pc # "length" => OnTheWay = Wire
  BY <1>1, <1>2, Prefixed DEF OnTheWay, Wire
<1>4. pc = "length" => OnTheWay = <<cur_endpoint.endpoint>> \o Wire
  BY <1>1, <1>2, Prefixed DEF OnTheWay, Wire
<1>5. <<cur_endpoint.endpoint>> \o Wire \in Seq(Byte)
  BY <1>1, <1>2, ConcatProperties
<1> QED BY <1>1, <1>3, <1>4, <1>5

LEMMA OnTheWayNext ==
  ASSUME LineInv', cur_endpoint'.endpoint \in Byte
  PROVE  /\ Wire' \in Seq(Byte)
         /\ pc' # "length" => OnTheWay' = Wire'
         /\ pc' = "length" => OnTheWay' = <<cur_endpoint'.endpoint>> \o Wire'
<1>1. Received' \in Seq(Byte) /\ line' \in Seq(Byte) /\ packet' \in Seq(Byte)
  <2>1. /\ FifoBytes' \in Seq(Byte) /\ Engine' \in Seq(Byte) /\ Received' = FifoBytes' \o Engine'
    BY ReceivedTypeNext DEF LineInv
  <2>2. Received' \in Seq(Byte)
    BY <2>1, ConcatProperties
  <2> QED BY <2>2 DEF LineInv, LineTypes
<1>2. <<cur_endpoint'.endpoint>> \in Seq(Byte)
  OBVIOUS
<1>3. Wire' = Received' \o line' \o packet'
  BY DEF Wire
<1>4. Wire' \in Seq(Byte)
  <2>1. Received' \o line' \in Seq(Byte)
    BY <1>1, ConcatProperties
  <2>2. (Received' \o line') \o packet' \in Seq(Byte)
    BY <2>1, <1>1, ConcatProperties
  <2> QED BY <1>3, <2>2
<1>5. OnTheWay' = (IF pc' = "length" THEN <<cur_endpoint'.endpoint>> ELSE <<>>)
                  \o Received' \o line' \o packet'
  BY DEF OnTheWay
<1>6. ASSUME pc' # "length" PROVE OnTheWay' = Wire'
  <2>1. OnTheWay' = <<>> \o Received' \o line' \o packet'
    BY <1>5, <1>6
  <2>2. <<>> \o Received' = Received'
    BY <1>1, ConcatEmptySeq
  <2> QED BY <2>1, <2>2, <1>3
<1>7. ASSUME pc' = "length" PROVE OnTheWay' = <<cur_endpoint'.endpoint>> \o Wire'
  <2>1. OnTheWay' = <<cur_endpoint'.endpoint>> \o Received' \o line' \o packet'
    BY <1>5, <1>7
  <2> DEFINE x == <<cur_endpoint'.endpoint>>
  <2> HIDE DEF x
  <2>2. x \in Seq(Byte)
    BY <1>2 DEF x
  <2>3. x \o Received' \o line' \o packet' = x \o (Received' \o line' \o packet')
    <3>1. (x \o Received') \o line' = x \o (Received' \o line')
      BY <2>2, <1>1, Regroup
    <3> DEFINE y == Received' \o line'
    <3>2. y \in Seq(Byte)
      BY <1>1, ConcatProperties
    <3> HIDE DEF y
    <3>3. (x \o y) \o packet' = x \o (y \o packet')
      BY <3>2, <2>2, <1>1, Regroup
    <3> QED BY <3>1, <3>3 DEF y
  <2> QED BY <2>1, <2>3, <1>3 DEF x
<1> QED BY <1>4, <1>6, <1>7

LEMMA ParseProperties ==
  ASSUME NEW f \in ClientFrames
  PROVE  /\ f[1] \in Byte /\ Len(f) \in Nat /\ Len(f) >= 2 /\ Len(f) <= 1 + CMDSIZE
         /\ parseframe(f[1]) # None =>
              /\ parseframe(f[1]).id \in 0 .. 3 /\ parseframe(f[1]).endpoint \in 0 .. 3
              /\ parseframe(f[1]).len = Len(f) - 1 /\ parseframe(f[1]).len \in 1 .. CMDSIZE
<1>1. f \in Seq(Byte) /\ f # <<>> /\ Len(f) = 1 + Length[f[1] % 4]
  BY FrameType
<1>2. f[1] \in Byte /\ f[1] \in Nat
  <2>1. 1 \in 1 .. Len(f)
    BY <1>1
  <2>2. \A x \in Byte : x \in Nat
    BY ProtoAssumption
  <2> QED BY <1>1, <2>1, <2>2
<1> DEFINE b == f[1]
           k == Length[b % 4]
<1> HIDE DEF b
<1>3. b \in Nat /\ b % 4 \in 0 .. 3 /\ (b \div 32) % 4 \in 0 .. 3 /\ (b \div 8) % 4 \in 0 .. 3
  BY <1>2 DEF b
<1>4. k \in 1 .. CMDSIZE /\ CMDSIZE \in Nat
  BY <1>3, ProtoAssumption
<1>5. Len(f) = 1 + k /\ k \in Nat /\ k >= 1 /\ k <= CMDSIZE
  <2> HIDE DEF k
  <2>1. k \in Nat /\ k >= 1 /\ k <= CMDSIZE
    BY <1>4
  <2> QED BY <2>1, <1>1 DEF b, k
<1>6. Len(f) \in Nat /\ Len(f) >= 2 /\ Len(f) <= 1 + CMDSIZE /\ k = Len(f) - 1
  <2> HIDE DEF k
  <2> QED BY <1>4, <1>5
<1>7. parseframe(b) # None =>
        parseframe(b) = [id |-> (b \div 32) % 4, endpoint |-> (b \div 8) % 4, len |-> k]
  BY DEF parseframe, bytelen
<1>8. parseframe(b) # None =>
        /\ parseframe(b).id \in 0 .. 3 /\ parseframe(b).endpoint \in 0 .. 3
        /\ parseframe(b).len = Len(f) - 1 /\ parseframe(b).len \in 1 .. CMDSIZE
  BY <1>3, <1>4, <1>6, <1>7
<1> QED BY <1>2, <1>6, <1>8 DEF b

(***************************************************************************)
(* Replies.                                                                *)
(***************************************************************************)
RspCodes == {FW_RSP_NAME_VERSION, FW_RSP_GET_UDI, FW_RSP_LOAD_APP, FW_RSP_LOAD_APP_DATA,
             FW_RSP_LOAD_APP_DATA_READY}

LEMMA ResponseCodes == \A code : Responses(code) \subseteq RspCodes
BY DEF Responses, RspCodes, FW_CMD_NAME_VERSION, FW_CMD_GET_UDI, FW_CMD_LOAD_APP,
       FW_CMD_LOAD_APP_DATA

LEMMA ResponseLengths == \A c \in RspCodes : RspLen(c) \in 1 .. 3 /\ c \in Nat
BY DEF RspCodes, RspLen, FW_RSP_NAME_VERSION, FW_RSP_GET_UDI, FW_RSP_LOAD_APP,
       FW_RSP_LOAD_APP_DATA, FW_RSP_LOAD_APP_DATA_READY, LEN_4, LEN_32, LEN_128

LEMMA ReplyProperties ==
  ASSUME NEW f \in ClientFrames, parseframe(f[1]) # None, NEW r \in RepliesTo(f)
  PROVE  r \in Seq(Nat) /\ r # <<>> /\ WholeReply(r)
<1>1. PICK c \in Responses(f[2]) : r = ReplyFrame(parseframe(f[1]), c)
  BY DEF RepliesTo
<1> DEFINE h == parseframe(f[1])
           k == RspLen(c)
           nb == Length[k]
           g == genhdr(h.id, h.endpoint, 0, k)
           hd == <<g, c>>
           pl == [i \in 1 .. nb - 1 |-> 200 + i]
<1>2. k \in 1 .. 3 /\ c \in Nat
  BY <1>1, ResponseCodes, ResponseLengths
<1>3. h.id \in 0 .. 3 /\ h.endpoint \in 0 .. 3
  BY ParseProperties
<1>4. nb \in Nat /\ nb >= 1
  <2> HIDE DEF k
  <2>1. k \in 0 .. 3
    BY <1>2
  <2>2. nb \in 1 .. CMDSIZE /\ CMDSIZE \in 1 .. 255
    BY <2>1, ProtoAssumption
  <2> HIDE DEF nb
  <2> QED BY <2>2
<1>5. g \in Nat /\ g % 4 = k
  <2> DEFINE id == h.id
             ep == h.endpoint
  <2> HIDE DEF k, id, ep
  <2>1. g = 32 * id + 8 * ep + 4 * 0 + k
    BY DEF genhdr, id, ep
  <2>2. id \in 0 .. 3 /\ ep \in 0 .. 3
    BY <1>3 DEF id, ep
  <2> HIDE DEF g
  <2> QED BY <1>2, <2>1, <2>2
<1>6. r = hd \o pl
  BY <1>1 DEF ReplyFrame, bytelen
<1> HIDE DEF g, k, nb
<1>7. hd \in Seq(Nat) /\ Len(hd) = 2 /\ hd[1] = g
  BY <1>2, <1>5
<1>8. pl \in Seq(Nat) /\ Len(pl) = nb - 1
  <2>1. nb - 1 \in Nat
    BY <1>4
  <2>2. pl \in [1 .. nb - 1 -> Nat]
    OBVIOUS
  <2> HIDE DEF pl
  <2> QED BY <2>1, <2>2, IsASeq
<1> HIDE DEF hd, pl
<1>9. /\ r \in Seq(Nat) /\ Len(r) = 2 + (nb - 1)
      /\ \A i \in 1 .. 2 + (nb - 1) : r[i] = IF i <= 2 THEN hd[i] ELSE pl[i - 2]
  <2>1. /\ hd \o pl \in Seq(Nat) /\ Len(hd \o pl) = Len(hd) + Len(pl)
        /\ \A i \in 1 .. Len(hd) + Len(pl) :
             (hd \o pl)[i] = IF i <= Len(hd) THEN hd[i] ELSE pl[i - Len(hd)]
    BY <1>7, <1>8, ConcatProperties
  <2> QED BY <2>1, <1>6, <1>7, <1>8
<1>10. Len(r) = 1 + nb /\ r # <<>> /\ r[1] = g
  BY <1>4, <1>7, <1>9
<1>11. bytelen(r[1] % 4) = nb
  BY <1>5, <1>10 DEF bytelen, nb
<1> QED BY <1>9, <1>10, <1>11 DEF WholeReply

\* A proper part of a reply is not taken for a whole one.
LEMMA PartOfReply ==
  ASSUME NEW a \in Seq(Nat), NEW b \in Seq(Nat), b # <<>>, WholeReply(a \o b)
  PROVE  ~WholeReply(a)
<1> SUFFICES ASSUME WholeReply(a) PROVE FALSE
  OBVIOUS
<1> DEFINE r == a \o b
<1>1. /\ r \in Seq(Nat) /\ Len(r) = Len(a) + Len(b)
      /\ \A i \in 1 .. Len(a) + Len(b) : r[i] = IF i <= Len(a) THEN a[i] ELSE b[i - Len(a)]
  BY ConcatProperties
<1> HIDE DEF r
<1>2. WholeReply(r)
  BY DEF r
<1>3. a # <<>> /\ Len(a) = 1 + bytelen(a[1] % 4) /\ Len(r) = 1 + bytelen(r[1] % 4)
  BY <1>2 DEF WholeReply
<1>4. Len(a) \in Nat /\ Len(b) \in Nat /\ Len(a) > 0 /\ Len(b) > 0
  BY <1>3
<1>5. r[1] = a[1]
  <2>1. 1 \in 1 .. Len(a) + Len(b) /\ 1 <= Len(a)
    BY <1>4
  <2> QED BY <2>1, <1>1
<1>6. Len(r) = Len(a)
  BY <1>3, <1>5
<1> QED BY <1>1, <1>4, <1>6

LEMMA EmptyIsNotWhole == ~WholeReply(<<>>)
BY DEF WholeReply

(***************************************************************************)
(* The stream under each kind of step.                                     *)
(***************************************************************************)
LEMMA LeftIsLen ==
  ASSUME FirmwareTypes, PacketInv
  PROVE  /\ left = cur_endpoint.len /\ left \in Nat /\ left <= 255
         /\ cur_endpoint.endpoint \in Byte
<1>1. cur_endpoint.len \in Byte /\ cur_endpoint.endpoint \in {IO_NONE, IO_CDC, IO_DEBUG}
  BY DEF FirmwareTypes
<1>2. {IO_NONE, IO_CDC, IO_DEBUG} \subseteq Byte /\ \A x \in Byte : x \in Nat /\ x <= 255
  BY ProtoAssumption DEF IO_NONE, IO_CDC, IO_DEBUG
<1>3. left = cur_endpoint.len
  BY DEF left, PacketInv
<1> QED BY <1>1, <1>2, <1>3

\* Everything but the progress in the frame is as it was.
LEMMA StreamKept ==
  ASSUME FwInv, LineInv', Wire' = Wire, (pc' = "length") <=> (pc = "length"),
         cur_endpoint' = cur_endpoint, host' = host, asked' = asked,
         pc = "failed" => pc' = "failed",
         pc' # "failed" => Consumed' = Consumed
  PROVE  Stream'
<1>1. OnTheWay' = OnTheWay
  <2>1. cur_endpoint'.endpoint \in Byte
    BY LeftIsLen DEF FwInv
  <2>2. CASE pc = "length"
    BY <2>1, <2>2, OnTheWayIsWire, OnTheWayNext DEF FwInv
  <2>3. CASE pc # "length"
    BY <2>1, <2>3, OnTheWayIsWire, OnTheWayNext DEF FwInv
  <2> QED BY <2>2, <2>3
<1>2. left' = left /\ FromCdc' = FromCdc /\ Sent' = Sent
  BY DEF left, FromCdc, Sent
<1>3. PICK p \in 0 .. Len(Sent) : /\ Carried(OnTheWay, left, FromCdc, p, Sent, host)
                                  /\ pc # "failed" => p = Consumed
  BY DEF FwInv, Stream
<1>4. Carried(OnTheWay', left', FromCdc', p, Sent', host') /\ p \in 0 .. Len(Sent')
  BY <1>1, <1>2, <1>3
<1>5. pc' # "failed" => p = Consumed'
  BY <1>3
<1>6. left' \in 0 .. Len(OnTheWay')
  BY <1>1, <1>2 DEF FwInv, Stream
<1> QED BY <1>4, <1>5, <1>6 DEF Stream

LEMMA SendCommandInv ==
  ASSUME FwInv, SendCommand
  PROVE  FwInv'
<1>1. LineInv' /\ Wire' = Wire /\ asked' \in ClientFrames /\ asked = None /\ host' = asked'
  BY SendCommandLine DEF FwInv
<1>2. UNCHANGED <<fifovars, ch552vars, got, fwvars>>
  BY DEF SendCommand
<1>3. asked' # None /\ asked' \in Seq(Byte)
  BY <1>1, FrameType
<1>4. got = <<>> /\ ((pc = "write" /\ out = <<>>) \/ (Reading /\ after = "header"))
  BY <1>1 DEF FwInv, CommandInv
<1>5. ~WholeReply(got)
  BY <1>4, EmptyIsNotWhole
<1>6. FirmwareTypes' /\ PacketInv'
  BY <1>2 DEF FwInv, FirmwareTypes, PacketInv, fwvars, FromCdc, ReadingPC
<1>7. CommandInv'
  <2>1. pc' = pc /\ out' = out /\ got' = got /\ after' = after
    BY <1>2 DEF fwvars
  <2>2. out = <<>> /\ pc \notin {"handle", "failed"} /\ (Reading => after = "header")
    BY <1>4 DEF FwInv, CommandInv, Answering, Reading, ReadingPC
  <2>3. out' = <<>> /\ got' = <<>> /\ ~WholeReply(got)' /\ ~Answering' /\ ~(Reading /\ after = "body")'
        /\ pc' \notin {"handle", "failed"}
    BY <2>1, <2>2, <1>4, <1>5 DEF Answering, Reading, WholeReply
  <2> QED BY <2>3, <1>3 DEF CommandInv
<1>8. Stream'
  <2>1. cur_endpoint'.endpoint \in Byte /\ cur_endpoint' = cur_endpoint /\ pc' = pc
    BY <1>2, LeftIsLen DEF FwInv, fwvars
  <2>2. OnTheWay' = OnTheWay /\ OnTheWay \in Seq(Byte)
    <3>1. CASE pc = "length"
      BY <1>1, <2>1, <3>1, OnTheWayIsWire, OnTheWayNext DEF FwInv
    <3>2. CASE pc # "length"
      BY <1>1, <2>1, <3>2, OnTheWayIsWire, OnTheWayNext DEF FwInv
    <3> QED BY <3>1, <3>2
  <2>3. PICK p \in 0 .. Len(Sent) : Carried(OnTheWay, left, FromCdc, p, Sent, host)
    BY DEF FwInv, Stream
  <2>4. Sent = <<>> /\ Sent' = asked' /\ p \in Nat
    BY <1>1, <1>3, <2>3 DEF Sent
  <2>5. left \in 0 .. Len(OnTheWay) /\ FromCdc \in BOOLEAN
    BY DEF FwInv, Stream, FromCdc
  <2>6. Carried(OnTheWay, left, FromCdc, 0, asked', asked')
    BY <1>3, <2>2, <2>3, <2>4, <2>5, FrameStarts
  <2>7. left' = left /\ FromCdc' = FromCdc
    BY <2>1 DEF left, FromCdc
  <2>8. Consumed' = 0
    BY <1>2, <1>3, <1>4, <1>5 DEF Consumed, fwvars, Answering, Reading, ReadingPC, WholeReply
  <2>9. 0 \in 0 .. Len(Sent')
    BY <1>3, <2>4
  <2>10. Carried(OnTheWay', left', FromCdc', 0, Sent', host')
    BY <1>1, <2>2, <2>4, <2>6, <2>7
  <2> QED BY <2>2, <2>5, <2>7, <2>8, <2>9, <2>10 DEF Stream
<1> QED BY <1>1, <1>6, <1>7, <1>8 DEF FwInv

LEMMA AskedType ==
  ASSUME FwInv
  PROVE  /\ asked \in ClientFrames \cup {None} /\ Sent \in Seq(Byte) /\ Len(Sent) \in Nat
         /\ OnTheWay \in Seq(Byte) /\ Wire \in Seq(Byte)
         /\ left \in 0 .. Len(OnTheWay) /\ left = cur_endpoint.len /\ left \in Nat
         /\ FromCdc \in BOOLEAN
         /\ asked # None => asked \in ClientFrames /\ Sent = asked
         /\ asked = None => Sent = <<>>
<1>1. asked \in ClientFrames \cup {None}
  BY DEF FwInv, LineInv, LineTypes
<1>2. asked # None => asked \in ClientFrames /\ Sent = asked /\ Sent \in Seq(Byte)
  BY <1>1, FrameType DEF Sent
<1>3. asked = None => Sent = <<>> /\ Sent \in Seq(Byte)
  BY DEF Sent
<1>4. Sent \in Seq(Byte) /\ Len(Sent) \in Nat
  BY <1>2, <1>3
<1> QED BY <1>1, <1>2, <1>3, <1>4, OnTheWayIsWire, LeftIsLen DEF FwInv, Stream, FromCdc

LEMMA NewPacketInv ==
  ASSUME FwInv, LineInv', UNCHANGED <<asked, got, fwvars>>,
         NEW mode \in {IO_CDC, IO_DEBUG}, NEW data \in Seq(Byte),
         Len(data) \in 1 .. USBMODE_PACKET_SIZE, Wire' = Wire \o Framed(mode, data),
         mode = IO_CDC => Len(data) <= Len(host) /\ \A i \in 1 .. Len(data) : data[i] = host[i],
         host' = IF mode = IO_CDC THEN Drop(host, Len(data)) ELSE host
  PROVE  FwInv'
<1>1. FirmwareTypes' /\ PacketInv'
  BY DEF FwInv, FirmwareTypes, PacketInv, fwvars, FromCdc, ReadingPC
<1>2. CommandInv'
  BY DEF FwInv, CommandInv, fwvars, Reading, ReadingPC, Answering, WholeReply, HasHeader
<1>3. Stream'
  <2> DEFINE f == Framed(mode, data)
             x == <<cur_endpoint.endpoint>>
  <2>1. f \in Seq(Byte)
    BY FramedProperties
  <2>2. cur_endpoint'.endpoint \in Byte /\ cur_endpoint' = cur_endpoint /\ pc' = pc /\ x \in Seq(Byte)
    BY LeftIsLen DEF FwInv, fwvars
  <2>3. Wire \in Seq(Byte) /\ OnTheWay \in Seq(Byte) /\ left \in 0 .. Len(OnTheWay)
        /\ FromCdc \in BOOLEAN /\ Sent \in Seq(Byte)
    BY AskedType
  <2> HIDE DEF f
  <2>4. OnTheWay' = OnTheWay \o f
    <3>1. CASE pc = "length"
      <4>1. OnTheWay = x \o Wire /\ OnTheWay' = x \o Wire'
        BY <2>2, <3>1, OnTheWayIsWire, OnTheWayNext DEF FwInv
      <4> HIDE DEF x
      <4>2. (x \o Wire) \o f = x \o (Wire \o f)
        BY <2>1, <2>2, <2>3, Regroup
      <4> QED BY <4>1, <4>2 DEF f
    <3>2. CASE pc # "length"
      BY <2>2, <3>2, OnTheWayIsWire, OnTheWayNext DEF FwInv, f
    <3> QED BY <3>1, <3>2
  <2>5. PICK p \in 0 .. Len(Sent) : /\ Carried(OnTheWay, left, FromCdc, p, Sent, host)
                                    /\ pc # "failed" => p = Consumed
    BY DEF FwInv, Stream
  <2>6. Carried(OnTheWay \o f, left, FromCdc, p, Sent,
                IF mode = IO_CDC THEN Drop(host, Len(data)) ELSE host)
    BY <2>3, <2>5, PacketJoins DEF f
  <2>7. left' = left /\ FromCdc' = FromCdc /\ Sent' = Sent /\ Consumed' = Consumed
    BY <2>2 DEF left, FromCdc, Sent, Consumed, fwvars, Answering, WholeReply
  <2>8. Carried(OnTheWay', left', FromCdc', p, Sent', host') /\ p \in 0 .. Len(Sent')
    BY <2>4, <2>5, <2>6, <2>7
  <2>9. left' \in 0 .. Len(OnTheWay')
    <3>1. Len(OnTheWay') = Len(OnTheWay) + Len(f) /\ Len(OnTheWay) \in Nat /\ Len(f) \in Nat
      BY <2>1, <2>3, <2>4, ConcatProperties
    <3> QED BY <3>1, <2>3, <2>7
  <2> QED BY <2>2, <2>5, <2>7, <2>8, <2>9 DEF Stream
<1> QED BY <1>1, <1>2, <1>3 DEF FwInv

LEMMA CdcPacketInv == ASSUME FwInv, CdcPacket PROVE FwInv'
<1>1. PICK data \in Seq(Byte) :
        /\ Len(data) \in 1 .. USBMODE_PACKET_SIZE /\ Len(data) <= Len(host)
        /\ \A i \in 1 .. Len(data) : data[i] = host[i]
        /\ host' = Drop(host, Len(data)) /\ Wire' = Wire \o Framed(IO_CDC, data)
  BY CdcPacketLine DEF FwInv
<1>2. LineInv' /\ UNCHANGED <<asked, got, fwvars>> /\ IO_CDC \in {IO_CDC, IO_DEBUG}
  BY CdcPacketLine DEF FwInv, CdcPacket
<1> QED BY <1>1, <1>2, NewPacketInv

LEMMA DebugPacketInv == ASSUME FwInv, DebugPacket PROVE FwInv'
<1>1. PICK data \in Seq(Byte) :
        Len(data) \in 1 .. USBMODE_PACKET_SIZE /\ Wire' = Wire \o Framed(IO_DEBUG, data)
  BY DebugPacketLine DEF FwInv
<1>2. /\ LineInv' /\ UNCHANGED <<asked, got, fwvars>> /\ host' = host
      /\ IO_DEBUG \in {IO_CDC, IO_DEBUG} /\ IO_DEBUG # IO_CDC
  <2>1. LineInv' /\ host' = host
    BY DebugPacketLine DEF FwInv
  <2>2. IO_DEBUG # IO_CDC
    BY DEF IO_CDC, IO_DEBUG
  <2> QED BY <2>1, <2>2 DEF DebugPacket
<1> QED BY <1>1, <1>2, NewPacketInv

\* Steps that only move bytes along.
LEMMA MovesInv ==
  ASSUME FwInv, LineInv', Wire' = Wire, UNCHANGED <<asked, host, got, fwvars>>
  PROVE  FwInv'
<1>1. FirmwareTypes' /\ PacketInv'
  BY DEF FwInv, FirmwareTypes, PacketInv, fwvars, FromCdc, ReadingPC
<1>2. CommandInv'
  BY DEF FwInv, CommandInv, fwvars, Reading, ReadingPC, Answering, WholeReply, HasHeader
<1>3. Consumed' = Consumed
  BY DEF Consumed, fwvars, Answering, WholeReply
<1>4. Stream'
  BY <1>3, StreamKept DEF fwvars
<1> QED BY <1>1, <1>2, <1>4 DEF FwInv

LEMMA ReceiveReplyInv == ASSUME FwInv, ReceiveReply PROVE FwInv'
<1>1. LineInv' /\ Wire' = Wire
  BY ReceiveReplyLine DEF FwInv
<1>2. /\ WholeReply(got) /\ asked' = None /\ got' = <<>>
      /\ UNCHANGED <<todo, host, stray, fifovars, ch552vars, fwvars>>
  BY DEF ReceiveReply
<1>3. out = <<>> /\ asked # None /\ (pc = "write" \/ (Reading /\ after = "header"))
  BY <1>2 DEF FwInv, CommandInv
<1>4. FirmwareTypes' /\ PacketInv'
  BY <1>2 DEF FwInv, FirmwareTypes, PacketInv, fwvars, FromCdc, ReadingPC
<1>5. CommandInv'
  <2>1. /\ asked' = None /\ got' = <<>> /\ out' = <<>> /\ pc' \notin {"handle", "failed"}
        /\ (pc' = "write" /\ out' = <<>>) \/ (Reading /\ after = "header")'
        /\ ~(Reading /\ after = "body")'
    BY <1>2, <1>3 DEF fwvars, Reading, ReadingPC
  <2>2. ~WholeReply(got)' /\ ~Answering'
    BY <2>1, EmptyIsNotWhole DEF Answering, WholeReply
  <2> QED BY <2>1, <2>2 DEF CommandInv
<1>6. Stream'
  <2>1. cur_endpoint'.endpoint \in Byte /\ cur_endpoint' = cur_endpoint /\ pc' = pc
    BY <1>2, LeftIsLen DEF FwInv, fwvars
  <2>2. OnTheWay' = OnTheWay
    <3>1. CASE pc = "length"
      BY <1>1, <2>1, <3>1, OnTheWayIsWire, OnTheWayNext DEF FwInv
    <3>2. CASE pc # "length"
      BY <1>1, <2>1, <3>2, OnTheWayIsWire, OnTheWayNext DEF FwInv
    <3> QED BY <3>1, <3>2
  <2>3. pc # "failed" /\ Consumed = Len(Sent)
    BY <1>2, <1>3, AskedType DEF Reading, ReadingPC, Consumed
  <2>4. Carried(OnTheWay, left, FromCdc, Len(Sent), Sent, host)
    BY <2>3 DEF FwInv, Stream
  <2>5. Carried(OnTheWay, left, FromCdc, 0, <<>>, <<>>) /\ host = <<>>
    BY <2>4, AskedType, FrameIsOver
  <2>6. left' = left /\ FromCdc' = FromCdc /\ Sent' = <<>> /\ host' = host
    BY <1>2, <2>1 DEF left, FromCdc, Sent
  <2>7. Consumed' = 0
    BY <1>2 DEF Consumed
  <2>8. Carried(OnTheWay', left', FromCdc', 0, Sent', host') /\ 0 \in 0 .. Len(Sent')
    BY <2>2, <2>5, <2>6
  <2>9. left' \in 0 .. Len(OnTheWay')
    BY <2>2, <2>6, AskedType
  <2> QED BY <2>7, <2>8, <2>9 DEF Stream
<1> QED BY <1>1, <1>4, <1>5, <1>6 DEF FwInv

LEMMA ReadModeInv == ASSUME FwInv, ReadMode PROVE FwInv'
<1>1. /\ pc = "select" /\ cur_endpoint.len = 0 /\ readbyte
      /\ cur_endpoint' = [cur_endpoint EXCEPT !.endpoint = rx] /\ pc' = "length"
      /\ UNCHANGED <<clientvars, got, after, hdr, cmd, n, available, out>>
  BY DEF ReadMode
<1>2. /\ LineInv' /\ Wire' = Tail(Wire) /\ Wire # <<>> /\ Wire[1] = rx /\ rx \in Byte
  BY <1>1, readbyteLine DEF FwInv
<1>3. Wire \in Seq(Byte) /\ OnTheWay = Wire /\ left = 0
  BY <1>1, AskedType, OnTheWayIsWire DEF FwInv
<1>4. cur_endpoint'.endpoint = rx /\ cur_endpoint'.len = 0
  BY <1>1 DEF FwInv, FirmwareTypes
<1>5. left' = 0
  BY <1>1 DEF left
<1>6. PICK p \in 0 .. Len(Sent) : Carried(OnTheWay, 0, FromCdc, p, Sent, host) /\ p = Consumed
  BY <1>1, <1>3 DEF FwInv, Stream
<1>7. p \in Nat /\ Sent \in Seq(Byte) /\ FromCdc \in BOOLEAN
  BY AskedType, <1>6
<1>8. Wire[1] \in {IO_CDC, IO_DEBUG}
  BY <1>2, <1>3, <1>6, <1>7, PacketOpens
<1>9. OnTheWay' = OnTheWay
  <2>1. OnTheWay' = <<rx>> \o Wire'
    BY <1>1, <1>2, <1>4, OnTheWayNext
  <2>2. Wire = <<Wire[1]>> \o Tail(Wire)
    BY <1>2, <1>3
  <2> QED BY <2>1, <2>2, <1>2, <1>3
<1>10. FirmwareTypes'
  <2>1. cur_endpoint' \in [endpoint : {IO_NONE, IO_CDC, IO_DEBUG}, len : Byte]
    BY <1>1, <1>2, <1>8 DEF FwInv, FirmwareTypes
  <2> QED BY <2>1, <1>1 DEF FwInv, FirmwareTypes, ReadingPC
<1>11. PacketInv'
  BY <1>1, <1>4 DEF PacketInv
<1>12. CommandInv'
  BY <1>1 DEF FwInv, CommandInv, clientvars, Reading, ReadingPC, Answering, WholeReply, HasHeader
<1>13. Stream'
  <2>1. Carried(OnTheWay, 0, FromCdc', p, Sent, host)
    BY <1>6, <1>7, NothingLeft
  <2>2. Sent' = Sent /\ host' = host
    BY <1>1 DEF clientvars, Sent
  <2>3. Consumed' = Consumed
    BY <1>1 DEF clientvars, Consumed, Answering, WholeReply
  <2>4. Carried(OnTheWay', left', FromCdc', p, Sent', host') /\ p \in 0 .. Len(Sent')
    BY <2>1, <2>2, <1>5, <1>6, <1>9
  <2>5. left' \in 0 .. Len(OnTheWay')
    BY <1>3, <1>5, <1>9
  <2> QED BY <2>3, <2>4, <2>5, <1>6 DEF Stream
<1> QED BY <1>2, <1>10, <1>11, <1>12, <1>13 DEF FwInv

LEMMA ReadLengthInv == ASSUME FwInv, ReadLength PROVE FwInv'
<1>1. /\ pc = "length" /\ readbyte
      /\ cur_endpoint' = [cur_endpoint EXCEPT !.len = rx] /\ pc' = "check"
      /\ UNCHANGED <<clientvars, got, after, hdr, cmd, n, available, out>>
  BY DEF ReadLength
<1>2. /\ LineInv' /\ Wire' = Tail(Wire) /\ Wire # <<>> /\ Wire[1] = rx /\ rx \in Byte
  BY <1>1, readbyteLine DEF FwInv
<1> DEFINE x == <<cur_endpoint.endpoint>>
<1>3. Wire \in Seq(Byte) /\ OnTheWay \in Seq(Byte) /\ OnTheWay = x \o Wire /\ left = 0
      /\ cur_endpoint.endpoint \in Byte
  BY <1>1, AskedType, OnTheWayIsWire, LeftIsLen DEF FwInv, left
<1>4. cur_endpoint'.endpoint = cur_endpoint.endpoint /\ cur_endpoint'.len = rx
  BY <1>1 DEF FwInv, FirmwareTypes
<1>5. left' = rx
  BY <1>1, <1>4 DEF left
<1>6. PICK p \in 0 .. Len(Sent) : Carried(OnTheWay, 0, FromCdc, p, Sent, host) /\ p = Consumed
  BY <1>1, <1>3 DEF FwInv, Stream
<1>7. p \in Nat /\ Sent \in Seq(Byte) /\ FromCdc \in BOOLEAN
  BY AskedType, <1>6
<1>8. /\ OnTheWay # <<>> /\ OnTheWay[1] = cur_endpoint.endpoint /\ Tail(OnTheWay) = Wire
      /\ OnTheWay[2] = rx /\ Len(OnTheWay) = 1 + Len(Wire)
  <2>1. x \in Seq(Byte) /\ x # <<>> /\ x[1] = cur_endpoint.endpoint /\ Tail(x) = <<>> /\ Len(x) = 1
    BY <1>3
  <2> DEFINE w == x \o Wire
  <2>2. /\ w # <<>> /\ w[1] = x[1] /\ Tail(w) = Tail(x) \o Wire
    BY <1>3, <2>1, TailOfConcat
  <2>3. Tail(w) = Wire
    BY <2>1, <2>2, <1>3, ConcatEmptySeq
  <2>4. /\ w \in Seq(Byte) /\ Len(w) = 1 + Len(Wire) /\ \A i \in 1 .. 1 + Len(Wire) : w[i] = IF i <= 1 THEN x[i] ELSE Wire[i - 1]
    BY <1>3, <2>1, ConcatProperties
  <2>5. Len(Wire) \in Nat /\ Len(Wire) >= 1
    BY <1>2, <1>3
  <2>6. 2 \in 1 .. 1 + Len(Wire) /\ ~(2 <= 1) /\ 2 - 1 = 1
    BY <2>5
  <2> HIDE DEF w
  <2>7. w[2] = Wire[1]
    BY <2>4, <2>6
  <2> QED BY <2>1, <2>2, <2>3, <2>4, <2>7, <1>2, <1>3 DEF w
<1>9. /\ rx \in 1 .. USBMODE_PACKET_SIZE /\ rx <= Len(OnTheWay) - 2
      /\ Carried(Tail(Tail(OnTheWay)), rx, OnTheWay[1] = IO_CDC, p, Sent, host)
  BY <1>3, <1>6, <1>7, <1>8, PacketOpens
<1>10. OnTheWay' = Tail(Tail(OnTheWay)) /\ Len(OnTheWay') = Len(Wire) - 1
  <2>1. OnTheWay' = Wire'
    BY <1>1, <1>2, <1>3, <1>4, OnTheWayNext
  <2>2. Len(Tail(Wire)) = Len(Wire) - 1
    BY <1>2, <1>3, HeadTailProperties
  <2> QED BY <2>1, <2>2, <1>2, <1>8
<1>11. FirmwareTypes'
  <2>1. cur_endpoint' \in [endpoint : {IO_NONE, IO_CDC, IO_DEBUG}, len : Byte]
    BY <1>1, <1>2 DEF FwInv, FirmwareTypes
  <2> QED BY <2>1, <1>1 DEF FwInv, FirmwareTypes, ReadingPC
<1>12. rx \in Nat /\ rx > 0
  BY <1>9, PacketSizes
<1>13. PacketInv'
  BY <1>1, <1>4, <1>12 DEF PacketInv
<1>14. CommandInv'
  BY <1>1 DEF FwInv, CommandInv, clientvars, Reading, ReadingPC, Answering, WholeReply, HasHeader
<1>15. Stream'
  <2>1. FromCdc' <=> OnTheWay[1] = IO_CDC
    BY <1>4, <1>8 DEF FromCdc
  <2>2. Sent' = Sent /\ host' = host
    BY <1>1 DEF clientvars, Sent
  <2>3. Consumed' = Consumed
    BY <1>1 DEF clientvars, Consumed, Answering, WholeReply
  <2>4. FromCdc' \in BOOLEAN /\ (OnTheWay[1] = IO_CDC) \in BOOLEAN
    BY DEF FromCdc
  <2>5. Carried(OnTheWay', left', FromCdc', p, Sent', host') /\ p \in 0 .. Len(Sent')
    BY <2>1, <2>2, <2>4, <1>5, <1>6, <1>9, <1>10
  <2>6. left' \in 0 .. Len(OnTheWay')
    <3>1. Len(Wire) \in Nat /\ rx \in Nat /\ rx <= 1 + Len(Wire) - 2
      BY <1>3, <1>8, <1>9, <1>12
    <3>2. rx \in 0 .. Len(Wire) - 1
      BY <3>1
    <3> QED BY <3>2, <1>5, <1>10
  <2> QED BY <2>3, <2>5, <2>6, <1>6 DEF Stream
<1> QED BY <1>2, <1>11, <1>13, <1>14, <1>15 DEF FwInv

LEMMA CheckInv == ASSUME FwInv, Check PROVE FwInv'
<1>1. /\ pc = "check" \/ (pc = "select" /\ cur_endpoint.len # 0)
      /\ available' = cur_endpoint.len
      /\ pc' = IF InBitmask THEN after ELSE IF cur_endpoint.len > 0 THEN "discard" ELSE "select"
      /\ Internal
      /\ UNCHANGED <<clientvars, got, after, cur_endpoint, hdr, cmd, n, out>>
  BY DEF Check
<1>2. LineInv' /\ Wire' = Wire
  BY <1>1, InternalLine DEF FwInv
<1>3. /\ cur_endpoint.endpoint \in {IO_NONE, IO_CDC, IO_DEBUG} /\ after \in {"header", "body"}
      /\ cur_endpoint.len \in Nat /\ cur_endpoint.len > 0
  <2>1. cur_endpoint.len \in Nat
    BY LeftIsLen DEF FwInv
  <2> QED BY <2>1, <1>1 DEF FwInv, FirmwareTypes, PacketInv
<1>4. InBitmask <=> FromCdc
  BY <1>3 DEF InBitmask, FromCdc, IO_NONE, IO_CDC, IO_DEBUG
<1>5. pc' = IF FromCdc THEN after ELSE "discard"
  BY <1>1, <1>3, <1>4
<1>6. Reading /\ Reading' /\ pc # "length" /\ pc' # "length"
  BY <1>1, <1>3, <1>5 DEF Reading, ReadingPC
<1>7. FirmwareTypes'
  BY <1>1, <1>3, <1>6 DEF FwInv, FirmwareTypes, Reading
<1>8. PacketInv'
  BY <1>1, <1>3, <1>5 DEF PacketInv, FromCdc
<1>9. pc \notin {"handle", "write", "failed"} /\ pc' \notin {"handle", "write", "failed"}
  BY <1>6 DEF Reading, ReadingPC
<1>10. CommandInv'
  BY <1>1, <1>6, <1>9 DEF FwInv, CommandInv, clientvars, Answering, WholeReply, HasHeader, Reading
<1>11. Consumed' = Consumed
  BY <1>1, <1>9 DEF Consumed, Answering, WholeReply, clientvars
<1>12. Stream'
  BY <1>1, <1>2, <1>6, <1>9, <1>11, StreamKept DEF clientvars
<1> QED BY <1>2, <1>7, <1>8, <1>10, <1>12 DEF FwInv

\* A byte of the packet is read: the stream and the frame go on by one.
LEMMA TakesByte ==
  ASSUME FwInv, readbyte, UNCHANGED clientvars, pc \in {"discard", "header", "read"},
         pc' # "length", cur_endpoint' = Less(cur_endpoint)
  PROVE  /\ LineInv' /\ rx \in Byte
         /\ cur_endpoint' \in [endpoint : {IO_NONE, IO_CDC, IO_DEBUG}, len : Byte]
         /\ cur_endpoint'.len = cur_endpoint.len - 1 /\ cur_endpoint.len \in Nat
         /\ cur_endpoint.len > 0 /\ FromCdc' = FromCdc /\ FromCdc \in BOOLEAN
         /\ left' \in 0 .. Len(OnTheWay') /\ Sent' = Sent
         /\ Consumed \in Nat
         /\ Carried(OnTheWay', left', FromCdc', IF FromCdc THEN Consumed + 1 ELSE Consumed,
                    Sent', host')
         /\ FromCdc => Consumed + cur_endpoint.len <= Len(Sent) /\ rx = Sent[Consumed + 1]
         /\ Consumed <= Len(Sent)
<1>1. LineInv' /\ Wire' = Tail(Wire) /\ Wire # <<>> /\ Wire[1] = rx /\ rx \in Byte
  BY readbyteLine DEF FwInv
<1>2. cur_endpoint.len > 0
  BY DEF FwInv, PacketInv
<1>3. /\ cur_endpoint.len \in Nat /\ cur_endpoint.len <= 255 /\ left = cur_endpoint.len
      /\ cur_endpoint \in [endpoint : {IO_NONE, IO_CDC, IO_DEBUG}, len : Byte]
  BY LeftIsLen DEF FwInv, FirmwareTypes
<1>4. (cur_endpoint.len + 255) % 256 = cur_endpoint.len - 1
  <2>1. \A x \in Nat : 0 < x /\ x <= 255 => (x + 255) % 256 = x - 1
    OBVIOUS
  <2> QED BY <2>1, <1>2, <1>3
<1>5. cur_endpoint'.len = cur_endpoint.len - 1 /\ cur_endpoint'.endpoint = cur_endpoint.endpoint
  BY <1>3, <1>4 DEF Less
<1>6. cur_endpoint' \in [endpoint : {IO_NONE, IO_CDC, IO_DEBUG}, len : Byte]
  <2>1. cur_endpoint.len - 1 \in Byte
    BY <1>2, <1>3, ProtoAssumption
  <2> QED BY <2>1, <1>3, <1>4 DEF Less
<1>7. left' = cur_endpoint.len - 1
  BY <1>5 DEF left
<1>8. FromCdc' = FromCdc /\ Sent' = Sent /\ host' = host /\ FromCdc \in BOOLEAN
  BY <1>5 DEF FromCdc, Sent, clientvars
<1>9. OnTheWay = Wire /\ OnTheWay \in Seq(Byte) /\ left \in 0 .. Len(OnTheWay) /\ Sent \in Seq(Byte)
  BY AskedType, OnTheWayIsWire DEF FwInv
<1>10. OnTheWay' = Tail(OnTheWay)
  <2>1. {IO_NONE, IO_CDC, IO_DEBUG} \subseteq Byte
    BY ProtoAssumption DEF IO_NONE, IO_CDC, IO_DEBUG
  <2>2. cur_endpoint'.endpoint \in Byte
    BY <2>1, <1>6
  <2> QED BY <2>2, <1>1, <1>9, OnTheWayNext
<1>11. Carried(OnTheWay, left, FromCdc, Consumed, Sent, host) /\ Consumed \in 0 .. Len(Sent)
  BY DEF FwInv, Stream
<1>12. left \in 1 .. Len(OnTheWay) /\ Consumed \in Nat /\ Consumed <= Len(Sent)
  BY <1>2, <1>3, <1>9, <1>11
<1>13. /\ Carried(Tail(OnTheWay), left - 1, FromCdc, IF FromCdc THEN Consumed + 1 ELSE Consumed,
                  Sent, host)
       /\ FromCdc => Consumed + left <= Len(Sent) /\ OnTheWay[1] = Sent[Consumed + 1]
  BY <1>8, <1>9, <1>11, <1>12, ByteLeaves
<1>14. left' \in 0 .. Len(OnTheWay')
  <2>1. Len(Tail(OnTheWay)) = Len(OnTheWay) - 1
    BY <1>1, <1>9, HeadTailProperties
  <2>2. Len(OnTheWay) \in Nat
    BY <1>9
  <2> QED BY <2>1, <2>2, <1>3, <1>7, <1>10, <1>12
<1>15. Carried(OnTheWay', left', FromCdc', IF FromCdc THEN Consumed + 1 ELSE Consumed, Sent', host')
  BY <1>3, <1>7, <1>8, <1>10, <1>13
<1>16. FromCdc => Consumed + cur_endpoint.len <= Len(Sent) /\ rx = Sent[Consumed + 1]
  BY <1>1, <1>3, <1>9, <1>13
<1> QED BY <1>1, <1>2, <1>3, <1>5, <1>6, <1>8, <1>12, <1>14, <1>15, <1>16

LEMMA discardInv == ASSUME FwInv, discard PROVE FwInv'
<1>1. /\ pc = "discard" /\ readbyte /\ cur_endpoint' = Less(cur_endpoint)
      /\ available' = available - 1
      /\ pc' = IF available = 1 THEN "select" ELSE "discard"
      /\ UNCHANGED <<clientvars, got, after, hdr, cmd, n, out>>
  BY DEF discard
<1>2. /\ LineInv'
      /\ cur_endpoint' \in [endpoint : {IO_NONE, IO_CDC, IO_DEBUG}, len : Byte]
      /\ cur_endpoint'.len = cur_endpoint.len - 1 /\ cur_endpoint.len \in Nat
      /\ cur_endpoint.len > 0 /\ FromCdc' = FromCdc
      /\ left' \in 0 .. Len(OnTheWay') /\ Sent' = Sent
      /\ Carried(OnTheWay', left', FromCdc', IF FromCdc THEN Consumed + 1 ELSE Consumed,
                 Sent', host')
      /\ Consumed \in Nat /\ Consumed <= Len(Sent)
  BY <1>1, TakesByte
<1>3. ~FromCdc /\ available = cur_endpoint.len
  BY <1>1 DEF FwInv, PacketInv
<1>4. available' \in Nat /\ (pc' = "discard" => cur_endpoint'.len > 0 /\ available' = cur_endpoint'.len)
  BY <1>1, <1>2, <1>3
<1>5. FirmwareTypes'
  BY <1>1, <1>2, <1>4 DEF FwInv, FirmwareTypes, ReadingPC
<1>6. PacketInv'
  BY <1>1, <1>2, <1>3, <1>4 DEF PacketInv
<1>7. CommandInv'
  BY <1>1 DEF FwInv, CommandInv, clientvars, Reading, ReadingPC, Answering, WholeReply, HasHeader
<1>8. Consumed' = Consumed
  BY <1>1 DEF clientvars, Consumed, Answering, WholeReply
<1>9. Stream'
  <2>1. Consumed \in 0 .. Len(Sent') /\ Len(Sent) \in Nat
    BY <1>2, AskedType
  <2>2. Carried(OnTheWay', left', FromCdc', Consumed, Sent', host')
    BY <1>2, <1>3
  <2> QED BY <2>1, <2>2, <1>2, <1>8 DEF Stream
<1> QED BY <1>2, <1>5, <1>6, <1>7, <1>9 DEF FwInv

LEMMA ReadHeaderInv == ASSUME FwInv, ReadHeader PROVE FwInv'
<1>1. /\ pc = "header" /\ readbyte /\ cur_endpoint' = Less(cur_endpoint)
      /\ IF parseframe(rx) = None
         THEN Fail /\ UNCHANGED <<after, hdr, cmd, n>>
         ELSE /\ hdr' = parseframe(rx)
              /\ cmd' = Zeros /\ n' = 0
              /\ pc' = "select" /\ after' = "body"
      /\ UNCHANGED <<clientvars, got, available, out>>
  BY DEF ReadHeader
<1>2. /\ LineInv'
      /\ cur_endpoint' \in [endpoint : {IO_NONE, IO_CDC, IO_DEBUG}, len : Byte]
      /\ cur_endpoint'.len = cur_endpoint.len - 1 /\ cur_endpoint.len \in Nat
      /\ cur_endpoint.len > 0 /\ FromCdc' = FromCdc
      /\ left' \in 0 .. Len(OnTheWay') /\ Sent' = Sent
      /\ Carried(OnTheWay', left', FromCdc', IF FromCdc THEN Consumed + 1 ELSE Consumed,
                 Sent', host')
      /\ FromCdc => Consumed + cur_endpoint.len <= Len(Sent) /\ rx = Sent[Consumed + 1]
      /\ Consumed \in Nat /\ Consumed <= Len(Sent)
  <2>1. pc' # "length"
    BY <1>1 DEF Fail
  <2> QED BY <2>1, <1>1, TakesByte
<1>3. FromCdc /\ after = "header"
  BY <1>1 DEF FwInv, PacketInv
<1>4. Consumed + 1 <= Len(Sent) /\ Len(Sent) \in Nat
  <2>1. Len(Sent) \in Nat
    BY AskedType
  <2> QED BY <2>1, <1>2, <1>3
<1>5. asked # None /\ asked \in ClientFrames /\ Sent = asked
  <2>1. asked # None
    BY <1>2, <1>4, AskedType
  <2> QED BY <2>1, AskedType
<1>6. ~WholeReply(got) /\ got = <<>> /\ ~Answering
  <2>1. ~Answering
    BY <1>1 DEF Answering
  <2>2. ~WholeReply(got)
    BY <1>2, <1>4, <1>5 DEF Consumed
  <2> QED BY <2>1, <2>2 DEF FwInv, CommandInv
<1>7. Consumed = 0
  BY <1>1, <1>3, <1>5, <1>6 DEF Consumed
<1>8. rx = asked[1]
  BY <1>2, <1>3, <1>5, <1>7
<1>9. /\ out' = <<>> /\ got' = <<>> /\ asked' = asked /\ host' = host /\ available' = available
  BY <1>1, <1>6 DEF FwInv, CommandInv, clientvars
<1>10. Carried(OnTheWay', left', FromCdc', 1, Sent', host') /\ 1 \in 0 .. Len(Sent')
  <2>1. (IF FromCdc THEN Consumed + 1 ELSE Consumed) = 1
    BY <1>3, <1>7
  <2>2. Carried(OnTheWay', left', FromCdc', 1, Sent', host')
    BY <2>1, <1>2
  <2>3. 1 \in 0 .. Len(Sent)
    BY <1>4, <1>7
  <2> QED BY <2>2, <2>3, <1>2
<1>11. ~WholeReply(got)'
  BY <1>9, EmptyIsNotWhole DEF WholeReply
<1>12. CASE parseframe(rx) = None
  <2>1. pc' = "failed" /\ after' = after /\ cmd' = cmd /\ n' = n /\ hdr' = hdr
    BY <1>1, <1>12 DEF Fail
  <2>2. ~IsGood(asked)
    BY <1>8, <1>12 DEF IsGood
  <2>3. FirmwareTypes'
    BY <2>1, <1>1, <1>2 DEF FwInv, FirmwareTypes
  <2>4. PacketInv'
    BY <2>1 DEF PacketInv
  <2>5. CommandInv'
    BY <2>1, <2>2, <1>5, <1>9, <1>11 DEF CommandInv, Reading, ReadingPC, Answering
  <2>6. Stream'
    BY <2>1, <1>2, <1>10 DEF Stream
  <2> QED BY <2>3, <2>4, <2>5, <2>6, <1>2 DEF FwInv
<1>13. CASE parseframe(rx) # None
  <2>1. pc' = "select" /\ after' = "body" /\ cmd' = Zeros /\ n' = 0 /\ hdr' = parseframe(asked[1])
    BY <1>1, <1>8, <1>13
  <2>2. Zeros \in [1 .. CMDSIZE -> Byte]
    BY ProtoAssumption DEF Zeros
  <2>3. FirmwareTypes'
    BY <2>1, <2>2, <1>1, <1>2 DEF FwInv, FirmwareTypes, ReadingPC
  <2>4. PacketInv'
    BY <2>1 DEF PacketInv
  <2>5. HasHeader'
    BY <2>1, <1>5, <1>8, <1>9, <1>13 DEF HasHeader
  <2>6. 1 + n' < Len(asked')
    BY <2>1, <1>5, <1>9, ParseProperties
  <2>7. cmd' = Begun(asked', n')
    <3>1. \A i \in 1 .. CMDSIZE : ~(i <= 0)
      BY ProtoAssumption
    <3> QED BY <3>1, <2>1 DEF Zeros, Begun
  <2>8. CommandInv'
    BY <2>1, <2>5, <2>6, <2>7, <1>5, <1>9, <1>11 DEF CommandInv, Reading, ReadingPC, Answering
  <2>9. Consumed' = 1
    BY <2>1, <1>5, <1>9, <1>11 DEF Consumed, Answering, WholeReply
  <2>10. Stream'
    BY <2>9, <1>2, <1>10 DEF Stream
  <2> QED BY <2>3, <2>4, <2>8, <2>10, <1>2 DEF FwInv
<1> QED BY <1>12, <1>13

\* What is left of the packet is part of the command.
LEMMA BodyFits ==
  ASSUME FwInv, pc \in {"body", "read"}
  PROVE  /\ asked \in ClientFrames /\ asked # None /\ Sent = asked /\ HasHeader
         /\ Len(asked) \in Nat /\ Len(asked) <= 1 + CMDSIZE
         /\ n \in Nat /\ n + 1 < Len(asked) /\ cmd = Begun(asked, n)
         /\ hdr.len = Len(asked) - 1
         /\ got = <<>> /\ out = <<>> /\ after = "body" /\ FromCdc
         /\ available = cur_endpoint.len /\ cur_endpoint.len \in Nat /\ cur_endpoint.len > 0
         /\ Consumed = 1 + n /\ Consumed + cur_endpoint.len <= Len(asked)
<1>1. /\ FromCdc /\ cur_endpoint.len > 0 /\ after = "body" /\ available = cur_endpoint.len
      /\ Reading /\ ~Answering /\ n \in Nat
  BY DEF FwInv, PacketInv, Reading, ReadingPC, Answering, FirmwareTypes
<1>2. HasHeader /\ 1 + n < Len(asked) /\ cmd = Begun(asked, n) /\ out = <<>>
  BY <1>1 DEF FwInv, CommandInv
<1>3. asked \in ClientFrames /\ Sent = asked /\ asked # None
  BY <1>2, AskedType DEF HasHeader
<1>4. ~WholeReply(got) /\ got = <<>>
  <2>1. ~WholeReply(got)
    BY <1>1 DEF FwInv, CommandInv
  <2> QED BY <2>1, <1>1 DEF FwInv, CommandInv
<1>5. Consumed = 1 + n
  BY <1>1, <1>3, <1>4 DEF Consumed
<1>6. Len(asked) \in Nat /\ Len(asked) <= 1 + CMDSIZE /\ hdr.len = Len(asked) - 1
  BY <1>2, <1>3, ParseProperties DEF HasHeader
<1>7. left = cur_endpoint.len /\ cur_endpoint.len \in Nat
  BY LeftIsLen DEF FwInv
<1>8. Consumed + cur_endpoint.len <= Len(asked)
  <2>1. Carried(OnTheWay, left, FromCdc, Consumed, Sent, host) /\ Consumed \in 0 .. Len(Sent)
    BY DEF FwInv, Stream
  <2>2. left \in 1 .. Len(OnTheWay) /\ Consumed \in Nat /\ OnTheWay \in Seq(Byte)
        /\ FromCdc \in BOOLEAN /\ Sent \in Seq(Byte)
    BY <1>1, <1>5, <1>7, AskedType
  <2>3. Consumed + left <= Len(Sent)
    BY <2>1, <2>2, <1>1, ByteLeaves
  <2> QED BY <2>3, <1>3, <1>7
<1>9. n + 1 < Len(asked)
  BY <1>1, <1>2, <1>6
<1> QED BY <1>1, <1>2, <1>3, <1>4, <1>5, <1>6, <1>7, <1>8, <1>9

LEMMA ReadBodyInv == ASSUME FwInv, ReadBody PROVE FwInv'
<1>1. /\ pc = "body" /\ available' = Clamp(available)
      /\ IF n >= CMDSIZE \/ Clamp(available) > CMDSIZE - n THEN Fail ELSE pc' = "read"
      /\ Internal
      /\ UNCHANGED <<clientvars, got, after, cur_endpoint, hdr, cmd, n, out>>
  BY DEF ReadBody
<1>2. LineInv' /\ Wire' = Wire
  BY <1>1, InternalLine DEF FwInv
<1>3. /\ Len(asked) \in Nat /\ n \in Nat /\ cur_endpoint.len \in Nat /\ CMDSIZE \in Nat
      /\ Len(asked) <= 1 + CMDSIZE /\ n + 1 < Len(asked)
      /\ hdr.len = Len(asked) - 1 /\ available = cur_endpoint.len
      /\ 1 + n + cur_endpoint.len <= Len(asked)
  <2>1. CMDSIZE \in Nat
    BY ProtoAssumption
  <2> QED BY <2>1, <1>1, BodyFits
<1>4. Clamp(available) = available
  BY <1>3 DEF Clamp
<1>5. ~(n >= CMDSIZE) /\ ~(available > CMDSIZE - n)
  BY <1>3
<1>6. pc' = "read" /\ available' = available
  BY <1>1, <1>4, <1>5
<1>7. FirmwareTypes' /\ PacketInv'
  BY <1>1, <1>6 DEF FwInv, FirmwareTypes, PacketInv, FromCdc, ReadingPC
<1>8. CommandInv'
  BY <1>1, <1>6 DEF FwInv, CommandInv, clientvars, Reading, ReadingPC, Answering, WholeReply,
                    HasHeader
<1>9. Consumed' = Consumed
  BY <1>1, <1>6 DEF clientvars, Consumed, Answering, WholeReply
<1>10. Stream'
  BY <1>1, <1>2, <1>6, <1>9, StreamKept DEF clientvars
<1> QED BY <1>2, <1>7, <1>8, <1>10 DEF FwInv

LEMMA BegunGrows ==
  ASSUME NEW f, NEW k \in Nat
  PROVE  [Begun(f, k) EXCEPT ![k + 1] = f[k + 2]] = Begun(f, k + 1)
<1> DEFINE a == [Begun(f, k) EXCEPT ![k + 1] = f[k + 2]]
           b == Begun(f, k + 1)
<1>1. DOMAIN a = 1 .. CMDSIZE /\ DOMAIN b = 1 .. CMDSIZE
  BY DEF Begun
<1>2. ASSUME NEW i \in 1 .. CMDSIZE PROVE a[i] = b[i]
  <2>1. CMDSIZE \in Nat
    BY ProtoAssumption
  <2>2. i \in Nat /\ k \in Nat
    BY <2>1
  <2>3. CASE i = k + 1
    <3>1. i + 1 = k + 2 /\ i <= k + 1
      BY <2>2, <2>3
    <3> QED BY <3>1, <2>3 DEF Begun
  <2>4. CASE i # k + 1
    <3>1. i <= k <=> i <= k + 1
      BY <2>2, <2>4
    <3> QED BY <3>1, <2>4 DEF Begun
  <2> QED BY <2>3, <2>4
<1>3. a = [i \in 1 .. CMDSIZE |-> a[i]] /\ b = [i \in 1 .. CMDSIZE |-> b[i]]
  BY <1>1 DEF Begun
<1> QED BY <1>2, <1>3

LEMMA ReadByteInv == ASSUME FwInv, ReadByte PROVE FwInv'
<1>1. /\ pc = "read" /\ readbyte /\ cmd' = [cmd EXCEPT ![n + 1] = rx]
      /\ cur_endpoint' = Less(cur_endpoint)
      /\ n' = n + 1 /\ available' = available - 1
      /\ pc' = IF available > 1 THEN "read"
               ELSE IF n + 1 < hdr.len THEN "select"
               ELSE IF hdr.endpoint # DST_FW THEN "failed" ELSE "handle"
      /\ UNCHANGED <<clientvars, got, after, hdr, out>>
  BY DEF ReadByte
<1>2. /\ asked \in ClientFrames /\ asked # None /\ Sent = asked /\ HasHeader
      /\ Len(asked) \in Nat /\ Len(asked) <= 1 + CMDSIZE
      /\ n \in Nat /\ n + 1 < Len(asked) /\ cmd = Begun(asked, n)
      /\ hdr.len = Len(asked) - 1
      /\ got = <<>> /\ out = <<>> /\ after = "body" /\ FromCdc
      /\ available = cur_endpoint.len /\ cur_endpoint.len \in Nat /\ cur_endpoint.len > 0
      /\ Consumed = 1 + n /\ Consumed + cur_endpoint.len <= Len(asked)
  BY <1>1, BodyFits
<1>3. /\ LineInv' /\ rx \in Byte
      /\ cur_endpoint' \in [endpoint : {IO_NONE, IO_CDC, IO_DEBUG}, len : Byte]
      /\ cur_endpoint'.len = cur_endpoint.len - 1 /\ FromCdc' = FromCdc
      /\ left' \in 0 .. Len(OnTheWay') /\ Sent' = Sent
      /\ Carried(OnTheWay', left', FromCdc', IF FromCdc THEN Consumed + 1 ELSE Consumed,
                 Sent', host')
      /\ FromCdc => rx = Sent[Consumed + 1]
  <2>1. pc' # "length"
    BY <1>1
  <2> QED BY <2>1, <1>1, TakesByte
<1>4. rx = asked[n + 2] /\ Carried(OnTheWay', left', FromCdc', n + 2, Sent', host')
  <2>1. Consumed + 1 = n + 2
    BY <1>2
  <2> QED BY <2>1, <1>2, <1>3
<1>5. cmd' = Begun(asked, n + 1)
  BY <1>1, <1>2, <1>4, BegunGrows
<1>6. n + 2 \in 0 .. Len(Sent') /\ n + 1 \in Nat /\ available' \in Nat /\ available' = cur_endpoint'.len
  BY <1>1, <1>2, <1>3
<1>7. cmd' \in [1 .. CMDSIZE -> Byte]
  BY <1>1, <1>3 DEF FwInv, FirmwareTypes
<1>8. asked' = asked /\ got' = <<>> /\ out' = <<>> /\ after' = "body" /\ hdr' = hdr
  BY <1>1, <1>2 DEF clientvars
<1>9. ~WholeReply(got)' /\ ~Answering'
  BY <1>8, EmptyIsNotWhole DEF WholeReply, Answering
<1>10. HasHeader'
  BY <1>2, <1>8 DEF HasHeader
<1>11. pc' \in {"read", "select", "failed", "handle"}
  BY <1>1
<1>12. FirmwareTypes'
  BY <1>1, <1>3, <1>6, <1>7, <1>8, <1>11 DEF FwInv, FirmwareTypes, ReadingPC
<1>13. CASE available > 1
  <2>1. pc' = "read"
    BY <1>1, <1>13
  <2>2. cur_endpoint'.len > 0 /\ FromCdc'
    BY <1>2, <1>3, <1>13
  <2>3. PacketInv'
    BY <2>1, <2>2, <1>6, <1>8 DEF PacketInv
  <2>4. 1 + n' < Len(asked')
    BY <1>1, <1>2, <1>8, <1>13
  <2>5. CommandInv'
    BY <2>1, <2>4, <1>1, <1>2, <1>5, <1>8, <1>9, <1>10 DEF CommandInv, Reading, ReadingPC
  <2>6. Consumed' = n + 2
    <3>1. Consumed' = 1 + n'
      BY <2>1, <1>2, <1>8, <1>9 DEF Consumed
    <3> QED BY <3>1, <1>1, <1>2
  <2>7. Stream'
    BY <2>6, <1>3, <1>4, <1>6 DEF Stream
  <2> QED BY <2>3, <2>5, <2>7, <1>3, <1>12 DEF FwInv
<1>14. CASE ~(available > 1) /\ n + 1 < hdr.len
  <2>1. pc' = "select"
    BY <1>1, <1>14
  <2>2. PacketInv'
    BY <2>1 DEF PacketInv
  <2>3. 1 + n' < Len(asked')
    BY <1>1, <1>2, <1>8, <1>14
  <2>4. CommandInv'
    BY <2>1, <2>3, <1>1, <1>2, <1>5, <1>8, <1>9, <1>10 DEF CommandInv, Reading, ReadingPC
  <2>5. Consumed' = n + 2
    <3>1. Consumed' = 1 + n'
      BY <2>1, <1>2, <1>8, <1>9 DEF Consumed
    <3> QED BY <3>1, <1>1, <1>2
  <2>6. Stream'
    BY <2>5, <1>3, <1>4, <1>6 DEF Stream
  <2> QED BY <2>2, <2>4, <2>6, <1>3, <1>12 DEF FwInv
<1>15. CASE ~(available > 1) /\ ~(n + 1 < hdr.len) /\ hdr.endpoint # DST_FW
  <2>1. pc' = "failed"
    BY <1>1, <1>15
  <2>2. ~IsGood(asked)
    BY <1>2, <1>15 DEF IsGood, HasHeader
  <2>3. PacketInv'
    BY <2>1 DEF PacketInv
  <2>4. CommandInv'
    BY <2>1, <2>2, <1>2, <1>8, <1>9 DEF CommandInv, Reading, ReadingPC
  <2>5. Stream'
    BY <2>1, <1>3, <1>4, <1>6 DEF Stream
  <2> QED BY <2>3, <2>4, <2>5, <1>3, <1>12 DEF FwInv
<1>16. CASE ~(available > 1) /\ ~(n + 1 < hdr.len) /\ hdr.endpoint = DST_FW
  <2>1. pc' = "handle"
    BY <1>1, <1>16
  <2>2. n + 1 = Len(asked) - 1 /\ n + 2 = Len(asked)
    BY <1>2, <1>16
  <2>3. PacketInv'
    BY <2>1 DEF PacketInv
  <2>4. cmd' = Begun(asked', Len(asked') - 1) /\ hdr'.endpoint = DST_FW
    BY <2>2, <1>5, <1>8, <1>16
  <2>5. CommandInv'
    BY <2>1, <2>4, <1>2, <1>8, <1>9, <1>10 DEF CommandInv, Reading, ReadingPC
  <2>6. Consumed' = n + 2
    BY <2>1, <2>2, <1>2, <1>8 DEF Consumed
  <2>7. Stream'
    BY <2>6, <1>3, <1>4, <1>6 DEF Stream
  <2> QED BY <2>3, <2>5, <2>7, <1>3, <1>12 DEF FwInv
<1> QED BY <1>13, <1>14, <1>15, <1>16

LEMMA HandleInv == ASSUME FwInv, Handle PROVE FwInv'
<1>1. /\ pc = "handle"
      /\ IF Responses(cmd[1]) = {}
         THEN Fail /\ UNCHANGED out
         ELSE /\ \E rspcode \in Responses(cmd[1]) : out' = ReplyFrame(hdr, rspcode)
              /\ pc' = "write"
      /\ Internal
      /\ UNCHANGED <<clientvars, got, after, cur_endpoint, hdr, cmd, n, available>>
  BY DEF Handle
<1>2. LineInv' /\ Wire' = Wire
  BY <1>1, InternalLine DEF FwInv
<1>3. HasHeader /\ hdr.endpoint = DST_FW /\ cmd = Begun(asked, Len(asked) - 1) /\ asked # None
  BY <1>1 DEF FwInv, CommandInv, HasHeader
<1>4. asked \in ClientFrames /\ Len(asked) \in Nat /\ Len(asked) >= 2
  BY <1>3, AskedType, ParseProperties
<1>5. ~WholeReply(got) /\ got = <<>> /\ out = <<>>
  BY <1>1 DEF FwInv, CommandInv, Answering, Reading, ReadingPC
<1>6. cmd[1] = asked[2]
  <2>1. 1 \in 1 .. CMDSIZE /\ 1 <= Len(asked) - 1 /\ 1 + 1 = 2
    BY <1>4, ProtoAssumption
  <2> QED BY <2>1, <1>3 DEF Begun
<1>7. Consumed = Len(asked)
  BY <1>1, <1>3 DEF Consumed
<1>8. asked' = asked /\ got' = <<>> /\ ~WholeReply(got)' /\ hdr' = hdr /\ cmd' = cmd
      /\ parseframe(asked[1]) # None /\ parseframe(asked[1]) = hdr
  BY <1>1, <1>3, <1>5 DEF clientvars, WholeReply, HasHeader
<1>9. CASE Responses(cmd[1]) = {}
  <2>1. pc' = "failed" /\ out' = <<>>
    BY <1>1, <1>5, <1>9 DEF Fail
  <2>2. ~IsGood(asked)
    BY <1>6, <1>9 DEF IsGood
  <2>3. FirmwareTypes'
    BY <2>1, <1>1 DEF FwInv, FirmwareTypes
  <2>4. PacketInv'
    BY <2>1 DEF PacketInv
  <2>5. CommandInv'
    BY <2>1, <2>2, <1>3, <1>8 DEF CommandInv, Reading, ReadingPC, Answering
  <2>6. Stream'
    BY <2>1, <1>1, <1>2, StreamKept DEF clientvars
  <2> QED BY <2>3, <2>4, <2>5, <2>6, <1>2 DEF FwInv
<1>10. CASE Responses(cmd[1]) # {}
  <2>1. PICK rspcode \in Responses(cmd[1]) : out' = ReplyFrame(hdr, rspcode)
    BY <1>1, <1>10
  <2>2. pc' = "write"
    BY <1>1, <1>10
  <2>3. out' \in RepliesTo(asked)
    BY <2>1, <1>6, <1>8 DEF RepliesTo
  <2>4. out' \in Seq(Nat) /\ out' # <<>>
    BY <2>3, <1>4, <1>8, ReplyProperties
  <2>5. IsGood(asked)
    BY <1>3, <1>6, <1>8, <1>10 DEF IsGood
  <2>6. FirmwareTypes'
    BY <2>2, <2>4, <1>1 DEF FwInv, FirmwareTypes
  <2>7. PacketInv'
    BY <2>2 DEF PacketInv
  <2>8. got' \o out' = out'
    BY <2>4, <1>8, ConcatEmptySeq
  <2>9. Answering' /\ HasHeader'
    BY <2>2, <2>4, <1>3, <1>8 DEF Answering, HasHeader
  <2>10. CommandInv'
    BY <2>2, <2>3, <2>5, <2>8, <2>9, <1>3, <1>8 DEF CommandInv, Reading, ReadingPC
  <2>11. Consumed' = Consumed
    BY <2>9, <1>3, <1>7, <1>8 DEF Consumed
  <2>12. Stream'
    BY <2>2, <2>11, <1>1, <1>2, StreamKept DEF clientvars
  <2> QED BY <2>6, <2>7, <2>10, <2>12, <1>2 DEF FwInv
<1> QED BY <1>9, <1>10

\* write() and the CH552: what is put into a frame comes out of it again.
LEMMA PieceArrives ==
  ASSUME NEW s \in Seq(Nat), s # <<>>
  PROVE  LET k == Least(Len(s), USBMODE_PACKET_SIZE)
         IN  /\ k \in 1 .. Len(s)
             /\ Unframe(Framed(IO_CDC, Take(s, k))) = Take(s, k)
             /\ Take(s, k) \in Seq(Nat) /\ Drop(s, k) \in Seq(Nat)
             /\ Take(s, k) \o Drop(s, k) = s
<1> DEFINE k == Least(Len(s), USBMODE_PACKET_SIZE)
           u == Take(s, k)
           v == Drop(s, k)
           hd == <<IO_CDC, Len(u)>>
           f == Framed(IO_CDC, u)
<1>1. k \in 1 .. Len(s) /\ Len(s) \in Nat
  <2>1. USBMODE_PACKET_SIZE \in 1 .. 255
    BY ProtoAssumption
  <2>2. Len(s) \in Nat /\ Len(s) > 0
    OBVIOUS
  <2> QED BY <2>1, <2>2 DEF Least
<1> HIDE DEF k
<1>2. u \in Seq(Nat) /\ Len(u) = k /\ \A i \in 1 .. k : u[i] = s[i]
  <2>1. k \in Nat /\ k \in Int /\ 1 \in Int /\ k >= 1 /\ \A i \in 1 .. k : s[i] \in Nat
    BY <1>1
  <2> DEFINE w == SubSeq(s, 1, k)
  <2> HIDE DEF w
  <2>2. /\ w \in Seq(Nat) /\ Len(w) = IF 1 <= k THEN k - 1 + 1 ELSE 0
        /\ \A i \in 1 .. k - 1 + 1 : w[i] = s[1 + i - 1]
    BY <2>1, SubSeqProperties DEF w
  <2>3. k - 1 + 1 = k /\ (IF 1 <= k THEN k - 1 + 1 ELSE 0) = k /\ \A i \in 1 .. k : 1 + i - 1 = i
    BY <2>1
  <2>4. Len(w) = k
    BY <2>2, <2>3
  <2>5. ASSUME NEW i \in 1 .. k PROVE w[i] = s[i]
    BY <2>2, <2>3
  <2> QED BY <2>2, <2>4, <2>5 DEF Take, w
<1>3. v \in Seq(Nat) /\ Len(v) = Len(s) - k /\ \A i \in 1 .. Len(s) - k : v[i] = s[k + i]
  <2>1. k + 1 \in Int /\ Len(s) \in Int /\ k \in Nat /\ k <= Len(s)
        /\ \A i \in k + 1 .. Len(s) : s[i] \in Nat
    BY <1>1
  <2> DEFINE w == SubSeq(s, k + 1, Len(s))
             m == Len(s) - (k + 1) + 1
  <2> HIDE DEF w
  <2>2. /\ w \in Seq(Nat) /\ Len(w) = IF k + 1 <= Len(s) THEN m ELSE 0
        /\ \A i \in 1 .. m : w[i] = s[k + 1 + i - 1]
    BY <2>1, SubSeqProperties DEF w
  <2>3. m = Len(s) - k /\ (IF k + 1 <= Len(s) THEN m ELSE 0) = Len(s) - k
        /\ \A i \in 1 .. Len(s) - k : k + 1 + i - 1 = k + i
    BY <2>1
  <2> HIDE DEF m
  <2>4. Len(w) = Len(s) - k
    BY <2>2, <2>3
  <2>5. ASSUME NEW i \in 1 .. Len(s) - k PROVE w[i] = s[k + i]
    BY <2>2, <2>3
  <2> QED BY <2>2, <2>4, <2>5 DEF Drop, w
<1> HIDE DEF u, v
<1>4. u \o v = s
  <2>1. /\ u \o v \in Seq(Nat) /\ Len(u \o v) = k + (Len(s) - k)
        /\ \A i \in 1 .. k + (Len(s) - k) : (u \o v)[i] = IF i <= k THEN u[i] ELSE v[i - k]
    <3>1. /\ u \o v \in Seq(Nat) /\ Len(u \o v) = Len(u) + Len(v)
          /\ \A i \in 1 .. Len(u) + Len(v) :
               (u \o v)[i] = IF i <= Len(u) THEN u[i] ELSE v[i - Len(u)]
      BY <1>2, <1>3, ConcatProperties
    <3>2. Len(u) = k /\ Len(v) = Len(s) - k
      BY <1>2, <1>3
    <3> QED BY <3>1, <3>2
  <2>2. k \in Nat /\ k + (Len(s) - k) = Len(s)
    BY <1>1
  <2> DEFINE w == u \o v
  <2>3. w \in Seq(Nat) /\ Len(w) = Len(s)
    BY <2>1, <2>2
  <2>4. ASSUME NEW i \in 1 .. Len(s) PROVE w[i] = s[i]
    <3>1. i \in Nat /\ Len(s) \in Nat /\ i >= 1 /\ i <= Len(s)
      BY <1>1
    <3>2. w[i] = IF i <= k THEN u[i] ELSE v[i - k]
      BY <2>1, <2>2
    <3> HIDE DEF w
    <3>3. CASE i <= k
      <4>1. i \in 1 .. k
        BY <3>1, <3>3, <2>2
      <4> QED BY <4>1, <3>2, <3>3, <1>2
    <3>4. CASE ~(i <= k)
      <4>1. i - k \in 1 .. Len(s) - k /\ k + (i - k) = i
        BY <3>1, <3>4, <2>2
      <4> QED BY <4>1, <3>2, <3>4, <1>3
    <3> QED BY <3>3, <3>4
  <2> HIDE DEF w
  <2> QED BY <2>3, <2>4, SeqEqual DEF w
<1>5. hd \in Seq(Nat) /\ Len(hd) = 2 /\ hd[1] = IO_CDC /\ hd[2] = k
  BY <1>1, <1>2 DEF IO_CDC
<1>6. f = hd \o u
  BY DEF Framed
<1> HIDE DEF hd, f
<1>7. /\ f \in Seq(Nat) /\ Len(f) = 2 + k
      /\ \A i \in 1 .. 2 + k : f[i] = IF i <= 2 THEN hd[i] ELSE u[i - 2]
  <2>1. /\ hd \o u \in Seq(Nat) /\ Len(hd \o u) = Len(hd) + Len(u)
        /\ \A i \in 1 .. Len(hd) + Len(u) :
             (hd \o u)[i] = IF i <= Len(hd) THEN hd[i] ELSE u[i - Len(hd)]
    BY <1>2, <1>5, ConcatProperties
  <2>2. Len(hd) = 2 /\ Len(u) = k
    BY <1>2, <1>5
  <2> QED BY <2>1, <2>2, <1>6
<1>8. f[1] = IO_CDC /\ f[2] = k /\ \A i \in 1 .. k : f[2 + i] = u[i]
  <2>1. k \in Nat
    BY <1>1
  <2>2. f[1] = IO_CDC /\ f[2] = k
    BY <2>1, <1>5, <1>7
  <2>3. ASSUME NEW i \in 1 .. k PROVE f[2 + i] = u[i]
    <3>1. 2 + i \in 1 .. 2 + k /\ ~(2 + i <= 2) /\ 2 + i - 2 = i
      BY <2>1
    <3> QED BY <3>1, <1>7
  <2> QED BY <2>2, <2>3
<1>9. SubSeq(f, 3, 2 + k) = u
  <2>1. k \in Nat /\ 3 \in Int /\ 2 + k \in Int /\ k >= 1
    BY <1>1
  <2>2. \A i \in 3 .. 2 + k : f[i] \in Nat
    <3>1. \A i \in 3 .. 2 + k : i \in 1 .. Len(f)
      BY <2>1, <1>7
    <3> QED BY <3>1, <1>7
  <2> DEFINE w == SubSeq(f, 3, 2 + k)
  <2> HIDE DEF w
  <2>3. /\ w \in Seq(Nat) /\ Len(w) = IF 3 <= 2 + k THEN 2 + k - 3 + 1 ELSE 0
        /\ \A i \in 1 .. 2 + k - 3 + 1 : w[i] = f[3 + i - 1]
    BY <2>1, <2>2, SubSeqProperties DEF w
  <2>4. 2 + k - 3 + 1 = k /\ 3 <= 2 + k /\ \A i \in 1 .. k : 3 + i - 1 = 2 + i
    BY <2>1
  <2>5. Len(w) = k
    BY <2>3, <2>4
  <2>6. ASSUME NEW i \in 1 .. k PROVE w[i] = u[i]
    BY <2>3, <2>4, <1>8
  <2> QED BY <2>3, <2>5, <2>6, <1>2, SeqEqual DEF w
<1>10. Unframe(f) = u
  BY <1>8, <1>9 DEF Unframe
<1> QED BY <1>1, <1>2, <1>3, <1>4, <1>10 DEF k, u, v, f

LEMMA WritePacketInv == ASSUME FwInv, WritePacket PROVE FwInv'
<1> DEFINE k == Least(Len(out), USBMODE_PACKET_SIZE)
           u == Take(out, k)
           v == Drop(out, k)
<1>1. /\ pc = "write" /\ out # <<>> /\ Answering /\ out \in Seq(Nat) /\ got \in Seq(Nat)
      /\ got' = got \o Unframe(Framed(IO_CDC, u)) /\ out' = v
      /\ Internal
      /\ UNCHANGED <<clientvars, pc, after, cur_endpoint, hdr, cmd, n, available>>
  BY DEF WritePacket, FwInv, FirmwareTypes, Answering
<1>2. LineInv' /\ Wire' = Wire
  BY <1>1, InternalLine DEF FwInv
<1>3. u \in Seq(Nat) /\ v \in Seq(Nat) /\ u \o v = out /\ Unframe(Framed(IO_CDC, u)) = u
  BY <1>1, PieceArrives
<1> HIDE DEF u, v, k
<1>4. got' = got \o u /\ out' = v /\ got' \in Seq(Nat) /\ out' \in Seq(Nat)
  BY <1>1, <1>3, ConcatProperties
<1>5. got' \o out' = got \o out
  <2>1. \A r, s, t \in Seq(Nat) : (r \o s) \o t = r \o (s \o t)
    BY ConcatAssociative
  <2>2. (got \o u) \o v = got \o (u \o v)
    BY <2>1, <1>1, <1>3
  <2> QED BY <2>2, <1>3, <1>4
<1>6. /\ HasHeader /\ hdr.endpoint = DST_FW /\ cmd = Begun(asked, Len(asked) - 1)
      /\ IsGood(asked) /\ got \o out \in RepliesTo(asked) /\ ~WholeReply(got)
  BY <1>1 DEF FwInv, CommandInv
<1>7. asked \in ClientFrames /\ asked # None /\ parseframe(asked[1]) # None
  BY <1>6, AskedType DEF HasHeader
<1>8. WholeReply(got \o out)
  BY <1>6, <1>7, ReplyProperties
<1>9. /\ pc' = "write" /\ asked' = asked /\ hdr' = hdr /\ cmd' = cmd /\ HasHeader'
      /\ WholeReply(got)' <=> WholeReply(got')
  BY <1>1, <1>6 DEF clientvars, HasHeader, WholeReply
<1>10. FirmwareTypes'
  BY <1>1, <1>4 DEF FwInv, FirmwareTypes
<1>11. PacketInv'
  BY <1>9 DEF PacketInv
<1>12. Consumed = Len(asked)
  BY <1>1, <1>7 DEF Consumed
<1>13. CASE v = <<>>
  <2>1. out' = <<>> /\ got' = got \o out
    BY <1>4, <1>5, <1>13, ConcatEmptySeq
  <2>2. WholeReply(got)' /\ got' \in RepliesTo(asked)
    BY <2>1, <1>6, <1>8, <1>9
  <2>3. ~Answering'
    BY <2>1 DEF Answering
  <2>4. CommandInv'
    BY <2>1, <2>2, <2>3, <1>6, <1>7, <1>9 DEF CommandInv, Reading, ReadingPC
  <2>5. Consumed' = Consumed
    BY <2>2, <1>7, <1>9, <1>12 DEF Consumed
  <2>6. Stream'
    BY <2>5, <1>1, <1>2, <1>9, StreamKept DEF clientvars
  <2> QED BY <2>4, <2>6, <1>2, <1>10, <1>11 DEF FwInv
<1>14. CASE v # <<>>
  <2>1. WholeReply(got' \o out') /\ out' # <<>>
    BY <1>4, <1>5, <1>8, <1>14
  <2>2. ~WholeReply(got')
    BY <2>1, <1>4, PartOfReply
  <2>3. Answering'
    BY <2>1, <1>9 DEF Answering
  <2>4. CommandInv'
    BY <2>2, <2>3, <1>5, <1>6, <1>7, <1>9 DEF CommandInv, Reading, ReadingPC
  <2>5. Consumed' = Consumed
    BY <2>3, <1>7, <1>9, <1>12 DEF Consumed
  <2>6. Stream'
    BY <2>5, <1>1, <1>2, <1>9, StreamKept DEF clientvars
  <2> QED BY <2>4, <2>6, <1>2, <1>10, <1>11 DEF FwInv
<1> QED BY <1>13, <1>14

\* The piece that empties `out' completes the reply.
LEMMA LastPieceAnswers ==
  ASSUME FwInv, WritePacket, out' = <<>>
  PROVE  WholeReply(got')
<1> DEFINE k == Least(Len(out), USBMODE_PACKET_SIZE)
           u == Take(out, k)
           v == Drop(out, k)
<1>1. /\ out # <<>> /\ Answering /\ out \in Seq(Nat)
      /\ got' = got \o Unframe(Framed(IO_CDC, u)) /\ v = <<>>
  BY DEF WritePacket, FwInv, FirmwareTypes, Answering
<1>2. u \in Seq(Nat) /\ u \o v = out /\ Unframe(Framed(IO_CDC, u)) = u
  BY <1>1, PieceArrives
<1> HIDE DEF u, v, k
<1>3. u = out
  <2>1. u \o <<>> = u
    BY <1>2, ConcatEmptySeq
  <2> QED BY <2>1, <1>1, <1>2
<1>4. got' = got \o out
  BY <1>1, <1>2, <1>3
<1>5. HasHeader /\ got \o out \in RepliesTo(asked) /\ asked # None
  BY <1>1 DEF FwInv, CommandInv, HasHeader
<1>6. asked \in ClientFrames /\ parseframe(asked[1]) # None
  BY <1>5, AskedType DEF HasHeader
<1> QED BY <1>4, <1>5, <1>6, ReplyProperties

LEMMA NextCommandInv == ASSUME FwInv, NextCommand PROVE FwInv'
<1>1. /\ pc = "write" /\ out = <<>> /\ pc' = "select" /\ after' = "header"
      /\ Internal
      /\ UNCHANGED <<clientvars, got, cur_endpoint, hdr, cmd, n, available, out>>
  BY DEF NextCommand
<1>2. LineInv' /\ Wire' = Wire
  BY <1>1, InternalLine DEF FwInv
<1>3. FirmwareTypes' /\ PacketInv'
  BY <1>1 DEF FwInv, FirmwareTypes, PacketInv, ReadingPC
<1>4. ~Answering /\ ~Answering' /\ ~(Reading /\ after = "body")' /\ (Reading /\ after = "header")'
  BY <1>1 DEF Answering, Reading, ReadingPC
<1>5. CommandInv'
  BY <1>1, <1>4 DEF FwInv, CommandInv, clientvars, WholeReply
<1>6. Consumed' = Consumed
  BY <1>1, <1>4 DEF Consumed, clientvars, WholeReply
<1>7. Stream'
  BY <1>1, <1>2, <1>6, StreamKept DEF clientvars
<1> QED BY <1>2, <1>3, <1>5, <1>7 DEF FwInv

LEMMA FwInitially == Init => FwInv
<1> SUFFICES ASSUME Init PROVE FwInv
  OBVIOUS
<1>1. LineInv
  BY LineInitially
<1>2. /\ asked = None /\ host = <<>> /\ packet = <<>> /\ line = <<>> /\ got = <<>>
      /\ pc = "select" /\ after = "header"
      /\ cur_endpoint = [endpoint |-> IO_NONE, len |-> 0]
      /\ cmd = Zeros /\ n = 0 /\ available = 0 /\ out = <<>>
  BY DEF Init
<1>3. FirmwareTypes
  <2>1. 0 \in Byte /\ Zeros \in [1 .. CMDSIZE -> Byte]
    BY ProtoAssumption DEF Zeros
  <2>2. cur_endpoint \in [endpoint : {IO_NONE, IO_CDC, IO_DEBUG}, len : Byte]
    BY <2>1, <1>2
  <2> QED BY <2>1, <2>2, <1>2 DEF FirmwareTypes, ReadingPC
<1>4. PacketInv
  BY <1>2 DEF PacketInv
<1>5. CommandInv
  BY <1>2, EmptyIsNotWhole DEF CommandInv, Reading, ReadingPC, Answering
<1>6. Stream
  <2>1. Received = <<>>
    <3>1. Engine = <<>> /\ byte_ctr_reg = 0
      BY DEF Init, FifoInit, Engine
    <3>2. FifoBytes = <<>>
      <4>1. 1 .. byte_ctr_reg = {}
        BY <3>1
      <4> QED BY <4>1 DEF FifoBytes
    <3> QED BY <3>1, <3>2, ConcatEmptySeq DEF Received, Engine
  <2>2. OnTheWay = <<>>
    BY <2>1, <1>2, ConcatEmptySeq DEF OnTheWay
  <2>3. left = 0 /\ Sent = <<>> /\ Consumed = 0 /\ FromCdc \in BOOLEAN
    BY <1>2 DEF left, Sent, Consumed, FromCdc
  <2>4. Carried(<<>>, 0, FromCdc, 0, <<>>, <<>>)
    BY <2>3, NothingYet
  <2>5. Carried(OnTheWay, left, FromCdc, 0, Sent, host) /\ 0 \in 0 .. Len(Sent)
        /\ left \in 0 .. Len(OnTheWay)
    BY <2>2, <2>3, <2>4, <1>2
  <2> QED BY <2>3, <2>5 DEF Stream
<1> QED BY <1>1, <1>3, <1>4, <1>5, <1>6 DEF FwInv

LEMMA FwStep == ASSUME FwInv, [Next]_vars PROVE FwInv'
<1>1. CASE Environment
  <2>1. CASE Ch552Send
    <3>1. LineInv' /\ Wire' = Wire
      BY <2>1, Ch552SendLine DEF FwInv
    <3>2. UNCHANGED <<asked, host, got, fwvars>>
      BY <2>1 DEF Ch552Send, clientvars
    <3> QED BY <3>1, <3>2, MovesInv
  <2> QED BY <2>1, <1>1, SendCommandInv, CdcPacketInv, DebugPacketInv, ReceiveReplyInv
          DEF Environment
<1>2. CASE Hardware
  <2>1. LineInv' /\ Wire' = Wire
    BY <1>2, ArriveLine, TickLine DEF Hardware, FwInv
  <2>2. UNCHANGED <<asked, host, got, fwvars>>
    BY <1>2 DEF Hardware, Arrive, Tick, clientvars
  <2> QED BY <2>1, <2>2, MovesInv
<1>3. CASE Firmware
  BY <1>3, ReadModeInv, ReadLengthInv, CheckInv, discardInv, ReadHeaderInv, ReadBodyInv,
     ReadByteInv, HandleInv, WritePacketInv, NextCommandInv DEF Firmware
<1>4. CASE Finished \/ UNCHANGED vars
  <2>1. UNCHANGED vars
    BY <1>4 DEF Finished
  <2>2. LineInv' /\ Wire' = Wire
    BY <2>1, StutterLine DEF FwInv
  <2>3. UNCHANGED <<asked, host, got, fwvars>>
    BY <2>1 DEF vars, clientvars
  <2> QED BY <2>2, <2>3, MovesInv
<1> QED BY <1>1, <1>2, <1>3, <1>4 DEF Next

LEMMA FwInvariant == Spec => []FwInv
<1>1. FwInv /\ [Next]_vars => FwInv'
  BY FwStep
<1> QED BY <1>1, FwInitially, PTL DEF Spec

\* No byte is lost in the FIFO, none is taken twice and none too many by read():
\* behind the packet being read there are whole packets and nothing else, whatever
\* the sizes of the packets and of the FIFO and however the steps interleave.
THEOREM StaysInStep == Spec => []InStep
<1>1. FwInv => InStep
  <2> SUFFICES ASSUME FwInv PROVE InStep
    OBVIOUS
  <2>1. PICK p \in 0 .. Len(Sent) : Carried(OnTheWay, left, FromCdc, p, Sent, host)
    BY DEF FwInv, Stream
  <2>2. PICK B \in SUBSET (left .. Len(OnTheWay)) :
          \E c \in [B -> 0 .. Len(Sent)] : Carries(OnTheWay, left, FromCdc, p, Sent, host, B, c)
    BY <2>1 DEF Carried
  <2>3. B \in SUBSET (left .. Len(OnTheWay)) /\ Cuts(OnTheWay, left, B)
    BY <2>2 DEF Carries
  <2>4. B \in SUBSET Places(OnTheWay, left)
    BY <2>3 DEF Cuts, Places
  <2> QED BY <2>3, <2>4 DEF InStep
<1> QED BY <1>1, FwInvariant, PTL

(***************************************************************************)
(* The layers implement CommandChannel.                                    *)
(***************************************************************************)
\* Where the channel is, and what FwInv says of it there.
PhaseInv ==
  /\ asked = None => Phase = "idle"
  /\ pc = "failed" => Phase = "failed" /\ asked # None /\ ~IsGood(asked)
  /\ asked # None /\ WholeReply(got) => Phase = "answered" /\ got \in RepliesTo(asked)
  /\ Answering =>
       /\ Phase = "taken" /\ IsGood(asked) /\ asked # None
       /\ [hdr |-> hdr, cmd |-> cmd] = Delivered(asked)
  /\ pc = "handle" /\ Responses(cmd[1]) # {} =>
       /\ Phase = "taken" /\ IsGood(asked) /\ asked # None
       /\ [hdr |-> hdr, cmd |-> cmd] = Delivered(asked)
  /\ pc = "handle" /\ Responses(cmd[1]) = {} => Phase = "asked"
  /\ asked # None /\ ~WholeReply(got) /\ pc \notin {"failed", "handle"} /\ ~Answering =>
       Phase = "asked"

LEMMA FwInvGivesPhase == FwInv => PhaseInv
<1> SUFFICES ASSUME FwInv PROVE PhaseInv
  OBVIOUS
<1>1. asked = None => Phase = "idle"
  <2>1. asked = None => pc # "handle" /\ ~(pc = "write" /\ out # <<>>)
    BY DEF FwInv, CommandInv, Reading, ReadingPC
  <2> QED BY <2>1 DEF Phase
<1>2. pc = "failed" => asked # None /\ ~IsGood(asked)
  BY DEF FwInv, CommandInv
<1>3. pc = "failed" => Phase = "failed"
  <2>1. pc = "failed" => ~WholeReply(got)
    BY DEF FwInv, CommandInv, Reading, ReadingPC
  <2> QED BY <2>1, <1>2 DEF Phase
<1>4. asked # None /\ WholeReply(got) =>
        /\ got \in RepliesTo(asked) /\ out = <<>> /\ pc \notin {"failed", "handle"}
  BY DEF FwInv, CommandInv, Reading, ReadingPC
<1>5. asked # None /\ WholeReply(got) => Phase = "answered"
  BY <1>4 DEF Phase
<1>6. pc = "handle" \/ Answering =>
        /\ HasHeader /\ asked # None /\ ~WholeReply(got) /\ hdr.endpoint = DST_FW
        /\ cmd = Begun(asked, Len(asked) - 1)
  BY DEF FwInv, CommandInv, HasHeader, Answering, Reading, ReadingPC
<1>7. ASSUME pc = "handle" \/ Answering
      PROVE  [hdr |-> hdr, cmd |-> cmd] = Delivered(asked) /\ cmd[1] = asked[2]
  <2>1. asked \in ClientFrames /\ Len(asked) \in Nat /\ Len(asked) >= 2 /\ CMDSIZE \in Nat /\ CMDSIZE >= 1
    BY <1>6, <1>7, AskedType, ParseProperties, ProtoAssumption
  <2>2. \A i \in 1 .. CMDSIZE : i <= Len(asked) - 1 <=> i < Len(asked)
    BY <2>1
  <2>3. cmd = [i \in 1 .. CMDSIZE |-> IF i < Len(asked) THEN asked[i + 1] ELSE 0]
    BY <2>2, <1>6, <1>7 DEF Begun
  <2>4. cmd[1] = asked[2]
    <3>1. 1 \in 1 .. CMDSIZE /\ 1 < Len(asked) /\ 1 + 1 = 2
      BY <2>1
    <3> QED BY <3>1, <2>3
  <2> QED BY <2>3, <2>4, <1>6, <1>7 DEF Delivered, HasHeader
<1>8. Answering => Phase = "taken" /\ IsGood(asked)
  <2>1. Answering => IsGood(asked) /\ pc = "write" /\ out # <<>>
    BY DEF FwInv, CommandInv, Answering
  <2> QED BY <2>1, <1>6 DEF Phase
<1>9. pc = "handle" /\ Responses(cmd[1]) # {} => Phase = "taken" /\ IsGood(asked)
  <2>1. pc = "handle" /\ Responses(cmd[1]) # {} => Phase = "taken"
    BY <1>6 DEF Phase
  <2>2. pc = "handle" /\ Responses(cmd[1]) # {} => IsGood(asked)
    BY <1>6, <1>7 DEF IsGood, HasHeader
  <2> QED BY <2>1, <2>2
<1>10. pc = "handle" /\ Responses(cmd[1]) = {} => Phase = "asked"
  BY <1>6 DEF Phase
<1>11. asked # None /\ ~WholeReply(got) /\ pc \notin {"failed", "handle"} /\ ~Answering =>
         Phase = "asked"
  BY DEF Phase, Answering
<1> QED BY <1>1, <1>2, <1>3, <1>4, <1>5, <1>6, <1>7, <1>8, <1>9, <1>10, <1>11 DEF PhaseInv

LEMMA PhaseNext == FwInv' => PhaseInv'
BY FwInvGivesPhase, PTL

LEMMA ChannelInitially == Init => Channel!Init
BY EmptyIsNotWhole DEF Init, Channel!Init, Phase

\* Nothing the channel shows is touched.
LEMMA ChannelStutters ==
  ASSUME asked' = asked, Phase' = Phase,
         Phase = "taken" => hdr' = hdr /\ cmd' = cmd,
         Phase = "answered" => got' = got
  PROVE  UNCHANGED Channel!chvars
BY DEF Channel!chvars

LEMMA ChannelRejects ==
  ASSUME PhaseInv', Phase = "asked", pc' = "failed", asked' = asked
  PROVE  Channel!Reject
BY DEF Channel!Reject, PhaseInv

ChannelStep == [Channel!Next]_(Channel!chvars)

\* Steps of the host, the CH552 and the hardware.
LEMMA MovesImplement ==
  ASSUME UNCHANGED <<asked, got, fwvars>>
  PROVE  ChannelStep
<1>1. Phase' = Phase
  BY DEF Phase, fwvars, WholeReply
<1> QED BY <1>1, ChannelStutters DEF ChannelStep, fwvars

LEMMA ClientImplements ==
  ASSUME FwInv, PhaseInv, PhaseInv', SendCommand \/ ReceiveReply
  PROVE  ChannelStep
<1>1. CASE SendCommand
  <2>1. asked = None /\ asked' \in ClientFrames /\ UNCHANGED <<got, fwvars>>
    BY <1>1, SendCommandLine DEF SendCommand, FwInv
  <2>2. /\ asked' # None /\ got = <<>> /\ pc \notin {"handle", "failed"}
        /\ ~(pc = "write" /\ out # <<>>)
    BY <2>1, FrameType DEF FwInv, CommandInv, Reading, ReadingPC
  <2>3. pc' = pc /\ out' = out /\ ~WholeReply(got)' /\ ~Answering'
    BY <2>1, <2>2, EmptyIsNotWhole DEF fwvars, WholeReply, Answering
  <2>4. Phase = "idle" /\ Phase' = "asked"
    BY <2>1, <2>2, <2>3 DEF PhaseInv
  <2>5. Channel!Ask(asked')
    BY <2>1, <2>4 DEF Channel!Ask
  <2> QED BY <2>1, <2>5 DEF ChannelStep, Channel!Next
<1>2. CASE ReceiveReply
  <2>1. WholeReply(got) /\ asked' = None /\ asked # None
    BY <1>2 DEF ReceiveReply, FwInv, CommandInv
  <2>2. Phase = "answered" /\ Phase' = "idle"
    BY <2>1 DEF PhaseInv
  <2>3. Channel!Receive
    BY <2>1, <2>2 DEF Channel!Receive
  <2> QED BY <2>3 DEF ChannelStep, Channel!Next
<1> QED BY <1>1, <1>2

\* Reading stays in a phase until the last byte, or until it fails.
LEMMA ReadingImplements ==
  ASSUME FwInv, PhaseInv, PhaseInv', Reading, UNCHANGED <<asked, got>>, out' = out,
         pc' \in ReadingPC \cup {"failed", "handle"}, pc' = "handle" => pc = "read"
  PROVE  ChannelStep
<1>1. pc \notin {"failed", "handle", "write"} /\ ~Answering
  BY DEF Reading, ReadingPC, Answering
<1>2. WholeReply(got)' <=> WholeReply(got)
  BY DEF WholeReply
<1>3. CASE pc' \in ReadingPC
  <2>1. pc' \notin {"failed", "handle"} /\ ~Answering'
    BY <1>3 DEF ReadingPC, Answering
  <2>2. Phase' = Phase /\ Phase # "taken"
    BY <2>1, <1>1, <1>2 DEF PhaseInv
  <2> QED BY <2>2, ChannelStutters DEF ChannelStep
<1>4. CASE pc' = "failed"
  <2>1. asked' # None /\ ~IsGood(asked')
    BY <1>4 DEF PhaseInv
  <2>2. ~WholeReply(got)
    <3>1. Phase' = "failed"
      BY <1>4 DEF PhaseInv
    <3> QED BY <3>1, <2>1, <1>2 DEF PhaseInv
  <2>3. Channel!Reject
    BY <2>1, <2>2, <1>1, <1>4, ChannelRejects DEF PhaseInv
  <2> QED BY <2>3 DEF ChannelStep, Channel!Next
<1>5. CASE pc' = "handle" /\ asked # None /\ ~WholeReply(got)
  <2>1. Phase = "asked"
    BY <1>1, <1>5 DEF PhaseInv
  <2>2. CASE Responses(cmd'[1]) = {}
    <3>1. Phase' = "asked"
      BY <1>5, <2>2 DEF PhaseInv
    <3> QED BY <3>1, <2>1, ChannelStutters DEF ChannelStep
  <2>3. CASE Responses(cmd'[1]) # {}
    <3>1. Phase' = "taken" /\ IsGood(asked') /\ [hdr |-> hdr', cmd |-> cmd'] = Delivered(asked')
      BY <1>5, <2>3 DEF PhaseInv
    <3>2. Channel!Take
      BY <3>1, <2>1 DEF Channel!Take
    <3> QED BY <3>2 DEF ChannelStep, Channel!Next
  <2> QED BY <2>2, <2>3
<1>6. pc' = "handle" => asked # None /\ ~WholeReply(got)
  BY BodyFits, EmptyIsNotWhole
<1> QED BY <1>3, <1>4, <1>5, <1>6

LEMMA ReplyImplements ==
  ASSUME FwInv, PhaseInv, PhaseInv', Handle \/ WritePacket \/ NextCommand
  PROVE  ChannelStep
<1>1. CASE Handle
  <2>1. /\ pc = "handle" /\ UNCHANGED <<asked, got, hdr, cmd>>
        /\ HasHeader /\ cmd = Begun(asked, Len(asked) - 1) /\ asked # None
    BY <1>1 DEF Handle, clientvars, FwInv, CommandInv, HasHeader
  <2>2. CASE Responses(cmd[1]) = {}
    <3>1. pc' = "failed" /\ Phase = "asked"
      BY <2>1, <2>2, <1>1 DEF Handle, Fail, PhaseInv
    <3>2. Channel!Reject
      BY <3>1, <2>1, ChannelRejects
    <3> QED BY <3>2 DEF ChannelStep, Channel!Next
  <2>3. CASE Responses(cmd[1]) # {}
    <3>1. PICK rspcode \in Responses(cmd[1]) : out' = ReplyFrame(hdr, rspcode)
      BY <2>3, <1>1 DEF Handle
    <3>2. asked \in ClientFrames /\ Len(asked) \in Nat /\ Len(asked) >= 2
      BY <2>1, AskedType, ParseProperties
    <3>3. cmd[1] = asked[2]
      <4>1. 1 \in 1 .. CMDSIZE /\ 1 <= Len(asked) - 1 /\ 1 + 1 = 2
        BY <3>2, ProtoAssumption
      <4> QED BY <4>1, <2>1 DEF Begun
    <3>4. out' \in RepliesTo(asked)
      BY <3>1, <3>3, <2>1 DEF RepliesTo, HasHeader
    <3>5. out' # <<>>
      BY <3>2, <3>4, <2>1, ReplyProperties DEF HasHeader
    <3>6. Answering'
      BY <3>5, <2>3, <1>1 DEF Handle, Answering
    <3>7. Phase = "taken" /\ Phase' = "taken"
      BY <3>6, <2>1, <2>3 DEF PhaseInv
    <3> QED BY <3>7, <2>1, ChannelStutters DEF ChannelStep
  <2> QED BY <2>2, <2>3
<1>2. CASE WritePacket
  <2>1. /\ pc = "write" /\ pc' = "write" /\ out # <<>> /\ asked' = asked /\ hdr' = hdr /\ cmd' = cmd
        /\ Answering /\ FwInv'
    BY <1>2, WritePacketInv DEF WritePacket, Answering, clientvars
  <2>2. Phase = "taken" /\ asked # None
    BY <2>1 DEF PhaseInv
  <2>3. CASE out' # <<>>
    <3>1. Answering'
      BY <2>1, <2>3 DEF Answering
    <3>2. Phase' = "taken"
      BY <3>1 DEF PhaseInv
    <3> QED BY <3>2, <2>1, <2>2, ChannelStutters DEF ChannelStep
  <2>4. CASE out' = <<>>
    <3>1. WholeReply(got)'
      BY <2>4, <1>2, LastPieceAnswers
    <3>2. Phase' = "answered" /\ got' \in RepliesTo(asked')
      BY <3>1, <2>1, <2>2 DEF PhaseInv
    <3>3. Channel!Answer
      BY <3>2, <2>1, <2>2 DEF Channel!Answer
    <3> QED BY <3>3 DEF ChannelStep, Channel!Next
  <2> QED BY <2>3, <2>4
<1>3. CASE NextCommand
  <2>1. /\ pc = "write" /\ out = <<>> /\ pc' = "select" /\ UNCHANGED <<asked, got, hdr, cmd>>
    BY <1>3 DEF NextCommand, clientvars
  <2>2. ~Answering /\ ~Answering' /\ (WholeReply(got)' <=> WholeReply(got))
    BY <2>1 DEF Answering, WholeReply
  <2>3. Phase' = Phase
    BY <2>1, <2>2 DEF PhaseInv
  <2> QED BY <2>1, <2>3, ChannelStutters DEF ChannelStep
<1> QED BY <1>1, <1>2, <1>3

LEMMA FwImplements == ASSUME FwInv, PhaseInv, PhaseInv', [Next]_vars PROVE ChannelStep
<1>1. CASE CdcPacket \/ DebugPacket \/ Ch552Send \/ Hardware \/ Finished \/ UNCHANGED vars
  <2>1. UNCHANGED <<asked, got, fwvars>>
    BY <1>1 DEF CdcPacket, DebugPacket, Ch552Send, Hardware, Arrive, Tick, Finished, vars,
                clientvars
  <2> QED BY <2>1, MovesImplement
<1>2. CASE SendCommand \/ ReceiveReply
  BY <1>2, ClientImplements
<1>3. CASE ReadMode \/ ReadLength \/ Check \/ discard \/ ReadHeader \/ ReadBody \/ ReadByte
  <2>1. Reading /\ UNCHANGED <<asked, got>> /\ out' = out
    BY <1>3 DEF ReadMode, ReadLength, Check, discard, ReadHeader, ReadBody, ReadByte,
                Reading, ReadingPC, clientvars
  <2>2. pc' \in ReadingPC \cup {"failed", "handle"} /\ (pc' = "handle" => pc = "read")
    <3>1. after \in {"header", "body"}
      BY DEF FwInv, FirmwareTypes
    <3> QED BY <3>1, <1>3 DEF ReadMode, ReadLength, Check, discard, ReadHeader, ReadBody, ReadByte,
                              Fail, ReadingPC
  <2> QED BY <2>1, <2>2, ReadingImplements
<1>4. CASE Handle \/ WritePacket \/ NextCommand
  BY <1>4, ReplyImplements
<1> QED BY <1>1, <1>2, <1>3, <1>4 DEF Next, Environment, Firmware

\* The firmware gets exactly the command that was sent and the client exactly the
\* reply that was given, whatever the packets, the debug endpoint and the FIFO do in
\* between; only a frame that is not for the firmware stops it (readcommand() and
\* fwreply() in proto.c over readselect(), read() and write() in io.c).
THEOREM ImplementsCommandChannel == Spec => ImplementsChannel
<1>1. FwInv /\ PhaseInv /\ PhaseInv' /\ [Next]_vars => ChannelStep
  BY FwImplements
<1>2. FwInv => PhaseInv
  BY FwInvGivesPhase
<1>3. Init => Channel!Init
  BY ChannelInitially
<1>4. Spec => Init /\ [][Next]_vars
  BY PTL DEF Spec
<1>5. Init /\ [][Next]_vars /\ []FwInv => Channel!Init /\ [][Channel!Next]_(Channel!chvars)
  BY <1>1, <1>2, <1>3, PTL DEF ChannelStep
<1>6. Spec => Channel!Spec
  BY <1>4, <1>5, FwInvariant, PTL DEF Channel!Spec
<1> QED BY <1>6 DEF ImplementsChannel
=============================================================================
