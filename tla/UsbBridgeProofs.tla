--------------------------- MODULE UsbBridgeProofs ---------------------------
(***************************************************************************)
(* The CH552 loses nothing and offers nothing it should not, for every     *)
(* size of the buffers that leaves room for the bytes on the way, every    *)
(* endpoint mask, and frames that may be out of step after a bus reset.    *)
(***************************************************************************)
EXTENDS UsbBridge, SequenceTheorems, TLAPS

Pointer == 0 .. UART_RX_BUF_SIZE - 1

-----------------------------------------------------------------------------
(* Frames on a line *)

Frames == [mode : Modes, data : Seq(Nat)]

\* The bytes s are the frames of F, one after the other.
Spelled(s, F) ==
  \E off \in [0 .. Len(F) -> 0 .. Len(s)] :
    /\ off[0] = 0 /\ off[Len(F)] = Len(s)
    /\ \A j, k \in 0 .. Len(F) : j <= k => off[j] <= off[k]
    /\ \A k \in 1 .. Len(F) :
         /\ off[k] = off[k - 1] + Len(Framed(F[k]))
         /\ \A i \in 1 .. Len(Framed(F[k])) : s[off[k - 1] + i] = Framed(F[k])[i]

\* The frames of F whose mode is in M are those of P, in the same order: c[k] of
\* them are among the first k frames.
PartOf(P, F, M) ==
  \E c \in [0 .. Len(F) -> 0 .. Len(P)] :
    /\ c[0] = 0 /\ c[Len(F)] = Len(P)
    /\ \A j, k \in 0 .. Len(F) : j <= k => c[j] <= c[k]
    /\ \A k \in 1 .. Len(F) :
         IF F[k].mode \in M THEN c[k] = c[k - 1] + 1 /\ P[c[k]] = F[k] ELSE c[k] = c[k - 1]

LEMMA FramedProperties ==
  ASSUME NEW f \in Frames
  PROVE  /\ Framed(f) \in Seq(Nat) /\ Len(Framed(f)) = 2 + Len(f.data) /\ Len(f.data) \in Nat
         /\ Framed(f)[1] = f.mode /\ Framed(f)[2] = Len(f.data)
         /\ \A i \in 1 .. Len(f.data) : Framed(f)[2 + i] = f.data[i]
<1>1. f.mode \in Nat /\ f.data \in Seq(Nat) /\ Len(f.data) \in Nat
  BY DEF Frames, Modes, IO_CH552, IO_CDC, IO_FIDO, IO_CCID, IO_DEBUG
<1> DEFINE h == <<f.mode, Len(f.data)>>
<1>2. h \in Seq(Nat) /\ Len(h) = 2 /\ h[1] = f.mode /\ h[2] = Len(f.data)
  BY <1>1
<1> HIDE DEF h
<1>3. /\ h \o f.data \in Seq(Nat) /\ Len(h \o f.data) = 2 + Len(f.data)
      /\ \A i \in 1 .. 2 + Len(f.data) :
           (h \o f.data)[i] = IF i <= 2 THEN h[i] ELSE f.data[i - 2]
  <2>1. /\ h \o f.data \in Seq(Nat) /\ Len(h \o f.data) = Len(h) + Len(f.data)
        /\ \A i \in 1 .. Len(h) + Len(f.data) :
             (h \o f.data)[i] = IF i <= Len(h) THEN h[i] ELSE f.data[i - Len(h)]
    BY <1>1, <1>2, ConcatProperties
  <2> QED
    BY <1>2, <2>1
<1>4. \A i \in 1 .. Len(f.data) : (h \o f.data)[2 + i] = f.data[i]
  <2> SUFFICES ASSUME NEW i \in 1 .. Len(f.data) PROVE (h \o f.data)[2 + i] = f.data[i]
    OBVIOUS
  <2>1. 2 + i \in 1 .. 2 + Len(f.data) /\ ~(2 + i <= 2) /\ 2 + i - 2 = i
    BY <1>1
  <2> QED
    BY <1>3, <2>1
<1>5. (h \o f.data)[1] = f.mode /\ (h \o f.data)[2] = Len(f.data)
  BY <1>1, <1>2, <1>3
<1> QED
  BY <1>1, <1>3, <1>4, <1>5 DEF h, Framed

\* Two frames that are the same bytes are the same frame.
LEMMA FramedInjective ==
  ASSUME NEW f \in Frames, NEW g \in Frames, Framed(f) = Framed(g)
  PROVE  f = g
<1>1. f.mode = g.mode /\ Len(f.data) = Len(g.data)
  BY FramedProperties
<1>2. ASSUME NEW i \in 1 .. Len(f.data) PROVE f.data[i] = g.data[i]
  <2>1. i \in 1 .. Len(g.data)
    BY <1>1
  <2>2. Framed(f)[2 + i] = f.data[i]
    BY FramedProperties
  <2>3. Framed(g)[2 + i] = g.data[i]
    BY <2>1, FramedProperties
  <2> QED
    BY <2>2, <2>3
<1>3. f.data = g.data
  BY <1>1, <1>2, SeqEqual DEF Frames
<1> QED
  BY <1>1, <1>3 DEF Frames

LEMMA SpelledEmpty == Spelled(<<>>, <<>>)
<1> DEFINE off == [k \in 0 .. 0 |-> 0]
<1>1. off \in [0 .. Len(<<>>) -> 0 .. Len(<<>>)] /\ off[0] = 0 /\ Len(<<>>) = 0
  OBVIOUS
<1>2. \A j, k \in 0 .. Len(<<>>) : j <= k => off[j] <= off[k]
  BY <1>1
<1>3. 1 .. Len(<<>>) = {}
  BY <1>1
<1> HIDE DEF off
<1> QED
  BY <1>1, <1>2, <1>3 DEF Spelled

LEMMA SpelledNonEmpty ==
  ASSUME NEW F \in Seq(Frames), NEW s \in Seq(Nat), Spelled(s, F), s # <<>>
  PROVE  F # <<>>
<1>1. PICK off \in [0 .. Len(F) -> 0 .. Len(s)] : off[0] = 0 /\ off[Len(F)] = Len(s)
  BY DEF Spelled
<1>2. Len(s) # 0
  OBVIOUS
<1> QED
  BY <1>1, <1>2

LEMMA SpelledAppend ==
  ASSUME NEW F \in Seq(Frames), NEW s \in Seq(Nat), Spelled(s, F), NEW f \in Frames
  PROVE  Spelled(s \o Framed(f), Append(F, f))
<1>1. PICK off \in [0 .. Len(F) -> 0 .. Len(s)] :
        /\ off[0] = 0 /\ off[Len(F)] = Len(s)
        /\ \A j, k \in 0 .. Len(F) : j <= k => off[j] <= off[k]
        /\ \A k \in 1 .. Len(F) :
             /\ off[k] = off[k - 1] + Len(Framed(F[k]))
             /\ \A i \in 1 .. Len(Framed(F[k])) : s[off[k - 1] + i] = Framed(F[k])[i]
  BY DEF Spelled
<1> DEFINE n == Len(F)
           b == Framed(f)
           t == s \o b
           G == Append(F, f)
           new == [k \in 0 .. n + 1 |-> IF k <= n THEN off[k] ELSE Len(s) + Len(b)]
<1>2. n \in Nat /\ b \in Seq(Nat) /\ Len(b) \in Nat /\ Len(s) \in Nat
  BY FramedProperties
<1>3. t \in Seq(Nat) /\ Len(t) = Len(s) + Len(b)
      /\ \A i \in 1 .. Len(s) + Len(b) : t[i] = IF i <= Len(s) THEN s[i] ELSE b[i - Len(s)]
  <2> HIDE DEF b
  <2> QED
    BY <1>2, ConcatProperties
<1>4. Len(G) = n + 1 /\ (\A k \in 1 .. n : G[k] = F[k]) /\ G[n + 1] = f
  BY <1>2, AppendProperties
<1>5. \A k \in 1 .. n : Len(Framed(F[k])) \in Nat
  BY FramedProperties
<1> HIDE DEF t, G, b
<1>6. new \in [0 .. n + 1 -> 0 .. Len(t)] /\ new[0] = 0 /\ new[n + 1] = Len(t)
  BY <1>1, <1>2, <1>3
<1>7. ASSUME NEW j \in 0 .. n + 1, NEW k \in 0 .. n + 1, j <= k
      PROVE  new[j] <= new[k]
  <2>1. CASE k <= n
    BY <1>1, <1>2, <1>7, <2>1
  <2>2. CASE k = n + 1
    <3>1. new[k] = Len(s) + Len(b)
      BY <1>2, <2>2
    <3>2. new[j] \in 0 .. Len(s) \/ new[j] = Len(s) + Len(b)
      <4>1. CASE j <= n
        <5>1. j \in 0 .. n /\ new[j] = off[j]
          BY <1>2, <4>1
        <5> QED
          BY <1>1, <5>1
      <4>2. CASE ~(j <= n)
        BY <4>2
      <4> QED
        BY <4>1, <4>2
    <3> HIDE DEF new
    <3> QED
      BY <1>2, <3>1, <3>2
  <2>3. k <= n \/ k = n + 1
    BY <1>2
  <2> QED
    BY <2>1, <2>2, <2>3
<1>8. ASSUME NEW k \in 1 .. n + 1
      PROVE  /\ new[k] = new[k - 1] + Len(Framed(G[k]))
             /\ \A i \in 1 .. Len(Framed(G[k])) : t[new[k - 1] + i] = Framed(G[k])[i]
  <2>1. CASE k <= n
    <3>1. k \in 1 .. n /\ G[k] = F[k] /\ new[k] = off[k] /\ new[k - 1] = off[k - 1]
      BY <1>2, <1>4, <2>1
    <3>2. /\ off[k] = off[k - 1] + Len(Framed(F[k])) /\ off[k] <= Len(s)
          /\ off[k - 1] \in Nat /\ Len(Framed(F[k])) \in Nat
      <4>1. k \in 0 .. n /\ k - 1 \in 0 .. n
        BY <1>2, <3>1
      <4>2. off[k] \in 0 .. Len(s) /\ off[k - 1] \in 0 .. Len(s)
        BY <1>1, <4>1
      <4> QED
        BY <1>1, <1>2, <1>5, <3>1, <4>2
    <3>3. ASSUME NEW i \in 1 .. Len(Framed(F[k]))
          PROVE  t[off[k - 1] + i] = Framed(F[k])[i]
      <4>1. off[k - 1] + i \in 1 .. Len(s) + Len(b) /\ off[k - 1] + i <= Len(s)
        <5> DEFINE x == off[k - 1]
                   y == off[k]
                   l == Len(Framed(F[k]))
                   p == Len(s)
                   q == Len(b)
        <5>1. x \in Nat /\ l \in Nat /\ i \in 1 .. l /\ y = x + l /\ y <= p /\ p \in Nat /\ q \in Nat
          BY <1>2, <3>2
        <5> HIDE DEF x, y, l, p, q
        <5>2. x + i \in 1 .. p + q /\ x + i <= p
          BY <5>1
        <5> QED
          BY <5>2 DEF x, p, q
      <4>2. s[off[k - 1] + i] = Framed(F[k])[i]
        BY <1>1, <3>1
      <4> QED
        BY <1>3, <4>1, <4>2
    <3> QED
      BY <3>1, <3>2, <3>3
  <2>2. CASE k = n + 1
    <3>1. G[k] = f /\ new[k] = Len(s) + Len(b) /\ new[k - 1] = Len(s)
      BY <1>1, <1>2, <1>4, <2>2
    <3>2. ASSUME NEW i \in 1 .. Len(b) PROVE t[Len(s) + i] = b[i]
      <4>1. Len(s) + i \in 1 .. Len(s) + Len(b) /\ ~(Len(s) + i <= Len(s))
            /\ Len(s) + i - Len(s) = i
        BY <1>2
      <4> QED
        BY <1>3, <4>1, SMTT(30)
    <3> QED
      BY <3>1, <3>2 DEF b
  <2>3. k <= n \/ k = n + 1
    BY <1>2
  <2> QED
    BY <2>1, <2>2, <2>3
<1> HIDE DEF new
<1>9. Spelled(t, G)
  <2>1. \A j, k \in 0 .. Len(G) : j <= k => new[j] <= new[k]
    BY <1>4, <1>7
  <2>2. \A k \in 1 .. Len(G) :
          /\ new[k] = new[k - 1] + Len(Framed(G[k]))
          /\ \A i \in 1 .. Len(Framed(G[k])) : t[new[k - 1] + i] = Framed(G[k])[i]
    BY <1>4, <1>8
  <2>3. new \in [0 .. Len(G) -> 0 .. Len(t)] /\ new[0] = 0 /\ new[Len(G)] = Len(t)
    BY <1>4, <1>6
  <2> QED
    BY <2>1, <2>2, <2>3 DEF Spelled
<1> QED
  BY <1>9 DEF t, G, b

\* What the bytes begin with is the first frame, and the rest are the others.
LEMMA SpelledHead ==
  ASSUME NEW F \in Seq(Frames), NEW s \in Seq(Nat), Spelled(s, F), F # <<>>
  PROVE  /\ Head(F) \in Frames /\ Head(F) = F[1]
         /\ Len(Framed(Head(F))) <= Len(s)
         /\ \A i \in 1 .. Len(Framed(Head(F))) : s[i] = Framed(Head(F))[i]
<1>1. PICK off \in [0 .. Len(F) -> 0 .. Len(s)] :
        /\ off[0] = 0
        /\ \A k \in 1 .. Len(F) :
             /\ off[k] = off[k - 1] + Len(Framed(F[k]))
             /\ \A i \in 1 .. Len(Framed(F[k])) : s[off[k - 1] + i] = Framed(F[k])[i]
  BY DEF Spelled
<1>2. Len(F) \in Nat /\ 1 \in 1 .. Len(F) /\ Head(F) = F[1] /\ Head(F) \in Frames
  OBVIOUS
<1>3. Len(Framed(F[1])) \in Nat /\ Len(s) \in Nat
  BY <1>2, FramedProperties
<1>4. off[1] = off[0] + Len(Framed(F[1])) /\ off[1] \in 0 .. Len(s)
      /\ \A i \in 1 .. Len(Framed(F[1])) : s[off[0] + i] = Framed(F[1])[i]
  <2>1. 1 - 1 = 0 /\ 1 \in 0 .. Len(F)
    BY <1>2
  <2>2. off[1] \in 0 .. Len(s)
    BY <2>1
  <2>3. /\ off[1] = off[1 - 1] + Len(Framed(F[1]))
        /\ \A i \in 1 .. Len(Framed(F[1])) : s[off[1 - 1] + i] = Framed(F[1])[i]
    BY <1>1, <1>2
  <2> QED
    BY <2>1, <2>2, <2>3
<1>5. \A i \in 1 .. Len(Framed(F[1])) : s[i] = Framed(F[1])[i]
  BY <1>1, <1>3, <1>4
<1> QED
  BY <1>1, <1>2, <1>3, <1>4, <1>5

LEMMA SpelledTail ==
  ASSUME NEW F \in Seq(Frames), NEW a \in Seq(Nat), NEW b \in Seq(Nat), Spelled(a \o b, F),
         F # <<>>, Len(a) = Len(Framed(Head(F)))
  PROVE  a = Framed(Head(F)) /\ Spelled(b, Tail(F))
<1> DEFINE s == a \o b
           G == Tail(F)
           n == Len(F)
           m == Len(a)
<1>1. /\ s \in Seq(Nat) /\ Len(s) = m + Len(b)
      /\ \A i \in 1 .. m + Len(b) : s[i] = IF i <= m THEN a[i] ELSE b[i - m]
  BY ConcatProperties
<1>2. n \in Nat /\ n >= 1 /\ m \in Nat /\ Len(b) \in Nat
  OBVIOUS
<1>3. Head(F) = F[1] /\ Head(F) \in Frames /\ G \in Seq(Frames) /\ Len(G) = n - 1
      /\ \A k \in 1 .. n - 1 : G[k] = F[k + 1]
  BY HeadTailProperties
<1>4. a = Framed(Head(F))
  <2>1. \A i \in 1 .. m : s[i] = Framed(Head(F))[i]
    <3>1. Spelled(s, F)
      OBVIOUS
    <3> HIDE DEF s
    <3> QED
      BY <1>1, <3>1, SpelledHead
  <2>2. \A i \in 1 .. m : a[i] = s[i]
    BY <1>1, <1>2
  <2>3. Framed(Head(F)) \in Seq(Nat)
    BY <1>3, FramedProperties
  <2> QED
    BY <2>1, <2>2, <2>3, SeqEqual
<1>5. PICK off \in [0 .. n -> 0 .. Len(s)] :
        /\ off[0] = 0 /\ off[n] = Len(s)
        /\ \A j, k \in 0 .. n : j <= k => off[j] <= off[k]
        /\ \A k \in 1 .. n :
             /\ off[k] = off[k - 1] + Len(Framed(F[k]))
             /\ \A i \in 1 .. Len(Framed(F[k])) : s[off[k - 1] + i] = Framed(F[k])[i]
  BY DEF Spelled
<1>6. off[1] = m
  <2>1. 1 \in 1 .. n /\ 1 - 1 = 0
    BY <1>2
  <2>2. off[1] = off[0] + Len(Framed(F[1]))
    BY <1>5, <2>1
  <2> QED
    BY <1>2, <1>3, <1>5, <2>2
<1> DEFINE new == [k \in 0 .. n - 1 |-> off[k + 1] - m]
<1>7. \A k \in 1 .. n : off[k] \in Nat /\ off[k] >= m /\ off[k] <= m + Len(b)
  <2> SUFFICES ASSUME NEW k \in 1 .. n PROVE off[k] \in Nat /\ off[k] >= m /\ off[k] <= m + Len(b)
    OBVIOUS
  <2>1. k \in 0 .. n /\ 1 \in 0 .. n /\ 1 <= k
    BY <1>2
  <2>2. off[1] <= off[k] /\ off[k] \in 0 .. Len(s)
    BY <1>5, <2>1
  <2> QED
    BY <1>1, <1>2, <1>6, <2>2
<1> HIDE DEF s, G
<1>8. new \in [0 .. n - 1 -> 0 .. Len(b)]
  <2> SUFFICES ASSUME NEW k \in 0 .. n - 1 PROVE off[k + 1] - m \in 0 .. Len(b)
    OBVIOUS
  <2>1. k + 1 \in 1 .. n
    BY <1>2
  <2> QED
    BY <1>2, <1>7, <2>1
<1>9. new[0] = 0 /\ new[n - 1] = Len(b)
  <2>1. 0 \in 0 .. n - 1 /\ n - 1 \in 0 .. n - 1 /\ 0 + 1 = 1 /\ n - 1 + 1 = n
    BY <1>2
  <2>2. off[n] = m + Len(b) /\ off[1] - m = 0 /\ off[n] - m = Len(b)
    BY <1>1, <1>2, <1>5, <1>6
  <2> QED
    BY <2>1, <2>2
<1>10. ASSUME NEW j \in 0 .. n - 1, NEW k \in 0 .. n - 1, j <= k PROVE new[j] <= new[k]
  <2>1. j + 1 \in 1 .. n /\ k + 1 \in 1 .. n /\ j + 1 \in 0 .. n /\ k + 1 \in 0 .. n
        /\ j + 1 <= k + 1
    BY <1>2, <1>10
  <2>2. off[j + 1] <= off[k + 1] /\ off[j + 1] \in Nat /\ off[k + 1] \in Nat
    BY <1>5, <1>7, <2>1
  <2>3. off[j + 1] - m <= off[k + 1] - m
    BY <1>2, <2>2
  <2> QED
    BY <2>3
<1>11. ASSUME NEW k \in 1 .. n - 1
       PROVE  /\ new[k] = new[k - 1] + Len(Framed(G[k]))
              /\ \A i \in 1 .. Len(Framed(G[k])) : b[new[k - 1] + i] = Framed(G[k])[i]
  <2>1. k \in 0 .. n - 1 /\ k - 1 \in 0 .. n - 1 /\ k - 1 + 1 = k /\ k + 1 \in 1 .. n
        /\ k + 1 - 1 = k /\ k \in 1 .. n
    BY <1>2
  <2>2. new[k] = off[k + 1] - m /\ new[k - 1] = off[k] - m /\ G[k] = F[k + 1]
    BY <1>3, <2>1
  <2>3. /\ off[k + 1] = off[k] + Len(Framed(F[k + 1]))
        /\ \A i \in 1 .. Len(Framed(F[k + 1])) : s[off[k] + i] = Framed(F[k + 1])[i]
    <3>1. /\ off[k + 1] = off[k + 1 - 1] + Len(Framed(F[k + 1]))
          /\ \A i \in 1 .. Len(Framed(F[k + 1])) :
               s[off[k + 1 - 1] + i] = Framed(F[k + 1])[i]
      BY <1>5, <2>1
    <3> QED
      BY <2>1, <3>1
  <2>4. off[k] \in Nat /\ off[k] >= m /\ off[k + 1] \in Nat /\ off[k + 1] <= m + Len(b)
    BY <1>7, <2>1
  <2>5. Len(Framed(F[k + 1])) \in Nat
    BY <2>1, FramedProperties
  <2> HIDE DEF new
  <2>6. ASSUME NEW i \in 1 .. Len(Framed(F[k + 1]))
        PROVE  b[new[k - 1] + i] = Framed(F[k + 1])[i]
    <3> DEFINE x == off[k]
               y == off[k + 1]
               l == Len(Framed(F[k + 1]))
               z == Len(b)
    <3>1. /\ x \in Nat /\ x >= m /\ y = x + l /\ y <= m + z /\ l \in Nat /\ i \in 1 .. l
          /\ m \in Nat /\ z \in Nat
      BY <1>2, <2>3, <2>4, <2>5
    <3>2. s[x + i] = Framed(F[k + 1])[i] /\ new[k - 1] = x - m
      BY <2>2, <2>3
    <3>3. \A p \in 1 .. m + z : s[p] = IF p <= m THEN a[p] ELSE b[p - m]
      BY <1>1
    <3> HIDE DEF x, y, l, z, m
    <3>4. x + i \in 1 .. m + z /\ ~(x + i <= m) /\ x + i - m = x - m + i
      BY <3>1
    <3>5. s[x + i] = b[x + i - m]
      BY <3>1, <3>3, <3>4
    <3> QED
      BY <3>2, <3>4, <3>5
  <2>7. new[k] = new[k - 1] + Len(Framed(F[k + 1]))
    BY <1>2, <2>2, <2>3, <2>4, <2>5
  <2> QED
    BY <2>2, <2>6, <2>7
<1> HIDE DEF new
<1>12. Spelled(b, G)
  <2>1. \A j, k \in 0 .. Len(G) : j <= k => new[j] <= new[k]
    BY <1>3, <1>10 DEF G
  <2>2. \A k \in 1 .. Len(G) :
          /\ new[k] = new[k - 1] + Len(Framed(G[k]))
          /\ \A i \in 1 .. Len(Framed(G[k])) : b[new[k - 1] + i] = Framed(G[k])[i]
    BY <1>3, <1>11 DEF G
  <2>3. new \in [0 .. Len(G) -> 0 .. Len(b)] /\ new[0] = 0 /\ new[Len(G)] = Len(b)
    BY <1>3, <1>8, <1>9 DEF G
  <2> QED
    BY <2>1, <2>2, <2>3 DEF Spelled
<1> QED
  BY <1>4, <1>12 DEF G

LEMMA PartOfEmpty ==
  ASSUME NEW M
  PROVE  PartOf(<<>>, <<>>, M)
<1> DEFINE c == [k \in 0 .. 0 |-> 0]
<1>1. c \in [0 .. Len(<<>>) -> 0 .. Len(<<>>)] /\ c[0] = 0 /\ Len(<<>>) = 0
  OBVIOUS
<1>2. \A j, k \in 0 .. Len(<<>>) : j <= k => c[j] <= c[k]
  BY <1>1
<1>3. 1 .. Len(<<>>) = {}
  BY <1>1
<1> HIDE DEF c
<1> QED
  BY <1>1, <1>2, <1>3 DEF PartOf

\* One more frame, whose mode is in M.
LEMMA PartOfAppend ==
  ASSUME NEW F \in Seq(Frames), NEW P \in Seq(Frames), NEW M, PartOf(P, F, M),
         NEW f \in Frames, f.mode \in M
  PROVE  PartOf(Append(P, f), Append(F, f), M)
<1>1. PICK c \in [0 .. Len(F) -> 0 .. Len(P)] :
        /\ c[0] = 0 /\ c[Len(F)] = Len(P)
        /\ \A j, k \in 0 .. Len(F) : j <= k => c[j] <= c[k]
        /\ \A k \in 1 .. Len(F) :
             IF F[k].mode \in M THEN c[k] = c[k - 1] + 1 /\ P[c[k]] = F[k] ELSE c[k] = c[k - 1]
  BY DEF PartOf
<1> DEFINE n == Len(F)
           l == Len(P)
           G == Append(F, f)
           Q == Append(P, f)
           new == [k \in 0 .. n + 1 |-> IF k <= n THEN c[k] ELSE l + 1]
<1>2. n \in Nat /\ l \in Nat
  OBVIOUS
<1>3. Len(G) = n + 1 /\ (\A k \in 1 .. n : G[k] = F[k]) /\ G[n + 1] = f
  BY <1>2, AppendProperties
<1>4. Len(Q) = l + 1 /\ (\A k \in 1 .. l : Q[k] = P[k]) /\ Q[l + 1] = f
  BY <1>2, AppendProperties
<1>5. c \in [0 .. n -> 0 .. l] /\ c[0] = 0 /\ c[n] = l
  BY <1>1
<1> HIDE DEF G, Q, n, l
<1>6. new \in [0 .. n + 1 -> 0 .. l + 1] /\ new[0] = 0 /\ new[n + 1] = l + 1
  BY <1>2, <1>5
<1>7. \A k \in 0 .. n : new[k] = c[k] /\ c[k] \in 0 .. l
  BY <1>2, <1>5
<1> HIDE DEF new
<1>8. ASSUME NEW j \in 0 .. n + 1, NEW k \in 0 .. n + 1, j <= k
      PROVE  new[j] <= new[k]
  <2>1. CASE k <= n
    <3>1. j \in 0 .. n /\ k \in 0 .. n
      BY <1>2, <1>8, <2>1
    <3> QED
      BY <1>1, <1>7, <1>8, <3>1 DEF n
  <2>2. CASE k = n + 1
    BY <1>2, <1>6, <2>2
  <2>3. k <= n \/ k = n + 1
    BY <1>2
  <2> QED
    BY <2>1, <2>2, <2>3
<1>9. ASSUME NEW k \in 1 .. n + 1
      PROVE  IF G[k].mode \in M THEN new[k] = new[k - 1] + 1 /\ Q[new[k]] = G[k]
             ELSE new[k] = new[k - 1]
  <2>1. CASE k <= n
    <3>1. k \in 1 .. n /\ k \in 0 .. n /\ k - 1 \in 0 .. n
      BY <1>2, <2>1
    <3>2. /\ new[k] = c[k] /\ new[k - 1] = c[k - 1] /\ G[k] = F[k]
          /\ c[k] \in 0 .. l /\ c[k - 1] \in 0 .. l
      BY <1>3, <1>7, <3>1
    <3>3. IF F[k].mode \in M THEN c[k] = c[k - 1] + 1 /\ P[c[k]] = F[k] ELSE c[k] = c[k - 1]
      BY <1>1, <3>1 DEF n
    <3>4. F[k].mode \in M => Q[c[k]] = P[c[k]]
      <4>1. F[k].mode \in M => c[k] \in 1 .. l
        BY <1>2, <3>2, <3>3
      <4> QED
        BY <1>4, <4>1
    <3> QED
      BY <3>2, <3>3, <3>4
  <2>2. CASE k = n + 1
    <3>1. k - 1 = n /\ n \in 0 .. n
      BY <1>2, <2>2
    <3> QED
      BY <1>3, <1>4, <1>5, <1>6, <1>7, <2>2, <3>1
  <2>3. k <= n \/ k = n + 1
    BY <1>2
  <2> QED
    BY <2>1, <2>2, <2>3
<1>10. PartOf(Q, G, M)
  <2>1. \A j, k \in 0 .. Len(G) : j <= k => new[j] <= new[k]
    BY <1>3, <1>8
  <2>2. \A k \in 1 .. Len(G) :
          IF G[k].mode \in M THEN new[k] = new[k - 1] + 1 /\ Q[new[k]] = G[k]
          ELSE new[k] = new[k - 1]
    BY <1>3, <1>9
  <2>3. new \in [0 .. Len(G) -> 0 .. Len(Q)] /\ new[0] = 0 /\ new[Len(G)] = Len(Q)
    BY <1>3, <1>4, <1>6
  <2> QED
    BY <2>1, <2>2, <2>3 DEF PartOf
<1> QED
  BY <1>10 DEF G, Q

\* One more frame, whose mode is not in M.
LEMMA PartOfSkip ==
  ASSUME NEW F \in Seq(Frames), NEW P \in Seq(Frames), NEW M, PartOf(P, F, M),
         NEW f \in Frames, f.mode \notin M
  PROVE  PartOf(P, Append(F, f), M)
<1>1. PICK c \in [0 .. Len(F) -> 0 .. Len(P)] :
        /\ c[0] = 0 /\ c[Len(F)] = Len(P)
        /\ \A j, k \in 0 .. Len(F) : j <= k => c[j] <= c[k]
        /\ \A k \in 1 .. Len(F) :
             IF F[k].mode \in M THEN c[k] = c[k - 1] + 1 /\ P[c[k]] = F[k] ELSE c[k] = c[k - 1]
  BY DEF PartOf
<1> DEFINE n == Len(F)
           l == Len(P)
           G == Append(F, f)
           new == [k \in 0 .. n + 1 |-> IF k <= n THEN c[k] ELSE l]
<1>2. n \in Nat /\ l \in Nat
  OBVIOUS
<1>3. Len(G) = n + 1 /\ (\A k \in 1 .. n : G[k] = F[k]) /\ G[n + 1] = f
  BY <1>2, AppendProperties
<1>5. c \in [0 .. n -> 0 .. l] /\ c[0] = 0 /\ c[n] = l
  BY <1>1
<1> HIDE DEF G, n, l
<1>6. new \in [0 .. n + 1 -> 0 .. l] /\ new[0] = 0 /\ new[n + 1] = l
  BY <1>2, <1>5
<1>7. \A k \in 0 .. n : new[k] = c[k] /\ c[k] \in 0 .. l
  BY <1>2, <1>5
<1> HIDE DEF new
<1>8. ASSUME NEW j \in 0 .. n + 1, NEW k \in 0 .. n + 1, j <= k
      PROVE  new[j] <= new[k]
  <2>1. CASE k <= n
    <3>1. j \in 0 .. n /\ k \in 0 .. n
      BY <1>2, <1>8, <2>1
    <3> QED
      BY <1>1, <1>7, <1>8, <3>1 DEF n
  <2>2. CASE k = n + 1
    BY <1>2, <1>6, <2>2
  <2>3. k <= n \/ k = n + 1
    BY <1>2
  <2> QED
    BY <2>1, <2>2, <2>3
<1>9. ASSUME NEW k \in 1 .. n + 1
      PROVE  IF G[k].mode \in M THEN new[k] = new[k - 1] + 1 /\ P[new[k]] = G[k]
             ELSE new[k] = new[k - 1]
  <2>1. CASE k <= n
    <3>1. k \in 1 .. n /\ k \in 0 .. n /\ k - 1 \in 0 .. n
      BY <1>2, <2>1
    <3>2. new[k] = c[k] /\ new[k - 1] = c[k - 1] /\ G[k] = F[k]
      BY <1>3, <1>7, <3>1
    <3>3. IF F[k].mode \in M THEN c[k] = c[k - 1] + 1 /\ P[c[k]] = F[k] ELSE c[k] = c[k - 1]
      BY <1>1, <3>1 DEF n
    <3> QED
      BY <3>2, <3>3
  <2>2. CASE k = n + 1
    <3>1. k - 1 = n /\ n \in 0 .. n
      BY <1>2, <2>2
    <3> QED
      BY <1>3, <1>5, <1>6, <1>7, <2>2, <3>1
  <2>3. k <= n \/ k = n + 1
    BY <1>2
  <2> QED
    BY <2>1, <2>2, <2>3
<1>10. PartOf(P, G, M)
  <2>1. \A j, k \in 0 .. Len(G) : j <= k => new[j] <= new[k]
    BY <1>3, <1>8
  <2>2. \A k \in 1 .. Len(G) :
          IF G[k].mode \in M THEN new[k] = new[k - 1] + 1 /\ P[new[k]] = G[k]
          ELSE new[k] = new[k - 1]
    BY <1>3, <1>9
  <2>3. new \in [0 .. Len(G) -> 0 .. Len(P)] /\ new[0] = 0 /\ new[Len(G)] = Len(P)
    BY <1>3, <1>6 DEF l
  <2> QED
    BY <2>1, <2>2, <2>3 DEF PartOf
<1> QED
  BY <1>10 DEF G

\* The first frame is gone: it was the first of P, if its mode is in M.
LEMMA PartOfTail ==
  ASSUME NEW F \in Seq(Frames), NEW P \in Seq(Frames), NEW M, PartOf(P, F, M), F # <<>>
  PROVE  IF Head(F).mode \in M
         THEN P # <<>> /\ Head(P) = Head(F) /\ PartOf(Tail(P), Tail(F), M)
         ELSE PartOf(P, Tail(F), M)
<1> DEFINE n == Len(F)
           l == Len(P)
           G == Tail(F)
           Q == IF Head(F).mode \in M THEN Tail(P) ELSE P
           d == IF Head(F).mode \in M THEN 1 ELSE 0
<1>1. PICK c \in [0 .. n -> 0 .. l] :
        /\ c[0] = 0 /\ c[n] = l
        /\ \A j, k \in 0 .. n : j <= k => c[j] <= c[k]
        /\ \A k \in 1 .. n :
             IF F[k].mode \in M THEN c[k] = c[k - 1] + 1 /\ P[c[k]] = F[k] ELSE c[k] = c[k - 1]
  BY DEF PartOf
<1>2. n \in Nat /\ n >= 1 /\ l \in Nat
  OBVIOUS
<1>3. Head(F) = F[1] /\ G \in Seq(Frames) /\ Len(G) = n - 1 /\ \A k \in 1 .. n - 1 : G[k] = F[k + 1]
  BY HeadTailProperties
<1>4. c[1] = d
  <2>1. 1 \in 1 .. n /\ 1 - 1 = 0
    BY <1>2
  <2> QED
    BY <1>1, <1>3, <2>1
<1>5. Head(F).mode \in M => P # <<>> /\ Head(P) = Head(F)
  <2> SUFFICES ASSUME Head(F).mode \in M PROVE P # <<>> /\ Head(P) = Head(F)
    OBVIOUS
  <2>1. 1 \in 1 .. n /\ 1 \in 0 .. n
    BY <1>2
  <2>2. c[1] = 1 /\ c[1] \in 0 .. l /\ P[c[1]] = F[1]
    BY <1>1, <1>3, <1>4, <2>1
  <2>3. l >= 1
    BY <2>2
  <2>4. P # <<>> /\ Head(P) = P[1]
    BY <2>3
  <2> QED
    BY <1>3, <2>2, <2>4
<1>6. Q \in Seq(Frames) /\ Len(Q) = l - d /\ \A i \in 1 .. l - d : Q[i] = P[i + d]
  <2>1. CASE Head(F).mode \in M
    <3>1. /\ Tail(P) \in Seq(Frames) /\ Len(Tail(P)) = l - 1
          /\ \A i \in 1 .. l - 1 : Tail(P)[i] = P[i + 1]
      BY <1>5, <2>1, HeadTailProperties
    <3> QED
      BY <2>1, <3>1
  <2>2. CASE Head(F).mode \notin M
    BY <1>2, <2>2
  <2> QED
    BY <2>1, <2>2
<1>7. d \in 0 .. 1
  OBVIOUS
<1> DEFINE new == [k \in 0 .. n - 1 |-> c[k + 1] - d]
<1>8. \A k \in 1 .. n : c[k] \in Nat /\ c[k] >= d /\ c[k] <= l
  <2> SUFFICES ASSUME NEW k \in 1 .. n PROVE c[k] \in Nat /\ c[k] >= d /\ c[k] <= l
    OBVIOUS
  <2>1. k \in 0 .. n /\ 1 \in 0 .. n /\ 1 <= k
    BY <1>2
  <2>2. c[1] <= c[k] /\ c[k] \in 0 .. l
    BY <1>1, <2>1
  <2> QED
    BY <1>2, <1>4, <2>2
<1> HIDE DEF n, l, G, Q, d
<1>9. \A k \in 0 .. n - 1 : /\ new[k] = c[k + 1] - d /\ new[k] \in 0 .. l - d
                            /\ c[k + 1] \in Nat /\ c[k + 1] >= d /\ c[k + 1] <= l
  <2> SUFFICES ASSUME NEW k \in 0 .. n - 1
               PROVE  /\ c[k + 1] - d \in 0 .. l - d
                      /\ c[k + 1] \in Nat /\ c[k + 1] >= d /\ c[k + 1] <= l
    OBVIOUS
  <2>1. k + 1 \in 1 .. n
    BY <1>2
  <2> QED
    BY <1>2, <1>7, <1>8, <2>1
<1>10. new \in [0 .. n - 1 -> 0 .. l - d]
  BY <1>9
<1>11. new[0] = 0 /\ new[n - 1] = l - d
  <2>1. 0 \in 0 .. n - 1 /\ n - 1 \in 0 .. n - 1 /\ 0 + 1 = 1 /\ n - 1 + 1 = n
    BY <1>2
  <2>2. new[0] = c[0 + 1] - d /\ new[n - 1] = c[n - 1 + 1] - d
    BY <1>9, <2>1
  <2>3. c[1] - d = 0 /\ c[n] - d = l - d
    BY <1>1, <1>4, <1>7
  <2> QED
    BY <2>1, <2>2, <2>3
<1> HIDE DEF new
<1>12. ASSUME NEW j \in 0 .. n - 1, NEW k \in 0 .. n - 1, j <= k PROVE new[j] <= new[k]
  <2>1. j + 1 \in 0 .. n /\ k + 1 \in 0 .. n /\ j + 1 <= k + 1
    BY <1>2, <1>12
  <2>2. c[j + 1] <= c[k + 1]
    BY <1>1, <2>1
  <2>3. new[j] = c[j + 1] - d /\ new[k] = c[k + 1] - d /\ c[j + 1] \in Nat /\ c[k + 1] \in Nat
    BY <1>9
  <2> QED
    BY <1>7, <2>2, <2>3
<1>13. ASSUME NEW k \in 1 .. n - 1
       PROVE  IF G[k].mode \in M THEN new[k] = new[k - 1] + 1 /\ Q[new[k]] = G[k]
              ELSE new[k] = new[k - 1]
  <2>1. /\ k \in 0 .. n - 1 /\ k - 1 \in 0 .. n - 1 /\ k - 1 + 1 = k /\ k + 1 \in 1 .. n
        /\ k + 1 - 1 = k
    BY <1>2
  <2>2. /\ new[k] = c[k + 1] - d /\ new[k - 1] = c[k] - d /\ G[k] = F[k + 1]
        /\ c[k + 1] \in Nat /\ c[k] \in Nat /\ c[k] >= d /\ c[k + 1] <= l
    <3>1. new[k - 1] = c[k - 1 + 1] - d /\ c[k - 1 + 1] \in Nat /\ c[k - 1 + 1] >= d
      BY <1>9, <2>1
    <3>2. new[k] = c[k + 1] - d /\ c[k + 1] \in Nat /\ c[k + 1] <= l
      BY <1>9, <2>1
    <3> QED
      BY <1>3, <2>1, <3>1, <3>2
  <2>3. IF F[k + 1].mode \in M THEN c[k + 1] = c[k] + 1 /\ P[c[k + 1]] = F[k + 1]
        ELSE c[k + 1] = c[k]
    <3>1. IF F[k + 1].mode \in M THEN c[k + 1] = c[k + 1 - 1] + 1 /\ P[c[k + 1]] = F[k + 1]
          ELSE c[k + 1] = c[k + 1 - 1]
      BY <1>1, <2>1
    <3> QED
      BY <2>1, <3>1
  <2>4. CASE F[k + 1].mode \in M
    <3>1. c[k + 1] - d \in 1 .. l - d /\ c[k + 1] - d + d = c[k + 1] /\ c[k + 1] - d = c[k] - d + 1
      <4> DEFINE x == c[k]
                 y == c[k + 1]
      <4>1. x \in Nat /\ y \in Nat /\ y = x + 1 /\ x >= d /\ y <= l /\ d \in 0 .. 1 /\ l \in Nat
        BY <1>2, <1>7, <2>2, <2>3, <2>4
      <4> HIDE DEF x, y
      <4>2. y - d \in 1 .. l - d /\ y - d + d = y /\ y - d = x - d + 1
        BY <4>1
      <4> QED
        BY <4>2 DEF x, y
    <3>2. Q[c[k + 1] - d] = P[c[k + 1]]
      BY <1>6, <3>1
    <3> QED
      BY <2>2, <2>3, <2>4, <3>1, <3>2
  <2>5. CASE F[k + 1].mode \notin M
    BY <2>2, <2>3, <2>5
  <2> QED
    BY <2>4, <2>5
<1>14. PartOf(Q, G, M)
  <2>1. \A j, k \in 0 .. Len(G) : j <= k => new[j] <= new[k]
    BY <1>3, <1>12
  <2>2. \A k \in 1 .. Len(G) :
          IF G[k].mode \in M THEN new[k] = new[k - 1] + 1 /\ Q[new[k]] = G[k]
          ELSE new[k] = new[k - 1]
    BY <1>3, <1>13
  <2>3. new \in [0 .. Len(G) -> 0 .. Len(Q)] /\ new[0] = 0 /\ new[Len(G)] = Len(Q)
    BY <1>3, <1>6, <1>10, <1>11
  <2> QED
    BY <2>1, <2>2, <2>3 DEF PartOf
<1> QED
  BY <1>5, <1>14 DEF G, Q

-----------------------------------------------------------------------------
(* The ring buffer *)

\* Places in the main loop where it works on the count, a header, the count after
\* a header, and a chunk; `Elsewhere' nothing of that is under way.
InHeader == pc \in {"mode", "modeStore", "check", "skip", "skipStore"}
InCount == pc \in {"sub", "subStore"}
InChunk == pc \in {"take", "move", "moveStore"}
Elsewhere == {"top", "poll", "length", "buffer", "data", "count", "cdc", "zlp", "other"}

RingType == [buf : [Pointer -> Nat], in : Pointer, out : Pointer]
FrameType ==
  [started : BOOLEAN, mode : Modes \cup {IO_NONE}, remaining : Nat, discard : BOOLEAN]
RegsType == [mode : Modes \cup {IO_NONE}, value : Nat]
LeftType == [{"frames", "commands", "packets", "resets", "clears", "lost", "window"} -> Nat]

BridgeTypes ==
  /\ outq \in Seq(Nat)
  /\ wire \in {<<>>} \cup {<<b>> : b \in Nat}
  /\ cts \in BOOLEAN
  /\ ring \in RingType
  /\ byteCount \in Nat
  /\ frame \in FrameType
  /\ dataAvailable \subseteq Modes \cup {IO_NONE}
  /\ regs \in RegsType
  /\ pc \in {"countOut", "skipStore", "moveStore"} => regs.value \in Pointer
  /\ torn \in BOOLEAN
  /\ left \in LeftType

\* At most one chunk waits in FrameBuf, for the endpoint of the frame that is
\* being copied; a bus reset forgets that endpoint but not the chunk.
OnePending ==
  \A m \in dataAvailable :
    /\ dataAvailable = {m}
    /\ frame.started
    /\ frame.discard <=> m = IO_NONE
    /\ m = IO_NONE \/ frame.mode \in {m, IO_NONE}
    /\ pc = "copy" => m = IO_NONE \/ regs.mode \in {m, IO_NONE}

\* The mode in the register and the one in memory differ only by a bus reset.
ModeIsOld ==
  /\ InHeader \/ InCount \/ pc = "begin" => ~frame.started
  /\ pc \in {"check", "skip", "skipStore", "sub", "subStore", "begin", "copy"}
       => frame.mode \in {regs.mode, IO_NONE}
  /\ InChunk =>
       /\ frame.started /\ dataAvailable = {}
       /\ frame.discard <=> regs.mode = IO_NONE
       /\ regs.mode = IO_NONE \/ frame.mode \in {regs.mode, IO_NONE}
  /\ pc = "resume" => dataAvailable # {}

\* The count the main loop works with is old, but only ever too small, and the
\* output pointer it is about to store is the one it computed from the ring.
CountIsOld ==
  /\ pc = "countOut" => uart_byte_count(regs.value, ring.out) <= Fill
  /\ pc = "countStore" => regs.value <= Fill
  /\ pc \in {"header", "begin", "copy"} => byteCount <= Fill
  /\ InHeader => 2 <= byteCount /\ byteCount <= Fill
  /\ pc = "skipStore" => regs.value = increment_pointer(ring.out, 2)
  /\ InCount => 2 <= byteCount /\ byteCount <= Fill + 2
  /\ pc = "subStore" => regs.value = byteCount - 2
  /\ InChunk => Chunk <= Fill
  /\ pc = "moveStore" => regs.value = increment_pointer(ring.out, Chunk)

\* How full the ring gets if nothing more is read: when clear-to-send is given,
\* CTS_STOP_AT bytes and one that was committed; Rise(n) is what giving it with n
\* bytes in the ring comes to.
Rise(n) == IF n >= CTS_STOP_AT THEN n + 2 ELSE CTS_STOP_AT + 1
Peak == IF cts THEN Fill + Len(wire) ELSE Rise(Fill)

\* A header that was read leaves room that is used up once: after it, a chunk
\* gives clear-to-send back although it may have been empty.
LastChunk == frame.remaining = 0 /\ dataAvailable # {}
HeaderCredit ==
  IF (frame.started \/ InCount \/ pc = "begin") /\ ~LastChunk
  THEN (IF frame.remaining = 0 THEN 2 ELSE 1) ELSE 0

\* At "resume" clear-to-send is about to be given.
Bound == (IF pc = "resume" THEN Rise(Peak) ELSE Peak) + HeaderCredit
RingBound == Bound <= CTS_STOP_AT + 4

RingInv ==
  /\ BridgeTypes /\ OnePending /\ ModeIsOld
  /\ ~torn => CountIsOld /\ RingBound


LEMMA WrapsBelow ==
  ASSUME NEW x \in Nat, NEW s \in Nat \ {0}, x < s
  PROVE  x % s = x
OBVIOUS

LEMMA WrapsAbove ==
  ASSUME NEW x \in Nat, NEW s \in Nat \ {0}, x >= s, x < 2 * s
  PROVE  x % s = x - s
OBVIOUS

\* A pointer that moves on by less than the buffer, with the wrap spelled out.
LEMMA MovesOn ==
  ASSUME NEW p \in Pointer, NEW n \in Nat, n < UART_RX_BUF_SIZE
  PROVE  /\ increment_pointer(p, n) \in Pointer
         /\ increment_pointer(p, n) = IF p + n < UART_RX_BUF_SIZE THEN p + n
                                      ELSE p + n - UART_RX_BUF_SIZE
<1>1. /\ UART_RX_BUF_SIZE \in Nat \ {0}
      /\ p \in Nat /\ p < UART_RX_BUF_SIZE /\ p + n \in Nat /\ p + n < 2 * UART_RX_BUF_SIZE
  BY SizeAssumption DEF Pointer
<1>2. CASE p + n < UART_RX_BUF_SIZE
  <2>1. (p + n) % UART_RX_BUF_SIZE = p + n
    BY <1>1, <1>2, WrapsBelow
  <2> QED
    BY <1>1, <1>2, <2>1 DEF increment_pointer, Pointer
<1>3. CASE p + n >= UART_RX_BUF_SIZE
  <2>1. (p + n) % UART_RX_BUF_SIZE = p + n - UART_RX_BUF_SIZE
    <3> DEFINE x == p + n
    <3>1. x \in Nat /\ x >= UART_RX_BUF_SIZE /\ x < 2 * UART_RX_BUF_SIZE
      BY <1>1, <1>3
    <3> HIDE DEF x
    <3>2. x % UART_RX_BUF_SIZE = x - UART_RX_BUF_SIZE
      BY <3>1, <1>1, WrapsAbove
    <3> QED
      BY <3>2, <1>1 DEF x
  <2> QED
    BY <1>1, <1>3, <2>1 DEF increment_pointer, Pointer
<1> QED
  BY <1>1, <1>2, <1>3

LEMMA Sizes ==
  /\ UART_RX_BUF_SIZE \in Nat /\ CTS_STOP_AT \in Nat /\ MAX_FRAME_SIZE \in Nat
  /\ 2 <= MAX_FRAME_SIZE /\ MAX_FRAME_SIZE + 2 <= CTS_STOP_AT
  /\ CTS_STOP_AT + 4 < UART_RX_BUF_SIZE /\ UART_RX_BUF_SIZE <= 256
BY SizeAssumption DEF FirstPayload

LEMMA PointerMoves ==
  ASSUME NEW p \in Pointer, NEW n \in Nat
  PROVE  increment_pointer(p, n) \in Pointer
<1>1. UART_RX_BUF_SIZE \in Nat \ {0} /\ p + n \in Nat
  BY Sizes DEF Pointer
<1>2. (p + n) % UART_RX_BUF_SIZE \in 0 .. UART_RX_BUF_SIZE - 1
  BY <1>1
<1> QED
  BY <1>2 DEF increment_pointer, Pointer

LEMMA FillIsNat ==
  ASSUME NEW in \in Pointer, NEW out \in Pointer
  PROVE  /\ uart_byte_count(in, out) \in Nat
         /\ uart_byte_count(in, out) < UART_RX_BUF_SIZE
BY Sizes DEF uart_byte_count, Pointer

LEMMA FillAfterByte ==
  ASSUME NEW in \in Pointer, NEW out \in Pointer, uart_byte_count(in, out) + 1 < UART_RX_BUF_SIZE
  PROVE  uart_byte_count(increment_pointer(in, 1), out) = uart_byte_count(in, out) + 1
<1>1. increment_pointer(in, 1) = IF in + 1 < UART_RX_BUF_SIZE THEN in + 1
                                 ELSE in + 1 - UART_RX_BUF_SIZE
  BY MovesOn, Sizes
<1> QED
  BY <1>1, Sizes DEF uart_byte_count, Pointer

LEMMA FillAfterRead ==
  ASSUME NEW in \in Pointer, NEW out \in Pointer, NEW n \in Nat, n <= uart_byte_count(in, out)
  PROVE  /\ n < UART_RX_BUF_SIZE
         /\ uart_byte_count(in, increment_pointer(out, n)) = uart_byte_count(in, out) - n
<1>1. n < UART_RX_BUF_SIZE
  BY FillIsNat, Sizes
<1>2. increment_pointer(out, n) = IF out + n < UART_RX_BUF_SIZE THEN out + n
                                  ELSE out + n - UART_RX_BUF_SIZE
  BY <1>1, MovesOn
<1> QED
  BY <1>1, <1>2, Sizes DEF uart_byte_count, Pointer

LEMMA BytesAreNats ==
  /\ Modes \subseteq Nat /\ Keeps \subseteq Nat /\ SET_ENDPOINTS \in Nat
  /\ \A m \in Modes \ {IO_CH552} : FrameLens[m] \subseteq 1 .. MAX_FRAME_SIZE
  /\ \A e \in Endpoints : PacketLens[e] \subseteq 0 .. MAX_FRAME_SIZE
BY InputAssumption DEF Modes, IO_CH552, IO_CDC, IO_FIDO, IO_CCID, IO_DEBUG, SET_ENDPOINTS

LEMMA PayloadIsBytes ==
  ASSUME NEW n \in Nat, NEW len \in Nat
  PROVE  Payload(n, len) \in Seq(Nat) /\ Len(Payload(n, len)) = len
<1>1. \A i \in 1 .. len : FirstPayload + MAX_FRAME_SIZE * n + i \in Nat
  BY Sizes DEF FirstPayload
<1> QED
  BY <1>1, IsASeq, LenProperties DEF Payload

LEMMA RingTypes ==
  ASSUME BridgeTypes
  PROVE  /\ ring.in \in Pointer /\ ring.out \in Pointer /\ ring.buf \in [Pointer -> Nat]
         /\ Fill \in Nat /\ Fill < UART_RX_BUF_SIZE
         /\ Len(wire) \in 0 .. 1
         /\ frame.started \in BOOLEAN /\ frame.mode \in Modes \cup {IO_NONE}
         /\ frame.remaining \in Nat /\ frame.discard \in BOOLEAN
         /\ regs.mode \in Modes \cup {IO_NONE} /\ regs.value \in Nat
<1>1. ring.in \in Pointer /\ ring.out \in Pointer /\ ring.buf \in [Pointer -> Nat]
  BY DEF BridgeTypes, RingType
<1>2. Fill \in Nat /\ Fill < UART_RX_BUF_SIZE
  BY <1>1, FillIsNat DEF Fill
<1>3. Len(wire) \in 0 .. 1
  BY DEF BridgeTypes
<1> QED
  BY <1>1, <1>2, <1>3 DEF BridgeTypes, FrameType, RegsType

LEMMA ChunkTypes ==
  ASSUME frame.remaining \in Nat
  PROVE  /\ Chunk \in Nat /\ Chunk <= frame.remaining
         /\ Chunk = frame.remaining \/ Chunk >= 2
BY Sizes DEF Chunk, Min2

LEMMA BoundTypes ==
  ASSUME BridgeTypes
  PROVE  /\ Peak \in Nat /\ Rise(Peak) \in Nat /\ Rise(Peak) >= Peak
         /\ Rise(Fill) \in Nat /\ Peak >= Fill /\ Rise(Peak) >= Rise(Fill)
         /\ HeaderCredit \in 0 .. 2
<1>1. Fill \in Nat /\ Len(wire) \in 0 .. 1
  BY RingTypes
<1>2. HeaderCredit \in 0 .. 2
  BY DEF HeaderCredit
<1> DEFINE f == Fill
           w == Len(wire)
           k == Peak
<1>3. k = (IF cts THEN f + w ELSE Rise(f))
  BY DEF Peak
<1>4. f \in Nat /\ w \in 0 .. 1
  BY <1>1
<1> HIDE DEF f, w, k
<1>5. k \in Nat /\ Rise(k) \in Nat /\ Rise(k) >= k /\ Rise(f) \in Nat /\ k >= f /\ Rise(k) >= Rise(f)
  BY <1>3, <1>4, Sizes DEF Rise
<1> QED
  BY <1>2, <1>5 DEF f, k

\* A step that does not touch the ring, and after which no more credit is left.
LEMMA SameBound ==
  ASSUME RingInv, BridgeTypes', UNCHANGED <<wire, uartvars, torn>>, pc # "resume", pc' # "resume",
         HeaderCredit' = HeaderCredit \/ HeaderCredit' = 0,
         OnePending', ModeIsOld', ~torn => CountIsOld'
  PROVE  RingInv'
<1>1. Peak' = Peak
  BY DEF Peak, Fill, uartvars
<1>2. Peak \in Nat /\ HeaderCredit \in 0 .. 2
  BY BoundTypes DEF RingInv
<1>3. Bound = Peak + HeaderCredit /\ Bound' = Peak + HeaderCredit'
  BY <1>1 DEF Bound
<1>4. ASSUME ~torn
      PROVE  RingBound'
  <2> DEFINE k == Peak
             h == HeaderCredit
             j == HeaderCredit'
  <2>1. k + h <= CTS_STOP_AT + 4
    BY <1>3, <1>4 DEF RingInv, RingBound
  <2>2. k \in Nat /\ h \in 0 .. 2 /\ (j = h \/ j = 0)
    BY <1>2
  <2> HIDE DEF k, h, j
  <2>3. k + j <= CTS_STOP_AT + 4
    BY <2>1, <2>2, Sizes
  <2> QED
    BY <1>3, <2>3 DEF RingBound, k, j
<1> QED
  BY <1>4 DEF RingInv

\* Init and a software reset leave the ring empty and nothing pending.
LEMMA EmptyRingInv ==
  ASSUME outq' \in Seq(Nat), left' \in LeftType,
         wire' = <<>>, cts' = FALSE, ring' = EmptyRing, byteCount' = 0, frame' = NoFrame,
         dataAvailable' = {}, pc' = "top", regs' = NoRegs, torn' = FALSE
  PROVE  RingInv'
<1>1. ring' \in RingType /\ ring'.in = 0 /\ ring'.out = 0
  BY Sizes DEF EmptyRing, Pointer, RingType
<1>2. frame' \in FrameType /\ ~frame'.started
  BY DEF NoFrame, FrameType
<1>3. regs' \in RegsType
  BY DEF NoRegs, RegsType
<1>4. BridgeTypes'
  BY <1>1, <1>2, <1>3 DEF BridgeTypes
<1>5. Fill' = 0
  BY <1>1 DEF Fill, uart_byte_count
<1>6. Peak' = CTS_STOP_AT + 1 /\ HeaderCredit' = 0
  BY <1>2, <1>5, Sizes DEF Peak, Rise, HeaderCredit, InCount
<1>7. RingBound'
  BY <1>6, Sizes DEF RingBound, Bound
<1>8. CountIsOld' /\ ModeIsOld' /\ OnePending'
  BY DEF CountIsOld, ModeIsOld, OnePending, InHeader, InCount, InChunk
<1> QED
  BY <1>4, <1>7, <1>8 DEF RingInv

\* A step that leaves the parser alone.
LEMMA OtherStep ==
  ASSUME RingInv, outq' \in Seq(Nat), left' \in LeftType,
         UNCHANGED <<wire, uartvars, byteCount, frame, dataAvailable, regs, torn>>,
         pc' = pc \/ {pc, pc'} \subseteq Elsewhere
  PROVE  RingInv'
<1>1. Fill' = Fill /\ Peak' = Peak
  BY DEF Peak, Fill, uartvars
<1>2. CASE pc' = pc
  <2>1. BridgeTypes' /\ OnePending' /\ ModeIsOld'
    BY <1>2 DEF RingInv, BridgeTypes, OnePending, ModeIsOld, InHeader, InCount, InChunk, uartvars
  <2>2. CountIsOld => CountIsOld'
    BY <1>1, <1>2 DEF CountIsOld, InHeader, InCount, InChunk, Chunk, uartvars
  <2>3. Bound' = Bound
    BY <1>1, <1>2 DEF Bound, HeaderCredit, LastChunk, InCount
  <2> QED
    BY <2>1, <2>2, <2>3 DEF RingInv, RingBound
<1>3. CASE {pc, pc'} \subseteq Elsewhere
  <2>1. BridgeTypes' /\ OnePending' /\ ModeIsOld' /\ CountIsOld'
    BY <1>3 DEF RingInv, BridgeTypes, OnePending, ModeIsOld, CountIsOld, InHeader, InCount,
                InChunk, uartvars, Elsewhere
  <2>2. HeaderCredit' = HeaderCredit /\ pc # "resume" /\ pc' # "resume"
    BY <1>3 DEF HeaderCredit, LastChunk, InCount, Elsewhere
  <2> QED
    BY <2>1, <2>2, SameBound
<1> QED
  BY <1>2, <1>3

\* The interrupt: room for its byte, and the peak does not move.
LEMMA ByteArrives ==
  ASSUME RingInv, Uart1_ISR
  PROVE  RingInv' /\ (~torn => Fill' = Fill + 1)
<1>1. /\ ring.in \in Pointer /\ ring.out \in Pointer
      /\ ring \in RingType
      /\ Head(wire) \in Nat /\ Len(wire) = 1 /\ cts \in BOOLEAN
  BY DEF RingInv, BridgeTypes, Uart1_ISR, RingType
<1>2. Fill \in Nat /\ Fill' \in Nat
  <2>1. increment_pointer(ring.in, 1) \in Pointer
    BY <1>1, PointerMoves
  <2>2. ring'.in = increment_pointer(ring.in, 1) /\ ring'.out = ring.out
    BY <1>1 DEF Uart1_ISR, increment_pointer, RingType
  <2> QED
    BY <1>1, <2>1, <2>2, FillIsNat DEF Fill
<1>3. ~torn => Fill + 1 < UART_RX_BUF_SIZE
  <2> SUFFICES ASSUME ~torn PROVE Fill + 1 < UART_RX_BUF_SIZE
    OBVIOUS
  <2>1. Peak + HeaderCredit <= CTS_STOP_AT + 4
    <3>1. Bound <= CTS_STOP_AT + 4 /\ Peak \in Nat /\ HeaderCredit \in Nat
          /\ Rise(Peak) >= Peak /\ Rise(Peak) \in Nat
      BY BoundTypes DEF RingInv, RingBound
    <3> QED
      BY <3>1, Sizes DEF Bound
  <2>2. Peak >= Fill + 1 /\ Peak \in Nat /\ HeaderCredit \in 0 .. 2
    BY <1>1, <1>2, BoundTypes, Sizes DEF RingInv, Peak, Rise
  <2> QED
    BY <1>2, <2>1, <2>2, Sizes
<1>4. increment_pointer(ring.in, 1) \in Pointer
  BY <1>1, PointerMoves
<1>5. /\ ring' = [ring EXCEPT !.buf[ring.in] = Head(wire), !.in = increment_pointer(ring.in, 1)]
      /\ cts' = (cts \/ uart_byte_count(increment_pointer(ring.in, 1), ring.out) >= CTS_STOP_AT)
  BY DEF Uart1_ISR, increment_pointer, check_cts_stop
<1>6. /\ ring' \in RingType
      /\ ring'.in = increment_pointer(ring.in, 1) /\ ring'.out = ring.out
  BY <1>1, <1>4, <1>5 DEF RingType
<1>7. ~torn => Fill' = Fill + 1
  BY <1>1, <1>3, <1>6, FillAfterByte DEF Fill
<1>8. cts' \in BOOLEAN /\ (cts' <=> cts \/ Fill' >= CTS_STOP_AT)
  BY <1>1, <1>5, <1>6 DEF Fill
<1>9. \/ wire' = <<>> /\ outq' = outq
      \/ ~cts /\ outq # <<>> /\ wire' = <<Head(outq)>> /\ outq' = Tail(outq)
  BY DEF Uart1_ISR
<1>10. outq \in Seq(Nat) /\ outq' \in Seq(Nat) /\ wire' \in {<<>>} \cup {<<b>> : b \in Nat}
  <2>1. outq \in Seq(Nat)
    BY DEF RingInv, BridgeTypes
  <2>2. outq # <<>> => Head(outq) \in Nat /\ Tail(outq) \in Seq(Nat)
    BY <2>1
  <2> QED
    BY <1>9, <2>1, <2>2
<1>11. Len(wire') \in 0 .. 1 /\ (cts => Len(wire') = 0)
  BY <1>9
<1>12. UNCHANGED <<byteCount, frame, dataAvailable, left, pc, regs, torn>>
  BY DEF Uart1_ISR, parsevars, loopvars, ghost, faults
<1>13. BridgeTypes' /\ OnePending' /\ ModeIsOld'
  BY <1>6, <1>8, <1>10, <1>12
     DEF RingInv, BridgeTypes, OnePending, ModeIsOld, InHeader, InCount, InChunk
<1>14. CountIsOld /\ ~torn => CountIsOld'
  <2> SUFFICES ASSUME CountIsOld, ~torn PROVE CountIsOld'
    OBVIOUS
  <2>1. byteCount \in Nat /\ regs.value \in Nat /\ Chunk \in Nat /\ Chunk' = Chunk
    BY <1>12, RingTypes, ChunkTypes DEF RingInv, BridgeTypes, Chunk
  <2>2. pc = "countOut" => uart_byte_count(regs.value, ring.out) \in Nat
    BY <1>1, FillIsNat DEF RingInv, BridgeTypes
  <2>3. pc = "countOut" => uart_byte_count(regs'.value, ring'.out) <= Fill'
    BY <1>2, <1>6, <1>7, <1>12, <2>2 DEF CountIsOld
  <2> QED
    BY <1>2, <1>6, <1>7, <1>12, <2>1, <2>3 DEF CountIsOld, InHeader, InCount, InChunk
<1>15. Peak \in Nat /\ Peak' \in Nat /\ (~torn => Peak' <= Peak)
  <2> DEFINE w == Len(wire')
             f == Fill
             g == Fill'
             c == cts
             d == cts'
             n == torn
  <2>1. w \in 0 .. 1 /\ (c => w = 0)
    BY <1>11
  <2>2. Peak' = IF d THEN g + w ELSE IF g >= CTS_STOP_AT THEN g + 2 ELSE CTS_STOP_AT + 1
    BY DEF Peak, Rise
  <2>3. Peak = IF c THEN f + 1 ELSE IF f >= CTS_STOP_AT THEN f + 2 ELSE CTS_STOP_AT + 1
    BY <1>1 DEF Peak, Rise
  <2>4. /\ f \in Nat /\ g \in Nat /\ c \in BOOLEAN /\ d \in BOOLEAN
        /\ d <=> c \/ g >= CTS_STOP_AT
        /\ ~n => g = f + 1
    BY <1>1, <1>2, <1>7, <1>8
  <2> HIDE DEF w, f, g, c, d, n
  <2>5. Peak \in Nat /\ Peak' \in Nat
    BY Sizes, <2>1, <2>2, <2>3, <2>4
  <2>6. ~n => Peak' <= Peak
    BY Sizes, <2>1, <2>2, <2>3, <2>4
  <2> QED
    BY <2>5, <2>6 DEF n
<1>16. HeaderCredit \in Nat /\ HeaderCredit' = HeaderCredit
  BY <1>12 DEF HeaderCredit, LastChunk, InCount
<1>17. ~torn => RingBound'
  <2> SUFFICES ASSUME ~torn PROVE RingBound'
    OBVIOUS
  <2> DEFINE p == Peak
             q == Peak'
             h == HeaderCredit
  <2>1. p \in Nat /\ q \in Nat /\ q <= p /\ h \in Nat
    BY <1>15, <1>16
  <2>2. (IF pc = "resume" THEN Rise(p) ELSE p) + h <= CTS_STOP_AT + 4
    BY DEF RingInv, RingBound, Bound
  <2>3. Bound' = (IF pc = "resume" THEN Rise(q) ELSE q) + h
    BY <1>12, <1>16 DEF Bound
  <2> HIDE DEF p, q, h
  <2>4. (IF pc = "resume" THEN Rise(q) ELSE q) + h <= CTS_STOP_AT + 4
    BY Sizes, <2>1, <2>2 DEF Rise
  <2> QED
    BY <2>3, <2>4 DEF RingBound
<1> QED
  BY <1>7, <1>12, <1>13, <1>14, <1>17 DEF RingInv

\* Reading n bytes of the ring, without touching the rest of it.
LEMMA BytesRead ==
  ASSUME BridgeTypes, NEW n \in Nat, n <= Fill,
         ring' = [ring EXCEPT !.out = increment_pointer(ring.out, n)]
  PROVE  Fill' = Fill - n
<1>1. ring.in \in Pointer /\ ring.out \in Pointer /\ ring \in RingType
  BY DEF BridgeTypes, RingType
<1>2. /\ n < UART_RX_BUF_SIZE
      /\ uart_byte_count(ring.in, increment_pointer(ring.out, n)) = Fill - n
  BY <1>1, FillAfterRead DEF Fill
<1>3. increment_pointer(ring.out, n) \in Pointer
  BY <1>1, PointerMoves
<1> QED
  BY <1>1, <1>2, <1>3 DEF Fill, RingType

\* The steps of the count, the header and the copy block that leave the ring alone.
LEMMA QuietStep ==
  ASSUME RingInv,
         \/ Count \/ CountOut \/ CountStore \/ NoHeader \/ Header \/ LoadMode \/ StoreMode
         \/ \E len \in 0 .. MaxLength : TakeLength(len)
         \/ SkipHeader \/ Subtract \/ SubStore \/ StartFrame
         \/ \E mode \in Modes : CopyBlock(mode)
         \/ DiscardBlock \/ NoBlock \/ Copy \/ SkipChunk
  PROVE  RingInv'
<1> USE DEF InHeader, InCount, InChunk
<1>1. BridgeTypes /\ OnePending /\ ModeIsOld /\ (~torn => CountIsOld /\ RingBound)
  BY DEF RingInv
<1>2. /\ ring.in \in Pointer /\ ring.out \in Pointer /\ Fill \in Nat
      /\ frame.mode \in Modes \cup {IO_NONE} /\ frame.remaining \in Nat /\ frame.started \in BOOLEAN
      /\ frame.discard \in BOOLEAN
      /\ regs.mode \in Modes \cup {IO_NONE} /\ regs.value \in Nat
      /\ frame \in FrameType /\ regs \in RegsType /\ byteCount \in Nat
  BY <1>1, RingTypes DEF BridgeTypes
<1>3. IO_NONE \notin Modes
  BY DEF Modes, IO_NONE, IO_CH552, IO_CDC, IO_FIDO, IO_CCID, IO_DEBUG
<1>4. ASSUME NEW v \in Nat, NEW l, Load(v, l)
      PROVE  /\ regs' \in RegsType /\ regs'.mode = regs.mode /\ regs'.value = v /\ pc' = l
  BY <1>2, <1>4 DEF Load, RegsType
<1>5. ASSUME OnlyLoop
      PROVE  /\ UNCHANGED <<outq, wire, cts, ring, byteCount, frame, dataAvailable, torn, left>>
             /\ Fill' = Fill /\ UNCHANGED uartvars
  BY <1>5 DEF OnlyLoop, fpgavars, uartvars, parsevars, ghost, faults, Fill
<1>6. CASE Count
  <2>1. regs' \in RegsType /\ regs'.value = ring.in /\ pc = "count" /\ pc' = "countOut"
    BY <1>2, <1>4, <1>6 DEF Count, Pointer
  <2>2. OnlyLoop
    BY <1>6 DEF Count
  <2>3. BridgeTypes' /\ OnePending' /\ ModeIsOld' /\ CountIsOld'
    BY <1>1, <1>2, <1>5, <2>1, <2>2, FillIsNat
       DEF BridgeTypes, OnePending, ModeIsOld, CountIsOld, Fill
  <2> QED
    BY <1>5, <2>1, <2>2, <2>3, SameBound DEF HeaderCredit, LastChunk
<1>7. CASE CountOut
  <2> DEFINE v == uart_byte_count(regs.value, ring.out)
  <2>1. v \in Nat
    BY <1>1, <1>2, <1>7, FillIsNat DEF CountOut, BridgeTypes
  <2>2. Load(v, "countStore") /\ OnlyLoop /\ pc = "countOut"
    BY <1>7 DEF CountOut
  <2>3. ~torn => v <= Fill
    BY <1>1, <2>2 DEF CountIsOld
  <2> HIDE DEF v
  <2>4. regs' \in RegsType /\ regs'.value = v /\ pc' = "countStore"
    BY <1>4, <2>1, <2>2
  <2>5. BridgeTypes' /\ OnePending' /\ ModeIsOld' /\ (~torn => CountIsOld')
    BY <1>1, <1>2, <1>5, <2>2, <2>3, <2>4 DEF BridgeTypes, OnePending, ModeIsOld, CountIsOld
  <2> QED
    BY <1>5, <2>2, <2>4, <2>5, SameBound DEF HeaderCredit, LastChunk
<1>8. CASE CountStore
  <2>1. /\ UNCHANGED <<outq, wire, cts, ring, uartvars, frame, dataAvailable, torn, left>>
        /\ byteCount' = regs.value /\ Fill' = Fill /\ pc = "countStore"
        /\ Load(0, "header")
    BY <1>8 DEF CountStore, Stored, fpgavars, uartvars, ghost, faults, Fill
  <2>2. regs' \in RegsType /\ pc' = "header"
    BY <1>4, <2>1
  <2>3. BridgeTypes' /\ OnePending' /\ ModeIsOld' /\ (~torn => CountIsOld')
    BY <1>1, <1>2, <2>1, <2>2 DEF BridgeTypes, OnePending, ModeIsOld, CountIsOld
  <2> QED
    BY <2>1, <2>2, <2>3, SameBound DEF HeaderCredit, LastChunk
<1>9. CASE NoHeader
  <2>1. pc = "header" /\ pc' = "copy" /\ regs' = [regs EXCEPT !.mode = frame.mode] /\ OnlyLoop
    BY <1>9 DEF NoHeader
  <2>2. regs' \in RegsType /\ regs'.mode = frame.mode
    BY <1>2, <2>1 DEF RegsType
  <2>3. BridgeTypes' /\ OnePending' /\ ModeIsOld' /\ (~torn => CountIsOld')
    BY <1>1, <1>2, <1>5, <2>1, <2>2 DEF BridgeTypes, OnePending, ModeIsOld, CountIsOld
  <2> QED
    BY <1>5, <2>1, <2>2, <2>3, SameBound DEF HeaderCredit, LastChunk
<1>10. CASE Header
  <2>1. /\ pc = "header" /\ pc' = "mode" /\ regs' = regs /\ OnlyLoop
        /\ byteCount >= 2 /\ ~frame.started
    BY <1>10 DEF Header, HasHeader, Goto
  <2>2. BridgeTypes' /\ OnePending' /\ ModeIsOld' /\ (~torn => CountIsOld')
    BY <1>1, <1>2, <1>5, <2>1 DEF BridgeTypes, OnePending, ModeIsOld, CountIsOld
  <2> QED
    BY <1>5, <2>1, <2>2, SameBound DEF HeaderCredit, LastChunk
<1>11. CASE LoadMode
  <2>1. PICK mode \in Modes \cup {IO_NONE} : regs' = [regs EXCEPT !.mode = mode]
    <3>1. \A b \in Nat : AsMode(b) \subseteq Modes \cup {IO_NONE}
      BY DEF AsMode
    <3>2. ring.buf[ring.out] \in Nat
      BY <1>1, <1>2, RingTypes
    <3> QED
      BY <1>11, <3>1, <3>2 DEF LoadMode
  <2>2. pc = "mode" /\ pc' = "modeStore" /\ regs' \in RegsType /\ OnlyLoop
    BY <1>2, <1>11, <2>1 DEF LoadMode, RegsType
  <2>3. BridgeTypes' /\ OnePending' /\ ModeIsOld' /\ (~torn => CountIsOld')
    BY <1>1, <1>2, <1>5, <2>2 DEF BridgeTypes, OnePending, ModeIsOld, CountIsOld
  <2> QED
    BY <1>5, <2>2, <2>3, SameBound DEF HeaderCredit, LastChunk
<1>12. CASE StoreMode
  <2>1. /\ UNCHANGED <<outq, wire, cts, ring, uartvars, byteCount, dataAvailable, regs, torn, left>>
        /\ frame' = [frame EXCEPT !.mode = regs.mode] /\ Fill' = Fill
        /\ pc = "modeStore" /\ pc' = "check"
    BY <1>12 DEF StoreMode, Goto, fpgavars, uartvars, ghost, faults, Fill
  <2>2. /\ frame' \in FrameType /\ frame'.mode = regs.mode /\ frame'.started = frame.started
        /\ frame'.discard = frame.discard
    BY <1>2, <2>1 DEF FrameType
  <2>3. dataAvailable = {}
    BY <1>1, <2>1 DEF ModeIsOld, OnePending
  <2>4. BridgeTypes' /\ OnePending' /\ ModeIsOld' /\ (~torn => CountIsOld')
    BY <1>1, <1>2, <2>1, <2>2, <2>3 DEF BridgeTypes, OnePending, ModeIsOld, CountIsOld
  <2>5. HeaderCredit' = 0
    BY <1>1, <2>1, <2>2 DEF HeaderCredit, ModeIsOld
  <2> QED
    BY <2>1, <2>4, <2>5, SameBound
<1>13. ASSUME NEW len \in 0 .. MaxLength, TakeLength(len)
       PROVE  RingInv'
  <2>1. /\ UNCHANGED <<outq, wire, cts, ring, uartvars, byteCount, dataAvailable, regs, torn, left>>
        /\ frame' = [frame EXCEPT !.remaining = len] /\ Fill' = Fill
        /\ pc = "check" /\ pc' = "skip"
    BY <1>13 DEF TakeLength, Goto, fpgavars, uartvars, ghost, faults, Fill
  <2>2. len \in Nat
    BY SizeAssumption
  <2>3. /\ frame' \in FrameType /\ frame'.mode = frame.mode /\ frame'.started = frame.started
        /\ frame'.discard = frame.discard
    BY <1>2, <2>1, <2>2 DEF FrameType
  <2>4. dataAvailable = {}
    BY <1>1, <2>1 DEF ModeIsOld, OnePending
  <2>5. BridgeTypes' /\ OnePending' /\ ModeIsOld' /\ (~torn => CountIsOld')
    BY <1>1, <1>2, <2>1, <2>3, <2>4 DEF BridgeTypes, OnePending, ModeIsOld, CountIsOld
  <2>6. HeaderCredit' = 0
    BY <1>1, <2>1, <2>3 DEF HeaderCredit, ModeIsOld
  <2> QED
    BY <2>1, <2>5, <2>6, SameBound
<1>14. CASE SkipHeader
  <2> DEFINE v == increment_pointer(ring.out, 2)
  <2>1. v \in Pointer /\ v \in Nat
    <3>1. v \in Pointer
      BY <1>2, PointerMoves
    <3> QED
      BY <3>1, Sizes DEF Pointer
  <2>2. Load(v, "skipStore") /\ OnlyLoop /\ pc = "skip"
    BY <1>14 DEF SkipHeader
  <2> HIDE DEF v
  <2>3. regs' \in RegsType /\ regs'.value = v /\ regs'.mode = regs.mode /\ pc' = "skipStore"
    BY <1>4, <2>1, <2>2
  <2>4. BridgeTypes' /\ OnePending' /\ ModeIsOld'
    BY <1>1, <1>2, <1>5, <2>1, <2>2, <2>3 DEF BridgeTypes, OnePending, ModeIsOld
  <2>5. ~torn => CountIsOld'
    BY <1>1, <1>5, <2>2, <2>3 DEF CountIsOld, v
  <2> QED
    BY <1>5, <2>2, <2>3, <2>4, <2>5, SameBound DEF HeaderCredit, LastChunk
<1>15. CASE Subtract
  <2> DEFINE v == (byteCount + 254) % 256
  <2>1. v \in Nat
    BY <1>2
  <2>2. ~torn => v = byteCount - 2 /\ 2 <= byteCount /\ byteCount <= Fill + 2
    <3> SUFFICES ASSUME ~torn PROVE v = byteCount - 2 /\ 2 <= byteCount /\ byteCount <= Fill + 2
      OBVIOUS
    <3>1. 2 <= byteCount /\ byteCount <= Fill + 2
      BY <1>1, <1>15 DEF CountIsOld, Subtract
    <3>2. Fill <= CTS_STOP_AT + 4 /\ Fill + 2 < 258
      <4>1. Peak \in Nat /\ HeaderCredit \in 0 .. 2 /\ Rise(Peak) >= Peak /\ Rise(Peak) \in Nat
            /\ Peak >= Fill
        BY <1>1, BoundTypes
      <4>2. Bound <= CTS_STOP_AT + 4
        BY <1>1 DEF RingBound
      <4> QED
        BY <1>2, <4>1, <4>2, Sizes DEF Bound
    <3> DEFINE n == byteCount
               f == Fill
    <3>3. n \in Nat /\ f \in Nat /\ n >= 2 /\ n <= f + 2 /\ f + 2 < 258
      BY <1>2, <3>1, <3>2
    <3> HIDE DEF n, f
    <3>4. n + 254 \in Nat /\ n + 254 >= 256 /\ n + 254 < 512
      BY <3>3
    <3> DEFINE x == n + 254
    <3>5. x \in Nat /\ x >= 256 /\ x < 2 * 256
      BY <3>4
    <3> HIDE DEF x
    <3>6. x % 256 = x - 256
      BY <3>5, WrapsAbove
    <3> QED
      BY <3>1, <3>3, <3>6 DEF x, n
  <2>3. Load(v, "subStore") /\ OnlyLoop /\ pc = "sub"
    BY <1>15 DEF Subtract
  <2> HIDE DEF v
  <2>4. regs' \in RegsType /\ regs'.value = v /\ regs'.mode = regs.mode /\ pc' = "subStore"
    BY <1>4, <2>1, <2>3
  <2>5. BridgeTypes' /\ OnePending' /\ ModeIsOld' /\ (~torn => CountIsOld')
    BY <1>1, <1>2, <1>5, <2>2, <2>3, <2>4 DEF BridgeTypes, OnePending, ModeIsOld, CountIsOld
  <2> QED
    BY <1>5, <2>3, <2>4, <2>5, SameBound DEF HeaderCredit, LastChunk
<1>16. CASE SubStore
  <2>1. /\ UNCHANGED <<outq, wire, cts, ring, uartvars, frame, dataAvailable, torn, left>>
        /\ byteCount' = regs.value /\ Fill' = Fill /\ pc = "subStore"
        /\ Load(0, "begin")
    BY <1>16 DEF SubStore, Stored, fpgavars, uartvars, ghost, faults, Fill
  <2>2. regs' \in RegsType /\ regs'.mode = regs.mode /\ pc' = "begin"
    BY <1>4, <2>1
  <2>3. BridgeTypes' /\ OnePending' /\ ModeIsOld' /\ (~torn => CountIsOld')
    BY <1>1, <1>2, <2>1, <2>2 DEF BridgeTypes, OnePending, ModeIsOld, CountIsOld
  <2> QED
    BY <2>1, <2>2, <2>3, SameBound DEF HeaderCredit, LastChunk
<1>17. CASE StartFrame
  <2>1. PICK mode \in FrameMode :
          frame' = [frame EXCEPT !.started = TRUE, !.discard = @ \/ Discards(mode)]
    BY <1>17 DEF StartFrame
  <2>2. /\ UNCHANGED <<outq, wire, cts, ring, uartvars, byteCount, dataAvailable, regs, torn, left>>
        /\ Fill' = Fill /\ pc = "begin" /\ pc' = "copy"
    BY <1>17 DEF StartFrame, Goto, fpgavars, uartvars, ghost, faults, Fill
  <2>3. /\ frame' \in FrameType /\ frame'.mode = frame.mode /\ frame'.started
        /\ frame'.remaining = frame.remaining
    BY <1>2, <2>1 DEF FrameType, Discards
  <2>4. dataAvailable = {}
    BY <1>1, <2>2 DEF ModeIsOld, OnePending
  <2>5. BridgeTypes' /\ OnePending' /\ ModeIsOld' /\ (~torn => CountIsOld')
    BY <1>1, <1>2, <2>2, <2>3, <2>4 DEF BridgeTypes, OnePending, ModeIsOld, CountIsOld
  <2>6. HeaderCredit' = HeaderCredit
    BY <2>2, <2>3 DEF HeaderCredit, LastChunk
  <2> QED
    BY <2>2, <2>5, <2>6, SameBound
<1>18. ASSUME NEW mode \in Modes, CopyBlock(mode)
       PROVE  RingInv'
  <2>1. /\ pc = "copy" /\ pc' = "take" /\ regs' = [regs EXCEPT !.mode = mode] /\ OnlyLoop
        /\ mode \in FrameMode /\ frame.started /\ ~frame.discard /\ mode \notin dataAvailable
        /\ byteCount >= Chunk
    BY <1>18 DEF CopyBlock, Enter, CanCopy
  <2>2. regs' \in RegsType /\ regs'.mode = mode
    BY <1>2, <2>1 DEF RegsType
  <2>3. dataAvailable = {}
    BY <1>1, <1>3, <2>1 DEF OnePending, FrameMode
  <2>4. frame.mode \in {mode, IO_NONE}
    BY <1>1, <1>3, <2>1 DEF ModeIsOld, FrameMode
  <2>5. BridgeTypes' /\ OnePending' /\ ModeIsOld'
    BY <1>1, <1>2, <1>3, <1>5, <2>1, <2>2, <2>3, <2>4 DEF BridgeTypes, OnePending, ModeIsOld
  <2>6. Chunk \in Nat /\ Chunk' = Chunk
    BY <1>2, <1>5, <2>1, ChunkTypes DEF Chunk
  <2>7. ~torn => CountIsOld'
    BY <1>1, <1>2, <1>5, <2>1, <2>6 DEF CountIsOld
  <2> QED
    BY <1>5, <2>1, <2>5, <2>7, SameBound DEF HeaderCredit, LastChunk
<1>19. CASE DiscardBlock
  <2>1. /\ pc = "copy" /\ pc' = "move" /\ regs' = [regs EXCEPT !.mode = IO_NONE] /\ OnlyLoop
        /\ frame.started /\ frame.discard /\ IO_NONE \notin dataAvailable
        /\ byteCount >= Chunk
    BY <1>19 DEF DiscardBlock, Enter, CanDiscard
  <2>2. regs' \in RegsType /\ regs'.mode = IO_NONE
    BY <1>2, <2>1 DEF RegsType
  <2>3. dataAvailable = {}
    BY <1>1, <2>1 DEF OnePending
  <2>4. BridgeTypes' /\ OnePending' /\ ModeIsOld'
    BY <1>1, <1>2, <1>5, <2>1, <2>2, <2>3 DEF BridgeTypes, OnePending, ModeIsOld
  <2>5. Chunk \in Nat /\ Chunk' = Chunk
    BY <1>2, <1>5, <2>1, ChunkTypes DEF Chunk
  <2>6. ~torn => CountIsOld'
    BY <1>1, <1>2, <1>5, <2>1, <2>5 DEF CountIsOld
  <2> QED
    BY <1>5, <2>1, <2>4, <2>6, SameBound DEF HeaderCredit, LastChunk
<1>20. CASE NoBlock
  <2>1. pc = "copy" /\ pc' = "cdc" /\ regs' = [regs EXCEPT !.mode = IO_NONE] /\ OnlyLoop
    BY <1>20 DEF NoBlock, Enter
  <2>2. regs' \in RegsType
    BY <1>2, <2>1 DEF RegsType
  <2>3. BridgeTypes' /\ OnePending' /\ ModeIsOld' /\ CountIsOld'
    BY <1>1, <1>2, <1>5, <2>1, <2>2 DEF BridgeTypes, OnePending, ModeIsOld, CountIsOld
  <2> QED
    BY <1>5, <2>1, <2>3, SameBound DEF HeaderCredit, LastChunk
<1>21. CASE Copy
  <2>1. /\ UNCHANGED <<outq, wire, cts, ring, uartvars, byteCount, frame, dataAvailable, regs,
                       torn, left>>
        /\ Fill' = Fill /\ Chunk' = Chunk /\ pc = "take" /\ pc' = "move"
    BY <1>21 DEF Copy, Goto, fpgavars, uartvars, ghost, faults, Fill, Chunk
  <2>2. BridgeTypes' /\ OnePending' /\ ModeIsOld' /\ (~torn => CountIsOld')
    BY <1>1, <1>2, <2>1 DEF BridgeTypes, OnePending, ModeIsOld, CountIsOld
  <2> QED
    BY <2>1, <2>2, SameBound DEF HeaderCredit, LastChunk
<1>22. CASE SkipChunk
  <2> DEFINE v == increment_pointer(ring.out, Chunk)
  <2>1. v \in Pointer /\ v \in Nat
    BY <1>2, PointerMoves, ChunkTypes DEF Pointer
  <2>2. Load(v, "moveStore") /\ OnlyLoop /\ pc = "move"
    BY <1>22 DEF SkipChunk
  <2>3. ring' = ring /\ Chunk' = Chunk
    BY <1>5, <2>2 DEF Chunk
  <2>4. increment_pointer(ring.out, Chunk)' = v
    BY <2>3
  <2> HIDE DEF v
  <2>5. regs' \in RegsType /\ regs'.value = v /\ regs'.mode = regs.mode /\ pc' = "moveStore"
    BY <1>4, <2>1, <2>2
  <2>6. BridgeTypes' /\ OnePending' /\ ModeIsOld'
    BY <1>1, <1>2, <1>5, <2>1, <2>2, <2>5 DEF BridgeTypes, OnePending, ModeIsOld
  <2>7. ~torn => CountIsOld'
    BY <1>1, <1>5, <2>2, <2>3, <2>4, <2>5 DEF CountIsOld
  <2> QED
    BY <1>5, <2>2, <2>5, <2>6, <2>7, SameBound DEF HeaderCredit, LastChunk
<1> QED
  BY <1>6, <1>7, <1>8, <1>9, <1>10, <1>11, <1>12, <1>13, <1>14, <1>15, <1>16, <1>17, <1>18,
     <1>19, <1>20, <1>21, <1>22

\* The header is out of the ring: two bytes less, and the credit for them.
LEMMA HeaderRead ==
  ASSUME RingInv, SkipStore
  PROVE  RingInv'
<1> USE DEF InHeader, InCount, InChunk
<1>1. BridgeTypes /\ OnePending /\ ModeIsOld /\ (~torn => CountIsOld /\ RingBound)
  BY DEF RingInv
<1>2. /\ UNCHANGED <<outq, wire, cts, byteCount, frame, dataAvailable, torn, left>>
      /\ ring' = [ring EXCEPT !.out = regs.value]
      /\ pc = "skipStore" /\ pc' = "sub" /\ regs' = [regs EXCEPT !.value = 0]
  BY DEF SkipStore, Stored, Load, fpgavars, parsevars, ghost, faults
<1>3. /\ ring \in RingType /\ regs \in RegsType /\ regs.value \in Pointer
      /\ ring' \in RingType /\ regs' \in RegsType /\ regs'.mode = regs.mode
  BY <1>1, <1>2 DEF BridgeTypes, RingType, RegsType
<1>4. byteCount \in Nat /\ Fill \in Nat /\ Len(wire) \in 0 .. 1 /\ cts \in BOOLEAN
  BY <1>1, RingTypes DEF BridgeTypes
<1>5. ~frame.started /\ dataAvailable = {}
  BY <1>1, <1>2 DEF ModeIsOld, OnePending
<1>6. BridgeTypes' /\ OnePending' /\ ModeIsOld'
  BY <1>1, <1>2, <1>3, <1>5 DEF BridgeTypes, OnePending, ModeIsOld
<1>7. ~torn => 2 <= byteCount /\ byteCount <= Fill /\ regs.value = increment_pointer(ring.out, 2)
  BY <1>1, <1>2 DEF CountIsOld
<1>8. ~torn => Fill' = Fill - 2 /\ 2 <= Fill
  <2> SUFFICES ASSUME ~torn PROVE Fill' = Fill - 2 /\ 2 <= Fill
    OBVIOUS
  <2>1. 2 <= Fill
    BY <1>4, <1>7
  <2> QED
    BY <1>1, <1>2, <1>7, <2>1, BytesRead
<1>9. ~torn => CountIsOld'
  BY <1>2, <1>4, <1>7, <1>8 DEF CountIsOld
<1>10. HeaderCredit = 0 /\ HeaderCredit' \in 0 .. 2
  BY <1>2, <1>5 DEF HeaderCredit
<1>11. ~torn => RingBound'
  <2> SUFFICES ASSUME ~torn PROVE RingBound'
    OBVIOUS
  <2> DEFINE f == Fill
             g == Fill'
             w == Len(wire)
             h == HeaderCredit'
  <2>1. f \in Nat /\ 2 <= f /\ g = f - 2 /\ w \in 0 .. 1 /\ h \in 0 .. 2
    BY <1>4, <1>8, <1>10
  <2>2. (IF cts THEN f + w ELSE Rise(f)) <= CTS_STOP_AT + 4
    <3>1. Peak + 0 <= CTS_STOP_AT + 4 /\ Peak \in Nat
      BY <1>1, <1>2, <1>10, BoundTypes DEF RingBound, Bound
    <3> QED
      BY <3>1, Sizes DEF Peak
  <2>3. Bound' = (IF cts THEN g + w ELSE Rise(g)) + h
    BY <1>2 DEF Bound, Peak
  <2> HIDE DEF f, g, w, h
  <2>4. (IF cts THEN g + w ELSE Rise(g)) + h <= CTS_STOP_AT + 4
    BY Sizes, <1>4, <2>1, <2>2 DEF Rise
  <2> QED
    BY <2>3, <2>4 DEF RingBound
<1> QED
  BY <1>2, <1>6, <1>9, <1>11 DEF RingInv

\* A chunk is out of the ring: the last one frees the credit of the header, the
\* others take two bytes at least.
LEMMA ChunkRead ==
  ASSUME RingInv, ChunkStore
  PROVE  RingInv'
<1> USE DEF InHeader, InCount, InChunk
<1>1. BridgeTypes /\ OnePending /\ ModeIsOld /\ (~torn => CountIsOld /\ RingBound)
  BY DEF RingInv
<1>2. /\ UNCHANGED <<outq, wire, cts, byteCount, torn, left>>
      /\ ring' = [ring EXCEPT !.out = regs.value]
      /\ frame' = [frame EXCEPT !.remaining = @ - Chunk]
      /\ dataAvailable' = dataAvailable \cup {regs.mode}
      /\ pc = "moveStore" /\ pc' = "resume" /\ regs' = [regs EXCEPT !.value = 0]
  BY DEF ChunkStore, Stored, Load, fpgavars, ghost, faults
<1>3. /\ ring \in RingType /\ regs \in RegsType /\ regs.value \in Pointer
      /\ ring' \in RingType /\ regs' \in RegsType /\ regs'.mode = regs.mode
      /\ regs.mode \in Modes \cup {IO_NONE}
  BY <1>1, <1>2 DEF BridgeTypes, RingType, RegsType
<1>4. /\ byteCount \in Nat /\ Fill \in Nat /\ Len(wire) \in 0 .. 1 /\ cts \in BOOLEAN
      /\ frame.remaining \in Nat /\ frame \in FrameType
  BY <1>1, RingTypes DEF BridgeTypes
<1>5. /\ Chunk \in Nat /\ Chunk <= frame.remaining
      /\ Chunk = frame.remaining \/ Chunk >= 2
      /\ frame.remaining - Chunk \in Nat
  BY <1>4, ChunkTypes
<1>6. /\ frame' \in FrameType /\ frame'.started = frame.started /\ frame'.mode = frame.mode
      /\ frame'.discard = frame.discard /\ frame'.remaining = frame.remaining - Chunk
  BY <1>2, <1>4, <1>5 DEF FrameType
<1>7. /\ frame.started /\ dataAvailable = {} /\ dataAvailable' = {regs.mode}
      /\ frame.discard <=> regs.mode = IO_NONE
      /\ regs.mode = IO_NONE \/ frame.mode \in {regs.mode, IO_NONE}
  BY <1>1, <1>2 DEF ModeIsOld
<1>8. BridgeTypes' /\ OnePending' /\ ModeIsOld'
  BY <1>1, <1>2, <1>3, <1>6, <1>7 DEF BridgeTypes, OnePending, ModeIsOld
<1>9. ~torn => Fill' = Fill - Chunk /\ Chunk <= Fill
  <2> SUFFICES ASSUME ~torn PROVE Fill' = Fill - Chunk /\ Chunk <= Fill
    OBVIOUS
  <2>1. Chunk <= Fill /\ regs.value = increment_pointer(ring.out, Chunk)
    BY <1>1, <1>2 DEF CountIsOld
  <2> QED
    BY <1>1, <1>2, <1>5, <2>1, BytesRead
<1>10. CountIsOld'
  BY <1>2 DEF CountIsOld
<1>11. ~torn => RingBound'
  <2> SUFFICES ASSUME ~torn PROVE RingBound'
    OBVIOUS
  <2> DEFINE f == Fill
             g == Fill'
             n == Chunk
             m == frame.remaining
             w == Len(wire)
  <2>1. /\ f \in Nat /\ n \in Nat /\ m \in Nat /\ n <= m /\ (n = m \/ n >= 2)
        /\ n <= f /\ g = f - n /\ w \in 0 .. 1
    BY <1>4, <1>5, <1>9
  <2>2. Bound = (IF cts THEN f + w ELSE Rise(f)) + (IF m = 0 THEN 2 ELSE 1)
    BY <1>2, <1>7 DEF Bound, Peak, HeaderCredit, LastChunk
  <2>3. Bound' = Rise(IF cts THEN g + w ELSE Rise(g)) + (IF m - n = 0 THEN 0 ELSE 1)
    <3>1. Peak' = IF cts THEN g + w ELSE Rise(g)
      BY <1>2 DEF Peak
    <3>2. HeaderCredit' = IF m - n = 0 THEN 0 ELSE 1
      BY <1>6, <1>7 DEF HeaderCredit, LastChunk
    <3> QED
      BY <1>2, <3>1, <3>2 DEF Bound
  <2>4. Bound <= CTS_STOP_AT + 4
    BY <1>1 DEF RingBound
  <2> HIDE DEF f, g, n, m, w
  <2>5. Rise(IF cts THEN g + w ELSE Rise(g)) + (IF m - n = 0 THEN 0 ELSE 1) <= CTS_STOP_AT + 4
    <3>1. (IF cts THEN f + w ELSE Rise(f)) + (IF m = 0 THEN 2 ELSE 1) <= CTS_STOP_AT + 4
      BY <2>2, <2>4
    <3> QED
      BY Sizes, <1>4, <2>1, <3>1 DEF Rise
  <2> QED
    BY <2>3, <2>5 DEF RingBound
<1> QED
  BY <1>2, <1>8, <1>10, <1>11 DEF RingInv

\* Clear-to-send is given, which the bound has counted in.
LEMMA Resumes ==
  ASSUME RingInv, cts_start
  PROVE  RingInv'
<1> USE DEF InHeader, InCount, InChunk
<1>1. BridgeTypes /\ OnePending /\ ModeIsOld /\ (~torn => CountIsOld /\ RingBound)
  BY DEF RingInv
<1>2. /\ UNCHANGED <<outq, wire, ring, byteCount, frame, dataAvailable, torn, left>>
      /\ cts' = FALSE /\ pc = "resume" /\ pc' = "cdc" /\ regs' = NoRegs /\ Fill' = Fill
  BY DEF cts_start, fpgavars, parsevars, ghost, faults, Fill
<1>3. BridgeTypes' /\ OnePending' /\ ModeIsOld' /\ CountIsOld'
  BY <1>1, <1>2 DEF BridgeTypes, OnePending, ModeIsOld, CountIsOld, NoRegs, RegsType
<1>4. ~torn => RingBound'
  <2> SUFFICES ASSUME ~torn PROVE RingBound'
    OBVIOUS
  <2>1. /\ Rise(Peak) \in Nat /\ Rise(Fill) \in Nat /\ Rise(Peak) >= Rise(Fill)
        /\ HeaderCredit \in 0 .. 2
    BY <1>1, BoundTypes
  <2>2. Rise(Peak) + HeaderCredit <= CTS_STOP_AT + 4
    BY <1>1, <1>2 DEF RingBound, Bound
  <2>3. Bound' = Rise(Fill) + HeaderCredit
    BY <1>2 DEF Bound, Peak, HeaderCredit, LastChunk
  <2>4. Rise(Fill) + HeaderCredit <= CTS_STOP_AT + 4
    BY <2>1, <2>2, Sizes
  <2> QED
    BY <2>3, <2>4 DEF RingBound
<1> QED
  BY <1>2, <1>3, <1>4 DEF RingInv

\* The pending chunk has gone to its endpoint, or nowhere.
LEMMA ChunkGone ==
  ASSUME RingInv, NEW m \in dataAvailable, dataAvailable' = dataAvailable \ {m},
         UNCHANGED <<outq, wire, uartvars, byteCount, left, torn, regs>>,
         {pc, pc'} \subseteq Elsewhere,
         frame' \in FrameType, frame'.remaining = frame.remaining,
         frame'.started => frame.remaining # 0
  PROVE  RingInv'
<1> USE DEF InHeader, InCount, InChunk, Elsewhere
<1>1. dataAvailable = {m} /\ dataAvailable' = {} /\ frame.started
  BY DEF RingInv, OnePending
<1>2. BridgeTypes' /\ OnePending' /\ ModeIsOld' /\ CountIsOld'
  BY <1>1 DEF RingInv, BridgeTypes, OnePending, ModeIsOld, CountIsOld, uartvars
<1>3. HeaderCredit' = HeaderCredit \/ HeaderCredit' = 0
  BY <1>1 DEF HeaderCredit, LastChunk
<1> QED
  BY <1>2, <1>3, SameBound

\* The ring is empty or has one byte, and nothing is under way that would go by
\* what it held before.
LEMMA ResetOfTheBus ==
  ASSUME RingInv, BusReset
  PROVE  RingInv'
<1> USE DEF InHeader, InCount, InChunk
<1>1. BridgeTypes /\ OnePending /\ ModeIsOld
  BY DEF RingInv
<1>2. /\ byteCount' = 0 /\ torn' = Updating
      /\ UNCHANGED <<outq, dataAvailable, pc, regs>>
      /\ left' \in LeftType
  BY <1>1 DEF BridgeTypes, LeftType, BusReset, Spend, loopvars
<1>3. /\ ring' \in RingType /\ cts' \in BOOLEAN /\ wire' \in {<<>>} \cup {<<b>> : b \in Nat}
      /\ ring'.in \in {0, 1} /\ ring'.out = 0
      /\ ring'.in = 1 => wire' = <<>>
  <2>1. /\ ring \in RingType /\ cts \in BOOLEAN /\ wire \in {<<>>} \cup {<<b>> : b \in Nat}
        /\ wire # <<>> => Head(wire) \in Nat
    BY <1>1 DEF BridgeTypes
  <2>2. 0 \in Pointer /\ 1 \in Pointer
    BY Sizes DEF Pointer
  <2>3. CASE ring' = [ring EXCEPT !.in = 0, !.out = 0] /\ UNCHANGED <<cts, wire>>
    <3>1. /\ ring' \in RingType /\ ring'.in = 0 /\ ring'.out = 0
      BY <2>1, <2>2, <2>3 DEF RingType
    <3> QED
      BY <2>1, <2>3, <3>1
  <2>4. CASE /\ wire # <<>>
             /\ ring' = [ring EXCEPT !.buf[0] = Head(wire), !.in = 1, !.out = 0]
             /\ cts' = (cts \/ check_cts_stop(1, ring.out))
             /\ wire' = <<>>
    BY <2>1, <2>2, <2>4 DEF RingType, check_cts_stop
  <2> QED
    BY <2>3, <2>4 DEF BusReset
<1>4. /\ frame' \in FrameType
      /\ frame'.mode = IO_NONE /\ frame'.started = frame.started
      /\ frame'.discard = frame.discard /\ frame'.remaining = frame.remaining
  BY <1>1 DEF BridgeTypes, FrameType, BusReset
<1>5. BridgeTypes'
  BY <1>1, <1>2, <1>3, <1>4 DEF BridgeTypes, Updating
<1>6. OnePending' /\ ModeIsOld'
  BY <1>1, <1>2, <1>4 DEF OnePending, ModeIsOld
<1>7. Fill' \in Nat /\ (Fill' = 0 \/ (Fill' = 1 /\ Len(wire') = 0)) /\ Len(wire') \in 0 .. 1
  BY <1>3 DEF Fill, uart_byte_count
<1>8. ~torn' => CountIsOld'
  <2> SUFFICES ASSUME ~torn' PROVE CountIsOld'
    OBVIOUS
  <2>1. ~Updating
    BY <1>2
  <2>2. ~InHeader' /\ ~InCount' /\ ~InChunk' /\ pc' \notin {"countOut", "countStore"}
    BY <1>2, <2>1 DEF Updating
  <2>3. byteCount' <= Fill'
    BY <1>2, <1>7
  <2> QED
    BY <2>2, <2>3 DEF CountIsOld
<1>9. Peak' \in Nat /\ Peak' <= CTS_STOP_AT + 1
  <2> DEFINE f == Fill'
             w == Len(wire')
  <2>1. f \in Nat /\ f <= 1 /\ w \in 0 .. 1 /\ (f = 1 => w = 0)
    BY <1>7
  <2>2. Peak' = IF cts' THEN f + w ELSE Rise(f)
    BY DEF Peak
  <2> HIDE DEF f, w
  <2> QED
    BY Sizes, <2>1, <2>2 DEF Rise
<1>10. HeaderCredit' \in 0 .. 2 /\ (pc = "resume" => HeaderCredit' \in 0 .. 1)
  BY <1>1, <1>2 DEF HeaderCredit, LastChunk, ModeIsOld
<1>11. RingBound'
  <2> DEFINE k == Peak'
             h == HeaderCredit'
  <2>1. k \in Nat /\ k <= CTS_STOP_AT + 1 /\ h \in 0 .. 2 /\ (pc = "resume" => h \in 0 .. 1)
    BY <1>9, <1>10
  <2>2. Bound' = (IF pc = "resume" THEN Rise(k) ELSE k) + h
    BY <1>2 DEF Bound
  <2> HIDE DEF k, h
  <2>3. (IF pc = "resume" THEN Rise(k) ELSE k) + h <= CTS_STOP_AT + 4
    BY Sizes, <2>1 DEF Rise
  <2> QED
    BY <2>2, <2>3 DEF RingBound
<1> QED
  BY <1>5, <1>6, <1>8, <1>11 DEF RingInv

LEMMA InitRingInv == Init => RingInv
<1> SUFFICES ASSUME Init PROVE RingInv
  OBVIOUS
<1> USE DEF InHeader, InCount, InChunk
<1>1. ring \in RingType /\ ring.in = 0 /\ ring.out = 0
  BY Sizes DEF Init, EmptyRing, Pointer, RingType
<1>2. frame \in FrameType /\ ~frame.started
  BY DEF Init, NoFrame, FrameType
<1>3. left \in LeftType
  BY InputAssumption DEF Init, LeftType
<1>4. regs \in RegsType
  BY DEF Init, NoRegs, RegsType
<1>5. /\ outq \in Seq(Nat) /\ wire = <<>> /\ cts = FALSE /\ byteCount = 0
      /\ dataAvailable = {} /\ pc = "top" /\ torn = FALSE
  BY DEF Init
<1>6. BridgeTypes
  BY <1>1, <1>2, <1>3, <1>4, <1>5 DEF BridgeTypes
<1>7. Fill = 0
  BY <1>1 DEF Fill, uart_byte_count
<1>8. RingBound
  BY <1>2, <1>5, <1>7, Sizes DEF RingBound, Bound, Peak, Rise, HeaderCredit, LastChunk
<1> QED
  BY <1>5, <1>6, <1>8 DEF RingInv, OnePending, CountIsOld, ModeIsOld

LEMMA MainLoopKeepsRing ==
  ASSUME RingInv, MainLoop
  PROVE  RingInv'
<1>1. outq \in Seq(Nat) /\ left \in LeftType /\ frame \in FrameType
  BY DEF RingInv, BridgeTypes
<1>2. CASE Top \/ PollEmpty \/ SendMode \/ SendLength \/ SendBuffer \/ SendData \/ Forwarded
           \/ NothingElse
  BY <1>1, <1>2, OtherStep
     DEF Top, PollEmpty, SendMode, SendLength, SendBuffer, SendData, Forwarded, NothingElse,
         NextEndpoint, Transmit, Goto, fpgavars, parsevars, ghost, faults, Elsewhere
<1>3. CASE \/ Count \/ CountOut \/ CountStore \/ NoHeader \/ Header \/ LoadMode \/ StoreMode
           \/ \E len \in 0 .. MaxLength : TakeLength(len)
           \/ SkipHeader \/ Subtract \/ SubStore \/ StartFrame
           \/ \E mode \in Modes : CopyBlock(mode)
           \/ DiscardBlock \/ NoBlock \/ Copy \/ SkipChunk
  BY <1>3, QuietStep
<1>4. CASE SkipStore \/ ChunkStore \/ cts_start
  BY <1>4, HeaderRead, ChunkRead, Resumes
<1>5. CASE BadHeader \/ Command
  BY <1>1, <1>5, EmptyRingInv DEF BadHeader, Command, SoftReset
<1>6. CASE UploadCdc
  <2>1. CASE CanUpload(IO_CDC) /\ Uploaded(IO_CDC, FALSE)
    <3>1. frame' \in FrameType /\ frame'.remaining = frame.remaining
          /\ (frame'.started => frame.remaining # 0)
      BY <1>1, <2>1 DEF Uploaded, FrameDone, FrameType
    <3> QED
      BY <1>6, <2>1, <3>1, ChunkGone
         DEF UploadCdc, CanUpload, Uploaded, Goto, fpgavars, ghost, faults, Elsewhere
  <2>2. CASE UNCHANGED <<CdcSendZeroLenPacket, inEp, dataAvailable, FrameBuf, frame>>
    BY <1>1, <1>6, <2>2, OtherStep DEF UploadCdc, Goto, fpgavars, ghost, faults, Elsewhere
  <2> QED
    BY <1>6, <2>1, <2>2 DEF UploadCdc
<1>7. CASE UploadZlp
  BY <1>1, <1>7, OtherStep DEF UploadZlp, Goto, fpgavars, ghost, faults, Elsewhere
<1>8. ASSUME NEW m \in {IO_FIDO, IO_CCID, IO_DEBUG}, UploadOther(m)
      PROVE  RingInv'
  <2>1. frame' \in FrameType /\ frame'.remaining = frame.remaining
        /\ (frame'.started => frame.remaining # 0)
    BY <1>1, <1>8 DEF UploadOther, Uploaded, FrameDone, FrameType
  <2> QED
    BY <1>8, <2>1, ChunkGone
       DEF UploadOther, CanUpload, Uploaded, Goto, fpgavars, ghost, faults, Elsewhere
<1>9. CASE NoCommand
  <2>1. frame' \in FrameType /\ frame'.remaining = frame.remaining
        /\ (frame'.started => frame.remaining # 0)
    BY <1>1, <1>9 DEF NoCommand, FrameDone, FrameType
  <2> QED
    BY <1>9, <2>1, ChunkGone DEF NoCommand, Goto, fpgavars, ghost, faults, Elsewhere
<1>10. CASE Discarded
  <2>1. frame' \in FrameType /\ frame'.remaining = frame.remaining
        /\ (frame'.started => frame.remaining # 0)
    BY <1>1, <1>10 DEF Discarded, FrameType
  <2> QED
    BY <1>10, <2>1, ChunkGone DEF Discarded, Goto, fpgavars, ghost, faults, Elsewhere
<1> QED
  BY <1>2, <1>3, <1>4, <1>5, <1>6, <1>7, <1>8, <1>9, <1>10 DEF MainLoop

LEMMA FpgaKeepsRing ==
  ASSUME RingInv, Fpga
  PROVE  RingInv'
<1>1. outq \in Seq(Nat) /\ left \in LeftType
  BY DEF RingInv, BridgeTypes
<1>2. ASSUME NEW m \in Modes \ {IO_CH552}, NEW len \in FrameLens[m], FpgaWrite(m, len)
      PROVE  RingInv'
  <2>1. m \in Nat /\ len \in Nat /\ left.frames \in Nat
    BY <1>1, BytesAreNats, Sizes DEF LeftType
  <2>2. Frame(m, Payload(left.frames, len)) \in Frames
    BY <2>1, PayloadIsBytes DEF Frame, Frames
  <2>3. outq' \in Seq(Nat)
    BY <1>2, <2>2, FramedProperties DEF FpgaWrite
  <2>4. left' \in LeftType
    BY <1>1, <1>2 DEF FpgaWrite, Spend, LeftType
  <2> QED
    BY <1>2, <2>3, <2>4, OtherStep DEF FpgaWrite, loopvars, parsevars, faults
<1>3. ASSUME NEW mask \in Keeps, FpgaSetEndpoints(mask)
      PROVE  RingInv'
  <2>1. Frame(IO_CH552, <<SET_ENDPOINTS, mask>>) \in Frames
    BY BytesAreNats DEF Frame, Frames, Modes
  <2>2. outq' \in Seq(Nat)
    BY <1>3, <2>1, FramedProperties DEF FpgaSetEndpoints
  <2>3. left' \in LeftType
    BY <1>1, <1>3 DEF FpgaSetEndpoints, Spend, LeftType
  <2> QED
    BY <1>3, <2>2, <2>3, OtherStep DEF FpgaSetEndpoints, loopvars, parsevars, faults
<1>4. CASE FpgaSend
  <2>1. /\ wire = <<>> /\ ~cts /\ wire' \in {<<b>> : b \in Nat} /\ outq' \in Seq(Nat)
        /\ UNCHANGED <<cts, ring, byteCount, frame, dataAvailable, left, pc, regs, torn>>
    BY <1>1, <1>4 DEF FpgaSend, uartvars, parsevars, loopvars, ghost, faults
  <2>2. BridgeTypes' /\ OnePending' /\ ModeIsOld'
    BY <2>1 DEF RingInv, BridgeTypes, OnePending, ModeIsOld, InHeader, InCount, InChunk
  <2>3. Fill' = Fill /\ Chunk' = Chunk
    BY <2>1 DEF Fill, Chunk
  <2>4. Bound' = Bound /\ (CountIsOld => CountIsOld')
    BY <2>1, <2>3 DEF Bound, Peak, HeaderCredit, LastChunk, CountIsOld, InHeader, InCount, InChunk
  <2> QED
    BY <2>1, <2>2, <2>4 DEF RingInv, RingBound
<1>5. CASE FpgaRead \/ FpgaTake
  BY <1>1, <1>5, OtherStep DEF FpgaRead, FpgaTake, loopvars, parsevars, ghost, faults
<1> QED
  BY <1>2, <1>3, <1>4, <1>5 DEF Fpga

LEMMA HostKeepsRing ==
  ASSUME RingInv, Host
  PROVE  RingInv'
<1>1. outq \in Seq(Nat) /\ left \in LeftType
  BY DEF RingInv, BridgeTypes
<1>2. ASSUME NEW e \in Endpoints, InComplete(e) \/ OutRepeated(e)
      PROVE  RingInv'
  BY <1>1, <1>2, OtherStep DEF InComplete, OutRepeated, fpgavars, parsevars, loopvars, ghost, faults
<1>3. ASSUME NEW e \in Endpoints, ClearIn(e) \/ ClearOut(e)
      PROVE  RingInv'
  <2>1. left' \in LeftType
    BY <1>1, <1>3, SMTT(30) DEF ClearIn, ClearOut, Spend, LeftType
  <2> QED
    BY <1>1, <1>3, <2>1, OtherStep DEF ClearIn, ClearOut, fpgavars, parsevars, loopvars
<1>4. ASSUME NEW e \in Endpoints, NEW len \in PacketLens[e], NEW lost \in BOOLEAN,
             OutComplete(e, len, lost)
      PROVE  RingInv'
  <2>1. /\ left.packets \in Nat /\ left.packets > 0
        /\ left.lost \in Nat /\ (lost => left.lost > 0)
    BY <1>1, <1>4 DEF OutComplete, LeftType
  <2>2. left.packets - 1 \in Nat /\ (IF lost THEN left.lost - 1 ELSE left.lost) \in Nat
    BY <2>1
  <2>3. left' \in LeftType
    BY <1>1, <1>4, <2>2 DEF OutComplete, LeftType
  <2> QED
    BY <1>1, <1>4, <2>3, OtherStep DEF OutComplete, fpgavars, parsevars, loopvars, faults
<1>5. CASE BusReset
  BY <1>5, ResetOfTheBus
<1>6. CASE SetConfiguration
  BY <1>1, <1>6, OtherStep DEF SetConfiguration, fpgavars, parsevars, loopvars, ghost, faults
<1> QED
  BY <1>2, <1>3, <1>4, <1>5, <1>6 DEF Host

LEMMA NextKeepsRing == RingInv /\ [Next]_vars => RingInv'
<1>1. ASSUME RingInv, UNCHANGED vars
      PROVE  RingInv'
  BY <1>1, OtherStep DEF RingInv, BridgeTypes, vars, fpgavars, parsevars, loopvars, ghost, faults
<1> QED
  BY <1>1, MainLoopKeepsRing, ByteArrives, FpgaKeepsRing, HostKeepsRing DEF Next

LEMMA RingInvHolds == Spec => []RingInv
BY InitRingInv, NextKeepsRing, PTL DEF Spec

\* The ring never holds more than CTS_STOP_AT + 4 bytes, whatever the lengths of
\* the frames are and whenever the bus is reset, except in the middle of an update
\* of the pointers or the count: that is the room 140 and 133 must leave
\* (main.c 642, 1545), two more than the bytes on the way explain.
THEOREM RingNeverFull == Spec => [](~torn => Fill <= CTS_STOP_AT + 4)
<1>1. RingInv => (~torn => Fill <= CTS_STOP_AT + 4)
  <2> SUFFICES ASSUME RingInv, ~torn PROVE Fill <= CTS_STOP_AT + 4
    OBVIOUS
  <2>1. /\ Peak \in Nat /\ HeaderCredit \in 0 .. 2 /\ Rise(Peak) >= Peak /\ Rise(Peak) \in Nat
        /\ Peak >= Fill /\ Fill \in Nat
    BY BoundTypes, RingTypes DEF RingInv
  <2>2. Bound <= CTS_STOP_AT + 4
    BY DEF RingInv, RingBound
  <2> QED
    BY <2>1, <2>2, Sizes DEF Bound
<1> QED
  BY <1>1, RingInvHolds, PTL

\* No byte from the FPGA is ever overwritten before it has been read, unless the
\* bus was reset in the middle of an update of the pointers or the count.
THEOREM NothingOverrun == Spec => NoOverrun
<1>1. RingInv /\ [Next]_vars => [Uart1_ISR /\ ~torn => Fill' = Fill + 1]_vars
  BY ByteArrives
<1> QED
  BY <1>1, RingInvHolds, PTL DEF Spec, NoOverrun

-----------------------------------------------------------------------------
(* The endpoints *)

InType == [busy : BOOLEAN, res : {"ACK", "NAK"}, data : Seq(Nat)]

EndpointTypes ==
  /\ inEp \in [Endpoints -> InType]
  /\ FrameBuf \in Seq(Nat)

\* Every place between the header and the endpoint knows active modes only.
ActiveOnly ==
  /\ dataAvailable \subseteq ActiveEndpoints \cup {IO_NONE}
  /\ frame.started /\ ~frame.discard
       => /\ frame.mode \in ActiveEndpoints \cup {IO_NONE}
          /\ pc = "copy" => regs.mode \in ActiveEndpoints \cup {IO_NONE}
  /\ InChunk => regs.mode \in ActiveEndpoints \cup {IO_NONE}
  /\ OnlyActiveEndpoints

ActiveInv == EndpointTypes /\ ActiveOnly

\* A step after which the main loop is in no copy block that it was not in before.
NoNewChunk ==
  /\ InChunk' => InChunk
  /\ pc' = "copy" => pc = "copy"
  /\ InChunk' \/ pc' = "copy" => regs'.mode = regs.mode

LEMMA ModeValues ==
  /\ IO_CDC \in ActiveEndpoints /\ IO_NONE \notin Modes
  /\ \A m \in {IO_CDC, IO_FIDO, IO_CCID, IO_DEBUG} \cap ActiveEndpoints :
       EndpointOf(m) \in Endpoints /\ EndpointOf(m) \in Enabled
<1>1. IO_CDC \in ActiveEndpoints
  BY DEF ActiveEndpoints, Modes, IO_CH552, IO_CDC, IO_FIDO, IO_CCID, IO_DEBUG
<1>2. IO_NONE \notin Modes
  BY DEF Modes, IO_NONE, IO_CH552, IO_CDC, IO_FIDO, IO_CCID, IO_DEBUG
<1>3. ASSUME NEW m \in {IO_CDC, IO_FIDO, IO_CCID, IO_DEBUG}, m \in ActiveEndpoints
      PROVE  EndpointOf(m) \in Endpoints /\ ModeOf(EndpointOf(m)) \in ActiveEndpoints
  BY <1>3 DEF EndpointOf, ModeOf, Endpoints, IO_CH552, IO_CDC, IO_FIDO, IO_CCID, IO_DEBUG
<1> QED
  BY <1>1, <1>2, <1>3 DEF Enabled

\* Nothing changes but what an active endpoint offers.
LEMMA OfferStep ==
  ASSUME ActiveInv, NEW e \in Endpoints, NEW data \in Seq(Nat), e \in Enabled, Offer(e, data),
         dataAvailable' \subseteq dataAvailable, FrameBuf' \in Seq(Nat),
         frame'.started /\ ~frame'.discard
           => frame.started /\ ~frame.discard /\ frame'.mode = frame.mode,
         RESET_KEEP' = RESET_KEEP, NoNewChunk
  PROVE  ActiveInv'
<1>1. inEp \in [Endpoints -> InType]
  BY DEF ActiveInv, EndpointTypes
<1>2. inEp' \in [Endpoints -> InType]
  BY <1>1 DEF Offer, InType
<1>3. ActiveEndpoints' = ActiveEndpoints /\ Enabled' = Enabled
  BY DEF ActiveEndpoints, Enabled, ModeOf
<1>4. OnlyActiveEndpoints'
  BY <1>1, <1>3 DEF Offer, OnlyActiveEndpoints, ActiveInv, ActiveOnly
<1> QED
  BY <1>2, <1>3, <1>4 DEF ActiveInv, ActiveOnly, EndpointTypes, NoNewChunk

\* Less is offered, and nothing new is on its way.
LEMMA WithdrawStep ==
  ASSUME ActiveInv, dataAvailable' \subseteq dataAvailable, FrameBuf' \in Seq(Nat),
         inEp' \in [Endpoints -> InType],
         \A e \in Endpoints : inEp'[e].res = "ACK" => inEp[e].res = "ACK",
         frame'.started /\ ~frame'.discard
           => frame.started /\ ~frame.discard /\ frame'.mode \in {frame.mode, IO_NONE},
         RESET_KEEP' = RESET_KEEP, NoNewChunk
  PROVE  ActiveInv'
<1>1. ActiveEndpoints' = ActiveEndpoints /\ Enabled' = Enabled
  BY DEF ActiveEndpoints, Enabled, ModeOf
<1>2. OnlyActiveEndpoints'
  BY <1>1 DEF OnlyActiveEndpoints, ActiveInv, ActiveOnly
<1> QED
  BY <1>1, <1>2 DEF ActiveInv, ActiveOnly, EndpointTypes, NoNewChunk

LEMMA ResetActive ==
  ASSUME dataAvailable' = {}, FrameBuf' = <<>>, frame' = NoFrame,
         inEp' = [e \in Endpoints |-> IdleIn], pc' = "top"
  PROVE  ActiveInv'
<1>1. inEp' \in [Endpoints -> InType]
  BY DEF IdleIn, InType
<1>2. OnlyActiveEndpoints'
  BY DEF OnlyActiveEndpoints, IdleIn
<1>3. ~frame'.started /\ FrameBuf' \in Seq(Nat)
  BY DEF NoFrame
<1> QED
  BY <1>1, <1>2, <1>3 DEF ActiveInv, ActiveOnly, EndpointTypes, InChunk

LEMMA CopyIsBytes ==
  ASSUME RingInv
  PROVE  circular_copy(ring.out, Chunk) \in Seq(Nat) /\ Len(circular_copy(ring.out, Chunk)) = Chunk
<1>1. /\ ring.buf \in [Pointer -> Nat] /\ ring.out \in Pointer /\ frame.remaining \in Nat
  BY RingTypes DEF RingInv
<1>2. Chunk \in Nat /\ Chunk < UART_RX_BUF_SIZE
  BY <1>1, Sizes DEF Chunk, Min2
<1>3. \A i \in 1 .. Chunk : ring.buf[increment_pointer(ring.out, i - 1)] \in Nat
  <2> SUFFICES ASSUME NEW i \in 1 .. Chunk
               PROVE  ring.buf[increment_pointer(ring.out, i - 1)] \in Nat
    OBVIOUS
  <2>1. i - 1 \in Nat /\ i - 1 < UART_RX_BUF_SIZE
    BY <1>2, Sizes
  <2>2. increment_pointer(ring.out, i - 1) \in Pointer
    BY <1>1, <2>1, MovesOn
  <2> QED
    BY <1>1, <2>2
<1> QED
  BY <1>2, <1>3, IsASeq, LenProperties DEF circular_copy

LEMMA PacketIsBytes ==
  ASSUME NEW m, NEW s \in Seq(Nat)
  PROVE  Packet(m, s) \in Seq(Nat)
<1>1. \A i \in 1 .. MAX_FRAME_SIZE : (IF i <= Len(s) THEN s[i] ELSE 0) \in Nat
  BY Sizes
<1>2. [i \in 1 .. MAX_FRAME_SIZE |-> IF i <= Len(s) THEN s[i] ELSE 0] \in Seq(Nat)
  BY <1>1, Sizes, IsASeq
<1> QED
  BY <1>2 DEF Packet

LEMMA UploadKeepsActive ==
  ASSUME RingInv, ActiveInv, NEW m \in {IO_CDC, IO_FIDO, IO_CCID, IO_DEBUG}, NEW ends \in BOOLEAN,
         CanUpload(m), Uploaded(m, ends), RESET_KEEP' = RESET_KEEP, NoNewChunk
  PROVE  ActiveInv'
<1>1. m \in ActiveEndpoints
  <2>1. m \in dataAvailable /\ m \in Modes
    BY DEF CanUpload, Modes
  <2> QED
    BY <2>1, ModeValues DEF ActiveInv, ActiveOnly
<1>2. EndpointOf(m) \in Endpoints /\ EndpointOf(m) \in Enabled
  BY <1>1, ModeValues
<1>3. Packet(m, FrameBuf) \in Seq(Nat) /\ Offer(EndpointOf(m), Packet(m, FrameBuf))
  BY PacketIsBytes DEF ActiveInv, EndpointTypes, Uploaded
<1>4. /\ dataAvailable' \subseteq dataAvailable /\ FrameBuf' \in Seq(Nat)
      /\ frame'.started /\ ~frame'.discard
           => frame.started /\ ~frame.discard /\ frame'.mode = frame.mode
  BY DEF Uploaded, FrameDone, RingInv, BridgeTypes, FrameType
<1> QED
  BY <1>2, <1>3, <1>4, OfferStep

LEMMA InitActive == Init => ActiveInv
<1> SUFFICES ASSUME Init PROVE ActiveInv
  OBVIOUS
<1>1. inEp \in [Endpoints -> InType]
  BY DEF IdleIn, InType, Init
<1>2. OnlyActiveEndpoints
  BY DEF OnlyActiveEndpoints, IdleIn, Init
<1>3. ~frame.started /\ FrameBuf = <<>> /\ dataAvailable = {} /\ pc = "top"
  BY DEF NoFrame, Init
<1> QED
  BY <1>1, <1>2, <1>3 DEF ActiveInv, ActiveOnly, EndpointTypes, InChunk

LEMMA MainLoopKeepsActive ==
  ASSUME RingInv, ActiveInv, MainLoop
  PROVE  ActiveInv'
<1>1. /\ inEp \in [Endpoints -> InType]
      /\ FrameBuf \in Seq(Nat)
      /\ frame \in FrameType
  BY DEF ActiveInv, EndpointTypes, RingInv, BridgeTypes
<1> USE DEF NoNewChunk, InChunk
<1>2. CASE Top \/ PollEmpty \/ SendMode \/ SendLength \/ SendBuffer \/ SendData \/ Forwarded
           \/ NothingElse \/ Count \/ CountOut \/ CountStore \/ Header \/ LoadMode
           \/ SkipHeader \/ SkipStore \/ Subtract \/ SubStore \/ NoBlock \/ SkipChunk \/ cts_start
  <2>1. UNCHANGED <<inEp, FrameBuf, frame, dataAvailable, RESET_KEEP>>
    BY <1>2 DEF Top, PollEmpty, SendMode, SendLength, SendBuffer, SendData, Forwarded,
                NothingElse, Count, CountOut, CountStore, Header, LoadMode, SkipHeader, SkipStore,
                Subtract, SubStore, NoBlock, Enter, SkipChunk, cts_start, OnlyLoop, parsevars,
                usbvars
  <2>2. NoNewChunk
    <3>1. CASE Top \/ PollEmpty \/ SendMode \/ SendLength \/ SendBuffer \/ SendData
               \/ Forwarded \/ NothingElse \/ Header
      BY <3>1 DEF Top, PollEmpty, SendMode, SendLength, SendBuffer, SendData, Forwarded,
                  NothingElse, Header, NextEndpoint, Goto
    <3>2. CASE Count \/ CountOut \/ CountStore \/ LoadMode \/ SkipHeader \/ SkipStore
               \/ Subtract \/ SubStore \/ NoBlock \/ cts_start
      BY <3>2 DEF Count, CountOut, CountStore, LoadMode, SkipHeader, SkipStore, Subtract,
                  SubStore, NoBlock, Enter, cts_start, Load, Stored
    <3>3. CASE SkipChunk
      BY <3>3, RingTypes DEF SkipChunk, Load, RingInv, BridgeTypes, RegsType
    <3> QED
      BY <1>2, <3>1, <3>2, <3>3
  <2> QED
    BY <1>1, <2>1, <2>2, WithdrawStep
<1>3. CASE StoreMode \/ (\E len \in 0 .. MaxLength : TakeLength(len))
  <2>1. /\ UNCHANGED <<inEp, FrameBuf, dataAvailable, RESET_KEEP>>
        /\ pc \in {"modeStore", "check"} /\ pc' \in {"check", "skip"}
        /\ frame'.started = frame.started
    BY <1>1, <1>3 DEF StoreMode, TakeLength, Goto, usbvars, FrameType
  <2>2. ~frame.started
    BY <2>1 DEF RingInv, ModeIsOld, InHeader
  <2> QED
    BY <1>1, <2>1, <2>2, WithdrawStep
<1>4. CASE BadHeader \/ Command
  BY <1>4, ResetActive DEF BadHeader, Command, SoftReset
<1>5. CASE NoHeader \/ StartFrame \/ (\E mode \in Modes : CopyBlock(mode)) \/ DiscardBlock
           \/ Copy \/ ChunkStore
  <2>1. UNCHANGED <<inEp, RESET_KEEP>>
    BY <1>5 DEF NoHeader, StartFrame, CopyBlock, DiscardBlock, Enter, Copy, ChunkStore, OnlyLoop,
                usbvars
  <2>2. ActiveEndpoints' = ActiveEndpoints /\ Enabled' = Enabled
    BY <2>1 DEF ActiveEndpoints, Enabled, ModeOf
  <2>3. OnlyActiveEndpoints'
    BY <2>1, <2>2 DEF OnlyActiveEndpoints, ActiveInv, ActiveOnly
  <2>4. regs \in RegsType
    BY DEF RingInv, BridgeTypes
  <2>5. CASE NoHeader
    <3>1. /\ UNCHANGED <<FrameBuf, frame, dataAvailable>> /\ pc' = "copy"
          /\ regs'.mode = frame.mode
      BY <2>4, <2>5 DEF NoHeader, OnlyLoop, parsevars, RegsType
    <3> QED
      BY <2>1, <2>2, <2>3, <3>1 DEF ActiveInv, ActiveOnly, EndpointTypes
  <2>6. CASE StartFrame
    <3>1. PICK mode \in {regs.mode, frame.mode} :
            frame' = [frame EXCEPT !.started = TRUE, !.discard = @ \/ mode \notin ActiveEndpoints]
      BY <2>6 DEF StartFrame, FrameMode, Discards
    <3>2. /\ UNCHANGED <<FrameBuf, dataAvailable, regs>> /\ pc = "begin" /\ pc' = "copy"
          /\ frame'.mode = frame.mode
          /\ ~frame'.discard => mode \in ActiveEndpoints
      BY <1>1, <2>6, <3>1 DEF StartFrame, Goto, FrameType
    <3>3. frame.mode \in {regs.mode, IO_NONE}
      BY <3>2 DEF RingInv, ModeIsOld
    <3>4. IO_NONE \notin ActiveEndpoints
      BY DEF ActiveEndpoints, Modes, IO_NONE, IO_CH552, IO_CDC, IO_FIDO, IO_CCID, IO_DEBUG
    <3>5. ~frame'.discard => {regs.mode, frame.mode} \subseteq ActiveEndpoints \cup {IO_NONE}
      BY <3>2, <3>3, <3>4
    <3> QED
      BY <2>1, <2>2, <2>3, <3>2, <3>5 DEF ActiveInv, ActiveOnly, EndpointTypes
  <2>7. ASSUME NEW mode \in Modes, CopyBlock(mode)
        PROVE  ActiveInv'
    <3>1. /\ UNCHANGED <<FrameBuf, frame, dataAvailable>> /\ pc = "copy" /\ pc' = "take"
          /\ regs'.mode = mode /\ mode \in {regs.mode, frame.mode}
          /\ frame.started /\ ~frame.discard
      BY <2>4, <2>7 DEF CopyBlock, Enter, CanCopy, FrameMode, OnlyLoop, parsevars, RegsType
    <3> QED
      BY <2>1, <2>2, <2>3, <3>1 DEF ActiveInv, ActiveOnly, EndpointTypes
  <2>8. CASE DiscardBlock
    <3>1. /\ UNCHANGED <<FrameBuf, frame, dataAvailable>> /\ pc' = "move" /\ regs'.mode = IO_NONE
      BY <2>4, <2>8 DEF DiscardBlock, Enter, OnlyLoop, parsevars, RegsType
    <3> QED
      BY <2>1, <2>2, <2>3, <3>1 DEF ActiveInv, ActiveOnly, EndpointTypes
  <2>9. CASE Copy
    <3>1. UNCHANGED <<frame, dataAvailable, regs>> /\ pc = "take" /\ pc' = "move"
      BY <2>9 DEF Copy, Goto
    <3>2. FrameBuf' \in Seq(Nat)
      BY <2>9, CopyIsBytes DEF Copy
    <3> QED
      BY <2>1, <2>2, <2>3, <3>1, <3>2 DEF ActiveInv, ActiveOnly, EndpointTypes
  <2>10. CASE ChunkStore
    <3>1. /\ UNCHANGED FrameBuf /\ pc = "moveStore" /\ pc' = "resume"
          /\ dataAvailable' = dataAvailable \cup {regs.mode}
          /\ frame'.started = frame.started /\ frame'.mode = frame.mode
          /\ frame'.discard = frame.discard
      BY <1>1, <2>10 DEF ChunkStore, Stored, Load, FrameType
    <3> QED
      BY <2>1, <2>2, <2>3, <3>1 DEF ActiveInv, ActiveOnly, EndpointTypes
  <2> QED
    BY <1>5, <2>5, <2>6, <2>7, <2>8, <2>9, <2>10
<1>6. CASE UploadCdc
  <2>1. CASE CanUpload(IO_CDC) /\ Uploaded(IO_CDC, FALSE)
    BY <1>6, <2>1, UploadKeepsActive DEF UploadCdc, Goto
  <2>2. CASE UNCHANGED <<CdcSendZeroLenPacket, inEp, dataAvailable, FrameBuf, frame>>
    BY <1>1, <1>6, <2>2, WithdrawStep DEF UploadCdc, Goto
  <2> QED
    BY <1>6, <2>1, <2>2 DEF UploadCdc
<1>7. CASE UploadZlp
  <2>1. UNCHANGED <<dataAvailable, FrameBuf, frame, RESET_KEEP>> /\ NoNewChunk
    BY <1>7 DEF UploadZlp, Goto
  <2>2. 2 \in Endpoints /\ 2 \in Enabled
    BY ModeValues DEF EndpointOf, Endpoints, IO_CDC, IO_FIDO, IO_CCID, IO_DEBUG
  <2>3. CASE Offer(2, <<>>)
    <3>1. <<>> \in Seq(Nat)
      OBVIOUS
    <3> QED
      BY <1>1, <2>1, <2>2, <2>3, <3>1, OfferStep
  <2>4. CASE UNCHANGED <<inEp, CdcSendZeroLenPacket>>
    BY <1>1, <2>1, <2>4, WithdrawStep
  <2> QED
    BY <1>7, <2>3, <2>4 DEF UploadZlp
<1>8. ASSUME NEW m \in {IO_FIDO, IO_CCID, IO_DEBUG}, UploadOther(m)
      PROVE  ActiveInv'
  <2>1. (m # IO_DEBUG) \in BOOLEAN
    OBVIOUS
  <2> QED
    BY <1>8, <2>1, UploadKeepsActive DEF UploadOther, Goto
<1>9. CASE NoCommand
  BY <1>1, <1>9, WithdrawStep DEF NoCommand, FrameDone, Goto, usbvars, FrameType
<1>10. CASE Discarded
  <2>1. frame'.started /\ ~frame'.discard => ~frame.discard /\ frame.started
                                             /\ frame'.mode = frame.mode
    BY <1>1, <1>10 DEF Discarded, FrameType
  <2> QED
    BY <1>1, <1>10, <2>1, WithdrawStep DEF Discarded, Goto, usbvars
<1> QED
  BY <1>2, <1>3, <1>4, <1>5, <1>6, <1>7, <1>8, <1>9, <1>10 DEF MainLoop

LEMMA OthersKeepActive ==
  ASSUME RingInv, ActiveInv, Uart1_ISR \/ Fpga \/ Host \/ UNCHANGED vars
  PROVE  ActiveInv'
<1>1. /\ inEp \in [Endpoints -> InType]
      /\ FrameBuf \in Seq(Nat)
      /\ frame \in FrameType
  BY DEF ActiveInv, EndpointTypes, RingInv, BridgeTypes
<1> USE DEF NoNewChunk, InChunk
<1>2. CASE UNCHANGED <<inEp, FrameBuf, frame, dataAvailable, RESET_KEEP, pc, regs>>
  BY <1>1, <1>2, WithdrawStep
<1>3. CASE Uart1_ISR \/ Fpga \/ UNCHANGED vars
  BY <1>2, <1>3 DEF Uart1_ISR, Fpga, FpgaWrite, FpgaSetEndpoints, FpgaSend, FpgaRead, FpgaTake,
                    vars, parsevars, usbvars, loopvars
<1>4. ASSUME NEW e \in Endpoints, InComplete(e)
      PROVE  ActiveInv'
  <2>1. /\ inEp' = [inEp EXCEPT ![e] = IdleIn]
        /\ UNCHANGED <<FrameBuf, frame, dataAvailable, RESET_KEEP, pc, regs>>
    BY <1>4 DEF InComplete, parsevars, loopvars
  <2>2. IdleIn \in InType /\ IdleIn.res = "NAK"
    BY DEF IdleIn, InType
  <2>3. inEp' \in [Endpoints -> InType]
    BY <1>1, <2>1, <2>2
  <2>4. \A d \in Endpoints : inEp'[d].res = "ACK" => inEp[d].res = "ACK"
    BY <1>1, <2>1, <2>2
  <2> QED
    BY <1>1, <2>1, <2>3, <2>4, WithdrawStep
<1>5. ASSUME NEW e \in Endpoints, ClearIn(e)
      PROVE  ActiveInv'
  <2>1. /\ inEp' = [inEp EXCEPT ![e].res = "NAK"]
        /\ UNCHANGED <<FrameBuf, frame, dataAvailable, RESET_KEEP, pc, regs>>
    BY <1>5 DEF ClearIn, parsevars, loopvars
  <2>2. inEp' \in [Endpoints -> InType]
    BY <1>1, <2>1 DEF InType
  <2>3. \A d \in Endpoints : inEp'[d].res = "ACK" => inEp[d].res = "ACK"
    BY <1>1, <2>1
  <2> QED
    BY <1>1, <2>1, <2>2, <2>3, WithdrawStep
<1>6. CASE BusReset
  <2>1. /\ inEp' = [e \in Endpoints |-> [IdleIn EXCEPT !.data = inEp[e].data]]
        /\ UNCHANGED <<FrameBuf, dataAvailable, RESET_KEEP, pc, regs>>
        /\ frame' = [frame EXCEPT !.mode = IO_NONE]
    BY <1>6 DEF BusReset, loopvars
  <2>2. ASSUME NEW d \in Seq(Nat)
        PROVE  /\ [IdleIn EXCEPT !.data = d] \in
                    InType
               /\ [IdleIn EXCEPT !.data = d].res = "NAK"
    BY DEF IdleIn, InType
  <2>3. inEp' \in [Endpoints -> InType]
    <3>1. \A e \in Endpoints : inEp[e].data \in Seq(Nat)
      BY <1>1 DEF InType
    <3> QED
      BY <2>1, <2>2, <3>1
  <2>4. \A e \in Endpoints : inEp'[e].res # "ACK"
    BY <1>1, <2>1, <2>2 DEF InType
  <2>5. frame'.started = frame.started /\ frame'.discard = frame.discard /\ frame'.mode = IO_NONE
    BY <1>1, <2>1 DEF FrameType
  <2> QED
    BY <1>1, <2>1, <2>3, <2>4, <2>5, WithdrawStep
<1>7. ASSUME NEW e \in Endpoints,
             OutRepeated(e) \/ ClearOut(e)
             \/ \E len \in PacketLens[e], lost \in BOOLEAN : OutComplete(e, len, lost)
      PROVE  ActiveInv'
  BY <1>2, <1>7 DEF OutRepeated, ClearOut, OutComplete, parsevars, usbvars, loopvars
<1>8. CASE SetConfiguration
  BY <1>2, <1>8 DEF SetConfiguration, parsevars, loopvars
<1> QED
  BY <1>3, <1>4, <1>5, <1>6, <1>7, <1>8 DEF Host

LEMMA ActiveInvHolds == Spec => []ActiveInv
<1>1. RingInv /\ ActiveInv /\ [Next]_vars => ActiveInv'
  BY MainLoopKeepsActive, OthersKeepActive DEF Next
<1> QED
  BY <1>1, InitActive, RingInvHolds, PTL DEF Spec

\* Whatever the parser takes for a header after a bus reset, and for every
\* mask: nothing is offered on an endpoint that is switched off.
THEOREM NothingOnInactive == Spec => []OnlyActiveEndpoints
<1>1. ActiveInv => OnlyActiveEndpoints
  BY DEF ActiveInv, ActiveOnly
<1> QED
  BY <1>1, ActiveInvHolds, PTL

-----------------------------------------------------------------------------
(* From the host to the FPGA *)

ModesAt(e) == {m \in Modes \ {IO_CH552} : EndpointOf(m) = e}
HostFrames == {f \in Frames : f.mode # IO_CH552}
FramesAt(e) == {f \in Frames : f.mode \in ModesAt(e)}

DownTypes ==
  /\ fifo \in Seq(Nat) /\ rx \in Seq(Nat)
  /\ outEp \in [Endpoints -> [count : 0 .. MAX_FRAME_SIZE, res : {"ACK", "NAK"},
                              data : [1 .. MAX_FRAME_SIZE -> Nat]]]
  /\ DOMAIN sent = Endpoints /\ sent = [e \in Endpoints |-> sent[e]]
  /\ \A e \in Endpoints : sent[e] \in Seq(FramesAt(e))
  /\ ep \in Endpoints
  /\ tx \in [len : 0 .. MAX_FRAME_SIZE, pos : 0 .. MAX_FRAME_SIZE]
  /\ disturbed \in BOOLEAN

Sending == pc \in {"length", "buffer", "data"}

PacketData(e) == [i \in 1 .. outEp[e].count |-> outEp[e].data[i]]

\* The packet of endpoint e that the main loop has not looked at yet.
Waiting(e) ==
  IF outEp[e].count > 0 /\ ~(Sending /\ e = ep) THEN <<Frame(ModeOf(e), PacketData(e))>> ELSE <<>>

\* What is left to send of the packet that is being forwarded.
Rest ==
  IF pc = "length" THEN <<outEp[ep].count>> \o PacketData(ep)
  ELSE IF pc = "buffer" THEN PacketData(ep)
  ELSE IF pc = "data" THEN SubSeq(PacketData(ep), tx.pos + 1, tx.len)
  ELSE <<>>

Held ==
  /\ \A e \in Endpoints : outEp[e].count > 0 => outEp[e].res = "NAK"
  /\ Sending => outEp[ep].count > 0
  /\ pc = "data" => tx.len = outEp[ep].count /\ tx.pos <= tx.len

\* The mode and the length are sent without asking for clear-to-send.
Room ==
  Len(fifo) <= IF pc = "length" THEN FIFO_STOP_AT + 1
               ELSE IF pc = "buffer" \/ (pc = "data" /\ tx.pos = 0) THEN FIFO_STOP_AT + 2
               ELSE FIFO_STOP_AT

DownLine == rx \o (fifo \o Rest)

\* What has been forwarded is whole packets, and with those that wait it is what
\* the host has sent to each endpoint.
Forwards(F, P) ==
  /\ Spelled(DownLine, F)
  /\ \A e \in Endpoints : PartOf(P[e], F, ModesAt(e)) /\ sent[e] = P[e] \o Waiting(e)

Down ==
  \E F \in Seq(HostFrames) : \E P \in [Endpoints -> Seq(Frames)] : Forwards(F, P)

DownInv == DownTypes /\ (~disturbed => Held /\ Room /\ Down)

LEMMA EndpointModes ==
  /\ \A e \in Endpoints : ModeOf(e) \in ModesAt(e) /\ ModeOf(e) \in Modes /\ ModeOf(e) # IO_CH552
  /\ \A m \in Modes \ {IO_CH552} : EndpointOf(m) \in Endpoints
  /\ \A e \in Endpoints : ModesAt(e) \subseteq Modes \ {IO_CH552}
<1>1. /\ Modes \ {IO_CH552} = {IO_CDC, IO_FIDO, IO_CCID, IO_DEBUG}
      /\ EndpointOf(IO_CDC) = 2 /\ EndpointOf(IO_FIDO) = 3 /\ EndpointOf(IO_CCID) = 3
      /\ EndpointOf(IO_DEBUG) = 4 /\ Endpoints = {2, 3, 4}
  BY DEF Modes, EndpointOf, Endpoints, IO_CH552, IO_CDC, IO_FIDO, IO_CCID, IO_DEBUG
<1>2. ModeOf(2) = IO_CDC /\ ModeOf(3) \in {IO_FIDO, IO_CCID} /\ ModeOf(4) = IO_DEBUG
  BY DEF ModeOf
<1> QED
  BY <1>1, <1>2 DEF ModesAt

LEMMA FrameSets ==
  /\ HostFrames \subseteq Frames
  /\ \A e \in Endpoints : FramesAt(e) \subseteq HostFrames
  /\ \A f \in HostFrames : EndpointOf(f.mode) \in Endpoints
                           /\ \A e \in Endpoints : f.mode \in ModesAt(e) <=> e = EndpointOf(f.mode)
BY EndpointModes DEF HostFrames, FramesAt, ModesAt, Frames

LEMMA PacketDataType ==
  ASSUME DownTypes, NEW e \in Endpoints
  PROVE  /\ PacketData(e) \in Seq(Nat) /\ Len(PacketData(e)) = outEp[e].count
         /\ outEp[e].count \in Nat
         /\ \A i \in 1 .. outEp[e].count : PacketData(e)[i] = outEp[e].data[i]
<1>1. outEp[e].count \in 0 .. MAX_FRAME_SIZE /\ outEp[e].data \in [1 .. MAX_FRAME_SIZE -> Nat]
  BY DEF DownTypes
<1>2. \A i \in 1 .. outEp[e].count : outEp[e].data[i] \in Nat
  BY <1>1, Sizes
<1>3. outEp[e].count \in Nat
  BY <1>1, Sizes
<1> QED
  BY <1>2, <1>3, IsASeq, LenProperties DEF PacketData

LEMMA WaitingType ==
  ASSUME DownTypes, NEW e \in Endpoints
  PROVE  /\ Frame(ModeOf(e), PacketData(e)) \in FramesAt(e)
         /\ Waiting(e) \in Seq(FramesAt(e)) /\ Waiting(e) \in Seq(Frames)
<1>1. Frame(ModeOf(e), PacketData(e)) \in FramesAt(e)
  BY PacketDataType, EndpointModes DEF Frame, FramesAt, Frames
<1>2. Waiting(e) \in Seq(FramesAt(e))
  BY <1>1 DEF Waiting
<1> QED
  BY <1>1, <1>2, SeqMonotonic DEF FramesAt

LEMMA RestType ==
  ASSUME DownTypes, ~disturbed => Held
  PROVE  ~disturbed => Rest \in Seq(Nat) /\ DownLine \in Seq(Nat)
<1> SUFFICES ASSUME ~disturbed, Held PROVE Rest \in Seq(Nat) /\ DownLine \in Seq(Nat)
  OBVIOUS
<1>1. ep \in Endpoints /\ tx.pos \in Nat /\ tx.len \in Nat /\ fifo \in Seq(Nat) /\ rx \in Seq(Nat)
  BY Sizes DEF DownTypes
<1>2. PacketData(ep) \in Seq(Nat) /\ Len(PacketData(ep)) = outEp[ep].count /\ outEp[ep].count \in Nat
  BY <1>1, PacketDataType
<1>3. Rest \in Seq(Nat)
  <2>1. CASE pc = "length"
    BY <1>2, <2>1, ConcatProperties DEF Rest
  <2>2. CASE pc = "data"
    <3>1. tx.len = Len(PacketData(ep)) /\ tx.pos + 1 \in Int /\ tx.len \in Int
      BY <1>1, <1>2, <2>2 DEF Held
    <3>2. \A i \in tx.pos + 1 .. tx.len : PacketData(ep)[i] \in Nat
      BY <1>1, <1>2, <3>1, SMTT(30)
    <3>3. SubSeq(PacketData(ep), tx.pos + 1, tx.len) \in Seq(Nat)
      BY <3>1, <3>2, SubSeqProperties
    <3> QED
      BY <2>2, <3>3 DEF Rest
  <2> QED
    BY <1>2, <2>1, <2>2 DEF Rest
<1> QED
  BY <1>1, <1>3, ConcatProperties DEF DownLine

\* A step that neither takes a packet from the host nor gives one to the FPGA.
LEMMA SameLine ==
  ASSUME DownInv, DownTypes', disturbed' = disturbed, sent' = sent,
         ~disturbed => Held' /\ Room' /\ DownLine' = DownLine,
         ~disturbed => \A e \in Endpoints : Waiting(e)' = Waiting(e)
  PROVE  DownInv'
<1> SUFFICES ASSUME ~disturbed PROVE Down'
  BY DEF DownInv
<1>1. PICK F \in Seq(HostFrames), P \in [Endpoints -> Seq(Frames)] : Forwards(F, P)
  BY DEF DownInv, Down
<1>2. Forwards(F, P)'
  BY <1>1 DEF Forwards
<1> QED
  BY <1>1, <1>2 DEF Down

\* The main loop does something else than sending.
LEMMA NotSending ==
  ASSUME DownInv, ~Sending, ~Sending', ep' \in Endpoints,
         tx' \in [len : 0 .. MAX_FRAME_SIZE, pos : 0 .. MAX_FRAME_SIZE],
         UNCHANGED <<fifo, rx, outEp, sent, RESET_KEEP, disturbed>>
  PROVE  DownInv'
<1>1. DownTypes'
  BY DEF DownInv, DownTypes
<1>2. Held' <=> Held
  BY DEF Held, Sending
<1>3. Room' <=> Room
  BY DEF Room, Sending
<1>4. DownLine' = DownLine
  BY DEF DownLine, Rest, Sending
<1>5. \A e \in Endpoints : Waiting(e)' = Waiting(e)
  <2> SUFFICES ASSUME NEW e \in Endpoints PROVE Waiting(e)' = Waiting(e)
    OBVIOUS
  <2>1. ModeOf(e)' = ModeOf(e)
    BY DEF ModeOf, ActiveEndpoints
  <2> QED
    BY <2>1 DEF Waiting, PacketData
<1> QED
  BY <1>1, <1>2, <1>3, <1>4, <1>5, SameLine DEF DownInv

LEMMA NothingSent ==
  ASSUME DownInv, UNCHANGED <<fifo, rx, outEp, sent, RESET_KEEP, disturbed, pc, ep, tx>>
  PROVE  DownInv'
<1>1. DownTypes'
  BY DEF DownInv, DownTypes
<1>2. /\ Held' <=> Held
      /\ Room' <=> Room
      /\ DownLine' = DownLine
  BY DEF Held, Sending, Room, DownLine, Rest, PacketData
<1>3. \A e \in Endpoints : Waiting(e)' = Waiting(e)
  <2> SUFFICES ASSUME NEW e \in Endpoints PROVE Waiting(e)' = Waiting(e)
    OBVIOUS
  <2>1. ModeOf(e)' = ModeOf(e)
    BY DEF ModeOf, ActiveEndpoints
  <2> QED
    BY <2>1 DEF Waiting, PacketData, Sending
<1> QED
  BY <1>1, <1>2, <1>3, SameLine DEF DownInv

\* A byte to the FIFO: there is room for it.
LEMMA Transmitted ==
  ASSUME fifo \in Seq(Nat), NEW b \in Nat, Transmit(b)
  PROVE  /\ fifo' \in Seq(Nat) /\ rx' = rx
         /\ Len(fifo) < FIFO_STOP_AT + 2 => fifo' = Append(fifo, b) /\ Len(fifo') = Len(fifo) + 1
<1>1. FIFO_STOP_AT \in Nat /\ FIFO_SIZE \in Nat /\ FIFO_STOP_AT + 2 <= FIFO_SIZE
  BY SizeAssumption
<1>2. Append(fifo, b) \in Seq(Nat) /\ Len(Append(fifo, b)) = Len(fifo) + 1 /\ Len(fifo) \in Nat
  BY AppendProperties
<1>3. Len(fifo) < FIFO_STOP_AT + 2 => Len(fifo) < FIFO_SIZE
  <2> DEFINE k == Len(fifo)
  <2>1. k \in Nat
    BY <1>2
  <2> HIDE DEF k
  <2>2. k < FIFO_STOP_AT + 2 => k < FIFO_SIZE
    BY <1>1, <2>1
  <2> QED
    BY <2>2 DEF k
<1> QED
  BY <1>2, <1>3 DEF Transmit

LEMMA NatConcat ==
  \A a, b, c \in Seq(Nat) : (a \o b) \o c = a \o (b \o c)
BY ConcatAssociative, SMTT(30)

\* The first byte of what is left goes to the FIFO.
LEMMA LineKept ==
  ASSUME NEW r \in Seq(Nat), NEW f \in Seq(Nat), NEW b \in Nat, NEW t \in Seq(Nat)
  PROVE  r \o (Append(f, b) \o t) = r \o (f \o (<<b>> \o t))
<1>1. Append(f, b) = f \o <<b>> /\ <<b>> \in Seq(Nat)
  BY AppendIsConcat
<1>2. (f \o <<b>>) \o t = f \o (<<b>> \o t)
  BY <1>1, ConcatAssociative
<1> QED
  BY <1>1, <1>2

LEMMA PairIsConcat ==
  ASSUME NEW m \in Nat, NEW n \in Nat
  PROVE  /\ <<m>> \in Seq(Nat) /\ <<n>> \in Seq(Nat) /\ <<m, n>> \in Seq(Nat)
         /\ <<m>> \o <<n>> = <<m, n>>
<1>1. <<m>> \in Seq(Nat) /\ <<n>> \in Seq(Nat) /\ <<m, n>> \in Seq(Nat)
  OBVIOUS
<1> DEFINE a == <<m>> \o <<n>>
           b == <<m, n>>
<1>2. /\ a \in Seq(Nat) /\ Len(a) = Len(<<m>>) + Len(<<n>>)
      /\ \A i \in 1 .. Len(<<m>>) + Len(<<n>>) :
           a[i] = IF i <= Len(<<m>>) THEN <<m>>[i] ELSE <<n>>[i - Len(<<m>>)]
  BY <1>1, ConcatProperties
<1>3. Len(a) = 2 /\ a[1] = m /\ a[2] = n
  BY <1>2
<1>4. Len(b) = 2 /\ b[1] = m /\ b[2] = n
  OBVIOUS
<1> HIDE DEF a, b
<1>5. \A i \in 1 .. Len(a) : a[i] = b[i]
  BY <1>3, <1>4
<1>6. a = b
  BY <1>1, <1>2, <1>3, <1>4, <1>5, SeqEqual DEF b
<1> QED
  BY <1>1, <1>6 DEF a, b

\* SendMode: the whole packet counts as forwarded from here on.
LEMMA ModeSent ==
  ASSUME DownInv, SendMode
  PROVE  DownInv'
<1>1. /\ pc = "poll" /\ pc' = "length" /\ outEp[ep].count > 0
      /\ Transmit(ModeOf(ep)) /\ ep \in Endpoints /\ DownTypes
      /\ UNCHANGED <<rx, outEp, sent, RESET_KEEP, disturbed, ep, tx>>
  BY DEF SendMode, Goto, Transmit, usbvars, ghost, faults, DownInv, DownTypes
<1>2. ModeOf(ep) \in Nat
  BY <1>1, EndpointModes, BytesAreNats
<1>3. /\ fifo' \in Seq(Nat)
      /\ Len(fifo) < FIFO_STOP_AT + 2
           => fifo' = Append(fifo, ModeOf(ep)) /\ Len(fifo') = Len(fifo) + 1
  BY <1>1, <1>2, Transmitted DEF DownTypes
<1>4. DownTypes'
  BY <1>1, <1>3 DEF DownTypes
<1> SUFFICES ASSUME ~disturbed PROVE Held' /\ Room' /\ Down'
  BY <1>1, <1>4 DEF DownInv
<1>5. Held /\ Room /\ Down
  BY DEF DownInv
<1>6. FIFO_STOP_AT \in Nat /\ Len(fifo) \in Nat /\ Len(fifo) <= FIFO_STOP_AT
  BY <1>1, <1>5, SizeAssumption DEF Room, DownTypes
<1>7. fifo' = Append(fifo, ModeOf(ep)) /\ Len(fifo') = Len(fifo) + 1
  BY <1>3, <1>6
<1>8. Held' /\ Room'
  BY <1>1, <1>5, <1>6, <1>7 DEF Held, Room, Sending
<1>9. PICK F \in Seq(HostFrames), P \in [Endpoints -> Seq(Frames)] : Forwards(F, P)
  BY <1>5 DEF Down
<1>f. PICK f : f = Frame(ModeOf(ep), PacketData(ep))
  OBVIOUS
<1>10. f \in FramesAt(ep) /\ f \in HostFrames /\ f \in Frames /\ f.mode \in ModesAt(ep)
       /\ f.mode = ModeOf(ep) /\ f.data = PacketData(ep)
  BY <1>1, <1>f, WaitingType, FrameSets DEF FramesAt, Frame
<1>11. F \in Seq(Frames)
  BY SeqMonotonic, FrameSets
<1>12. DownLine' = DownLine \o Framed(f)
  <2> DEFINE m == ModeOf(ep)
             D == PacketData(ep)
             n == outEp[ep].count
  <2>1. D \in Seq(Nat) /\ Len(D) = n /\ n \in Nat /\ m \in Nat
    BY <1>1, <1>2, PacketDataType
  <2>2. DownLine' = rx \o (Append(fifo, m) \o (<<n>> \o D))
    BY <1>1, <1>7 DEF DownLine, Rest, PacketData
  <2>3. DownLine = rx \o fifo
    BY <1>1, ConcatEmptySeq DEF DownLine, Rest, DownTypes
  <2>4. Framed(f) = <<m, n>> \o D
    BY <1>10, <2>1 DEF Framed
  <2> HIDE DEF m, D, n
  <2>5. <<n>> \in Seq(Nat) /\ <<m>> \in Seq(Nat) /\ <<m, n>> \in Seq(Nat)
        /\ <<m>> \o <<n>> = <<m, n>> /\ fifo \in Seq(Nat) /\ rx \in Seq(Nat)
    BY <1>1, <2>1, PairIsConcat DEF DownTypes
  <2>6. <<m>> \o (<<n>> \o D) = <<m, n>> \o D
    BY <2>1, <2>5, ConcatAssociative
  <2>7. <<n>> \o D \in Seq(Nat) /\ <<m, n>> \o D \in Seq(Nat)
    BY <2>1, <2>5, ConcatProperties
  <2>8. DownLine' = rx \o (fifo \o (<<m, n>> \o D))
    <3> DEFINE t == <<n>> \o D
    <3>1. t \in Seq(Nat)
      BY <2>7
    <3>2. DownLine' = rx \o (Append(fifo, m) \o t) /\ <<m>> \o t = <<m, n>> \o D
      BY <2>2, <2>6
    <3> HIDE DEF t
    <3>3. rx \o (Append(fifo, m) \o t) = rx \o (fifo \o (<<m>> \o t))
      <4>1. rx \in Seq(Nat) /\ fifo \in Seq(Nat) /\ m \in Nat
        BY <2>1, <2>5
      <4> QED
        BY <3>1, <4>1, LineKept, Zenon
    <3> QED
      BY <3>2, <3>3
  <2>9. (rx \o fifo) \o (<<m, n>> \o D) = rx \o (fifo \o (<<m, n>> \o D))
    <3> DEFINE t == <<m, n>> \o D
    <3>1. t \in Seq(Nat)
      BY <2>7
    <3> HIDE DEF t
    <3>2. (rx \o fifo) \o t = rx \o (fifo \o t)
      <4>1. rx \in Seq(Nat) /\ fifo \in Seq(Nat)
        BY <2>5
      <4> QED
        BY <3>1, <4>1, NatConcat
    <3> QED
      BY <3>2 DEF t
  <2> QED
    BY <2>3, <2>4, <2>8, <2>9
<1>13. Spelled(DownLine', Append(F, f))
  BY <1>1, <1>5, <1>9, <1>10, <1>11, <1>12, RestType, SpelledAppend DEF Forwards
<1>14. PICK Q \in [Endpoints -> Seq(Frames)] : Q = [P EXCEPT ![ep] = Append(@, f)]
  <2>1. \A e \in Endpoints : Append(P[e], f) \in Seq(Frames)
    BY <1>10, AppendProperties
  <2> QED
    BY <2>1
<1>15. ASSUME NEW e \in Endpoints
       PROVE  PartOf(Q[e], Append(F, f), ModesAt(e)) /\ sent'[e] = Q[e] \o Waiting(e)'
  <2>1. PartOf(P[e], F, ModesAt(e)) /\ sent[e] = P[e] \o Waiting(e) /\ P[e] \in Seq(Frames)
    BY <1>9 DEF Forwards
  <2>2. CASE e = ep
    <3>1. Waiting(e) = <<f>> /\ Waiting(e)' = <<>>
      BY <1>1, <1>f, <2>2 DEF Waiting, Sending
    <3>2. Q[e] = Append(P[e], f) /\ Append(P[e], f) = P[e] \o <<f>>
          /\ Append(P[e], f) \in Seq(Frames)
      <4>1. Q[e] = Append(P[e], f)
        BY <1>1, <1>14, <2>2
      <4>2. P[e] \in Seq(Frames) /\ f \in Frames
        BY <1>10, <2>1
      <4> QED
        BY <4>1, <4>2, AppendIsConcat, AppendProperties
    <3>3. Q[e] \o Waiting(e)' = Q[e]
      BY <3>1, <3>2, ConcatEmptySeq
    <3>4. PartOf(Append(P[e], f), Append(F, f), ModesAt(e))
      BY <1>10, <1>11, <2>1, <2>2, PartOfAppend
    <3> QED
      BY <1>1, <2>1, <3>1, <3>2, <3>3, <3>4
  <2>3. CASE e # ep
    <3>1. f.mode \notin ModesAt(e)
      BY <1>1, <1>10, <2>3, FrameSets
    <3>2. Q[e] = P[e]
      BY <1>1, <1>14, <2>3
    <3>3. Waiting(e)' = Waiting(e)
      <4>1. ModeOf(e)' = ModeOf(e)
        BY <1>1 DEF ModeOf, ActiveEndpoints
      <4> QED
        BY <1>1, <2>3, <4>1 DEF Waiting, PacketData
    <3>4. PartOf(P[e], Append(F, f), ModesAt(e))
      BY <1>10, <1>11, <2>1, <3>1, PartOfSkip
    <3> QED
      BY <1>1, <2>1, <3>2, <3>3, <3>4
  <2> QED
    BY <2>2, <2>3
<1>16. Forwards(Append(F, f), Q)'
  <2>1. \A e \in Endpoints : PartOf(Q[e], Append(F, f), ModesAt(e)) /\ sent'[e] = Q[e] \o Waiting(e)'
    BY <1>15
  <2> QED
    BY <1>13, <2>1 DEF Forwards
<1>17. Down'
  <2>1. Append(F, f) \in Seq(HostFrames)
    BY <1>10, AppendProperties
  <2> QED
    BY <2>1, <1>16 DEF Down
<1> QED
  BY <1>8, <1>17

LEMMA LengthSent ==
  ASSUME DownInv, SendLength
  PROVE  DownInv'
<1>1. /\ pc = "length" /\ pc' = "buffer" /\ Transmit(outEp[ep].count) /\ ep \in Endpoints
      /\ DownTypes /\ UNCHANGED <<rx, outEp, sent, RESET_KEEP, disturbed, ep, tx>>
  BY DEF SendLength, Goto, Transmit, usbvars, ghost, faults, DownInv, DownTypes
<1>2. /\ outEp[ep].count \in Nat /\ PacketData(ep) \in Seq(Nat)
      /\ rx \in Seq(Nat) /\ fifo \in Seq(Nat)
  BY <1>1, PacketDataType DEF DownTypes
<1>3. /\ fifo' \in Seq(Nat)
      /\ Len(fifo) < FIFO_STOP_AT + 2
           => fifo' = Append(fifo, outEp[ep].count) /\ Len(fifo') = Len(fifo) + 1
  BY <1>1, <1>2, Transmitted
<1>4. DownTypes'
  BY <1>1, <1>3 DEF DownTypes
<1>5. ASSUME ~disturbed PROVE Held' /\ Room' /\ DownLine' = DownLine
  <2>1. Held /\ Room
    BY <1>5 DEF DownInv
  <2>2. FIFO_STOP_AT \in Nat /\ Len(fifo) \in Nat /\ Len(fifo) <= FIFO_STOP_AT + 1
    BY <1>1, <1>2, <2>1, SizeAssumption DEF Room
  <2>3. fifo' = Append(fifo, outEp[ep].count) /\ Len(fifo') = Len(fifo) + 1
    BY <1>3, <2>2
  <2>4. Held' /\ Room'
    BY <1>1, <2>1, <2>2, <2>3 DEF Held, Room, Sending
  <2>5. DownLine' = rx \o (Append(fifo, outEp[ep].count) \o PacketData(ep))
    BY <1>1, <2>3 DEF DownLine, Rest, PacketData
  <2>6. DownLine = rx \o (fifo \o (<<outEp[ep].count>> \o PacketData(ep)))
    BY <1>1 DEF DownLine, Rest
  <2> QED
    BY <1>2, <2>4, <2>5, <2>6, LineKept
<1>6. \A e \in Endpoints : Waiting(e)' = Waiting(e)
  <2> SUFFICES ASSUME NEW e \in Endpoints PROVE Waiting(e)' = Waiting(e)
    OBVIOUS
  <2>1. ModeOf(e)' = ModeOf(e)
    BY <1>1 DEF ModeOf, ActiveEndpoints
  <2> QED
    BY <1>1, <2>1 DEF Waiting, PacketData, Sending
<1> QED
  BY <1>1, <1>4, <1>5, <1>6, SameLine

LEMMA BufferStarted ==
  ASSUME DownInv, SendBuffer
  PROVE  DownInv'
<1>1. /\ pc = "buffer" /\ pc' = "data" /\ tx' = [len |-> outEp[ep].count, pos |-> 0]
      /\ ep \in Endpoints /\ DownTypes
      /\ UNCHANGED <<fifo, rx, outEp, sent, RESET_KEEP, disturbed, ep>>
  BY DEF SendBuffer, fpgavars, usbvars, ghost, faults, DownInv, DownTypes
<1>2. /\ outEp[ep].count \in Nat /\ outEp[ep].count \in 0 .. MAX_FRAME_SIZE
      /\ PacketData(ep) \in Seq(Nat) /\ Len(PacketData(ep)) = outEp[ep].count
  BY <1>1, PacketDataType DEF DownTypes
<1>3. tx' \in [len : 0 .. MAX_FRAME_SIZE, pos : 0 .. MAX_FRAME_SIZE]
  BY <1>1, <1>2, Sizes
<1>4. DownTypes'
  BY <1>1, <1>3 DEF DownTypes
<1>5. ASSUME ~disturbed PROVE Held' /\ Room' /\ DownLine' = DownLine
  <2>1. Held /\ Room
    BY <1>5 DEF DownInv
  <2>2. Held' /\ Room'
    BY <1>1, <1>2, <2>1 DEF Held, Room, Sending
  <2>3. SubSeq(PacketData(ep), 1, outEp[ep].count) = PacketData(ep)
    BY <1>2, SubSeqFull
  <2> QED
    <3>1. PacketData(ep)' = PacketData(ep)
      BY <1>1 DEF PacketData
    <3>2. Rest' = SubSeq(PacketData(ep), 1, outEp[ep].count)
      <4>1. tx'.pos + 1 = 1 /\ tx'.len = outEp[ep].count
        BY <1>1
      <4>2. Rest' = SubSeq(PacketData(ep)', tx'.pos + 1, tx'.len)
        BY <1>1 DEF Rest
      <4> QED
        BY <3>1, <4>1, <4>2
    <3>3. Rest = PacketData(ep)
      BY <1>1 DEF Rest
    <3> QED
      BY <1>1, <2>2, <2>3, <3>2, <3>3 DEF DownLine
<1>6. \A e \in Endpoints : Waiting(e)' = Waiting(e)
  <2> SUFFICES ASSUME NEW e \in Endpoints PROVE Waiting(e)' = Waiting(e)
    OBVIOUS
  <2>1. ModeOf(e)' = ModeOf(e)
    BY <1>1 DEF ModeOf, ActiveEndpoints
  <2> QED
    BY <1>1, <2>1 DEF Waiting, PacketData, Sending
<1> QED
  BY <1>1, <1>4, <1>5, <1>6, SameLine

LEMMA DataSent ==
  ASSUME DownInv, SendData
  PROVE  DownInv'
<1>1. /\ pc = "data" /\ pc' = "data" /\ tx.pos < tx.len /\ ~FpgaCts
      /\ Transmit(outEp[ep].data[tx.pos + 1]) /\ tx' = [tx EXCEPT !.pos = @ + 1]
      /\ ep \in Endpoints /\ DownTypes
      /\ UNCHANGED <<rx, outEp, sent, RESET_KEEP, disturbed, ep>>
  BY DEF SendData, Transmit, usbvars, ghost, faults, DownInv, DownTypes
<1>2. /\ outEp[ep].count \in Nat /\ PacketData(ep) \in Seq(Nat)
      /\ Len(PacketData(ep)) = outEp[ep].count
      /\ \A i \in 1 .. outEp[ep].count : PacketData(ep)[i] = outEp[ep].data[i]
      /\ rx \in Seq(Nat) /\ fifo \in Seq(Nat)
      /\ outEp[ep].data \in [1 .. MAX_FRAME_SIZE -> Nat]
  BY <1>1, PacketDataType DEF DownTypes
<1>3. /\ tx.pos \in 0 .. MAX_FRAME_SIZE /\ tx.len \in 0 .. MAX_FRAME_SIZE /\ MAX_FRAME_SIZE \in Nat
      /\ tx' \in [len : 0 .. MAX_FRAME_SIZE, pos : 0 .. MAX_FRAME_SIZE]
      /\ tx'.pos = tx.pos + 1 /\ tx'.len = tx.len
      /\ tx.pos + 1 \in 1 .. MAX_FRAME_SIZE /\ tx.pos + 1 # 0
  <2>1. /\ tx \in [len : 0 .. MAX_FRAME_SIZE, pos : 0 .. MAX_FRAME_SIZE]
        /\ MAX_FRAME_SIZE \in Nat
    BY <1>1, Sizes DEF DownTypes
  <2>2. tx.pos \in 0 .. MAX_FRAME_SIZE /\ tx.len \in 0 .. MAX_FRAME_SIZE
    BY <2>1
  <2>3. tx.pos + 1 \in 1 .. MAX_FRAME_SIZE /\ tx.pos + 1 \in 0 .. MAX_FRAME_SIZE /\ tx.pos + 1 # 0
    BY <1>1, <2>1, <2>2
  <2>4. tx' = [len |-> tx.len, pos |-> tx.pos + 1]
    BY <1>1, <2>1
  <2> QED
    BY <2>1, <2>2, <2>3, <2>4
<1>4. outEp[ep].data[tx.pos + 1] \in Nat
  BY <1>2, <1>3
<1>5. /\ fifo' \in Seq(Nat)
      /\ Len(fifo) < FIFO_STOP_AT + 2
           => fifo' = Append(fifo, outEp[ep].data[tx.pos + 1]) /\ Len(fifo') = Len(fifo) + 1
  BY <1>1, <1>2, <1>4, Transmitted
<1>6. DownTypes'
  BY <1>1, <1>3, <1>5 DEF DownTypes
<1>7. ASSUME ~disturbed PROVE Held' /\ Room' /\ DownLine' = DownLine
  <2>1. Held /\ Room /\ tx.len = outEp[ep].count
    BY <1>1, <1>7 DEF DownInv, Held
  <2>2. FIFO_STOP_AT \in Nat /\ Len(fifo) \in Nat /\ Len(fifo) < FIFO_STOP_AT
    <3>1. FIFO_STOP_AT \in Nat
      BY SizeAssumption
    <3>2. Len(fifo) \in Nat
      BY <1>2
    <3> QED
      BY <1>1, <3>1, <3>2 DEF FpgaCts
  <2>3. fifo' = Append(fifo, outEp[ep].data[tx.pos + 1]) /\ Len(fifo') = Len(fifo) + 1
    BY <1>5, <2>2
  <2>4. Held' /\ Room'
    <3>1. tx'.pos <= tx'.len /\ tx'.pos # 0
      BY <1>1, <1>3
    <3>2. Len(fifo') <= FIFO_STOP_AT
      BY <2>2, <2>3
    <3> QED
      BY <1>1, <1>3, <2>1, <3>1, <3>2 DEF Held, Room, Sending
  <2> DEFINE D == PacketData(ep)
             k == tx.pos + 1
             n == tx.len
  <2>5. DownLine = rx \o (fifo \o SubSeq(D, k, n))
    BY <1>1 DEF DownLine, Rest
  <2>6. DownLine' = rx \o (Append(fifo, D[k]) \o SubSeq(D, k + 1, n))
    <3>1. D[k] = outEp[ep].data[tx.pos + 1] /\ D' = D
      BY <1>1, <1>2, <1>3, <2>1 DEF PacketData
    <3> HIDE DEF D
    <3> QED
      BY <1>1, <1>3, <2>3, <3>1 DEF DownLine, Rest, D
  <2>7. D \in Seq(Nat) /\ k \in 1 .. Len(D) /\ n \in k .. Len(D) /\ D[k] \in Nat
    <3>1. D \in Seq(Nat) /\ Len(D) = n /\ n \in Nat
      BY <1>2, <2>1
    <3>2. k \in 1 .. n /\ n \in k .. n
      BY <1>1, <1>3
    <3> HIDE DEF D, k, n
    <3> QED
      BY <3>1, <3>2
  <2> HIDE DEF D, k, n
  <2>8. SubSeq(D, k, n) = <<D[k]>> \o SubSeq(D, k + 1, n)
    BY <2>7, SubSeqRecursiveFirst
  <2>9. SubSeq(D, k + 1, n) \in Seq(Nat)
    <3>1. k + 1 \in Int /\ n \in Int /\ \A i \in k + 1 .. n : D[i] \in Nat
      BY <2>7
    <3> QED
      BY <3>1, SubSeqProperties
  <2>10. rx \o (Append(fifo, D[k]) \o SubSeq(D, k + 1, n))
           = rx \o (fifo \o (<<D[k]>> \o SubSeq(D, k + 1, n)))
    <3> DEFINE t == SubSeq(D, k + 1, n)
               b == D[k]
    <3>1. t \in Seq(Nat) /\ b \in Nat /\ rx \in Seq(Nat) /\ fifo \in Seq(Nat)
      BY <1>2, <2>7, <2>9
    <3> HIDE DEF t, b
    <3>2. rx \o (Append(fifo, b) \o t) = rx \o (fifo \o (<<b>> \o t))
      BY <3>1, LineKept
    <3> QED
      BY <3>2 DEF t, b
  <2> QED
    BY <2>4, <2>5, <2>6, <2>8, <2>10
<1>8. \A e \in Endpoints : Waiting(e)' = Waiting(e)
  <2> SUFFICES ASSUME NEW e \in Endpoints PROVE Waiting(e)' = Waiting(e)
    OBVIOUS
  <2>1. ModeOf(e)' = ModeOf(e)
    BY <1>1 DEF ModeOf, ActiveEndpoints
  <2> QED
    BY <1>1, <2>1 DEF Waiting, PacketData, Sending
<1> QED
  BY <1>1, <1>6, <1>7, <1>8, SameLine

LEMMA Emptied ==
  ASSUME NEW C, NEW R, NEW D, NEW x \in [count : C, res : R, data : D], NEW n \in C, NEW q \in R
  PROVE  /\ [x EXCEPT !.count = n, !.res = q] \in [count : C, res : R, data : D]
         /\ [x EXCEPT !.count = n, !.res = q].count = n
OBVIOUS

\* The endpoint is free for the next packet; at least one byte of data was sent
\* under clear-to-send.
LEMMA PacketForwarded ==
  ASSUME DownInv, Forwarded
  PROVE  DownInv'
<1>1. /\ pc = "data" /\ pc' \in {"poll", "count"} /\ tx.pos = tx.len
      /\ outEp' = [outEp EXCEPT ![ep].count = 0, ![ep].res = "ACK"]
      /\ ep \in Endpoints /\ ep' \in Endpoints /\ tx' = [len |-> 0, pos |-> 0] /\ DownTypes
      /\ UNCHANGED <<fifo, rx, sent, RESET_KEEP, disturbed>>
  BY SMTT(30) DEF Forwarded, NextEndpoint, fpgavars, ghost, faults, DownInv, DownTypes, Endpoints
<1>2. MAX_FRAME_SIZE \in Nat
  BY Sizes
<1>3. /\ outEp' \in [Endpoints -> [count : 0 .. MAX_FRAME_SIZE, res : {"ACK", "NAK"},
                                   data : [1 .. MAX_FRAME_SIZE -> Nat]]]
      /\ outEp'[ep].count = 0
      /\ \A e \in Endpoints \ {ep} : outEp'[e] = outEp[e]
  <2> DEFINE r == [outEp[ep] EXCEPT !.count = 0, !.res = "ACK"]
             A == {"ACK", "NAK"}
             D == [1 .. MAX_FRAME_SIZE -> Nat]
             T == [count : 0 .. MAX_FRAME_SIZE, res : A, data : D]
  <2>1. outEp \in [Endpoints -> T] /\ outEp[ep] \in T
    BY <1>1 DEF DownTypes
  <2>2. r \in T /\ r.count = 0
    <3>1. 0 \in 0 .. MAX_FRAME_SIZE
      BY <1>2
    <3> QED
      BY <2>1, <3>1, Emptied
  <2>3. outEp' = [outEp EXCEPT ![ep] = r]
    BY <1>1, <2>1
  <2> HIDE DEF r, T
  <2>4. outEp' \in [Endpoints -> T] /\ outEp'[ep].count = 0
        /\ \A e \in Endpoints \ {ep} : outEp'[e] = outEp[e]
    BY <1>1, <2>1, <2>2, <2>3
  <2> QED
    BY <2>4 DEF T
<1>4. DownTypes'
  BY <1>1, <1>2, <1>3 DEF DownTypes
<1>5. ASSUME ~disturbed PROVE Held' /\ Room' /\ DownLine' = DownLine
  <2>1. Held /\ Room
    BY <1>5 DEF DownInv
  <2>2. Held'
    BY <1>1, <1>3, <2>1 DEF Held, Sending
  <2>3. tx.pos # 0
    <3>1. tx.len = outEp[ep].count /\ outEp[ep].count > 0 /\ outEp[ep].count \in Nat
      BY <1>1, <2>1, PacketDataType DEF Held, Sending
    <3> QED
      BY <1>1, <3>1
  <2>4. Room'
    BY <1>1, <2>1, <2>3 DEF Room
  <2>5. Rest = <<>>
    <3>1. tx.pos + 1 \in Int /\ tx.len \in Int /\ tx.len < tx.pos + 1
      BY <1>1, <1>2 DEF DownTypes
    <3> QED
      BY <1>1, <3>1, SubSeqEmpty DEF Rest
  <2>6. Rest' = <<>>
    BY <1>1 DEF Rest
  <2> QED
    BY <1>1, <2>2, <2>4, <2>5, <2>6 DEF DownLine
<1>6. \A e \in Endpoints : Waiting(e)' = Waiting(e)
  <2> SUFFICES ASSUME NEW e \in Endpoints PROVE Waiting(e)' = Waiting(e)
    OBVIOUS
  <2>1. ModeOf(e)' = ModeOf(e)
    BY <1>1 DEF ModeOf, ActiveEndpoints
  <2>2. CASE e = ep
    BY <1>1, <1>3, <2>2 DEF Waiting, Sending
  <2>3. CASE e # ep
    <3>1. outEp'[e] = outEp[e]
      BY <1>3, <2>3
    <3> QED
      <4>1. PacketData(e)' = PacketData(e)
        BY <3>1 DEF PacketData
      <4>2. ~(Sending /\ e = ep) /\ ~Sending'
        BY <1>1, <2>3 DEF Sending
      <4> QED
        BY <2>1, <3>1, <4>1, <4>2 DEF Waiting
  <2> QED
    BY <2>2, <2>3
<1> QED
  BY <1>1, <1>4, <1>5, <1>6, SameLine

LEMMA ByteRead ==
  ASSUME DownInv, FpgaRead
  PROVE  DownInv'
<1>1. /\ fifo # <<>> /\ rx' = Append(rx, Head(fifo)) /\ fifo' = Tail(fifo) /\ DownTypes
      /\ fifo \in Seq(Nat) /\ rx \in Seq(Nat)
      /\ UNCHANGED <<outEp, sent, RESET_KEEP, disturbed, pc, ep, tx>>
  BY DEF FpgaRead, usbvars, loopvars, ghost, faults, DownInv, DownTypes
<1>2. /\ Head(fifo) \in Nat /\ Tail(fifo) \in Seq(Nat) /\ Len(Tail(fifo)) = Len(fifo) - 1
      /\ Len(fifo) \in Nat
  BY <1>1, HeadTailProperties
<1>3. rx' \in Seq(Nat)
  BY <1>1, <1>2, AppendProperties
<1>4. DownTypes'
  BY <1>1, <1>2, <1>3 DEF DownTypes
<1>5. ASSUME ~disturbed PROVE Held' /\ Room' /\ DownLine' = DownLine
  <2>1. Held /\ Room
    BY <1>5 DEF DownInv
  <2>2. Held' /\ Room'
    <3>1. Held' /\ Sending' = Sending
      BY <1>1, <2>1 DEF Held, Sending
    <3>2. Len(fifo') <= Len(fifo) /\ Len(fifo') \in Nat
      BY <1>1, <1>2
    <3>3. FIFO_STOP_AT \in Nat
      BY SizeAssumption
    <3>4. Room'
      BY <1>1, <1>2, <2>1, <3>2, <3>3 DEF Room
    <3> QED
      BY <3>1, <3>4
  <2>3. Rest' = Rest /\ Rest \in Seq(Nat)
    BY <1>1, <1>5, <2>1, RestType DEF Rest, PacketData
  <2> DEFINE h == Head(fifo)
             t == Tail(fifo)
             r == Rest
  <2>4. fifo = <<h>> \o t
    <3>1. <<h>> \o t \in Seq(Nat) /\ Len(<<h>> \o t) = Len(fifo)
          /\ \A i \in 1 .. Len(fifo) : (<<h>> \o t)[i] = fifo[i]
      BY <1>1, <1>2
    <3> QED
      BY <1>1, <3>1, SeqEqual
  <2>5. DownLine' = Append(rx, h) \o (t \o r) /\ DownLine = rx \o (fifo \o r)
    BY <1>1, <2>3 DEF DownLine
  <2>6. /\ h \in Nat /\ t \in Seq(Nat) /\ r \in Seq(Nat) /\ <<h>> \in Seq(Nat)
        /\ Append(rx, h) = rx \o <<h>> /\ t \o r \in Seq(Nat)
    BY <1>1, <1>2, <2>3, AppendIsConcat, ConcatProperties
  <2> HIDE DEF h, t, r
  <2>7. (<<h>> \o t) \o r = <<h>> \o (t \o r)
    BY <2>6, NatConcat
  <2>8. (rx \o <<h>>) \o (t \o r) = rx \o (<<h>> \o (t \o r))
    BY <1>1, <2>6, NatConcat
  <2> QED
    BY <2>2, <2>4, <2>5, <2>6, <2>7, <2>8
<1>6. \A e \in Endpoints : Waiting(e)' = Waiting(e)
  <2> SUFFICES ASSUME NEW e \in Endpoints PROVE Waiting(e)' = Waiting(e)
    OBVIOUS
  <2>1. ModeOf(e)' = ModeOf(e)
    BY <1>1 DEF ModeOf, ActiveEndpoints
  <2> QED
    BY <1>1, <2>1 DEF Waiting, PacketData, Sending
<1> QED
  BY <1>1, <1>4, <1>5, <1>6, SameLine

LEMMA HeadOfConcat ==
  ASSUME NEW S, NEW s \in Seq(S), NEW t \in Seq(S), s # <<>>
  PROVE  /\ s \o t # <<>> /\ s \o t \in Seq(S)
         /\ Head(s \o t) = Head(s) /\ Tail(s \o t) = Tail(s) \o t
<1> DEFINE u == s \o t
           a == Tail(u)
           b == Tail(s) \o t
<1>1. /\ u \in Seq(S) /\ Len(u) = Len(s) + Len(t)
      /\ \A i \in 1 .. Len(s) + Len(t) : u[i] = IF i <= Len(s) THEN s[i] ELSE t[i - Len(s)]
  BY ConcatProperties
<1>2. Len(s) \in Nat /\ Len(s) >= 1 /\ Len(t) \in Nat
  OBVIOUS
<1>3. /\ Tail(s) \in Seq(S) /\ Len(Tail(s)) = Len(s) - 1
      /\ \A i \in 1 .. Len(s) - 1 : Tail(s)[i] = s[i + 1]
  BY HeadTailProperties
<1>4. u # <<>> /\ Head(u) = Head(s)
  <2>1. Len(u) >= 1 /\ u[1] = s[1]
    BY <1>1, <1>2
  <2> HIDE DEF u
  <2> QED
    BY <1>1, <1>2, <2>1
<1>5. /\ a \in Seq(S) /\ Len(a) = Len(u) - 1
      /\ \A i \in 1 .. Len(u) - 1 : a[i] = u[i + 1]
  <2> HIDE DEF u
  <2> QED
    BY <1>1, <1>4, HeadTailProperties
<1>6. /\ b \in Seq(S) /\ Len(b) = Len(Tail(s)) + Len(t)
      /\ \A i \in 1 .. Len(Tail(s)) + Len(t) :
           b[i] = IF i <= Len(Tail(s)) THEN Tail(s)[i] ELSE t[i - Len(Tail(s))]
  BY <1>3, ConcatProperties
<1> HIDE DEF u, a, b
<1>7. Len(a) = Len(b) /\ Len(a) = Len(s) - 1 + Len(t)
  BY <1>1, <1>2, <1>3, <1>5, <1>6
<1>8. ASSUME NEW i \in 1 .. Len(a) PROVE a[i] = b[i]
  <2>1. i \in 1 .. Len(s) - 1 + Len(t) /\ i + 1 \in 1 .. Len(s) + Len(t)
    BY <1>2, <1>7
  <2>2. a[i] = u[i + 1]
    BY <1>1, <1>2, <1>5, <2>1
  <2>3. CASE i <= Len(s) - 1
    <3>1. u[i + 1] = s[i + 1]
      BY <1>1, <1>2, <2>1, <2>3
    <3>2. b[i] = s[i + 1]
      BY <1>2, <1>3, <1>6, <2>1, <2>3
    <3> QED
      BY <2>2, <3>1, <3>2
  <2>4. CASE ~(i <= Len(s) - 1)
    <3>1. ~(i + 1 <= Len(s)) /\ i + 1 - Len(s) = i - (Len(s) - 1)
      BY <1>2, <2>1, <2>4
    <3>2. u[i + 1] = t[i - (Len(s) - 1)]
      BY <1>1, <2>1, <3>1
    <3>3. b[i] = t[i - (Len(s) - 1)]
      BY <1>3, <1>6, <2>1, <2>4
    <3> QED
      BY <2>2, <3>2, <3>3
  <2> QED
    BY <2>3, <2>4
<1>9. a = b
  BY <1>5, <1>6, <1>7, <1>8, SeqEqual
<1> QED
  BY <1>1, <1>4, <1>9 DEF u, a, b

\* A frame the FPGA has read is the oldest packet of its endpoint.
LEMMA FrameIsPacket ==
  ASSUME DownInv, FrameRead, ~disturbed,
         NEW F \in Seq(HostFrames), NEW P \in [Endpoints -> Seq(Frames)], Forwards(F, P)
  PROVE  /\ F # <<>> /\ rx = Framed(Head(F)) /\ Spelled(fifo \o Rest, Tail(F))
         /\ Head(F) \in HostFrames /\ rx[1] = Head(F).mode
         /\ LET e == EndpointOf(Head(F).mode)
            IN  /\ e \in Endpoints /\ P[e] # <<>> /\ sent[e] # <<>> /\ Head(sent[e]) = Head(F)
                /\ PartOf(Tail(P[e]), Tail(F), ModesAt(e))
                /\ Tail(sent[e]) = Tail(P[e]) \o Waiting(e)
<1> DEFINE q == fifo \o Rest
           g == Head(F)
           e == EndpointOf(g.mode)
<1>1. DownTypes /\ Held /\ fifo \in Seq(Nat) /\ rx \in Seq(Nat) /\ Rest \in Seq(Nat)
  BY RestType DEF DownInv, DownTypes
<1>2. q \in Seq(Nat)
  BY <1>1, ConcatProperties
<1> HIDE DEF q
<1>3. F \in Seq(Frames) /\ Spelled(rx \o q, F)
  BY SeqMonotonic, FrameSets DEF Forwards, DownLine, q
<1>4. /\ rx \o q \in Seq(Nat) /\ Len(rx \o q) = Len(rx) + Len(q)
      /\ \A i \in 1 .. Len(rx) + Len(q) :
           (rx \o q)[i] = IF i <= Len(rx) THEN rx[i] ELSE q[i - Len(rx)]
  BY <1>1, <1>2, ConcatProperties
<1>5. Len(rx) \in Nat /\ Len(rx) >= 2 /\ Len(q) \in Nat /\ Len(rx) = 2 + rx[2]
  BY <1>1, <1>2 DEF FrameRead
<1>6. (rx \o q)[1] = rx[1] /\ (rx \o q)[2] = rx[2] /\ rx \o q # <<>>
  <2>1. (rx \o q)[1] = rx[1] /\ (rx \o q)[2] = rx[2]
    BY <1>4, <1>5
  <2>2. Len(rx \o q) # 0
    BY <1>4, <1>5
  <2> QED
    BY <1>4, <2>1, <2>2
<1>7. F # <<>>
  BY <1>3, <1>4, <1>6, SpelledNonEmpty
<1>8. g \in HostFrames /\ g \in Frames
  BY <1>7, FrameSets
<1>9. Len(rx) = Len(Framed(g)) /\ rx[1] = g.mode
  <2>1. \A i \in 1 .. Len(Framed(g)) : (rx \o q)[i] = Framed(g)[i]
    BY <1>3, <1>4, <1>7, SpelledHead
  <2>2. /\ Len(Framed(g)) = 2 + Len(g.data) /\ Len(g.data) \in Nat
        /\ Framed(g)[1] = g.mode /\ Framed(g)[2] = Len(g.data)
    BY <1>8, FramedProperties
  <2>3. rx[1] = g.mode /\ rx[2] = Len(g.data)
    <3>1. 1 \in 1 .. Len(Framed(g)) /\ 2 \in 1 .. Len(Framed(g))
      BY <2>2
    <3>2. (rx \o q)[1] = Framed(g)[1] /\ (rx \o q)[2] = Framed(g)[2]
      BY <2>1, <3>1
    <3> QED
      BY <1>6, <2>2, <3>2
  <2> QED
    BY <1>5, <2>2, <2>3
<1>10. rx = Framed(g) /\ Spelled(q, Tail(F))
  BY <1>1, <1>2, <1>3, <1>7, <1>9, SpelledTail
<1>11. e \in Endpoints /\ g.mode \in ModesAt(e)
  BY <1>8, FrameSets
<1> HIDE DEF e
<1>12. /\ PartOf(P[e], F, ModesAt(e)) /\ sent[e] = P[e] \o Waiting(e) /\ P[e] \in Seq(Frames)
       /\ Waiting(e) \in Seq(Frames)
  BY <1>1, <1>11, WaitingType DEF Forwards
<1>13. P[e] # <<>> /\ Head(P[e]) = g /\ PartOf(Tail(P[e]), Tail(F), ModesAt(e))
  BY <1>3, <1>7, <1>11, <1>12, PartOfTail
<1>14. sent[e] # <<>> /\ Head(sent[e]) = g /\ Tail(sent[e]) = Tail(P[e]) \o Waiting(e)
  <2> DEFINE s == P[e]
             w == Waiting(e)
  <2>1. s \in Seq(Frames) /\ w \in Seq(Frames) /\ s # <<>> /\ Head(s) = g /\ sent[e] = s \o w
    BY <1>12, <1>13
  <2> HIDE DEF s, w
  <2>2. s \o w # <<>> /\ Head(s \o w) = Head(s) /\ Tail(s \o w) = Tail(s) \o w
    BY <2>1, HeadOfConcat
  <2> QED
    BY <2>1, <2>2 DEF s, w
<1> QED
  BY <1>7, <1>8, <1>9, <1>10, <1>11, <1>13, <1>14 DEF q, e

LEMMA FrameTaken ==
  ASSUME DownInv, FpgaTake
  PROVE  DownInv'
<1>1. /\ FrameRead /\ rx' = <<>> /\ DownTypes
      /\ sent' = [e \in Endpoints |-> IF sent[e] # <<>> /\ Head(sent[e]).mode = rx[1]
                                      THEN Tail(sent[e]) ELSE sent[e]]
      /\ UNCHANGED <<fifo, outEp, RESET_KEEP, disturbed, pc, ep, tx>>
  BY DEF FpgaTake, usbvars, loopvars, ghost, faults, DownInv
<1>2. \A e \in Endpoints : sent[e] \in Seq(FramesAt(e)) /\ sent'[e] \in Seq(FramesAt(e))
  BY <1>1 DEF DownTypes
<1>3. DownTypes'
  BY <1>1, <1>2 DEF DownTypes
<1> SUFFICES ASSUME ~disturbed PROVE Held' /\ Room' /\ Down'
  BY <1>1, <1>3 DEF DownInv
<1>4. Held /\ Room /\ Down
  BY DEF DownInv
<1>5. Held' /\ Room'
  BY <1>1, <1>4 DEF Held, Room, Sending
<1>6. PICK F \in Seq(HostFrames), P \in [Endpoints -> Seq(Frames)] : Forwards(F, P)
  BY <1>4 DEF Down
<1>7. PICK d \in Endpoints : d = EndpointOf(Head(F).mode)
  BY <1>1, <1>6, FrameIsPacket
<1>8. /\ F # <<>> /\ Spelled(fifo \o Rest, Tail(F))
      /\ Head(F) \in HostFrames /\ rx[1] = Head(F).mode
      /\ P[d] # <<>> /\ sent[d] # <<>> /\ Head(sent[d]) = Head(F)
      /\ PartOf(Tail(P[d]), Tail(F), ModesAt(d)) /\ Tail(sent[d]) = Tail(P[d]) \o Waiting(d)
  BY <1>1, <1>6, <1>7, FrameIsPacket
<1>9. F \in Seq(Frames) /\ Tail(F) \in Seq(HostFrames)
  BY <1>8, SeqMonotonic, FrameSets, HeadTailProperties
<1>10. PICK Q \in [Endpoints -> Seq(Frames)] : Q = [P EXCEPT ![d] = Tail(@)]
  <2>1. Tail(P[d]) \in Seq(Frames)
    BY <1>8, HeadTailProperties
  <2> QED
    BY <2>1
<1>11. ASSUME NEW e \in Endpoints
       PROVE  PartOf(Q[e], Tail(F), ModesAt(e)) /\ sent'[e] = Q[e] \o Waiting(e)'
  <2>1. PartOf(P[e], F, ModesAt(e)) /\ sent[e] = P[e] \o Waiting(e) /\ P[e] \in Seq(Frames)
    BY <1>6 DEF Forwards
  <2>2. Waiting(e)' = Waiting(e)
    <3>1. ModeOf(e)' = ModeOf(e)
      BY <1>1 DEF ModeOf, ActiveEndpoints
    <3> QED
      BY <1>1, <3>1 DEF Waiting, PacketData, Sending
  <2>3. CASE e = d
    BY <1>1, <1>8, <1>10, <2>2, <2>3
  <2>4. CASE e # d
    <3>1. Head(F).mode \notin ModesAt(e)
      BY <1>7, <1>8, <2>4, FrameSets
    <3>2. PartOf(P[e], Tail(F), ModesAt(e))
      BY <1>8, <1>9, <2>1, <3>1, PartOfTail
    <3>3. sent[e] # <<>> => Head(sent[e]).mode \in ModesAt(e)
      <4>1. sent[e] # <<>> => Head(sent[e]) \in FramesAt(e)
        BY <1>2, HeadTailProperties
      <4> QED
        BY <4>1 DEF FramesAt
    <3>4. sent'[e] = sent[e]
      BY <1>1, <1>8, <3>1, <3>3
    <3> QED
      BY <1>10, <2>1, <2>2, <2>4, <3>2, <3>4
  <2> QED
    BY <2>3, <2>4
<1>12. DownLine' = fifo \o Rest
  <2>1. Rest' = Rest /\ fifo \o Rest \in Seq(Nat)
    BY <1>1, <1>4, RestType, ConcatProperties DEF Rest, PacketData, DownTypes
  <2> QED
    BY <1>1, <2>1, ConcatEmptySeq DEF DownLine
<1>13. Forwards(Tail(F), Q)'
  <2>1. \A e \in Endpoints : PartOf(Q[e], Tail(F), ModesAt(e)) /\ sent'[e] = Q[e] \o Waiting(e)'
    BY <1>11
  <2> QED
    BY <1>8, <1>12, <2>1 DEF Forwards
<1> QED
  BY <1>5, <1>9, <1>13 DEF Down

\* The endpoint answers ACK, so nothing of it waits or is being forwarded.
LEMMA PacketArrives ==
  ASSUME RingInv, DownInv, NEW e \in Endpoints, NEW len \in PacketLens[e], NEW lost \in BOOLEAN,
         OutComplete(e, len, lost)
  PROVE  DownInv'
<1> DEFINE data == Payload(left.packets, len)
<1>1. /\ outEp[e].res = "ACK" /\ outEp' = [outEp EXCEPT ![e] = Received(e, data)]
      /\ sent' = IF len > 0 THEN [sent EXCEPT ![e] = Append(@, Frame(ModeOf(e), data))] ELSE sent
      /\ UNCHANGED <<fifo, rx, RESET_KEEP, disturbed, pc, ep, tx>> /\ DownTypes
  BY DEF OutComplete, fpgavars, loopvars, faults, DownInv
<1>2. /\ len \in 0 .. MAX_FRAME_SIZE /\ len \in Nat /\ MAX_FRAME_SIZE \in Nat
      /\ left.packets \in Nat
  BY BytesAreNats, Sizes DEF RingInv, BridgeTypes, LeftType
<1>3. data \in Seq(Nat) /\ Len(data) = len /\ data = [i \in 1 .. len |-> data[i]]
  BY <1>2, PayloadIsBytes DEF Payload
<1> HIDE DEF data
<1>4. outEp[e].data \in [1 .. MAX_FRAME_SIZE -> Nat]
  BY <1>1 DEF DownTypes
<1> DEFINE r == Received(e, data)
<1>5. /\ r.count = len /\ (len > 0 => r.res = "NAK")
      /\ \A i \in 1 .. len : r.data[i] = data[i]
      /\ r \in [count : 0 .. MAX_FRAME_SIZE, res : {"ACK", "NAK"},
                data : [1 .. MAX_FRAME_SIZE -> Nat]]
  <2>1. \A i \in 1 .. MAX_FRAME_SIZE :
          (IF i <= len THEN data[i] ELSE outEp[e].data[i]) \in Nat
    BY <1>2, <1>3, <1>4
  <2>2. len > 0 => data # <<>>
    <3>1. Len(<<>>) = 0
      OBVIOUS
    <3> QED
      BY <1>2, <1>3, <3>1
  <2>3. \A i \in 1 .. len : i \in 1 .. MAX_FRAME_SIZE /\ i <= len
    BY <1>2
  <2> QED
    BY <1>2, <1>3, <2>1, <2>2, <2>3 DEF Received
<1> HIDE DEF r
<1>6. /\ outEp' \in [Endpoints -> [count : 0 .. MAX_FRAME_SIZE, res : {"ACK", "NAK"},
                                   data : [1 .. MAX_FRAME_SIZE -> Nat]]]
      /\ outEp'[e] = r /\ \A d \in Endpoints \ {e} : outEp'[d] = outEp[d]
  BY <1>1, <1>5 DEF DownTypes, r
<1>7. PICK f : f = Frame(ModeOf(e), data)
  OBVIOUS
<1>8. f \in FramesAt(e) /\ f \in Frames
  BY <1>3, <1>7, EndpointModes DEF Frame, FramesAt, Frames
<1>9. /\ sent'[e] = IF len > 0 THEN Append(sent[e], f) ELSE sent[e]
      /\ \A d \in Endpoints \ {e} : sent'[d] = sent[d]
      /\ sent' = [d \in Endpoints |-> sent'[d]] /\ DOMAIN sent' = Endpoints
  BY <1>1, <1>7 DEF DownTypes
<1>10. \A d \in Endpoints : sent'[d] \in Seq(FramesAt(d))
  <2>1. sent[e] \in Seq(FramesAt(e)) /\ Append(sent[e], f) \in Seq(FramesAt(e))
    BY <1>1, <1>8, AppendProperties DEF DownTypes
  <2> QED
    BY <1>1, <1>9, <2>1 DEF DownTypes
<1>11. DownTypes'
  BY <1>1, <1>6, <1>9, <1>10 DEF DownTypes
<1> SUFFICES ASSUME ~disturbed PROVE Held' /\ Room' /\ Down'
  BY <1>1, <1>11 DEF DownInv
<1>12. Held /\ Room /\ Down
  BY DEF DownInv
<1>13. outEp[e].count = 0 /\ ~(Sending /\ e = ep)
  <2>1. outEp[e].count \in Nat /\ ~(outEp[e].count > 0)
    BY <1>1, <1>2, <1>12 DEF DownTypes, Held
  <2> QED
    BY <1>12, <2>1 DEF Held
<1>14. Held' /\ Room'
  BY <1>1, <1>5, <1>6, <1>12, <1>13 DEF Held, Room, Sending, DownTypes
<1>15. DownLine' = DownLine
  <2>1. Sending => outEp'[ep] = outEp[ep]
    BY <1>1, <1>6, <1>13 DEF DownTypes
  <2>2. CASE Sending
    <3>1. pc' = pc /\ ep' = ep /\ tx' = tx /\ outEp'[ep] = outEp[ep]
      BY <1>1, <2>1, <2>2
    <3>2. Rest' = Rest
      <4>1. PacketData(ep)' = PacketData(ep)
        BY <3>1 DEF PacketData
      <4>2. CASE pc = "length"
        BY <3>1, <4>1, <4>2 DEF Rest
      <4>3. CASE pc = "buffer"
        BY <3>1, <4>1, <4>3 DEF Rest
      <4>4. CASE pc = "data"
        BY <3>1, <4>1, <4>4 DEF Rest
      <4> QED
        BY <2>2, <4>2, <4>3, <4>4 DEF Sending
    <3> QED
      BY <1>1, <2>1, <2>2, <3>1, <3>2 DEF DownLine
  <2>3. CASE ~Sending
    BY <1>1, <2>3 DEF DownLine, Rest, Sending
  <2> QED
    BY <2>2, <2>3
<1>16. PICK F \in Seq(HostFrames), P \in [Endpoints -> Seq(Frames)] : Forwards(F, P)
  BY <1>12 DEF Down
<1>17. ASSUME NEW d \in Endpoints
       PROVE  PartOf(P[d], F, ModesAt(d)) /\ sent'[d] = P[d] \o Waiting(d)'
  <2>1. PartOf(P[d], F, ModesAt(d)) /\ sent[d] = P[d] \o Waiting(d) /\ P[d] \in Seq(Frames)
    BY <1>16 DEF Forwards
  <2>2. ModeOf(d)' = ModeOf(d)
    BY <1>1 DEF ModeOf, ActiveEndpoints
  <2>3. CASE d # e
    <3>1. outEp'[d] = outEp[d]
      BY <1>6, <2>3
    <3>2. PacketData(d)' = PacketData(d)
      BY <3>1 DEF PacketData
    <3>3. Waiting(d)' = Waiting(d)
      BY <1>1, <2>2, <3>1, <3>2 DEF Waiting, Sending
    <3> QED
      BY <1>9, <2>1, <2>3, <3>3
  <2>4. CASE d = e
    <3>1. Waiting(d) = <<>>
      BY <1>13, <2>4 DEF Waiting
    <3>2. sent[d] = P[d]
      BY <2>1, <3>1, ConcatEmptySeq
    <3>3. CASE len > 0
      <4>1. PacketData(d)' = data
        <5>1. outEp'[e].count = len /\ \A i \in 1 .. len : outEp'[e].data[i] = data[i]
          BY <1>5, <1>6
        <5>2. PacketData(d)' = [i \in 1 .. len |-> data[i]]
          BY <2>4, <5>1 DEF PacketData
        <5> QED
          BY <1>3, <5>2
      <4>2. Waiting(d)' = <<f>>
        BY <1>1, <1>5, <1>6, <1>7, <1>13, <2>2, <2>4, <3>3, <4>1 DEF Waiting, Sending
      <4>3. Append(P[d], f) = P[d] \o <<f>>
        BY <1>8, <2>1, AppendIsConcat
      <4> QED
        BY <1>9, <2>1, <2>4, <3>2, <3>3, <4>2, <4>3
    <3>4. CASE ~(len > 0)
      <4>1. Waiting(d)' = <<>>
        BY <1>5, <1>6, <2>4, <3>4 DEF Waiting
      <4> QED
        BY <1>9, <2>1, <2>4, <3>2, <3>4, <4>1, ConcatEmptySeq
    <3> QED
      BY <3>3, <3>4
  <2> QED
    BY <2>3, <2>4
<1>18. Forwards(F, P)'
  <2>1. \A d \in Endpoints : PartOf(P[d], F, ModesAt(d)) /\ sent'[d] = P[d] \o Waiting(d)'
    BY <1>17
  <2> QED
    BY <1>15, <1>16, <2>1 DEF Forwards
<1> QED
  BY <1>14, <1>18 DEF Down

LEMMA FrontOfAppend ==
  ASSUME NEW S, NEW s \in Seq(S), NEW x \in S
  PROVE  SubSeq(s \o <<x>>, 1, Len(s \o <<x>>) - 1) = s
<1> DEFINE t == s \o <<x>>
           n == Len(s)
<1>1. /\ t \in Seq(S) /\ Len(t) = n + 1 /\ n \in Nat
      /\ \A i \in 1 .. n : t[i] = s[i]
  <2>1. <<x>> \in Seq(S) /\ Len(<<x>>) = 1
    OBVIOUS
  <2>2. /\ t \in Seq(S) /\ Len(t) = n + Len(<<x>>)
        /\ \A i \in 1 .. n + Len(<<x>>) : t[i] = IF i <= n THEN s[i] ELSE <<x>>[i - n]
    BY <2>1, ConcatProperties
  <2>3. n \in Nat
    OBVIOUS
  <2> HIDE DEF t
  <2> QED
    BY <2>1, <2>2, <2>3
<1> HIDE DEF t
<1>2. /\ 1 \in Int /\ n \in Int /\ n - 1 + 1 = n /\ Len(t) - 1 = n
      /\ \A i \in 1 .. n : t[i] \in S
  BY <1>1
<1>3. /\ SubSeq(t, 1, n) \in Seq(S)
      /\ Len(SubSeq(t, 1, n)) = IF 1 <= n THEN n - 1 + 1 ELSE 0
      /\ \A i \in 1 .. n - 1 + 1 : SubSeq(t, 1, n)[i] = t[1 + i - 1]
  BY <1>2, SubSeqProperties
<1> DEFINE u == SubSeq(t, 1, n)
<1>4. Len(u) = n /\ u \in Seq(S)
  BY <1>1, <1>3
<1>5. \A i \in 1 .. n : u[i] = s[i]
  <2> SUFFICES ASSUME NEW i \in 1 .. n PROVE u[i] = s[i]
    OBVIOUS
  <2>1. 1 + i - 1 = i /\ i \in 1 .. n - 1 + 1
    BY <1>1
  <2> QED
    BY <1>1, <1>3, <2>1
<1> HIDE DEF u
<1>6. u = s
  BY <1>4, <1>5, SeqEqual
<1> QED
  BY <1>2, <1>6 DEF u, t

\* What had not been forwarded is forgotten, the rest is in the FIFO.
LEMMA ResetsItself ==
  ASSUME DownInv, SoftReset, ~Sending
  PROVE  DownInv'
<1>1. /\ sent' = [e \in Endpoints |-> IF outEp[e].count > 0
                                      THEN SubSeq(sent[e], 1, Len(sent[e]) - 1) ELSE sent[e]]
      /\ outEp' = [e \in Endpoints |-> IdleOut] /\ pc' = "top" /\ ep' = 2
      /\ tx' = [len |-> 0, pos |-> 0] /\ UNCHANGED <<fifo, rx, disturbed>> /\ DownTypes
  BY DEF SoftReset, ghost, faults, DownInv
<1>2. \A e \in Endpoints : sent'[e] \in Seq(FramesAt(e))
  <2> SUFFICES ASSUME NEW e \in Endpoints PROVE sent'[e] \in Seq(FramesAt(e))
    OBVIOUS
  <2>1. sent[e] \in Seq(FramesAt(e)) /\ Len(sent[e]) \in Nat
    BY <1>1 DEF DownTypes
  <2>2. SubSeq(sent[e], 1, Len(sent[e]) - 1) \in Seq(FramesAt(e))
    <3>1. 1 \in Int /\ Len(sent[e]) - 1 \in Int
          /\ \A i \in 1 .. Len(sent[e]) - 1 : sent[e][i] \in FramesAt(e)
      BY <2>1
    <3> QED
      BY <3>1, SubSeqProperties
  <2> QED
    BY <1>1, <2>1, <2>2
<1>3. \A e \in Endpoints :
        outEp'[e] \in [count : 0 .. MAX_FRAME_SIZE, res : {"ACK", "NAK"},
                       data : [1 .. MAX_FRAME_SIZE -> Nat]]
        /\ outEp'[e].count = 0
  BY <1>1, Sizes DEF IdleOut
<1>4. DownTypes'
  <2>1. 2 \in Endpoints /\ 0 \in 0 .. MAX_FRAME_SIZE
    BY Sizes DEF Endpoints
  <2> QED
    BY <1>1, <1>2, <1>3, <2>1 DEF DownTypes
<1> SUFFICES ASSUME ~disturbed PROVE Held' /\ Room' /\ Down'
  BY <1>1, <1>4 DEF DownInv
<1>5. Held /\ Room /\ Down
  BY DEF DownInv
<1>6. Held'
  BY <1>1, <1>3 DEF Held, Sending
<1>7. Room'
  BY <1>1, <1>5 DEF Room, Sending
<1>8. DownLine' = DownLine
  BY <1>1 DEF DownLine, Rest, Sending
<1>9. PICK F \in Seq(HostFrames), P \in [Endpoints -> Seq(Frames)] : Forwards(F, P)
  BY <1>5 DEF Down
<1>10. ASSUME NEW e \in Endpoints
       PROVE  PartOf(P[e], F, ModesAt(e)) /\ sent'[e] = P[e] \o Waiting(e)'
  <2>1. PartOf(P[e], F, ModesAt(e)) /\ sent[e] = P[e] \o Waiting(e) /\ P[e] \in Seq(Frames)
    BY <1>9 DEF Forwards
  <2>2. Waiting(e)' = <<>>
    BY <1>3 DEF Waiting
  <2>3. sent'[e] = P[e]
    <3>1. CASE outEp[e].count > 0
      <4>1. PICK f : f = Frame(ModeOf(e), PacketData(e))
        OBVIOUS
      <4>2. f \in Frames /\ Waiting(e) = <<f>>
        BY <1>1, <3>1, <4>1, WaitingType DEF Waiting, FramesAt
      <4>3. SubSeq(P[e] \o <<f>>, 1, Len(P[e] \o <<f>>) - 1) = P[e]
        BY <2>1, <4>2, FrontOfAppend
      <4> QED
        BY <1>1, <2>1, <3>1, <4>2, <4>3
    <3>2. CASE ~(outEp[e].count > 0)
      BY <1>1, <2>1, <3>2, ConcatEmptySeq DEF Waiting
    <3> QED
      BY <3>1, <3>2
  <2> QED
    BY <2>1, <2>2, <2>3, ConcatEmptySeq
<1>11. Forwards(F, P)'
  <2>1. \A e \in Endpoints : PartOf(P[e], F, ModesAt(e)) /\ sent'[e] = P[e] \o Waiting(e)'
    BY <1>10
  <2> QED
    BY <1>8, <1>9, <2>1 DEF Forwards
<1> QED
  BY <1>6, <1>7, <1>11 DEF Down

LEMMA InitDown == Init => DownInv
<1> SUFFICES ASSUME Init PROVE DownInv
  OBVIOUS
<1>1. \A e \in Endpoints :
        outEp[e] \in [count : 0 .. MAX_FRAME_SIZE, res : {"ACK", "NAK"},
                      data : [1 .. MAX_FRAME_SIZE -> Nat]]
        /\ outEp[e].count = 0 /\ sent[e] = <<>>
  BY Sizes DEF IdleOut, Init
<1>2. DownTypes
  <2>1. 2 \in Endpoints /\ 0 \in 0 .. MAX_FRAME_SIZE
    BY Sizes DEF Endpoints
  <2>2. /\ fifo = <<>> /\ rx = <<>> /\ outEp = [e \in Endpoints |-> IdleOut]
        /\ sent = [e \in Endpoints |-> <<>>] /\ ep = 2 /\ tx = [len |-> 0, pos |-> 0]
        /\ disturbed = FALSE
    BY DEF Init
  <2>3. outEp \in [Endpoints -> [count : 0 .. MAX_FRAME_SIZE, res : {"ACK", "NAK"},
                                 data : [1 .. MAX_FRAME_SIZE -> Nat]]]
    BY <1>1, <2>2
  <2>4. \A e \in Endpoints : sent[e] \in Seq(FramesAt(e))
    BY <2>2, EmptySeq
  <2>5. /\ DOMAIN sent = Endpoints /\ sent = [e \in Endpoints |-> sent[e]]
        /\ fifo \in Seq(Nat) /\ rx \in Seq(Nat) /\ ep \in Endpoints
        /\ tx \in [len : 0 .. MAX_FRAME_SIZE, pos : 0 .. MAX_FRAME_SIZE]
    BY <2>1, <2>2
  <2> QED
    BY <2>2, <2>3, <2>4, <2>5 DEF DownTypes
<1>3. Held
  BY <1>1 DEF Held, Sending, Init
<1>4. Room
  BY SizeAssumption DEF Room, Init
<1>5. Down
  <2>1. PICK P \in [Endpoints -> Seq(Frames)] : P = [e \in Endpoints |-> <<>>]
    BY EmptySeq
  <2>2. DownLine = <<>>
    BY DEF DownLine, Rest, Init
  <2>3. ASSUME NEW e \in Endpoints
        PROVE  PartOf(P[e], <<>>, ModesAt(e)) /\ sent[e] = P[e] \o Waiting(e)
    <3>1. P[e] = <<>> /\ sent[e] = <<>>
      BY <1>1, <2>1
    <3>2. Waiting(e) = <<>>
      BY <1>1 DEF Waiting
    <3>3. P[e] \o Waiting(e) = P[e]
      <4>1. P[e] \in Seq(Frames)
        OBVIOUS
      <4> QED
        BY <3>2, <4>1, ConcatEmptySeq
    <3> QED
      BY <3>1, <3>3, PartOfEmpty
  <2>4. <<>> \in Seq(HostFrames) /\ Forwards(<<>>, P)
    BY <2>2, <2>3, SpelledEmpty DEF Forwards
  <2> QED
    BY <2>4 DEF Down
<1> QED
  BY <1>2, <1>3, <1>4, <1>5 DEF DownInv

\* After a bus reset or a CLEAR_FEATURE request nothing is claimed any more.
LEMMA DisturbedSteps ==
  ASSUME DownInv, NEW e \in Endpoints, BusReset \/ ClearIn(e) \/ ClearOut(e)
  PROVE  DownInv'
<1>1. DownTypes /\ disturbed' = TRUE
  BY DEF DownInv, BusReset, ClearIn, ClearOut
<1>2. UNCHANGED <<fifo, rx, sent, ep, tx>>
  BY DEF BusReset, ClearIn, ClearOut, fpgavars, loopvars
<1>3. outEp' \in [Endpoints -> [count : 0 .. MAX_FRAME_SIZE, res : {"ACK", "NAK"},
                                data : [1 .. MAX_FRAME_SIZE -> Nat]]]
  <2>1. CASE BusReset
    <3>1. outEp' = [d \in Endpoints |-> [IdleOut EXCEPT !.data = outEp[d].data]]
      BY <2>1 DEF BusReset
    <3>2. \A d \in Endpoints : outEp[d].data \in [1 .. MAX_FRAME_SIZE -> Nat]
      BY <1>1 DEF DownTypes
    <3>3. \A d \in Endpoints :
            [IdleOut EXCEPT !.data = outEp[d].data]
              = [count |-> 0, res |-> "ACK", data |-> outEp[d].data]
      BY DEF IdleOut
    <3>4. 0 \in 0 .. MAX_FRAME_SIZE
      BY Sizes
    <3> QED
      <4>1. \A d \in Endpoints :
              [IdleOut EXCEPT !.data = outEp[d].data]
                \in [count : 0 .. MAX_FRAME_SIZE, res : {"ACK", "NAK"},
                     data : [1 .. MAX_FRAME_SIZE -> Nat]]
        <5> TAKE d \in Endpoints
        <5>1. outEp[d].data \in [1 .. MAX_FRAME_SIZE -> Nat]
          BY <3>2
        <5>2. [count |-> 0, res |-> "ACK", data |-> outEp[d].data]
                \in [count : 0 .. MAX_FRAME_SIZE, res : {"ACK", "NAK"},
                     data : [1 .. MAX_FRAME_SIZE -> Nat]]
          BY <3>4, <5>1
        <5> QED
          BY <3>3, <5>2
      <4> QED
        BY <3>1, <4>1
  <2>2. CASE ClearIn(e)
    BY <1>1, <2>2 DEF ClearIn, DownTypes
  <2>3. CASE ClearOut(e)
    <3> DEFINE Out == [count : 0 .. MAX_FRAME_SIZE, res : {"ACK", "NAK"},
                       data : [1 .. MAX_FRAME_SIZE -> Nat]]
    <3>1. outEp' = [outEp EXCEPT ![e].res = "ACK"]
      BY <2>3 DEF ClearOut
    <3>2. outEp \in [Endpoints -> Out]
      BY <1>1 DEF DownTypes
    <3>3. [outEp[e] EXCEPT !.res = "ACK"] \in Out
      BY <3>2
    <3> HIDE DEF Out
    <3>4. outEp' \in [Endpoints -> Out]
      BY <3>1, <3>2, <3>3
    <3> QED
      BY <3>4 DEF Out
  <2> QED
    BY <2>1, <2>2, <2>3
<1>4. DownTypes'
  BY <1>1, <1>2, <1>3 DEF DownTypes
<1> QED
  BY <1>1, <1>4 DEF DownInv

\* The loop goes on to another endpoint or leaves the poll.
LEMMA LoopTypes ==
  ASSUME DownTypes
  PROVE  /\ ep \in Endpoints /\ tx \in [len : 0 .. MAX_FRAME_SIZE, pos : 0 .. MAX_FRAME_SIZE]
         /\ \A l : Goto(l) => pc' = l /\ ep' = ep /\ tx' = tx
         /\ NextEndpoint => /\ pc' \in {"poll", "count"} /\ ep' \in Endpoints
                            /\ tx' \in [len : 0 .. MAX_FRAME_SIZE, pos : 0 .. MAX_FRAME_SIZE]
<1>1. 0 \in 0 .. MAX_FRAME_SIZE
  BY Sizes
<1>2. ep \in Endpoints /\ ep < 4 => ep + 1 \in Endpoints
  BY DEF Endpoints
<1>3. 2 \in Endpoints
  BY DEF Endpoints
<1> QED
  BY <1>1, <1>2, <1>3 DEF DownTypes, Goto, NextEndpoint

LEMMA MainLoopKeepsDown ==
  ASSUME RingInv, DownInv, MainLoop
  PROVE  DownInv'
<1> USE LoopTypes DEF DownInv
<1>1. CASE Top
  BY <1>1, NotSending DEF Top, Sending, fpgavars, usbvars, ghost, faults
<1>2. CASE PollEmpty
  BY <1>2, NotSending DEF PollEmpty, Sending, fpgavars, usbvars, ghost, faults
<1>3. CASE SendMode
  BY <1>3, ModeSent
<1>4. CASE SendLength
  BY <1>4, LengthSent
<1>5. CASE SendBuffer
  BY <1>5, BufferStarted
<1>6. CASE SendData
  BY <1>6, DataSent
<1>7. CASE Forwarded
  BY <1>7, PacketForwarded
<1>8. CASE Count \/ CountOut \/ CountStore
  BY <1>8, NotSending DEF Count, CountOut, CountStore, OnlyLoop, Load, Stored, Sending,
                          fpgavars, usbvars, ghost, faults
<1>9. CASE NoHeader \/ Header \/ LoadMode \/ StoreMode
  BY <1>9, NotSending DEF NoHeader, Header, LoadMode, StoreMode, OnlyLoop, Sending,
                          fpgavars, usbvars, ghost, faults
<1>10. CASE (\E len \in 0 .. MaxLength : TakeLength(len)) \/ SkipHeader \/ SkipStore
            \/ Subtract \/ SubStore \/ StartFrame
  <2>1. ASSUME NEW len \in 0 .. MaxLength, TakeLength(len) PROVE DownInv'
    BY <2>1, NotSending DEF TakeLength, Sending, fpgavars, usbvars, ghost, faults
  <2>2. CASE StartFrame
    BY <2>2, NotSending DEF StartFrame, Sending, fpgavars, usbvars, ghost, faults
  <2>3. CASE SkipHeader \/ SkipStore
    BY <2>3, NotSending DEF SkipHeader, SkipStore, OnlyLoop, Load, Stored, Sending, fpgavars,
                            usbvars, ghost, faults
  <2>4. CASE Subtract \/ SubStore
    BY <2>4, NotSending DEF Subtract, SubStore, OnlyLoop, Load, Stored, Sending, fpgavars,
                            usbvars, ghost, faults
  <2> QED
    BY <1>10, <2>1, <2>2, <2>3, <2>4
<1>11. CASE BadHeader
  BY <1>11, ResetsItself DEF BadHeader, Sending
<1>12. CASE (\E mode \in Modes : CopyBlock(mode)) \/ DiscardBlock \/ NoBlock \/ Copy
            \/ SkipChunk \/ ChunkStore \/ cts_start
  BY <1>12, NotSending DEF CopyBlock, DiscardBlock, NoBlock, Enter, Copy, SkipChunk, ChunkStore,
                           cts_start, OnlyLoop, Load, Stored, Sending, fpgavars, usbvars, ghost,
                           faults
<1>13. CASE UploadCdc
  BY <1>13, NotSending DEF UploadCdc, Sending, fpgavars, ghost, faults
<1>14. CASE UploadZlp
  BY <1>14, NotSending DEF UploadZlp, Sending, fpgavars, ghost, faults
<1>15. ASSUME NEW m \in {IO_FIDO, IO_CCID, IO_DEBUG}, UploadOther(m) PROVE DownInv'
  BY <1>15, NotSending DEF UploadOther, Sending, fpgavars, ghost, faults
<1>16. CASE Command
  BY <1>16, ResetsItself DEF Command, Sending
<1>17. CASE NoCommand
  BY <1>17, NotSending DEF NoCommand, Sending, fpgavars, usbvars, ghost, faults
<1>18. CASE Discarded
  BY <1>18, NotSending DEF Discarded, Sending, fpgavars, usbvars, ghost, faults
<1>19. CASE NothingElse
  BY <1>19, NotSending DEF NothingElse, Sending, fpgavars, usbvars, ghost, faults
<1> QED
  BY <1>1, <1>2, <1>3, <1>4, <1>5, <1>6, <1>7, <1>8, <1>9, <1>10, <1>11, <1>12, <1>13,
     <1>14, <1>15, <1>16, <1>17, <1>18, <1>19 DEF MainLoop

LEMMA OthersKeepDown ==
  ASSUME RingInv, DownInv, Uart1_ISR \/ Fpga \/ Host
  PROVE  DownInv'
<1>1. CASE Uart1_ISR
  BY <1>1, NothingSent DEF Uart1_ISR, usbvars, loopvars, ghost, faults
<1>2. ASSUME NEW m \in Modes \ {IO_CH552}, NEW len \in FrameLens[m], FpgaWrite(m, len)
      PROVE  DownInv'
  BY <1>2, NothingSent DEF FpgaWrite, usbvars, loopvars, faults
<1>3. ASSUME NEW mask \in Keeps, FpgaSetEndpoints(mask) PROVE DownInv'
  BY <1>3, NothingSent DEF FpgaSetEndpoints, usbvars, loopvars, faults
<1>4. CASE FpgaSend
  BY <1>4, NothingSent DEF FpgaSend, usbvars, loopvars, ghost, faults
<1>5. CASE FpgaRead
  BY <1>5, ByteRead
<1>6. CASE FpgaTake
  BY <1>6, FrameTaken
<1>7. ASSUME NEW e \in Endpoints, InComplete(e) PROVE DownInv'
  BY <1>7, NothingSent DEF InComplete, fpgavars, loopvars, ghost, faults
<1>8. ASSUME NEW e \in Endpoints, OutRepeated(e) PROVE DownInv'
  BY <1>8, NothingSent DEF OutRepeated, fpgavars, usbvars, loopvars, ghost, faults
<1>9. ASSUME NEW e \in Endpoints, ClearIn(e) \/ ClearOut(e) PROVE DownInv'
  BY <1>9, DisturbedSteps
<1>10. ASSUME NEW e \in Endpoints, NEW len \in PacketLens[e], NEW lost \in BOOLEAN,
              OutComplete(e, len, lost)
       PROVE  DownInv'
  BY <1>10, PacketArrives
<1>11. CASE BusReset
  <2>1. 2 \in Endpoints
    BY DEF Endpoints
  <2> QED
    BY <1>11, <2>1, DisturbedSteps
<1>12. CASE SetConfiguration
  BY <1>12, NothingSent DEF SetConfiguration, fpgavars, loopvars, ghost, faults
<1> QED
  BY <1>1, <1>2, <1>3, <1>4, <1>5, <1>6, <1>7, <1>8, <1>9, <1>10, <1>11, <1>12 DEF Fpga, Host

LEMMA DownInvHolds == Spec => []DownInv
<1>1. Init => DownInv
  BY InitDown
<1>2. RingInv /\ DownInv /\ [Next]_vars => DownInv'
  <2> SUFFICES ASSUME RingInv, DownInv, [Next]_vars PROVE DownInv'
    OBVIOUS
  <2>1. CASE Next
    BY <2>1, MainLoopKeepsDown, OthersKeepDown DEF Next
  <2>2. CASE UNCHANGED vars
    BY <2>2, NothingSent DEF vars, fpgavars, usbvars, loopvars, ghost, faults
  <2> QED
    BY <2>1, <2>2
<1>3. Spec => []RingInv
  BY RingInvHolds
<1> QED
  BY <1>1, <1>2, <1>3, PTL DEF Spec

\* A frame the FPGA has read whole (libcommon/io.c) is the oldest packet the host
\* sent to one of the endpoints, byte for byte, as long as there has been no bus
\* reset and no CLEAR_FEATURE: for every number of packets under way, every size
\* of the buffers, with lost handshakes and resets of the CH552 in between.
THEOREM DeliveredAsSent == Spec => []DeliveredIsSent
<1>1. DownInv => DeliveredIsSent
  <2> SUFFICES ASSUME DownInv, FrameRead, ~disturbed
               PROVE  \E e \in Endpoints : sent[e] # <<>> /\ rx = Framed(Head(sent[e]))
    BY DEF DeliveredIsSent
  <2>1. PICK F \in Seq(HostFrames), P \in [Endpoints -> Seq(Frames)] : Forwards(F, P)
    BY DEF DownInv, Down
  <2> QED
    BY <2>1, FrameIsPacket
<1> QED
  BY <1>1, DownInvHolds, PTL

-----------------------------------------------------------------------------
(* From the FPGA to the host *)

\* What is in the ring, oldest byte first.
InRing == circular_copy(ring.out, Fill)

LineFrames == {f \in Frames : Len(f.data) \in 1 .. MAX_FRAME_SIZE}

UpTypes ==
  /\ owed \in [Endpoints -> Seq(LineFrames)]
  /\ quiet \in BOOLEAN /\ disturbed \in BOOLEAN

\* The header has left the ring, and the parser uses it.
HeaderGone == frame.started \/ pc \in {"sub", "subStore", "begin"}

\* The part of the frame in hand that has left the ring.  A frame that is
\* discarded is gone as soon as its data has been skipped.
Taken ==
  IF dataAvailable # {}
  THEN IF IO_NONE \in dataAvailable THEN <<>> ELSE Framed(Frame(frame.mode, FrameBuf))
  ELSE IF HeaderGone THEN <<frame.mode, frame.remaining>> ELSE <<>>

UpLine == Taken \o (InRing \o (wire \o outq))

\* Without a bus reset the parser is in step: frames fit in one packet.
InStep ==
  /\ HeaderGone => /\ frame.mode \in Modes /\ frame.remaining <= MAX_FRAME_SIZE
                   /\ frame.remaining > 0 <=> dataAvailable = {}
  /\ frame.discard <=> frame.started /\ frame.mode \notin ActiveEndpoints
  /\ \A e \in Endpoints : inEp[e].busy <=> inEp[e].res = "ACK"

\* What has been loaded or copied, and is still in the ring.
ReadsHeader ==
  /\ pc = "modeStore" => regs.mode = ring.buf[ring.out]
  /\ pc \in {"check", "skip", "skipStore"} => frame.mode = ring.buf[ring.out]
  /\ pc \in {"skip", "skipStore"} =>
       frame.remaining = ring.buf[increment_pointer(ring.out, 1)]

ReadsChunk ==
  pc \in {"move", "moveStore"} =>
    regs.mode = IO_NONE \/ FrameBuf = circular_copy(ring.out, Chunk)

Parsing == InStep /\ ReadsHeader /\ ReadsChunk

\* Elsewhere in the main loop none of this says anything.
Reading ==
  {"modeStore", "check", "skip", "skipStore", "sub", "subStore", "begin", "move", "moveStore"}

\* A command is the last thing the FPGA writes.
CommandLast(F) == \A k \in 1 .. Len(F) : F[k].mode = IO_CH552 => k = Len(F) /\ quiet

Offering(e) == inEp[e].res = "ACK" /\ inEp[e].data # <<>>

\* Owed to endpoint e is what it offers and the frames s behind it.
Owes(e, s) ==
  IF Offering(e)
  THEN /\ owed[e] # <<>> /\ Tail(owed[e]) = s
       /\ inEp[e].data = Packet(Head(owed[e]).mode, Head(owed[e]).data)
  ELSE owed[e] = s

HeardBy(e) == ModesAt(e) \cap ActiveEndpoints

Uploads(F, P) ==
  /\ Spelled(UpLine, F) /\ CommandLast(F)
  /\ \A e \in Endpoints : PartOf(P[e], F, HeardBy(e)) /\ Owes(e, P[e])

Up == \E F \in Seq(LineFrames) : \E P \in [Endpoints -> Seq(LineFrames)] : Uploads(F, P)

UpInv == UpTypes /\ (~disturbed => Parsing /\ Up)

\* An update of the ring is torn by a bus reset only.
TornInv == torn => disturbed

LEMMA TornInvHolds == Spec => []TornInv
<1>1. Init => TornInv
  BY DEF Init, TornInv
<1>2. TornInv /\ [Next]_vars => TornInv'
  <2> SUFFICES ASSUME TornInv, [Next]_vars PROVE TornInv'
    OBVIOUS
  <2>1. CASE UNCHANGED faults
    BY <2>1 DEF TornInv, faults
  <2>2. CASE disturbed' = TRUE \/ torn' = FALSE
    BY <2>2 DEF TornInv
  <2>3. CASE MainLoop
    <3>1. CASE Top \/ PollEmpty \/ SendMode \/ SendLength \/ SendBuffer \/ SendData \/ Forwarded
               \/ Count \/ CountOut \/ CountStore
      BY <2>1, <3>1 DEF Top, PollEmpty, SendMode, SendLength, SendBuffer, SendData, Forwarded,
                        Count, CountOut, CountStore, OnlyLoop, ghost
    <3>2. CASE NoHeader \/ Header \/ LoadMode \/ StoreMode
               \/ (\E len \in 0 .. MaxLength : TakeLength(len)) \/ SkipHeader \/ SkipStore
               \/ Subtract \/ SubStore \/ StartFrame
      BY <2>1, <3>2 DEF NoHeader, Header, LoadMode, StoreMode, TakeLength, SkipHeader, SkipStore,
                        Subtract, SubStore, StartFrame, OnlyLoop, ghost
    <3>3. CASE (\E mode \in Modes : CopyBlock(mode)) \/ DiscardBlock \/ NoBlock \/ Copy
               \/ SkipChunk \/ ChunkStore \/ cts_start
      BY <2>1, <3>3 DEF CopyBlock, DiscardBlock, NoBlock, Enter, Copy, SkipChunk, ChunkStore,
                        cts_start, OnlyLoop, ghost
    <3>4. CASE UploadCdc \/ UploadZlp \/ (\E m \in {IO_FIDO, IO_CCID, IO_DEBUG} : UploadOther(m))
               \/ NoCommand \/ Discarded \/ NothingElse
      BY <2>1, <3>4 DEF UploadCdc, UploadZlp, UploadOther, NoCommand, Discarded, NothingElse, ghost
    <3>5. CASE BadHeader \/ Command
      BY <2>2, <3>5 DEF BadHeader, Command, SoftReset
    <3> QED
      BY <2>3, <3>1, <3>2, <3>3, <3>4, <3>5 DEF MainLoop
  <2>4. CASE Uart1_ISR \/ Fpga \/ UNCHANGED vars
    BY <2>1, <2>4 DEF Uart1_ISR, Fpga, FpgaWrite, FpgaSetEndpoints, FpgaSend, FpgaRead, FpgaTake,
                      vars, ghost
  <2>5. CASE Host
    BY <2>1, <2>2, <2>5 DEF Host, InComplete, OutRepeated, ClearIn, ClearOut, OutComplete,
                            BusReset, SetConfiguration, ghost
  <2> QED
    BY <2>3, <2>4, <2>5 DEF Next
<1> QED
  BY <1>1, <1>2, PTL DEF Spec

LEMMA CopiedBytes ==
  ASSUME NEW p \in Pointer, NEW n \in Nat, n < UART_RX_BUF_SIZE, ring.buf \in [Pointer -> Nat]
  PROVE  /\ circular_copy(p, n) \in Seq(Nat) /\ Len(circular_copy(p, n)) = n
         /\ \A i \in 1 .. n : /\ circular_copy(p, n)[i] = ring.buf[increment_pointer(p, i - 1)]
                              /\ increment_pointer(p, i - 1) \in Pointer
<1>1. ASSUME NEW i \in 1 .. n
      PROVE  /\ increment_pointer(p, i - 1) \in Pointer
             /\ ring.buf[increment_pointer(p, i - 1)] \in Nat
  <2>1. i - 1 \in Nat /\ i - 1 < UART_RX_BUF_SIZE
    BY Sizes
  <2>2. increment_pointer(p, i - 1) \in Pointer
    BY <2>1, MovesOn
  <2> QED
    BY <2>2
<1>2. circular_copy(p, n) \in Seq(Nat) /\ Len(circular_copy(p, n)) = n
  BY <1>1, IsASeq, LenProperties DEF circular_copy
<1>3. \A i \in 1 .. n : circular_copy(p, n)[i] = ring.buf[increment_pointer(p, i - 1)]
  BY DEF circular_copy
<1> QED
  BY <1>1, <1>2, <1>3

LEMMA LineTypes ==
  ASSUME RingInv
  PROVE  /\ ring.in \in Pointer /\ ring.out \in Pointer /\ ring.buf \in [Pointer -> Nat]
         /\ Fill \in Nat /\ Fill < UART_RX_BUF_SIZE
         /\ InRing \in Seq(Nat) /\ Len(InRing) = Fill
         /\ wire \in Seq(Nat) /\ outq \in Seq(Nat)
<1>1. /\ ring.in \in Pointer /\ ring.out \in Pointer /\ ring.buf \in [Pointer -> Nat]
      /\ Fill \in Nat /\ Fill < UART_RX_BUF_SIZE
  BY RingTypes DEF RingInv
<1>2. wire \in Seq(Nat) /\ outq \in Seq(Nat)
  <2>1. \A b \in Nat : <<b>> \in Seq(Nat)
    OBVIOUS
  <2>2. wire = <<>> \/ \E b \in Nat : wire = <<b>>
    BY DEF RingInv, BridgeTypes
  <2>3. wire \in Seq(Nat)
    BY <2>1, <2>2, EmptySeq
  <2> QED
    BY <2>3 DEF RingInv, BridgeTypes
<1> QED
  BY <1>1, <1>2, CopiedBytes DEF InRing

\* The pointer i bytes after one that is n bytes after p.
LEMMA MovesTwice ==
  ASSUME NEW p \in Pointer, NEW n \in Nat, NEW i \in Nat, n + i < UART_RX_BUF_SIZE
  PROVE  increment_pointer(increment_pointer(p, n), i) = increment_pointer(p, n + i)
<1>1. /\ n < UART_RX_BUF_SIZE /\ i < UART_RX_BUF_SIZE /\ n + i \in Nat
      /\ p \in Nat /\ p < UART_RX_BUF_SIZE
  BY Sizes DEF Pointer
<1> DEFINE N == UART_RX_BUF_SIZE
           q == increment_pointer(p, n)
           r == increment_pointer(q, i)
           t == increment_pointer(p, n + i)
<1>2. q \in Pointer /\ q = IF p + n < N THEN p + n ELSE p + n - N
  BY <1>1, MovesOn
<1>3. r = IF q + i < N THEN q + i ELSE q + i - N
  <2> HIDE DEF q
  <2> QED
    BY <1>1, <1>2, MovesOn
<1>4. t = IF p + (n + i) < N THEN p + (n + i) ELSE p + (n + i) - N
  BY <1>1, MovesOn
<1> HIDE DEF q, r, t, N
<1>5. N \in Nat
  BY Sizes DEF N
<1>6. n + i < N /\ p < N
  BY <1>1 DEF N
<1>7. p + n < N => r = t
  BY <1>1, <1>2, <1>3, <1>4, <1>5, <1>6
<1>8. ~(p + n < N) => r = t
  BY <1>1, <1>2, <1>3, <1>4, <1>5, <1>6
<1>9. r = t
  BY <1>7, <1>8
<1> QED
  BY <1>9 DEF q, r, t

\* The input pointer is where the ring ends.
LEMMA InputAfterFill ==
  ASSUME NEW in \in Pointer, NEW out \in Pointer
  PROVE  /\ increment_pointer(out, uart_byte_count(in, out)) = in
         /\ \A i \in Nat : i < uart_byte_count(in, out) => increment_pointer(out, i) # in
<1>1. /\ in \in Nat /\ in < UART_RX_BUF_SIZE /\ out \in Nat /\ out < UART_RX_BUF_SIZE
      /\ UART_RX_BUF_SIZE \in Nat
  BY Sizes DEF Pointer
<1>2. /\ uart_byte_count(in, out) \in Nat /\ uart_byte_count(in, out) < UART_RX_BUF_SIZE
      /\ uart_byte_count(in, out) = IF in >= out THEN in - out ELSE UART_RX_BUF_SIZE - (out - in)
  BY FillIsNat DEF uart_byte_count
<1> DEFINE c == uart_byte_count(in, out)
<1>3. increment_pointer(out, c) = IF out + c < UART_RX_BUF_SIZE THEN out + c
                                  ELSE out + c - UART_RX_BUF_SIZE
  BY <1>2, MovesOn
<1>4. ASSUME NEW i \in Nat, i < c
      PROVE  increment_pointer(out, i) # in
  <2>1. increment_pointer(out, i) = IF out + i < UART_RX_BUF_SIZE THEN out + i
                                    ELSE out + i - UART_RX_BUF_SIZE
    <3>1. i < UART_RX_BUF_SIZE
      BY <1>1, <1>2, <1>4
    <3> QED
      BY <3>1, MovesOn
  <2> QED
    BY <1>1, <1>2, <1>4, <2>1
<1> QED
  BY <1>1, <1>2, <1>3, <1>4

\* The interrupt puts its byte behind the others.
LEMMA RingGrows ==
  ASSUME RingInv, RingInv', Fill' = Fill + 1, NEW b \in Nat,
         ring'.buf = [ring.buf EXCEPT ![ring.in] = b], ring'.out = ring.out
  PROVE  InRing' = Append(InRing, b)
<1>1. /\ ring.in \in Pointer /\ ring.out \in Pointer /\ ring.buf \in [Pointer -> Nat]
      /\ Fill \in Nat /\ Fill < UART_RX_BUF_SIZE /\ InRing \in Seq(Nat) /\ Len(InRing) = Fill
  BY LineTypes
<1>2. /\ ring'.out = ring.out /\ ring'.buf[ring.in] = b
      /\ \A p \in Pointer : p # ring.in => ring'.buf[p] = ring.buf[p]
      /\ ring'.buf \in [Pointer -> Nat]
  BY <1>1 DEF RingInv, BridgeTypes, RingType
<1>3. Fill + 1 < UART_RX_BUF_SIZE /\ InRing' \in Seq(Nat) /\ Len(InRing') = Fill + 1
  <2>1. ring'.in \in Pointer /\ ring'.out \in Pointer
    BY DEF RingInv, BridgeTypes, RingType
  <2>2. Fill' \in Nat /\ Fill' < UART_RX_BUF_SIZE
    BY <2>1, FillIsNat DEF Fill
  <2>3. ASSUME NEW i \in 1 .. Fill + 1
        PROVE  ring'.buf[increment_pointer(ring.out, i - 1)] \in Nat
    <3>1. i - 1 \in Nat /\ i - 1 < UART_RX_BUF_SIZE
      BY <1>1, <2>2, Sizes
    <3> QED
      BY <1>1, <1>2, <3>1, MovesOn
  <2>4. InRing' = [i \in 1 .. Fill + 1 |-> ring'.buf[increment_pointer(ring.out, i - 1)]]
    BY <1>2 DEF InRing, circular_copy
  <2> QED
    BY <1>1, <2>2, <2>3, <2>4, IsASeq, LenProperties
<1>4. \A i \in 1 .. Fill + 1 : InRing'[i] = ring'.buf[increment_pointer(ring.out, i - 1)]
  BY <1>2 DEF InRing, circular_copy
<1>5. \A i \in 1 .. Fill : InRing[i] = ring.buf[increment_pointer(ring.out, i - 1)]
                           /\ increment_pointer(ring.out, i - 1) \in Pointer
  BY <1>1, CopiedBytes DEF InRing
<1>6. ASSUME NEW i \in 1 .. Fill
      PROVE  InRing'[i] = InRing[i]
  <2>1. i - 1 \in Nat /\ i - 1 < Fill /\ i \in 1 .. Fill + 1
    BY <1>1
  <2>2. increment_pointer(ring.out, i - 1) # ring.in
    BY <1>1, <2>1, InputAfterFill DEF Fill
  <2> QED
    BY <1>2, <1>4, <1>5, <2>1, <2>2
<1>7. InRing'[Fill + 1] = b
  <2>1. Fill + 1 \in 1 .. Fill + 1 /\ Fill + 1 - 1 = Fill
    BY <1>1
  <2>2. increment_pointer(ring.out, Fill) = ring.in
    BY <1>1, InputAfterFill DEF Fill
  <2>3. \A i \in 1 .. Fill + 1 :
          i - 1 = Fill => InRing'[i] = ring'.buf[increment_pointer(ring.out, Fill)]
    BY <1>4
  <2>4. \A i \in 1 .. Fill + 1 : i - 1 = Fill => InRing'[i] = b
    BY <1>2, <2>2, <2>3
  <2>5. PICK n \in 1 .. Fill + 1 : n = Fill + 1 /\ n - 1 = Fill
    BY <1>1, <2>1
  <2> QED
    BY <2>4, <2>5
<1>8. Append(InRing, b) \in Seq(Nat) /\ Len(Append(InRing, b)) = Fill + 1
      /\ (\A i \in 1 .. Fill : Append(InRing, b)[i] = InRing[i])
      /\ Append(InRing, b)[Fill + 1] = b
  BY <1>1, AppendProperties
<1>9. ASSUME NEW i \in 1 .. Fill + 1 PROVE InRing'[i] = Append(InRing, b)[i]
  <2>1. i \in 1 .. Fill \/ i = Fill + 1
    BY <1>1
  <2> QED
    BY <1>6, <1>7, <1>8, <2>1
<1> QED
  BY <1>3, <1>8, <1>9, SeqEqual

\* What is read first is what was written first.
LEMMA RingShrinks ==
  ASSUME RingInv, NEW n \in Nat, n <= Fill,
         ring' = [ring EXCEPT !.out = increment_pointer(@, n)]
  PROVE  /\ circular_copy(ring.out, n) \in Seq(Nat) /\ InRing' \in Seq(Nat)
         /\ Len(circular_copy(ring.out, n)) = n
         /\ InRing = circular_copy(ring.out, n) \o InRing'
<1>1. /\ ring.in \in Pointer /\ ring.out \in Pointer /\ ring.buf \in [Pointer -> Nat]
      /\ Fill \in Nat /\ Fill < UART_RX_BUF_SIZE /\ InRing \in Seq(Nat) /\ Len(InRing) = Fill
  BY LineTypes
<1>2. /\ ring'.out = increment_pointer(ring.out, n) /\ ring'.buf = ring.buf
      /\ Fill' = Fill - n /\ n < UART_RX_BUF_SIZE /\ increment_pointer(ring.out, n) \in Pointer
  <2>1. n < UART_RX_BUF_SIZE
    BY <1>1, Sizes
  <2> QED
    BY <1>1, <2>1, BytesRead, MovesOn DEF RingInv, BridgeTypes, RingType
<1> DEFINE a == circular_copy(ring.out, n)
           b == circular_copy(increment_pointer(ring.out, n), Fill - n)
<1>3. InRing' = b
  BY <1>2 DEF InRing, circular_copy
<1>4. /\ a \in Seq(Nat) /\ Len(a) = n
      /\ \A i \in 1 .. n : a[i] = ring.buf[increment_pointer(ring.out, i - 1)]
  BY <1>1, <1>2, CopiedBytes
<1>5. /\ b \in Seq(Nat) /\ Len(b) = Fill - n /\ Fill - n \in Nat
      /\ \A i \in 1 .. Fill - n :
           b[i] = ring.buf[increment_pointer(increment_pointer(ring.out, n), i - 1)]
  <2>1. Fill - n \in Nat /\ Fill - n < UART_RX_BUF_SIZE
    BY <1>1, Sizes
  <2> QED
    BY <1>1, <1>2, <2>1, CopiedBytes
<1>6. \A i \in 1 .. Fill : InRing[i] = ring.buf[increment_pointer(ring.out, i - 1)]
  BY <1>1, CopiedBytes DEF InRing
<1> HIDE DEF a, b
<1>7. /\ a \o b \in Seq(Nat) /\ Len(a \o b) = Fill
      /\ \A i \in 1 .. Fill : (a \o b)[i] = IF i <= n THEN a[i] ELSE b[i - n]
  <2>1. n + (Fill - n) = Fill
    BY <1>1
  <2>2. /\ a \o b \in Seq(Nat) /\ Len(a \o b) = Len(a) + Len(b)
        /\ \A i \in 1 .. Len(a) + Len(b) :
             (a \o b)[i] = IF i <= Len(a) THEN a[i] ELSE b[i - Len(a)]
    BY <1>4, <1>5, ConcatProperties
  <2>3. Len(a) = n /\ Len(b) = Fill - n
    BY <1>4, <1>5
  <2> QED
    BY <2>1, <2>2, <2>3
<1>8. ASSUME NEW i \in 1 .. Fill PROVE InRing[i] = (a \o b)[i]
  <2>1. CASE i <= n
    <3>1. i \in 1 .. n /\ (a \o b)[i] = a[i]
      BY <1>1, <1>7, <2>1
    <3> QED
      BY <1>4, <1>6, <3>1
  <2>2. CASE ~(i <= n)
    <3>1. /\ i - n \in 1 .. Fill - n /\ i - n - 1 \in Nat /\ n + (i - n - 1) = i - 1
          /\ n + (i - n - 1) < UART_RX_BUF_SIZE
      <4> DEFINE c == Fill
                 N == UART_RX_BUF_SIZE
      <4>1. c \in Nat /\ N \in Nat /\ c < N /\ n <= c /\ i \in 1 .. c
        BY <1>1, Sizes
      <4> HIDE DEF c, N
      <4>2. /\ i - n \in 1 .. c - n /\ i - n - 1 \in Nat /\ n + (i - n - 1) = i - 1
            /\ i - 1 < N
        BY <2>2, <4>1
      <4> QED
        BY <4>2 DEF c, N
    <3>2. b[i - n] = ring.buf[increment_pointer(increment_pointer(ring.out, n), i - n - 1)]
      BY <1>5, <3>1
    <3>3. increment_pointer(increment_pointer(ring.out, n), i - n - 1)
            = increment_pointer(ring.out, i - 1)
      BY <1>1, <3>1, MovesTwice, SMTT(30)
    <3> QED
      BY <1>6, <1>7, <2>2, <3>2, <3>3
  <2> QED
    BY <2>1, <2>2
<1>9. InRing = a \o b
  BY <1>1, <1>7, <1>8, SeqEqual
<1> QED
  BY <1>3, <1>4, <1>5, <1>9 DEF a

LEMMA FirstBytes ==
  ASSUME NEW F \in Seq(Frames), NEW s \in Seq(Nat), Spelled(s, F), s # <<>>
  PROVE  /\ F # <<>> /\ Head(F) \in Frames /\ Head(F) = F[1] /\ 1 \in 1 .. Len(F)
         /\ Len(Framed(Head(F))) <= Len(s)
         /\ s[1] = Head(F).mode /\ s[2] = Len(Head(F).data) /\ Len(Head(F).data) \in Nat
<1>1. F # <<>>
  BY SpelledNonEmpty
<1>2. /\ Head(F) \in Frames /\ Head(F) = F[1] /\ Len(Framed(Head(F))) <= Len(s)
      /\ \A i \in 1 .. Len(Framed(Head(F))) : s[i] = Framed(Head(F))[i]
  BY <1>1, SpelledHead
<1>3. /\ Len(Framed(Head(F))) = 2 + Len(Head(F).data) /\ Len(Head(F).data) \in Nat
      /\ Framed(Head(F))[1] = Head(F).mode /\ Framed(Head(F))[2] = Len(Head(F).data)
  BY <1>2, FramedProperties
<1>4. 1 \in 1 .. Len(Framed(Head(F))) /\ 2 \in 1 .. Len(Framed(Head(F)))
  BY <1>3
<1>5. 1 \in 1 .. Len(F)
  BY <1>1, EmptySeq
<1> QED
  BY <1>1, <1>2, <1>3, <1>4, <1>5

\* The bytes begin with a whole frame.
LEMMA FirstFrame ==
  ASSUME NEW F \in Seq(Frames), NEW g \in Frames, NEW b \in Seq(Nat), Spelled(Framed(g) \o b, F)
  PROVE  /\ F # <<>> /\ Head(F) = g /\ F[1] = g /\ 1 \in 1 .. Len(F) /\ Spelled(b, Tail(F))
<1> DEFINE a == Framed(g)
<1>1. /\ a \in Seq(Nat) /\ Len(a) = 2 + Len(g.data) /\ Len(g.data) \in Nat
      /\ a[1] = g.mode /\ a[2] = Len(g.data)
  BY FramedProperties
<1> HIDE DEF a
<1>2. /\ a \o b \in Seq(Nat) /\ Len(a \o b) = Len(a) + Len(b) /\ Len(b) \in Nat
      /\ \A i \in 1 .. Len(a) + Len(b) : (a \o b)[i] = IF i <= Len(a) THEN a[i] ELSE b[i - Len(a)]
  <2>1. a \in Seq(Nat) /\ Len(b) \in Nat
    BY <1>1
  <2> QED
    BY <2>1, ConcatProperties
<1>3. (a \o b)[2] = Len(g.data) /\ a \o b # <<>>
  <2>1. 2 \in 1 .. Len(a) + Len(b) /\ 2 <= Len(a) /\ Len(a) + Len(b) # 0
    <3>1. \A k, n \in Nat : 2 \in 1 .. 2 + k + n /\ 2 <= 2 + k /\ 2 + k + n # 0
      OBVIOUS
    <3> QED
      BY <1>1, <1>2, <3>1
  <2> QED
    BY <1>1, <1>2, <2>1, EmptySeq
<1>4. Spelled(a \o b, F)
  BY DEF a
<1>5. /\ F # <<>> /\ Head(F) \in Frames /\ Head(F) = F[1] /\ 1 \in 1 .. Len(F)
      /\ Len(Head(F).data) = Len(g.data)
  BY <1>2, <1>3, <1>4, FirstBytes
<1>6. Len(a) = Len(Framed(Head(F)))
  BY <1>1, <1>5, FramedProperties
<1>7. a = Framed(Head(F)) /\ Spelled(b, Tail(F))
  BY <1>1, <1>4, <1>5, <1>6, SpelledTail
<1>8. g = Head(F)
  BY <1>5, <1>7, FramedInjective DEF a
<1> QED
  BY <1>5, <1>7, <1>8

LEMMA HeadThenTail ==
  ASSUME NEW q \in Seq(Nat), q # <<>>
  PROVE  <<Head(q)>> \o Tail(q) = q
<1>1. /\ Head(q) \in Nat /\ Head(q) = q[1] /\ Tail(q) \in Seq(Nat)
      /\ Len(q) \in Nat /\ Len(q) >= 1 /\ Len(Tail(q)) = Len(q) - 1
      /\ \A i \in 1 .. Len(q) - 1 : Tail(q)[i] = q[i + 1]
  BY HeadTailProperties, EmptySeq
<1> DEFINE h == <<Head(q)>>
           t == Tail(q)
           n == Len(q)
<1>2. h \in Seq(Nat) /\ Len(h) = 1 /\ h[1] = q[1]
  BY <1>1
<1> HIDE DEF h, t
<1>3. /\ h \o t \in Seq(Nat) /\ Len(h \o t) = Len(h) + Len(t)
      /\ \A i \in 1 .. Len(h) + Len(t) : (h \o t)[i] = IF i <= Len(h) THEN h[i] ELSE t[i - Len(h)]
  <2>1. h \in Seq(Nat) /\ t \in Seq(Nat)
    BY <1>1, <1>2 DEF t
  <2> QED
    BY <2>1, ConcatProperties
<1>4. Len(t) = n - 1 /\ \A i \in 1 .. n - 1 : t[i] = q[i + 1]
  BY <1>1 DEF t
<1>5. Len(h \o t) = n
  BY <1>1, <1>2, <1>3, <1>4
<1>6. ASSUME NEW i \in 1 .. n PROVE (h \o t)[i] = q[i]
  <2>1. (h \o t)[i] = IF i <= 1 THEN h[i] ELSE t[i - 1]
    BY <1>1, <1>2, <1>3, <1>4, SMTT(30)
  <2>2. CASE i = 1
    BY <1>2, <2>1, <2>2
  <2>3. CASE i # 1
    <3>1. i - 1 \in 1 .. n - 1 /\ i - 1 + 1 = i /\ ~(i <= 1)
      BY <1>1, <2>3
    <3> QED
      BY <1>4, <2>1, <3>1
  <2> QED
    BY <2>2, <2>3
<1>7. h \o t = q
  BY <1>3, <1>5, <1>6, SeqEqual
<1> QED
  BY <1>7 DEF h, t

LEMMA AppendThen ==
  ASSUME NEW f \in Seq(Nat), NEW b \in Nat, NEW t \in Seq(Nat)
  PROVE  Append(f, b) \o t = f \o (<<b>> \o t)
<1>1. Append(f, b) = f \o <<b>> /\ <<b>> \in Seq(Nat)
  BY AppendIsConcat
<1>2. (f \o <<b>>) \o t = f \o (<<b>> \o t)
  BY <1>1, ConcatAssociative
<1> QED
  BY <1>1, <1>2

LEMMA LineFrameSets ==
  /\ LineFrames \subseteq Frames /\ Seq(LineFrames) \subseteq Seq(Frames)
BY SeqMonotonic DEF LineFrames

LEMMA OutsideRing ==
  ASSUME RingInv
  PROVE  wire \o outq \in Seq(Nat) /\ InRing \o (wire \o outq) \in Seq(Nat)
<1>1. InRing \in Seq(Nat) /\ wire \in Seq(Nat) /\ outq \in Seq(Nat)
  BY LineTypes
<1>2. \A a, b \in Seq(Nat) : a \o b \in Seq(Nat)
  BY ConcatProperties
<1>3. wire \o outq \in Seq(Nat)
  BY <1>1, <1>2
<1> QED
  BY <1>1, <1>2, <1>3

\* A step after which the line still holds the same bytes.
LEMMA SameUpLine ==
  ASSUME UpInv, UpTypes', UNCHANGED <<RESET_KEEP, quiet, disturbed>>,
         ~disturbed => Parsing' /\ UpLine' = UpLine,
         ~disturbed => \A e \in Endpoints : \A s : Owes(e, s) => Owes(e, s)'
  PROVE  UpInv'
<1> SUFFICES ASSUME ~disturbed PROVE Up'
  BY DEF UpInv
<1>1. PICK F \in Seq(LineFrames), P \in [Endpoints -> Seq(LineFrames)] : Uploads(F, P)
  BY DEF UpInv, Up
<1>2. \A e \in Endpoints : HeardBy(e)' = HeardBy(e)
  BY DEF HeardBy, ActiveEndpoints
<1>3. Spelled(UpLine', F) /\ CommandLast(F)'
  BY <1>1 DEF Uploads, CommandLast
<1>4. \A e \in Endpoints : PartOf(P[e], F, HeardBy(e)') /\ Owes(e, P[e])'
  BY <1>1, <1>2 DEF Uploads
<1>5. Uploads(F, P)'
  BY <1>3, <1>4 DEF Uploads
<1> QED
  BY <1>1, <1>5 DEF Up

\* The main loop goes on, and reads nothing.
LEMMA NotUp ==
  ASSUME UpInv,
         UNCHANGED <<RESET_KEEP, ring, wire, outq, frame, FrameBuf, dataAvailable, inEp, owed,
                     quiet, disturbed>>,
         HeaderGone' <=> HeaderGone,
         ~disturbed => ReadsHeader' /\ ReadsChunk'
  PROVE  UpInv'
<1>1. UpTypes'
  BY DEF UpInv, UpTypes
<1>2. ~disturbed => Parsing'
  BY DEF UpInv, Parsing, InStep, ActiveEndpoints
<1>3. UpLine' = UpLine
  <2>1. InRing' = InRing
    BY DEF InRing, circular_copy, Fill
  <2>2. Taken' = Taken
    BY DEF Taken
  <2> QED
    BY <2>1, <2>2 DEF UpLine
<1>4. \A e \in Endpoints : \A s : Owes(e, s) => Owes(e, s)'
  BY DEF Owes, Offering
<1> QED
  BY <1>1, <1>2, <1>3, <1>4, SameUpLine

LEMMA NotReading ==
  ASSUME UpInv,
         UNCHANGED <<RESET_KEEP, ring, wire, outq, frame, FrameBuf, dataAvailable, inEp, owed,
                     quiet, disturbed>>,
         pc \notin Reading, pc' \notin Reading
  PROVE  UpInv'
<1>1. HeaderGone' <=> HeaderGone
  BY DEF HeaderGone, Reading
<1>2. ReadsHeader' /\ ReadsChunk'
  BY DEF ReadsHeader, ReadsChunk, Reading
<1> QED
  BY <1>1, <1>2, NotUp

LEMMA SamePlace ==
  ASSUME UpInv,
         UNCHANGED <<RESET_KEEP, ring, wire, outq, frame, FrameBuf, dataAvailable, inEp, owed,
                     quiet, disturbed, pc, regs>>
  PROVE  UpInv'
<1>1. HeaderGone' <=> HeaderGone
  BY DEF HeaderGone
<1>2. ReadsHeader /\ ReadsChunk => ReadsHeader' /\ ReadsChunk'
  BY DEF ReadsHeader, ReadsChunk, circular_copy, Chunk
<1> QED
  BY <1>1, <1>2, NotUp DEF UpInv, Parsing

\* The controller after a reset.
Fresh ==
  /\ ring = EmptyRing /\ wire = <<>> /\ outq = <<>> /\ frame = NoFrame /\ dataAvailable = {}
  /\ owed = [e \in Endpoints |-> <<>>] /\ inEp = [e \in Endpoints |-> IdleIn]
  /\ quiet \in BOOLEAN /\ disturbed \in BOOLEAN /\ pc = "top"

LEMMA FreshUp == Fresh => UpInv
<1> SUFFICES ASSUME Fresh PROVE UpInv
  OBVIOUS
<1>1. UpTypes
  BY EmptySeq DEF UpTypes, Fresh
<1>2. Parsing
  BY DEF Parsing, InStep, HeaderGone, ReadsHeader, ReadsChunk, Fresh, NoFrame, IdleIn
<1>3. UpLine = <<>>
  <2>1. Fill = 0
    BY DEF Fill, uart_byte_count, EmptyRing, Fresh
  <2>2. InRing = <<>>
    BY <2>1 DEF InRing, circular_copy
  <2>3. Taken = <<>>
    BY DEF Taken, HeaderGone, NoFrame, Fresh
  <2> QED
    BY <2>2, <2>3, ConcatEmptySeq DEF UpLine, Fresh
<1>4. PICK P \in [Endpoints -> Seq(LineFrames)] : P = [e \in Endpoints |-> <<>>]
  BY EmptySeq
<1>5. ASSUME NEW e \in Endpoints
      PROVE  PartOf(P[e], <<>>, HeardBy(e)) /\ Owes(e, P[e])
  <2>1. P[e] = <<>> /\ owed[e] = <<>> /\ inEp[e].res = "NAK"
    BY <1>4 DEF Fresh, IdleIn
  <2> QED
    BY <2>1, PartOfEmpty DEF Owes, Offering
<1>6. CommandLast(<<>>) /\ <<>> \in Seq(LineFrames)
  BY EmptySeq DEF CommandLast
<1>7. Uploads(<<>>, P)
  BY <1>3, <1>5, <1>6, SpelledEmpty DEF Uploads
<1> QED
  BY <1>1, <1>2, <1>6, <1>7 DEF UpInv, Up

LEMMA FreshUpNext == Fresh' => UpInv'
BY FreshUp, PTL

LEMMA StaysPut ==
  ASSUME NEW p \in Pointer
  PROVE  increment_pointer(p, 0) = p
<1>1. 0 < UART_RX_BUF_SIZE /\ 0 \in Nat /\ p \in Nat /\ p < UART_RX_BUF_SIZE
  BY Sizes DEF Pointer
<1>2. increment_pointer(p, 0) = IF p + 0 < UART_RX_BUF_SIZE THEN p + 0
                                ELSE p + 0 - UART_RX_BUF_SIZE
  BY <1>1, MovesOn
<1> QED
  BY <1>1, <1>2

\* The interrupt leaves what is in the ring.
LEMMA BytesStay ==
  ASSUME RingInv, Uart1_ISR
  PROVE  /\ ring'.out = ring.out
         /\ \A i \in Nat : i < Fill => ring'.buf[increment_pointer(ring.out, i)]
                                         = ring.buf[increment_pointer(ring.out, i)]
<1>1. /\ ring \in RingType /\ ring.in \in Pointer /\ ring.out \in Pointer
      /\ ring.buf \in [Pointer -> Nat] /\ Fill \in Nat
  BY RingTypes DEF RingInv, BridgeTypes
<1>2. /\ ring'.out = ring.out
      /\ \A p \in Pointer : p # ring.in => ring'.buf[p] = ring.buf[p]
  BY <1>1 DEF Uart1_ISR, RingType
<1>3. ASSUME NEW i \in Nat, i < Fill
      PROVE  ring'.buf[increment_pointer(ring.out, i)] = ring.buf[increment_pointer(ring.out, i)]
  <2>1. increment_pointer(ring.out, i) \in Pointer
    BY <1>1, PointerMoves
  <2>2. increment_pointer(ring.out, i) # ring.in
    BY <1>1, <1>3, InputAfterFill DEF Fill
  <2> QED
    BY <1>2, <2>1, <2>2
<1> QED
  BY <1>2, <1>3

LEMMA ReadsStay ==
  ASSUME RingInv, CountIsOld, ReadsHeader, ReadsChunk, Uart1_ISR
  PROVE  ReadsHeader' /\ ReadsChunk'
<1>1. /\ UNCHANGED <<frame, FrameBuf, pc, regs, byteCount>> /\ ring'.out = ring.out
      /\ \A i \in Nat : i < Fill => ring'.buf[increment_pointer(ring.out, i)]
                                      = ring.buf[increment_pointer(ring.out, i)]
  BY BytesStay DEF Uart1_ISR, parsevars, loopvars
<1>2. Fill \in Nat /\ Chunk \in Nat /\ Chunk' = Chunk /\ ring.out \in Pointer /\ byteCount \in Nat
  BY <1>1, RingTypes, ChunkTypes DEF RingInv, BridgeTypes, Chunk
<1>3. ReadsHeader'
  <2>1. CASE InHeader
    <3>1. 0 < Fill /\ 1 < Fill
      BY <1>2, <2>1 DEF CountIsOld
    <3>2. increment_pointer(ring.out, 0) = ring.out
      BY <1>2, StaysPut
    <3>3. /\ ring'.buf[ring.out] = ring.buf[ring.out]
          /\ ring'.buf[increment_pointer(ring.out, 1)] = ring.buf[increment_pointer(ring.out, 1)]
      BY <1>1, <3>1, <3>2
    <3> QED
      BY <1>1, <3>3 DEF ReadsHeader
  <2>2. CASE ~InHeader
    BY <1>1, <2>2 DEF ReadsHeader, InHeader
  <2> QED
    BY <2>1, <2>2
<1>4. ReadsChunk'
  <2>1. CASE InChunk
    <3>1. Chunk <= Fill
      BY <2>1 DEF CountIsOld
    <3>2. \A i \in 1 .. Chunk : ring'.buf[increment_pointer(ring.out, i - 1)]
                                  = ring.buf[increment_pointer(ring.out, i - 1)]
      BY <1>1, <1>2, <3>1
    <3>3. circular_copy(ring.out, Chunk)' = circular_copy(ring.out, Chunk)
      BY <1>1, <1>2, <3>2 DEF circular_copy
    <3> QED
      BY <1>1, <3>3 DEF ReadsChunk
  <2>2. CASE ~InChunk
    BY <1>1, <2>2 DEF ReadsChunk, InChunk
  <2> QED
    BY <2>1, <2>2
<1> QED
  BY <1>3, <1>4

\* The interrupt moves a byte into the ring, and perhaps the next one on the line.
LEMMA UpByteArrives ==
  ASSUME RingInv, TornInv, UpInv, Uart1_ISR
  PROVE  UpInv'
<1>1. /\ RingInv' /\ (~torn => Fill' = Fill + 1) /\ wire # <<>>
      /\ \/ wire' = <<>> /\ outq' = outq
         \/ outq # <<>> /\ wire' = <<Head(outq)>> /\ outq' = Tail(outq)
      /\ UNCHANGED <<RESET_KEEP, frame, FrameBuf, dataAvailable, inEp, owed, quiet, disturbed, pc>>
  BY ByteArrives DEF Uart1_ISR, parsevars, usbvars, loopvars, ghost, faults
<1>2. UpTypes'
  BY <1>1 DEF UpInv, UpTypes
<1> SUFFICES ASSUME ~disturbed PROVE UpInv'
  BY <1>1, <1>2 DEF UpInv
<1>3. Fill' = Fill + 1 /\ CountIsOld /\ Parsing
  BY <1>1 DEF TornInv, RingInv, UpInv
<1>4. PICK b \in Nat : b = Head(wire) /\ wire = <<b>>
  BY <1>1 DEF RingInv, BridgeTypes
<1>5. ring'.buf = [ring.buf EXCEPT ![ring.in] = b] /\ ring'.out = ring.out
  BY <1>4 DEF RingInv, BridgeTypes, RingType, Uart1_ISR
<1>6. InRing' = Append(InRing, b)
  BY <1>1, <1>3, <1>5, RingGrows
<1>7. InRing \in Seq(Nat) /\ outq \in Seq(Nat) /\ wire \in Seq(Nat)
  BY LineTypes
<1>8. wire' \o outq' = outq
  <2>1. CASE wire' = <<>> /\ outq' = outq
    BY <1>7, <2>1, ConcatEmptySeq
  <2>2. CASE outq # <<>> /\ wire' = <<Head(outq)>> /\ outq' = Tail(outq)
    BY <1>7, <2>2, HeadThenTail
  <2> QED
    BY <1>1, <2>1, <2>2
<1>9. InRing' \o (wire' \o outq') = InRing \o (wire \o outq)
  <2>1. Append(InRing, b) \o outq = InRing \o (<<b>> \o outq)
    BY <1>7, AppendThen
  <2> QED
    BY <1>4, <1>6, <1>8, <2>1
<1>10. UpLine' = UpLine
  <2>1. Taken' = Taken
    BY <1>1 DEF Taken, HeaderGone
  <2> QED
    BY <1>9, <2>1 DEF UpLine
<1>11. Parsing'
  <2>1. InStep'
    BY <1>1, <1>3 DEF Parsing, InStep, HeaderGone, ActiveEndpoints
  <2> QED
    BY <1>3, <2>1, ReadsStay DEF Parsing
<1>12. \A e \in Endpoints : \A s : Owes(e, s) => Owes(e, s)'
  BY <1>1 DEF Owes, Offering
<1> QED
  BY <1>1, <1>2, <1>10, <1>11, <1>12, SameUpLine

LEMMA UpByteSent ==
  ASSUME RingInv, UpInv, FpgaSend
  PROVE  UpInv'
<1>1. /\ wire = <<>> /\ outq # <<>> /\ wire' = <<Head(outq)>> /\ outq' = Tail(outq)
      /\ UNCHANGED <<RESET_KEEP, ring, frame, FrameBuf, dataAvailable, inEp, owed, quiet,
                     disturbed, pc, regs>>
  BY DEF FpgaSend, uartvars, parsevars, usbvars, loopvars, ghost, faults
<1>2. InRing \in Seq(Nat) /\ outq \in Seq(Nat)
  BY LineTypes
<1>3. wire' \o outq' = wire \o outq
  BY <1>1, <1>2, ConcatEmptySeq, HeadThenTail
<1>4. UpLine' = UpLine
  <2>1. Taken' = Taken
    BY <1>1 DEF Taken, HeaderGone
  <2>2. InRing' = InRing
    BY <1>1 DEF InRing, circular_copy, Fill
  <2> QED
    BY <1>3, <2>1, <2>2 DEF UpLine
<1>5. UpTypes' /\ (Parsing => Parsing')
  BY <1>1 DEF UpInv, UpTypes, Parsing, InStep, ReadsHeader, ReadsChunk, HeaderGone, circular_copy,
              Chunk, ActiveEndpoints
<1>6. \A e \in Endpoints : \A s : Owes(e, s) => Owes(e, s)'
  BY <1>1 DEF Owes, Offering
<1> QED
  BY <1>1, <1>4, <1>5, <1>6, SameUpLine DEF UpInv

LEMMA PendingFacts ==
  ASSUME RingInv
  PROVE  /\ frame \in [started : BOOLEAN, mode : Modes \cup {IO_NONE}, remaining : Nat,
                       discard : BOOLEAN]
         /\ ~frame.started => dataAvailable = {}
         /\ \A m \in dataAvailable : /\ m \in Modes \cup {IO_NONE} /\ dataAvailable = {m}
                                     /\ frame.started /\ (frame.discard <=> m = IO_NONE)
                                     /\ m = IO_NONE \/ frame.mode \in {m, IO_NONE}
         /\ IO_NONE \notin Modes /\ Modes \subseteq Nat
BY ModeValues, BytesAreNats DEF RingInv, BridgeTypes, FrameType, OnePending

\* Without a bus reset there is a whole header in the ring, the oldest frame's.
LEMMA HeaderOnLine ==
  ASSUME RingInv, TornInv, UpInv, ~disturbed, InHeader
  PROVE  /\ ~HeaderGone /\ ~frame.started /\ dataAvailable = {} /\ 2 <= Fill
         /\ ring.buf[ring.out] \in Modes
         /\ ring.buf[increment_pointer(ring.out, 1)] \in 1 .. MAX_FRAME_SIZE
<1>1. ~HeaderGone /\ ~frame.started /\ dataAvailable = {}
  BY PendingFacts DEF RingInv, ModeIsOld, InHeader, HeaderGone
<1>2. 2 <= Fill /\ Fill \in Nat /\ Fill < UART_RX_BUF_SIZE
  <2>1. byteCount \in Nat /\ Fill \in Nat /\ Fill < UART_RX_BUF_SIZE
    BY RingTypes DEF RingInv, BridgeTypes
  <2>2. 2 <= byteCount /\ byteCount <= Fill
    BY DEF TornInv, RingInv, CountIsOld
  <2> QED
    BY <2>1, <2>2
<1>3. /\ ring.out \in Pointer /\ ring.buf \in [Pointer -> Nat]
      /\ InRing \in Seq(Nat) /\ Len(InRing) = Fill
  BY LineTypes
<1>4. InRing[1] = ring.buf[ring.out] /\ InRing[2] = ring.buf[increment_pointer(ring.out, 1)]
  <2>1. \A i \in 1 .. Fill : InRing[i] = ring.buf[increment_pointer(ring.out, i - 1)]
    BY <1>2, <1>3, CopiedBytes DEF InRing
  <2>2. 1 \in 1 .. Fill /\ 2 \in 1 .. Fill /\ 1 - 1 = 0 /\ 2 - 1 = 1
    BY <1>2
  <2>3. InRing[1] = ring.buf[increment_pointer(ring.out, 0)]
    BY <2>1, <2>2
  <2> QED
    BY <1>3, <2>1, <2>2, <2>3, StaysPut
<1> DEFINE w == wire \o outq
<1>5. w \in Seq(Nat) /\ UpLine = InRing \o w
  <2>1. <<>> \o (InRing \o w) = InRing \o w
    BY OutsideRing, ConcatEmptySeq
  <2> QED
    BY <1>1, <2>1, OutsideRing DEF UpLine, Taken
<1> HIDE DEF w
<1>6. UpLine # <<>> /\ UpLine \in Seq(Nat) /\ UpLine[1] = InRing[1] /\ UpLine[2] = InRing[2]
  <2>1. /\ InRing \o w \in Seq(Nat) /\ Len(InRing \o w) = Fill + Len(w) /\ Len(w) \in Nat
        /\ \A i \in 1 .. Fill + Len(w) :
             (InRing \o w)[i] = IF i <= Fill THEN InRing[i] ELSE w[i - Fill]
    <3>1. /\ InRing \o w \in Seq(Nat) /\ Len(InRing \o w) = Len(InRing) + Len(w)
          /\ \A i \in 1 .. Len(InRing) + Len(w) :
               (InRing \o w)[i] = IF i <= Len(InRing) THEN InRing[i] ELSE w[i - Len(InRing)]
      BY <1>3, <1>5, ConcatProperties
    <3>2. Len(InRing) = Fill /\ Len(w) \in Nat
      BY <1>3, <1>5
    <3> QED
      BY <3>1, <3>2
  <2>2. 1 \in 1 .. Fill + Len(w) /\ 2 \in 1 .. Fill + Len(w) /\ 1 <= Fill /\ Fill + Len(w) # 0
    BY <1>2, <2>1
  <2> QED
    BY <1>2, <1>5, <2>1, <2>2, EmptySeq
<1>7. PICK F \in Seq(LineFrames), P \in [Endpoints -> Seq(LineFrames)] : Uploads(F, P)
  BY DEF UpInv, Up
<1>8. F \in Seq(Frames) /\ Spelled(UpLine, F)
  BY <1>7, LineFrameSets DEF Uploads
<1>9. /\ Head(F) = F[1] /\ 1 \in 1 .. Len(F)
      /\ UpLine[1] = Head(F).mode /\ UpLine[2] = Len(Head(F).data)
  BY <1>6, <1>8, FirstBytes
<1>10. Head(F).mode \in Modes /\ Len(Head(F).data) \in 1 .. MAX_FRAME_SIZE
  <2>1. Head(F) \in LineFrames
    BY <1>9
  <2> QED
    BY <2>1 DEF LineFrames, Frames
<1> QED
  BY <1>1, <1>2, <1>4, <1>6, <1>9, <1>10

\* The header is loaded and stored while it is still in the ring.
LEMMA UpHeaderRead ==
  ASSUME RingInv, TornInv, UpInv,
         LoadMode \/ StoreMode \/ (\E len \in 0 .. MaxLength : TakeLength(len)) \/ SkipHeader
  PROVE  UpInv'
<1>1. /\ pc \in {"mode", "modeStore", "check", "skip"}
      /\ pc' \in {"modeStore", "check", "skip", "skipStore"}
      /\ UNCHANGED <<RESET_KEEP, ring, wire, outq, FrameBuf, dataAvailable, inEp, owed, quiet,
                     disturbed>>
  BY DEF LoadMode, StoreMode, TakeLength, SkipHeader, OnlyLoop, Goto, Load, fpgavars, uartvars,
         parsevars, usbvars, ghost, faults
<1>2. UpTypes'
  BY <1>1 DEF UpInv, UpTypes
<1> SUFFICES ASSUME ~disturbed PROVE UpInv'
  BY <1>1, <1>2 DEF UpInv
<1>3. /\ ~HeaderGone /\ ~frame.started /\ dataAvailable = {}
      /\ ring.buf[ring.out] \in Modes
      /\ ring.buf[increment_pointer(ring.out, 1)] \in 1 .. MAX_FRAME_SIZE
  BY <1>1, HeaderOnLine DEF InHeader
<1>4. Parsing /\ frame \in FrameType /\ regs \in RegsType
  BY DEF UpInv, RingInv, BridgeTypes
<1>5. /\ frame'.started = frame.started /\ frame'.discard = frame.discard
      /\ ReadsHeader'
  <2>1. CASE LoadMode
    <3>1. pc' = "modeStore" /\ frame' = frame /\ regs'.mode \in AsMode(ring.buf[ring.out])
      BY <1>4, <2>1 DEF LoadMode, OnlyLoop, parsevars, RegsType
    <3>2. regs'.mode = ring.buf[ring.out]
      BY <1>3, <3>1 DEF AsMode
    <3> QED
      BY <1>1, <3>1, <3>2 DEF ReadsHeader
  <2>2. CASE StoreMode
    <3>1. /\ pc = "modeStore" /\ pc' = "check" /\ frame'.started = frame.started
          /\ frame'.discard = frame.discard /\ frame'.mode = regs.mode
      BY <1>4, <2>2 DEF StoreMode, Goto, FrameType
    <3> QED
      BY <1>1, <1>4, <3>1 DEF Parsing, ReadsHeader
  <2>3. ASSUME NEW len \in 0 .. MaxLength, TakeLength(len)
        PROVE  /\ frame'.started = frame.started /\ frame'.discard = frame.discard
               /\ ReadsHeader'
    <3>1. /\ pc = "check" /\ pc' = "skip" /\ frame'.started = frame.started
          /\ frame'.discard = frame.discard /\ frame'.mode = frame.mode
          /\ frame'.remaining = len
          /\ len \in AsLength(ring.buf[increment_pointer(ring.out, 1)])
      BY <1>4, <2>3 DEF TakeLength, Goto, FrameType
    <3>2. len = ring.buf[increment_pointer(ring.out, 1)]
      BY <1>3, <3>1, Sizes DEF AsLength
    <3> QED
      BY <1>1, <1>4, <3>1, <3>2 DEF Parsing, ReadsHeader
  <2>4. CASE SkipHeader
    <3>1. pc = "skip" /\ pc' = "skipStore" /\ frame' = frame
      BY <2>4 DEF SkipHeader, Load, OnlyLoop, parsevars
    <3> QED
      BY <1>1, <1>4, <3>1 DEF Parsing, ReadsHeader
  <2> QED
    BY <2>1, <2>2, <2>3, <2>4
<1>6. ~HeaderGone' /\ ReadsChunk'
  BY <1>1, <1>3, <1>5 DEF HeaderGone, ReadsChunk
<1>7. Parsing'
  BY <1>1, <1>3, <1>4, <1>5, <1>6 DEF Parsing, InStep, ActiveEndpoints
<1>8. UpLine' = UpLine
  <2>1. Taken' = Taken
    BY <1>1, <1>3, <1>6 DEF Taken
  <2>2. InRing' = InRing
    BY <1>1 DEF InRing, circular_copy, Fill
  <2> QED
    BY <1>1, <2>1, <2>2 DEF UpLine
<1>9. \A e \in Endpoints : \A s : Owes(e, s) => Owes(e, s)'
  BY <1>1 DEF Owes, Offering
<1> QED
  BY <1>1, <1>2, <1>7, <1>8, <1>9, SameUpLine

\* The header leaves the ring; what was loaded of it stands for it.
LEMMA UpHeaderGone ==
  ASSUME RingInv, TornInv, UpInv, SkipStore
  PROVE  UpInv'
<1>1. /\ pc = "skipStore" /\ pc' = "sub" /\ ring' = [ring EXCEPT !.out = regs.value]
      /\ UNCHANGED <<RESET_KEEP, wire, outq, frame, FrameBuf, dataAvailable, inEp, owed, quiet,
                     disturbed>>
  BY DEF SkipStore, Stored, Load, fpgavars, parsevars, usbvars, ghost, faults
<1>2. UpTypes'
  BY <1>1 DEF UpInv, UpTypes
<1> SUFFICES ASSUME ~disturbed PROVE UpInv'
  BY <1>1, <1>2 DEF UpInv
<1>3. /\ ~HeaderGone /\ ~frame.started /\ dataAvailable = {} /\ 2 <= Fill
      /\ ring.buf[ring.out] \in Modes
      /\ ring.buf[increment_pointer(ring.out, 1)] \in 1 .. MAX_FRAME_SIZE
  BY <1>1, HeaderOnLine DEF InHeader
<1>4. /\ Parsing /\ regs.value = increment_pointer(ring.out, 2)
      /\ frame.mode = ring.buf[ring.out]
      /\ frame.remaining = ring.buf[increment_pointer(ring.out, 1)]
  BY <1>1 DEF UpInv, Parsing, ReadsHeader, TornInv, RingInv, CountIsOld
<1>5. frame.mode \in Modes /\ frame.mode \in Nat /\ frame.remaining \in 1 .. MAX_FRAME_SIZE
      /\ frame.remaining \in Nat
  <2>1. frame.mode \in Modes /\ frame.remaining \in 1 .. MAX_FRAME_SIZE
    BY <1>3, <1>4
  <2>2. Modes \subseteq Nat
    BY BytesAreNats
  <2>3. frame.mode \in Nat
    BY <2>1, <2>2
  <2>4. frame.remaining \in Nat
    BY <2>1, Sizes
  <2> QED
    BY <2>1, <2>3, <2>4
<1>6. HeaderGone'
  BY <1>1 DEF HeaderGone
<1>7. Parsing'
  <2>1. InStep'
    BY <1>1, <1>3, <1>4, <1>5 DEF Parsing, InStep, ActiveEndpoints
  <2> QED
    BY <1>1, <2>1 DEF Parsing, ReadsHeader, ReadsChunk
<1> DEFINE c == circular_copy(ring.out, 2)
           w == wire \o outq
           h == <<frame.mode, frame.remaining>>
<1>8. c \in Seq(Nat) /\ InRing' \in Seq(Nat) /\ Len(c) = 2 /\ InRing = c \o InRing'
  BY <1>1, <1>3, <1>4, RingShrinks
<1>9. c[1] = frame.mode /\ c[2] = frame.remaining
  <2>1. ring.out \in Pointer /\ ring.buf \in [Pointer -> Nat] /\ 2 < UART_RX_BUF_SIZE
    BY LineTypes, Sizes
  <2>2. \A i \in 1 .. 2 : c[i] = ring.buf[increment_pointer(ring.out, i - 1)]
    BY <2>1, CopiedBytes
  <2>3. c[1] = ring.buf[increment_pointer(ring.out, 0)]
        /\ c[2] = ring.buf[increment_pointer(ring.out, 1)]
    <3>1. 1 - 1 = 0 /\ 2 - 1 = 1 /\ 1 \in 1 .. 2 /\ 2 \in 1 .. 2
      OBVIOUS
    <3> HIDE DEF c
    <3> QED
      BY <2>2, <3>1
  <2> HIDE DEF c
  <2> QED
    BY <1>4, <2>1, <2>3, StaysPut
<1>10. c = h
  <2>1. h \in Seq(Nat) /\ Len(h) = 2 /\ h[1] = frame.mode /\ h[2] = frame.remaining
    BY <1>5
  <2> HIDE DEF c, h
  <2>2. \A i \in 1 .. 2 : c[i] = h[i]
    BY <1>9, <2>1
  <2> QED
    BY <1>8, <2>1, <2>2, SeqEqual
<1>11. UpLine' = UpLine
  <2>1. w \in Seq(Nat)
    BY OutsideRing
  <2>2. Taken' = h /\ Taken = <<>>
    BY <1>1, <1>3, <1>6 DEF Taken
  <2>3. UpLine' = h \o (InRing' \o w)
    BY <1>1, <2>2 DEF UpLine
  <2>4. <<>> \o (InRing \o w) = InRing \o w
    BY OutsideRing, ConcatEmptySeq
  <2>5. UpLine = InRing \o w
    BY <2>2, <2>4 DEF UpLine
  <2> HIDE DEF c, h, w
  <2>6. (c \o InRing') \o w = c \o (InRing' \o w)
    BY <1>8, <2>1, NatConcat
  <2> QED
    BY <1>8, <1>10, <2>3, <2>5, <2>6
<1>12. \A e \in Endpoints : \A s : Owes(e, s) => Owes(e, s)'
  BY <1>1 DEF Owes, Offering
<1> QED
  BY <1>1, <1>2, <1>7, <1>11, <1>12, SameUpLine

\* The frame is marked as begun, and as discarded when nobody listens to its mode.
LEMMA UpStarted ==
  ASSUME RingInv, UpInv, StartFrame
  PROVE  UpInv'
<1>1. /\ pc = "begin" /\ pc' = "copy"
      /\ UNCHANGED <<RESET_KEEP, ring, wire, outq, FrameBuf, dataAvailable, inEp, owed, quiet,
                     disturbed>>
  BY DEF StartFrame, Goto, fpgavars, uartvars, usbvars, ghost, faults
<1>2. UpTypes'
  BY <1>1 DEF UpInv, UpTypes
<1> SUFFICES ASSUME ~disturbed PROVE UpInv'
  BY <1>1, <1>2 DEF UpInv
<1>3. /\ Parsing /\ frame \in FrameType /\ ~frame.started /\ HeaderGone
      /\ frame.mode \in {regs.mode, IO_NONE}
  BY <1>1 DEF UpInv, RingInv, BridgeTypes, ModeIsOld, HeaderGone
<1>4. frame.mode \in Modes /\ FrameMode = {frame.mode}
  BY <1>3, PendingFacts DEF Parsing, InStep, FrameMode
<1>5. /\ frame'.started /\ frame'.mode = frame.mode /\ frame'.remaining = frame.remaining
      /\ frame'.discard <=> frame.mode \notin ActiveEndpoints
  <2>1. frame' = [frame EXCEPT !.started = TRUE, !.discard = @ \/ Discards(frame.mode)]
    BY <1>4 DEF StartFrame
  <2>2. ~frame.discard
    BY <1>3 DEF Parsing, InStep
  <2> QED
    BY <1>3, <2>1, <2>2 DEF FrameType, Discards
<1>6. HeaderGone'
  BY <1>5 DEF HeaderGone
<1>7. Parsing'
  <2>1. InStep'
    BY <1>1, <1>3, <1>4, <1>5 DEF Parsing, InStep, ActiveEndpoints
  <2> QED
    BY <1>1, <2>1 DEF Parsing, ReadsHeader, ReadsChunk
<1>8. UpLine' = UpLine
  <2>1. Taken' = Taken
    BY <1>1, <1>3, <1>5, <1>6 DEF Taken
  <2>2. InRing' = InRing
    BY <1>1 DEF InRing, circular_copy, Fill
  <2> QED
    BY <1>1, <2>1, <2>2 DEF UpLine
<1>9. \A e \in Endpoints : \A s : Owes(e, s) => Owes(e, s)'
  BY <1>1 DEF Owes, Offering
<1> QED
  BY <1>1, <1>2, <1>7, <1>8, <1>9, SameUpLine

\* The data of the frame is copied; it is still in the ring.
LEMMA UpCopied ==
  ASSUME RingInv, UpInv, Copy
  PROVE  UpInv'
<1>1. /\ pc = "take" /\ pc' = "move" /\ FrameBuf' = circular_copy(ring.out, Chunk)
      /\ UNCHANGED <<RESET_KEEP, ring, wire, outq, frame, dataAvailable, inEp, owed, quiet,
                     disturbed>>
  BY DEF Copy, Goto, fpgavars, uartvars, usbvars, ghost, faults
<1>2. UpTypes'
  BY <1>1 DEF UpInv, UpTypes
<1>3. dataAvailable = {} /\ (HeaderGone' <=> HeaderGone)
  BY <1>1 DEF RingInv, ModeIsOld, InChunk, HeaderGone
<1>4. ~disturbed => Parsing'
  <2>1. ~disturbed => InStep'
    BY <1>1, <1>3 DEF UpInv, Parsing, InStep, ActiveEndpoints
  <2>2. ReadsHeader'
    BY <1>1 DEF ReadsHeader
  <2>3. ReadsChunk'
    BY <1>1 DEF ReadsChunk, circular_copy, Chunk
  <2> QED
    BY <2>1, <2>2, <2>3 DEF Parsing
<1>5. UpLine' = UpLine
  <2>1. Taken' = Taken
    BY <1>1, <1>3 DEF Taken
  <2>2. InRing' = InRing
    BY <1>1 DEF InRing, circular_copy, Fill
  <2> QED
    BY <1>1, <2>1, <2>2 DEF UpLine
<1>6. \A e \in Endpoints : \A s : Owes(e, s) => Owes(e, s)'
  BY <1>1 DEF Owes, Offering
<1> QED
  BY <1>1, <1>2, <1>4, <1>5, <1>6, SameUpLine

\* The frame in hand is done with: it is the oldest one, and the others are left.
LEMMA FrameGone ==
  ASSUME UpTypes', UNCHANGED <<RESET_KEEP, quiet, disturbed>>, Parsing', RingInv, UpLine' \in Seq(Nat),
         NEW F \in Seq(LineFrames), NEW P \in [Endpoints -> Seq(LineFrames)], Uploads(F, P),
         NEW g \in Frames, UpLine = Framed(g) \o UpLine',
         \A e \in Endpoints :
           IF g.mode \in HeardBy(e) THEN Head(P[e]) = g => Owes(e, Tail(P[e]))'
           ELSE Owes(e, P[e])'
  PROVE  UpInv'
<1>1. F \in Seq(Frames) /\ Spelled(UpLine, F)
  BY LineFrameSets DEF Uploads
<1>2. /\ F # <<>> /\ Head(F) = g /\ F[1] = g /\ 1 \in 1 .. Len(F)
      /\ Spelled(UpLine', Tail(F))
  BY <1>1, FirstFrame
<1>3. /\ Tail(F) \in Seq(LineFrames) /\ Len(Tail(F)) = Len(F) - 1 /\ Len(F) \in Nat
      /\ \A i \in 1 .. Len(F) - 1 : Tail(F)[i] = F[i + 1]
  BY <1>2, HeadTailProperties
<1>4. CommandLast(Tail(F))'
  <2> SUFFICES ASSUME NEW k \in 1 .. Len(Tail(F)), Tail(F)[k].mode = IO_CH552
               PROVE  k = Len(Tail(F)) /\ quiet
    BY DEF CommandLast
  <2>1. k \in 1 .. Len(F) - 1 /\ k + 1 \in 1 .. Len(F) /\ F[k + 1].mode = IO_CH552
    BY <1>3
  <2>2. k + 1 = Len(F)
    BY <2>1 DEF Uploads, CommandLast
  <2>3. quiet
    BY <2>1, Zenon DEF Uploads, CommandLast
  <2>4. k = Len(Tail(F))
    <3> DEFINE n == Len(F)
               l == Len(Tail(F))
    <3>1. l = n - 1 /\ n \in Nat /\ k \in 1 .. n - 1 /\ k + 1 = n
      BY <1>3, <2>1, <2>2
    <3> HIDE DEF n, l
    <3>2. k = l
      BY <3>1
    <3> QED
      BY <3>2 DEF l
  <2> QED
    BY <2>3, <2>4
<1>5. PICK Q \in [Endpoints -> Seq(LineFrames)] :
        Q = [e \in Endpoints |-> IF g.mode \in HeardBy(e) THEN Tail(P[e]) ELSE P[e]]
  <2>1. ASSUME NEW e \in Endpoints, g.mode \in HeardBy(e) PROVE Tail(P[e]) \in Seq(LineFrames)
    <3>1. P[e] \in Seq(LineFrames) /\ P[e] \in Seq(Frames)
      BY LineFrameSets
    <3>2. P[e] # <<>>
      BY <1>1, <1>2, <2>1, <3>1, PartOfTail DEF Uploads
    <3> QED
      BY <3>1, <3>2, HeadTailProperties
  <2> QED
    BY <2>1
<1>6. ASSUME NEW e \in Endpoints
      PROVE  PartOf(Q[e], Tail(F), HeardBy(e)') /\ Owes(e, Q[e])'
  <2>1. P[e] \in Seq(Frames) /\ PartOf(P[e], F, HeardBy(e))
    BY LineFrameSets DEF Uploads
  <2>2. HeardBy(e)' = HeardBy(e)
    BY DEF HeardBy, ActiveEndpoints
  <2>3. IF g.mode \in HeardBy(e)
        THEN P[e] # <<>> /\ Head(P[e]) = g /\ PartOf(Tail(P[e]), Tail(F), HeardBy(e))
        ELSE PartOf(P[e], Tail(F), HeardBy(e))
    BY <1>1, <1>2, <2>1, PartOfTail
  <2>4. CASE g.mode \in HeardBy(e)
    <3>1. Q[e] = Tail(P[e])
      BY <1>5, <2>4
    <3>2. Owes(e, Tail(P[e]))'
      BY <2>3, <2>4
    <3> QED
      BY <2>2, <2>3, <2>4, <3>1, <3>2
  <2>5. CASE g.mode \notin HeardBy(e)
    <3>1. Q[e] = P[e]
      BY <1>5, <2>5
    <3>2. Owes(e, P[e])'
      BY <2>5
    <3> QED
      BY <2>2, <2>3, <2>5, <3>1, <3>2
  <2> QED
    BY <2>4, <2>5
<1>7. Uploads(Tail(F), Q)'
  <2>1. \A e \in Endpoints : PartOf(Q[e], Tail(F), HeardBy(e)') /\ Owes(e, Q[e])'
    BY <1>6
  <2> QED
    BY <1>2, <1>4, <2>1 DEF Uploads
<1>8. Up'
  BY <1>3, <1>7 DEF Up
<1> QED
  BY <1>8 DEF UpInv

\* The data of the frame leaves the ring: it is in FrameBuf, or discarded.
LEMMA UpChunkGone ==
  ASSUME RingInv, TornInv, UpInv, ChunkStore
  PROVE  UpInv'
<1>1. /\ pc = "moveStore" /\ pc' = "resume" /\ InChunk
      /\ ring' = [ring EXCEPT !.out = regs.value]
      /\ frame' = [frame EXCEPT !.remaining = @ - Chunk]
      /\ dataAvailable' = dataAvailable \cup {regs.mode}
      /\ UNCHANGED <<RESET_KEEP, wire, outq, FrameBuf, inEp, owed, quiet, disturbed>>
  BY DEF ChunkStore, Stored, Load, InChunk, fpgavars, usbvars, ghost, faults
<1>2. UpTypes'
  BY <1>1 DEF UpInv, UpTypes
<1>3. \A e \in Endpoints : \A s : Owes(e, s) => Owes(e, s)'
  BY <1>1 DEF Owes, Offering
<1> SUFFICES ASSUME ~disturbed PROVE UpInv'
  BY <1>1, <1>2 DEF UpInv
<1>4. /\ Parsing /\ Up /\ frame \in FrameType /\ frame.started /\ dataAvailable = {}
      /\ frame.discard <=> regs.mode = IO_NONE
      /\ regs.mode = IO_NONE \/ frame.mode \in {regs.mode, IO_NONE}
      /\ Chunk <= Fill /\ regs.value = increment_pointer(ring.out, Chunk)
  BY <1>1 DEF UpInv, TornInv, RingInv, BridgeTypes, ModeIsOld, CountIsOld
<1>5. /\ HeaderGone /\ frame.mode \in Modes
      /\ frame.remaining \in Nat /\ frame.remaining <= MAX_FRAME_SIZE
  BY <1>4 DEF Parsing, InStep, HeaderGone, FrameType
<1>6. Chunk = frame.remaining
  BY <1>5, Sizes DEF Chunk, Min2
<1> DEFINE n == frame.remaining
           c == circular_copy(ring.out, n)
           h == <<frame.mode, n>>
           w == wire \o outq
<1>7. c \in Seq(Nat) /\ InRing' \in Seq(Nat) /\ Len(c) = n /\ InRing = c \o InRing'
  BY <1>1, <1>4, <1>5, <1>6, RingShrinks
<1>8. w \in Seq(Nat) /\ h \in Seq(Nat)
  <2>1. w \in Seq(Nat)
    BY OutsideRing
  <2>2. Modes \subseteq Nat
    BY BytesAreNats
  <2>3. frame.mode \in Nat /\ n \in Nat
    BY <1>5, <2>2
  <2> QED
    BY <2>1, <2>3
<1>9. UpLine = h \o (InRing \o w)
  BY <1>4, <1>5 DEF UpLine, Taken
<1> HIDE DEF c, w, h
<1>10. InRing' \o w \in Seq(Nat) /\ UpLine = (h \o c) \o (InRing' \o w)
  <2> DEFINE r == InRing'
  <2>1. r \in Seq(Nat) /\ InRing = c \o r /\ c \in Seq(Nat)
    BY <1>7
  <2> HIDE DEF r
  <2> DEFINE y == r \o w
  <2>2. y \in Seq(Nat)
    BY <1>8, <2>1, ConcatProperties
  <2>3. (c \o r) \o w = c \o y
    BY <1>8, <2>1, NatConcat
  <2> HIDE DEF y
  <2>4. h \o (c \o y) = (h \o c) \o y
    BY <1>8, <2>1, <2>2, NatConcat
  <2>5. UpLine = (h \o c) \o y
    BY <1>9, <2>1, <2>3, <2>4
  <2> QED
    BY <2>2, <2>5 DEF y, r
<1>11. PICK g : g = Frame(frame.mode, c)
  OBVIOUS
<1>12. g \in Frames /\ Framed(g) = h \o c /\ g.mode = frame.mode
  BY <1>5, <1>7, <1>11 DEF Frame, Frames, Framed, h
<1>13. /\ frame'.started /\ frame'.mode = frame.mode /\ frame'.discard = frame.discard
       /\ frame'.remaining = 0
  BY <1>1, <1>4, <1>5, <1>6 DEF FrameType
<1>14. dataAvailable' = {regs.mode}
  BY <1>1, <1>4
<1>15. Parsing'
  <2>1. InStep'
    BY <1>1, <1>4, <1>5, <1>13, <1>14, Sizes DEF Parsing, InStep, HeaderGone, ActiveEndpoints
  <2> QED
    BY <1>1, <2>1 DEF Parsing, ReadsHeader, ReadsChunk
<1>16. CASE regs.mode # IO_NONE
  <2>1. FrameBuf = c /\ regs.mode = frame.mode
    BY <1>1, <1>4, <1>5, <1>6, <1>16, ModeValues DEF Parsing, ReadsChunk, c
  <2>2. Taken' = Framed(g)
    BY <1>1, <1>11, <1>13, <1>14, <1>16, <2>1 DEF Taken
  <2>3. UpLine' = UpLine
    BY <1>1, <1>10, <1>12, <2>2 DEF UpLine, w
  <2> QED
    BY <1>1, <1>2, <1>3, <1>15, <2>3, SameUpLine
<1>17. CASE regs.mode = IO_NONE
  <2>1. UpLine' = InRing' \o w
    <3>1. Taken' = <<>>
      BY <1>14, <1>17 DEF Taken
    <3> QED
      BY <1>1, <1>10, <3>1, ConcatEmptySeq DEF UpLine, w
  <2>2. \A e \in Endpoints : g.mode \notin HeardBy(e)
    BY <1>4, <1>12, <1>17 DEF HeardBy, Parsing, InStep
  <2>3. PICK F \in Seq(LineFrames), P \in [Endpoints -> Seq(LineFrames)] : Uploads(F, P)
    BY <1>4 DEF Up
  <2>4. \A e \in Endpoints : Owes(e, P[e])'
    BY <1>3, <2>3 DEF Uploads
  <2> QED
    BY <1>1, <1>2, <1>10, <1>12, <1>15, <2>1, <2>2, <2>3, <2>4, FrameGone
<1> QED
  BY <1>16, <1>17

\* What waits in FrameBuf is the oldest frame.
LEMMA FrameInHand ==
  ASSUME RingInv, EndpointTypes, UpInv, ~disturbed, NEW m \in Modes, m \in dataAvailable
  PROVE  /\ dataAvailable = {m} /\ frame.started /\ ~frame.discard /\ frame.mode = m
         /\ frame.remaining = 0 /\ m \in ActiveEndpoints
         /\ Frame(m, FrameBuf) \in Frames
         /\ InRing \o (wire \o outq) \in Seq(Nat)
         /\ UpLine = Framed(Frame(m, FrameBuf)) \o (InRing \o (wire \o outq))
<1>1. InStep
  BY DEF UpInv, Parsing
<1>2. /\ dataAvailable = {m} /\ frame.started /\ ~frame.discard /\ frame.mode = m
      /\ frame.remaining \in Nat
  BY <1>1, PendingFacts DEF InStep, HeaderGone
<1>3. frame.remaining = 0 /\ m \in ActiveEndpoints
  BY <1>1, <1>2 DEF InStep, HeaderGone
<1>4. Frame(m, FrameBuf) \in Frames
  BY DEF EndpointTypes, Frame, Frames
<1>5. Taken = Framed(Frame(m, FrameBuf))
  BY <1>2, PendingFacts DEF Taken
<1> QED
  BY <1>2, <1>3, <1>4, <1>5, OutsideRing DEF UpLine

\* A frame goes to its endpoint, which was idle.
LEMMA UpFrameUploaded ==
  ASSUME RingInv, EndpointTypes, UpInv, NEW m \in {IO_CDC, IO_FIDO, IO_CCID, IO_DEBUG},
         NEW ends \in BOOLEAN, CanUpload(m), Uploaded(m, ends),
         UNCHANGED <<RESET_KEEP, ring, wire, outq, owed, quiet, disturbed>>, pc' \notin Reading
  PROVE  UpInv'
<1>1. UpTypes'
  BY DEF UpInv, UpTypes
<1> SUFFICES ASSUME ~disturbed PROVE UpInv'
  BY <1>1 DEF UpInv
<1>2. Parsing /\ Up /\ m \in Modes \ {IO_CH552} /\ m \in dataAvailable
  BY DEF UpInv, CanUpload, Modes, IO_CH552, IO_CDC, IO_FIDO, IO_CCID, IO_DEBUG
<1> DEFINE g == Frame(m, FrameBuf)
           r == InRing \o (wire \o outq)
<1>3. /\ dataAvailable = {m} /\ frame.started /\ ~frame.discard /\ frame.mode = m
      /\ frame.remaining = 0 /\ m \in ActiveEndpoints
      /\ g \in Frames /\ r \in Seq(Nat) /\ UpLine = Framed(g) \o r
  BY <1>2, FrameInHand
<1>4. g.mode = m /\ g.data = FrameBuf
  BY DEF Frame
<1>5. /\ dataAvailable' = {}
      /\ ~frame'.started /\ ~frame'.discard
  <2>1. frame \in [started : BOOLEAN, mode : Modes \cup {IO_NONE}, remaining : Nat,
                   discard : BOOLEAN]
    BY PendingFacts
  <2> QED
    BY <1>3, <2>1 DEF Uploaded, FrameDone
<1>6. UpLine' = r
  <2>1. Taken' = <<>>
    BY <1>5 DEF Taken, HeaderGone, Reading
  <2>2. InRing' = InRing
    BY DEF InRing, circular_copy, Fill
  <2>3. UpLine' = <<>> \o r
    BY <2>1, <2>2 DEF UpLine
  <2> QED
    BY <1>3, <2>3, ConcatEmptySeq
<1> DEFINE d == EndpointOf(m)
           p == Packet(m, FrameBuf)
<1>7. /\ d \in Endpoints /\ ~inEp[d].busy
      /\ inEp \in [Endpoints -> [busy : BOOLEAN, res : {"ACK", "NAK"}, data : Seq(Nat)]]
      /\ inEp' = [inEp EXCEPT ![d] = [busy |-> TRUE, res |-> "ACK", data |-> p]]
  <2>1. d \in Endpoints
    BY <1>2, EndpointModes
  <2>2. inEp \in [Endpoints -> InType]
    BY DEF EndpointTypes
  <2> QED
    BY <2>1, <2>2 DEF CanUpload, Uploaded, Offer, InType
<1> HIDE DEF p
<1>8. /\ inEp'[d] = [busy |-> TRUE, res |-> "ACK", data |-> p]
      /\ \A e \in Endpoints \ {d} : inEp'[e] = inEp[e]
  BY <1>7
<1>9. Parsing'
  <2>1. ~HeaderGone' /\ ReadsHeader' /\ ReadsChunk'
    BY <1>5 DEF HeaderGone, ReadsHeader, ReadsChunk, Reading
  <2> QED
    BY <1>2, <1>5, <1>8, <2>1 DEF Parsing, InStep
<1>10. PICK F \in Seq(LineFrames), P \in [Endpoints -> Seq(LineFrames)] : Uploads(F, P)
  BY <1>2 DEF Up
<1>11. p # <<>>
  <2>1. F # <<>> /\ F[1] = g /\ 1 \in 1 .. Len(F)
    BY <1>3, <1>10, FirstFrame, LineFrameSets DEF Uploads
  <2>2. g \in LineFrames
    BY <2>1
  <2>3. Len(FrameBuf) \in 1 .. MAX_FRAME_SIZE /\ FrameBuf \in Seq(Nat)
    BY <1>3, <1>4, <2>2 DEF LineFrames, Frames
  <2>4. FrameBuf # <<>>
    BY <2>3, EmptySeq
  <2>5. Len([i \in 1 .. MAX_FRAME_SIZE |-> IF i <= Len(FrameBuf) THEN FrameBuf[i] ELSE 0])
          = MAX_FRAME_SIZE
    <3>1. \A i \in 1 .. MAX_FRAME_SIZE : (IF i <= Len(FrameBuf) THEN FrameBuf[i] ELSE 0) \in Nat
      BY <2>3
    <3> QED
      BY <3>1, Sizes, IsASeq
  <2>6. MAX_FRAME_SIZE # 0 /\ Len(<<>>) = 0
    BY Sizes, EmptySeq
  <2> QED
    BY <2>4, <2>5, <2>6 DEF p, Packet
<1>12. ASSUME NEW e \in Endpoints
       PROVE  IF g.mode \in HeardBy(e) THEN Head(P[e]) = g => Owes(e, Tail(P[e]))'
              ELSE Owes(e, P[e])'
  <2>1. Owes(e, P[e])
    BY <1>10 DEF Uploads
  <2>2. CASE e = d
    <3>1. ~Offering(e)
      BY <1>2, <1>7, <2>2 DEF Parsing, InStep, Offering
    <3>2. owed[e] = P[e]
      BY <2>1, <3>1 DEF Owes
    <3>3. P[e] # <<>>
      <4>1. F \in Seq(Frames) /\ P[e] \in Seq(Frames) /\ PartOf(P[e], F, HeardBy(e))
            /\ Spelled(UpLine, F)
        BY <1>10, LineFrameSets DEF Uploads
      <4>2. F # <<>> /\ Head(F) = g
        BY <1>3, <4>1, FirstFrame
      <4>3. g.mode \in HeardBy(e)
        BY <1>2, <1>3, <1>4, <2>2 DEF HeardBy, ModesAt
      <4> QED
        BY <4>1, <4>2, <4>3, PartOfTail
    <3>4. /\ Offering(e)' /\ inEp'[e].data = p
      BY <1>8, <1>11, <2>2 DEF Offering
    <3>5. g.mode \in HeardBy(e)
      BY <1>2, <1>3, <1>4, <2>2 DEF HeardBy, ModesAt
    <3>6. ASSUME Head(P[e]) = g
          PROVE  Owes(e, Tail(P[e]))'
      <4>1. p = Packet(Head(owed'[e]).mode, Head(owed'[e]).data)
        BY <1>4, <3>2, <3>6 DEF p
      <4> QED
        BY <3>2, <3>3, <3>4, <4>1 DEF Owes
    <3> QED
      BY <3>5, <3>6
  <2>3. CASE e # d
    <3>1. g.mode \notin HeardBy(e)
      BY <1>4, <2>3 DEF HeardBy, ModesAt
    <3>2. Owes(e, P[e])'
      BY <1>8, <2>1, <2>3 DEF Owes, Offering
    <3> QED
      BY <3>1, <3>2
  <2> QED
    BY <2>2, <2>3
<1> HIDE DEF g, r
<1>13. UpLine' \in Seq(Nat) /\ UpLine = Framed(g) \o UpLine' /\ g \in Frames
  BY <1>3, <1>6
<1> QED
  BY <1>1, <1>9, <1>10, <1>12, <1>13, FrameGone

\* A command that is not SET_ENDPOINTS is dropped.
LEMMA UpCommandDropped ==
  ASSUME RingInv, EndpointTypes, UpInv, NoCommand
  PROVE  UpInv'
<1>1. /\ IO_CH552 \in dataAvailable /\ dataAvailable' = dataAvailable \ {IO_CH552}
      /\ FrameDone(FALSE)
      /\ UNCHANGED <<RESET_KEEP, ring, wire, outq, inEp, owed, quiet, disturbed>>
      /\ pc' = "top"
  BY DEF NoCommand, Goto, fpgavars, uartvars, usbvars, ghost, faults
<1>2. UpTypes'
  BY <1>1 DEF UpInv, UpTypes
<1> SUFFICES ASSUME ~disturbed PROVE UpInv'
  BY <1>1, <1>2 DEF UpInv
<1>3. Parsing /\ Up /\ IO_CH552 \in Modes
  BY DEF UpInv, Modes
<1> DEFINE g == Frame(IO_CH552, FrameBuf)
           r == InRing \o (wire \o outq)
<1>4. /\ dataAvailable = {IO_CH552} /\ frame.started /\ ~frame.discard
      /\ frame.remaining = 0 /\ g \in Frames /\ r \in Seq(Nat) /\ UpLine = Framed(g) \o r
  BY <1>1, <1>3, FrameInHand
<1>5. g.mode = IO_CH552
  BY DEF Frame
<1>6. dataAvailable' = {} /\ ~frame'.started /\ ~frame'.discard
  <2>1. frame \in [started : BOOLEAN, mode : Modes \cup {IO_NONE}, remaining : Nat,
                   discard : BOOLEAN]
    BY PendingFacts
  <2> QED
    BY <1>1, <1>4, <2>1 DEF FrameDone
<1>7. UpLine' = r
  <2>1. Taken' = <<>>
    BY <1>1, <1>6 DEF Taken, HeaderGone, Reading
  <2>2. InRing' = InRing
    BY <1>1 DEF InRing, circular_copy, Fill
  <2>3. UpLine' = <<>> \o r
    BY <1>1, <2>1, <2>2 DEF UpLine
  <2> QED
    BY <1>4, <2>3, ConcatEmptySeq
<1>8. Parsing'
  <2>1. ~HeaderGone' /\ ReadsHeader' /\ ReadsChunk'
    BY <1>1, <1>6 DEF HeaderGone, ReadsHeader, ReadsChunk
  <2> QED
    BY <1>1, <1>3, <1>6, <2>1 DEF Parsing, InStep
<1>9. PICK F \in Seq(LineFrames), P \in [Endpoints -> Seq(LineFrames)] : Uploads(F, P)
  BY <1>3 DEF Up
<1>10. \A e \in Endpoints : g.mode \notin HeardBy(e) /\ Owes(e, P[e])'
  BY <1>1, <1>5, <1>9 DEF HeardBy, ModesAt, Uploads, Owes, Offering
<1> HIDE DEF g, r
<1>11. UpLine' \in Seq(Nat) /\ UpLine = Framed(g) \o UpLine' /\ g \in Frames
  BY <1>4, <1>7
<1> QED
  BY <1>1, <1>2, <1>8, <1>9, <1>10, <1>11, FrameGone

LEMMA UpDiscarded ==
  ASSUME RingInv, UpInv, Discarded
  PROVE  UpInv'
<1>1. /\ IO_NONE \in dataAvailable /\ dataAvailable' = dataAvailable \ {IO_NONE}
      /\ frame' = [frame EXCEPT !.started = @ /\ frame.remaining # 0,
                                !.discard = @ /\ frame.remaining # 0]
      /\ UNCHANGED <<RESET_KEEP, ring, wire, outq, FrameBuf, inEp, owed, quiet, disturbed>>
      /\ pc' = "top"
  BY DEF Discarded, Goto, fpgavars, uartvars, usbvars, ghost, faults
<1>2. UpTypes'
  BY <1>1 DEF UpInv, UpTypes
<1> SUFFICES ASSUME ~disturbed PROVE UpInv'
  BY <1>1, <1>2 DEF UpInv
<1>3. InStep
  BY DEF UpInv, Parsing
<1>4. dataAvailable' = {} /\ frame.started /\ frame.remaining = 0
      /\ ~frame'.started /\ ~frame'.discard
  <2>1. /\ dataAvailable = {IO_NONE} /\ frame.started /\ frame.remaining \in Nat
        /\ frame \in [started : BOOLEAN, mode : Modes \cup {IO_NONE}, remaining : Nat,
                      discard : BOOLEAN]
    BY <1>1, PendingFacts
  <2>2. frame.remaining = 0
    BY <1>3, <2>1 DEF InStep, HeaderGone
  <2> QED
    BY <1>1, <2>1, <2>2
<1>5. Parsing'
  <2>1. ~HeaderGone' /\ ReadsHeader' /\ ReadsChunk'
    BY <1>1, <1>4 DEF HeaderGone, ReadsHeader, ReadsChunk
  <2> QED
    BY <1>1, <1>3, <1>4, <2>1 DEF Parsing, InStep
<1>6. UpLine' = UpLine
  <2>1. Taken' = <<>> /\ Taken = <<>>
    BY <1>1, <1>4 DEF Taken, HeaderGone
  <2>2. InRing' = InRing
    BY <1>1 DEF InRing, circular_copy, Fill
  <2> QED
    BY <1>1, <2>1, <2>2 DEF UpLine
<1>7. \A e \in Endpoints : \A s : Owes(e, s) => Owes(e, s)'
  BY <1>1 DEF Owes, Offering
<1> QED
  BY <1>1, <1>2, <1>5, <1>6, <1>7, SameUpLine

\* The zero-length packet does not count as a frame.
LEMMA UpZeroLength ==
  ASSUME EndpointTypes, UpInv, UploadZlp
  PROVE  UpInv'
<1>1. /\ pc = "zlp" /\ pc' = "other"
      /\ UNCHANGED <<RESET_KEEP, ring, wire, outq, frame, FrameBuf, dataAvailable, owed, quiet,
                     disturbed>>
  BY DEF UploadZlp, Goto, fpgavars, uartvars, ghost, faults
<1>2. CASE inEp' = inEp
  BY <1>1, <1>2, NotReading DEF Reading
<1>3. CASE ~inEp[2].busy /\ Offer(2, <<>>)
  <2>1. UpTypes'
    BY <1>1 DEF UpInv, UpTypes
  <2> SUFFICES ASSUME ~disturbed PROVE UpInv'
    BY <1>1, <2>1 DEF UpInv
  <2>2. InStep
    BY DEF UpInv, Parsing
  <2>3. /\ inEp'[2] = [busy |-> TRUE, res |-> "ACK", data |-> <<>>]
        /\ \A e \in Endpoints \ {2} : inEp'[e] = inEp[e]
    BY <1>3 DEF Offer, EndpointTypes, Endpoints
  <2>4. Parsing'
    <3>1. InStep'
      BY <1>1, <2>2, <2>3 DEF InStep, HeaderGone, ActiveEndpoints
    <3> QED
      BY <1>1, <3>1 DEF Parsing, ReadsHeader, ReadsChunk
  <2>5. UpLine' = UpLine
    <3>1. Taken' = Taken
      BY <1>1 DEF Taken, HeaderGone
    <3>2. InRing' = InRing
      BY <1>1 DEF InRing, circular_copy, Fill
    <3> QED
      BY <1>1, <3>1, <3>2 DEF UpLine
  <2>6. ASSUME NEW e \in Endpoints, NEW s, Owes(e, s) PROVE Owes(e, s)'
    <3>1. CASE e = 2
      <4>1. ~Offering(2) /\ ~Offering(2)'
        BY <1>3, <2>2, <2>3 DEF Offering, InStep, Endpoints
      <4> QED
        BY <1>1, <2>6, <3>1, <4>1 DEF Owes
    <3>2. CASE e # 2
      BY <1>1, <2>3, <2>6, <3>2 DEF Owes, Offering
    <3> QED
      BY <3>1, <3>2
  <2> QED
    BY <1>1, <2>1, <2>4, <2>5, <2>6, SameUpLine
<1> QED
  BY <1>2, <1>3 DEF UploadZlp

\* The host reads what it is offered.
LEMMA UpFrameRead ==
  ASSUME EndpointTypes, UpInv, NEW e \in Endpoints, InComplete(e)
  PROVE  UpInv'
<1>1. /\ inEp[e].res = "ACK" /\ inEp' = [inEp EXCEPT ![e] = IdleIn]
      /\ owed' = IF inEp[e].data # <<>> /\ owed[e] # <<>>
                 THEN [owed EXCEPT ![e] = Tail(@)] ELSE owed
      /\ UNCHANGED <<RESET_KEEP, ring, wire, outq, frame, FrameBuf, dataAvailable, quiet,
                     disturbed, pc, regs>>
  BY DEF InComplete, fpgavars, uartvars, parsevars, loopvars, ghost, faults
<1>2. owed \in [Endpoints -> Seq(LineFrames)] /\ quiet \in BOOLEAN /\ disturbed \in BOOLEAN
  BY DEF UpInv, UpTypes
<1>3. owed[e] # <<>> => Tail(owed[e]) \in Seq(LineFrames)
  BY <1>2, HeadTailProperties
<1>4. UpTypes'
  BY <1>1, <1>2, <1>3 DEF UpTypes
<1> SUFFICES ASSUME ~disturbed PROVE UpInv'
  BY <1>1, <1>4 DEF UpInv
<1>5. Parsing
  BY DEF UpInv
<1>6. /\ inEp'[e] = IdleIn /\ IdleIn.res = "NAK" /\ ~IdleIn.busy
      /\ \A d \in Endpoints \ {e} : inEp'[d] = inEp[d]
      /\ \A d \in Endpoints \ {e} : owed'[d] = owed[d]
  BY <1>1, <1>2 DEF EndpointTypes, IdleIn
<1>7. Parsing'
  <2>1. InStep'
    BY <1>1, <1>5, <1>6 DEF Parsing, InStep, HeaderGone, ActiveEndpoints
  <2> QED
    BY <1>1, <1>5, <2>1 DEF Parsing, ReadsHeader, ReadsChunk, circular_copy, Chunk
<1>8. UpLine' = UpLine
  <2>1. Taken' = Taken
    BY <1>1 DEF Taken, HeaderGone
  <2>2. InRing' = InRing
    BY <1>1 DEF InRing, circular_copy, Fill
  <2> QED
    BY <1>1, <2>1, <2>2 DEF UpLine
<1>9. ASSUME NEW d \in Endpoints, NEW s, Owes(d, s) PROVE Owes(d, s)'
  <2>1. CASE d = e
    <3>1. ~Offering(e)'
      BY <1>6 DEF Offering
    <3>2. owed'[e] = s
      BY <1>1, <1>2, <1>9, <2>1 DEF Owes, Offering
    <3> QED
      BY <2>1, <3>1, <3>2 DEF Owes
  <2>2. CASE d # e
    BY <1>6, <1>9, <2>2 DEF Owes, Offering
  <2> QED
    BY <2>1, <2>2
<1> QED
  BY <1>1, <1>4, <1>7, <1>8, <1>9, SameUpLine

\* The FPGA begins to write a frame.
LEMMA FrameWritten ==
  ASSUME RingInv, EndpointTypes, UpInv, UpTypes', ~disturbed, NEW f \in LineFrames,
         outq = <<>>, outq' = Framed(f),
         UNCHANGED <<RESET_KEEP, ring, wire, frame, FrameBuf, dataAvailable, inEp, disturbed,
                     pc, regs>>,
         ~quiet, f.mode = IO_CH552 => quiet',
         \A e \in Endpoints :
           owed'[e] = IF f.mode \in HeardBy(e) THEN Append(owed[e], f) ELSE owed[e]
  PROVE  UpInv'
<1>1. Parsing /\ Up /\ owed \in [Endpoints -> Seq(LineFrames)]
  BY DEF UpInv, UpTypes
<1>2. Parsing'
  BY <1>1 DEF Parsing, InStep, ReadsHeader, ReadsChunk, HeaderGone, circular_copy, Chunk,
              ActiveEndpoints
<1>3. PICK F \in Seq(LineFrames), P \in [Endpoints -> Seq(LineFrames)] : Uploads(F, P)
  BY <1>1 DEF Up
<1>4. F \in Seq(Frames) /\ f \in Frames /\ Spelled(UpLine, F)
  BY <1>3, LineFrameSets DEF Uploads
<1>5. UpLine \in Seq(Nat) /\ UpLine' = UpLine \o Framed(f)
  <2> DEFINE t == Taken
             r == InRing
             w == wire
             b == Framed(f)
  <2>1. r \in Seq(Nat) /\ w \in Seq(Nat) /\ b \in Seq(Nat)
    BY <1>4, LineTypes, FramedProperties
  <2>2. t \in Seq(Nat)
    <3>1. CASE IO_NONE \notin dataAvailable /\ dataAvailable # {}
      <4>1. PICK m \in Modes : m \in dataAvailable
        BY <3>1, PendingFacts
      <4>2. frame.mode \in Modes
        BY <1>1, <4>1, PendingFacts DEF Parsing, InStep, HeaderGone
      <4>3. Frame(frame.mode, FrameBuf) \in Frames
        BY <4>2 DEF Frame, Frames, EndpointTypes
      <4> QED
        BY <3>1, <4>3, FramedProperties DEF Taken
    <3>2. CASE ~(IO_NONE \notin dataAvailable /\ dataAvailable # {})
      <4>1. HeaderGone => frame.mode \in Nat /\ frame.remaining \in Nat
        BY <1>1, PendingFacts DEF Parsing, InStep
      <4> QED
        BY <3>2, <4>1 DEF Taken
    <3> QED
      BY <3>1, <3>2
  <2>3. UpLine = t \o (r \o w)
    BY <2>1, ConcatEmptySeq DEF UpLine
  <2>4. UpLine' = t \o (r \o (w \o b))
    <3>1. Taken' = Taken
      BY DEF Taken, HeaderGone
    <3>2. InRing' = InRing
      BY DEF InRing, circular_copy, Fill
    <3> QED
      BY <3>1, <3>2 DEF UpLine
  <2> HIDE DEF t, r, w, b
  <2>5. t \o (r \o (w \o b)) = (t \o (r \o w)) \o b
    <3>1. r \o (w \o b) = (r \o w) \o b
      BY <2>1, NatConcat
    <3> DEFINE x == r \o w
    <3>2. x \in Seq(Nat)
      BY <2>1, ConcatProperties
    <3> HIDE DEF x
    <3>3. t \o (x \o b) = (t \o x) \o b
      BY <2>1, <2>2, <3>2, NatConcat, ZenonT(30)
    <3> QED
      BY <3>1, <3>3 DEF x
  <2>6. t \o (r \o w) \in Seq(Nat)
    BY <2>1, <2>2, ConcatProperties
  <2> QED
    BY <2>3, <2>4, <2>5, <2>6 DEF b
<1>6. Spelled(UpLine', Append(F, f))
  BY <1>4, <1>5, SpelledAppend
<1>7. CommandLast(Append(F, f))'
  <2> DEFINE G == Append(F, f)
             n == Len(F)
  <2>1. /\ n \in Nat /\ Len(G) = n + 1 /\ G[n + 1] = f /\ \A k \in 1 .. n : G[k] = F[k]
    BY <1>4, AppendProperties
  <2> HIDE DEF G
  <2>2. \A k \in 1 .. n : F[k].mode # IO_CH552
    BY <1>3 DEF Uploads, CommandLast
  <2>3. \A k \in 1 .. Len(G) : k \in 1 .. n \/ k = n + 1
    BY <2>1
  <2>4. \A k \in 1 .. Len(G) : G[k].mode = IO_CH552 => k = Len(G) /\ quiet'
    BY <2>1, <2>2, <2>3
  <2> QED
    BY <2>4 DEF CommandLast, G
<1>8. Append(F, f) \in Seq(LineFrames)
  BY AppendProperties
<1>9. PICK Q \in [Endpoints -> Seq(LineFrames)] :
        Q = [e \in Endpoints |-> IF f.mode \in HeardBy(e) THEN Append(P[e], f) ELSE P[e]]
  <2>1. \A e \in Endpoints : Append(P[e], f) \in Seq(LineFrames)
    BY AppendProperties
  <2> QED
    BY <2>1
<1>10. ASSUME NEW e \in Endpoints
       PROVE  PartOf(Q[e], Append(F, f), HeardBy(e)') /\ Owes(e, Q[e])'
  <2>1. /\ P[e] \in Seq(Frames) /\ PartOf(P[e], F, HeardBy(e)) /\ Owes(e, P[e])
        /\ owed[e] \in Seq(LineFrames)
    BY <1>1, <1>3, LineFrameSets DEF Uploads
  <2>2. HeardBy(e)' = HeardBy(e) /\ (Offering(e)' <=> Offering(e)) /\ inEp' = inEp
    BY DEF HeardBy, ActiveEndpoints, Offering
  <2>3. CASE f.mode \in HeardBy(e)
    <3>1. Q[e] = Append(P[e], f) /\ owed'[e] = Append(owed[e], f)
      BY <1>9, <2>3
    <3>2. PartOf(Append(P[e], f), Append(F, f), HeardBy(e))
      BY <1>4, <2>1, <2>3, PartOfAppend
    <3>3. /\ Append(owed[e], f) # <<>>
          /\ owed[e] # <<>> => /\ Head(Append(owed[e], f)) = Head(owed[e])
                               /\ Tail(Append(owed[e], f)) = Append(Tail(owed[e]), f)
      <4>1. \A s \in Seq(LineFrames) : Append(s, f) # <<>>
        BY AppendProperties
      <4>2. /\ Head(Append(owed[e], f)) = IF owed[e] = <<>> THEN f ELSE Head(owed[e])
            /\ Tail(Append(owed[e], f)) = IF owed[e] = <<>> THEN <<>> ELSE Append(Tail(owed[e]), f)
        BY <2>1, HeadTailAppend
      <4> QED
        BY <2>1, <4>1, <4>2
    <3>4. Owes(e, Append(P[e], f))'
      <4>1. CASE Offering(e)
        BY <2>1, <2>2, <3>1, <3>3, <4>1 DEF Owes
      <4>2. CASE ~Offering(e)
        BY <2>1, <2>2, <3>1, <4>2 DEF Owes
      <4> QED
        BY <4>1, <4>2
    <3> QED
      BY <2>2, <3>1, <3>2, <3>4
  <2>4. CASE f.mode \notin HeardBy(e)
    <3>1. Q[e] = P[e] /\ owed'[e] = owed[e]
      BY <1>9, <2>4
    <3>2. PartOf(P[e], Append(F, f), HeardBy(e))
      BY <1>4, <2>1, <2>4, PartOfSkip
    <3>3. Owes(e, P[e])'
      BY <2>1, <2>2, <3>1 DEF Owes
    <3> QED
      BY <2>2, <3>1, <3>2, <3>3
  <2> QED
    BY <2>3, <2>4
<1>11. Uploads(Append(F, f), Q)'
  <2>1. \A e \in Endpoints : PartOf(Q[e], Append(F, f), HeardBy(e)') /\ Owes(e, Q[e])'
    BY <1>10
  <2> QED
    BY <1>6, <1>7, <2>1 DEF Uploads
<1>12. Up'
  BY <1>8, <1>11 DEF Up
<1> QED
  BY <1>2, <1>12 DEF UpInv

LEMMA UpWrites ==
  ASSUME RingInv, EndpointTypes, UpInv, NEW m \in Modes \ {IO_CH552}, NEW len \in FrameLens[m],
         FpgaWrite(m, len)
  PROVE  UpInv'
<1> DEFINE f == Frame(m, Payload(left.frames, len))
<1>1. /\ outq = <<>> /\ ~quiet /\ outq' = Framed(f)
      /\ owed' = IF m \in ActiveEndpoints
                 THEN [owed EXCEPT ![EndpointOf(m)] = Append(@, f)] ELSE owed
      /\ UNCHANGED <<RESET_KEEP, ring, wire, frame, FrameBuf, dataAvailable, inEp, quiet,
                     disturbed, pc, regs>>
  BY DEF FpgaWrite, uartvars, parsevars, usbvars, loopvars, faults
<1>2. f \in LineFrames /\ f.mode = m
  <2>1. len \in 1 .. MAX_FRAME_SIZE /\ len \in Nat /\ left.frames \in Nat
    <3>1. len \in 1 .. MAX_FRAME_SIZE
      BY BytesAreNats
    <3>2. left \in [{"frames", "commands", "packets", "resets", "clears", "lost", "window"} -> Nat]
      BY DEF RingInv, BridgeTypes, LeftType
    <3> QED
      BY <3>1, <3>2, Sizes
  <2>2. Payload(left.frames, len) \in Seq(Nat) /\ Len(Payload(left.frames, len)) = len
    BY <2>1, PayloadIsBytes
  <2> QED
    BY <2>1, <2>2 DEF LineFrames, Frames, Frame
<1> HIDE DEF f
<1>3. EndpointOf(m) \in Endpoints /\ owed \in [Endpoints -> Seq(LineFrames)]
      /\ quiet \in BOOLEAN /\ disturbed \in BOOLEAN
  BY EndpointModes DEF UpInv, UpTypes
<1>4. UpTypes'
  <2>1. Append(owed[EndpointOf(m)], f) \in Seq(LineFrames)
    BY <1>2, <1>3, AppendProperties
  <2> QED
    BY <1>1, <1>3, <2>1 DEF UpTypes
<1>5. \A e \in Endpoints :
        owed'[e] = IF f.mode \in HeardBy(e) THEN Append(owed[e], f) ELSE owed[e]
  BY <1>1, <1>2, <1>3 DEF HeardBy, ModesAt
<1>6. f.mode # IO_CH552
  BY <1>2
<1>7. CASE disturbed
  BY <1>1, <1>4, <1>7 DEF UpInv
<1> QED
  BY <1>1, <1>2, <1>4, <1>5, <1>6, <1>7, FrameWritten

LEMMA UpCommands ==
  ASSUME RingInv, EndpointTypes, UpInv, NEW mask \in Keeps, FpgaSetEndpoints(mask)
  PROVE  UpInv'
<1> DEFINE f == Frame(IO_CH552, <<SET_ENDPOINTS, mask>>)
<1>1. /\ outq = <<>> /\ ~quiet /\ quiet' = TRUE /\ outq' = Framed(f)
      /\ UNCHANGED <<RESET_KEEP, ring, wire, frame, FrameBuf, dataAvailable, inEp, owed,
                     disturbed, pc, regs>>
  BY DEF FpgaSetEndpoints, uartvars, parsevars, usbvars, loopvars, faults
<1>2. f \in LineFrames /\ f.mode = IO_CH552
  <2>1. <<SET_ENDPOINTS, mask>> \in Seq(Nat) /\ Len(<<SET_ENDPOINTS, mask>>) = 2
    BY BytesAreNats
  <2>2. 2 \in 1 .. MAX_FRAME_SIZE
    BY Sizes
  <2> QED
    BY <2>1, <2>2 DEF LineFrames, Frames, Frame, Modes
<1> HIDE DEF f
<1>3. UpTypes'
  BY <1>1 DEF UpInv, UpTypes
<1>4. \A e \in Endpoints : f.mode \notin HeardBy(e)
  BY <1>2 DEF HeardBy, ModesAt
<1>5. CASE disturbed
  BY <1>1, <1>3, <1>5 DEF UpInv
<1> QED
  BY <1>1, <1>2, <1>3, <1>4, <1>5, FrameWritten

\* The command resets the controller: nothing was behind it on the line.
LEMMA UpReset ==
  ASSUME RingInv, EndpointTypes, UpInv, Command
  PROVE  UpInv'
<1>1. IO_CH552 \in dataAvailable /\ SoftReset
  BY DEF Command
<1>2. UpTypes'
  BY <1>1, EmptySeq DEF SoftReset, ghost, faults, UpInv, UpTypes
<1>3. disturbed' = disturbed /\ quiet' = FALSE /\ outq' = outq
  BY <1>1 DEF SoftReset, ghost, faults
<1> SUFFICES ASSUME ~disturbed PROVE UpInv'
  BY <1>2, <1>3 DEF UpInv
<1>4. PICK F \in Seq(LineFrames), P \in [Endpoints -> Seq(LineFrames)] : Uploads(F, P)
  BY DEF UpInv, Up
<1> DEFINE g == Frame(IO_CH552, FrameBuf)
           r == InRing \o (wire \o outq)
<1>5. g \in Frames /\ r \in Seq(Nat) /\ UpLine = Framed(g) \o r /\ g.mode = IO_CH552
  BY <1>1, FrameInHand DEF Modes, Frame
<1>6. F \in Seq(Frames) /\ Spelled(UpLine, F) /\ CommandLast(F)
  BY <1>4, LineFrameSets DEF Uploads
<1> HIDE DEF g, r
<1>7. F # <<>> /\ F[1] = g /\ 1 \in 1 .. Len(F) /\ Spelled(r, Tail(F))
  BY <1>5, <1>6, FirstFrame
<1>8. Len(F) = 1
  BY <1>5, <1>6, <1>7 DEF CommandLast
<1>9. Tail(F) = <<>>
  <2>1. Tail(F) \in Seq(Frames) /\ Len(Tail(F)) = 0
    BY <1>6, <1>7, <1>8, HeadTailProperties
  <2> QED
    BY <2>1, EmptySeq
<1>10. r = <<>>
  <2>1. Tail(F) \in Seq(Frames)
    BY <1>6, <1>7, HeadTailProperties
  <2> QED
    BY <1>5, <1>7, <1>9, <2>1, SpelledNonEmpty
<1>11. outq = <<>>
  <2>1. InRing \in Seq(Nat) /\ wire \in Seq(Nat) /\ outq \in Seq(Nat) /\ wire \o outq \in Seq(Nat)
    BY LineTypes, OutsideRing
  <2>2. \A a, b \in Seq(Nat) : a \o b = <<>> => b = <<>>
    BY ConcatSimplifications
  <2> QED
    BY <1>10, <2>1, <2>2 DEF r
<1>12. Fresh'
  BY <1>1, <1>3, <1>11 DEF Fresh, SoftReset, UpInv, UpTypes
<1> QED
  BY <1>12, FreshUpNext

\* Without a bus reset no header is bad.
LEMMA UpBadHeader ==
  ASSUME RingInv, TornInv, UpInv, BadHeader
  PROVE  UpInv'
<1>1. UpTypes' /\ disturbed' = disturbed
  BY EmptySeq DEF BadHeader, SoftReset, ghost, faults, UpInv, UpTypes
<1>2. disturbed
  <2> SUFFICES ASSUME ~disturbed PROVE FALSE
    OBVIOUS
  <2>1. pc = "check" /\ IO_NONE \in FrameMode
    BY DEF BadHeader
  <2>2. ring.buf[ring.out] \in Modes
    BY <2>1, HeaderOnLine DEF InHeader
  <2>3. frame.mode = ring.buf[ring.out]
    BY <2>1 DEF UpInv, Parsing, ReadsHeader
  <2>4. frame.mode \in {regs.mode, IO_NONE}
    BY <2>1 DEF RingInv, ModeIsOld
  <2> QED
    BY <2>1, <2>2, <2>3, <2>4, ModeValues DEF FrameMode
<1> QED
  BY <1>1, <1>2 DEF UpInv

LEMMA UpDisturbed ==
  ASSUME UpInv, NEW e \in Endpoints, BusReset \/ ClearIn(e) \/ ClearOut(e)
  PROVE  UpInv'
<1>1. disturbed' = TRUE /\ UNCHANGED <<owed, quiet>>
  BY DEF BusReset, ClearIn, ClearOut, fpgavars
<1> QED
  BY <1>1 DEF UpInv, UpTypes

LEMMA MainLoopKeepsUp ==
  ASSUME RingInv, TornInv, EndpointTypes, UpInv, MainLoop
  PROVE  UpInv'
<1>1. CASE Top
  BY <1>1, NotReading DEF Top, Goto, Reading, fpgavars, uartvars, parsevars, usbvars, ghost, faults
<1>2. CASE PollEmpty
  BY <1>2, NotReading DEF PollEmpty, NextEndpoint, Reading, fpgavars, uartvars, parsevars, usbvars,
                          ghost, faults
<1>3. CASE SendMode
  BY <1>3, NotReading DEF SendMode, Goto, Reading, Transmit, uartvars, parsevars, usbvars, ghost,
                          faults
<1>4. CASE SendLength
  BY <1>4, NotReading DEF SendLength, Goto, Reading, Transmit, uartvars, parsevars, usbvars, ghost,
                          faults
<1>5. CASE SendBuffer
  BY <1>5, NotReading DEF SendBuffer, Reading, fpgavars, uartvars, parsevars, usbvars, ghost, faults
<1>6. CASE SendData
  BY <1>6, NotReading DEF SendData, Reading, Transmit, uartvars, parsevars, usbvars, ghost, faults
<1>7. CASE Forwarded
  BY <1>7, NotReading DEF Forwarded, NextEndpoint, Reading, fpgavars, uartvars, parsevars, ghost,
                          faults
<1>8. CASE Count \/ CountOut \/ CountStore
  BY <1>8, NotReading DEF Count, CountOut, CountStore, OnlyLoop, Load, Stored, Reading, fpgavars,
                          uartvars, parsevars, usbvars, ghost, faults
<1>9. CASE NoHeader \/ Header \/ NoBlock \/ cts_start
  BY <1>9, NotReading DEF NoHeader, Header, NoBlock, Enter, cts_start, OnlyLoop, Goto, Reading,
                          fpgavars, uartvars, parsevars, usbvars, ghost, faults
<1>10. CASE LoadMode \/ StoreMode \/ (\E len \in 0 .. MaxLength : TakeLength(len)) \/ SkipHeader
  BY <1>10, UpHeaderRead
<1>11. CASE SkipStore
  BY <1>11, UpHeaderGone
<1>12. CASE Subtract \/ SubStore
  <2>1. (HeaderGone' <=> HeaderGone) /\ ReadsHeader' /\ ReadsChunk'
    BY <1>12 DEF Subtract, SubStore, OnlyLoop, Load, Stored, HeaderGone, ReadsHeader, ReadsChunk,
                 parsevars
  <2> QED
    BY <1>12, <2>1, NotUp DEF Subtract, SubStore, OnlyLoop, fpgavars, uartvars, parsevars, usbvars,
                              ghost, faults
<1>13. CASE StartFrame
  BY <1>13, UpStarted
<1>14. ASSUME NEW mode \in Modes, CopyBlock(mode) PROVE UpInv'
  BY <1>14, NotReading DEF CopyBlock, Enter, OnlyLoop, Reading, fpgavars, uartvars, parsevars,
                           usbvars, ghost, faults
<1>15. CASE DiscardBlock
  <2>1. regs \in RegsType
    BY DEF RingInv, BridgeTypes
  <2>2. (HeaderGone' <=> HeaderGone) /\ ReadsHeader' /\ ReadsChunk'
    BY <1>15, <2>1 DEF DiscardBlock, Enter, OnlyLoop, HeaderGone, ReadsHeader, ReadsChunk, RegsType,
                       parsevars
  <2> QED
    BY <1>15, <2>2, NotUp DEF DiscardBlock, Enter, OnlyLoop, fpgavars, uartvars, parsevars, usbvars,
                              ghost, faults
<1>16. CASE SkipChunk
  <2>1. /\ pc = "move" /\ pc' = "moveStore" /\ UNCHANGED <<ring, frame, FrameBuf>>
        /\ regs'.mode = regs.mode
    BY <1>16 DEF SkipChunk, OnlyLoop, Load, uartvars, parsevars, RingInv, BridgeTypes, RegsType
  <2>2. HeaderGone' <=> HeaderGone
    BY <2>1 DEF HeaderGone
  <2>3. ~disturbed => ReadsHeader' /\ ReadsChunk'
    BY <2>1 DEF UpInv, Parsing, ReadsHeader, ReadsChunk, circular_copy, Chunk
  <2> QED
    BY <1>16, <2>2, <2>3, NotUp DEF SkipChunk, OnlyLoop, fpgavars, uartvars, parsevars, usbvars,
                                    ghost, faults
<1>17. CASE ChunkStore
  BY <1>17, UpChunkGone
<1>18. CASE Copy
  BY <1>18, UpCopied
<1>19. CASE BadHeader
  BY <1>19, UpBadHeader
<1>20. CASE UploadCdc
  <2>1. /\ pc \notin Reading /\ pc' \notin Reading
        /\ UNCHANGED <<RESET_KEEP, ring, wire, outq, owed, quiet, disturbed>>
    BY <1>20 DEF UploadCdc, Goto, Reading, fpgavars, uartvars, ghost, faults
  <2>2. CASE CanUpload(IO_CDC) /\ Uploaded(IO_CDC, FALSE)
    BY <2>1, <2>2, UpFrameUploaded
  <2>3. CASE UNCHANGED <<inEp, dataAvailable, FrameBuf, frame>>
    BY <2>1, <2>3, NotReading
  <2> QED
    BY <1>20, <2>2, <2>3 DEF UploadCdc
<1>21. CASE UploadZlp
  BY <1>21, UpZeroLength
<1>22. ASSUME NEW m \in {IO_FIDO, IO_CCID, IO_DEBUG}, UploadOther(m) PROVE UpInv'
  <2>1. /\ pc' \notin Reading
        /\ UNCHANGED <<RESET_KEEP, ring, wire, outq, owed, quiet, disturbed>>
    BY <1>22 DEF UploadOther, Goto, Reading, fpgavars, uartvars, ghost, faults
  <2>2. CanUpload(m) /\ Uploaded(m, m # IO_DEBUG) /\ (m # IO_DEBUG) \in BOOLEAN
    BY <1>22 DEF UploadOther
  <2> QED
    BY <2>1, <2>2, UpFrameUploaded
<1>23. CASE Command
  BY <1>23, UpReset
<1>24. CASE NoCommand
  BY <1>24, UpCommandDropped
<1>25. CASE Discarded
  BY <1>25, UpDiscarded
<1>26. CASE NothingElse
  BY <1>26, NotReading DEF NothingElse, Goto, Reading, fpgavars, uartvars, parsevars, usbvars,
                           ghost, faults
<1> QED
  BY <1>1, <1>2, <1>3, <1>4, <1>5, <1>6, <1>7, <1>8, <1>9, <1>10, <1>11, <1>12, <1>13,
     <1>14, <1>15, <1>16, <1>17, <1>18, <1>19, <1>20, <1>21, <1>22, <1>23, <1>24, <1>25, <1>26 DEF MainLoop

LEMMA OthersKeepUp ==
  ASSUME RingInv, TornInv, EndpointTypes, UpInv, Uart1_ISR \/ Fpga \/ Host
  PROVE  UpInv'
<1>1. CASE Uart1_ISR
  BY <1>1, UpByteArrives
<1>2. ASSUME NEW m \in Modes \ {IO_CH552}, NEW len \in FrameLens[m], FpgaWrite(m, len)
      PROVE  UpInv'
  BY <1>2, UpWrites
<1>3. ASSUME NEW mask \in Keeps, FpgaSetEndpoints(mask) PROVE UpInv'
  BY <1>3, UpCommands
<1>4. CASE FpgaSend
  BY <1>4, UpByteSent
<1>5. CASE FpgaRead
  BY <1>5, SamePlace DEF FpgaRead, loopvars, uartvars, parsevars, usbvars, ghost, faults
<1>6. CASE FpgaTake
  BY <1>6, SamePlace DEF FpgaTake, loopvars, uartvars, parsevars, usbvars, ghost, faults
<1>7. ASSUME NEW e \in Endpoints, InComplete(e) PROVE UpInv'
  BY <1>7, UpFrameRead
<1>8. ASSUME NEW e \in Endpoints, OutRepeated(e) PROVE UpInv'
  BY <1>8, SamePlace DEF OutRepeated, loopvars, fpgavars, uartvars, parsevars, usbvars, ghost, faults
<1>9. ASSUME NEW e \in Endpoints, ClearIn(e) \/ ClearOut(e) PROVE UpInv'
  BY <1>9, UpDisturbed
<1>10. ASSUME NEW e \in Endpoints, NEW len \in PacketLens[e], NEW lost \in BOOLEAN,
              OutComplete(e, len, lost)
       PROVE  UpInv'
  BY <1>10, SamePlace DEF OutComplete, loopvars, fpgavars, uartvars, parsevars, faults
<1>11. CASE BusReset
  <2>1. 2 \in Endpoints
    BY DEF Endpoints
  <2> QED
    BY <1>11, <2>1, UpDisturbed
<1>12. CASE SetConfiguration
  BY <1>12, SamePlace DEF SetConfiguration, loopvars, fpgavars, uartvars, parsevars, ghost, faults
<1> QED
  BY <1>1, <1>2, <1>3, <1>4, <1>5, <1>6, <1>7, <1>8, <1>9, <1>10, <1>11, <1>12 DEF Fpga, Host

\* What an endpoint offers the host is the oldest frame the FPGA wrote to it, byte
\* for byte (main.c 1645 to 1990), as long as there has been no bus reset and no
\* CLEAR_FEATURE: through clear-to-send, the wrap of the ring, the buffer all
\* endpoints share, frames that are discarded and resets the FPGA asked for.
THEOREM UploadedInOrder == Spec => []UploadsInOrder
<1>1. Init => UpInv
  BY FreshUp DEF Init, Fresh
<1>2. RingInv /\ TornInv /\ ActiveInv /\ UpInv /\ [Next]_vars => UpInv'
  <2> SUFFICES ASSUME RingInv, TornInv, EndpointTypes, UpInv, [Next]_vars PROVE UpInv'
    BY DEF ActiveInv
  <2>1. CASE Next
    BY <2>1, MainLoopKeepsUp, OthersKeepUp DEF Next
  <2>2. CASE UNCHANGED vars
    BY <2>2, SamePlace DEF vars, loopvars, fpgavars, uartvars, parsevars, usbvars, ghost,
                                  faults
  <2> QED
    BY <2>1, <2>2
<1>3. UpInv => UploadsInOrder
  <2> SUFFICES ASSUME UpInv, ~disturbed, NEW e \in Endpoints,
                      inEp[e].res = "ACK", inEp[e].data # <<>>
               PROVE  owed[e] # <<>>
                      /\ inEp[e].data = Packet(Head(owed[e]).mode, Head(owed[e]).data)
    BY DEF UploadsInOrder
  <2> QED
    BY DEF UpInv, Up, Uploads, Owes, Offering
<1> QED
  BY <1>1, <1>2, <1>3, ActiveInvHolds, TornInvHolds, RingInvHolds, PTL DEF Spec
=============================================================================
