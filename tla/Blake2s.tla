------------------------------- MODULE Blake2s -------------------------------
(***************************************************************************)
(* The BLAKE2s library (tkey-libs/blake2s/blake2s.c) the firmware hashes   *)
(* apps, partition tables, the device secret and nonces with.              *)
(*                                                                         *)
(* The caller initialises a context, adds the message in as many pieces as *)
(* it likes and asks for the digest.  A word of 32 bits is a pair of       *)
(* halves, <<high, low>>, as TLC's integers are signed.  v, h and m count  *)
(* from 1.                                                                 *)
(***************************************************************************)
EXTENDS Naturals, Sequences

CONSTANTS
  Callers,     \* [outlen, key] of the contexts that are opened
  Message      \* bound: the message is a prefix of this sequence of bytes

ASSUME HashAssumption ==
  /\ Message \in Seq(0 .. 255)
  /\ \A r \in Callers : r.outlen \in 1 .. 32 /\ r.key \in Seq(0 .. 255) /\ Len(r.key) <= 32

VARIABLES
  ctx,    \* struct blake2s_ctx
  key,    \* history: the key of the context,
  fed,    \* and how many bytes of Message have been added
  stage,  \* "none", "open" or "done"
  digest  \* of blake2s_final
hashvars == <<ctx, key, fed, stage, digest>>

BLOCK == 64
Half == 65536

Add(x, y) ==
  LET low == x[2] + y[2] IN <<(x[1] + y[1] + low \div Half) % Half, low % Half>>
XorBytes ==
  [x \in 0 .. 255 |-> [y \in 0 .. 255 |->
     LET Bit(p) == p * ((x \div p + y \div p) % 2)
     IN  Bit(1) + Bit(2) + Bit(4) + Bit(8) + Bit(16) + Bit(32) + Bit(64) + Bit(128)]]
XorHalf(x, y) ==
  256 * XorBytes[x \div 256][y \div 256] + XorBytes[x % 256][y % 256]
XOR32(x, y) == <<XorHalf(x[1], y[1]), XorHalf(x[2], y[2])>>
Below(x, y) == x[1] < y[1] \/ (x[1] = y[1] /\ x[2] < y[2])
Small(n) == <<0, n>>
Complement(x) == <<Half - 1 - x[1], Half - 1 - x[2]>>

\* A rotation by 16 swaps the halves; one by less passes bits between them.
ROTR32(x, n) ==
  IF n = 16 THEN <<x[2], x[1]>>
  ELSE LET p == 2 ^ n
       IN <<x[1] \div p + (x[2] % p) * (Half \div p), x[2] \div p + (x[1] % p) * (Half \div p)>>

\* Word i of block b, little-endian.
B2S_GET32(b, i) ==
  <<b[4 * i + 4] * 256 + b[4 * i + 3], b[4 * i + 2] * 256 + b[4 * i + 1]>>

blake2s_iv ==
  <<<<27145, 58983>>, <<47975, 44677>>, <<15470, 62322>>, <<42319, 62778>>,
    <<20750, 21119>>, <<39685, 26764>>, <<8067, 55723>>, <<23520, 52505>>>>

\* G on words a, b, c and d of v: their new values, in two halves.
HalfG(q, x, r1, r2) ==
  LET a == Add(Add(q[1], q[2]), x)
      d == ROTR32(XOR32(q[4], a), r1)
      c == Add(q[3], d)
      b == ROTR32(XOR32(q[2], c), r2)
  IN <<a, b, c, d>>
G(v, a, b, c, d, x, y) ==
  HalfG(HalfG(<<v[a], v[b], v[c], v[d]>>, x, 16, 12), y, 8, 7)

\* Which words of the block a round takes, from 0.
sigma ==
  <<<<0, 1, 2, 3, 4, 5, 6, 7, 8, 9, 10, 11, 12, 13, 14, 15>>,
    <<14, 10, 4, 8, 9, 15, 13, 6, 1, 12, 0, 2, 11, 7, 5, 3>>,
    <<11, 8, 12, 0, 5, 2, 15, 13, 10, 14, 3, 6, 7, 1, 9, 4>>,
    <<7, 9, 3, 1, 13, 12, 11, 14, 2, 6, 5, 10, 4, 0, 15, 8>>,
    <<9, 0, 5, 7, 2, 4, 10, 15, 14, 1, 11, 12, 6, 8, 3, 13>>,
    <<2, 12, 6, 10, 0, 11, 8, 3, 4, 13, 7, 5, 15, 14, 1, 9>>,
    <<12, 5, 1, 15, 14, 13, 4, 10, 0, 7, 6, 3, 9, 2, 8, 11>>,
    <<13, 11, 7, 14, 12, 1, 3, 9, 5, 0, 15, 4, 8, 6, 2, 10>>,
    <<6, 15, 14, 9, 11, 3, 0, 8, 12, 2, 13, 7, 1, 4, 10, 5>>,
    <<10, 2, 8, 4, 7, 6, 1, 5, 15, 11, 9, 14, 3, 12, 13, 0>>>>

\* A round of G on the rows, then on the diagonals of v; what the four calls
\* give, in the order of v.
InRows(f, g, h, k) ==
  <<f[1], g[1], h[1], k[1], f[2], g[2], h[2], k[2],
    f[3], g[3], h[3], k[3], f[4], g[4], h[4], k[4]>>
Rows(v, m, s) ==
  InRows(G(v, 1, 5,  9, 13, m[s[1] + 1], m[s[2] + 1]),
         G(v, 2, 6, 10, 14, m[s[3] + 1], m[s[4] + 1]),
         G(v, 3, 7, 11, 15, m[s[5] + 1], m[s[6] + 1]),
         G(v, 4, 8, 12, 16, m[s[7] + 1], m[s[8] + 1]))

InDiagonals(f, g, h, k) ==
  <<f[1], g[1], h[1], k[1], k[2], f[2], g[2], h[2],
    h[3], k[3], f[3], g[3], g[4], h[4], k[4], f[4]>>
Diagonals(v, m, s) ==
  InDiagonals(G(v, 1, 6, 11, 16, m[s[9] + 1], m[s[10] + 1]),
              G(v, 2, 7, 12, 13, m[s[11] + 1], m[s[12] + 1]),
              G(v, 3, 8,  9, 14, m[s[13] + 1], m[s[14] + 1]),
              G(v, 4, 5, 10, 15, m[s[15] + 1], m[s[16] + 1]))

Mixed(h, v) == [i \in 1 .. 8 |-> XOR32(h[i], XOR32(v[i], v[i + 8]))]

\* The chained state after block b; t counts the bytes up to its end.
Compressed(h, b, t, last) ==
  LET iv == blake2s_iv
      v0 == h \o <<iv[1], iv[2], iv[3], iv[4], XOR32(iv[5], t[1]), XOR32(iv[6], t[2]),
                   IF last THEN Complement(iv[7]) ELSE iv[7], iv[8]>>
      m == [i \in 1 .. 16 |-> B2S_GET32(b, i - 1)]
      Rounds[r \in 0 .. 10, w \in Seq(Nat \X Nat)] ==
        IF r = 10 THEN w ELSE Rounds[r + 1, Diagonals(Rows(w, m, sigma[r + 1]), m, sigma[r + 1])]
  IN Mixed(h, Rounds[0, v0])

\* The count of bytes goes up by what is in the buffer; blake2s_compress.
Counted(t, c) ==
  LET low == Add(t[1], Small(c))
  IN <<low, IF Below(low, Small(c)) THEN Add(t[2], Small(1)) ELSE t[2]>>
blake2s_compress(x, last) ==
  LET t == Counted(x.t, x.c) IN [x EXCEPT !.t = t, !.h = Compressed(x.h, x.b, t, last)]

(***************************************************************************)
(* The calls, as functions of the context.  The callers pass legal sizes,  *)
(* so blake2s_init() does not fail (HashAssumption).                       *)
(***************************************************************************)
Stored(x, byte) == [x EXCEPT !.b[x.c + 1] = byte, !.c = x.c + 1]

AddedEager(x, byte) ==
  LET y == Stored(x, byte)
  IN IF y.c = BLOCK THEN [blake2s_compress(y, FALSE) EXCEPT !.c = 0] ELSE y

\* A full buffer is flushed when another byte comes, not before: it may be the
\* last block.
Added(x, byte) ==
  Stored(IF x.c = BLOCK THEN [blake2s_compress(x, FALSE) EXCEPT !.c = 0] ELSE x, byte)

blake2s_update(x, in) ==
  LET upto[i \in 0 .. Len(in)] == IF i = 0 THEN x ELSE Added(upto[i - 1], in[i])
  IN  upto[Len(in)]

ParameterBlock(outlen, keylen) == <<257, keylen * 256 + outlen>>
Fresh(outlen, keylen) ==
  [h |-> [blake2s_iv EXCEPT ![1] = XOR32(@, ParameterBlock(outlen, keylen))],
   t |-> <<Small(0), Small(0)>>, c |-> 0, outlen |-> outlen, b |-> [i \in 1 .. BLOCK |-> 0]]

blake2s_init(outlen, k) ==
  IF k = <<>> THEN Fresh(outlen, 0)
  ELSE [blake2s_update(Fresh(outlen, Len(k)), k) EXCEPT !.c = BLOCK]

\* Byte i of the chained state, from 1, little-endian.
OutByte32(h, i) ==
  LET w == h[(i - 1) \div 4 + 1]
      j == (i - 1) % 4
  IN (w[2 - j \div 2] \div 256 ^ (j % 2)) % 256

\* The last block is filled up with zeros; they are not counted.
blake2s_final(x) ==
  LET filled == [x EXCEPT !.b = [i \in 1 .. BLOCK |-> IF i <= x.c THEN x.b[i] ELSE 0]]
  IN [blake2s_compress(filled, TRUE) EXCEPT !.c = BLOCK]
Output(x) == [i \in 1 .. x.outlen |-> OutByte32(x.h, i)]

blake2s(outlen, k, in) == Output(blake2s_final(blake2s_update(blake2s_init(outlen, k), in)))

(***************************************************************************)
(* A caller                                                                *)
(***************************************************************************)
Nobody ==
  [h |-> [i \in 1 .. 8 |-> Small(0)], t |-> <<Small(0), Small(0)>>, c |-> 0, outlen |-> 0,
   b |-> [i \in 1 .. BLOCK |-> 0]]

HashInit == ctx = Nobody /\ key = <<>> /\ fed = 0 /\ stage = "none" /\ digest = <<>>

InitHash ==
  /\ stage = "none"
  /\ \E r \in Callers : ctx' = blake2s_init(r.outlen, r.key) /\ key' = r.key
  /\ stage' = "open"
  /\ UNCHANGED <<fed, digest>>

\* One turn of the loop of blake2s_update, of this call or of the next.
UpdateHash ==
  /\ stage = "open" /\ fed < Len(Message)
  /\ ctx' = Added(ctx, Message[fed + 1])
  /\ fed' = fed + 1
  /\ UNCHANGED <<key, stage, digest>>

FinalHash ==
  /\ stage = "open"
  /\ ctx' = blake2s_final(ctx)
  /\ digest' = Output(ctx')
  /\ stage' = "done"
  /\ UNCHANGED <<key, fed>>

HashNext == InitHash \/ UpdateHash \/ FinalHash
HashSpec == HashInit /\ [][HashNext]_hashvars

(***************************************************************************)
(* Properties                                                              *)
(***************************************************************************)
\* The digest as RFC 7693, section 3.3 defines it: the key, padded to a block,
\* and the message are cut into blocks, the last padded with zeros, and the state
\* is chained over the blocks, with the count of bytes up to the end of each.
Padded(k) == IF k = <<>> THEN <<>> ELSE [i \in 1 .. BLOCK |-> IF i <= Len(k) THEN k[i] ELSE 0]
Block(bytes, n) ==
  [i \in 1 .. BLOCK |-> LET p == (n - 1) * BLOCK + i IN IF p <= Len(bytes) THEN bytes[p] ELSE 0]
Count(n) ==
  LET high == (n \div Half) \div Half
  IN  <<<<(n \div Half) % Half, n % Half>>, <<(high \div Half) % Half, high % Half>>>>
FullBlocks(size) == IF size = 0 THEN 0 ELSE (size - 1) \div BLOCK
Chain(outlen, keylen, bytes, full) ==
  LET chain[n \in 0 .. full] ==
        IF n = 0 THEN Fresh(outlen, keylen).h
        ELSE Compressed(chain[n - 1], Block(bytes, n), Count(n * BLOCK), FALSE)
  IN  chain[full]
DigestOf(outlen, keylen, bytes) ==
  LET size == Len(bytes)
      full == FullBlocks(size)
      h == Compressed(Chain(outlen, keylen, bytes, full), Block(bytes, full + 1), Count(size), TRUE)
  IN  [i \in 1 .. outlen |-> OutByte32(h, i)]
Definition(outlen, k, in) == DigestOf(outlen, Len(k), Padded(k) \o in)

(* Whatever pieces the message is added in, its end at or next to the end of a
   block included, the digest is the one of the whole message. *)
DigestIsOfMessage ==
  stage = "done" => digest = Definition(ctx.outlen, key, SubSeq(Message, 1, fed))
=============================================================================
