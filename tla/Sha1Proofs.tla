----------------------------- MODULE Sha1Proofs ----------------------------
(***************************************************************************)
(* Proofs about Sha1Stream, for every message, every way to cut it, every  *)
(* size of a block and every width of the counter's words: no byte is      *)
(* lost, the counter is the number of bits, and the message is padded as   *)
(* the standard has it.                                                    *)
(***************************************************************************)
EXTENDS Sha1Stream, TLAPS

----------------------------------------------------------------------------
(* Division.                                                               *)

\* Quotient and remainder.
LEMMA DivMod ==
  ASSUME NEW W \in Nat \ {0}, NEW a \in Nat
  PROVE  a = (a \div W) * W + (a % W) /\ a % W \in 0..W - 1 /\ a \div W \in Nat
  OBVIOUS

\* There is only one quotient with its remainder.
LEMMA Unique ==
  ASSUME NEW W \in Nat \ {0}, NEW q \in Nat, NEW r \in 0..W - 1,
         NEW p \in Nat, NEW s \in 0..W - 1, q * W + r = p * W + s
  PROVE  q = p /\ r = s
<1>1. CASE q > p
  <2>1. PICK d \in Nat : q = p + 1 + d  BY <1>1
  <2>2. q * W = p * W + W + d * W  BY <2>1
  <2>3. d * W \in Nat  OBVIOUS
  <2>. QED  BY <2>2, <2>3
<1>2. CASE p > q
  <2>1. PICK d \in Nat : p = q + 1 + d  BY <1>2
  <2>2. p * W = q * W + W + d * W  BY <2>1
  <2>3. d * W \in Nat  OBVIOUS
  <2>. QED  BY <2>2, <2>3
<1>3. CASE q = p
  OBVIOUS
<1>. QED  BY <1>1, <1>2, <1>3

LEMMA DivModOf ==
  ASSUME NEW W \in Nat \ {0}, NEW q \in Nat, NEW r \in 0..W - 1, NEW a \in Nat, a = q * W + r
  PROVE  a \div W = q /\ a % W = r
<1>. QED  BY DivMod, Unique

\* A remainder may be taken before an addition.
LEMMA AddMod ==
  ASSUME NEW W \in Nat \ {0}, NEW a \in Nat, NEW b \in Nat
  PROVE  ((a % W) + b) % W = (a + b) % W
<1>1. PICK p \in Nat, s \in 0..W-1 : a = p * W + s /\ a % W = s  BY DivMod
<1>2. PICK q \in Nat, r \in 0..W-1 : s + b = q * W + r
  <2>1. s + b \in Nat  OBVIOUS
  <2>. QED  BY <2>1, DivMod
<1>3. a + b = (p + q) * W + r
  <2>1. (p + q) * W = p * W + q * W  OBVIOUS
  <2>. QED  BY <2>1, <1>1, <1>2
<1>4. (s + b) % W = r
  <2>1. s + b \in Nat  OBVIOUS
  <2>. DEFINE t == s + b
  <2>2. t \in Nat /\ t = q * W + r  BY <2>1, <1>2
  <2>. HIDE DEF t
  <2>3. t % W = r  BY <2>2, DivModOf
  <2>. QED  BY <2>3 DEF t
<1>5. (a + b) % W = r
  <2>1. a + b \in Nat /\ p + q \in Nat  OBVIOUS
  <2>. DEFINE t == a + b
           u == p + q
  <2>2. t \in Nat /\ u \in Nat /\ t = u * W + r  BY <2>1, <1>3
  <2>. HIDE DEF t, u
  <2>3. t % W = r  BY <2>2, DivModOf
  <2>. QED  BY <2>3 DEF t
<1>. QED  BY <1>1, <1>4, <1>5

\* The bits above the lowest 3 of a counter of bits: a place in a block.
LEMMA PlaceOf ==
  ASSUME NEW B \in Nat \ {0}, NEW k \in Nat \ {0}, NEW n \in Nat, NEW W, W = 8 * B * k
  PROVE  (((8 * n) % W) \div 8) % B = n % B
<1>0. W \in Nat \ {0}  OBVIOUS
<1>1. PICK p \in Nat, r \in 0..W-1 : 8 * n = p * W + r /\ (8*n) % W = r
  <2>1. 8 * n \in Nat  OBVIOUS
  <2>. QED  BY <1>0, <2>1, DivMod
<1>4. PICK m \in Nat : m = p * k * B  OBVIOUS
<1>5. p * W = 8 * m  BY <1>4
<1>6. r = 8 * (n - m) /\ n - m \in Nat  BY <1>1, <1>5, <1>0
<1>7. r \div 8 = n - m  BY <1>6
<1>8. PICK q \in Nat, s \in 0..B-1 : n - m = q * B + s  BY <1>6, DivMod
<1>9. (n - m) % B = s  BY <1>6, <1>8, DivModOf
<1>10. n = (q + p * k) * B + s
  <2>1. (q + p * k) * B = q * B + p * k * B  OBVIOUS
  <2>. QED  BY <2>1, <1>8, <1>4, <1>6
<1>11. n % B = s
  <2>1. q + p * k \in Nat  OBVIOUS
  <2>. QED  BY <1>10, <2>1, DivModOf
<1>. QED  BY <1>1, <1>7, <1>9, <1>11

\* The quotient of a sum: a carry is found by the remainder getting smaller.
LEMMA DivAdd ==
  ASSUME NEW W \in Nat \ {0}, NEW a \in Nat, NEW b \in Nat
  PROVE  LET c == IF ((a % W) + (b % W)) % W < b % W THEN 1 ELSE 0
         IN  (a + b) \div W = (a \div W) + (b \div W) + c
<1>1. PICK p \in Nat, s \in 0..W-1 : a = p * W + s /\ a % W = s /\ a \div W = p  BY DivMod
<1>2. PICK q \in Nat, r \in 0..W-1 : b = q * W + r /\ b % W = r /\ b \div W = q  BY DivMod
<1>3. CASE s + r < W
  <2>1. (s + r) % W = s + r  BY <1>3
  <2>2. a + b = (p + q) * W + (s + r)  BY <1>1, <1>2
  <2>3. (a + b) \div W = p + q
    <3>1. a + b \in Nat /\ p + q \in Nat /\ s + r \in 0..W-1  BY <1>3
    <3>. QED  BY <3>1, <2>2, DivModOf
  <2>. QED  BY <1>1, <1>2, <2>1, <2>3
<1>4. CASE s + r >= W
  <2>1. (s + r) % W = s + r - W
    <3>1. s + r = 1 * W + (s + r - W) /\ s + r \in Nat /\ s + r - W \in 0..W-1  BY <1>4
    <3>. QED  BY <3>1, DivModOf
  <2>2. a + b = (p + q + 1) * W + (s + r - W)  BY <1>1, <1>2
  <2>3. (a + b) \div W = p + q + 1
    <3>1. a + b \in Nat /\ p + q + 1 \in Nat /\ s + r - W \in 0..W-1  BY <1>4
    <3>. QED  BY <3>1, <2>2, DivModOf
  <2>4. s + r - W < r  OBVIOUS
  <2>. QED  BY <1>1, <1>2, <2>1, <2>3, <2>4
<1>. QED  BY <1>3, <1>4

LEMMA DivScale ==
  ASSUME NEW k \in Nat \ {0}, NEW n \in Nat
  PROVE  (8 * n) \div (8 * k) = n \div k
<1>1. PICK p \in Nat, s \in 0..k-1 : n = p * k + s /\ n \div k = p  BY DivMod
<1>2. 8 * n = p * (8 * k) + 8 * s  BY <1>1
<1>3. 8 * n \in Nat /\ 8 * s \in 0..8 * k - 1 /\ 8 * k \in Nat \ {0}  OBVIOUS
<1>. QED  BY <1>1, <1>2, <1>3, DivModOf

----------------------------------------------------------------------------
(* The invariant                                                           *)

\* Whole blocks were transformed.
WholeBlocks == Len(hashed) % Block = 0

\* Each byte that was transformed is the one that was given.
Prefix == Len(hashed) <= Len(fed) /\ \A q \in 1..Len(hashed) : hashed[q] = fed[q]

\* Between two updates: the rest is in the buffer.
IdleInv ==
  pc = "idle" =>
    /\ WholeBlocks /\ Prefix
    /\ Len(fed) = Len(hashed) + Place
    /\ \A q \in 0..Place - 1 : buffer[q] = fed[Len(hashed) + q + 1]

\* In the loop of an update: the rest is what the caller gave, from data[i] on.
BlocksInv ==
  pc = "blocks" =>
    /\ WholeBlocks /\ Prefix
    /\ Len(fed) = Len(hashed) + (Len(data) - i)
    /\ \A q \in i + 1..Len(data) : data[q] = fed[Len(hashed) + q - i]

CountInv ==
  pc \in {"idle", "blocks"} =>
    lo = (8 * Len(fed)) % Word /\ hi = ((8 * Len(fed)) \div Word) % Word

\* The inductive invariant.
Sha1Inv == TypeOK /\ IdleInv /\ BlocksInv /\ CountInv

----------------------------------------------------------------------------
USE DEF Mark, Junk

LEMMA Constants ==
  /\ Block \in Nat \ {0} /\ Word \in Nat \ {0} /\ LenSize \in Nat \ {0}
  /\ \E k \in Nat \ {0} : Word = 8 * Block * k
BY Sha1Assumption

\* The place in the buffer that belongs to a length.
LEMMA PlaceOfLength ==
  ASSUME NEW L \in Nat
  PROVE  /\ (((8 * L) % Word) \div 8) % Block = L % Block
         /\ L % Block \in 0..Block - 1
<1>1. PICK k \in Nat \ {0} : Word = 8 * Block * k  BY Constants
<1>2. Block \in Nat \ {0}  BY Constants
<1>3. (((8 * L) % Word) \div 8) % Block = L % Block
  BY ONLY <1>1, <1>2, PlaceOf, L \in Nat, ZenonT(60)
<1>. QED  BY <1>2, <1>3, DivMod

\* Behind whole blocks.
LEMMA ModBehind ==
  ASSUME NEW h \in Nat, h % Block = 0, NEW r \in 0..Block - 1
  PROVE  (h + r) % Block = r /\ (h + Block) % Block = 0
<1>1. Block \in Nat \ {0}  BY Constants
<1>2. PICK q \in Nat : h = q * Block
  <2>1. h = (h \div Block) * Block + (h % Block) /\ h \div Block \in Nat  BY <1>1, DivMod
  <2>. DEFINE p == h \div Block
  <2>2. p \in Nat /\ p * Block \in Nat /\ h = p * Block + 0  BY <2>1, <1>1
  <2>. HIDE DEF p
  <2>3. h = p * Block  BY <2>2
  <2>. QED  BY <2>2, <2>3
<1>3. (h + r) % Block = r
  <2>. DEFINE t == h + r
  <2>1. t \in Nat /\ t = q * Block + r  BY <1>1, <1>2
  <2>. HIDE DEF t
  <2>2. t % Block = r  BY <1>1, <2>1, DivModOf
  <2>. QED  BY <2>2 DEF t
<1>4. (h + Block) % Block = 0
  <2>. DEFINE t == h + Block
           p == q + 1
  <2>1. t \in Nat /\ p \in Nat  BY <1>1, <1>2
  <2>2. t = p * Block + 0
    <3>1. (q + 1) * Block = q * Block + Block  BY <1>1
    <3>. QED  BY <1>2, <3>1, <1>1
  <2>. HIDE DEF t, p
  <2>3. 0 \in 0..Block - 1  BY <1>1
  <2>4. t % Block = 0  BY <1>1, <2>1, <2>2, <2>3, DivModOf
  <2>. QED  BY <2>4 DEF t
<1>. QED  BY <1>3, <1>4

LEMMA Concatenation ==
  ASSUME NEW u \in Seq(Nat), NEW v \in Seq(Nat)
  PROVE  /\ u \o v \in Seq(Nat) /\ Len(u \o v) = Len(u) + Len(v)
         /\ \A q \in 1..Len(u) : (u \o v)[q] = u[q]
         /\ \A q \in 1..Len(v) : (u \o v)[Len(u) + q] = v[q]
OBVIOUS

\* The counter after n bytes more.
LEMMA CountAdds ==
  ASSUME NEW L \in Nat, NEW n \in Nat,
         lo = (8 * L) % Word, hi = ((8 * L) \div Word) % Word, AddCount(n)
  PROVE  lo' = (8 * (L + n)) % Word /\ hi' = ((8 * (L + n)) \div Word) % Word
<1>0. 8 * L \in Nat /\ 8 * n \in Nat /\ 8 * (L + n) = 8 * L + 8 * n  OBVIOUS
<1>1. lo' = (8 * (L + n)) % Word
  <2>1. ((8 * n) % Word) \in Nat  BY <1>0, Constants
  <2>2. lo' = (((8 * L) % Word) + ((8 * n) % Word)) % Word  BY DEF AddCount, Bits
  <2>3. lo' = (8 * L + ((8 * n) % Word)) % Word  BY <1>0, <2>1, <2>2, AddMod, Constants
  <2>4. (((8 * n) % Word) + 8 * L) % Word = (8 * n + 8 * L) % Word
    BY <1>0, AddMod, Constants
  <2>5. 8 * L + ((8 * n) % Word) = ((8 * n) % Word) + 8 * L  BY <1>0, <2>1
  <2>. QED  BY <1>0, <2>3, <2>4, <2>5
<1>2. hi' = ((8 * (L + n)) \div Word) % Word
  <2> DEFINE c == IF Carry(n) THEN 1 ELSE 0
  <2>1. (8 * n) \div Word = n \div (Word \div 8)
    <3>1. PICK k \in Nat \ {0} : Word = 8 * Block * k  BY Constants
    <3>2. PICK j \in Nat \ {0} : j = Block * k  BY <3>1, Constants
    <3>3. Word = 8 * j
      <4>1. 8 * Block * k = 8 * (Block * k)  BY Constants
      <4>. QED  BY <3>1, <3>2, <4>1
    <3>4. Word \div 8 = j  BY <3>3
    <3>. QED  BY <3>3, <3>4, DivScale
  <2>2. c = IF (((8 * L) % Word) + ((8 * n) % Word)) % Word < (8 * n) % Word THEN 1 ELSE 0
    BY DEF Carry, Bits
  <2>3. (8 * L + 8 * n) \div Word = ((8 * L) \div Word) + ((8 * n) \div Word) + c
    <3>1. LET d == IF (((8 * L) % Word) + ((8 * n) % Word)) % Word < (8 * n) % Word THEN 1 ELSE 0
          IN  (8 * L + 8 * n) \div Word = ((8 * L) \div Word) + ((8 * n) \div Word) + d
      BY <1>0, DivAdd, Constants
    <3>. QED  BY <2>2, <3>1
  <2>4. PICK a \in Nat, b \in Nat : a = (8 * L) \div Word /\ b = (8 * n) \div Word
    BY <1>0, DivMod, Constants
  <2>5. hi' = ((a % Word) + (c + b)) % Word
    <3>1. hi' = (hi + c + n \div (Word \div 8)) % Word  BY DEF AddCount
    <3>2. hi = a % Word /\ n \div (Word \div 8) = b  BY <2>1, <2>4
    <3>3. a % Word \in Nat /\ c \in Nat  BY Constants
    <3>4. (a % Word) + c + b = (a % Word) + (c + b)  BY <3>3
    <3>. HIDE DEF c
    <3>. QED  BY <3>1, <3>2, <3>4
  <2>6. c \in Nat /\ c + b \in Nat  OBVIOUS
  <2>. HIDE DEF c
  <2>7. ((a % Word) + (c + b)) % Word = (a + (c + b)) % Word  BY <2>6, AddMod, Constants
  <2>8. a + (c + b) = (8 * (L + n)) \div Word  BY <1>0, <2>3, <2>4, <2>6
  <2>. QED  BY <2>5, <2>7, <2>8
<1>. QED  BY <1>1, <1>2

----------------------------------------------------------------------------
(* The steps                                                               *)

\* SHA1Update() up to its loop.
LEMMA UpdateKeeps ==
  ASSUME Sha1Inv, NEW d \in Seq(Nat), Update(d)
  PROVE  /\ pc' \in {"idle", "blocks", "done"} /\ lo' \in 0..Word - 1 /\ hi' \in 0..Word - 1
         /\ buffer' \in [0..Block - 1 -> Nat \union {Junk}]
         /\ data' \in Seq(Nat) /\ i' \in 0..Len(data') /\ hashed' \in Seq(Nat) /\ fed' \in Seq(Nat)
         /\ IdleInv' /\ BlocksInv' /\ CountInv'
<1>0. /\ pc = "idle" /\ fed \in Seq(Nat) /\ hashed \in Seq(Nat) /\ WholeBlocks /\ Prefix
      /\ Len(fed) = Len(hashed) + Place
      /\ lo = (8 * Len(fed)) % Word /\ hi = ((8 * Len(fed)) \div Word) % Word
  BY DEF Sha1Inv, TypeOK, IdleInv, CountInv, Update
<1>1. Len(fed) \in Nat /\ Len(hashed) \in Nat /\ Len(d) \in Nat  BY <1>0
<1>2. Place \in 0..Block - 1 /\ Place = Len(fed) % Block
  BY <1>0, <1>1, PlaceOfLength DEF Place
<1>3. /\ fed' = fed \o d /\ fed' \in Seq(Nat) /\ Len(fed') = Len(fed) + Len(d)
      /\ \A q \in 1..Len(fed) : fed'[q] = fed[q]
      /\ \A q \in 1..Len(d) : fed'[Len(fed) + q] = d[q]
  <2>1. fed' = fed \o d  BY DEF Update
  <2>. QED  BY <1>0, <2>1, Concatenation
<1>4. lo' = (8 * Len(fed')) % Word /\ hi' = ((8 * Len(fed')) \div Word) % Word
  BY <1>0, <1>1, <1>3, CountAdds DEF Update
<1>5. lo' \in 0..Word - 1 /\ hi' \in 0..Word - 1
  <2>1. 8 * Len(fed') \in Nat  BY <1>1, <1>3
  <2>. QED  BY <1>4, <2>1, DivMod, Constants
<1>6. CountInv'  BY <1>4 DEF CountInv
<1>7. Place' = Len(fed') % Block
  BY <1>1, <1>3, <1>4, PlaceOfLength DEF Place
<1>14. /\ Place \in Nat /\ Block \in Nat /\ Place < Block
       /\ Len(fed) = Len(hashed) + Place
       /\ Len(fed') = Len(hashed) + (Place + Len(d))
  <2>1. Place \in Nat /\ Block \in Nat /\ Place < Block  BY <1>2, Constants
  <2>2. Len(fed') = Len(fed) + Len(d) /\ Len(fed) = Len(hashed) + Place  BY <1>0, <1>3
  <2>. QED  BY ONLY <1>1, <2>1, <2>2
<1>8. \A q \in 0..Place - 1 : buffer[q] = fed[Len(hashed) + q + 1]
  BY <1>0 DEF Sha1Inv, IdleInv
<1>9. Len(hashed) % Block = 0 /\ \A q \in 1..Len(hashed) : hashed[q] = fed'[q]
  <2>1. \A q \in 1..Len(hashed) : q \in 1..Len(fed)  BY <1>1, <1>14
  <2>. QED  BY <1>0, <1>3, <2>1 DEF WholeBlocks, Prefix
<1>10. buffer \in [0..Block - 1 -> Nat \union {Junk}] /\ data \in Seq(Nat) /\ i \in 0..Len(data)
  BY DEF Sha1Inv, TypeOK
\* What is copied behind Place goes on where the buffer ends.
<1>11. ASSUME NEW n \in 0..Len(d), Place + n <= Block,
              buffer' = Copy(buffer, Place, d, 1, n)
       PROVE  /\ buffer' \in [0..Block - 1 -> Nat \union {Junk}]
              /\ \A q \in 0..Place + n - 1 :
                   buffer'[q] = fed'[Len(hashed) + q + 1] /\ buffer'[q] \in Nat
  <2>1. ASSUME NEW q \in 0..Block - 1
        PROVE  buffer'[q] = IF Place <= q /\ q < Place + n THEN d[1 + q - Place] ELSE buffer[q]
    BY <1>11 DEF Copy
  <2>2. ASSUME NEW q \in 0..Place + n - 1
        PROVE  buffer'[q] = fed'[Len(hashed) + q + 1] /\ buffer'[q] \in Nat
    <3>0. q \in 0..Block - 1  BY <1>2, <1>11, Constants
    <3>1. CASE q < Place
      <4>1. buffer'[q] = buffer[q]  BY <2>1, <3>0, <3>1, <1>2
      <4>2. Len(hashed) + q + 1 \in 1..Len(fed)  BY <1>0, <1>1, <1>2, <3>0, <3>1
      <4>4. q \in 0..Place - 1  BY <1>14, <3>0, <3>1
      <4>3. buffer'[q] = fed[Len(hashed) + q + 1]  BY <1>8, <4>1, <4>4
      <4>. QED  BY <1>0, <1>3, <4>2, <4>3
    <3>2. CASE q >= Place
      <4>1. 1 + q - Place \in 1..Len(d)  BY <1>1, <1>2, <1>11, <2>2, <3>2
      <4>2. buffer'[q] = d[1 + q - Place]  BY <1>2, <2>1, <2>2, <3>0, <3>2, <1>11
      <4>3. Len(fed) + (1 + q - Place) = Len(hashed) + q + 1  BY <1>0, <1>1, <1>2, <3>0
      <4>. QED  BY <1>3, <4>1, <4>2, <4>3
    <3>. QED  BY <1>2, <3>0, <3>1, <3>2
  <2>3. ASSUME NEW q \in 0..Block - 1  PROVE  buffer'[q] \in Nat \union {Junk}
    <3>1. CASE q < Place + n
      BY <1>2, <1>11, <2>2, <3>1
    <3>2. CASE ~(q < Place + n)
      BY <1>10, <2>1, <3>2
    <3>. QED  BY <3>1, <3>2
  <2>4. buffer' = [q \in 0..Block - 1 |-> buffer'[q]]  BY <1>11 DEF Copy
  <2>. QED  BY <2>2, <2>3, <2>4
<1>12. CASE Len(d) < Block - Place
  <2>1. /\ buffer' = Copy(buffer, Place, d, 1, Len(d))
        /\ pc' = "idle" /\ data' = data /\ i' = i /\ hashed' = hashed
    BY <1>0, <1>1, <1>2, <1>12, Constants DEF Update
  <2>2. Place + Len(d) \in 0..Block - 1  BY <1>1, <1>2, <1>12, Constants
  <2>3. Place' = Place + Len(d)
    <3>1. Len(fed') = Len(hashed) + (Place + Len(d))  BY <1>14
    <3>2. (Len(hashed) + (Place + Len(d))) % Block = Place + Len(d)  BY <1>1, <1>9, <2>2, ModBehind
    <3>. QED  BY <1>7, <3>1, <3>2
  <2>4. /\ buffer' \in [0..Block - 1 -> Nat \union {Junk}]
        /\ \A q \in 0..Place + Len(d) - 1 : buffer'[q] = fed'[Len(hashed) + q + 1]
    BY <1>1, <1>11, <2>1, <2>2, Constants
  <2>5. IdleInv'
    <3>1. Len(fed') = Len(hashed') + Place'  BY <1>14, <2>1, <2>3
    <3>2. WholeBlocks' /\ Prefix'
      BY <1>1, <1>2, <1>3, <1>9, <2>1, <2>2, <2>3, <3>1 DEF WholeBlocks, Prefix
    <3>3. \A q \in 0..Place' - 1 : buffer'[q] = fed'[Len(hashed') + q + 1]
      <4>1. SUFFICES ASSUME NEW q \in 0..Place' - 1
                     PROVE  buffer'[q] = fed'[Len(hashed') + q + 1]
        OBVIOUS
      <4>2. q \in 0..Place + Len(d) - 1
        <5>1. Place' - 1 = Place + Len(d) - 1  BY ONLY <1>1, <1>14, <2>3
        <5>. QED  BY ONLY <5>1, <4>1
      <4>3. hashed' = hashed  BY <2>1
      <4>4. buffer'[q] = fed'[Len(hashed) + q + 1]  BY ONLY <2>4, <4>2
      <4>. QED  BY ONLY <4>3, <4>4
    <3>. QED  BY <3>1, <3>2, <3>3 DEF IdleInv
  <2>6. BlocksInv'  BY <2>1 DEF BlocksInv
  <2>. QED  BY <1>0, <1>3, <1>5, <1>6, <1>10, <2>1, <2>4, <2>5, <2>6
<1>13. CASE Len(d) >= Block - Place
  <2>. DEFINE left == Block - Place
  <2>1. /\ buffer' = Copy(buffer, Place, d, 1, left) /\ hashed' = hashed \o AsBlock(buffer')
        /\ data' = d /\ i' = left /\ pc' = "blocks"
    BY <1>0, <1>1, <1>2, <1>13, Constants DEF Update
  <2>2. left \in 1..Len(d) /\ Place + left = Block  BY <1>1, <1>2, <1>13, Constants
  <2>3. /\ buffer' \in [0..Block - 1 -> Nat \union {Junk}]
        /\ \A q \in 0..Block - 1 : buffer'[q] = fed'[Len(hashed) + q + 1] /\ buffer'[q] \in Nat
    <3>1. left \in 0..Len(d) /\ Place + left <= Block  BY <1>1, <1>14, <2>2
    <3>2. buffer' = Copy(buffer, Place, d, 1, left)  BY <2>1
    <3>3. Place + left = Block  BY <2>2
    <3>. HIDE DEF left
    <3>4. /\ buffer' \in [0..Block - 1 -> Nat \union {Junk}]
          /\ \A q \in 0..Place + left - 1 :
               buffer'[q] = fed'[Len(hashed) + q + 1] /\ buffer'[q] \in Nat
      BY <3>1, <3>2, <1>11
    <3>5. ASSUME NEW q \in 0..Block - 1
          PROVE  buffer'[q] = fed'[Len(hashed) + q + 1] /\ buffer'[q] \in Nat
      <4>1. q \in 0..Place + left - 1
        <5>1. Block - 1 = Place + left - 1  BY ONLY <1>14, <3>1, <3>3
        <5>. QED  BY ONLY <5>1, <3>5
      <4>. QED  BY ONLY <3>4, <4>1
    <3>. QED  BY ONLY <3>4, <3>5
  <2>4. /\ AsBlock(buffer') \in Seq(Nat) /\ Len(AsBlock(buffer')) = Block
        /\ \A q \in 1..Block : AsBlock(buffer')[q] = fed'[Len(hashed) + q]
    <3>1. \A q \in 1..Block : q - 1 \in 0..Block - 1 /\ Len(hashed) + (q - 1) + 1 = Len(hashed) + q
      BY <1>1, Constants
    <3>2. \A q \in 1..Block : buffer'[q - 1] \in Nat /\ buffer'[q - 1] = fed'[Len(hashed) + q]
      BY <2>3, <3>1
    <3>3. AsBlock(buffer') = [q \in 1..Block |-> buffer'[q - 1]]  BY DEF AsBlock
    <3>. QED  BY <3>2, <3>3, Constants
  <2>5. /\ hashed' \in Seq(Nat) /\ Len(hashed') = Len(hashed) + Block
        /\ \A q \in 1..Len(hashed) : hashed'[q] = hashed[q]
        /\ \A q \in 1..Block : hashed'[Len(hashed) + q] = fed'[Len(hashed) + q]
    <3>. HIDE DEF left
    <3>1. hashed' = hashed \o AsBlock(buffer')  BY ONLY <2>1
    <3>2. hashed \in Seq(Nat) /\ AsBlock(buffer') \in Seq(Nat)  BY <1>0, <2>4
    <3>3. /\ hashed \o AsBlock(buffer') \in Seq(Nat)
          /\ Len(hashed \o AsBlock(buffer')) = Len(hashed) + Len(AsBlock(buffer'))
          /\ \A q \in 1..Len(hashed) : (hashed \o AsBlock(buffer'))[q] = hashed[q]
          /\ \A q \in 1..Len(AsBlock(buffer')) :
               (hashed \o AsBlock(buffer'))[Len(hashed) + q] = AsBlock(buffer')[q]
      BY ONLY <3>2, Concatenation
    <3>4. /\ hashed' \in Seq(Nat) /\ Len(hashed') = Len(hashed) + Block
          /\ \A q \in 1..Len(hashed) : hashed'[q] = hashed[q]
          /\ \A q \in 1..Block : hashed'[Len(hashed) + q] = AsBlock(buffer')[q]
      <4>1. Len(AsBlock(buffer')) = Block  BY ONLY <2>4
      <4>. QED  BY ONLY <3>1, <3>3, <4>1
    <3>5. \A q \in 1..Block : hashed'[Len(hashed) + q] = fed'[Len(hashed) + q]
      <4>1. \A q \in 1..Block : AsBlock(buffer')[q] = fed'[Len(hashed) + q]  BY ONLY <2>4
      <4>. QED  BY ONLY <3>4, <4>1
    <3>. QED  BY ONLY <3>4, <3>5
  <2>6. Prefix'
    <3>1. \A q \in 1..Len(hashed) + Block :
            q \in 1..Len(hashed) \/ \E p \in 1..Block : q = Len(hashed) + p
      <4>1. SUFFICES ASSUME NEW q \in 1..Len(hashed) + Block, q \notin 1..Len(hashed)
                     PROVE  q - Len(hashed) \in 1..Block /\ q = Len(hashed) + (q - Len(hashed))
        BY <1>1, Constants
      <4>. QED  BY <1>1, <4>1, Constants
    <3>2. \A q \in 1..Len(hashed') : hashed'[q] = fed'[q]
      <4>1. Len(hashed') = Len(hashed) + Block  BY <2>5
      <4>2. \A q \in 1..Len(hashed) + Block : hashed'[q] = fed'[q]
        <5>1. SUFFICES ASSUME NEW q \in 1..Len(hashed) + Block  PROVE  hashed'[q] = fed'[q]
          OBVIOUS
        <5>2. CASE q \in 1..Len(hashed)  BY <1>9, <2>5, <5>2
        <5>3. CASE \E p \in 1..Block : q = Len(hashed) + p  BY <2>5, <5>3
        <5>. QED  BY <3>1, <5>2, <5>3
      <4>. QED  BY <4>1, <4>2
    <3>3. Len(hashed') <= Len(fed')  BY <1>1, <1>14, <2>2, <2>5
    <3>. QED  BY <3>2, <3>3 DEF Prefix
  <2>7. WholeBlocks'  BY <1>1, <1>9, <2>5, ModBehind, Constants DEF WholeBlocks
  <2>8. Len(fed') = Len(hashed') + (Len(data') - i')
    <3>1. Len(fed') = Len(hashed) + (Place + Len(d)) /\ Len(hashed') = Len(hashed) + Block
          /\ Len(data') = Len(d) /\ i' = Block - Place
      BY <1>14, <2>1, <2>5
    <3>. QED  BY ONLY <1>1, <1>14, <3>1
  <2>9. \A q \in i' + 1..Len(data') : data'[q] = fed'[Len(hashed') + q - i']
    <3>1. ASSUME NEW q \in left + 1..Len(d)
          PROVE  q \in 1..Len(d) /\ Len(hashed') + q - left = Len(fed) + q
      <4>1. Len(hashed') = Len(hashed) + Block /\ Len(fed) = Len(hashed) + Place  BY <1>14, <2>5
      <4>2. q \in Int /\ q >= left + 1 /\ q <= Len(d)  BY <1>1, <1>14
      <4>. QED  BY <1>1, <1>14, <4>1, <4>2
    <3>. QED  BY <1>3, <2>1, <3>1
  <2>10. BlocksInv'  BY <2>6, <2>7, <2>8, <2>9 DEF BlocksInv
  <2>11. IdleInv'  BY <2>1 DEF IdleInv
  <2>12. i' \in 0..Len(data')  BY <1>1, <2>1, <2>2
  <2>. QED  BY <1>3, <1>5, <1>6, <2>1, <2>3, <2>5, <2>10, <2>11, <2>12
<1>. QED  BY <1>1, <1>2, <1>12, <1>13, Constants

LEMMA InitHolds == Init => Sha1Inv
<1>1. 0 % Word = 0 /\ 0 \div Word = 0 /\ 0 % Block = 0
  <2>1. 0 \in 0..Word - 1 /\ 0 \in 0..Block - 1 /\ 0 = 0 * Word + 0 /\ 0 = 0 * Block + 0
    BY Constants
  <2>. QED  BY <2>1, DivModOf, Constants
<1>2. SUFFICES ASSUME Init  PROVE  Sha1Inv
  OBVIOUS
<1>3. TypeOK  BY <1>2, Constants DEF Init, TypeOK
<1>4. lo = 0 /\ hi = 0 /\ fed = << >> /\ hashed = << >> /\ pc = "idle" /\ Len(<<>>) = 0
  BY <1>2 DEF Init
<1>5. CountInv  BY <1>1, <1>4 DEF CountInv
<1>6. Place = 0
  <2>1. 0 \div 8 = 0  OBVIOUS
  <2>. QED  BY <1>1, <1>4, <2>1 DEF Place
<1>7. IdleInv  BY <1>1, <1>4, <1>6 DEF IdleInv, WholeBlocks, Prefix
<1>8. BlocksInv  BY <1>4 DEF BlocksInv
<1>. QED  BY <1>3, <1>5, <1>7, <1>8 DEF Sha1Inv

\* A whole block is transformed out of what the caller gave.
LEMMA TransformKeeps == Sha1Inv /\ TransformBlock => Sha1Inv'
<1>1. SUFFICES ASSUME Sha1Inv, TransformBlock  PROVE  Sha1Inv'
  OBVIOUS
<1>2. /\ pc = "blocks" /\ TypeOK /\ WholeBlocks /\ Prefix /\ Block \in Nat \ {0}
      /\ fed \in Seq(Nat) /\ hashed \in Seq(Nat) /\ data \in Seq(Nat)
      /\ i \in Nat /\ Len(fed) \in Nat /\ Len(hashed) \in Nat /\ Len(data) \in Nat
      /\ Len(fed) = Len(hashed) + (Len(data) - i)
      /\ \A q \in i + 1..Len(data) : data[q] = fed[Len(hashed) + q - i]
  BY <1>1, Constants DEF Sha1Inv, TypeOK, BlocksInv, TransformBlock
<1>3. i + Block <= Len(data)  BY <1>1, <1>2 DEF TransformBlock, MoreBlocks
<1>. DEFINE piece == SubSeq(data, i + 1, i + Block)
<1>4. /\ piece \in Seq(Nat) /\ Len(piece) = Block
      /\ \A p \in 1..Block : piece[p] = data[i + p]
  BY <1>2, <1>3
<1>5. /\ hashed' = hashed \o piece /\ i' = i + Block
      /\ UNCHANGED <<pc, stage, lo, hi, buffer, data, final, msg, fed>>
  BY <1>1 DEF TransformBlock
<1>. HIDE DEF piece
<1>6. /\ hashed' \in Seq(Nat) /\ Len(hashed') = Len(hashed) + Block
      /\ \A p \in 1..Len(hashed) : hashed'[p] = hashed[p]
      /\ \A p \in 1..Block : hashed'[Len(hashed) + p] = piece[p]
  BY <1>2, <1>4, <1>5, Concatenation
<1>7. \A p \in 1..Block : hashed'[Len(hashed) + p] = fed[Len(hashed) + p]
  <2>1. SUFFICES ASSUME NEW p \in 1..Block  PROVE  hashed'[Len(hashed) + p] = fed[Len(hashed) + p]
    OBVIOUS
  <2>2. i + p \in i + 1..Len(data) /\ Len(hashed) + (i + p) - i = Len(hashed) + p
    BY <1>2, <1>3
  <2>3. data[i + p] = fed[Len(hashed) + (i + p) - i]  BY <1>2, <2>2
  <2>. QED  BY <1>4, <1>6, <2>2, <2>3
<1>8. TypeOK'
  <2>1. i' \in 0..Len(data')  BY <1>2, <1>3, <1>5
  <2>. QED  BY <1>2, <1>5, <1>6, <2>1 DEF TypeOK
<1>9. Prefix'
  <2>1. \A q \in 1..Len(hashed) + Block : hashed'[q] = fed[q]
    <3>1. SUFFICES ASSUME NEW q \in 1..Len(hashed) + Block  PROVE  hashed'[q] = fed[q]
      OBVIOUS
    <3>2. CASE q \in 1..Len(hashed)  BY <1>2, <1>6, <3>2 DEF Prefix
    <3>3. CASE q \notin 1..Len(hashed)
      <4>1. q - Len(hashed) \in 1..Block /\ Len(hashed) + (q - Len(hashed)) = q
        BY <1>2, <3>3
      <4>. QED  BY <1>7, <4>1
    <3>. QED  BY <3>2, <3>3
  <2>2. Len(hashed) + Block <= Len(fed)  BY <1>2, <1>3
  <2>. QED  BY <1>5, <1>6, <2>1, <2>2 DEF Prefix
<1>10. WholeBlocks'  BY <1>2, <1>6, ModBehind, Constants DEF WholeBlocks
<1>11. Len(fed') = Len(hashed') + (Len(data') - i')
  <2>1. Len(fed) = (Len(hashed) + Block) + (Len(data) - (i + Block))  BY <1>2
  <2>. QED  BY <1>5, <1>6, <2>1
<1>12. \A q \in i' + 1..Len(data') : data'[q] = fed'[Len(hashed') + q - i']
  <2>1. ASSUME NEW q \in (i + Block) + 1..Len(data)
        PROVE  data[q] = fed[(Len(hashed) + Block) + q - (i + Block)]
    <3>1. q \in i + 1..Len(data)  BY <1>2
    <3>2. (Len(hashed) + Block) + q - (i + Block) = Len(hashed) + q - i  BY <1>2
    <3>. QED  BY <1>2, <3>1, <3>2
  <2>. QED  BY <1>5, <1>6, <2>1
<1>13. BlocksInv' /\ IdleInv' /\ CountInv'
  BY <1>1, <1>2, <1>5, <1>9, <1>10, <1>11, <1>12 DEF BlocksInv, IdleInv, CountInv, Sha1Inv
<1>. QED  BY <1>8, <1>13 DEF Sha1Inv

\* What is less than a block is kept.
LEMMA KeepKeeps == Sha1Inv /\ KeepRest => Sha1Inv'
<1>1. SUFFICES ASSUME Sha1Inv, KeepRest  PROVE  Sha1Inv'
  OBVIOUS
<1>2. /\ pc = "blocks" /\ TypeOK /\ WholeBlocks /\ Prefix /\ Block \in Nat \ {0}
      /\ fed \in Seq(Nat) /\ hashed \in Seq(Nat) /\ data \in Seq(Nat)
      /\ i \in Nat /\ Len(fed) \in Nat /\ Len(hashed) \in Nat /\ Len(data) \in Nat
      /\ i <= Len(data) /\ Len(fed) = Len(hashed) + (Len(data) - i)
      /\ \A q \in i + 1..Len(data) : data[q] = fed[Len(hashed) + q - i]
      /\ lo = (8 * Len(fed)) % Word
  <2>1. pc = "blocks" /\ TypeOK /\ BlocksInv /\ CountInv  BY <1>1 DEF Sha1Inv, KeepRest
  <2>2. /\ fed \in Seq(Nat) /\ hashed \in Seq(Nat) /\ data \in Seq(Nat) /\ i \in 0..Len(data)
    BY <2>1 DEF TypeOK
  <2>3. /\ WholeBlocks /\ Prefix /\ Len(fed) = Len(hashed) + (Len(data) - i)
        /\ \A q \in i + 1..Len(data) : data[q] = fed[Len(hashed) + q - i]
    BY <2>1 DEF BlocksInv
  <2>4. lo = (8 * Len(fed)) % Word  BY <2>1 DEF CountInv
  <2>5. /\ i \in Nat /\ Len(fed) \in Nat /\ Len(hashed) \in Nat /\ Len(data) \in Nat
        /\ i <= Len(data)
    BY <2>2
  <2>6. Block \in Nat \ {0}  BY Constants
  <2>. QED  BY ONLY <2>1, <2>2, <2>3, <2>4, <2>5, <2>6
<1>. DEFINE n == Len(data) - i
<1>3. n \in 0..Block - 1 /\ Len(fed) = Len(hashed) + n
  BY <1>1, <1>2 DEF KeepRest, MoreBlocks
<1>4. /\ buffer' = Copy(buffer, 0, data, i + 1, n) /\ pc' = "idle"
      /\ UNCHANGED <<stage, lo, hi, data, i, final, hashed, msg, fed>>
  BY <1>1 DEF KeepRest
<1>5. Place = n
  <2>. HIDE DEF n
  <2>1. Place = Len(fed) % Block  BY <1>2, PlaceOfLength DEF Place
  <2>2. Len(hashed) % Block = 0  BY <1>2 DEF WholeBlocks
  <2>3. (Len(hashed) + n) % Block = n  BY <1>2, <1>3, <2>2, ModBehind
  <2>. QED  BY <1>3, <2>1, <2>3
<1>6. \A q \in 0..n - 1 : buffer'[q] = data[i + 1 + q]
  BY <1>3, <1>2, <1>4 DEF Copy
<1>7. \A q \in 0..n - 1 : buffer'[q] = fed[Len(hashed) + q + 1]
  <2>1. SUFFICES ASSUME NEW q \in 0..n - 1  PROVE  buffer'[q] = fed[Len(hashed) + q + 1]
    OBVIOUS
  <2>2. i + 1 + q \in i + 1..Len(data) /\ Len(hashed) + (i + 1 + q) - i = Len(hashed) + q + 1
    BY <1>2
  <2>3. data[i + 1 + q] = fed[Len(hashed) + (i + 1 + q) - i]  BY <1>2, <2>2
  <2>. QED  BY <1>6, <2>2, <2>3
<1>8. buffer' \in [0..Block - 1 -> Nat \union {Junk}]
  <2>1. \A q \in 0..Block - 1 : 0 <= q /\ q < 0 + n => i + 1 + q - 0 \in 1..Len(data)
    BY <1>2
  <2>2. ASSUME NEW q \in 0..Block - 1, 0 <= q /\ q < 0 + n  PROVE  data[i + 1 + q - 0] \in Nat
    <3>1. i + 1 + q - 0 \in 1..Len(data)  BY <2>1, <2>2
    <3>2. \A k \in 1..Len(data) : data[k] \in Nat  BY <1>2
    <3>. QED  BY ONLY <3>1, <3>2
  <2>3. \A q \in 0..Block - 1 : buffer[q] \in Nat \union {Junk}  BY <1>2 DEF TypeOK
  <2>. HIDE DEF n
  <2>. QED  BY <1>4, <2>2, <2>3 DEF Copy
<1>9. TypeOK'  BY <1>2, <1>4, <1>8 DEF TypeOK
<1>10. Place' = n /\ Len(fed') = Len(hashed') + n  BY <1>3, <1>4, <1>5 DEF Place
<1>11. IdleInv'
  <2>1. \A q \in 0..Place' - 1 : buffer'[q] = fed'[Len(hashed') + q + 1]
    BY <1>4, <1>7, <1>10
  <2>2. WholeBlocks' /\ Prefix'  BY <1>2, <1>4 DEF WholeBlocks, Prefix
  <2>. QED  BY <1>10, <2>1, <2>2 DEF IdleInv
<1>12. BlocksInv' /\ CountInv'
  BY <1>1, <1>2, <1>4 DEF BlocksInv, CountInv, Sha1Inv
<1>. QED  BY <1>9, <1>11, <1>12 DEF Sha1Inv

LEMMA FinalCountIsBytes ==
  ASSUME NEW h \in Nat, NEW l \in Nat
  PROVE  FinalCount(h, l) \in Seq(Nat)
<1>. DEFINE half == LenSize \div 2
<1>1. half \in Nat \ {0} /\ half <= LenSize  BY Sha1Assumption
<1>2. \A k \in 1..LenSize : (LenSize - k) % half \in 0..LenSize
  <2>1. ASSUME NEW k \in 1..LenSize  PROVE  (LenSize - k) % half \in 0..LenSize
    <3>1. LenSize - k \in Nat /\ LenSize \in Nat  BY Constants
    <3>. HIDE DEF half
    <3>2. (LenSize - k) % half \in 0..half - 1  BY <1>1, <3>1, DivMod
    <3>. QED  BY <1>1, <3>1, <3>2
  <2>. QED  BY <2>1
<1>3. \A k \in 1..LenSize :
        ((IF k > half THEN l ELSE h) \div Base^((LenSize - k) % half)) % Base \in Nat
  <2>1. ASSUME NEW k \in 1..LenSize, NEW v \in Nat
        PROVE  (v \div Base^((LenSize - k) % half)) % Base \in Nat
    <3>1. Base^((LenSize - k) % half) \in Nat \ {0}  BY <1>2, PowerAssumption
    <3>2. PICK w \in Nat \ {0} : w = Base^((LenSize - k) % half)  BY <3>1
    <3>3. v \div w \in Nat  BY DivMod
    <3>4. (v \div w) % Base \in Nat
      <4>. DEFINE x == v \div w
      <4>1. x \in Nat /\ Base \in Nat \ {0}  BY <3>3, Sha1Assumption
      <4>. HIDE DEF x
      <4>2. x % Base \in Nat  BY <4>1, DivMod
      <4>. QED  BY <4>2 DEF x
    <3>. QED  BY <3>2, <3>4
  <2>. QED  BY <2>1
<1>4. FinalCount(h, l) =
        [k \in 1..LenSize |->
           ((IF k > half THEN l ELSE h) \div Base^((LenSize - k) % half)) % Base]
  BY DEF FinalCount
<1>. HIDE DEF half
<1>. QED  BY <1>3, <1>4, Constants

LEMMA NextKeeps == Sha1Inv /\ [Next]_vars => Sha1Inv'
<1>1. SUFFICES ASSUME Sha1Inv, [Next]_vars  PROVE  Sha1Inv'
  OBVIOUS
<1>2. /\ stage \in {"data", "zeros", "length"} /\ final \in Seq(Nat) /\ msg \in Messages
      /\ msg \in Seq(Nat) /\ fed \in Seq(Nat) /\ lo \in Nat /\ hi \in Nat
  BY <1>1, Sha1Assumption, Constants DEF Sha1Inv, TypeOK
<1>3. ASSUME NEW d \in Seq(Nat), Update(d), stage' \in {"data", "zeros", "length"},
             final' \in Seq(Nat), msg' = msg
      PROVE  Sha1Inv'
  BY <1>1, <1>2, <1>3, UpdateKeeps DEF Sha1Inv, TypeOK
<1>4. CASE UpdateMessage
  <2>1. PICK n \in 1..Len(msg) - Len(fed) : Update(SubSeq(msg, Len(fed) + 1, Len(fed) + n))
    BY <1>4 DEF UpdateMessage
  <2>2. SubSeq(msg, Len(fed) + 1, Len(fed) + n) \in Seq(Nat)
    <3>1. Len(fed) \in Nat /\ Len(msg) \in Nat  BY <1>2
    <3>2. Len(fed) + 1 >= 1 /\ Len(fed) + n <= Len(msg)  BY <3>1
    <3>. QED  BY <1>2, <3>1, <3>2
  <2>. QED  BY <1>2, <1>3, <1>4, <2>1, <2>2 DEF UpdateMessage
<1>5. CASE TransformBlock  BY <1>1, <1>5, TransformKeeps
<1>6. CASE KeepRest  BY <1>1, <1>6, KeepKeeps
<1>7. CASE Final
  <2>1. <<Mark>> \in Seq(Nat)  OBVIOUS
  <2>2. FinalCount(hi, lo) \in Seq(Nat)  BY <1>2, FinalCountIsBytes
  <2>. QED  BY <1>3, <1>7, <2>1, <2>2 DEF Final
<1>8. CASE PadZero
  <2>1. <<0>> \in Seq(Nat)  OBVIOUS
  <2>. QED  BY <1>2, <1>3, <1>8, <2>1 DEF PadZero
<1>9. CASE PadLength
  BY <1>2, <1>3, <1>9 DEF PadLength
<1>10. CASE Digest
  <2>1. buffer' \in [0..Block - 1 -> Nat \union {Junk}]  BY <1>10 DEF Digest
  <2>2. TypeOK'  BY <1>1, <1>10, <2>1, Constants DEF Digest, Sha1Inv, TypeOK
  <2>. QED  BY <1>10, <2>2 DEF Digest, Sha1Inv, IdleInv, BlocksInv, CountInv
<1>11. CASE UNCHANGED vars
  BY <1>1, <1>11 DEF vars, Sha1Inv, TypeOK, IdleInv, BlocksInv, CountInv, WholeBlocks, Prefix, Place
<1>. QED  BY <1>1, <1>4, <1>5, <1>6, <1>7, <1>8, <1>9, <1>10, <1>11 DEF Next

THEOREM Sha1Invariant == Spec => []Sha1Inv
<1>. QED  BY InitHolds, NextKeeps, PTL DEF Spec

----------------------------------------------------------------------------
(* What follows from it                                                    *)

\* No byte of the buffer is transformed that was never written, and SHA1Update() never
\* leaves what it was given, for blocks of any size.
THEOREM StreamTypes == Spec => []TypeOK
<1>1. Sha1Inv => TypeOK  BY DEF Sha1Inv
<1>. QED  BY <1>1, Sha1Invariant, PTL

\* However a message is cut into updates, what was given is what was transformed and
\* what the buffer keeps (sha1.c:118-130).
THEOREM NoByteLost == Spec => []NothingLost
<1>1. Sha1Inv => NothingLost  BY DEF Sha1Inv, IdleInv, NothingLost, Prefix
<1>. QED  BY <1>1, Sha1Invariant, PTL

\* The counter is right for every length, through any number of carries, and for an
\* update longer than a word counts (sha1.c:119-120).
THEOREM CounterCorrect == Spec => []CountIsLength
<1>1. Sha1Inv => CountIsLength  BY DEF Sha1Inv, CountInv, CountIsLength
<1>. QED  BY <1>1, Sha1Invariant, PTL

----------------------------------------------------------------------------
(* The padding                                                             *)

\* Up to byte z: the message, the mark and zeros; at no place before z could the
\* length have completed a block.
PaddedTo(z) ==
  /\ z \in Len(msg) + 1..Len(fed)
  /\ \A q \in 1..Len(msg) : fed[q] = msg[q]
  /\ fed[Len(msg) + 1] = Mark
  /\ \A q \in Len(msg) + 2..z : fed[q] = 0
  /\ \A q \in Len(msg) + 1..z - 1 : q % Block # Block - LenSize

\* What was given to SHA1Update() so far.
GivenInv ==
  /\ stage = "data" => Len(fed) <= Len(msg) /\ \A q \in 1..Len(fed) : fed[q] = msg[q]
  /\ stage = "zeros" => PaddedTo(Len(fed)) /\ final = LengthOf(Len(msg))
  /\ stage = "length" =>
       /\ PaddedTo(Len(fed) - LenSize) /\ (Len(fed) - LenSize) % Block = Block - LenSize
       /\ \A q \in 1..LenSize : fed[Len(fed) - LenSize + q] = LengthOf(Len(msg))[q]

\* In the end all of it was transformed.
DoneInv == pc = "done" => stage = "length" /\ WholeBlocks /\ Prefix /\ Len(hashed) = Len(fed)

\* The inductive invariant, with the padding.
PadInv == Sha1Inv /\ GivenInv /\ DoneInv

----------------------------------------------------------------------------
(* Digits.                                                                 *)

\* The quotient of a quotient.
LEMMA DivDiv ==
  ASSUME NEW a \in Nat, NEW P \in Nat \ {0}, NEW R \in Nat \ {0}
  PROVE  P * R \in Nat \ {0} /\ (a \div P) \div R = a \div (P * R)
<1>1. PICK q \in Nat, s \in 0..P - 1 : a = q * P + s /\ a \div P = q
  BY DivMod
<1>2. PICK u \in Nat, t \in 0..R - 1 : q = u * R + t /\ q \div R = u
  BY DivMod
<1>. DEFINE M == P * R
            rest == t * P + s
<1>3. M \in Nat \ {0} /\ rest \in Nat
  OBVIOUS
<1>4. rest < M
  <2>1. t * P <= (R - 1) * P
    OBVIOUS
  <2>2. (R - 1) * P = P * R - P
    OBVIOUS
  <2>3. t * P \in Int /\ (R - 1) * P \in Int /\ P * R \in Int
    OBVIOUS
  <2>. QED  BY <2>1, <2>2, <2>3
<1>5. a = u * M + rest
  <2>1. q * P = u * R * P + t * P
    BY <1>2
  <2>2. u * R * P = u * (P * R)
    OBVIOUS
  <2>. QED  BY <1>1, <2>1, <2>2
<1>. HIDE DEF M, rest
<1>6. a \div M = u
  BY <1>3, <1>4, <1>5, DivModOf
<1>. QED  BY <1>1, <1>2, <1>3, <1>6 DEF M

\* The digit to the base R with the value P is within a word that has W values.
DigitWithin(W, P, R) == \E j \in Nat \ {0} : W = P * (R * j)

\* A digit within a word is that of the word.
LEMMA DigitOfMod ==
  ASSUME NEW a \in Nat, NEW W \in Nat \ {0}, NEW P \in Nat \ {0}, NEW R \in Nat \ {0},
         DigitWithin(W, P, R)
  PROVE  ((a % W) \div P) % R = (a \div P) % R
<1>1. PICK q \in Nat, r \in 0..W - 1 : a = q * W + r /\ a % W = r
  BY DivMod
<1>2. PICK u \in Nat, s \in 0..P - 1 : r = u * P + s /\ r \div P = u
  BY ONLY a \in Nat, W \in Nat \ {0}, DivMod
<1>3. PICK v \in Nat, t \in 0..R - 1 : u = v * R + t /\ u % R = t
  BY DivMod
<1>0. PICK j \in Nat \ {0} : W = P * (R * j)
  BY DEF DigitWithin
<1>. DEFINE c == q * (R * j) + u
            d == q * j + v
<1>4. c \in Nat /\ d \in Nat
  OBVIOUS
<1>5. a = c * P + s
  <2>1. q * W = (q * (R * j)) * P
    BY <1>0
  <2>2. c * P = (q * (R * j)) * P + u * P
    OBVIOUS
  <2>. QED  BY <1>1, <1>2, <2>1, <2>2
<1>6. c = d * R + t
  <2>1. d * R = (q * j) * R + v * R
    OBVIOUS
  <2>2. (q * j) * R = q * (R * j)
    OBVIOUS
  <2>. QED  BY <1>3, <2>1, <2>2
<1>. HIDE DEF c, d
<1>7. a \div P = c
  BY <1>4, <1>5, DivModOf
<1>8. c % R = t
  BY ONLY <1>3, <1>4, <1>6, R \in Nat \ {0}, DivModOf
<1>. QED  BY <1>1, <1>2, <1>3, <1>7, <1>8

\* Small multiples.
LEMMA ModOfSmall ==
  ASSUME NEW W \in Nat \ {0}, NEW r \in 0..W - 1
  PROVE  r % W = r /\ (W + r) % W = r
<1>1. r \in Nat /\ r = 0 * W + r
  OBVIOUS
<1>2. r % W = r
  BY <1>1, DivModOf
<1>. DEFINE e == W + r
<1>3. e \in Nat /\ e = 1 * W + r
  OBVIOUS
<1>. HIDE DEF e
<1>4. e % W = r
  BY <1>3, DivModOf
<1>. QED  BY <1>2, <1>4 DEF e

\* The bytes of the counter are those of the number of bits.
LEMMA FinalCountIsLength ==
  ASSUME NEW L \in Nat, NEW h, NEW l,
         l = (8 * L) % Word, h = ((8 * L) \div Word) % Word
  PROVE  FinalCount(h, l) = LengthOf(L)
<1>. DEFINE half == LenSize \div 2
            a == 8 * L
<1>1. half \in Nat \ {0} /\ LenSize = 2 * half /\ Word = Base^half /\ Base^1 = Base
  BY Sha1Assumption, PowerAssumption
<1>2. Word \in Nat \ {0} /\ Base \in Nat \ {0} /\ a \in Nat /\ a \div Word \in Nat
  <2>1. Word \in Nat \ {0} /\ Base \in Nat \ {0} /\ a \in Nat
    BY Constants, Sha1Assumption
  <2>. HIDE DEF a
  <2>. QED  BY <2>1, DivMod
<1>. HIDE DEF half
<1>3. \A m, n \in 0..2 * half : Base^n \in Nat \ {0} /\ Base^(m + n) = Base^m * Base^n
  BY <1>1, PowerAssumption
<1>4. ASSUME NEW m \in 0..half - 1
      PROVE  /\ Base^m \in Nat \ {0}
             /\ DigitWithin(Word, Base^m, Base)
  <2>1. m \in 0..2 * half /\ 1 \in 0..2 * half /\ half - m - 1 \in 0..2 * half
        /\ half - m \in 0..2 * half /\ m + (half - m) = half /\ 1 + (half - m - 1) = half - m
    BY <1>1
  <2>2. Base^half = Base^m * Base^(half - m)
    BY <1>3, <2>1
  <2>3. Base^(half - m) = Base^1 * Base^(half - m - 1) /\ Base^(half - m - 1) \in Nat \ {0}
    BY <1>3, <2>1
  <2>4. Word = Base^m * (Base * Base^(half - m - 1))
    BY <1>1, <2>2, <2>3
  <2>. QED  BY <1>3, <2>1, <2>3, <2>4 DEF DigitWithin
<1>5. ASSUME NEW b \in Nat, NEW m \in 0..half - 1
      PROVE  ((b % Word) \div Base^m) % Base = (b \div Base^m) % Base
  BY <1>2, <1>4, DigitOfMod
<1>6. ASSUME NEW k \in 1..LenSize
      PROVE  ((IF k > half THEN l ELSE h) \div Base^((LenSize - k) % half)) % Base
               = (a \div Base^(LenSize - k)) % Base
  <2>. HIDE DEF a
  <2>1. CASE k > half
    <3>. DEFINE m == LenSize - k
    <3>1. m \in 0..half - 1
      BY <1>1, <2>1
    <3>. HIDE DEF m
    <3>2. m % half = m
      BY <1>1, <3>1, ModOfSmall
    <3>3. l = a % Word
      BY DEF a
    <3>4. (l \div Base^m) % Base = (a \div Base^m) % Base
      BY <1>2, <1>5, <3>1, <3>3
    <3>. QED  BY <2>1, <3>2, <3>4 DEF m
  <2>2. CASE k <= half
    <3>. DEFINE m == half - k
    <3>1. m \in 0..half - 1 /\ LenSize - k = half + m /\ m \in Nat /\ LenSize - k \in Nat
          /\ m \in 0..2 * half /\ half \in 0..2 * half
      BY <1>1, <2>2
    <3>. HIDE DEF m
    <3>2. (LenSize - k) % half = m
      BY <1>1, <3>1, ModOfSmall
    <3>3. h = (a \div Word) % Word
      BY DEF a
    <3>4. ((h \div Base^m) % Base) = ((a \div Word) \div Base^m) % Base
      BY <1>2, <1>5, <3>1, <3>3
    <3>5. (a \div Word) \div Base^m = a \div Base^(LenSize - k)
      <4>1. PICK p \in Nat \ {0} : p = Base^m
        BY <1>4, <3>1
      <4>2. (a \div Word) \div p = a \div (Word * p)
        BY <1>2, DivDiv
      <4>3. Word * p = Base^(LenSize - k)
        BY <1>1, <1>3, <3>1, <4>1
      <4>. QED  BY <4>1, <4>2, <4>3
    <3>6. ~(k > half)
      BY <1>1, <2>2
    <3>. QED  BY <3>2, <3>4, <3>5, <3>6
  <2>. QED  BY <1>1, <2>1, <2>2
<1>7. FinalCount(h, l)
        = [k \in 1..LenSize |->
             ((IF k > half THEN l ELSE h) \div Base^((LenSize - k) % half)) % Base]
  BY DEF FinalCount, half
<1>8. LengthOf(L) = [k \in 1..LenSize |-> (a \div Base^(LenSize - k)) % Base]
  BY DEF LengthOf
<1>. HIDE DEF a
<1>. QED  BY <1>6, <1>7, <1>8

----------------------------------------------------------------------------
(* What SHA1Update() is given                                              *)

\* The types that are needed here.
LEMMA PadTypes ==
  ASSUME Sha1Inv
  PROVE  /\ fed \in Seq(Nat) /\ msg \in Seq(Nat) /\ hashed \in Seq(Nat)
         /\ Len(fed) \in Nat /\ Len(msg) \in Nat /\ Len(hashed) \in Nat
<1>1. fed \in Seq(Nat) /\ msg \in Seq(Nat) /\ hashed \in Seq(Nat)
  BY Sha1Assumption DEF Sha1Inv, TypeOK
<1>. QED  BY <1>1

\* The length is LenSize bytes.
LEMMA LengthType ==
  ASSUME NEW L \in Nat
  PROVE  LengthOf(L) \in Seq(Nat) /\ Len(LengthOf(L)) = LenSize
<1>1. 8 * L \in Nat
  OBVIOUS
<1>2. PICK h \in Nat, l \in Nat : l = (8 * L) % Word /\ h = ((8 * L) \div Word) % Word
  <2>1. (8 * L) % Word \in Nat /\ (8 * L) \div Word \in Nat
    BY <1>1, Constants, DivMod
  <2>. DEFINE x == (8 * L) \div Word
  <2>2. x % Word \in Nat
    <3>1. x \in Nat
      BY <2>1
    <3>. HIDE DEF x
    <3>. QED  BY <3>1, Constants, DivMod
  <2>. QED  BY <2>1, <2>2
<1>3. LengthOf(L) \in Seq(Nat)
  BY <1>2, FinalCountIsLength, FinalCountIsBytes
<1>4. LengthOf(L) = [k \in 1..LenSize |-> LengthOf(L)[k]]
  BY DEF LengthOf
<1>. QED  BY <1>3, <1>4, Constants

\* What was given stays, and d comes behind it.
LEMMA GivenMore ==
  ASSUME Sha1Inv, NEW d \in Seq(Nat), Update(d)
  PROVE  /\ Len(fed') = Len(fed) + Len(d) /\ Len(d) \in Nat
         /\ \A q \in 1..Len(fed) : fed'[q] = fed[q]
         /\ \A q \in 1..Len(d) : fed'[Len(fed) + q] = d[q]
         /\ pc' # "done"
<1>1. fed' = fed \o d /\ pc' # "done"
  BY DEF Update
<1>. QED  BY <1>1, PadTypes, Concatenation

\* One byte is given.
LEMMA GivenByte ==
  ASSUME Sha1Inv, NEW b \in Nat, Update(<<b>>)
  PROVE  /\ Len(fed') = Len(fed) + 1 /\ fed'[Len(fed) + 1] = b
         /\ \A q \in 1..Len(fed) : fed'[q] = fed[q]
<1>. DEFINE d == <<b>>
<1>1. d \in Seq(Nat) /\ Len(d) = 1 /\ d[1] = b /\ Update(d)
  OBVIOUS
<1>. HIDE DEF d
<1>2. /\ Len(fed') = Len(fed) + Len(d) /\ \A q \in 1..Len(fed) : fed'[q] = fed[q]
      /\ \A q \in 1..Len(d) : fed'[Len(fed) + q] = d[q]
  BY <1>1, GivenMore
<1>3. 1 \in 1..Len(d)
  BY <1>1
<1>. QED  BY <1>1, <1>2, <1>3

\* The padding so far is not changed by what is given then.
LEMMA PaddedStays ==
  ASSUME Sha1Inv, NEW z, PaddedTo(z), msg' = msg, Len(fed') \in Nat, Len(fed) <= Len(fed'),
         \A q \in 1..Len(fed) : fed'[q] = fed[q], NEW y, y = z
  PROVE  PaddedTo(y)'
<1>1. z \in Nat /\ Len(msg) + 1 <= z /\ z <= Len(fed) /\ Len(fed) \in Nat /\ Len(msg) \in Nat
  BY PadTypes DEF PaddedTo
<1>2. \A q \in 1..z : fed'[q] = fed[q]
  BY <1>1
<1>3. 1..Len(msg) \subseteq 1..z /\ Len(msg) + 1 \in 1..z /\ Len(msg) + 2..z \subseteq 1..z
  BY <1>1
<1>4. z \in Len(msg) + 1..Len(fed')
  BY <1>1
<1>. QED  BY <1>2, <1>3, <1>4 DEF PaddedTo

\* A part of a sequence.
LEMMA PartOf ==
  ASSUME NEW a \in Seq(Nat), NEW k \in Nat, NEW n \in Nat, k + n <= Len(a)
  PROVE  /\ SubSeq(a, k + 1, k + n) \in Seq(Nat) /\ Len(SubSeq(a, k + 1, k + n)) = n
         /\ \A q \in 1..n : SubSeq(a, k + 1, k + n)[q] = a[k + q]
<1>1. k + 1 \in Nat \ {0} /\ k + n \in Nat /\ (k + n) - (k + 1) + 1 = n
  OBVIOUS
<1>2. SubSeq(a, k + 1, k + n) \in Seq(Nat) /\ Len(SubSeq(a, k + 1, k + n)) = n
  BY <1>1
<1>3. ASSUME NEW q \in 1..n  PROVE SubSeq(a, k + 1, k + n)[q] = a[k + q]
  <2>1. (k + 1) + q - 1 = k + q
    BY <1>1
  <2>2. SubSeq(a, k + 1, k + n)[q] = a[(k + 1) + q - 1]
    BY <1>1
  <2>. QED  BY <2>1, <2>2
<1>. QED  BY <1>2, <1>3

\* SHA1Update() with a part of the message.
LEMMA GivenMessage == PadInv /\ UpdateMessage => GivenInv'
<1>. SUFFICES ASSUME PadInv, UpdateMessage  PROVE  GivenInv'
  OBVIOUS
<1>1. /\ fed \in Seq(Nat) /\ msg \in Seq(Nat) /\ Len(fed) \in Nat /\ Len(msg) \in Nat
      /\ stage = "data" /\ stage' = stage /\ msg' = msg
      /\ \A q \in 1..Len(fed) : fed[q] = msg[q]
  BY PadTypes DEF PadInv, GivenInv, UpdateMessage
<1>2. PICK n \in 1..Len(msg) - Len(fed) : Update(SubSeq(msg, Len(fed) + 1, Len(fed) + n))
  BY DEF UpdateMessage
<1>. DEFINE d == SubSeq(msg, Len(fed) + 1, Len(fed) + n)
<1>3. n \in Nat /\ Len(fed) + n <= Len(msg)
  BY <1>1
<1>4. d \in Seq(Nat) /\ Len(d) = n /\ \A q \in 1..n : d[q] = msg[Len(fed) + q]
  BY ONLY <1>1, <1>3, PartOf
<1>. HIDE DEF d
<1>5. /\ Len(fed') = Len(fed) + n
      /\ \A q \in 1..Len(fed) : fed'[q] = fed[q]
      /\ \A q \in 1..n : fed'[Len(fed) + q] = d[q]
  BY <1>2, <1>4, GivenMore DEF PadInv, d
<1>6. ASSUME NEW q \in 1..Len(fed) + n  PROVE  fed'[q] = msg[q]
  <2>1. CASE q \in 1..Len(fed)
    BY <1>1, <1>5, <2>1
  <2>2. CASE q \notin 1..Len(fed)
    <3>1. q - Len(fed) \in 1..n /\ Len(fed) + (q - Len(fed)) = q
      BY <1>1, <1>3, <2>2
    <3>. QED  BY <1>4, <1>5, <3>1
  <2>. QED  BY <2>1, <2>2
<1>. QED  BY <1>1, <1>3, <1>5, <1>6 DEF GivenInv

\* SHA1Final() begins: the counter is that of the message, and the mark follows it.
LEMMA GivenMark == PadInv /\ Final => GivenInv'
<1>. SUFFICES ASSUME PadInv, Final  PROVE  GivenInv'
  OBVIOUS
<1>1. /\ fed = msg /\ Len(msg) \in Nat /\ msg' = msg /\ pc = "idle" /\ stage' = "zeros"
      /\ final' = FinalCount(hi, lo) /\ Update(<<Mark>>)
  BY PadTypes DEF PadInv, Final, Update
<1>3. /\ Len(fed') = Len(fed) + 1 /\ fed'[Len(fed) + 1] = Mark
      /\ \A q \in 1..Len(fed) : fed'[q] = fed[q]
  BY <1>1, GivenByte DEF PadInv
<1>4. lo = (8 * Len(msg)) % Word /\ hi = ((8 * Len(msg)) \div Word) % Word
  BY <1>1 DEF PadInv, Sha1Inv, CountInv
<1>5. final' = LengthOf(Len(msg'))
  BY <1>1, <1>4, FinalCountIsLength
<1>6. PaddedTo(Len(fed))'
  BY <1>1, <1>3 DEF PaddedTo
<1>. QED  BY <1>1, <1>5, <1>6 DEF GivenInv

\* A zero, as the length would not complete a block.
LEMMA GivenZero == PadInv /\ PadZero => GivenInv'
<1>. SUFFICES ASSUME PadInv, PadZero  PROVE  GivenInv'
  OBVIOUS
<1>1. /\ Len(fed) \in Nat /\ Len(msg) \in Nat /\ msg' = msg /\ pc = "idle"
      /\ stage = "zeros" /\ stage' = "zeros" /\ final' = final /\ Update(<<0>>)
      /\ Place # Block - LenSize /\ PaddedTo(Len(fed)) /\ final = LengthOf(Len(msg))
  BY PadTypes DEF PadInv, PadZero, Update, GivenInv, Padded
<1>3. /\ Len(fed') = Len(fed) + 1 /\ fed'[Len(fed) + 1] = 0
      /\ \A q \in 1..Len(fed) : fed'[q] = fed[q]
  BY <1>1, GivenByte DEF PadInv
<1>4. Len(fed) % Block # Block - LenSize
  <2>1. lo = (8 * Len(fed)) % Word
    BY <1>1 DEF PadInv, Sha1Inv, CountInv
  <2>. QED  BY <1>1, <2>1, PlaceOfLength DEF Place
<1>5. PaddedTo(Len(fed))'
  <2>1. PICK z : z = Len(fed)
    OBVIOUS
  <2>2. z \in Nat /\ Len(msg) + 1 <= z
    BY <1>1, <2>1 DEF PaddedTo
  <2>3. PaddedTo(z)'
    BY <1>1, <1>3, <2>1, PaddedStays DEF PadInv
  <2>4. Len(fed') = z + 1 /\ fed'[z + 1] = 0 /\ z % Block # Block - LenSize
    BY <1>3, <1>4, <2>1
  <2>. QED  BY <1>1, <2>2, <2>3, <2>4 DEF PaddedTo
<1>. QED  BY <1>1, <1>5 DEF GivenInv

\* The length, where it completes a block.
LEMMA GivenLength == PadInv /\ PadLength => GivenInv'
<1>. SUFFICES ASSUME PadInv, PadLength  PROVE  GivenInv'
  OBVIOUS
<1>1. /\ Len(fed) \in Nat /\ Len(msg) \in Nat /\ msg' = msg /\ pc = "idle"
      /\ stage' = "length" /\ Update(final)
      /\ Place = Block - LenSize /\ PaddedTo(Len(fed)) /\ final = LengthOf(Len(msg))
  BY PadTypes DEF PadInv, PadLength, Update, GivenInv, Padded
<1>2. final \in Seq(Nat) /\ Len(final) = LenSize /\ LenSize \in Nat
  BY <1>1, LengthType, Constants
<1>3. /\ Len(fed') = Len(fed) + LenSize
      /\ \A q \in 1..Len(fed) : fed'[q] = fed[q]
      /\ \A q \in 1..LenSize : fed'[Len(fed) + q] = final[q]
  BY <1>1, <1>2, GivenMore DEF PadInv
<1>4. Len(fed) % Block = Block - LenSize
  <2>1. lo = (8 * Len(fed)) % Word
    BY <1>1 DEF PadInv, Sha1Inv, CountInv
  <2>. QED  BY <1>1, <2>1, PlaceOfLength DEF Place
<1>5. PICK z : z = Len(fed)
  OBVIOUS
<1>6. z = Len(fed') - LenSize /\ Len(fed) <= Len(fed') /\ Len(fed') \in Nat
  BY <1>1, <1>2, <1>3, <1>5
<1>7. PaddedTo(z)'
  BY <1>1, <1>3, <1>5, <1>6, PaddedStays DEF PadInv
<1>8. LengthOf(Len(msg))' = LengthOf(Len(msg))
  BY <1>1 DEF LengthOf
<1>9. \A q \in 1..LenSize : fed'[z + q] = LengthOf(Len(msg))'[q]
  BY <1>1, <1>3, <1>5, <1>8
<1>. QED  BY <1>1, <1>4, <1>5, <1>6, <1>7, <1>9 DEF GivenInv

\* When the digest is read, nothing is left in the buffer.
LEMMA DoneKeeps == PadInv /\ Digest => DoneInv'
<1>. SUFFICES ASSUME PadInv, Digest  PROVE  DoneInv'
  OBVIOUS
<1>1. /\ pc = "idle" /\ stage = "length" /\ stage' = stage /\ hashed' = hashed /\ fed' = fed
      /\ WholeBlocks /\ Prefix /\ Len(fed) = Len(hashed) + Place
      /\ lo = (8 * Len(fed)) % Word
      /\ (Len(fed) - LenSize) % Block = Block - LenSize
      /\ PaddedTo(Len(fed) - LenSize) /\ Len(fed) \in Nat /\ Len(msg) \in Nat
      /\ Len(hashed) \in Nat
  BY PadTypes DEF PadInv, Sha1Inv, IdleInv, CountInv, GivenInv, Digest
<1>2. Place = Len(fed) % Block
  BY <1>1, PlaceOfLength DEF Place
<1>3. Len(fed) % Block = 0
  <2>1. PICK z \in Nat : z = Len(fed) - LenSize
    BY <1>1 DEF PaddedTo
  <2>2. PICK p \in Nat, r \in 0..Block - 1 : z = p * Block + r /\ z % Block = r
    BY Constants, DivMod
  <2>. DEFINE e == p + 1
              t == z + LenSize
  <2>3. r = Block - LenSize /\ e \in Nat
    BY <1>1, <2>1, <2>2
  <2>4. e * Block = p * Block + Block
    BY Constants
  <2>5. t \in Nat /\ t = e * Block + 0 /\ 0 \in 0..Block - 1
    <3>1. p * Block \in Nat /\ Block \in Nat \ {0} /\ LenSize \in Nat
      BY Constants
    <3>. QED  BY ONLY <2>2, <2>3, <2>4, <3>1, z \in Nat
  <2>. HIDE DEF e, t
  <2>6. t % Block = 0
    BY ONLY <2>3, <2>5, Constants, DivModOf
  <2>7. t = Len(fed)
    BY <1>1, <2>1, Constants DEF t
  <2>. QED  BY <2>6, <2>7
<1>. QED  BY <1>1, <1>2, <1>3 DEF DoneInv, WholeBlocks, Prefix

\* The beginning, and every step.
LEMMA PadHolds ==
  /\ Init => PadInv
  /\ PadInv /\ [Next]_vars => PadInv'
<1>1. Init => PadInv
  <2>. SUFFICES ASSUME Init  PROVE  PadInv
    OBVIOUS
  <2>1. Sha1Inv /\ stage = "data" /\ pc = "idle" /\ fed = << >>
    BY InitHolds DEF Init
  <2>2. Len(msg) \in Nat
    BY <2>1, PadTypes
  <2>3. GivenInv
    BY <2>1, <2>2 DEF GivenInv
  <2>. QED  BY <2>1, <2>3 DEF PadInv, DoneInv
<1>2. ASSUME PadInv, [Next]_vars  PROVE  PadInv'
  <2>1. Sha1Inv'
    BY <1>2, NextKeeps DEF PadInv
  <2>2. ASSUME UNCHANGED <<stage, fed, final, msg>>  PROVE  GivenInv'
    BY <1>2, <2>2 DEF PadInv, GivenInv, PaddedTo, LengthOf
  <2>3. CASE UpdateMessage \/ Final \/ PadZero \/ PadLength
    <3>1. GivenInv'
      BY <1>2, <2>3, GivenMessage, GivenMark, GivenZero, GivenLength
    <3>2. pc' # "done"
      BY <2>3 DEF UpdateMessage, Final, PadZero, PadLength, Update
    <3>. QED  BY <2>1, <3>1, <3>2 DEF PadInv, DoneInv
  <2>4. CASE TransformBlock \/ KeepRest
    BY <2>1, <2>2, <2>4 DEF TransformBlock, KeepRest, PadInv, DoneInv
  <2>5. CASE Digest
    BY <1>2, <2>1, <2>2, <2>5, DoneKeeps DEF Digest, PadInv
  <2>6. CASE UNCHANGED vars
    BY <1>2, <2>1, <2>2, <2>6 DEF vars, PadInv, DoneInv, WholeBlocks, Prefix
  <2>. QED  BY <1>2, <2>3, <2>4, <2>5, <2>6 DEF Next
<1>. QED  BY <1>1, <1>2

\* Among the places of a block there is every one.
LEMMA EveryPlace ==
  ASSUME NEW a \in Nat, NEW t \in 0..Block - 1
  PROVE  \E r \in a..a + Block - 1 : r % Block = t
<1>0. Block \in Nat \ {0}
  BY Constants
<1>1. PICK p \in Nat, s \in 0..Block - 1 : a = p * Block + s
  BY ONLY <1>0, a \in Nat, DivMod
<1>2. Block \in Nat \ {0} /\ p * Block \in Nat /\ (p + 1) * Block = p * Block + Block
      /\ p + 1 \in Nat
  BY Constants
<1>3. ASSUME NEW e \in Nat, NEW r \in Nat, r = e * Block + t  PROVE  r % Block = t
  BY ONLY <1>2, <1>3, e \in Nat, r \in Nat, t \in 0..Block - 1, DivModOf
<1>4. CASE s <= t
  <2>1. PICK r \in Nat : r = p * Block + t
    BY <1>2
  <2>2. r \in a..a + Block - 1
    BY ONLY <1>1, <1>2, <1>4, <2>1, t \in 0..Block - 1, s \in 0..Block - 1
  <2>. QED  BY <1>3, <2>1, <2>2
<1>5. CASE t < s
  <2>1. PICK r \in Nat : r = (p + 1) * Block + t
    BY <1>2
  <2>2. r \in a..a + Block - 1
    BY ONLY <1>1, <1>2, <1>5, <2>1, t \in 0..Block - 1, s \in 0..Block - 1
  <2>. QED  BY <1>2, <1>3, <2>1, <2>2
<1>. QED  BY <1>4, <1>5

\* Whatever the message and the updates it is cut into, what is transformed in
\* the end is the message padded as the standard has it: the mark, the fewest
\* zeros that do, the number of its bits (sha1.c:136-152).
THEOREM MessagePadded == Spec => []PadsMessage
<1>1. PadInv => PadsMessage
  <2>. SUFFICES ASSUME PadInv, pc = "done"  PROVE  PadsMessage
    BY DEF PadsMessage
  <2>. DEFINE n == Len(msg)
              z == Len(hashed) - LenSize
  <2>1. /\ hashed \in Seq(Nat) /\ msg \in Seq(Nat) /\ n \in Nat /\ Len(hashed) \in Nat
        /\ LenSize \in Nat \ {0} /\ Block \in Nat \ {0} /\ LenSize < Block
    BY PadTypes, Constants, Sha1Assumption DEF PadInv
  <2>2. /\ WholeBlocks /\ Len(hashed) = Len(fed) /\ \A q \in 1..Len(hashed) : hashed[q] = fed[q]
        /\ PaddedTo(z) /\ \A q \in 1..LenSize : fed[z + q] = LengthOf(n)[q]
    BY DEF PadInv, GivenInv, DoneInv, Prefix
  <2>3. z \in n + 1..Len(hashed) /\ Len(hashed) = z + LenSize /\ z \in Nat
    BY <2>1, <2>2 DEF PaddedTo
  <2>. HIDE DEF z
  <2>4. /\ \A q \in 1..n : hashed[q] = msg[q]
        /\ hashed[n + 1] = Mark
        /\ \A q \in n + 2..z : hashed[q] = 0
        /\ \A q \in 1..LenSize : hashed[z + q] = LengthOf(n)[q]
        /\ \A q \in n + 1..z - 1 : q % Block # Block - LenSize
    <3>1. 1..n \subseteq 1..Len(hashed) /\ n + 1 \in 1..Len(hashed)
          /\ n + 2..z \subseteq 1..Len(hashed) /\ \A q \in 1..LenSize : z + q \in 1..Len(hashed)
      BY <2>1, <2>3
    <3>2. \A q \in 1..Len(hashed) : hashed[q] = fed[q]
      BY <2>2
    <3>3. /\ \A q \in 1..n : fed[q] = msg[q]
          /\ fed[n + 1] = Mark
          /\ \A q \in n + 2..z : fed[q] = 0
          /\ \A q \in n + 1..z - 1 : q % Block # Block - LenSize
      BY <2>2 DEF PaddedTo
    <3>4. \A q \in 1..LenSize : fed[z + q] = LengthOf(n)[q]
      BY <2>2
    <3>. QED  BY ONLY <3>1, <3>2, <3>3, <3>4
  <2>5. SubSeq(hashed, 1, n) = msg
    <3>1. SubSeq(hashed, 1, n) = [q \in 1..n |-> hashed[q]]
      BY <2>1, <2>3
    <3>2. msg = [q \in 1..n |-> msg[q]]
      BY <2>1
    <3>. QED  BY <2>4, <3>1, <3>2
  <2>6. SubSeq(hashed, Len(hashed) - LenSize + 1, Len(hashed)) = LengthOf(n)
    <3>1. SubSeq(hashed, z + 1, z + LenSize) = [q \in 1..LenSize |-> hashed[z + q]]
      BY <2>1, <2>3
    <3>2. LengthOf(n) = [q \in 1..LenSize |-> LengthOf(n)[q]]
      BY DEF LengthOf
    <3>3. Len(hashed) - LenSize + 1 = z + 1
      BY <2>1, <2>3
    <3>. QED  BY <2>3, <2>4, <3>1, <3>2, <3>3
  <2>7. Len(hashed) < n + 1 + LenSize + Block
    <3>1. PICK q \in n + 1..n + 1 + Block - 1 : q % Block = Block - LenSize
      <4>1. n + 1 \in Nat /\ Block - LenSize \in 0..Block - 1
        BY <2>1
      <4>. QED  BY <4>1, EveryPlace
    <3>2. ~(q <= z - 1)
      BY <2>1, <2>3, <2>4, <3>1
    <3>. QED  BY <2>1, <2>3, <3>1, <3>2
  <2>8. Len(hashed) % Block = 0
    BY <2>2 DEF WholeBlocks
  <2>9. \A q \in n + 2..Len(hashed) - LenSize : hashed[q] = 0
    <3>1. Len(hashed) - LenSize = z
      BY <2>1, <2>3
    <3>. QED  BY <2>4, <3>1
  <2>. QED  BY <2>4, <2>5, <2>6, <2>7, <2>8, <2>9 DEF PadsMessage
<1>. QED  BY <1>1, PadHolds, PTL DEF Spec
============================================================================
