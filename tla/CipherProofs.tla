---------------------------- MODULE CipherProofs ---------------------------
(***************************************************************************)
(* Proofs about Rijndael and Cbc. For every key and block, encrypt() and   *)
(* decrypt() undo one another, and the two do what AES asks in every       *)
(* round. For every such cipher, and every number and size of contents,    *)
(* encrypted and decrypted contents are in step, and no block is written   *)
(* where it does not belong.                                               *)
(***************************************************************************)
EXTENDS Cbc, Rijndael, TLAPS

----------------------------------------------------------------------------
(* Exclusive or                                                            *)

IsGroup(table, S) ==
  /\ table \in [S -> [S -> S]]
  /\ \A a \in S : table[a][0] = a /\ table[a][a] = 0
  /\ \A a, c \in S : table[a][c] = table[c][a]
  /\ \A a, c, d \in S : table[table[a][c]][d] = table[a][table[c][d]]

\* Halves
LEMMA HalvesOf ==
  ASSUME NEW m \in {2, 4, 16}, NEW a \in 0..m * m - 1
  PROVE  /\ a \div m \in 0..m - 1 /\ a % m \in 0..m - 1
         /\ a = m * (a \div m) + (a % m)
OBVIOUS

LEMMA OfHalves ==
  ASSUME NEW m \in {2, 4, 16}, NEW h \in 0..m - 1, NEW l \in 0..m - 1
  PROVE  /\ m * h + l \in 0..m * m - 1
         /\ (m * h + l) \div m = h /\ (m * h + l) % m = l
OBVIOUS

\* What doubles a table keeps the laws: bits need no more than a look.
LEMMA LawsDoubled ==
  ASSUME NEW m \in {2, 4, 16}, NEW table, IsGroup(table, 0..m - 1)
  PROVE  IsGroup(Doubled(table, m), 0..m * m - 1)
<1> DEFINE D == Doubled(table, m)
           M == 0..m * m - 1
           S == 0..m - 1
<1>t. /\ table \in [S -> [S -> S]]
      /\ \A a \in S : table[a][0] = a /\ table[a][a] = 0
      /\ \A a, c \in S : table[a][c] = table[c][a]
      /\ \A a, c, d \in S : table[table[a][c]][d] = table[a][table[c][d]]
  BY DEF IsGroup
<1>d. ASSUME NEW a \in M, NEW c \in M
      PROVE D[a][c] = m * table[a \div m][c \div m] + table[a % m][c % m]
  BY DEF Doubled
<1>m. ASSUME NEW a \in M
      PROVE a \div m \in S /\ a % m \in S /\ a = m * (a \div m) + (a % m)
  BY HalvesOf
<1>n. m \in {2, 4, 16} /\ 0 \in M /\ 0 \div m = 0 /\ 0 % m = 0 /\ m * 0 + 0 = 0 /\ 0 \in S
  OBVIOUS
<1>w. ASSUME NEW h \in S, NEW l \in S
      PROVE m * h + l \in M /\ (m * h + l) \div m = h /\ (m * h + l) % m = l
  BY OfHalves
<1>1. ASSUME NEW a \in M, NEW c \in M
      PROVE /\ D[a][c] \in M
            /\ D[a][c] \div m = table[a \div m][c \div m]
            /\ D[a][c] % m = table[a % m][c % m]
  <2> HIDE DEF M, D, S
  <2>1. table[a \div m][c \div m] \in S /\ table[a % m][c % m] \in S
    BY <1>m, <1>t
  <2> DEFINE h == table[a \div m][c \div m]
             l == table[a % m][c % m]
  <2>2. D[a][c] = m * h + l
    BY <1>d
  <2> HIDE DEF h, l
  <2>3. QED
    BY <2>1, <2>2, <1>w DEF h, l
<1>2. D \in [M -> [M -> M]]
  BY <1>1 DEF Doubled
<1>3. ASSUME NEW a \in M PROVE D[a][0] = a /\ D[a][a] = 0
  <2> HIDE DEF M, D, S
  <2>1. /\ table[a \div m][0] = a \div m /\ table[a % m][0] = a % m
        /\ table[a \div m][a \div m] = 0 /\ table[a % m][a % m] = 0
    BY <1>t, <1>m
  <2>2. D[a][0] = m * table[a \div m][0] + table[a % m][0]
    BY <1>n, <1>d
  <2>3. D[a][a] = m * 0 + 0
    BY <2>1, <1>d
  <2>4. QED
    BY <2>1, <2>2, <2>3, <1>m, <1>n
<1>4. ASSUME NEW a \in M, NEW c \in M PROVE D[a][c] = D[c][a]
  <2> HIDE DEF M, D, S
  <2>1. /\ table[a \div m][c \div m] = table[c \div m][a \div m]
        /\ table[a % m][c % m] = table[c % m][a % m]
    BY <1>t, <1>m
  <2>2. QED
    BY <2>1, <1>d
<1>5. ASSUME NEW a \in M, NEW c \in M, NEW d \in M PROVE D[D[a][c]][d] = D[a][D[c][d]]
  <2> HIDE DEF D, M, S
  <2>1. D[a][c] \in M /\ D[c][d] \in M
    BY <1>1
  <2>2. D[D[a][c]][d] = m * table[table[a \div m][c \div m]][d \div m]
                        + table[table[a % m][c % m]][d % m]
    BY <2>1, <1>1, <1>d
  <2>3. D[a][D[c][d]] = m * table[a \div m][table[c \div m][d \div m]]
                        + table[a % m][table[c % m][d % m]]
    BY <2>1, <1>1, <1>d
  <2>4. /\ a \div m \in S /\ c \div m \in S /\ d \div m \in S
        /\ a % m \in S /\ c % m \in S /\ d % m \in S
    BY <1>m
  <2>5. /\ table[table[a \div m][c \div m]][d \div m] = table[a \div m][table[c \div m][d \div m]]
        /\ table[table[a % m][c % m]][d % m] = table[a % m][table[c % m][d % m]]
    BY ONLY <1>t, <2>4
  <2>6. QED
    BY ONLY <2>2, <2>3, <2>5
<1>6. QED
  BY <1>2, <1>3, <1>4, <1>5 DEF IsGroup

\* Exclusive or of bytes is associative and commutative, and what is added twice
\* is gone.
LEMMA XorLaws ==
  /\ \A a, c \in U8 : a ^^ c \in U8 /\ a ^^ c = c ^^ a
  /\ \A a \in U8 : a ^^ 0 = a /\ a ^^ a = 0
  /\ \A a, c, d \in U8 : (a ^^ c) ^^ d = a ^^ (c ^^ d)
<1>1. IsGroup(OfBits, 0..1)
  BY DEF IsGroup, OfBits
<1>2. /\ 0..1 = 0..2 - 1 /\ 0..2 * 2 - 1 = 0..4 - 1
      /\ 0..4 * 4 - 1 = 0..16 - 1 /\ 0..16 * 16 - 1 = U8
  BY DEF U8
<1>3. IsGroup(OfPairs, 0..4 - 1)
  BY <1>1, <1>2, LawsDoubled DEF OfPairs
<1>4. IsGroup(OfNibbles, 0..16 - 1)
  BY <1>2, <1>3, LawsDoubled DEF OfNibbles
<1>5. IsGroup(OfBytes, U8)
  BY <1>2, <1>4, LawsDoubled DEF OfBytes
<1>6. /\ OfBytes \in [U8 -> [U8 -> U8]]
      /\ \A a \in U8 : OfBytes[a][0] = a /\ OfBytes[a][a] = 0
      /\ \A a, c \in U8 : OfBytes[a][c] = OfBytes[c][a]
      /\ \A a, c, d \in U8 : OfBytes[OfBytes[a][c]][d] = OfBytes[a][OfBytes[c][d]]
  BY <1>5 DEF IsGroup
<1>7. QED
  BY <1>6 DEF ^^

----------------------------------------------------------------------------
(* Columns                                                                 *)

Col == [1..4 -> U8]

\* What is computed of the tables.
LEMMA Tables ==
  /\ fbsub \in [U8 -> U8] /\ rbsub \in [U8 -> U8]
  /\ \A a \in U8 : rbsub[fbsub[a]] = a /\ fbsub[rbsub[a]] = a
  /\ \A a \in U8 : xtime(a) \in U8
  /\ \A a, c \in U8 : xtime(a ^^ c) = xtime(a) ^^ xtime(c)
  /\ \A n \in 0..Nr - 1 : rco[n] \in U8
  /\ \A q \in 1..4 : \A a, c \in U8 :
       bmul(InCo[q], a) \in U8 /\ bmul(InCo[q], a ^^ c) = bmul(InCo[q], a) ^^ bmul(InCo[q], c)
  /\ \A a \in U8, m \in 1..4 : /\ InvMixCol(Mixed(Single(a, m))) = Single(a, m)
                               /\ Mixed(InvMixCol(Single(a, m))) = Single(a, m)
BY TablesAssumption

\* The coefficients of InvMixCol() multiply sums term by term.
LEMMA Products ==
  ASSUME NEW q \in 1..4, NEW a \in U8, NEW c \in U8
  PROVE  /\ bmul(InCo[q], a) \in U8
         /\ bmul(InCo[q], a ^^ c) = bmul(InCo[q], a) ^^ bmul(InCo[q], c)
BY Tables

\* Sums of four bytes.
LEMMA Xor4Type ==
  ASSUME NEW a \in U8, NEW c \in U8, NEW d \in U8, NEW e \in U8
  PROVE  Xor4(a, c, d, e) \in U8
BY XorLaws DEF Xor4

LEMMA Interchange ==
  ASSUME NEW a \in U8, NEW c \in U8, NEW d \in U8, NEW e \in U8
  PROVE  (a ^^ c) ^^ (d ^^ e) = (a ^^ d) ^^ (c ^^ e)
<1>1. (a ^^ c) ^^ (d ^^ e) = a ^^ (c ^^ (d ^^ e))
  BY XorLaws
<1>2. c ^^ (d ^^ e) = (c ^^ d) ^^ e /\ (c ^^ d) ^^ e = (d ^^ c) ^^ e
  BY XorLaws
<1>3. (d ^^ c) ^^ e = d ^^ (c ^^ e)
  BY XorLaws
<1>4. a ^^ (d ^^ (c ^^ e)) = (a ^^ d) ^^ (c ^^ e)
  BY XorLaws
<1>5. QED
  BY <1>1, <1>2, <1>3, <1>4

LEMMA Xor4Sum ==
  ASSUME NEW v \in Col, NEW w \in Col
  PROVE  Xor4(v[1] ^^ w[1], v[2] ^^ w[2], v[3] ^^ w[3], v[4] ^^ w[4])
           = Xor4(v[1], v[2], v[3], v[4]) ^^ Xor4(w[1], w[2], w[3], w[4])
<1>b. \A n \in 1..4 : v[n] \in U8 /\ w[n] \in U8
  BY DEF Col
<1>1. (v[1] ^^ w[1]) ^^ (v[2] ^^ w[2]) = (v[1] ^^ v[2]) ^^ (w[1] ^^ w[2])
  BY <1>b, Interchange
<1>s. \A x, y \in U8 : x ^^ y \in U8
  BY XorLaws
<1>t. v[1] ^^ v[2] \in U8 /\ w[1] ^^ w[2] \in U8
  BY <1>b, <1>s
<1>u. (v[1] ^^ v[2]) ^^ v[3] \in U8 /\ (w[1] ^^ w[2]) ^^ w[3] \in U8
  BY <1>b, <1>s, <1>t
<1>2. ((v[1] ^^ v[2]) ^^ (w[1] ^^ w[2])) ^^ (v[3] ^^ w[3])
        = ((v[1] ^^ v[2]) ^^ v[3]) ^^ ((w[1] ^^ w[2]) ^^ w[3])
  BY <1>b, <1>t, <1>u, Interchange
<1>3. (((v[1] ^^ v[2]) ^^ v[3]) ^^ ((w[1] ^^ w[2]) ^^ w[3])) ^^ (v[4] ^^ w[4])
        = (((v[1] ^^ v[2]) ^^ v[3]) ^^ v[4]) ^^ (((w[1] ^^ w[2]) ^^ w[3]) ^^ w[4])
  BY <1>b, <1>t, <1>u, Interchange
<1>4. QED
  BY <1>1, <1>2, <1>3 DEF Xor4

\* Words.
LEMMA XorWordsType ==
  ASSUME NEW v \in Col, NEW w \in Col
  PROVE  XorWords(v, w) \in Col /\ \A q \in 1..4 : XorWords(v, w)[q] = v[q] ^^ w[q]
BY XorLaws DEF XorWords, Col

LEMMA XorWordsSwap ==
  ASSUME NEW v \in Col, NEW w \in Col
  PROVE  XorWords(v, w) = XorWords(w, v)
<1>1. \A q \in 1..4 : v[q] ^^ w[q] = w[q] ^^ v[q]
  BY XorLaws DEF Col
<1>2. QED
  BY <1>1 DEF XorWords

\* What is added twice is gone.
LEMMA XorWordsUndoes ==
  ASSUME NEW v \in Col, NEW w \in Col
  PROVE  XorWords(XorWords(v, w), w) = v /\ XorWords(w, XorWords(v, w)) = v
<1>1. ASSUME NEW q \in 1..4 PROVE (v[q] ^^ w[q]) ^^ w[q] = v[q] /\ w[q] ^^ (v[q] ^^ w[q]) = v[q]
  <2>1. v[q] \in U8 /\ w[q] \in U8
    BY DEF Col
  <2>2. (v[q] ^^ w[q]) ^^ w[q] = v[q]
    BY <2>1, XorLaws
  <2>3. QED
    BY <2>1, <2>2, XorLaws
<1>2. v = [q \in 1..4 |-> v[q]]
  BY DEF Col
<1>3. QED
  BY <1>1, <1>2 DEF XorWords

LEMMA RotateType ==
  ASSUME NEW w \in Col, NEW n \in 0..3
  PROVE  RotateWord(w, n) \in Col
BY DEF RotateWord, Col

\* The coefficient of byte n in byte q.
Co(q, n) == InCo[1 + ((n - 1 - q) % 4)]

LEMMA CoType ==
  ASSUME NEW q \in 1..4, NEW n \in 1..4
  PROVE  /\ \E p \in 1..4 : Co(q, n) = InCo[p]
         /\ RotateWord(InCo, 3 * (4 - q))[n] = Co(q, n)
         /\ InCo[5 - (1 + ((q - 1 - (n - 1)) % 4))] = Co(q, n)
<1>1. 1 + ((n - 1 - q) % 4) \in 1..4
  OBVIOUS
<1>2. 1 + ((n - 1 - 3 * (4 - q)) % 4) = 1 + ((n - 1 - q) % 4)
  OBVIOUS
<1>3. 5 - (1 + ((q - 1 - (n - 1)) % 4)) = 1 + ((n - 1 - q) % 4)
  OBVIOUS
<1>4. QED
  BY <1>1, <1>2, <1>3 DEF Co, RotateWord

LEMMA CoProducts ==
  ASSUME NEW q \in 1..4, NEW n \in 1..4, NEW a \in U8, NEW c \in U8
  PROVE  /\ bmul(Co(q, n), a) \in U8 /\ bmul(Co(q, n), c) \in U8
         /\ bmul(Co(q, n), a ^^ c) = bmul(Co(q, n), a) ^^ bmul(Co(q, n), c)
<1>1. PICK p \in 1..4 : Co(q, n) = InCo[p]
  BY CoType
<1>2. /\ bmul(InCo[p], a) \in U8 /\ bmul(InCo[p], c) \in U8
      /\ bmul(InCo[p], a ^^ c) = bmul(InCo[p], a) ^^ bmul(InCo[p], c)
  BY Products
<1>3. QED
  BY <1>1, <1>2

\* InvMixCol() byte by byte.
LEMMA InvMixColAt ==
  ASSUME NEW w \in Col
  PROVE  /\ InvMixCol(w) \in Col
         /\ \A q \in 1..4 :
              InvMixCol(w)[q] = Xor4(bmul(Co(q, 1), w[1]), bmul(Co(q, 2), w[2]),
                                     bmul(Co(q, 3), w[3]), bmul(Co(q, 4), w[4]))
<1>1. ASSUME NEW q \in 1..4
      PROVE  /\ InvMixCol(w)[q] = Xor4(bmul(Co(q, 1), w[1]), bmul(Co(q, 2), w[2]),
                                       bmul(Co(q, 3), w[3]), bmul(Co(q, 4), w[4]))
             /\ InvMixCol(w)[q] \in U8
  <2>1. InvMixCol(w)[q] = product(RotateWord(InCo, 3 * (4 - q)), w)
    BY DEF InvMixCol
  <2>2. \A n \in 1..4 : RotateWord(InCo, 3 * (4 - q))[n] = Co(q, n)
    BY CoType
  <2>3. \A n \in 1..4 : bmul(Co(q, n), w[n]) \in U8
    BY CoProducts DEF Col
  <2>4. QED
    BY <2>1, <2>2, <2>3, Xor4Type DEF product
<1>2. QED
  BY <1>1 DEF InvMixCol, Col

LEMMA InvMixColSum ==
  ASSUME NEW v \in Col, NEW w \in Col
  PROVE  InvMixCol(XorWords(v, w)) = XorWords(InvMixCol(v), InvMixCol(w))
<1>1. ASSUME NEW q \in 1..4
      PROVE InvMixCol(XorWords(v, w))[q] = InvMixCol(v)[q] ^^ InvMixCol(w)[q]
  <2>1. ASSUME NEW n \in 1..4
        PROVE /\ bmul(Co(q, n), v[n] ^^ w[n]) = bmul(Co(q, n), v[n]) ^^ bmul(Co(q, n), w[n])
              /\ bmul(Co(q, n), v[n]) \in U8 /\ bmul(Co(q, n), w[n]) \in U8
    <3>1. v[n] \in U8 /\ w[n] \in U8
      BY DEF Col
    <3>2. QED
      BY <3>1, CoProducts
  <2>2. \A n \in 1..4 : XorWords(v, w)[n] = v[n] ^^ w[n]
    BY XorWordsType
  <2>3. InvMixCol(XorWords(v, w))[q] =
          Xor4(bmul(Co(q, 1), v[1] ^^ w[1]), bmul(Co(q, 2), v[2] ^^ w[2]),
               bmul(Co(q, 3), v[3] ^^ w[3]), bmul(Co(q, 4), v[4] ^^ w[4]))
    BY <2>2, XorWordsType, InvMixColAt
  <2> DEFINE V == [n \in 1..4 |-> bmul(Co(q, n), v[n])]
             W == [n \in 1..4 |-> bmul(Co(q, n), w[n])]
  <2>4. InvMixCol(v)[q] = Xor4(V[1], V[2], V[3], V[4])
        /\ InvMixCol(w)[q] = Xor4(W[1], W[2], W[3], W[4])
    BY InvMixColAt
  <2>5. InvMixCol(XorWords(v, w))[q]
          = Xor4(V[1] ^^ W[1], V[2] ^^ W[2], V[3] ^^ W[3], V[4] ^^ W[4])
    BY <2>1, <2>3
  <2>6. V \in Col /\ W \in Col
    BY <2>1 DEF Col
  <2> HIDE DEF V, W
  <2>7. QED
    BY <2>4, <2>5, <2>6, Xor4Sum
<1>2. InvMixCol(XorWords(v, w)) \in Col /\ InvMixCol(v) \in Col /\ InvMixCol(w) \in Col
  BY InvMixColAt, XorWordsType
<1>3. QED
  BY <1>1, <1>2 DEF XorWords, Col

\* A column of encryption's tables.
LEMMA ColumnType ==
  ASSUME NEW y \in U8
  PROVE  Column(y) \in Col
<1>1. xtime(y) \in U8 /\ y ^^ xtime(y) \in U8
  BY Tables, XorLaws
<1>2. QED
  BY <1>1 DEF Column, Col

LEMMA ColumnSum ==
  ASSUME NEW y \in U8, NEW z \in U8
  PROVE  \A q \in 1..4 : Column(y ^^ z)[q] = Column(y)[q] ^^ Column(z)[q]
<1>1. xtime(y ^^ z) = xtime(y) ^^ xtime(z) /\ xtime(y) \in U8 /\ xtime(z) \in U8
  BY Tables
<1>2. (y ^^ z) ^^ (xtime(y) ^^ xtime(z)) = (y ^^ xtime(y)) ^^ (z ^^ xtime(z))
  BY <1>1, Interchange
<1>3. QED
  BY <1>1, <1>2 DEF Column

\* The place of byte n of a word in the sum for byte q.
Part(w, n, q) == Column(w[n])[1 + ((q - 1 - (n - 1)) % 4)]

LEMMA PartType ==
  ASSUME NEW w \in Col, NEW n \in 1..4, NEW q \in 1..4
  PROVE  Part(w, n, q) \in U8
<1>1. 1 + ((q - 1 - (n - 1)) % 4) \in 1..4
  OBVIOUS
<1>2. w[n] \in U8
  BY DEF Col
<1>3. Column(w[n]) \in Col
  BY <1>2, ColumnType
<1>4. QED
  BY <1>1, <1>3 DEF Part, Col

LEMMA MixedAt ==
  ASSUME NEW w \in Col
  PROVE  /\ Mixed(w) \in Col
         /\ \A q \in 1..4 :
              Mixed(w)[q] = Xor4(Part(w, 1, q), Part(w, 2, q), Part(w, 3, q), Part(w, 4, q))
<1>1. ASSUME NEW q \in 1..4
      PROVE /\ Mixed(w)[q] = Xor4(Part(w, 1, q), Part(w, 2, q), Part(w, 3, q), Part(w, 4, q))
            /\ Mixed(w)[q] \in U8
  <2>1. 1 - 1 = 0 /\ 2 - 1 = 1 /\ 3 - 1 = 2 /\ 4 - 1 = 3
    OBVIOUS
  <2>2. \A n \in 1..4 : RotateWord(Column(w[n]), n - 1)[q] = Part(w, n, q)
    BY DEF RotateWord, Part
  <2>3. Mixed(w)[q] = Xor4(Part(w, 1, q), Part(w, 2, q), Part(w, 3, q), Part(w, 4, q))
    BY <2>1, <2>2 DEF Mixed
  <2>4. QED
    BY <2>3, PartType, Xor4Type
<1>2. QED
  BY <1>1 DEF Mixed, Col

LEMMA MixedSum ==
  ASSUME NEW v \in Col, NEW w \in Col
  PROVE  Mixed(XorWords(v, w)) = XorWords(Mixed(v), Mixed(w))
<1>1. ASSUME NEW q \in 1..4 PROVE Mixed(XorWords(v, w))[q] = Mixed(v)[q] ^^ Mixed(w)[q]
  <2> DEFINE V == [n \in 1..4 |-> Part(v, n, q)]
             W == [n \in 1..4 |-> Part(w, n, q)]
  <2>1. ASSUME NEW n \in 1..4
        PROVE Part(XorWords(v, w), n, q) = Part(v, n, q) ^^ Part(w, n, q)
    <3>1. v[n] \in U8 /\ w[n] \in U8 /\ XorWords(v, w)[n] = v[n] ^^ w[n]
      BY XorWordsType DEF Col
    <3>2. 1 + ((q - 1 - (n - 1)) % 4) \in 1..4
      OBVIOUS
    <3>3. QED
      BY <3>1, <3>2, ColumnSum DEF Part
  <2>2. Mixed(XorWords(v, w))[q]
          = Xor4(V[1] ^^ W[1], V[2] ^^ W[2], V[3] ^^ W[3], V[4] ^^ W[4])
    BY <2>1, XorWordsType, MixedAt
  <2>3. Mixed(v)[q] = Xor4(V[1], V[2], V[3], V[4]) /\ Mixed(w)[q] = Xor4(W[1], W[2], W[3], W[4])
    BY MixedAt
  <2>4. V \in Col /\ W \in Col
    BY PartType DEF Col
  <2> HIDE DEF V, W
  <2>5. QED
    BY <2>2, <2>3, <2>4, Xor4Sum
<1>2. Mixed(XorWords(v, w)) \in Col /\ Mixed(v) \in Col /\ Mixed(w) \in Col
  BY MixedAt, XorWordsType
<1>3. QED
  BY <1>1, <1>2 DEF XorWords, Col

\* A word is the sum of its bytes.
Summed(x, y, z, w) == XorWords(XorWords(XorWords(x, y), z), w)

LEMMA SummedType ==
  ASSUME NEW x \in Col, NEW y \in Col, NEW z \in Col, NEW w \in Col
  PROVE  Summed(x, y, z, w) \in Col
BY XorWordsType DEF Summed

LEMMA WordOfSingles ==
  ASSUME NEW w \in Col
  PROVE  /\ \A m \in 1..4 : Single(w[m], m) \in Col
         /\ Summed(Single(w[1], 1), Single(w[2], 2), Single(w[3], 3), Single(w[4], 4)) = w
<1>1. ASSUME NEW m \in 1..4 PROVE Single(w[m], m) \in Col
  <2>1. w[m] \in U8 /\ 0 \in U8
    BY DEF Col, U8
  <2>2. QED
    BY <2>1 DEF Single, Col
<1>2. ASSUME NEW q \in 1..4
      PROVE Xor4(Single(w[1], 1)[q], Single(w[2], 2)[q], Single(w[3], 3)[q], Single(w[4], 4)[q])
              = w[q]
  <2>1. w[q] \in U8 /\ 0 \in U8
    BY DEF Col, U8
  <2>2. w[q] ^^ 0 = w[q] /\ 0 ^^ w[q] = w[q] /\ 0 ^^ 0 = 0
    BY <2>1, XorLaws
  <2>3. QED
    BY <2>2 DEF Xor4, Single
<1>3. Summed(Single(w[1], 1), Single(w[2], 2), Single(w[3], 3), Single(w[4], 4))
        = [q \in 1..4 |-> w[q]]
  BY <1>2 DEF XorWords, Summed, Xor4
<1>4. w = [q \in 1..4 |-> w[q]]
  BY DEF Col
<1>5. QED
  BY <1>1, <1>3, <1>4

LEMMA InvMixColSummed ==
  ASSUME NEW x \in Col, NEW y \in Col, NEW z \in Col, NEW w \in Col
  PROVE  /\ InvMixCol(Summed(x, y, z, w))
              = Summed(InvMixCol(x), InvMixCol(y), InvMixCol(z), InvMixCol(w))
         /\ Mixed(Summed(x, y, z, w)) = Summed(Mixed(x), Mixed(y), Mixed(z), Mixed(w))
<1>1. XorWords(x, y) \in Col /\ XorWords(XorWords(x, y), z) \in Col
  BY XorWordsType
<1>2. InvMixCol(Summed(x, y, z, w))
        = Summed(InvMixCol(x), InvMixCol(y), InvMixCol(z), InvMixCol(w))
  BY <1>1, InvMixColSum DEF Summed
<1>3. Mixed(Summed(x, y, z, w)) = Summed(Mixed(x), Mixed(y), Mixed(z), Mixed(w))
  BY <1>1, MixedSum DEF Summed
<1>4. QED
  BY <1>2, <1>3

\* InvMixCol() and the mixing of encryption's tables undo one another, as they do
\* for words of one byte and the zeros.
LEMMA MixingUndoes ==
  ASSUME NEW w \in Col
  PROVE  /\ Mixed(w) \in Col /\ InvMixCol(w) \in Col
         /\ InvMixCol(Mixed(w)) = w /\ Mixed(InvMixCol(w)) = w
<1> DEFINE I(m) == Single(w[m], m)
<1>1. ASSUME NEW m \in 1..4
      PROVE /\ I(m) \in Col /\ Mixed(I(m)) \in Col /\ InvMixCol(I(m)) \in Col
            /\ InvMixCol(Mixed(I(m))) = I(m) /\ Mixed(InvMixCol(I(m))) = I(m)
  <2>1. I(m) \in Col /\ w[m] \in U8
    BY WordOfSingles DEF Col
  <2>2. QED
    BY <2>1, Tables, MixedAt, InvMixColAt
<1>2. w = Summed(I(1), I(2), I(3), I(4))
  BY WordOfSingles
<1> HIDE DEF I
<1>3. /\ I(1) \in Col /\ I(2) \in Col /\ I(3) \in Col /\ I(4) \in Col
      /\ Mixed(I(1)) \in Col /\ Mixed(I(2)) \in Col /\ Mixed(I(3)) \in Col /\ Mixed(I(4)) \in Col
      /\ InvMixCol(I(1)) \in Col /\ InvMixCol(I(2)) \in Col
      /\ InvMixCol(I(3)) \in Col /\ InvMixCol(I(4)) \in Col
  BY <1>1
<1>4. InvMixCol(Mixed(w)) = w
  <2>1. Mixed(Summed(I(1), I(2), I(3), I(4)))
          = Summed(Mixed(I(1)), Mixed(I(2)), Mixed(I(3)), Mixed(I(4)))
    BY ONLY <1>3, InvMixColSummed
  <2>2. InvMixCol(Summed(Mixed(I(1)), Mixed(I(2)), Mixed(I(3)), Mixed(I(4))))
          = Summed(InvMixCol(Mixed(I(1))), InvMixCol(Mixed(I(2))),
                   InvMixCol(Mixed(I(3))), InvMixCol(Mixed(I(4))))
    BY ONLY <1>3, InvMixColSummed
  <2>3. /\ InvMixCol(Mixed(I(1))) = I(1) /\ InvMixCol(Mixed(I(2))) = I(2)
        /\ InvMixCol(Mixed(I(3))) = I(3) /\ InvMixCol(Mixed(I(4))) = I(4)
    BY <1>1
  <2>4. QED
    BY ONLY <1>2, <2>1, <2>2, <2>3
<1>5. Mixed(InvMixCol(w)) = w
  <2>1. InvMixCol(Summed(I(1), I(2), I(3), I(4)))
          = Summed(InvMixCol(I(1)), InvMixCol(I(2)), InvMixCol(I(3)), InvMixCol(I(4)))
    BY ONLY <1>3, InvMixColSummed
  <2>2. Mixed(Summed(InvMixCol(I(1)), InvMixCol(I(2)), InvMixCol(I(3)), InvMixCol(I(4))))
          = Summed(Mixed(InvMixCol(I(1))), Mixed(InvMixCol(I(2))),
                   Mixed(InvMixCol(I(3))), Mixed(InvMixCol(I(4))))
    BY ONLY <1>3, InvMixColSummed
  <2>3. /\ Mixed(InvMixCol(I(1))) = I(1) /\ Mixed(InvMixCol(I(2))) = I(2)
        /\ Mixed(InvMixCol(I(3))) = I(3) /\ Mixed(InvMixCol(I(4))) = I(4)
    BY <1>1
  <2>4. QED
    BY ONLY <1>2, <2>1, <2>2, <2>3
<1>6. QED
  BY <1>4, <1>5, MixedAt, InvMixColAt

----------------------------------------------------------------------------
(* Rounds                                                                  *)

State == [0..Nb - 1 -> Col]

\* The words that a round picks, each byte through a table.
Sub(s, table, way) ==
  [j \in 0..Nb - 1 |-> [q \in 1..4 |-> table[s[(j + way * (q - 1)) % Nb][q]]]]

\* The words of round n of the key are added.
AddKey(s, keys, n) == [j \in 0..Nb - 1 |-> XorWords(s[j], keys[Nb * n + j])]

MixAll(s) == [j \in 0..Nb - 1 |-> Mixed(s[j])]
UnmixAll(s) == [j \in 0..Nb - 1 |-> InvMixCol(s[j])]

KeyWords == [0..N - 1 -> Col]

LEMMA KeyWordAt ==
  ASSUME NEW n \in 0..Nr, NEW j \in 0..Nb - 1, NEW keys \in KeyWords
  PROVE  Nb * n + j \in 0..N - 1 /\ keys[Nb * n + j] \in Col
<1>1. Nb * n + j \in 0..N - 1
  BY DEF Nb, Nr, N
<1>2. QED
  BY <1>1 DEF KeyWords

LEMMA SameState ==
  ASSUME NEW s \in State, NEW t \in State,
         \A j \in 0..Nb - 1, q \in 1..4 : s[j][q] = t[j][q]
  PROVE  s = t
<1>1. ASSUME NEW j \in 0..Nb - 1 PROVE s[j] = t[j]
  <2>1. s[j] \in Col /\ t[j] \in Col
    BY DEF State
  <2>2. QED
    BY <2>1 DEF Col
<1>2. s = [j \in 0..Nb - 1 |-> s[j]] /\ t = [j \in 0..Nb - 1 |-> t[j]]
  BY DEF State
<1>3. [j \in 0..Nb - 1 |-> s[j]] = [j \in 0..Nb - 1 |-> t[j]]
  BY <1>1
<1>4. QED
  BY <1>2, <1>3

LEMMA SubType ==
  ASSUME NEW s \in State, NEW way \in {-1, 1}
  PROVE  Sub(s, fbsub, way) \in State /\ Sub(s, rbsub, way) \in State
<1>1. ASSUME NEW j \in 0..Nb - 1, NEW q \in 1..4
      PROVE s[(j + way * (q - 1)) % Nb][q] \in U8
  <2>1. (j + way * (q - 1)) % Nb \in 0..Nb - 1
    BY DEF Nb
  <2>2. QED
    BY <2>1 DEF State, Col
<1>2. fbsub \in [U8 -> U8] /\ rbsub \in [U8 -> U8]
  BY Tables
<1>3. QED
  BY <1>1, <1>2 DEF Sub, State, Col

\* Bytes that were replaced and moved by one direction are found by the other.
LEMMA SubUndoes ==
  ASSUME NEW s \in State, NEW way \in {-1, 1}, NEW back \in {-1, 1}, way + back = 0,
         NEW table \in {fbsub, rbsub}, NEW other \in {fbsub, rbsub},
         \A a \in U8 : other[table[a]] = a
  PROVE  Sub(Sub(s, table, way), other, back) = s
<1>1. ASSUME NEW j \in 0..Nb - 1, NEW q \in 1..4
      PROVE Sub(Sub(s, table, way), other, back)[j][q] = s[j][q]
  <2> DEFINE i == (j + back * (q - 1)) % Nb
  <2>1. i \in 0..Nb - 1 /\ (i + way * (q - 1)) % Nb = j
    BY DEF Nb
  <2> HIDE DEF i
  <2>2. Sub(s, table, way)[i][q] = table[s[j][q]]
    BY <2>1 DEF Sub
  <2>3. Sub(Sub(s, table, way), other, back)[j][q] = other[Sub(s, table, way)[i][q]]
    BY DEF Sub, i
  <2>4. s[j][q] \in U8
    BY DEF State, Col
  <2>5. QED
    BY <2>2, <2>3, <2>4
<1>2. Sub(Sub(s, table, way), other, back) \in State
  <2>1. Sub(s, table, way) \in State
    BY SubType
  <2>2. QED
    BY <2>1, SubType
<1>3. QED
  BY <1>1, <1>2, SameState

LEMMA AddKeyUndoes ==
  ASSUME NEW s \in State, NEW keys \in KeyWords, NEW n \in 0..Nr
  PROVE  AddKey(s, keys, n) \in State /\ AddKey(AddKey(s, keys, n), keys, n) = s
<1>1. ASSUME NEW j \in 0..Nb - 1
      PROVE /\ XorWords(s[j], keys[Nb * n + j]) \in Col
            /\ XorWords(XorWords(s[j], keys[Nb * n + j]), keys[Nb * n + j]) = s[j]
  <2>1. s[j] \in Col /\ keys[Nb * n + j] \in Col
    BY KeyWordAt DEF State
  <2>2. QED
    BY <2>1, XorWordsType, XorWordsUndoes
<1>2. s = [j \in 0..Nb - 1 |-> s[j]]
  BY DEF State
<1>3. QED
  BY <1>1, <1>2 DEF AddKey, State

LEMMA MixUndoes ==
  ASSUME NEW s \in State
  PROVE  /\ MixAll(s) \in State /\ UnmixAll(s) \in State
         /\ UnmixAll(MixAll(s)) = s /\ MixAll(UnmixAll(s)) = s
<1>1. ASSUME NEW j \in 0..Nb - 1
      PROVE /\ Mixed(s[j]) \in Col /\ InvMixCol(s[j]) \in Col
            /\ InvMixCol(Mixed(s[j])) = s[j] /\ Mixed(InvMixCol(s[j])) = s[j]
  <2>1. s[j] \in Col
    BY DEF State
  <2>2. QED
    BY <2>1, MixingUndoes
<1>2. s = [j \in 0..Nb - 1 |-> s[j]]
  BY DEF State
<1>3. QED
  BY <1>1, <1>2 DEF MixAll, UnmixAll, State

\* A round of encryption.
LEMMA TableRoundIs ==
  ASSUME text \in State, fkey \in KeyWords, round \in 0..Nr
  PROVE  TableRound(ftable, fkey, 1) = AddKey(MixAll(Sub(text, fbsub, 1)), fkey, round)
<1> DEFINE s == Sub(text, fbsub, 1)
           B(j, q) == Picked(j, 1)[q]
<1>1. s \in State /\ MixAll(s) \in State
  BY SubType, MixUndoes
<1>2. ASSUME NEW j \in 0..Nb - 1, NEW q \in 1..4
      PROVE /\ RotateWord(ftable[B(j, q)], q - 1) = RotateWord(Column(s[j][q]), q - 1)
            /\ s[j][q] \in U8
  <2>1. B(j, q) \in U8
    <3>1. (j + 1 * (q - 1)) % Nb \in 0..Nb - 1
      BY DEF Nb
    <3>2. QED
      BY <3>1 DEF Picked, State, Col
  <2>2. s[j][q] = fbsub[B(j, q)]
    BY DEF Sub, Picked
  <2>3. ftable[B(j, q)] = Column(s[j][q])
    BY <2>1, <2>2 DEF ftable, Column
  <2>4. QED
    BY <2>3, <1>1 DEF State, Col
<1>3. ASSUME NEW j \in 0..Nb - 1
      PROVE TableRound(ftable, fkey, 1)[j] = XorWords(MixAll(s)[j], fkey[Nb * round + j])
  <2> DEFINE w == [q \in 1..4 |-> RotateWord(ftable[B(j, q)], q - 1)]
             T(q) == Xor4(w[1][q], w[2][q], w[3][q], w[4][q])
  <2>1. TableRound(ftable, fkey, 1)[j] = [q \in 1..4 |-> fkey[Nb * round + j][q] ^^ T(q)]
    BY DEF TableRound
  <2>2. /\ w[1] = RotateWord(Column(s[j][1]), 0) /\ w[2] = RotateWord(Column(s[j][2]), 1)
        /\ w[3] = RotateWord(Column(s[j][3]), 2) /\ w[4] = RotateWord(Column(s[j][4]), 3)
    <3>1. \A q \in 1..4 : w[q] = RotateWord(Column(s[j][q]), q - 1)
      BY <1>2
    <3> HIDE DEF w
    <3>2. 1 - 1 = 0 /\ 2 - 1 = 1 /\ 3 - 1 = 2 /\ 4 - 1 = 3
      OBVIOUS
    <3>3. QED
      BY <3>1, <3>2
  <2> HIDE DEF w, s, B
  <2>3. \A q \in 1..4 : T(q) = Mixed(s[j])[q]
    BY <2>2 DEF Mixed
  <2>4. \A q \in 1..4 : fkey[Nb * round + j][q] \in U8 /\ Mixed(s[j])[q] \in U8
    BY <1>1, KeyWordAt, MixedAt DEF State, Col
  <2>5. \A q \in 1..4 : fkey[Nb * round + j][q] ^^ T(q) = Mixed(s[j])[q] ^^ fkey[Nb * round + j][q]
    BY <2>3, <2>4, XorLaws
  <2>6. MixAll(s)[j] = Mixed(s[j])
    BY DEF MixAll
  <2>7. QED
    BY <2>1, <2>5, <2>6 DEF XorWords
<1>4. TableRound(ftable, fkey, 1) = [j \in 0..Nb - 1 |-> TableRound(ftable, fkey, 1)[j]]
  BY DEF TableRound
<1>5. QED
  BY <1>3, <1>4 DEF AddKey

LEMMA LastRoundIs ==
  ASSUME text \in State, NEW keys \in KeyWords, round \in 0..Nr,
         NEW way \in {-1, 1}, NEW table \in {fbsub, rbsub}
  PROVE  LastRound(table, keys, way) = AddKey(Sub(text, table, way), keys, round)
<1> DEFINE s == Sub(text, table, way)
<1>1. s \in State
  BY SubType
<1>2. ASSUME NEW j \in 0..Nb - 1
      PROVE LastRound(table, keys, way)[j] = XorWords(s[j], keys[Nb * round + j])
  <2>1. s[j] = [q \in 1..4 |-> table[Picked(j, way)[q]]]
    BY DEF Sub, Picked
  <2>2. s[j] \in Col /\ keys[Nb * round + j] \in Col
    BY <1>1, KeyWordAt DEF State
  <2>3. LastRound(table, keys, way)[j] = XorWords(keys[Nb * round + j], s[j])
    BY <2>1 DEF LastRound
  <2>4. QED
    BY <2>2, <2>3, XorWordsSwap
<1>3. LastRound(table, keys, way) = [j \in 0..Nb - 1 |-> LastRound(table, keys, way)[j]]
  BY DEF LastRound
<1>4. QED
  BY <1>2, <1>3 DEF AddKey

\* A round of decryption.
LEMMA UntableRoundIs ==
  ASSUME text \in State, rkey \in KeyWords, round \in 0..Nr
  PROVE  TableRound(rtable, rkey, -1) = AddKey(UnmixAll(Sub(text, rbsub, -1)), rkey, round)
<1> DEFINE s == Sub(text, rbsub, -1)
           B(j, q) == Picked(j, -1)[q]
<1>1. s \in State /\ UnmixAll(s) \in State
  BY SubType, MixUndoes
<1>2. ASSUME NEW j \in 0..Nb - 1, NEW n \in 1..4, NEW q \in 1..4
      PROVE RotateWord(rtable[B(j, n)], n - 1)[q] = bmul(Co(q, n), s[j][n])
  <2>1. B(j, n) \in U8
    <3>1. (j + (-1) * (n - 1)) % Nb \in 0..Nb - 1
      BY DEF Nb
    <3>2. QED
      BY <3>1 DEF Picked, State, Col
  <2>2. s[j][n] = rbsub[B(j, n)]
    BY DEF Sub, Picked
  <2>3. 1 + ((q - 1 - (n - 1)) % 4) \in 1..4
    OBVIOUS
  <2>4. rtable[B(j, n)][1 + ((q - 1 - (n - 1)) % 4)]
          = bmul(InCo[5 - (1 + ((q - 1 - (n - 1)) % 4))], s[j][n])
    <3>1. ASSUME NEW a \in U8, NEW p \in 1..4
          PROVE rtable[a][p] = bmul(InCo[5 - p], rbsub[a])
      BY DEF rtable, bmul
    <3>2. QED
      BY <2>1, <2>2, <2>3, <3>1
  <2>5. QED
    BY <2>4, CoType DEF RotateWord
<1>3. ASSUME NEW j \in 0..Nb - 1
      PROVE TableRound(rtable, rkey, -1)[j] = XorWords(UnmixAll(s)[j], rkey[Nb * round + j])
  <2> DEFINE w == [q \in 1..4 |-> RotateWord(rtable[B(j, q)], q - 1)]
             T(q) == Xor4(w[1][q], w[2][q], w[3][q], w[4][q])
  <2>1. TableRound(rtable, rkey, -1)[j] = [q \in 1..4 |-> rkey[Nb * round + j][q] ^^ T(q)]
    BY DEF TableRound
  <2>2. \A q \in 1..4 : /\ w[1][q] = bmul(Co(q, 1), s[j][1]) /\ w[2][q] = bmul(Co(q, 2), s[j][2])
                        /\ w[3][q] = bmul(Co(q, 3), s[j][3]) /\ w[4][q] = bmul(Co(q, 4), s[j][4])
    <3>1. \A n, q \in 1..4 : w[n][q] = bmul(Co(q, n), s[j][n])
      BY <1>2
    <3> HIDE DEF w
    <3>2. QED
      BY <3>1
  <2> HIDE DEF w, s, B
  <2>3. s[j] \in Col
    BY <1>1 DEF State
  <2>4. \A q \in 1..4 : T(q) = InvMixCol(s[j])[q] /\ InvMixCol(s[j])[q] \in U8
    BY <2>2, <2>3, InvMixColAt DEF Col
  <2>5. \A q \in 1..4 : rkey[Nb * round + j][q] \in U8
    BY KeyWordAt DEF Col
  <2>6. \A q \in 1..4 :
          rkey[Nb * round + j][q] ^^ T(q) = InvMixCol(s[j])[q] ^^ rkey[Nb * round + j][q]
    BY <2>4, <2>5, XorLaws
  <2>7. UnmixAll(s)[j] = InvMixCol(s[j])
    BY DEF UnmixAll
  <2>8. QED
    BY <2>1, <2>6, <2>7 DEF XorWords
<1>4. TableRound(rtable, rkey, -1) = [j \in 0..Nb - 1 |-> TableRound(rtable, rkey, -1)[j]]
  BY DEF TableRound
<1>5. QED
  BY <1>3, <1>4 DEF AddKey

\* The keys of decryption: those of encryption from the last to the first, and
\* all but these two transformed.
LEMMA ReverseKeyIs ==
  ASSUME NEW keys \in KeyWords
  PROVE  /\ ReverseKey(keys) \in KeyWords
         /\ \A s \in State :
              /\ AddKey(s, ReverseKey(keys), 0) = AddKey(s, keys, Nr)
              /\ AddKey(s, ReverseKey(keys), Nr) = AddKey(s, keys, 0)
              /\ \A n \in 1..Nr - 1 :
                   AddKey(UnmixAll(s), ReverseKey(keys), n) = UnmixAll(AddKey(s, keys, Nr - n))
<1>1. ASSUME NEW n \in 0..Nr, NEW j \in 0..Nb - 1
      PROVE /\ Nb * n + j \in 0..N - 1
            /\ N - Nb - ((Nb * n + j) - ((Nb * n + j) % Nb)) + ((Nb * n + j) % Nb)
                 = Nb * (Nr - n) + j
            /\ (Nb * n + j < Nb \/ Nb * n + j >= N - Nb) <=> n \in {0, Nr}
  BY DEF N, Nb, Nr
<1>2. ASSUME NEW n \in 0..Nr, NEW j \in 0..Nb - 1
      PROVE ReverseKey(keys)[Nb * n + j] = IF n \in {0, Nr} THEN keys[Nb * (Nr - n) + j]
                                           ELSE InvMixCol(keys[Nb * (Nr - n) + j])
  BY <1>1 DEF ReverseKey
<1>3. ReverseKey(keys) \in KeyWords
  <2>1. ASSUME NEW m \in 0..N - 1
        PROVE /\ keys[N - Nb - (m - (m % Nb)) + (m % Nb)] \in Col
              /\ InvMixCol(keys[N - Nb - (m - (m % Nb)) + (m % Nb)]) \in Col
    <3>1. N - Nb - (m - (m % Nb)) + (m % Nb) \in 0..N - 1
      BY DEF N, Nb, Nr
    <3>2. QED
      BY <3>1, InvMixColAt DEF KeyWords
  <2>2. QED
    BY <2>1 DEF ReverseKey, KeyWords
<1>4. Nr \in 0..Nr /\ 0 \in 0..Nr /\ Nr - 0 = Nr /\ Nr - Nr = 0
  BY DEF Nr, Nb
<1>5. ASSUME NEW s \in State
      PROVE /\ AddKey(s, ReverseKey(keys), 0) = AddKey(s, keys, Nr)
            /\ AddKey(s, ReverseKey(keys), Nr) = AddKey(s, keys, 0)
  BY <1>2, <1>4 DEF AddKey
<1>6. ASSUME NEW s \in State, NEW n \in 1..Nr - 1
      PROVE AddKey(UnmixAll(s), ReverseKey(keys), n) = UnmixAll(AddKey(s, keys, Nr - n))
  <2>1. n \in 0..Nr /\ n \notin {0, Nr} /\ Nr - n \in 0..Nr
    BY DEF Nr, Nb
  <2>2. ASSUME NEW j \in 0..Nb - 1
        PROVE XorWords(InvMixCol(s[j]), ReverseKey(keys)[Nb * n + j])
                = InvMixCol(XorWords(s[j], keys[Nb * (Nr - n) + j]))
    <3>1. s[j] \in Col /\ keys[Nb * (Nr - n) + j] \in Col
      BY <2>1, KeyWordAt DEF State
    <3>2. QED
      BY <2>1, <3>1, <1>2, InvMixColSum
  <2>3. QED
    BY <2>2 DEF AddKey, UnmixAll
<1>7. QED
  BY <1>3, <1>5, <1>6

----------------------------------------------------------------------------
(* Both directions                                                         *)

Calls == {"encrypt", "decrypt"}
Other(d) == IF d = "encrypt" THEN "decrypt" ELSE "encrypt"

\* What encrypt() and decrypt() do to a block by the keys w of encryption: at first,
\* in round n, and in the last round. The other direction meets a block when its bytes
\* were replaced and moved, but the key not added yet.
Half(d, s) == IF d = "encrypt" THEN Sub(s, fbsub, 1) ELSE Sub(s, rbsub, -1)
Opening(d, w, s) == AddKey(s, w, IF d = "encrypt" THEN 0 ELSE Nr)
Middle(d, w, s, n) ==
  IF d = "encrypt" THEN AddKey(MixAll(Half(d, s)), w, n)
  ELSE UnmixAll(AddKey(Half(d, s), w, Nr - n))
Closing(d, w, s) == AddKey(Half(d, s), w, IF d = "encrypt" THEN Nr ELSE 0)

LEMMA Others ==
  ASSUME NEW d \in Calls
  PROVE  Other(d) \in Calls /\ Other(Other(d)) = d /\ Other(d) # d
BY DEF Calls, Other

LEMMA HalfUndoes ==
  ASSUME NEW d \in Calls, NEW s \in State
  PROVE  Half(d, s) \in State /\ Half(Other(d), Half(d, s)) = s
<1>1. /\ \A a \in U8 : rbsub[fbsub[a]] = a
      /\ \A a \in U8 : fbsub[rbsub[a]] = a
  BY Tables
<1>2. /\ 1 + (-1) = 0 /\ (-1) + 1 = 0 /\ -1 \in {-1, 1} /\ 1 \in {-1, 1}
      /\ fbsub \in {fbsub, rbsub} /\ rbsub \in {fbsub, rbsub}
  OBVIOUS
<1>3. Sub(Sub(s, fbsub, 1), rbsub, -1) = s
  BY <1>1, <1>2, SubUndoes
<1>4. Sub(Sub(s, rbsub, -1), fbsub, 1) = s
  BY <1>1, <1>2, SubUndoes
<1>5. Sub(s, fbsub, 1) \in State /\ Sub(s, rbsub, -1) \in State
  BY SubType
<1>6. QED
  BY <1>2, <1>3, <1>4, <1>5 DEF Half, Other, Calls

LEMMA CallTypes ==
  ASSUME NEW d \in Calls, NEW w \in KeyWords, NEW s \in State
  PROVE  /\ Opening(d, w, s) \in State /\ Closing(d, w, s) \in State
         /\ \A n \in 1..Nr - 1 : Middle(d, w, s, n) \in State
<1>1. 0 \in 0..Nr /\ Nr \in 0..Nr /\ \A n \in 1..Nr - 1 : n \in 0..Nr /\ Nr - n \in 0..Nr
  BY DEF Nr, Nb
<1>2. Half(d, s) \in State
  BY HalfUndoes
<1>3. Opening(d, w, s) \in State /\ Closing(d, w, s) \in State
  BY <1>1, <1>2, AddKeyUndoes DEF Opening, Closing
<1>4. ASSUME NEW n \in 1..Nr - 1 PROVE Middle(d, w, s, n) \in State
  <2>1. MixAll(Half(d, s)) \in State
    BY <1>2, MixUndoes
  <2>2. AddKey(MixAll(Half(d, s)), w, n) \in State /\ AddKey(Half(d, s), w, Nr - n) \in State
    BY <1>1, <1>2, <2>1, AddKeyUndoes
  <2>3. QED
    BY <2>2, MixUndoes DEF Middle
<1>5. QED
  BY <1>3, <1>4

\* The first step of one direction undoes the last of the other, and so on.
LEMMA OpeningUndoes ==
  ASSUME NEW d \in Calls, NEW w \in KeyWords, NEW s \in State
  PROVE  Opening(Other(d), w, Closing(d, w, s)) = Half(d, s)
<1>1. 0 \in 0..Nr /\ Nr \in 0..Nr /\ Half(d, s) \in State
  BY HalfUndoes DEF Nr, Nb
<1>2. QED
  BY <1>1, AddKeyUndoes DEF Opening, Closing, Other, Calls

LEMMA MiddleUndoes ==
  ASSUME NEW d \in Calls, NEW w \in KeyWords, NEW s \in State, NEW n \in 1..Nr - 1
  PROVE  Middle(Other(d), w, Half(d, Middle(d, w, s, n)), Nr - n) = Half(d, s)
<1> DEFINE m == Middle(d, w, s, n)
           h == Half(d, s)
<1>1. n \in 0..Nr /\ Nr - n \in 0..Nr /\ Nr - (Nr - n) = n
  BY DEF Nr, Nb
<1>2. h \in State /\ m \in State /\ MixAll(h) \in State
  BY HalfUndoes, CallTypes, MixUndoes
<1>3. Half(Other(d), Half(d, m)) = m
  BY <1>2, HalfUndoes
<1>4. AddKey(h, w, Nr - n) \in State /\ AddKey(MixAll(h), w, n) \in State
  BY <1>1, <1>2, AddKeyUndoes
<1>5. CASE d = "encrypt"
  <2>1. m = AddKey(MixAll(h), w, n)
    BY <1>5 DEF Middle
  <2>2. Middle(Other(d), w, Half(d, m), Nr - n) = UnmixAll(AddKey(m, w, n))
    <3> HIDE DEF m, h
    <3>1. Other(d) # "encrypt"
      BY <1>5 DEF Other
    <3>2. QED
      BY <1>1, <1>3, <3>1 DEF Middle
  <2> HIDE DEF m, h
  <2>3. AddKey(m, w, n) = MixAll(h)
    BY <1>1, <1>2, <2>1, AddKeyUndoes
  <2>4. UnmixAll(MixAll(h)) = h
    BY <1>2, MixUndoes
  <2>5. QED
    BY <2>2, <2>3, <2>4 DEF m, h
<1>6. CASE d = "decrypt"
  <2>1. m = UnmixAll(AddKey(h, w, Nr - n))
    BY <1>6 DEF Middle
  <2>2. Middle(Other(d), w, Half(d, m), Nr - n) = AddKey(MixAll(m), w, Nr - n)
    <3> HIDE DEF m, h
    <3>1. Other(d) = "encrypt"
      BY <1>6 DEF Other
    <3>2. QED
      BY <1>1, <1>3, <3>1 DEF Middle
  <2> HIDE DEF m, h
  <2>3. MixAll(m) = AddKey(h, w, Nr - n)
    BY <1>4, <2>1, MixUndoes
  <2>4. AddKey(AddKey(h, w, Nr - n), w, Nr - n) = h
    BY <1>1, <1>2, AddKeyUndoes
  <2>5. QED
    BY <2>2, <2>3, <2>4 DEF m, h
<1>7. QED
  BY <1>5, <1>6 DEF Calls

LEMMA ClosingUndoes ==
  ASSUME NEW d \in Calls, NEW w \in KeyWords, NEW s \in State
  PROVE  Closing(Other(d), w, Half(d, Opening(d, w, s))) = s
<1>1. 0 \in 0..Nr /\ Nr \in 0..Nr /\ Opening(d, w, s) \in State
  BY CallTypes DEF Nr, Nb
<1>2. Half(Other(d), Half(d, Opening(d, w, s))) = Opening(d, w, s)
  BY <1>1, HalfUndoes
<1>3. QED
  BY <1>1, <1>2, AddKeyUndoes DEF Opening, Closing, Other, Calls

----------------------------------------------------------------------------
(* The invariant                                                           *)

\* The first m words of the expanded key are there.
Expanded(m) ==
  /\ \A n \in 0..Nk - 1 : fkey[n] = Word(key, n)
  /\ \A n \in Nk..m - 1 : fkey[n] = NextWord(fkey, n)

CipherTypes ==
  /\ stage \in {"set", "expand", "ready"} \union Calls
  /\ calls \in {"none", "both"} \union Calls
  /\ key \in Keys /\ block \in Blocks
  /\ fkey \in KeyWords /\ rkey \in KeyWords /\ text \in State /\ round \in Nat

KeysInv ==
  /\ stage = "expand" => round \in Nk..N /\ Expanded(round)
  /\ stage \notin {"set", "expand"} => Expanded(N) /\ rkey = ReverseKey(fkey)

RoundsInv ==
  /\ stage \in {"set", "expand"} => calls = "none"
  /\ stage \in Calls => round \in 1..Nr /\ calls \notin {stage, "both"}
  /\ stage \notin Calls /\ calls = "none" => text = Words(block)

\* S is the block after each of n rounds of the first call.
IsPath(d, S, n) ==
  /\ S[0] = Opening(d, fkey, Words(block))
  /\ \A m \in 1..n : S[m] = Middle(d, fkey, S[m - 1], m)

\* The second call meets the blocks of the first in reverse order, half a round off.
PathInv ==
  \A d \in Calls :
    /\ stage = d /\ calls = "none" =>
         \E S \in [0..Nr - 1 -> State] : IsPath(d, S, round - 1) /\ text = S[round - 1]
    /\ stage = "ready" /\ calls = d =>
         \E S \in [0..Nr - 1 -> State] : IsPath(d, S, Nr - 1) /\ text = Closing(d, fkey, S[Nr - 1])
    /\ stage = Other(d) /\ calls = d =>
         \E S \in [0..Nr - 1 -> State] : IsPath(d, S, Nr - 1) /\ text = Half(d, S[Nr - round])

\* The inductive invariant.
CipherInv == CipherTypes /\ KeysInv /\ RoundsInv /\ PathInv /\ CallsUndo

LEMMA WordTypes ==
  ASSUME NEW bytes \in Keys \union Blocks
  PROVE  Words(bytes) \in State /\ \A n \in 0..Nk - 1 : Word(bytes, n) \in Col
<1>1. bytes \in [1..16 -> U8] /\ 4 * Nb = 16 /\ Nk = 4 /\ Nb = 4
  BY RijndaelAssumption DEF Nb, Nk
<1>2. \A n \in 0..3 : Word(bytes, n) \in Col
  BY <1>1 DEF Word, Col
<1>3. QED
  BY <1>1, <1>2 DEF Words, State

LEMMA NextWordType ==
  ASSUME NEW keys \in KeyWords, NEW n \in Nk..N - 1
  PROVE  NextWord(keys, n) \in Col
<1>1. n - Nk \in 0..N - 1 /\ n - 1 \in 0..N - 1
  BY DEF N, Nk, Nb, Nr
<1>2. keys[n - Nk] \in Col /\ keys[n - 1] \in Col
  BY <1>1 DEF KeyWords
<1>3. ASSUME n % Nk = 0
      PROVE XorWords(SubByte(RotateWord(keys[n - 1], 3)), <<rco[n \div Nk - 1], 0, 0, 0>>) \in Col
  <2>1. n \div Nk - 1 \in 0..Nr - 1
    BY DEF N, Nk, Nb, Nr
  <2>2. rco[n \div Nk - 1] \in U8
    BY <2>1, Tables
  <2>z. 0 \in U8
    BY DEF U8
  <2>3. <<rco[n \div Nk - 1], 0, 0, 0>> \in Col
    BY <2>2, <2>z DEF Col
  <2>4. RotateWord(keys[n - 1], 3) \in Col
    BY <1>2, RotateType
  <2>5. SubByte(RotateWord(keys[n - 1], 3)) \in Col
    BY <2>4, Tables DEF SubByte, Col
  <2>6. QED
    BY <2>3, <2>5, XorWordsType
<1>4. QED
  BY <1>2, <1>3, XorWordsType DEF NextWord

LEMMA CipherInvInit ==
  ASSUME CipherInit
  PROVE  CipherInv
<1>1. Words(block) \in State
  BY WordTypes DEF CipherInit
<1>2. [n \in 0..N - 1 |-> [q \in 1..4 |-> 0]] \in KeyWords
  BY DEF KeyWords, Col, U8
<1>3. PathInv /\ CallsUndo
  BY DEF CipherInit, PathInv, CallsUndo, Calls
<1>4. QED
  BY <1>1, <1>2, <1>3 DEF CipherInit, CipherInv, CipherTypes, KeysInv, RoundsInv, Calls

\* Expanding the key preserves the invariant: no word depends on one not there yet.
LEMMA KeySteps ==
  ASSUME CipherInv, SetKey \/ ExpandKey \/ KeyExpanded
  PROVE  CipherInv'
<1>1. CASE SetKey
  <2>1. fkey' \in KeyWords /\ \A n \in 0..Nk - 1 : fkey'[n] = Word(key, n)
    <3>1. \A n \in 0..N - 1 : n < Nk => Word(key, n) \in Col
      BY WordTypes DEF CipherInv, CipherTypes, Nk
    <3>2. \A n \in 0..Nk - 1 : n \in 0..N - 1 /\ n < Nk
      BY DEF Nk, N, Nb, Nr
    <3>3. QED
      BY <1>1, <3>1, <3>2 DEF SetKey, CipherInv, CipherTypes, KeyWords
  <2>2. round' = Nk /\ Nk \in Nat /\ Nk \in Nk..N /\ Nk..Nk - 1 = {}
    BY <1>1 DEF SetKey, Nk, N, Nb, Nr
  <2>3. KeysInv'
    BY <1>1, <2>1, <2>2 DEF SetKey, KeysInv, Expanded
  <2>4. QED
    BY <1>1, <2>1, <2>2, <2>3
    DEF SetKey, CipherInv, CipherTypes, RoundsInv, PathInv, CallsUndo, Calls, Other
<1>2. CASE ExpandKey
  <2>1. /\ round \in Nk..N - 1 /\ round \in 0..N - 1 /\ Expanded(round) /\ fkey \in KeyWords
        /\ round' \in Nk..N /\ round' \in Nat /\ round' - 1 = round
    BY <1>2 DEF ExpandKey, CipherInv, CipherTypes, KeysInv, Nk, N, Nb, Nr
  <2>i. round \in 4..43 /\ round' - 1 = round
    <3>1. Nk = 4 /\ N - 1 = 43
      BY DEF Nk, N, Nb, Nr
    <3>2. QED
      BY <2>1, <3>1
  <2>2. fkey' = [fkey EXCEPT ![round] = NextWord(fkey, round)]
    BY <1>2 DEF ExpandKey
  <2>3. NextWord(fkey, round) \in Col
    BY <2>1, NextWordType
  <2>4. /\ fkey' \in KeyWords /\ fkey'[round] = NextWord(fkey, round)
        /\ \A n \in 0..N - 1 : n # round => fkey'[n] = fkey[n]
    BY <2>1, <2>2, <2>3 DEF KeyWords
  <2>5. ASSUME NEW n \in Nk..round PROVE NextWord(fkey', n) = NextWord(fkey, n)
    <3>1. n - Nk \in 0..N - 1 /\ n - 1 \in 0..N - 1 /\ n - Nk # round /\ n - 1 # round
      BY <2>1 DEF Nk, N, Nb, Nr
    <3>2. fkey'[n - Nk] = fkey[n - Nk] /\ fkey'[n - 1] = fkey[n - 1]
      BY <2>4, <3>1
    <3>3. QED
      BY <3>2 DEF NextWord
  <2>6. ASSUME NEW n \in Nk..round' - 1 PROVE fkey'[n] = NextWord(fkey', n)
    <3>1. CASE n = round
      BY <2>1, <2>4, <2>5, <3>1
    <3>2. CASE n # round
      <4>i. round \in 4..43 /\ round' - 1 = round
        BY <2>i
      <4>j. n \in 4..round' - 1
        BY DEF Nk
      <4>k. n \in 4..round - 1 /\ n \in 4..round /\ n \in 0..43
        BY ONLY <3>2, <4>i, <4>j
      <4>1. n \in Nk..round - 1 /\ n \in Nk..round /\ n \in 0..N - 1
        BY <4>k DEF Nk, N, Nb, Nr
      <4>2. fkey[n] = NextWord(fkey, n)
        BY <2>1, <4>1 DEF Expanded
      <4>3. QED
        BY <2>4, <2>5, <3>2, <4>1, <4>2
    <3>3. QED
      BY <3>1, <3>2
  <2>7. ASSUME NEW n \in 0..Nk - 1 PROVE fkey'[n] = Word(key, n)
    <3>1. n \in 0..N - 1 /\ n # round
      BY <2>1 DEF Nk, N, Nb, Nr
    <3>2. QED
      BY <2>1, <2>4, <3>1 DEF Expanded
  <2>8. KeysInv'
    <3>1. stage' = "expand" /\ key' = key
      BY <1>2 DEF ExpandKey
    <3>2. QED
      BY <2>1, <2>6, <2>7, <3>1 DEF KeysInv, Expanded
  <2>9. QED
    BY <1>2, <2>1, <2>4, <2>8
    DEF ExpandKey, CipherInv, CipherTypes, RoundsInv, PathInv, CallsUndo, Calls, Other
<1>3. CASE KeyExpanded
  <2>1. fkey \in KeyWords /\ Expanded(N)
    BY <1>3 DEF KeyExpanded, CipherInv, CipherTypes, KeysInv
  <2>2. rkey' \in KeyWords /\ rkey' = ReverseKey(fkey)
    BY <1>3, <2>1, ReverseKeyIs DEF KeyExpanded
  <2>3. KeysInv'
    BY <1>3, <2>1, <2>2 DEF KeyExpanded, KeysInv, Expanded
  <2>4. QED
    BY <1>3, <2>2, <2>3
    DEF KeyExpanded, CipherInv, CipherTypes, RoundsInv, PathInv, CallsUndo, Calls, Other
<1>4. QED
  BY <1>1, <1>2, <1>3

\* The actions, for each direction.
LEMMA BeginIs ==
  ASSUME CipherInv, NEW d \in Calls, d = "encrypt" => Encrypt, d = "decrypt" => Decrypt
  PROVE  /\ stage = "ready" /\ stage' = d /\ calls \notin {d, "both"} /\ round' = 1
         /\ text' = Opening(d, fkey, text)
         /\ UNCHANGED <<calls, key, block, fkey, rkey>>
<1> DEFINE keys == IF d = "encrypt" THEN fkey ELSE rkey
<1>1. Begin(d, keys)
  BY DEF Encrypt, Decrypt, Calls
<1>2. /\ stage = "ready" /\ stage' = d /\ calls \notin {d, "both"} /\ round' = 1
      /\ UNCHANGED <<calls, key, block, fkey, rkey>>
      /\ text' = [j \in 0..Nb - 1 |-> XorWords(text[j], keys[j])]
  BY <1>1 DEF Begin
<1>3. text \in State /\ fkey \in KeyWords /\ rkey = ReverseKey(fkey)
  BY <1>2 DEF CipherInv, CipherTypes, KeysInv
<1>4. \A j \in 0..Nb - 1 : Nb * 0 + j = j
  BY DEF Nb
<1> HIDE DEF keys
<1>5. text' = AddKey(text, keys, 0)
  BY <1>2, <1>4 DEF AddKey
<1>6. text' = Opening(d, fkey, text)
  BY <1>3, <1>5, ReverseKeyIs DEF keys, Opening, Calls
<1>7. QED
  BY <1>2, <1>6

LEMMA RoundIs ==
  ASSUME CipherInv, NEW d \in Calls, d = "encrypt" => EncryptRound, d = "decrypt" => DecryptRound
  PROVE  /\ stage = d /\ calls \in {"none", Other(d)} /\ round \in 1..Nr
         /\ UNCHANGED <<key, block, fkey, rkey>>
         /\ IF round < Nr
            THEN text' = Middle(d, fkey, text, round)
                 /\ round' = round + 1 /\ UNCHANGED <<stage, calls>>
            ELSE text' = Closing(d, fkey, text) /\ Return(d)
<1>1. Nr = 10
  BY DEF Nr, Nb
<1>2. CASE d = "encrypt"
  <2>1. Round("encrypt", ftable, fbsub, fkey, 1) /\ d # "decrypt"
    BY <1>2 DEF EncryptRound
  <2>2. /\ stage = d /\ UNCHANGED <<key, block, fkey, rkey>>
        /\ IF round < Nr
           THEN text' = TableRound(ftable, fkey, 1)
                /\ round' = round + 1 /\ UNCHANGED <<stage, calls>>
           ELSE text' = LastRound(fbsub, fkey, 1) /\ Return(d)
    BY <1>2, <2>1 DEF Round
  <2>3. /\ text \in State /\ fkey \in KeyWords /\ round \in 1..Nr /\ round \in 0..Nr
        /\ calls \in {"none", Other(d)}
    BY <1>1, <1>2, <2>2 DEF CipherInv, CipherTypes, RoundsInv, Calls, Other
  <2>4. TableRound(ftable, fkey, 1) = Middle(d, fkey, text, round)
    BY <1>2, <2>3, TableRoundIs DEF Middle, Half
  <2>5. LastRound(fbsub, fkey, 1) = AddKey(Sub(text, fbsub, 1), fkey, round)
    BY <2>3, LastRoundIs
  <2>6. ~(round < Nr) => LastRound(fbsub, fkey, 1) = Closing(d, fkey, text)
    <3>1. ~(round < Nr) => round = Nr
      BY <1>1, <2>3
    <3>2. QED
      BY <1>2, <2>5, <3>1 DEF Closing, Half
  <2>7. QED
    BY <2>2, <2>3, <2>4, <2>6
<1>3. CASE d = "decrypt"
  <2>1. Round("decrypt", rtable, rbsub, rkey, -1) /\ d # "encrypt"
    BY <1>3 DEF DecryptRound
  <2>2. /\ stage = d /\ UNCHANGED <<key, block, fkey, rkey>>
        /\ IF round < Nr
           THEN text' = TableRound(rtable, rkey, -1)
                /\ round' = round + 1 /\ UNCHANGED <<stage, calls>>
           ELSE text' = LastRound(rbsub, rkey, -1) /\ Return(d)
    BY <1>3, <2>1 DEF Round
  <2>3. /\ text \in State /\ fkey \in KeyWords /\ rkey \in KeyWords /\ rkey = ReverseKey(fkey)
        /\ round \in 1..Nr /\ round \in 0..Nr /\ calls \in {"none", Other(d)}
    BY <1>1, <1>3, <2>2 DEF CipherInv, CipherTypes, KeysInv, RoundsInv, Calls, Other
  <2>s. Sub(text, rbsub, -1) \in State /\ Half(d, text) = Sub(text, rbsub, -1)
    BY <1>3, <2>3, SubType DEF Half
  <2>4. ASSUME round < Nr PROVE TableRound(rtable, rkey, -1) = Middle(d, fkey, text, round)
    <3>1. round \in 1..Nr - 1
      BY <1>1, <2>3, <2>4
    <3>2. TableRound(rtable, rkey, -1) = AddKey(UnmixAll(Half(d, text)), rkey, round)
      BY <2>3, <2>s, UntableRoundIs
    <3>3. TableRound(rtable, rkey, -1) = UnmixAll(AddKey(Half(d, text), fkey, Nr - round))
      BY <2>3, <2>s, <3>1, <3>2, ReverseKeyIs
    <3>4. QED
      BY <2>1, <3>3 DEF Middle
  <2>5. LastRound(rbsub, rkey, -1) = AddKey(Half(d, text), rkey, round)
    BY <2>3, <2>s, LastRoundIs
  <2>6. ASSUME ~(round < Nr) PROVE LastRound(rbsub, rkey, -1) = Closing(d, fkey, text)
    <3>1. round = Nr
      BY <1>1, <2>3, <2>6
    <3>2. AddKey(Half(d, text), ReverseKey(fkey), Nr) = AddKey(Half(d, text), fkey, 0)
      BY <2>3, <2>s, ReverseKeyIs
    <3>3. QED
      BY <2>1, <2>3, <2>5, <3>1, <3>2 DEF Closing
  <2>7. QED
    BY <2>2, <2>3, <2>4, <2>6
<1>4. QED
  BY <1>2, <1>3 DEF Calls

LEMMA SamePath ==
  ASSUME UNCHANGED <<block, fkey>>, NEW d, NEW S, NEW n, IsPath(d, S, n)
  PROVE  IsPath(d, S, n)'
BY DEF IsPath

LEMMA BeginSteps ==
  ASSUME CipherInv, NEW d \in Calls, d = "encrypt" => Encrypt, d = "decrypt" => Decrypt
  PROVE  CipherInv'
<1>1. /\ stage = "ready" /\ stage' = d /\ calls \notin {d, "both"} /\ round' = 1
      /\ text' = Opening(d, fkey, text)
      /\ UNCHANGED <<calls, key, block, fkey, rkey>>
  BY BeginIs
<1>2. /\ text \in State /\ fkey \in KeyWords /\ Words(block) \in State /\ Nr = 10
      /\ calls \in {"none", Other(d)} /\ Other(d) \in Calls
      /\ calls = "none" => text = Words(block)
  BY <1>1, WordTypes DEF CipherInv, CipherTypes, RoundsInv, Calls, Other, Nr, Nb
<1>3. text' \in State
  BY <1>1, <1>2, CallTypes
<1>4. CASE calls = "none"
  <2>1. PICK S \in [0..Nr - 1 -> State] : S[0] = text'
    <3>1. [n \in 0..Nr - 1 |-> text'] \in [0..Nr - 1 -> State]
      BY <1>3
    <3>2. [n \in 0..Nr - 1 |-> text'][0] = text'
      BY <1>2
    <3>3. QED
      BY <3>1, <3>2
  <2>2. round' - 1 = 0 /\ 1..0 = {}
    BY <1>1
  <2>3. IsPath(d, S, 0)'
    BY <1>1, <1>2, <1>4, <2>1, <2>2 DEF IsPath
  <2>4. \A e \in Calls : stage' = e => e = d
    BY <1>1
  <2>5. calls' = "none" /\ calls' \notin Calls
    BY <1>1, <1>4 DEF Calls
  <2>6. PathInv'
    BY <2>1, <2>2, <2>3, <2>4, <2>5 DEF PathInv
  <2>7. QED
    BY <1>1, <1>2, <1>3, <2>5, <2>6
    DEF CipherInv, CipherTypes, KeysInv, Expanded, RoundsInv, CallsUndo, Calls
<1>5. CASE calls = Other(d)
  <2> DEFINE o == Other(d)
  <2>1. o \in Calls /\ Other(o) = d /\ o # d /\ o # "none" /\ o # "both" /\ d # "ready"
    BY Others DEF Calls, Other
  <2> HIDE DEF o
  <2>2. PICK S \in [0..Nr - 1 -> State] :
          IsPath(o, S, Nr - 1) /\ text = Closing(o, fkey, S[Nr - 1])
    BY <1>1, <1>5, <2>1 DEF CipherInv, PathInv, o
  <2>3. text' = Half(o, S[Nr - 1])
    <3>1. S[Nr - 1] \in State
      BY <1>2
    <3>2. QED
      BY <1>1, <1>2, <2>1, <2>2, <3>1, OpeningUndoes
  <2>4. IsPath(o, S, Nr - 1)'
    BY <1>1, <2>2, SamePath
  <2>5. calls' = o /\ stage' = d /\ round' = 1
    BY <1>1, <1>5 DEF o
  <2>6. PathInv'
    BY <2>1, <2>3, <2>4, <2>5 DEF PathInv
  <2>7. QED
    BY <1>1, <1>2, <1>3, <2>1, <2>5, <2>6
    DEF CipherInv, CipherTypes, KeysInv, Expanded, RoundsInv, CallsUndo, Calls
<1>6. QED
  BY <1>2, <1>4, <1>5

LEMMA FirstCallSteps ==
  ASSUME CipherInv, NEW d \in Calls, d = "encrypt" => EncryptRound, d = "decrypt" => DecryptRound,
         calls = "none"
  PROVE  CipherInv'
<1>1. /\ stage = d /\ round \in 1..Nr
      /\ UNCHANGED <<key, block, fkey, rkey>>
      /\ IF round < Nr
         THEN text' = Middle(d, fkey, text, round)
              /\ round' = round + 1 /\ UNCHANGED <<stage, calls>>
         ELSE text' = Closing(d, fkey, text) /\ Return(d)
  BY RoundIs
<1>2. text \in State /\ fkey \in KeyWords /\ Nr = 10 /\ d # "ready" /\ d # "none" /\ d # "both"
  BY DEF CipherInv, CipherTypes, Nr, Nb, Calls
<1>3. PICK S \in [0..Nr - 1 -> State] : IsPath(d, S, round - 1) /\ text = S[round - 1]
  BY <1>1 DEF CipherInv, PathInv
<1>4. CASE round < Nr
  <2>1. text' = Middle(d, fkey, text, round) /\ round' = round + 1 /\ stage' = d /\ calls' = "none"
    BY <1>1, <1>4
  <2>2. text' \in State
    <3>1. round \in 1..Nr - 1
      BY <1>1, <1>2, <1>4
    <3>2. QED
      BY <1>2, <2>1, <3>1, CallTypes
  <2>3. PICK T \in [0..Nr - 1 -> State] :
          T[round] = text' /\ \A m \in 0..round - 1 : T[m] = S[m]
    <3> DEFINE next == [S EXCEPT ![round] = text']
    <3>1. /\ next \in [0..Nr - 1 -> State] /\ next[round] = text'
          /\ \A m \in 0..round - 1 : next[m] = S[m]
      BY <1>1, <1>2, <1>4, <2>2
    <3> HIDE DEF next
    <3>2. QED
      BY <3>1
  <2>4. T[0] = Opening(d, fkey, Words(block))
    BY <1>1, <1>2, <1>3, <2>3 DEF IsPath
  <2>5. ASSUME NEW m \in 1..round
        PROVE T[m] = Middle(d, fkey, T[m - 1], m)
    <3>1. m - 1 \in 0..round - 1 /\ T[m - 1] = S[m - 1]
      BY <1>1, <1>2, <2>3
    <3>2. CASE m = round
      BY <1>3, <2>1, <2>3, <3>1, <3>2
    <3>3. CASE m # round
      <4>1. m \in 1..round - 1 /\ T[m] = S[m]
        BY <1>1, <1>2, <2>3, <3>3
      <4>2. QED
        BY <1>3, <3>1, <4>1 DEF IsPath
    <3>4. QED
      BY <3>2, <3>3
  <2>6. round' - 1 = round /\ round' \in 1..Nr /\ round' \in Nat
    BY <1>1, <1>2, <1>4, <2>1
  <2>7. PathInv'
    <3>1. /\ T[0] = Opening(d, fkey', Words(block'))
          /\ \A m \in 1..round' - 1 : T[m] = Middle(d, fkey', T[m - 1], m)
      BY <1>1, <2>4, <2>5, <2>6
    <3>2. text' = T[round' - 1]
      BY <2>3, <2>6
    <3>3. "none" \notin Calls
      BY DEF Calls
    <3>4. QED
      BY <2>1, <3>1, <3>2, <3>3 DEF PathInv, IsPath
  <2>8. QED
    BY <1>1, <1>2, <2>1, <2>2, <2>6, <2>7
    DEF CipherInv, CipherTypes, KeysInv, Expanded, RoundsInv, CallsUndo, Calls
<1>5. CASE ~(round < Nr)
  <2>1. /\ text' = Closing(d, fkey, text) /\ stage' = "ready" /\ round' = 0 /\ calls' = d
        /\ round = Nr /\ round - 1 = Nr - 1
    BY <1>1, <1>2, <1>5 DEF Return
  <2>2. text' \in State
    BY <1>2, <2>1, CallTypes
  <2>3. text' = Closing(d, fkey', S[Nr - 1]) /\ IsPath(d, S, Nr - 1)
    BY <1>1, <1>3, <2>1
  <2>4. IsPath(d, S, Nr - 1)'
    BY <1>1, <2>3, SamePath
  <2>5. "ready" \notin Calls /\ Other("encrypt") # "ready" /\ Other("decrypt") # "ready"
    BY DEF Calls, Other
  <2>6. PathInv'
    BY <1>2, <2>1, <2>3, <2>4, <2>5, Others DEF PathInv
  <2>7. QED
    BY <1>1, <1>2, <2>1, <2>2, <2>6
    DEF CipherInv, CipherTypes, KeysInv, Expanded, RoundsInv, CallsUndo, Calls
<1>6. QED
  BY <1>4, <1>5

LEMMA SecondCallSteps ==
  ASSUME CipherInv, NEW d \in Calls, d = "encrypt" => EncryptRound, d = "decrypt" => DecryptRound,
         NEW o \in Calls, Other(o) = d, calls = o
  PROVE  CipherInv'
<1>1. /\ stage = d /\ round \in 1..Nr
      /\ UNCHANGED <<key, block, fkey, rkey>>
      /\ IF round < Nr
         THEN text' = Middle(d, fkey, text, round)
              /\ round' = round + 1 /\ UNCHANGED <<stage, calls>>
         ELSE text' = Closing(d, fkey, text) /\ Return(d)
  BY RoundIs
<1>2. /\ text \in State /\ fkey \in KeyWords /\ Words(block) \in State /\ Nr = 10
      /\ o # "none" /\ o # "both" /\ d # "ready" /\ o # d
  BY WordTypes, Others DEF CipherInv, CipherTypes, Nr, Nb, Calls
<1>3. PICK S \in [0..Nr - 1 -> State] : IsPath(o, S, Nr - 1) /\ text = Half(o, S[Nr - round])
  BY <1>1 DEF CipherInv, PathInv
<1>4. CASE round < Nr
  <2>1. text' = Middle(d, fkey, text, round) /\ round' = round + 1 /\ stage' = d /\ calls' = o
    BY <1>1, <1>4
  <2>2. PICK n \in 1..Nr - 1 : n = Nr - round
    BY <1>1, <1>2, <1>4
  <2>3. Nr - n = round /\ n - 1 = Nr - round' /\ round' \in 1..Nr /\ round' \in Nat
    BY <1>1, <1>2, <1>4, <2>1, <2>2
  <2>4. S[n - 1] \in State /\ S[n] = Middle(o, fkey, S[n - 1], n)
    BY <1>2, <1>3 DEF IsPath
  <2>5. text' = Half(o, S[n - 1]) /\ Half(o, S[n - 1]) \in State
    BY <1>2, <1>3, <2>1, <2>2, <2>3, <2>4, MiddleUndoes, HalfUndoes
  <2>6. IsPath(o, S, Nr - 1)'
    BY <1>1, <1>3, SamePath
  <2>7. PathInv'
    BY <1>2, <2>1, <2>3, <2>5, <2>6 DEF PathInv
  <2>8. QED
    BY <1>1, <1>2, <2>1, <2>3, <2>5, <2>7
    DEF CipherInv, CipherTypes, KeysInv, Expanded, RoundsInv, CallsUndo, Calls
<1>5. CASE ~(round < Nr)
  <2>1. /\ text' = Closing(d, fkey, text) /\ stage' = "ready" /\ round' = 0 /\ calls' = "both"
        /\ Nr - round = 0
    BY <1>1, <1>2, <1>5 DEF Return
  <2>2. S[0] = Opening(o, fkey, Words(block))
    BY <1>3 DEF IsPath
  <2>3. text' = Words(block)
    BY <1>2, <1>3, <2>1, <2>2, ClosingUndoes
  <2>4. "both" \notin Calls /\ "ready" \notin Calls
    BY DEF Calls
  <2>5. PathInv'
    BY <2>1, <2>4 DEF PathInv
  <2>6. QED
    BY <1>1, <1>2, <2>1, <2>3, <2>4, <2>5
    DEF CipherInv, CipherTypes, KeysInv, Expanded, RoundsInv, CallsUndo
<1>6. QED
  BY <1>4, <1>5

\* The inductive invariant of the cipher: the keys are expanded and reversed, and
\* the second call goes back through the blocks of the first.
THEOREM CipherInvariant == CipherSpec => []CipherInv
<1>1. CipherInit => CipherInv
  BY CipherInvInit
<1>2. CipherInv /\ [CipherNext]_cipherVars => CipherInv'
  <2>1. ASSUME CipherInv, UNCHANGED cipherVars PROVE CipherInv'
    BY <2>1 DEF cipherVars, CipherInv, CipherTypes, KeysInv, Expanded, RoundsInv, PathInv,
                IsPath, CallsUndo
  <2>2. ASSUME CipherInv, NEW d \in Calls,
               d = "encrypt" => EncryptRound, d = "decrypt" => DecryptRound
        PROVE CipherInv'
    <3>1. calls \in {"none", Other(d)}
      BY <2>2, RoundIs
    <3>2. QED
      BY <2>2, <3>1, Others, FirstCallSteps, SecondCallSteps
  <2>3. ASSUME CipherInv, Encrypt \/ Decrypt PROVE CipherInv'
    <3>1. "encrypt" \in Calls /\ "decrypt" \in Calls /\ "encrypt" # "decrypt"
      BY DEF Calls
    <3>2. QED
      BY <2>3, <3>1, BeginSteps
  <2>4. ASSUME CipherInv, EncryptRound \/ DecryptRound PROVE CipherInv'
    <3>1. "encrypt" \in Calls /\ "decrypt" \in Calls /\ "encrypt" # "decrypt"
      BY DEF Calls
    <3>2. QED
      BY <2>2, <2>4, <3>1
  <2>5. QED
    BY <2>1, <2>3, <2>4, KeySteps DEF CipherNext
<1>3. QED
  BY <1>1, <1>2, PTL DEF CipherSpec

\* encrypt() and decrypt() undo one another, for every key and block and in either
\* order of the calls.
THEOREM CallsUndoEachOther == CipherSpec => []CallsUndo
<1>1. CipherInv => CallsUndo
  BY DEF CipherInv
<1>2. QED
  BY <1>1, CipherInvariant, PTL

----------------------------------------------------------------------------
(* The standard                                                            *)

LEMMA StandardXor ==
  ASSUME NEW a, NEW c
  PROVE  Standard!^^(a, c) = a ^^ c
<1>1. OfBytes = Standard!OfBytes
  BY DEF OfBytes, OfNibbles, OfPairs, OfBits, Doubled, Standard!OfBytes,
         Standard!OfNibbles, Standard!OfPairs, Standard!OfBits, Standard!Doubled
<1>2. QED
  BY <1>1 DEF ^^, Standard!^^

LEMMA StandardTables ==
  /\ fbsub = Standard!Sbox /\ rbsub = Standard!InvSbox
  /\ \A a \in U8 : Standard!Product(1, a) = a /\ Standard!Product(2, a) = xtime(a)
                   /\ Standard!Product(3, a) = a ^^ xtime(a)
  /\ \A a \in U8, q \in 1..4 : Standard!Product(InCo[q], a) = bmul(InCo[q], a)
  /\ \A n \in 0..Nr - 1 : rco[n] = Standard!RoundConstant[n + 1]
BY TablesAssumption

LEMMA StandardXor4 ==
  ASSUME NEW a, NEW c, NEW d, NEW e
  PROVE  Standard!Xor4(a, c, d, e) = Xor4(a, c, d, e)
BY StandardXor DEF Xor4, Standard!Xor4

LEMMA StandardAdd ==
  ASSUME NEW v, NEW w
  PROVE  Standard!AddColumns(v, w) = XorWords(v, w)
BY StandardXor DEF Standard!AddColumns, XorWords

\* Bytes replaced and rows shifted, forth and back.
LEMMA StandardShift ==
  ASSUME NEW s \in State
  PROVE  /\ Standard!ShiftRows(Standard!Map(Standard!Sbox, s), 1) = Sub(s, fbsub, 1)
         /\ Standard!Map(Standard!InvSbox, Standard!ShiftRows(s, -1)) = Sub(s, rbsub, -1)
<1>1. \A c \in 0..3, r \in 1..4 :
        (c + 1 * (r - 1)) % 4 \in 0..3 /\ (c + (-1) * (r - 1)) % 4 \in 0..3
  OBVIOUS
<1>2. Standard!ShiftRows(Standard!Map(Standard!Sbox, s), 1) = Sub(s, fbsub, 1)
  BY <1>1, StandardTables DEF Standard!ShiftRows, Standard!Map, Sub, Nb
<1>3. Standard!Map(Standard!InvSbox, Standard!ShiftRows(s, -1)) = Sub(s, rbsub, -1)
  BY <1>1, StandardTables DEF Standard!ShiftRows, Standard!Map, Sub, Nb
<1>4. QED
  BY <1>2, <1>3

\* The coefficients, each with its place.
LEMMA Coefficients ==
  ASSUME NEW n \in 1..4, NEW r \in 1..4, NEW y \in U8
  PROVE  /\ Standard!Product(Standard!Forth[1 + ((n - r) % 4)], y)
              = RotateWord(Column(y), n - 1)[r]
         /\ Standard!Product(Standard!Back[1 + ((n - r) % 4)], y) = bmul(Co(r, n), y)
<1>1. /\ RotateWord(Column(y), n - 1)[r] = Column(y)[1 + ((r - 1 - (n - 1)) % 4)]
  BY DEF RotateWord
<1>2. /\ (n - r) % 4 = 0 => 1 + ((r - 1 - (n - 1)) % 4) = 1 /\ 1 + ((n - 1 - r) % 4) = 4
      /\ (n - r) % 4 = 1 => 1 + ((r - 1 - (n - 1)) % 4) = 4 /\ 1 + ((n - 1 - r) % 4) = 1
      /\ (n - r) % 4 = 2 => 1 + ((r - 1 - (n - 1)) % 4) = 3 /\ 1 + ((n - 1 - r) % 4) = 2
      /\ (n - r) % 4 = 3 => 1 + ((r - 1 - (n - 1)) % 4) = 2 /\ 1 + ((n - 1 - r) % 4) = 3
      /\ (n - r) % 4 \in {0, 1, 2, 3}
  OBVIOUS
<1>3. /\ Standard!Forth[1] = 2 /\ Standard!Forth[2] = 3
      /\ Standard!Forth[3] = 1 /\ Standard!Forth[4] = 1
      /\ Standard!Back[1] = InCo[4] /\ Standard!Back[2] = InCo[1]
      /\ Standard!Back[3] = InCo[2] /\ Standard!Back[4] = InCo[3]
  BY DEF Standard!Forth, Standard!Back, InCo
<1>4. /\ Column(y)[1] = Standard!Product(2, y) /\ Column(y)[2] = Standard!Product(1, y)
      /\ Column(y)[3] = Standard!Product(1, y) /\ Column(y)[4] = Standard!Product(3, y)
  BY StandardTables DEF Column
<1>5. \A q \in 1..4 : Standard!Product(InCo[q], y) = bmul(InCo[q], y)
  BY StandardTables
<1>6. QED
  BY <1>1, <1>2, <1>3, <1>4, <1>5 DEF Co

\* The standard's columns, mixed forth and back.
LEMMA StandardMix ==
  ASSUME NEW s \in State
  PROVE  /\ Standard!MixColumns(s, Standard!Forth) = MixAll(s)
         /\ Standard!MixColumns(s, Standard!Back) = UnmixAll(s)
<1>1. ASSUME NEW c \in 0..3, NEW r \in 1..4, NEW n \in 1..4
      PROVE /\ s[c][n] \in U8
            /\ Standard!Product(Standard!Forth[1 + ((n - r) % 4)], s[c][n])
                 = RotateWord(Column(s[c][n]), n - 1)[r]
            /\ Standard!Product(Standard!Back[1 + ((n - r) % 4)], s[c][n]) = bmul(Co(r, n), s[c][n])
  <2>1. s[c][n] \in U8
    BY DEF State, Nb, Col
  <2>2. QED
    BY <2>1, Coefficients
<1>2. ASSUME NEW c \in 0..3, NEW r \in 1..4
      PROVE /\ Standard!MixColumns(s, Standard!Forth)[c][r] = MixAll(s)[c][r]
            /\ Standard!MixColumns(s, Standard!Back)[c][r] = UnmixAll(s)[c][r]
  <2> DEFINE F(n) == Standard!Product(Standard!Forth[1 + ((n - r) % 4)], s[c][n])
             B(n) == Standard!Product(Standard!Back[1 + ((n - r) % 4)], s[c][n])
  <2>1. /\ Standard!MixColumns(s, Standard!Forth)[c][r] = Standard!Xor4(F(1), F(2), F(3), F(4))
        /\ Standard!MixColumns(s, Standard!Back)[c][r] = Standard!Xor4(B(1), B(2), B(3), B(4))
    BY DEF Standard!MixColumns
  <2>2. \A n \in 1..4 :
          F(n) = RotateWord(Column(s[c][n]), n - 1)[r] /\ B(n) = bmul(Co(r, n), s[c][n])
    BY <1>1
  <2> HIDE DEF F, B
  <2>3. /\ F(1) = RotateWord(Column(s[c][1]), 0)[r] /\ F(2) = RotateWord(Column(s[c][2]), 1)[r]
        /\ F(3) = RotateWord(Column(s[c][3]), 2)[r] /\ F(4) = RotateWord(Column(s[c][4]), 3)[r]
    BY <2>2, 1 - 1 = 0, 2 - 1 = 1, 3 - 1 = 2, 4 - 1 = 3
  <2>4. s[c] \in Col /\ c \in 0..Nb - 1
    BY DEF State, Nb
  <2>5. MixAll(s)[c][r] = Xor4(F(1), F(2), F(3), F(4))
    BY <2>3, <2>4 DEF MixAll, Mixed
  <2>6. UnmixAll(s)[c][r] = Xor4(B(1), B(2), B(3), B(4))
    BY <2>2, <2>4, InvMixColAt DEF UnmixAll
  <2>7. QED
    BY <2>1, <2>5, <2>6, StandardXor4
<1>3. MixAll(s) \in State /\ UnmixAll(s) \in State
  BY MixUndoes
<1>4. \A t \in State :
        t = [c \in 0..3 |-> [r \in 1..4 |-> t[c][r]]]
  BY SameState DEF State, Col, Nb
<1>5. /\ Standard!MixColumns(s, Standard!Forth)
           = [c \in 0..3 |-> [r \in 1..4 |-> Standard!MixColumns(s, Standard!Forth)[c][r]]]
      /\ Standard!MixColumns(s, Standard!Back)
           = [c \in 0..3 |-> [r \in 1..4 |-> Standard!MixColumns(s, Standard!Back)[c][r]]]
  BY DEF Standard!MixColumns
<1>6. QED
  BY <1>2, <1>3, <1>4, <1>5

LEMMA StandardInit ==
  ASSUME CipherInit
  PROVE  Standard!Init
<1>1. ASSUME NEW bytes PROVE Words(bytes) = Standard!Columns(bytes)
  BY DEF Words, Word, Standard!Columns, Nb
<1>2. QED
  BY <1>1 DEF CipherInit, Standard!Init, Mode, RoundsDone, RoundsInv, CipherInv, Calls

\* The words that gkey() expands are the standard's schedule.
LEMMA StandardSchedule ==
  ASSUME CipherTypes, Expanded(N)
  PROVE  Standard!IsSchedule(fkey, key)
<1>1. /\ N = 44 /\ Nk = 4 /\ Nb = 4 /\ Nr = 10 /\ Standard!Rounds = 10
      /\ 4 * 10 + 3 = 43 /\ 44 - 1 = 43 /\ 4 - 1 = 3
  BY DEF N, Nk, Nb, Nr, Standard!Rounds
<1>2. fkey \in [0..43 -> [1..4 -> Standard!Byte]]
  <2>1. fkey \in KeyWords
    BY DEF CipherTypes
  <2>2. QED
    BY ONLY <1>1, <2>1 DEF KeyWords, Col, U8, Standard!Byte
<1>3. ASSUME NEW c \in 0..3 PROVE fkey[c] = Standard!Columns(key)[c]
  <2>1. fkey[c] = Word(key, c)
    BY <1>1 DEF Expanded
  <2>2. QED
    BY <2>1 DEF Word, Standard!Columns
<1>4. ASSUME NEW n \in 4..43
      PROVE fkey[n] = Standard!AddColumns(fkey[n - 4],
                        IF n % 4 = 0 THEN Standard!Core(fkey[n - 1], n \div 4) ELSE fkey[n - 1])
  <2>1. fkey[n] = NextWord(fkey, n)
    BY <1>1 DEF Expanded
  <2>2. CASE n % 4 # 0
    BY <1>1, <2>1, <2>2, StandardAdd DEF NextWord
  <2>3. CASE n % 4 = 0
    <3>1. n \div 4 - 1 \in 0..Nr - 1 /\ n \div 4 - 1 + 1 = n \div 4 /\ n - 1 \in 0..43
      BY <1>1
    <3> DEFINE p == fkey[n - 1]
               k0 == rco[n \div 4 - 1]
               x == SubByte(RotateWord(p, 3))
    <3>2. k0 = Standard!RoundConstant[n \div 4]
      BY <3>1, StandardTables
    <3>3. p \in [1..4 -> U8]
      BY <1>1, <3>1 DEF CipherTypes, KeyWords, Col
    <3>4. k0 \in U8
      BY <3>1, Tables
    <3> HIDE DEF k0, p
    <3>5. x[1] = fbsub[p[2]] /\ x[2] = fbsub[p[3]] /\ x[3] = fbsub[p[4]] /\ x[4] = fbsub[p[1]]
      <4>1. \A q \in 1..4 : 1 + ((q - 1 - 3) % 4) = IF q = 4 THEN 1 ELSE q + 1
        OBVIOUS
      <4>2. \A q \in 1..4 : x[q] = fbsub[p[IF q = 4 THEN 1 ELSE q + 1]]
        BY <4>1 DEF SubByte, RotateWord
      <4> HIDE DEF x
      <4>3. QED
        BY <4>2
    <3>6. \A q \in 1..4 : x[q] \in U8
      BY <3>3, <3>5, Tables
    <3>7. XorWords(x, <<k0, 0, 0, 0>>) = Standard!Core(p, n \div 4)
      <4>1. x[2] ^^ 0 = x[2] /\ x[3] ^^ 0 = x[3] /\ x[4] ^^ 0 = x[4]
        BY <3>6, XorLaws
      <4>2. Standard!Core(p, n \div 4) = <<x[1] ^^ k0, x[2], x[3], x[4]>>
        BY <3>2, <3>5, StandardTables, StandardXor DEF Standard!Core
      <4> HIDE DEF x
      <4>3. XorWords(x, <<k0, 0, 0, 0>>) = <<x[1] ^^ k0, x[2] ^^ 0, x[3] ^^ 0, x[4] ^^ 0>>
        BY DEF XorWords
      <4>4. QED
        BY <4>1, <4>2, <4>3
    <3>8. fkey[n] = XorWords(fkey[n - 4], XorWords(x, <<k0, 0, 0, 0>>))
      BY <1>1, <2>1, <2>3 DEF NextWord, p, k0
    <3>9. QED
      BY <2>3, <3>7, <3>8, StandardAdd DEF p
  <2>4. QED
    BY <2>2, <2>3
<1>5. QED
  BY <1>1, <1>2, <1>3, <1>4 DEF Standard!IsSchedule

LEMMA StandardKeySteps ==
  ASSUME CipherInv, SetKey \/ ExpandKey \/ KeyExpanded
  PROVE  Standard!Next \/ UNCHANGED Standard!avars
<1>1. CASE SetKey \/ ExpandKey
  BY <1>1 DEF SetKey, ExpandKey, Standard!avars, Mode, RoundsDone, RoundsInv, CipherInv, Calls
<1>2. CASE KeyExpanded
  <2>1. Standard!IsSchedule(fkey, key)
    BY <1>2, StandardSchedule DEF KeyExpanded, CipherInv, CipherTypes, KeysInv
  <2>2. Standard!Expand
    BY <1>2, <2>1 DEF KeyExpanded, Standard!Expand, Mode, RoundsDone, RoundsInv, CipherInv, Calls
  <2>3. QED
    BY <2>2 DEF Standard!Next
<1>3. QED
  BY <1>1, <1>2

LEMMA StandardRounds ==
  ASSUME CipherInv, NEW d \in Calls, d = "encrypt" => EncryptRound, d = "decrypt" => DecryptRound
  PROVE  Standard!Next
<1>1. /\ stage = d /\ round \in 1..Nr
      /\ UNCHANGED <<key, block, fkey, rkey>>
      /\ IF round < Nr
         THEN text' = Middle(d, fkey, text, round)
              /\ round' = round + 1 /\ UNCHANGED <<stage, calls>>
         ELSE text' = Closing(d, fkey, text) /\ Return(d)
  BY RoundIs
<1>2. Nr = 10 /\ Nb = 4 /\ Standard!Rounds = 10 /\ text \in State /\ fkey \in KeyWords
  BY DEF Nr, Nb, Standard!Rounds, CipherInv, CipherTypes
<1>3. Mode = d /\ Mode # "new" /\ RoundsDone = round - 1 /\ RoundsDone < 10
  BY <1>1, <1>2 DEF Mode, RoundsDone, Calls
<1>4. ASSUME NEW s, NEW n PROVE Standard!AddRoundKey(s, n) = AddKey(s, fkey, n)
  BY <1>3, <1>2, StandardAdd DEF Standard!AddRoundKey, AddKey
<1> DEFINE s == Half(d, text)
<1>5. s \in State
  BY <1>2, HalfUndoes
<1>6. /\ d = "encrypt" => Standard!ShiftRows(Standard!Map(Standard!Sbox, text), 1) = s
      /\ d = "decrypt" => Standard!Map(Standard!InvSbox, Standard!ShiftRows(text, -1)) = s
  BY <1>2, StandardShift DEF Half
<1> HIDE DEF s
<1>7. CASE round < Nr
  <2>1. /\ text' = Middle(d, fkey, text, round) /\ round' = round + 1 /\ stage' = d
        /\ Mode' = d /\ RoundsDone' = round /\ RoundsDone' = RoundsDone + 1 /\ RoundsDone' # 10
        /\ Nr - round \in 0..Nr
    BY <1>1, <1>2, <1>3, <1>7 DEF Mode, RoundsDone, Calls
  <2>2. CASE d = "encrypt"
    <3>1. text' = Standard!AddRoundKey(MixAll(s), RoundsDone')
      BY <1>4, <2>1, <2>2 DEF Middle, s
    <3>2. Standard!MixColumns(s, Standard!Forth) = MixAll(s)
      BY <1>5, StandardMix
    <3>3. Standard!EncryptRound
      BY <1>1, <1>2, <1>3, <1>6, <2>1, <2>2, <3>1, <3>2 DEF Standard!EncryptRound
    <3>4. QED
      BY <3>3 DEF Standard!Next
  <2>3. CASE d = "decrypt"
    <3>1. AddKey(s, fkey, Nr - round) \in State
      BY <1>2, <1>5, <2>1, AddKeyUndoes
    <3>2. text' = UnmixAll(AddKey(s, fkey, Nr - round))
      BY <2>1, <2>3 DEF Middle, s
    <3>3. text' = Standard!MixColumns(AddKey(s, fkey, Nr - round), Standard!Back)
      BY <3>1, <3>2, StandardMix
    <3>4. AddKey(s, fkey, Nr - round) = Standard!AddRoundKey(s, Standard!Rounds - RoundsDone')
      BY <1>2, <1>4, <2>1
    <3>5. Standard!DecryptRound
      BY <1>1, <1>2, <1>3, <1>6, <2>1, <2>3, <3>3, <3>4 DEF Standard!DecryptRound
    <3>6. QED
      BY <3>5 DEF Standard!Next
  <2>4. QED
    BY <2>2, <2>3 DEF Calls
<1>8. CASE ~(round < Nr)
  <2>1. /\ text' = Closing(d, fkey, text) /\ stage' = "ready" /\ calls' # "none"
        /\ Mode' = "rest" /\ RoundsDone' = 10 /\ RoundsDone' = RoundsDone + 1
        /\ Standard!Rounds - RoundsDone' = 0
    BY <1>1, <1>2, <1>3, <1>8 DEF Mode, RoundsDone, Calls, Return
  <2>2. CASE d = "encrypt"
    <3>1. text' = Standard!AddRoundKey(s, RoundsDone')
      BY <1>2, <1>4, <2>1, <2>2 DEF Closing, s
    <3>2. Standard!EncryptRound
      BY <1>1, <1>2, <1>3, <1>6, <2>1, <2>2, <3>1 DEF Standard!EncryptRound
    <3>3. QED
      BY <3>2 DEF Standard!Next
  <2>3. CASE d = "decrypt"
    <3>1. text' = Standard!AddRoundKey(s, Standard!Rounds - RoundsDone')
      BY <1>2, <1>4, <2>1, <2>3 DEF Closing, s
    <3>2. Standard!DecryptRound
      BY <1>1, <1>2, <1>3, <1>6, <2>1, <2>3, <3>1 DEF Standard!DecryptRound
    <3>3. QED
      BY <3>2 DEF Standard!Next
  <2>4. QED
    BY <2>2, <2>3 DEF Calls
<1>9. QED
  BY <1>7, <1>8

LEMMA StandardBegins ==
  ASSUME CipherInv, NEW d \in Calls, d = "encrypt" => Encrypt, d = "decrypt" => Decrypt
  PROVE  Standard!Next
<1>1. /\ stage = "ready" /\ stage' = d /\ calls \notin {d, "both"} /\ round' = 1
      /\ text' = Opening(d, fkey, text)
      /\ UNCHANGED <<calls, key, block, fkey, rkey>>
  BY BeginIs
<1>2. Nr = 10 /\ Nb = 4 /\ Standard!Rounds = 10
  BY DEF Nr, Nb, Standard!Rounds
<1>3. Mode = "rest" /\ Mode' = d /\ d # "new" /\ RoundsDone' = 0
  BY <1>1 DEF Mode, RoundsDone, Calls
<1>4. ASSUME NEW s, NEW n PROVE Standard!AddRoundKey(s, n) = AddKey(s, fkey, n)
  BY <1>3, <1>2, StandardAdd DEF Standard!AddRoundKey, AddKey
<1>5. CASE d = "encrypt"
  <2>1. Standard!Encrypt
    BY <1>1, <1>3, <1>4, <1>5 DEF Standard!Encrypt, Opening
  <2>2. QED
    BY <2>1 DEF Standard!Next
<1>6. CASE d = "decrypt"
  <2>1. Standard!Decrypt
    BY <1>1, <1>2, <1>3, <1>4, <1>6 DEF Standard!Decrypt, Opening
  <2>2. QED
    BY <2>1 DEF Standard!Next
<1>7. QED
  BY <1>5, <1>6 DEF Calls

\* aes_set_key(), encrypt() and decrypt() take the steps of AES: after every round the
\* block is the one of the standard, which transforms no key.
THEOREM FollowsStandard == CipherSpec => StandardSpec
<1>1. CipherInit => Standard!Init
  BY StandardInit
<1>2. CipherInv /\ [CipherNext]_cipherVars => [Standard!Next]_Standard!avars
  <2>1. ASSUME UNCHANGED cipherVars PROVE UNCHANGED Standard!avars
    BY <2>1 DEF cipherVars, Standard!avars, Mode, RoundsDone
  <2>2. "encrypt" \in Calls /\ "decrypt" \in Calls /\ "encrypt" # "decrypt"
    BY DEF Calls
  <2>3. CipherInv /\ (Encrypt \/ Decrypt) => Standard!Next
    BY <2>2, StandardBegins
  <2>4. CipherInv /\ (EncryptRound \/ DecryptRound) => Standard!Next
    BY <2>2, StandardRounds
  <2>5. QED
    BY <2>1, <2>3, <2>4, StandardKeySteps DEF CipherNext
<1>3. QED
  BY <1>1, <1>2, CipherInvariant, PTL DEF CipherSpec, StandardSpec, Standard!Spec


----------------------------------------------------------------------------
(* Contents: the invariant                                                 *)

Working == {"decrypt", "encrypt"}

Types ==
  /\ pc \in {"read", "plain", "sealed"} \union Working
  /\ schedule \in Block /\ iv \in Block /\ ticket \in Tickets
  /\ size \in [Contents -> Sizes]
  /\ enc \in [Contents -> Buffer] /\ dec \in [Contents -> Buffer]
  /\ k \in Nat /\ b \in Nat

\* While contents are gone over, the schedule is that of this ticket's key and
\* the chaining block that of this content and place; aes_decrypt() takes it
\* from the encrypted content, aes_encrypt() keeps it.
ChainInv ==
  pc \in Working =>
    /\ schedule = ticket.key
    /\ Count > 0 =>
         /\ k < Count
         /\ iv = IF b = 0 \/ pc = "decrypt" THEN IndexBlock[k] ELSE BlockAt(enc[k], b - 1)

\* The blocks that were gone over are in step.
DoneInv ==
  pc \in Working =>
    \A c \in Contents : \A n \in 0..Whole(size[c]) - 1 :
      c < k \/ (c = k /\ n < b) => Chained(c, n)

\* The inductive invariant.
CbcInv == Types /\ ChainInv /\ DoneInv /\ InStep

----------------------------------------------------------------------------
(* Contents: blocks                                                        *)

LEMMA Constants ==
  /\ 0 \in Byte /\ BlockSize \in Nat \ {0} /\ Count \in Nat /\ Room \in Nat
  /\ Xor \in [Byte -> [Byte -> Byte]]
  /\ \A x, y \in Byte : Xor[x][y] = Xor[y][x] /\ Xor[Xor[x][y]][y] = x
  /\ CommonKey \in Block /\ IndexBlock \in [Contents -> Block]
  /\ Cipher \in [Block -> [Block -> Block]] /\ Decipher \in [Block -> [Block -> Block]]
  /\ \A x \in Block, y \in Block :
       Cipher[x][Decipher[x][y]] = y /\ Decipher[x][Cipher[x][y]] = y
  /\ Tickets \subseteq [key : Block, title : Block]
  /\ Buffers \subseteq Buffer
  /\ \A n \in Sizes : n \in Nat /\ Begun(n) * BlockSize <= Room
BY CbcAssumption

\* Exclusive or of blocks: its type, its symmetry, and that it undoes itself.
LEMMA XorUndoes ==
  ASSUME NEW x \in Block, NEW y \in Block
  PROVE  /\ XorBlock(x, y) \in Block
         /\ XorBlock(x, y) = XorBlock(y, x)
         /\ XorBlock(XorBlock(x, y), y) = x
<1>1. \A q \in 0..BlockSize - 1 : x[q] \in Byte /\ y[q] \in Byte
  BY DEF Block
<1>2. \A u, v \in Byte : Xor[u][v] \in Byte /\ Xor[u][v] = Xor[v][u] /\ Xor[Xor[u][v]][v] = u
  BY Constants
<1>3. XorBlock(x, y) \in Block
  BY <1>1, <1>2 DEF XorBlock, Block
<1>4. XorBlock(x, y) = XorBlock(y, x)
  BY <1>1, <1>2 DEF XorBlock
<1>5. XorBlock(XorBlock(x, y), y) = x
  <2>1. x = [q \in 0..BlockSize - 1 |-> x[q]]
    BY DEF Block
  <2>2. \A q \in 0..BlockSize - 1 : Xor[XorBlock(x, y)[q]][y[q]] = x[q]
    BY <1>1, <1>2 DEF XorBlock
  <2>. QED  BY <2>1, <2>2 DEF XorBlock
<1>. QED  BY <1>3, <1>4, <1>5

\* get_title_key() finds the key that was sealed.
LEMMA TitleKeyIsKey ==
  ASSUME ticket \in Tickets
  PROVE  TitleKey = ticket.key /\ ticket.key \in Block
<1>1. ticket.key \in Block /\ ticket.title \in Block
  BY Constants
<1>. DEFINE sealed == XorBlock(ticket.key, ticket.title)
<1>2. sealed \in Block /\ CommonKey \in Block
  BY <1>1, XorUndoes, Constants
<1>3. Decipher[CommonKey][SealedKey] = sealed
  BY <1>2, Constants DEF SealedKey
<1>4. TitleKey = XorBlock(ticket.title, sealed)
  BY <1>3 DEF TitleKey
<1>5. XorBlock(sealed, ticket.title) = ticket.key
  BY <1>1, XorUndoes
<1>6. XorBlock(ticket.title, sealed) = XorBlock(sealed, ticket.title)
  BY <1>1, <1>2, XorUndoes
<1>. QED  BY <1>1, <1>4, <1>5, <1>6

\* Blocks that are whole, and blocks that are begun.
LEMMA WholeBlocks ==
  ASSUME NEW n \in Nat
  PROVE  /\ Whole(n) \in Nat /\ Begun(n) \in Nat /\ n % BlockSize \in 0..BlockSize - 1
         /\ n = Whole(n) * BlockSize + (n % BlockSize)
         /\ Begun(n) * BlockSize + BlockSize > n + BlockSize - 1
<1>1. ASSUME NEW B \in Nat \ {0}, NEW m \in Nat
      PROVE  /\ m = (m \div B) * B + (m % B) /\ m % B \in 0..B - 1
             /\ m \div B \in Nat /\ (m \div B) * B + B > m
  OBVIOUS
<1>2. BlockSize \in Nat \ {0} /\ n + BlockSize - 1 \in Nat
  BY Constants
<1>. QED  BY <1>1, <1>2 DEF Whole, Begun

LEMMA Order ==
  ASSUME NEW x \in Nat, NEW y \in Nat
  PROVE  /\ x * BlockSize \in Nat /\ (x + 1) * BlockSize = x * BlockSize + BlockSize
         /\ x < y => x * BlockSize + BlockSize <= y * BlockSize
         /\ x <= y => x * BlockSize <= y * BlockSize
<1>1. BlockSize \in Nat  BY Constants
<1>2. x * BlockSize \in Nat /\ (x + 1) * BlockSize = x * BlockSize + BlockSize  BY <1>1
<1>3. ASSUME x < y  PROVE  x * BlockSize + BlockSize <= y * BlockSize
  <2>1. PICK d \in Nat : y = x + 1 + d  BY <1>3
  <2>2. y * BlockSize = x * BlockSize + BlockSize + d * BlockSize /\ d * BlockSize \in Nat
    BY <1>1, <2>1
  <2>. QED  BY <1>2, <2>2, <1>1
<1>4. ASSUME x <= y  PROVE  x * BlockSize <= y * BlockSize
  <2>1. CASE x = y  BY <1>2, <2>1
  <2>2. CASE x < y  BY <1>1, <1>2, <1>3, <2>2
  <2>. QED  BY <1>4, <2>1, <2>2
<1>. QED  BY <1>2, <1>3, <1>4

\* What there is of the next block.
LEMMA NextBlock ==
  ASSUME Types, More
  PROVE  /\ k \in Contents /\ size[k] \in Nat /\ b \in Nat /\ b * BlockSize \in Nat
         /\ Fraction \in 0..BlockSize
         /\ b * BlockSize + Fraction <= size[k]
         /\ b < Begun(size[k])
         /\ b * BlockSize + BlockSize <= Begun(size[k]) * BlockSize
         /\ Begun(size[k]) * BlockSize <= Room
         /\ b < Whole(size[k]) => Fraction = BlockSize
<1>1. /\ k \in Contents /\ size[k] \in Sizes /\ b \in Nat /\ BlockSize \in Nat \ {0}
      /\ b * BlockSize < size[k]
  BY Constants DEF Types, More, Contents
<1>2. size[k] \in Nat /\ Begun(size[k]) * BlockSize <= Room
  BY <1>1, Constants
<1>. DEFINE n == size[k]  w == Whole(n)  g == Begun(n)
<1>3. /\ w \in Nat /\ g \in Nat /\ n % BlockSize \in 0..BlockSize - 1
      /\ n = w * BlockSize + (n % BlockSize)
      /\ g * BlockSize + BlockSize > n + BlockSize - 1
  BY <1>2, WholeBlocks
<1>4. b * BlockSize \in Nat /\ w * BlockSize \in Nat /\ g * BlockSize \in Nat
  BY <1>1, <1>3, Order
<1>5. b < g
  <2>1. g <= b => g * BlockSize <= b * BlockSize  BY <1>1, <1>3, Order
  <2>. HIDE DEF n, w, g
  <2>2. g * BlockSize >= n  BY <1>1, <1>2, <1>3, <1>4 DEF n
  <2>. QED  BY <1>1, <1>2, <1>3, <1>4, <2>1, <2>2 DEF n
<1>6. b * BlockSize + BlockSize <= g * BlockSize
  BY <1>1, <1>3, <1>5, Order
<1>7. CASE b < w
  <2>1. Fraction = BlockSize  BY <1>7 DEF Fraction
  <2>2. b * BlockSize + BlockSize <= w * BlockSize  BY <1>1, <1>3, <1>7, Order
  <2>. HIDE DEF n, w, g
  <2>3. b * BlockSize + BlockSize <= n  BY <1>1, <1>3, <1>4, <2>2
  <2>. QED  BY <1>1, <1>2, <1>4, <1>5, <1>6, <1>7, <2>1, <2>3 DEF n, w, g
<1>8. CASE ~(b < w)
  <2>1. Fraction = n % BlockSize  BY <1>8 DEF Fraction
  <2>2. b = w
    <3>1. w < b => w * BlockSize + BlockSize <= b * BlockSize  BY <1>1, <1>3, Order
    <3>. HIDE DEF w, g
    <3>. QED  BY <1>1, <1>2, <1>3, <1>4, <1>8, <3>1
  <2>3. b * BlockSize + Fraction = n  BY <1>3, <2>1, <2>2
  <2>4. Fraction \in 0..BlockSize  BY <1>1, <1>3, <2>1
  <2>. QED  BY <1>1, <1>2, <1>4, <1>5, <1>6, <1>8, <2>3, <2>4
<1>. QED  BY <1>7, <1>8

\* A block that is put into a buffer leaves the others alone.
LEMMA PutBlock ==
  ASSUME NEW buf \in Buffer, NEW blk \in Block, NEW n \in 0..BlockSize,
         b \in Nat, b * BlockSize + n <= Room
  PROVE  /\ Put(buf, blk, n) \in Buffer
         /\ \A a \in 0..Room - 1 : Put(buf, blk, n)[a] # buf[a] =>
              b * BlockSize <= a /\ a < b * BlockSize + n
         /\ \A d \in Nat : d # b /\ d * BlockSize + BlockSize <= Room =>
              BlockAt(Put(buf, blk, n), d) = BlockAt(buf, d)
         /\ n = BlockSize => BlockAt(Put(buf, blk, n), b) = blk
<1>1. BlockSize \in Nat \ {0} /\ Room \in Nat /\ b * BlockSize \in Nat
  BY Constants, Order
<1>. DEFINE at == b * BlockSize  new == Put(buf, blk, n)
<1>2. new = [a \in 0..Room - 1 |-> IF at <= a /\ a < at + n THEN blk[a - at] ELSE buf[a]]
  BY DEF Put
<1>3. at \in Nat  BY <1>1
<1>. HIDE DEF at, new
<1>4. ASSUME NEW a \in 0..Room - 1, at <= a, a < at + n  PROVE  blk[a - at] \in Byte
  <2>1. a - at \in 0..BlockSize - 1  BY <1>1, <1>3, <1>4
  <2>. QED  BY <2>1 DEF Block
<1>5. new \in Buffer  BY <1>2, <1>4 DEF Buffer
<1>6. \A a \in 0..Room - 1 : new[a] # buf[a] => at <= a /\ a < at + n  BY <1>2
<1>7. ASSUME NEW d \in Nat, d # b, d * BlockSize + BlockSize <= Room
      PROVE  BlockAt(new, d) = BlockAt(buf, d)
  <2>1. ASSUME NEW q \in 0..BlockSize - 1
        PROVE  new[d * BlockSize + q] = buf[d * BlockSize + q]
    <3>. DEFINE to == d * BlockSize
    <3>1. to \in Nat /\ (d < b => to + BlockSize <= at) /\ (b < d => at + BlockSize <= to)
      BY Order DEF at
    <3>2. to + BlockSize <= Room  BY <1>7
    <3>. HIDE DEF to
    <3>3. to + q \in 0..Room - 1  BY <1>1, <3>1, <3>2
    <3>4. ~(at <= to + q /\ to + q < at + n)  BY <1>1, <1>3, <1>7, <3>1
    <3>5. new[to + q] = buf[to + q]  BY <1>2, <3>3, <3>4
    <3>. QED  BY <3>5 DEF to
  <2>. QED  BY <2>1 DEF BlockAt
<1>8. ASSUME n = BlockSize  PROVE  BlockAt(new, b) = blk
  <2>1. ASSUME NEW q \in 0..BlockSize - 1  PROVE  new[at + q] = blk[q]
    <3>1. at + BlockSize <= Room  BY <1>8 DEF at
    <3>2. /\ at + q \in 0..Room - 1 /\ at <= at + q /\ at + q < at + n /\ (at + q) - at = q
      BY <1>1, <1>3, <1>8, <3>1
    <3>. QED  BY <1>2, <3>2
  <2>2. blk = [q \in 0..BlockSize - 1 |-> blk[q]]  BY DEF Block
  <2>. QED  BY <2>1, <2>2 DEF BlockAt, at
<1>. QED  BY <1>5, <1>6, <1>7, <1>8 DEF at, new

\* Blocks of a buffer, and the next one completed.
LEMMA BlockTypes ==
  ASSUME NEW buf \in Buffer
  PROVE  \A d \in Nat : d * BlockSize + BlockSize <= Room => BlockAt(buf, d) \in Block
<1>1. SUFFICES ASSUME NEW d \in Nat, d * BlockSize + BlockSize <= Room
               PROVE  BlockAt(buf, d) \in Block
  OBVIOUS
<1>. DEFINE to == d * BlockSize
<1>2. to \in Nat /\ to + BlockSize <= Room /\ BlockSize \in Nat \ {0} /\ Room \in Nat
  BY <1>1, Order, Constants
<1>3. BlockAt(buf, d) = [q \in 0..BlockSize - 1 |-> buf[to + q]]  BY DEF BlockAt
<1>. HIDE DEF to
<1>4. \A q \in 0..BlockSize - 1 : to + q \in 0..Room - 1  BY <1>2
<1>5. \A q \in 0..BlockSize - 1 : buf[to + q] \in Byte  BY <1>4 DEF Buffer
<1>. QED  BY <1>3, <1>5 DEF Block

LEMMA TakenBlock ==
  ASSUME Types, More, NEW buf \in Buffer
  PROVE  /\ Taken(buf) \in Block
         /\ \A q \in 0..BlockSize - 1 : q < Fraction => buf[b * BlockSize + q] \in Byte
         /\ b < Whole(size[k]) => Taken(buf) = BlockAt(buf, b)
<1>1. /\ Fraction \in 0..BlockSize /\ b * BlockSize \in Nat /\ BlockSize \in Nat /\ Room \in Nat
      /\ b * BlockSize + BlockSize <= Room
      /\ b < Whole(size[k]) => Fraction = BlockSize
  <2>1. Begun(size[k]) * BlockSize \in Nat
    <3>1. Begun(size[k]) \in Nat  BY NextBlock, WholeBlocks
    <3>. QED  BY <3>1, Order
  <2>. QED  BY <2>1, NextBlock, Constants
<1>. DEFINE at == b * BlockSize
<1>2. \A q \in 0..BlockSize - 1 : at + q \in 0..Room - 1
  <2>1. at \in Nat /\ at + BlockSize <= Room  BY <1>1
  <2>. HIDE DEF at
  <2>. QED  BY <1>1, <2>1
<1>3. \A q \in 0..BlockSize - 1 : buf[at + q] \in Byte  BY <1>2 DEF Buffer
<1>4. Taken(buf) \in Block  BY <1>3, Constants DEF Taken, Block
<1>5. b < Whole(size[k]) => Taken(buf) = BlockAt(buf, b)
  BY <1>1 DEF Taken, BlockAt
<1>. QED  BY <1>3, <1>4, <1>5

----------------------------------------------------------------------------
(* The steps                                                               *)

LEMMA Initially == Init => CbcInv
<1>. SUFFICES ASSUME Init  PROVE  CbcInv
  OBVIOUS
<1>1. Types
  <2>1. iv \in Block /\ schedule \in Block /\ \A c \in Contents : dec[c] \in Buffer
    BY Constants DEF Init, Block, Buffer
  <2>. QED  BY <2>1, Constants DEF Init, Types
<1>. QED  BY <1>1 DEF Init, CbcInv, ChainInv, DoneInv, InStep, Working

LEMMA ReadWadStep == CbcInv /\ ReadWad => CbcInv'
<1>. SUFFICES ASSUME CbcInv, ReadWad  PROVE  CbcInv'
  OBVIOUS
<1>1. Types'
  BY Constants DEF CbcInv, Types, ReadWad
<1>. QED  BY <1>1 DEF ReadWad, CbcInv, ChainInv, DoneInv, InStep, Working

\* The start of a pass: nothing is gone over, and the chain begins anew.
LEMMA StartStep ==
  ASSUME Types, Types', pc' \in Working, ticket' = ticket,
         schedule' = TitleKey, k' = 0, b' = 0, Count > 0 => iv' = IndexBlock[0]
  PROVE  CbcInv'
<1>1. schedule' = ticket'.key
  BY TitleKeyIsKey DEF Types
<1>2. ChainInv'
  BY <1>1 DEF ChainInv
<1>3. DoneInv'
  <2>. SUFFICES ASSUME NEW c \in Contents
                PROVE  ~(c < 0) /\ \A n \in Int : n >= 0 => ~(c = 0 /\ n < 0)
    BY DEF DoneInv
  <2>. QED  BY Constants DEF Contents
<1>4. InStep'
  BY DEF InStep, Working
<1>. QED  BY <1>2, <1>3, <1>4 DEF CbcInv

LEMMA BeginStep == CbcInv /\ (DecryptIOS \/ EncryptIOS) => CbcInv'
<1>. SUFFICES ASSUME CbcInv, NEW from, NEW to \in Working, Start(from, to)  PROVE  CbcInv'
  BY DEF DecryptIOS, EncryptIOS, Working
<1>1. TitleKey \in Block
  BY TitleKeyIsKey DEF CbcInv, Types
<1>2. iv' \in Block
  BY Constants DEF CbcInv, Types, Start, Contents
<1>3. Types'
  BY <1>1, <1>2 DEF CbcInv, Types, Start
<1>. QED  BY <1>3, StartStep DEF CbcInv, Start

LEMMA PatchStep == CbcInv /\ PatchAndEncrypt => CbcInv'
<1>. SUFFICES ASSUME CbcInv, PatchAndEncrypt  PROVE  CbcInv'
  OBVIOUS
<1>1. TitleKey \in Block
  BY TitleKeyIsKey DEF CbcInv, Types
<1>2. PICK c \in Contents, new \in Buffers, n \in Sizes :
        dec' = [dec EXCEPT ![c] = new] /\ size' = [size EXCEPT ![c] = n]
  BY DEF PatchAndEncrypt
<1>3. IndexBlock[0] \in Block
  BY <1>2, Constants DEF Contents
<1>4. Types'
  BY <1>1, <1>2, <1>3, Constants DEF CbcInv, Types, PatchAndEncrypt, Working
<1>. QED  BY <1>4, StartStep DEF CbcInv, PatchAndEncrypt, Working

\* What is in step stays so when neither of its blocks is written.
LEMMA StaysChained ==
  ASSUME NEW c \in Contents, NEW n \in Nat, Chained(c, n), ticket' = ticket,
         BlockAt(enc[c], n)' = BlockAt(enc[c], n), BlockAt(dec[c], n)' = BlockAt(dec[c], n),
         n > 0 => BlockAt(enc[c], n - 1)' = BlockAt(enc[c], n - 1)
  PROVE  Chained(c, n)'
BY DEF Chained

\* The whole blocks of a content are in the memory that is modelled.
LEMMA WholeInRoom ==
  ASSUME Types, NEW c \in Contents, NEW n \in 0..Whole(size[c]) - 1
  PROVE  /\ n \in Nat /\ n * BlockSize + BlockSize <= Room
         /\ n > 0 => n - 1 \in Nat /\ (n - 1) * BlockSize + BlockSize <= Room
<1>1. size[c] \in Sizes /\ size[c] \in Nat /\ Begun(size[c]) * BlockSize <= Room
  BY Constants DEF Types
<1>. DEFINE m == size[c]  w == Whole(m)  g == Begun(m)
<1>2. /\ w \in Nat /\ g \in Nat /\ m % BlockSize \in 0..BlockSize - 1
      /\ m = w * BlockSize + (m % BlockSize)
      /\ g * BlockSize + BlockSize > m + BlockSize - 1
  BY <1>1, WholeBlocks
<1>3. n \in Nat /\ n < w
  BY <1>2
<1>4. n * BlockSize \in Nat /\ n * BlockSize + BlockSize <= w * BlockSize
      /\ w * BlockSize \in Nat /\ g * BlockSize \in Nat
  BY <1>2, <1>3, Order
<1>5. n * BlockSize + BlockSize <= Room
  <2>. DEFINE at == n * BlockSize  end == w * BlockSize  room == g * BlockSize
  <2>1. /\ at \in Nat /\ end \in Nat /\ room \in Nat /\ at + BlockSize <= end
        /\ end <= m /\ room + BlockSize > m + BlockSize - 1 /\ room <= Room
    <3>. HIDE DEF w, g
    <3>1. end <= m  BY <1>1, <1>2, <1>4
    <3>. QED  BY <1>1, <1>2, <1>4, <3>1 DEF g
  <2>. HIDE DEF at, end, room, m
  <2>2. m \in Nat /\ BlockSize \in Nat /\ Room \in Nat
    BY <1>1, Constants DEF m
  <2>. QED  BY ONLY <2>1, <2>2 DEF at
<1>6. n > 0 => n - 1 \in Nat /\ (n - 1) * BlockSize + BlockSize <= Room
  <2>. SUFFICES ASSUME n > 0  PROVE  n - 1 \in Nat /\ (n - 1) * BlockSize + BlockSize <= Room
    OBVIOUS
  <2>1. n - 1 \in Nat /\ n - 1 < n
    BY <1>3
  <2>2. (n - 1) * BlockSize \in Nat /\ (n - 1) * BlockSize + BlockSize <= n * BlockSize
    BY <2>1, <1>3, Order
  <2>. QED  BY <2>1, <2>2, <1>4, <1>5, Constants
<1>. QED  BY <1>3, <1>5, <1>6

\* After the next block of content k the blocks that were gone over are in step,
\* if the next one is and the others were left alone.
LEMMA OneMoreDone ==
  ASSUME Types, More, pc' = pc, DoneInv, pc \in Working, ticket' = ticket, size' = size,
         k' = k, b' = b + 1,
         \A c, n : c = k /\ n = b /\ b < Whole(size[k]) => Chained(c, n)',
         \A c \in Contents, n \in Nat :
           (c # k \/ n # b) /\ n * BlockSize + BlockSize <= Room =>
             /\ BlockAt(enc[c], n)' = BlockAt(enc[c], n)
             /\ BlockAt(dec[c], n)' = BlockAt(dec[c], n)
  PROVE  DoneInv'
<1>1. SUFFICES ASSUME NEW c \in Contents, NEW n \in 0..Whole(size[c]) - 1,
                      c < k \/ (c = k /\ n < b + 1)
               PROVE  Chained(c, n)'
  BY DEF DoneInv
<1>2. n \in Nat /\ b \in Nat /\ k \in Nat /\ c \in Nat
  BY WholeInRoom, Constants DEF Types, Contents
<1>3. CASE c = k /\ n = b
  <2>1. b < Whole(size[k])
    <3>1. Whole(size[k]) \in Nat  BY NextBlock, WholeBlocks
    <3>2. b \in 0..Whole(size[k]) - 1  BY <1>3
    <3>. QED  BY ONLY <3>1, <3>2
  <2>. QED  BY <1>3, <2>1
<1>4. CASE ~(c = k /\ n = b)
  <2>1. c < k \/ (c = k /\ n < b)
    BY <1>1, <1>2, <1>4
  <2>2. Chained(c, n)
    BY <2>1 DEF DoneInv
  <2>3. n > 0 => (c # k \/ n - 1 # b)
    BY <2>1, <1>2
  <2>4. BlockAt(enc[c], n)' = BlockAt(enc[c], n) /\ BlockAt(dec[c], n)' = BlockAt(dec[c], n)
    BY <1>4, <1>2, WholeInRoom
  <2>5. n > 0 => BlockAt(enc[c], n - 1)' = BlockAt(enc[c], n - 1)
    BY <2>3, WholeInRoom
  <2>. QED  BY <1>2, <2>2, <2>4, <2>5, StaysChained
<1>. QED  BY <1>3, <1>4

\* What encrypt() made and the chaining block give the block decrypt() is given.
LEMMA Decrypted ==
  ASSUME NEW ky \in Block, NEW before \in Block, NEW sealed \in Block
  PROVE  Cipher[ky][XorBlock(XorBlock(before, Decipher[ky][sealed]), before)] = sealed
<1>1. Decipher[ky][sealed] \in Block /\ Cipher[ky][Decipher[ky][sealed]] = sealed
  BY Constants
<1>2. XorBlock(before, Decipher[ky][sealed]) = XorBlock(Decipher[ky][sealed], before)
  BY <1>1, XorUndoes
<1>3. XorBlock(XorBlock(Decipher[ky][sealed], before), before) = Decipher[ky][sealed]
  BY <1>1, XorUndoes
<1>. QED  BY <1>1, <1>2, <1>3

\* The next block, and the one before it, are in the memory that is modelled.
LEMMA RoomForBlock ==
  ASSUME Types, More
  PROVE  /\ b * BlockSize + BlockSize <= Room /\ b * BlockSize + Fraction <= Room
         /\ b > 0 => b - 1 \in Nat /\ (b - 1) * BlockSize + BlockSize <= Room
<1>1. Begun(size[k]) * BlockSize \in Nat /\ b * BlockSize \in Nat
  BY NextBlock, WholeBlocks, Order
<1>2. b > 0 => b - 1 \in Nat /\ (b - 1) * BlockSize + BlockSize <= b * BlockSize
                 /\ (b - 1) * BlockSize \in Nat
  <2>1. b \in Nat /\ (b > 0 => b - 1 \in Nat /\ b - 1 < b)
    BY DEF Types
  <2>. QED  BY <2>1, Order
<1>3. /\ b * BlockSize + BlockSize <= Begun(size[k]) * BlockSize
      /\ Begun(size[k]) * BlockSize <= Room
      /\ k \in Contents /\ b \in Nat /\ Fraction \in 0..BlockSize
      /\ BlockSize \in Nat /\ Room \in Nat
  BY NextBlock, Constants
<1>. DEFINE at == b * BlockSize  end == Begun(size[k]) * BlockSize
<1>4. at \in Nat /\ end \in Nat /\ at + BlockSize <= end /\ end <= Room
  BY <1>1, <1>3
<1>. HIDE DEF at, end
<1>5. at + BlockSize <= Room /\ at + Fraction <= Room
  BY ONLY <1>3, <1>4
<1>6. b > 0 => b - 1 \in Nat /\ (b - 1) * BlockSize + BlockSize <= Room
  BY <1>2, <1>3, <1>4 DEF at
<1>. QED  BY <1>5, <1>6 DEF at

LEMMA DecryptStep == CbcInv /\ DecryptBlock => CbcInv'
<1>. SUFFICES ASSUME CbcInv, DecryptBlock  PROVE  CbcInv'
  OBVIOUS
<1>1. Types /\ More /\ pc = "decrypt" /\ Count > 0 /\ schedule = ticket.key
      /\ iv = IndexBlock[k]
  <2>1. k < Count /\ k \in Nat /\ Count \in Nat
    BY Constants DEF DecryptBlock, CbcInv, Types, More
  <2>. QED  BY <2>1 DEF CbcInv, DecryptBlock, ChainInv, Working
<1>. DEFINE before == IF b = 0 THEN iv ELSE BlockAt(enc[k], b - 1)
            plain == XorBlock(before, Decipher[schedule][Taken(enc[k])])
            new == Put(dec[k], plain, Fraction)
<1>2. /\ k \in Contents /\ b \in Nat /\ Fraction \in 0..BlockSize
      /\ b * BlockSize + BlockSize <= Room
      /\ b * BlockSize + Fraction <= Room
      /\ b > 0 => b - 1 \in Nat /\ (b - 1) * BlockSize + BlockSize <= Room
  BY <1>1, RoomForBlock, NextBlock
<1>3. enc[k] \in Buffer /\ dec[k] \in Buffer /\ schedule \in Block /\ iv \in Block
  BY <1>1, <1>2 DEF Types
<1>4. before \in Block
  <2>1. b > 0 => BlockAt(enc[k], b - 1) \in Block
    BY <1>2, <1>3, BlockTypes
  <2>. QED  BY <1>2, <1>3, <2>1
<1>5. Taken(enc[k]) \in Block /\ plain \in Block
  <2>1. Taken(enc[k]) \in Block
    BY <1>1, <1>3, TakenBlock
  <2>2. Decipher[schedule][Taken(enc[k])] \in Block
    BY <2>1, <1>3, Constants
  <2>. QED  BY <2>1, <2>2, <1>4, XorUndoes
<1>6. dec' = [dec EXCEPT ![k] = new]
  BY DEF DecryptBlock
<1>. HIDE DEF before, plain, new
<1>7. /\ new \in Buffer
      /\ \A d \in Nat : d # b /\ d * BlockSize + BlockSize <= Room =>
           BlockAt(new, d) = BlockAt(dec[k], d)
      /\ Fraction = BlockSize => BlockAt(new, b) = plain
  BY <1>2, <1>3, <1>5, PutBlock DEF new
<1>8. pc' = pc /\ schedule' = schedule /\ iv' = iv /\ ticket' = ticket /\ size' = size
      /\ enc' = enc /\ k' = k /\ b' = b + 1
  BY DEF DecryptBlock
<1>9. Types'
  <2>1. dec' \in [Contents -> Buffer]
    BY <1>1, <1>6, <1>7 DEF Types
  <2>. QED  BY <1>1, <1>2, <1>8, <2>1 DEF Types
<1>10. ChainInv'
  BY <1>1, <1>8 DEF ChainInv, CbcInv
<1>11. ASSUME NEW i, NEW n, i = k, n = b, b < Whole(size[k])  PROVE  Chained(i, n)'
  <2>1. Fraction = BlockSize /\ Taken(enc[k]) = BlockAt(enc[k], b)
    BY <1>1, <1>3, <1>11, NextBlock, TakenBlock
  <2>2. BlockAt(dec'[k], b) = plain
    BY <1>1, <1>2, <1>6, <1>7, <2>1 DEF Types
  <2>3. Cipher[schedule][XorBlock(plain, before)] = BlockAt(enc[k], b)
    BY <1>3, <1>4, <1>5, <2>1, Decrypted DEF plain
  <2>4. before = IF b = 0 THEN IndexBlock[k] ELSE BlockAt(enc[k], b - 1)
    BY <1>1 DEF before
  <2>. QED  BY <1>1, <1>8, <1>11, <2>2, <2>3, <2>4 DEF Chained
<1>12. ASSUME NEW c \in Contents, NEW n \in Nat, c # k \/ n # b,
              n * BlockSize + BlockSize <= Room
       PROVE  /\ BlockAt(enc[c], n)' = BlockAt(enc[c], n)
              /\ BlockAt(dec[c], n)' = BlockAt(dec[c], n)
  BY <1>1, <1>6, <1>7, <1>8, <1>12 DEF Types, BlockAt
<1>13. DoneInv'
  BY <1>1, <1>8, <1>11, <1>12, OneMoreDone DEF CbcInv, Working
<1>14. InStep'
  BY <1>1, <1>8 DEF InStep
<1>. QED  BY <1>9, <1>10, <1>13, <1>14 DEF CbcInv

LEMMA EncryptStep == CbcInv /\ EncryptBlock => CbcInv'
<1>. SUFFICES ASSUME CbcInv, EncryptBlock  PROVE  CbcInv'
  OBVIOUS
<1>1. Types /\ More /\ pc = "encrypt" /\ Count > 0 /\ schedule = ticket.key
      /\ iv = IF b = 0 THEN IndexBlock[k] ELSE BlockAt(enc[k], b - 1)
  <2>1. k < Count /\ k \in Nat /\ Count \in Nat
    BY Constants DEF EncryptBlock, CbcInv, Types, More
  <2>. QED  BY <2>1 DEF CbcInv, EncryptBlock, ChainInv, Working
<1>. DEFINE x == [q \in 0..BlockSize - 1 |->
                   IF q < Fraction THEN Xor[dec[k][b * BlockSize + q]][iv[q]] ELSE 0]
            sealed == Cipher[schedule][x]
            new == Put(enc[k], sealed, BlockSize)
<1>2. /\ k \in Contents /\ b \in Nat /\ BlockSize \in 0..BlockSize /\ BlockSize \in Nat
      /\ b * BlockSize + BlockSize <= Room
  BY <1>1, RoomForBlock, NextBlock, Constants
<1>3. enc[k] \in Buffer /\ dec[k] \in Buffer /\ schedule \in Block /\ iv \in Block
  BY <1>1, <1>2 DEF Types
<1>4. x \in Block /\ (b < Whole(size[k]) => x = XorBlock(BlockAt(dec[k], b), iv))
  <2>1. \A q \in 0..BlockSize - 1 : q < Fraction => dec[k][b * BlockSize + q] \in Byte
    BY <1>1, <1>3, TakenBlock
  <2>2. \A q \in 0..BlockSize - 1 : iv[q] \in Byte
    BY <1>3 DEF Block
  <2>3. x \in Block
    <3>1. 0 \in Byte /\ \A u, v \in Byte : Xor[u][v] \in Byte
      BY Constants
    <3>2. \A q \in 0..BlockSize - 1 : x[q] \in Byte
      BY <2>1, <2>2, <3>1
    <3>. QED  BY <3>2 DEF Block
  <2>4. ASSUME b < Whole(size[k])  PROVE  x = XorBlock(BlockAt(dec[k], b), iv)
    <3>1. Fraction = BlockSize
      BY <1>1, <2>4, NextBlock
    <3>. QED  BY <1>2, <3>1 DEF XorBlock, BlockAt
  <2>. QED  BY <2>3, <2>4
<1>5. sealed \in Block
  BY <1>3, <1>4, Constants
<1>6. enc' = [enc EXCEPT ![k] = new] /\ iv' = sealed
  BY DEF EncryptBlock
<1>. HIDE DEF x, sealed, new
<1>7. /\ new \in Buffer
      /\ \A d \in Nat : d # b /\ d * BlockSize + BlockSize <= Room =>
           BlockAt(new, d) = BlockAt(enc[k], d)
      /\ BlockAt(new, b) = sealed
  BY <1>2, <1>3, <1>5, PutBlock DEF new
<1>8. pc' = pc /\ schedule' = schedule /\ ticket' = ticket /\ size' = size
      /\ dec' = dec /\ k' = k /\ b' = b + 1
  BY DEF EncryptBlock
<1>9. Types'
  <2>1. enc' \in [Contents -> Buffer]
    BY <1>1, <1>6, <1>7 DEF Types
  <2>2. b + 1 \in Nat /\ iv' \in Block
    BY <1>2, <1>5, <1>6
  <2>. QED  BY <1>1, <1>8, <2>1, <2>2 DEF Types
<1>10. BlockAt(enc'[k], b) = sealed
  BY <1>1, <1>2, <1>6, <1>7 DEF Types
<1>11. ChainInv'
  <2>1. b + 1 # 0 /\ (b + 1) - 1 = b
    BY <1>2
  <2>2. iv' = BlockAt(enc'[k'], b' - 1)
    BY <1>6, <1>8, <1>10, <2>1
  <2>3. ChainInv' <=> (schedule' = ticket'.key
           /\ (Count > 0 => k' < Count
                 /\ iv' = IF b' = 0 \/ pc' = "decrypt" THEN IndexBlock[k']
                          ELSE BlockAt(enc'[k'], b' - 1)))
    BY <1>1, <1>8 DEF ChainInv, Working, BlockAt
  <2>. QED  BY <1>1, <1>8, <2>1, <2>2, <2>3 DEF More
<1>12. ASSUME NEW i, NEW n, i = k, n = b, b < Whole(size[k])  PROVE  Chained(i, n)'
  <2>1. sealed = Cipher[schedule][XorBlock(BlockAt(dec[k], b), iv)]
    BY <1>4, <1>12 DEF sealed
  <2>2. b > 0 => BlockAt(enc'[k], b - 1) = BlockAt(enc[k], b - 1)
    <3>. SUFFICES ASSUME b > 0  PROVE  BlockAt(enc'[k], b - 1) = BlockAt(enc[k], b - 1)
      OBVIOUS
    <3>1. b - 1 \in Nat /\ b - 1 # b /\ (b - 1) * BlockSize + BlockSize <= Room
      BY <1>1, <1>2, RoomForBlock
    <3>. QED  BY <1>1, <1>2, <1>6, <1>7, <3>1 DEF Types
  <2>3. iv = IF b = 0 THEN IndexBlock[k] ELSE BlockAt(enc'[k], b - 1)
    BY <1>1, <1>2, <2>2
  <2>. QED  BY <1>1, <1>8, <1>10, <1>12, <2>1, <2>3 DEF Chained
<1>13. ASSUME NEW c \in Contents, NEW n \in Nat, c # k \/ n # b,
              n * BlockSize + BlockSize <= Room
       PROVE  /\ BlockAt(enc[c], n)' = BlockAt(enc[c], n)
              /\ BlockAt(dec[c], n)' = BlockAt(dec[c], n)
  BY <1>1, <1>6, <1>7, <1>8, <1>13 DEF Types, BlockAt
<1>14. DoneInv'
  BY <1>1, <1>8, <1>12, <1>13, OneMoreDone DEF CbcInv, Working
<1>15. InStep'
  BY <1>1, <1>8 DEF InStep
<1>. QED  BY <1>9, <1>11, <1>14, <1>15 DEF CbcInv

\* When nothing is left of content k, all its whole blocks were gone over.
LEMMA ContentDone ==
  ASSUME CbcInv, pc \in Working, ~More, k < Count
  PROVE  \A n \in 0..Whole(size[k]) - 1 : n < b
<1>. SUFFICES ASSUME NEW n \in 0..Whole(size[k]) - 1  PROVE  n < b
  OBVIOUS
<1>. DEFINE m == size[k]  w == Whole(m)
<1>1. k \in Contents /\ m \in Nat /\ b \in Nat /\ BlockSize \in Nat \ {0}
  BY Constants DEF CbcInv, Types, Contents
<1>2. w \in Nat /\ m % BlockSize \in 0..BlockSize - 1 /\ m = w * BlockSize + (m % BlockSize)
  BY <1>1, WholeBlocks
<1>3. ~(b * BlockSize < m)
  BY DEF More
<1>4. b * BlockSize \in Nat /\ w * BlockSize \in Nat
      /\ (b < w => b * BlockSize + BlockSize <= w * BlockSize)
  BY <1>1, <1>2, Order
<1>5. ~(b < w)
  <2>. DEFINE at == b * BlockSize  end == w * BlockSize  rest == m % BlockSize
  <2>1. at \in Nat /\ end \in Nat /\ (b < w => at + BlockSize <= end) /\ ~(at < m)
        /\ rest \in 0..BlockSize - 1 /\ m = end + rest
    BY <1>2, <1>3, <1>4
  <2>. HIDE DEF at, end, rest, m, w
  <2>. QED  BY ONLY <1>1, <2>1
<1>6. n \in 0..w - 1
  OBVIOUS
<1>. HIDE DEF w, m
<1>. QED  BY ONLY <1>1, <1>2, <1>5, <1>6

LEMMA NextContentStep == CbcInv /\ NextContent => CbcInv'
<1>. SUFFICES ASSUME CbcInv, NextContent  PROVE  CbcInv'
  OBVIOUS
<1>1. pc \in Working /\ ~More /\ schedule' = schedule /\ ticket' = ticket /\ size' = size
      /\ enc' = enc /\ dec' = dec
  BY DEF NextContent, Working
<1>2. k \in Nat /\ b \in Nat /\ Count \in Nat /\ Contents = 0..Count - 1
  BY Constants DEF CbcInv, Types, Contents
<1>3. ASSUME NEW c \in Contents, NEW n \in 0..Whole(size[c]) - 1, c < k + 1
      PROVE  Chained(c, n)'
  <2>1. c \in Nat /\ c < Count
    BY <1>2
  <2>2. c < k \/ (c = k /\ n < b)
    BY <1>1, <1>2, <1>3, <2>1, ContentDone
  <2>3. Chained(c, n)
    BY <1>1, <2>2 DEF CbcInv, DoneInv
  <2>. QED  BY <1>1, <2>3 DEF Chained, BlockAt
<1>4. CASE k + 1 < Count
  <2>1. k' = k + 1 /\ b' = 0 /\ iv' = IndexBlock[k + 1] /\ pc' = pc
    BY <1>4 DEF NextContent
  <2>2. k + 1 \in Contents
    BY <1>2, <1>4
  <2>3. Types'
    <3>1. k + 1 \in Nat /\ 0 \in Nat /\ IndexBlock[k + 1] \in Block
      BY <1>2, <2>2, Constants
    <3>. QED  BY <1>1, <2>1, <3>1 DEF CbcInv, Types
  <2>4. ChainInv'
    BY <1>1, <1>4, <2>1 DEF CbcInv, ChainInv
  <2>5. DoneInv'
    <3>1. ASSUME NEW c \in Contents, NEW n \in 0..Whole(size[c]) - 1,
                 c < k + 1 \/ (c = k + 1 /\ n < 0)
          PROVE  Chained(c, n)'
      <4>1. ~(n < 0)
        OBVIOUS
      <4>. QED  BY <1>3, <3>1, <4>1
    <3>. QED  BY <1>1, <2>1, <3>1 DEF DoneInv
  <2>6. InStep'
    BY <1>1, <2>1 DEF InStep, Working
  <2>. QED  BY <2>3, <2>4, <2>5, <2>6 DEF CbcInv
<1>5. CASE ~(k + 1 < Count)
  <2>1. k' = k /\ b' = b /\ iv' = iv /\ pc' \in {"plain", "sealed"}
    BY <1>5 DEF NextContent
  <2>2. Types'
    BY <1>1, <2>1 DEF CbcInv, Types
  <2>3. ChainInv' /\ DoneInv'
    BY <2>1 DEF ChainInv, DoneInv, Working
  <2>4. InStep'
    <3>1. \A c \in Contents : c < k + 1
      BY <1>2, <1>5
    <3>. QED  BY <1>1, <1>3, <3>1 DEF InStep
  <2>. QED  BY <2>2, <2>3, <2>4 DEF CbcInv
<1>. QED  BY <1>4, <1>5

LEMMA CbcInduction == CbcInv /\ [Next]_vars => CbcInv'
<1>1. CbcInv /\ UNCHANGED vars => CbcInv'
  <2>. SUFFICES ASSUME CbcInv, UNCHANGED vars  PROVE  CbcInv'
    OBVIOUS
  <2>1. Types' /\ ChainInv'
    BY DEF vars, CbcInv, Types, ChainInv, BlockAt
  <2>2. \A c, n : Chained(c, n)' <=> Chained(c, n)
    BY DEF vars, Chained, BlockAt
  <2>3. DoneInv' /\ InStep'
    BY <2>2 DEF vars, CbcInv, DoneInv, InStep
  <2>. QED  BY <2>1, <2>3 DEF CbcInv
<1>. QED  BY <1>1, ReadWadStep, BeginStep, PatchStep, DecryptStep, EncryptStep, NextContentStep
       DEF Next

\* The inductive invariant holds in every state.
THEOREM CbcInvariant == Spec => []CbcInv
<1>. QED  BY Initially, CbcInduction, PTL DEF Spec

\* After a pass over the contents every whole block of every content is in step
\* with its other form, with the key of this ticket and the position of the
\* content: for every cipher, key, number and size of the contents.
THEOREM StaysInStep == Spec => []InStep
<1>1. CbcInv => InStep
  BY DEF CbcInv
<1>. QED  BY <1>1, CbcInvariant, PTL

\* What a step writes.
LEMMA WritesWithin ==
  ASSUME CbcInv, [Next]_vars, NEW c \in Contents, NEW a \in 0..Room - 1
  PROVE  /\ pc = "decrypt" => (dec'[c][a] # dec[c][a] => a < size[c])
         /\ pc = "encrypt" => (enc'[c][a] # enc[c][a] => a < Begun(size[c]) * BlockSize)
<1>1. CASE DecryptBlock
  <2>1. Types /\ More /\ pc = "decrypt"
    BY <1>1 DEF CbcInv, DecryptBlock
  <2>. DEFINE plain == XorBlock(IF b = 0 THEN iv ELSE BlockAt(enc[k], b - 1),
                                Decipher[schedule][Taken(enc[k])])
              new == Put(dec[k], plain, Fraction)
  <2>2. dec' = [dec EXCEPT ![k] = new]
    BY <1>1 DEF DecryptBlock
  <2>3. new[a] # dec[k][a] => a < b * BlockSize + Fraction
    BY DEF Put
  <2>. HIDE DEF new
  <2>4. /\ b * BlockSize + Fraction <= size[k] /\ k \in Contents
        /\ b * BlockSize \in Nat /\ Fraction \in Nat /\ size[k] \in Nat
    BY <2>1, NextBlock, Constants
  <2>5. new[a] # dec[k][a] => a < size[k]
    <3>. DEFINE at == b * BlockSize
    <3>. HIDE DEF at
    <3>1. new[a] # dec[k][a] => a < at + Fraction  BY <2>3 DEF at
    <3>2. at + Fraction <= size[k] /\ at \in Nat  BY <2>4 DEF at
    <3>. QED  BY <2>4, <3>1, <3>2
  <2>. QED  BY <2>1, <2>2, <2>4, <2>5 DEF Types
<1>2. CASE EncryptBlock
  <2>1. Types /\ More /\ pc = "encrypt"
    BY <1>2 DEF CbcInv, EncryptBlock
  <2>. DEFINE new == Put(enc[k], iv', BlockSize)
  <2>2. enc' = [enc EXCEPT ![k] = new]
    BY <1>2 DEF EncryptBlock
  <2>3. new[a] # enc[k][a] => a < b * BlockSize + BlockSize
    BY DEF Put
  <2>. HIDE DEF new
  <2>4. /\ b * BlockSize + BlockSize <= Begun(size[k]) * BlockSize /\ k \in Contents
        /\ b * BlockSize \in Nat /\ BlockSize \in Nat /\ Begun(size[k]) * BlockSize \in Nat
    BY <2>1, NextBlock, Constants, WholeBlocks, Order
  <2>5. new[a] # enc[k][a] => a < Begun(size[k]) * BlockSize
    <3>. DEFINE at == b * BlockSize  end == Begun(size[k]) * BlockSize
    <3>. HIDE DEF at, end
    <3>1. new[a] # enc[k][a] => a < at + BlockSize  BY <2>3 DEF at
    <3>2. at + BlockSize <= end /\ at \in Nat /\ end \in Nat /\ BlockSize \in Nat
      BY <2>4 DEF at, end
    <3>3. new[a] # enc[k][a] => a < end  BY <3>1, <3>2
    <3>. QED  BY <3>3 DEF end
  <2>. QED  BY <2>1, <2>2, <2>4, <2>5 DEF Types
<1>3. CASE ReadWad \/ DecryptIOS \/ EncryptIOS \/ PatchAndEncrypt
  BY <1>3 DEF ReadWad, DecryptIOS, EncryptIOS, Start, PatchAndEncrypt
<1>4. CASE NextContent \/ UNCHANGED vars
  BY <1>4 DEF NextContent, vars
<1>. QED  BY <1>1, <1>2, <1>3, <1>4 DEF Next

\* Decryption writes no byte behind the end of a content, encryption none behind
\* the blocks that the content has begun.
THEOREM WritesInBlocks == Spec => StaysInBlocks
<1>. DEFINE Within ==
       \A c \in Contents :
         /\ pc = "decrypt" =>
              \A a \in 0..Room - 1 : dec'[c][a] # dec[c][a] => a < size[c]
         /\ pc = "encrypt" =>
              \A a \in 0..Room - 1 : enc'[c][a] # enc[c][a] => a < Begun(size[c]) * BlockSize
<1>1. CbcInv /\ [Next]_vars => [Within]_vars
  BY WritesWithin
<1>2. Spec => [][Within]_vars
  BY <1>1, CbcInvariant, PTL DEF Spec
<1>. QED  BY <1>2 DEF StaysInBlocks
============================================================================
