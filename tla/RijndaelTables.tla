--------------------------- MODULE RijndaelTables --------------------------
(***************************************************************************)
(* gentables() and gkey() of src/rijndael.c, with a block and a key of     *)
(* four words, the only ones aes_set_key() asks for. A word is a sequence  *)
(* of its four bytes, the lowest first, as pack() makes it. The tables are *)
(* filled with the same every time: they are no variables.                 *)
(***************************************************************************)
EXTENDS ExclusiveOr, Sequences

U8 == 0..255
Nb == 4
Nk == 4
Nr == 6 + Nb
N == Nb * (Nr + 1)

----------------------------------------------------------------------------
(* gentables()                                                             *)

xtime(a) == ((2 * a) % 256) ^^ (IF a >= 128 THEN 27 ELSE 0)

\* The values in n rounds of a loop that begins with 1, the second half of the rounds
\* after the first.
Loop(step, n) ==
  LET values[m \in 1..n] == [y \in U8 |->
        IF m = 1 THEN <<y>>
        ELSE LET first == values[m \div 2][y]
             IN  first \o values[m - m \div 2][step[first[m \div 2]]]]
  IN  values[n][1]

\* Powers of 3 and of 2.
Powers == Loop([y \in U8 |-> y ^^ xtime(y)], 256)
Doubles == Loop([y \in U8 |-> xtime(y)], 30)

\* What a table is made of is named by LET, for it to be computed once.
ptab == LET p == Powers IN [n \in U8 |-> p[n + 1]]
rco == LET p == Doubles IN [n \in 0..29 |-> p[n + 1]]

\* ltab[1] is set to 0 first and to 255 last.
ltab == LET p == Powers
        IN  [y \in U8 |-> IF y = 0 THEN 0 ELSE CHOOSE n \in 1..255 : p[n + 1] = y]

\* By tables of powers and logarithms.
bmulBy(p, l, a, b) == IF a = 0 \/ b = 0 THEN 0 ELSE p[(l[a] + l[b]) % 255]
bmul(a, b) == bmulBy(ptab, ltab, a, b)

ROTL(a) == ((2 * a) % 256) + a \div 128

\* y is the multiplicative inverse.
ByteSub(y) ==
  LET z == ROTL(y)
      w == ROTL(z)
      v == ROTL(w)
  IN  (Xor4(y, z, w, v) ^^ ROTL(v)) ^^ 99

fbsub == LET p == ptab
             l == ltab
         IN  [a \in U8 |-> IF a = 0 THEN 99 ELSE ByteSub(p[255 - l[a]])]

rbsub == LET f == fbsub
             graph == {<<a, f[a]>> : a \in U8}
         IN  [y \in U8 |-> CHOOSE a \in U8 : <<a, y>> \in graph]

InCo == <<11, 13, 9, 14>>

ftable == LET f == fbsub
          IN  [a \in U8 |-> <<xtime(f[a]), f[a], f[a], f[a] ^^ xtime(f[a])>>]

rtable == LET p == ptab
              l == ltab
              r == rbsub
          IN  [a \in U8 |-> [q \in 1..4 |-> bmulBy(p, l, InCo[5 - q], r[a])]]

----------------------------------------------------------------------------
(* gkey()                                                                  *)

Word(bytes, n) == [q \in 1..4 |-> bytes[4 * n + q]]
Words(bytes) == [n \in 0..Nb - 1 |-> Word(bytes, n)]

XorWords(a, c) == [q \in 1..4 |-> a[q] ^^ c[q]]

\* ROTL8, ROTL16 and ROTL24 for n = 1, 2 and 3.
RotateWord(w, n) == [q \in 1..4 |-> w[1 + ((q - 1 - n) % 4)]]

SubByte(w) == [q \in 1..4 |-> fbsub[w[q]]]

product(a, c) ==
  Xor4(bmul(a[1], c[1]), bmul(a[2], c[2]), bmul(a[3], c[3]), bmul(a[4], c[4]))

\* The coefficients are rotated once for each byte from the last to the first.
InvMixCol(w) == [q \in 1..4 |-> product(RotateWord(InCo, 3 * (4 - q)), w)]

\* A bug this guards against: the constant of a round is taken too late.
NextWordLate(f, n) ==
  XorWords(f[n - Nk],
    IF n % Nk # 0 THEN f[n - 1]
    ELSE XorWords(SubByte(RotateWord(f[n - 1], 3)), <<rco[n \div Nk], 0, 0, 0>>))

\* Word n of the expanded key, from those before.
NextWord(f, n) ==
  XorWords(f[n - Nk],
    IF n % Nk # 0 THEN f[n - 1]
    ELSE XorWords(SubByte(RotateWord(f[n - 1], 3)), <<rco[n \div Nk - 1], 0, 0, 0>>))

\* A bug this guards against: the key of the last round is transformed too.
ReverseKeyLong(f) ==
  [n \in 0..N - 1 |->
     LET w == f[N - Nb - (n - (n % Nb)) + (n % Nb)] IN IF n < Nb THEN w ELSE InvMixCol(w)]

\* The keys of the rounds in reverse order, all but the first and last transformed.
ReverseKey(f) ==
  [n \in 0..N - 1 |->
     LET w == f[N - Nb - (n - (n % Nb)) + (n % Nb)]
     IN  IF n < Nb \/ n >= N - Nb THEN w ELSE InvMixCol(w)]
============================================================================
