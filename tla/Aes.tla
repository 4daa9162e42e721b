--------------------------------- MODULE Aes --------------------------------
(***************************************************************************)
(* AES-128 as its standard defines it, one round after the other over a    *)
(* state of four columns. It is what src/rijndael.c promises.              *)
(***************************************************************************)
EXTENDS AesBytes

CONSTANTS Keys, Blocks   \* sequences of 16 bytes

VARIABLES
  mode,   \* "new", "rest", "encrypt", "decrypt"
  round,  \* rounds that were done
  state,  \* state[c][r]: column c from 0, row r from 1
  key,
  schedule   \* the columns of the expanded key, one after the other

avars == <<mode, round, state, key, schedule>>

Rounds == 10

----------------------------------------------------------------------------
Columns(b) == [c \in 0..3 |-> [r \in 1..4 |-> b[4 * c + r]]]

Map(f, s) == [c \in 0..3 |-> [r \in 1..4 |-> f[s[c][r]]]]

\* Row r moves r - 1 columns to the left, if way is 1.
ShiftRows(s, way) == [c \in 0..3 |-> [r \in 1..4 |-> s[(c + way * (r - 1)) % 4][r]]]

\* Each column times the polynomial with these coefficients.
MixColumns(s, a) ==
  [c \in 0..3 |-> [r \in 1..4 |->
     LET part(n) == Product(a[1 + ((n - r) % 4)], s[c][n])
     IN  Xor4(part(1), part(2), part(3), part(4))]]

Forth == <<2, 3, 1, 1>>
Back == <<14, 11, 13, 9>>

AddColumns(a, b) == [r \in 1..4 |-> a[r] ^^ b[r]]

\* x^(n - 1)
RoundConstant == <<1, 2, 4, 8, 16, 32, 64, 128, 27, 54>>

\* A column through the S-box, one row up, with the constant of the round.
Core(p, n) ==
  <<Sbox[p[2]] ^^ RoundConstant[n], Sbox[p[3]], Sbox[p[4]], Sbox[p[1]]>>

\* There is exactly one such w.
IsSchedule(w, k) ==
  /\ w \in [0..4 * Rounds + 3 -> [1..4 -> Byte]]
  /\ \A c \in 0..3 : w[c] = Columns(k)[c]
  /\ \A n \in 4..4 * Rounds + 3 :
       w[n] = AddColumns(w[n - 4], IF n % 4 = 0 THEN Core(w[n - 1], n \div 4) ELSE w[n - 1])

AddRoundKey(s, n) == [c \in 0..3 |-> AddColumns(s[c], schedule[4 * n + c])]

----------------------------------------------------------------------------
Init ==
  /\ mode = "new" /\ round = 0 /\ schedule = << >>
  /\ \E b \in Blocks : state = Columns(b)
  /\ key \in Keys

Expand ==
  /\ mode = "new" /\ mode' = "rest" /\ IsSchedule(schedule', key)
  /\ UNCHANGED <<round, state, key>>

\* The key of the first round is added.
Encrypt ==
  /\ mode = "rest" /\ mode' = "encrypt" /\ round' = 0
  /\ state' = AddRoundKey(state, 0) /\ UNCHANGED <<key, schedule>>

EncryptRound ==
  /\ mode = "encrypt" /\ round < Rounds /\ round' = round + 1
  /\ LET s == ShiftRows(Map(Sbox, state), 1)
     IN  state' = AddRoundKey(IF round' = Rounds THEN s ELSE MixColumns(s, Forth), round')
  /\ mode' = (IF round' = Rounds THEN "rest" ELSE mode) /\ UNCHANGED <<key, schedule>>

Decrypt ==
  /\ mode = "rest" /\ mode' = "decrypt" /\ round' = 0
  /\ state' = AddRoundKey(state, Rounds) /\ UNCHANGED <<key, schedule>>

DecryptRound ==
  /\ mode = "decrypt" /\ round < Rounds /\ round' = round + 1
  /\ LET s == AddRoundKey(Map(InvSbox, ShiftRows(state, -1)), Rounds - round')
     IN  state' = IF round' = Rounds THEN s ELSE MixColumns(s, Back)
  /\ mode' = (IF round' = Rounds THEN "rest" ELSE mode) /\ UNCHANGED <<key, schedule>>

Next == Expand \/ Encrypt \/ EncryptRound \/ Decrypt \/ DecryptRound

Spec == Init /\ [][Next]_avars
============================================================================
