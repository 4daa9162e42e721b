------------------------------ MODULE Rijndael -----------------------------
(***************************************************************************)
(* aes_set_key(), encrypt() and decrypt() of src/rijndael.c, a round of    *)
(* the cipher as a step.                                                   *)
(***************************************************************************)
EXTENDS RijndaelTables

CONSTANTS Keys, Blocks   \* sequences of 16 bytes

VARIABLES
  stage,       \* "set", "expand", "ready", "encrypt", "decrypt"
  calls,       \* of encrypt() and decrypt() that returned: "none", one of them or "both"
  key, block,  \* the key, and the block before the calls
  fkey, rkey,
  text,        \* the words of the block
  round        \* the round, or the word of the key

cipherVars == <<stage, calls, key, block, fkey, rkey, text, round>>

ASSUME RijndaelAssumption == Keys \union Blocks \subseteq [1..4 * Nb -> U8]

----------------------------------------------------------------------------
CipherInit ==
  /\ stage = "set" /\ calls = "none" /\ key \in Keys /\ block \in Blocks
  /\ fkey = [n \in 0..N - 1 |-> [q \in 1..4 |-> 0]] /\ rkey = fkey
  /\ text = Words(block) /\ round = 0

\* aes_set_key(): gkey() takes the words of the key,
SetKey ==
  /\ stage = "set" /\ stage' = "expand" /\ round' = Nk
  /\ fkey' = [n \in 0..N - 1 |-> IF n < Nk THEN Word(key, n) ELSE fkey[n]]
  /\ UNCHANGED <<calls, key, block, rkey, text>>

\* adds one word after the other,
ExpandKey ==
  /\ stage = "expand" /\ round < N
  /\ fkey' = [fkey EXCEPT ![round] = NextWord(fkey, round)]
  /\ round' = round + 1
  /\ UNCHANGED <<stage, calls, key, block, rkey, text>>

\* and makes the keys of decryption.
KeyExpanded ==
  /\ stage = "expand" /\ round = N
  /\ stage' = "ready" /\ round' = 0 /\ rkey' = ReverseKey(fkey)
  /\ UNCHANGED <<calls, key, block, fkey, text>>

----------------------------------------------------------------------------
(* encrypt() and decrypt()                                                 *)

\* The four bytes that make word j of the next state, by way = 1 or -1: one of each of
\* the words j, fi[3j], fi[3j + 1] and fi[3j + 2], or ri[..].
Picked(j, way) == [q \in 1..4 |-> text[(j + way * (q - 1)) % Nb][q]]

TableRound(table, keys, way) ==
  [j \in 0..Nb - 1 |->
     LET w == [q \in 1..4 |-> RotateWord(table[Picked(j, way)[q]], q - 1)]
     IN  [q \in 1..4 |-> keys[Nb * round + j][q] ^^ Xor4(w[1][q], w[2][q], w[3][q], w[4][q])]]

LastRound(table, keys, way) ==
  [j \in 0..Nb - 1 |->
     XorWords(keys[Nb * round + j], [q \in 1..4 |-> table[Picked(j, way)[q]]])]

\* The first words of the key are added. A block goes once through each function,
\* in any order.
Begin(call, keys) ==
  /\ stage = "ready" /\ calls \notin {call, "both"} /\ stage' = call
  /\ text' = [j \in 0..Nb - 1 |-> XorWords(text[j], keys[j])] /\ round' = 1
  /\ UNCHANGED <<calls, key, block, fkey, rkey>>

Return(call) ==
  /\ stage' = "ready" /\ round' = 0
  /\ calls' = IF calls = "none" THEN call ELSE "both"

\* A bug this guards against: a round more is done with the table.
RoundLong(call, table, last, keys, way) ==
  /\ stage = call
  /\ text' = TableRound(table, keys, way)
  /\ IF round < Nr THEN round' = round + 1 /\ UNCHANGED <<stage, calls>> ELSE Return(call)
  /\ UNCHANGED <<key, block, fkey, rkey>>

Round(call, table, last, keys, way) ==
  /\ stage = call
  /\ IF round < Nr
     THEN text' = TableRound(table, keys, way) /\ round' = round + 1 /\ UNCHANGED <<stage, calls>>
     ELSE text' = LastRound(last, keys, way) /\ Return(call)
  /\ UNCHANGED <<key, block, fkey, rkey>>

Encrypt == Begin("encrypt", fkey)
EncryptRound == Round("encrypt", ftable, fbsub, fkey, 1)
Decrypt == Begin("decrypt", rkey)
DecryptRound == Round("decrypt", rtable, rbsub, rkey, -1)

CipherNext == \/ SetKey \/ ExpandKey \/ KeyExpanded
              \/ Encrypt \/ EncryptRound \/ Decrypt \/ DecryptRound

CipherSpec == CipherInit /\ [][CipherNext]_cipherVars

----------------------------------------------------------------------------
(* Properties                                                              *)

Mode == IF stage \in {"set", "expand"} THEN "new" ELSE IF stage = "ready" THEN "rest" ELSE stage

RoundsDone == IF Mode \in {"encrypt", "decrypt"} THEN round - 1
              ELSE IF calls = "none" THEN 0 ELSE Nr

Standard == INSTANCE Aes
  WITH mode <- Mode, round <- RoundsDone, state <- text,
       schedule <- IF Mode = "new" THEN << >> ELSE fkey

\* Every round, forth and back, leaves the block as the standard has it after that round:
\* the tables are what they must be, keys that were transformed and taken in
\* reverse order undo those of encryption (rijndael.c:125-335).
StandardSpec == Standard!Spec

\* What is encrypted can be decrypted, and what is decrypted encrypted again: all
\* that Cbc assumes of the two (rijndael.c:244-335).
CallsUndo == calls = "both" => text = Words(block)

----------------------------------------------------------------------------
(* The tables                                                              *)

\* What a round makes of a byte y from the S-box, and of four of them.
Column(y) == <<xtime(y), y, y, y ^^ xtime(y)>>
Mixed(w) ==
  [q \in 1..4 |-> Xor4(RotateWord(Column(w[1]), 0)[q], RotateWord(Column(w[2]), 1)[q],
                       RotateWord(Column(w[3]), 2)[q], RotateWord(Column(w[4]), 3)[q])]

\* The word with byte m and zeros.
Single(a, m) == [q \in 1..4 |-> IF q = m THEN a ELSE 0]

\* What a proof needs to know of the tables of gentables() and of the standard's
\* S-boxes and products. All of it is computed, entry by entry.
ASSUME TablesAssumption ==
  /\ fbsub \in [U8 -> U8] /\ rbsub \in [U8 -> U8]
  /\ \A a \in U8 : rbsub[fbsub[a]] = a /\ fbsub[rbsub[a]] = a
  /\ \A a \in U8 : xtime(a) \in U8
  /\ \A n \in 0..Nr - 1 : rco[n] \in U8
  /\ \A q \in 1..4, a \in U8 : bmul(InCo[q], a) \in U8
  /\ \A a, c \in U8 :
       LET s == a ^^ c
       IN  /\ xtime(s) = xtime(a) ^^ xtime(c)
           /\ \A q \in 1..4 : bmul(InCo[q], s) = bmul(InCo[q], a) ^^ bmul(InCo[q], c)
  /\ \A a \in U8, m \in 1..4 : /\ InvMixCol(Mixed(Single(a, m))) = Single(a, m)
                               /\ Mixed(InvMixCol(Single(a, m))) = Single(a, m)
  /\ fbsub = Standard!Sbox /\ rbsub = Standard!InvSbox
  /\ \A a \in U8 : Standard!Product(1, a) = a /\ Standard!Product(2, a) = xtime(a)
                   /\ Standard!Product(3, a) = a ^^ xtime(a)
  /\ \A a \in 1..255 : Standard!Product(a, Standard!ByteInverse(a)) = 1
  /\ \A a \in U8, q \in 1..4 : Standard!Product(InCo[q], a) = bmul(InCo[q], a)
  /\ \A n \in 0..Nr - 1 : rco[n] = Standard!RoundConstant[n + 1]
============================================================================
