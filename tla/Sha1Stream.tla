----------------------------- MODULE Sha1Stream ----------------------------
(***************************************************************************)
(* SHA1Init(), SHA1Update() and SHA1Final() of src/sha1.c: how the bytes   *)
(* of a message, which may be given in any number of parts, are cut into   *)
(* blocks for SHA1Transform(), and how the message is padded. The digest   *)
(* is a function of the blocks that were transformed: they stand for it.   *)
(***************************************************************************)
EXTENDS Integers, Sequences

CONSTANTS
  Messages,  \* the messages there may be
  Block,     \* 64 bytes
  Word,      \* 2^32: the counter is two words
  LenSize,   \* 8 bytes of finalcount
  Base       \* 256 values of a byte

Mark == 128   \* "\200"
Junk == -1    \* a byte nobody wrote

ASSUME Sha1Assumption ==
  /\ Messages \subseteq Seq(Nat) /\ Base \in Nat \ {0}
  /\ LenSize \in Nat \ {0} /\ LenSize % 2 = 0 /\ Block \in Nat /\ LenSize < Block
  \* The 6 bits of the counter above the lowest 3 are a place in a block.
  /\ Word \in Nat \ {0} /\ \E k \in 1..Word : Word = 8 * Block * k

\* Half of finalcount is a word. The rest is arithmetic, but of a kind that the
\* provers do not know.
ASSUME PowerAssumption ==
  /\ Word = Base^(LenSize \div 2) /\ Base^1 = Base
  /\ \A m, n \in 0..LenSize : Base^n \in Nat \ {0} /\ Base^(m + n) = Base^m * Base^n

VARIABLES
  pc,       \* "idle" between calls of SHA1Update(), "blocks" in its loop, "done"
  stage,    \* "data" before SHA1Final(), "zeros", "length": what it does
  lo, hi,   \* count[0], count[1]
  buffer,   \* context->buffer
  data, i,  \* what SHA1Update() is given, and how much of it was used
  final,    \* finalcount
  hashed,   \* the bytes of the blocks that were transformed, in order
  msg,      \* the message
  fed       \* history: all that SHA1Update() was given

vars == <<pc, stage, lo, hi, buffer, data, i, final, hashed, msg, fed>>

\* Where the next byte goes.
Place == (lo \div 8) % Block

\* A bug this guards against: the last byte is forgotten.
CopyOneShort(b, a, d, k, n) ==
  [q \in 0..Block - 1 |-> IF a <= q /\ q < a + n - 1 THEN d[k + q - a] ELSE b[q]]

\* The n bytes of d from d[k] on are copied to b[a].
Copy(b, a, d, k, n) ==
  [q \in 0..Block - 1 |-> IF a <= q /\ q < a + n THEN d[k + q - a] ELSE b[q]]

AsBlock(b) == [q \in 1..Block |-> b[q - 1]]

\* len << 3
Bits(n) == (8 * n) % Word

\* A bug this guards against: the carry is found in the old value.
CarryOld(n) == lo < Bits(n)

\* count[0] was increased and is now less than what was added.
Carry(n) == (lo + Bits(n)) % Word < Bits(n)

AddCount(n) ==
  /\ lo' = (lo + Bits(n)) % Word
  /\ hi' = (hi + (IF Carry(n) THEN 1 ELSE 0) + n \div (Word \div 8)) % Word

----------------------------------------------------------------------------
(* SHA1Init() and SHA1Update()                                             *)

Init ==
  /\ pc = "idle" /\ stage = "data" /\ lo = 0 /\ hi = 0
  /\ buffer = [q \in 0..Block - 1 |-> Junk] /\ data = << >> /\ i = 0
  /\ final = << >> /\ hashed = << >> /\ msg \in Messages /\ fed = << >>

\* What is given fits into the buffer and does not fill it, or its beginning
\* completes a block.
Update(d) ==
  LET left == Block - Place
  IN  /\ pc = "idle"
      /\ AddCount(Len(d)) /\ fed' = fed \o d
      /\ \/ /\ Len(d) < left
            /\ buffer' = Copy(buffer, Place, d, 1, Len(d))
            /\ UNCHANGED <<pc, data, i, hashed>>
         \/ /\ Len(d) >= left
            /\ buffer' = Copy(buffer, Place, d, 1, left)
            /\ hashed' = hashed \o AsBlock(buffer')
            /\ data' = d /\ i' = left /\ pc' = "blocks"

\* A bug this guards against: the last whole block is kept for later.
MoreBlocksShort == i + Block < Len(data)

MoreBlocks == i + Block - 1 < Len(data)

\* A whole block is transformed from where it lies.
TransformBlock ==
  /\ pc = "blocks" /\ MoreBlocks
  /\ hashed' = hashed \o SubSeq(data, i + 1, i + Block)
  /\ i' = i + Block
  /\ UNCHANGED <<pc, stage, lo, hi, buffer, data, final, msg, fed>>

KeepRest ==
  /\ pc = "blocks" /\ ~MoreBlocks
  /\ buffer' = Copy(buffer, 0, data, i + 1, Len(data) - i)
  /\ pc' = "idle"
  /\ UNCHANGED <<stage, lo, hi, data, i, final, hashed, msg, fed>>

\* The caller gives the next n bytes of the message.
UpdateMessage ==
  /\ stage = "data" /\ Len(fed) < Len(msg)
  /\ \E n \in 1..Len(msg) - Len(fed) : Update(SubSeq(msg, Len(fed) + 1, Len(fed) + n))
  /\ UNCHANGED <<stage, final, msg>>

----------------------------------------------------------------------------
(* SHA1Final()                                                             *)

\* The counter as bytes, the highest first: hi, then lo.
FinalCount(h, l) ==
  LET half == LenSize \div 2
  IN  [k \in 1..LenSize |->
         ((IF k > half THEN l ELSE h) \div Base^((LenSize - k) % half)) % Base]

\* A bug this guards against: the counter is taken after the padding began.
FinalLate ==
  /\ stage = "data" /\ fed = msg
  /\ Update(<<Mark>>)
  /\ stage' = "zeros"
  /\ final' = FinalCount(hi', lo')
  /\ UNCHANGED msg

Final ==
  /\ stage = "data" /\ fed = msg
  /\ Update(<<Mark>>)
  /\ stage' = "zeros" /\ final' = FinalCount(hi, lo)
  /\ UNCHANGED msg

Padded == Place = Block - LenSize

PadZero ==
  /\ stage = "zeros" /\ ~Padded
  /\ Update(<<0>>)
  /\ UNCHANGED <<stage, final, msg>>

PadLength ==
  /\ stage = "zeros" /\ Padded
  /\ Update(final)
  /\ stage' = "length"
  /\ UNCHANGED <<final, msg>>

\* The digest is read and the context wiped.
Digest ==
  /\ pc = "idle" /\ stage = "length"
  /\ pc' = "done" /\ lo' = 0 /\ hi' = 0
  /\ buffer' = [q \in 0..Block - 1 |-> 0]
  /\ UNCHANGED <<stage, data, i, final, hashed, msg, fed>>

Next == \/ UpdateMessage \/ TransformBlock \/ KeepRest
        \/ Final \/ PadZero \/ PadLength \/ Digest

Spec == Init /\ [][Next]_vars

----------------------------------------------------------------------------
(* Properties                                                              *)

\* No byte of the buffer is transformed that was never written.
TypeOK ==
  /\ pc \in {"idle", "blocks", "done"} /\ stage \in {"data", "zeros", "length"}
  /\ lo \in 0..Word - 1 /\ hi \in 0..Word - 1
  /\ buffer \in [0..Block - 1 -> Nat \union {Junk}]
  /\ data \in Seq(Nat) /\ i \in 0..Len(data)
  /\ final \in Seq(Nat) /\ hashed \in Seq(Nat) /\ fed \in Seq(Nat)
  /\ msg \in Messages

\* Between two updates, however the message was cut into them, every byte given is
\* in a block that was transformed or in the buffer before Place, in order, and
\* the buffer has less than a block (sha1.c:118-130).
NothingLost ==
  pc = "idle" =>
    /\ Len(fed) = Len(hashed) + Place
    /\ \A q \in 1..Len(hashed) : hashed[q] = fed[q]
    /\ \A q \in 0..Place - 1 : buffer[q] = fed[Len(hashed) + q + 1]

\* The two words of the counter are the number of bits given, carries included,
\* though an update may add more than a word holds (sha1.c:119-120).
CountIsLength ==
  pc = "idle" => lo = (8 * Len(fed)) % Word /\ hi = ((8 * Len(fed)) \div Word) % Word

\* The number of bits of n bytes, the highest byte first.
LengthOf(n) == [k \in 1..LenSize |-> ((8 * n) \div Base^(LenSize - k)) % Base]

\* What is transformed in the end is the message padded as the standard has it:
\* one bit, as few zeros as complete the last block with the length, the length; and
\* nothing stays in the buffer. The length is that of the message alone.
PadsMessage ==
  pc = "done" =>
    LET n == Len(msg)
    IN  /\ SubSeq(hashed, 1, n) = msg
        /\ hashed[n + 1] = Mark
        /\ Len(hashed) % Block = 0 /\ Len(hashed) < n + 1 + LenSize + Block
        /\ \A q \in n + 2..Len(hashed) - LenSize : hashed[q] = 0
        /\ SubSeq(hashed, Len(hashed) - LenSize + 1, Len(hashed)) = LengthOf(n)
============================================================================
