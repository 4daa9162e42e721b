---------------------------- MODULE ExclusiveOr ----------------------------
(***************************************************************************)
(* Exclusive or of bytes, from that of bits: a table for numbers of twice  *)
(* as many bits is made of the one for their halves.                       *)
(***************************************************************************)
EXTENDS Integers

\* table is that of the numbers below size.
Doubled(table, size) ==
  [a \in 0..size * size - 1 |-> [c \in 0..size * size - 1 |->
     size * table[a \div size][c \div size] + table[a % size][c % size]]]

OfBits == [a \in 0..1 |-> [c \in 0..1 |-> IF a = c THEN 0 ELSE 1]]
OfPairs == Doubled(OfBits, 2)
OfNibbles == Doubled(OfPairs, 4)
OfBytes == Doubled(OfNibbles, 16)

a ^^ c == OfBytes[a][c]

Xor4(a, c, d, e) == ((a ^^ c) ^^ d) ^^ e
============================================================================
