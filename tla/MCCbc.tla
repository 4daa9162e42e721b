------------------------------- MODULE MCCbc -------------------------------
(* Bytes of one bit, blocks of two bytes, and a cipher without structure.  *)
EXTENDS Cbc

MCXor == [x \in 0..1 |-> [y \in 0..1 |-> (x + y) % 2]]

Pair(n) == [q \in 0..1 |-> IF q = 0 THEN n \div 2 ELSE n % 2]
Number(x) == 2 * x[0] + x[1]

\* A permutation of the four blocks for each of the four keys.
Tables == <<(<<2, 0, 3, 1>>), (<<1, 3, 0, 2>>), (<<3, 2, 1, 0>>), (<<0, 2, 3, 1>>)>>

MCCipher == [x \in [0..1 -> 0..1] |-> [y \in [0..1 -> 0..1] |->
               Pair(Tables[Number(x) + 1][Number(y) + 1])]]
MCDecipher == [x \in [0..1 -> 0..1] |-> [y \in [0..1 -> 0..1] |->
                 CHOOSE z \in [0..1 -> 0..1] : MCCipher[x][z] = y]]

MCCommonKey == Pair(1)
MCIndexBlock == [c \in 0..1 |-> Pair(c)]
MCTickets == {[key |-> Pair(2), title |-> Pair(3)], [key |-> Pair(3), title |-> Pair(1)]}

\* Equal blocks, different ones, and one that is like the next content's index.
MCBuffers == {[a \in 0..5 |-> IF a \in ones THEN 1 ELSE 0] : ones \in {{}, {0, 1, 2, 3}, {1, 2}, {0, 3, 4}}}
============================================================================
