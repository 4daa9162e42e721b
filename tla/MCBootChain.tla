---------------------------- MODULE MCBootChain ----------------------------
(***************************************************************************)
(* Small instances of BootChain. The addresses of test.c:33 are 0x200020,  *)
(* 0x200040, 0x300020 and 0x1fffc0 bytes apart, and the legacy marker at   *)
(* 0x807fffe0 lies in the gap behind 0x80700060, that of copy 2.           *)
(***************************************************************************)
EXTENDS BootInv

\* The gaps in steps of a megabyte: two, two, three and two cells.
MCBase == [c \in Copies |-> CASE c = 0 -> 0 [] c = 1 -> 2 [] c = 2 -> 4
                              [] c = 3 -> 7 [] c = 4 -> 9]

\* Four gaps of different sizes, ordered as those of the code: three, four, five
\* and two cells. The one behind copy 3 is the smallest, that behind copy 0 is next.
OrderedBase == [c \in Copies |-> CASE c = 0 -> 0 [] c = 1 -> 3 [] c = 2 -> 7
                                   [] c = 3 -> 12 [] c = 4 -> 14]

\* A payload of whole words that fits, one with a ragged last word, and one that
\* is longer than the gaps behind copies 0 and 3 of OrderedBase but than no other,
\* as a file of 0x200021 to 0x200040 bytes is.
Dol       == [size |-> [cells |-> 2, tail |-> FALSE],
              data |-> [i \in 0..1 |-> IF i = 0 THEN "a" ELSE "b"]]
RaggedDol == [size |-> [cells |-> 2, tail |-> TRUE],
              data |-> [i \in 0..1 |-> IF i = 0 THEN "b" ELSE "a"]]
BigDol    == [size |-> [cells |-> 4, tail |-> FALSE],
              data |-> [i \in 0..3 |-> IF i = 0 THEN "a" ELSE "b"]]

FittingDols == {Dol, RaggedDol}
BigDols     == {BigDol}
============================================================================
