---------------------------- MODULE MCBytePatch ----------------------------
(* Contents in a memory of a few bytes, with every pattern in every place. *)
EXTENDS BytePatch

\* As in the code: one is longer than Cut by two and changes its last byte,
\* the other is as long as Cut and changes all.
MCPatches == {[old |-> <<1, 1, 2, 0>>, new |-> <<1, 1, 2, 3>>],
              [old |-> <<1, 0>>, new |-> <<3, 3>>]}

MCMemories == [0..MemTop -> 0..2]
============================================================================
