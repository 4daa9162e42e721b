------------------------------ MODULE MCRijndael ----------------------------
(* The key and the block of an example of the standard, and others.        *)
EXTENDS Rijndael

Counted == [n \in 1..16 |-> n - 1]

MCKeys == {Counted, [n \in 1..16 |-> 0], [n \in 1..16 |-> 255 - 13 * n]}

MCBlocks == {[n \in 1..16 |-> 17 * (n - 1)], [n \in 1..16 |-> 0],
             [n \in 1..16 |-> IF n = 5 THEN 1 ELSE 0]}

\* The example of the standard: 00112233..ff by the key 000102..0f.
Example ==
  stage = "ready" /\ calls = "encrypt" /\ key = Counted /\ block[16] = 255 =>
    <<text[0], text[1], text[2], text[3]>> =
      <<<<105, 196, 224, 216>>, <<106, 123, 4, 48>>, <<216, 205, 183, 128>>, <<112, 180, 197, 90>>>>
============================================================================
