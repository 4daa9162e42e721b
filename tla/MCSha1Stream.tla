---------------------------- MODULE MCSha1Stream ---------------------------
(* Messages of every length up to MaxLength, each byte another one.        *)
EXTENDS Sha1Stream

CONSTANT MaxLength

MCMessages == {[q \in 1..n |-> 200 + q] : n \in 0..MaxLength}
============================================================================
