------------------------------- MODULE Ecc -------------------------------
(***************************************************************************)
(* The error correction of lib/cmios/src/ecc.c: what one round of the loop *)
(* of correctErrors() leaves in copy 0, given the word each of the five    *)
(* copies of the payload holds at that position.                           *)
(***************************************************************************)
EXTENDS Naturals

\* The payloads that correctErrors() and verify() read: p[0] .. p[4].
Copies == 0..4

\* A bug this guards against: the pair (1, 3) is never compared.
CorrectedWithout13(w) ==
  IF w[0] # w[2] /\ w[2] = w[4] THEN w[2]
  ELSE IF w[0] # w[1] /\ w[1] = w[2] THEN w[1]
  ELSE w[0]

\* The three branches in the order of the code; the second and the third
\* both store p[1].
Corrected(w) ==
  IF w[0] # w[2] /\ w[2] = w[4] THEN w[2]
  ELSE IF w[0] # w[1] /\ w[1] \in {w[3], w[2]} THEN w[1]
  ELSE w[0]

---------------------------------------------------------------------------
(* What the algorithm can be relied on for; v is the word that was written *)

\* No two of the copies the algorithm compares with each other hold the same
\* wrong word.
Independent(w, v) ==
  \A c, d \in 1..4 : (c # d /\ w[c] = w[d]) => w[c] = v

\* Some pair the code compares is intact, or copy 0 never was damaged.
Reachable(w, v) ==
  \/ w[0] = v
  \/ w[2] = v /\ w[4] = v
  \/ w[1] = v /\ (w[3] = v \/ w[2] = v)

Recoverable(w, v) == Independent(w, v) /\ Reachable(w, v)

\* At most two copies are damaged.
AtMostTwoDamaged(w, v) ==
  \E c, d \in Copies : \A e \in Copies \ {c, d} : w[e] = v
===========================================================================
