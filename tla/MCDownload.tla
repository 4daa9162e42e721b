----------------------------- MODULE MCDownload ----------------------------
(* What the server has: a title with a module, good or bad in one respect. *)
EXTENDS Download

Good(i, s, d) == [index |-> i, size |-> s,
                  data |-> [of |-> d, patched |-> FALSE],
                  hash |-> [of |-> d, patched |-> FALSE]]

MIOS == [lens |-> TRUE, crl |-> FALSE, sigs |-> TRUE, title |-> TRUE,
         contents |-> <<Good(0, 1, 1), Good(1, 5, 2)>>]

WithModule ==
  {MIOS, [MIOS EXCEPT !.sigs = FALSE], [MIOS EXCEPT !.title = FALSE],
   [MIOS EXCEPT !.contents[2].data.of = 3], [MIOS EXCEPT !.contents = <<@[2], @[1]>>]}

AnyCall == [patchhomebrew : BOOLEAN, newrevision : BOOLEAN]

Sizes == {3, 5, 9}
============================================================================
