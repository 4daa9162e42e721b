---------------------------- MODULE MCInstaller ----------------------------
(***************************************************************************)
(* Small instances of Installer: WAD files, good and bad, with up to two   *)
(* contents of one to five units, and patched modules that are smaller     *)
(* than, equal to and larger than the buffers of the module they replace.  *)
(***************************************************************************)
EXTENDS InstallerInv

Good(i, s, d) == [index |-> i, size |-> s,
                  data |-> [of |-> d, patched |-> FALSE],
                  hash |-> [of |-> d, patched |-> FALSE]]

Wad(cs) == [lens |-> TRUE, crl |-> TRUE, sigs |-> TRUE, title |-> TRUE, contents |-> cs]

MIOS == Wad(<<Good(0, 1, 1), Good(1, 5, 2)>>)

\* Contents not in the order of their indexes.
Reordered == Wad(<<Good(1, 5, 2), Good(0, 1, 1)>>)

\* The last content is not what the TMD says.
Corrupt == Wad(<<Good(0, 1, 1), [Good(1, 5, 2) EXCEPT !.data.of = 3]>>)

WithModule ==
  {MIOS, Reordered, Corrupt, [MIOS EXCEPT !.crl = FALSE],
   [MIOS EXCEPT !.lens = FALSE], [MIOS EXCEPT !.sigs = FALSE],
   [MIOS EXCEPT !.title = FALSE]}

AnyCall == [patchhomebrew : BOOLEAN, newrevision : BOOLEAN]

\* In buffers of 8 units: fits; larger than the buffer.
Sizes == {3, 8, 9}
============================================================================
