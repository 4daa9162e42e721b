------------------------------ MODULE BootInv ------------------------------
(***************************************************************************)
(* Why the boot chain is correct: the facts that every step of BootChain   *)
(* preserves, and that imply its invariants.                               *)
(***************************************************************************)
EXTENDS BootChain

\* The cMIOS's main() has been entered, or is about to be, and has not decided.
Undecided == pc = "decide" \/ (pc = "startup" /\ entry = "cmios")

\* Copy 0 is the file as soon as it was read: the later copies lie above it.
CopyInv ==
  (pc = "read" /\ whole /\ Fits(file.size) /\ idx > 0) =>
    Content(mem, Base[0], file.size.cells) = file.data

\* The tag tells of the file that was last read.
FileTag ==
  /\ tag.size = file.size
  /\ tag.hash = [i \in 0..(tag.size.cells - 1) |-> tag.hash[i]]
  /\ whole /\ Fits(file.size) => tag.hash = file.data

TagInv ==
  (pc # "read" /\ (tag.magic \in FileMagics \/ run.kind = "file")) => FileTag

\* main() has taken up one request exactly when it has decided.
RunInv ==
  /\ (pc \in WiiPhases \union {"transit"} \/ Undecided) => run = NoRun
  /\ pc \in {"ecc", "verify"} => run.kind = "file"
  /\ pc \in {"resetDI", "spin", "exec", "payload"} => run.kind \in Kinds

\* The verification holds until the payload runs.
VerifiedInv ==
  (pc \in {"resetDI", "spin", "exec", "payload"} /\ run.kind = "file") => VerifyOK

\* Before it decides, the cMIOS has changed no memory.
SnapInv == Undecided => mem = snap

\* The rounds of correctErrors() that are done.
Rounds == IF pc = "ecc" THEN idx ELSE EccWords(tag.size)

\* They changed copy 0 only, each to what the five words found call for.
EccInv ==
  ((pc = "ecc" \/ (pc = "verify" /\ run.ecc)) /\ Fits(tag.size)) =>
    /\ Rounds <= EccWords(tag.size)
    /\ \A a \in Addr :
         mem[a] = IF Base[0] <= a /\ a < Base[0] + Rounds
                  THEN Corrected(WordsAt(snap, a - Base[0])) ELSE snap[a]

\* Starlet owes no answer while the cMIOS runs, but in resetDI() itself.
DiInv ==
  (Undecided \/ pc \in {"ecc", "verify", "resetDI", "exec", "payload"}) => diSync = 0

\* The inductive invariant.
BootInvariant ==
  /\ TypeOK /\ CopyInv /\ TagInv /\ RunInv /\ VerifiedInv
  /\ SnapInv /\ EccInv /\ DiInv
============================================================================
