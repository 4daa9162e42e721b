----------------------------- MODULE BootChain -----------------------------
(***************************************************************************)
(* The booter, the cMIOS and what surrounds them: memory that decays while *)
(* Broadway is halted, the ARM MIOS that loads the PPC MIOS, Starlet's     *)
(* side of the DI handshake, the reset and power buttons, the controller.  *)
(***************************************************************************)
EXTENDS Booter, Cmios

Init ==
  /\ mem = [a \in Addr |-> Stale]
  /\ tag = [magic |-> "none", size |-> [cells |-> 1, tail |-> FALSE], hash |-> << >>]
  /\ pc = "menu" /\ idx = 0 /\ run = NoRun
  /\ entry = "cmios" /\ diSync = 0 /\ padA \in BOOLEAN
  /\ file \in Files /\ whole = FALSE
  /\ snap = mem /\ decays = 0 /\ boots = 0

\* A cell loses its value while nobody refreshes it; it does not spell the marker.
DecayCell(a, w) ==
  /\ pc = "transit" /\ decays < MaxDecay
  /\ w # mem[a]
  /\ mem' = [mem EXCEPT ![a] = w]
  /\ decays' = decays + 1
  /\ UNCHANGED <<tag, pc, idx, padA, wiiVars, gcVars, boots>>

\* So does the tag's magic: nothing is asked for any more.
DecayMagic ==
  /\ pc = "transit" /\ decays < MaxDecay
  /\ tag.magic # "none"
  /\ tag' = [tag EXCEPT !.magic = "none"]
  /\ decays' = decays + 1
  /\ UNCHANGED <<mem, pc, idx, padA, wiiVars, gcVars, boots>>

\* The ARM MIOS loads the PPC MIOS, its entry point patched, and resumes Broadway.
LoadPPC ==
  /\ pc = "transit"
  /\ entry' = "cmios" /\ diSync' = 0 /\ snap' = mem
  /\ pc' = "startup"
  /\ UNCHANGED <<mem, tag, idx, padA, wiiVars, run, counters>>

\* Starlet sees the flag and clears it.
StarletAck ==
  /\ diSync = 1
  /\ diSync' = 0
  /\ UNCHANGED <<mem, tag, pc, idx, padA, wiiVars, run, entry, snap, counters>>

\* The reset button: memory is kept, the PPC MIOS is loaded again.
Reset ==
  /\ pc \in GCPhases /\ boots < MaxBoots
  /\ pc' = "transit"
  /\ run' = NoRun
  /\ boots' = boots + 1
  /\ UNCHANGED <<mem, tag, idx, padA, wiiVars, entry, diSync, snap, decays>>

\* Leaving GameCube mode takes a power cycle; memory is lost.
PowerCycle ==
  /\ pc \in GCPhases
  /\ mem' = [a \in Addr |-> Stale] /\ snap' = mem'
  /\ tag' = [tag EXCEPT !.magic = "none"]
  /\ pc' = "menu" /\ run' = NoRun /\ diSync' = 0
  /\ UNCHANGED <<idx, padA, wiiVars, entry, counters>>

Button ==
  /\ padA' = ~padA
  /\ UNCHANGED <<mem, tag, pc, idx, wiiVars, gcVars, counters>>

Environment ==
  \/ \E a \in Addr, w \in Word : DecayCell(a, w)
  \/ DecayMagic \/ LoadPPC \/ StarletAck \/ Reset \/ PowerCycle \/ Button \/ PayloadReturns

Next == BooterStep \/ CmiosStep \/ Environment

Spec == Init /\ [][Next]_vars

\* Broadway runs what it is given, Starlet answers the handshake, a halted
\* Broadway is resumed. Nothing makes a payload return or a button be pressed.
Fairness == WF_vars(CmiosStep) /\ WF_vars(LoadPPC) /\ WF_vars(StarletAck)

FairSpec == Spec /\ Fairness

----------------------------------------------------------------------------
TypeOK ==
  /\ mem \in [Addr -> Cell]
  /\ \A a \in Addr \ {MarkerAt} : mem[a] \in Word
  /\ tag.magic \in Magics /\ tag.size \in Sizes
  /\ tag = [magic |-> tag.magic, size |-> tag.size, hash |-> tag.hash]
  /\ pc \in WiiPhases \union GCPhases
  /\ idx \in Nat
  /\ run \in [kind : Kinds \union {"none"}, ecc : BOOLEAN]
  /\ entry \in {"cmios", "mios"} /\ diSync \in {0, 1} /\ padA \in BOOLEAN
  /\ file \in Files /\ whole \in BOOLEAN
  /\ snap \in [Addr -> Cell]
  /\ decays \in 0..MaxDecay /\ boots \in 0..MaxBoots

\* A payload started from a file is, cell for cell, the file the booter read,
\* if it was read completely and fits the gaps between the copies: across the
\* decay of the memory, its correction and its verification (cmios.c:91-98,
\* test.c:43-62).
LaunchedIsFile ==
  (pc = "payload" /\ run.kind = "file" /\ whole /\ Fits(tag.size)) =>
    Content(mem, Base[0], tag.size.cells) = file.data

\* README.md:31: "The booter makes 5 copies of the payload .dol in MEM1", here
\* of a file that was read without an error. LoadFile() does not compare its size
\* with the gaps; a copy loses its end to the start of the next one if the file is
\* longer than the gap behind it (test.c:33-50).
FiveCopiesMade ==
  (pc = "stall" /\ tag.magic \in FileMagics /\ whole) =>
    \A c \in Copies : Content(mem, Base[c], file.size.cells) = file.data

\* When correctErrors() is done, every word whose damage was recoverable is
\* the word the booter hashed, whatever the rounds before it stored into copy 0
\* (ecc.c:11-27).
EccRecovers ==
  (pc = "verify" /\ run.ecc /\ Fits(tag.size)) =>
    \A i \in 0..(EccWords(tag.size) - 1) :
      Recoverable(WordsAt(snap, i), tag.hash[i]) => mem[Base[0] + i] = tag.hash[i]

\* The words of a payload but for a ragged last one.
WholeWords(size) == {i \in 0..(size.cells - 1) : size.tail => i # size.cells - 1}

\* Damage in at most two of the five copies of each whole word, no two of which
\* became equal, is repaired: the README's "reconstructs the original payload".
\* The last word of a payload whose size is no multiple of 4 is outside the loop
\* but inside the hash, so that copy 0 alone decides: if its ragged word is intact
\* the payload is accepted, and if it is not, it is refused, though the other
\* four copies may have it (ecc.c:11, cmios.c:48-62).
EccRepairsTwoCopies ==
  (pc = "verify" /\ run.ecc /\ Fits(tag.size)
   /\ \A i \in WholeWords(tag.size) :
        Independent(WordsAt(snap, i), tag.hash[i])
        /\ AtMostTwoDamaged(WordsAt(snap, i), tag.hash[i]))
  => (VerifyOK <=> \A i \in 0..(tag.size.cells - 1) \ WholeWords(tag.size) :
                     snap[Base[0] + i] = tag.hash[i])

\* No payload of the new kind runs before Starlet answered resetDI() of the
\* same boot (cmios.c:45, "wait for Starlet").
DiHandshake ==
  pc \in {"exec", "payload"} => diSync = 0

\* A boot into GameCube mode always ends in homebrew or in the MIOS, unless
\* the power is cut: the patched and restored entry point never loops, the
\* correction ends, the handshake is answered.
EveryBootEnds ==
  pc = "transit" ~> pc \in {"payload", "mios", "menu"}

----------------------------------------------------------------------------
(* The boot chain implements the one-shot boot policy.                     *)

pendingBar ==
  (CASE tag.magic = "inject"      -> {"inject"}
     [] tag.magic \in FileMagics  -> {"file"}
     [] OTHER                     -> {})
  \union (IF mem[MarkerAt] = Marker THEN {"legacy"} ELSE {})

runningBar ==
  CASE pc \in WiiPhases -> "wii"
    [] pc = "payload"   -> run.kind
    [] pc = "mios"      -> "mios"
    [] pc = "callMIOS" \/ (pc = "startup" /\ entry = "mios") -> "leaving"
    [] OTHER            -> "boot"

Policy == INSTANCE OneShotBoot
            WITH pending <- pendingBar, serving <- run.kind, running <- runningBar

PolicySpec == Policy!Spec
============================================================================
