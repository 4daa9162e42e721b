------------------------------- MODULE Cmios -------------------------------
(***************************************************************************)
(* The cMIOS of lib/cmios/src: main() of cmios.c, correctErrors() of ecc.c *)
(* and execFromMem() of loader.c as one step (its own steps are in module  *)
(* DolLoader), with the PPC startup code that enters it and that it        *)
(* re-enters to start the MIOS.                                            *)
(***************************************************************************)
EXTENDS BootState

\* The startup code at 0x80003400 jumps to the patched entry, the cMIOS, or
\* to the restored one, the MIOS.
Startup ==
  /\ pc = "startup"
  /\ pc' = IF entry = "cmios" THEN "decide" ELSE "mios"
  /\ UNCHANGED <<mem, tag, idx, padA, wiiVars, gcVars, counters>>

InjectAsked == INJECT /\ (tag.magic = "inject" \/ padA)
FileAsked   == ~InjectAsked /\ tag.magic \in FileMagics
LegacyAsked == ~InjectAsked /\ ~FileAsked /\ mem[MarkerAt] = Marker

\* A bug this guards against: the magic is left in memory.
DecideFileKeepMagic ==
  /\ pc = "decide" /\ FileAsked
  /\ run' = [kind |-> "file", ecc |-> tag.magic = "fileEcc"]
  /\ pc' = IF tag.magic = "fileEcc" THEN "ecc" ELSE "verify"
  /\ idx' = 0
  /\ UNCHANGED <<mem, tag, padA, wiiVars, entry, diSync, snap, counters>>

\* Every branch that consults the tag clears its magic first.
DecideInject ==
  /\ pc = "decide" /\ InjectAsked
  /\ tag' = [tag EXCEPT !.magic = "none"]
  /\ run' = [kind |-> "inject", ecc |-> FALSE]
  /\ pc' = "resetDI"
  /\ UNCHANGED <<mem, idx, padA, wiiVars, entry, diSync, snap, counters>>

DecideFile ==
  /\ pc = "decide" /\ FileAsked
  /\ tag' = [tag EXCEPT !.magic = "none"]
  /\ run' = [kind |-> "file", ecc |-> tag.magic = "fileEcc"]
  /\ pc' = IF tag.magic = "fileEcc" THEN "ecc" ELSE "verify"
  /\ idx' = 0
  /\ UNCHANGED <<mem, padA, wiiVars, entry, diSync, snap, counters>>

\* The first character of the marker is overwritten; no resetDI, no hash.
DecideLegacy ==
  /\ pc = "decide" /\ LegacyAsked
  /\ \E w \in Word : mem' = [mem EXCEPT ![MarkerAt] = w]
  /\ run' = [kind |-> "legacy", ecc |-> FALSE]
  /\ pc' = "exec"
  /\ UNCHANGED <<tag, idx, padA, wiiVars, entry, diSync, snap, counters>>

DecideNothing ==
  /\ pc = "decide" /\ ~InjectAsked /\ ~FileAsked /\ ~LegacyAsked
  /\ pc' = "callMIOS"
  /\ UNCHANGED <<mem, tag, idx, padA, wiiVars, gcVars, counters>>

\* One round of the loop of correctErrors().
CorrectWord ==
  /\ pc = "ecc" /\ idx < EccWords(tag.size)
  /\ mem' = [mem EXCEPT ![Base[0] + idx] = Corrected(WordsAt(mem, idx))]
  /\ idx' = idx + 1
  /\ UNCHANGED <<tag, pc, padA, wiiVars, gcVars, counters>>

CorrectDone ==
  /\ pc = "ecc" /\ ~(idx < EccWords(tag.size))
  /\ pc' = "verify"
  /\ UNCHANGED <<mem, tag, idx, padA, wiiVars, gcVars, counters>>

\* A bug this guards against: the copies are hashed in the other order.
VerifyCopy4 == Content(mem, Base[4], tag.size.cells) = tag.hash

\* verify() hashes copies 4 down to 0 into one buffer, so that copy 0 counts.
VerifyOK == Content(mem, Base[0], tag.size.cells) = tag.hash

Verify ==
  /\ pc = "verify"
  /\ pc' = IF VerifyOK THEN "resetDI" ELSE "callMIOS"
  /\ UNCHANGED <<mem, tag, idx, padA, wiiVars, gcVars, counters>>

\* A bug this guards against: the value of pi_cmd goes to the wrong word.
RaiseDiSyncCommand ==
  /\ pc = "resetDI"
  /\ diSync' = 5
  /\ pc' = "spin"
  /\ UNCHANGED <<mem, tag, idx, padA, wiiVars, run, entry, snap, counters>>

\* resetDI(): raise the flag, spin until Starlet lowers it.
RaiseDiSync ==
  /\ pc = "resetDI"
  /\ diSync' = 1
  /\ pc' = "spin"
  /\ UNCHANGED <<mem, tag, idx, padA, wiiVars, run, entry, snap, counters>>

\* A bug this guards against: Starlet's answer is not awaited.
SpinSkipped ==
  /\ pc = "spin"
  /\ pc' = "exec"
  /\ UNCHANGED <<mem, tag, idx, padA, wiiVars, gcVars, counters>>

SpinDone ==
  /\ pc = "spin" /\ diSync = 0
  /\ pc' = "exec"
  /\ UNCHANGED <<mem, tag, idx, padA, wiiVars, gcVars, counters>>

\* execFromMem(): the payload owns Broadway.
ExecFromMem ==
  /\ pc = "exec"
  /\ pc' = "payload"
  /\ UNCHANGED <<mem, tag, idx, padA, wiiVars, gcVars, counters>>

\* entry_point() returns: execFromMem() returns 3 and main() goes on.
PayloadReturns ==
  /\ pc = "payload"
  /\ pc' = "callMIOS"
  /\ UNCHANGED <<mem, tag, idx, padA, wiiVars, gcVars, counters>>

\* A bug this guards against: the patched entry point stays.
CallMIOSNoRestore ==
  /\ pc = "callMIOS"
  /\ pc' = "startup"
  /\ UNCHANGED <<mem, tag, idx, padA, wiiVars, gcVars, counters>>

\* callMIOS(): restore the entry point, simulate a boot.
CallMIOS ==
  /\ pc = "callMIOS"
  /\ entry' = "mios"
  /\ pc' = "startup"
  /\ UNCHANGED <<mem, tag, idx, padA, wiiVars, run, diSync, snap, counters>>

CmiosStep ==
  \/ Startup \/ DecideInject \/ DecideFile \/ DecideLegacy \/ DecideNothing
  \/ CorrectWord \/ CorrectDone \/ Verify \/ RaiseDiSync \/ SpinDone
  \/ ExecFromMem \/ CallMIOS
============================================================================
