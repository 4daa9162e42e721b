------------------------------ MODULE Booter ------------------------------
(***************************************************************************)
(* The Wii-side booter of lib/cmios/test.c: go(), fail(),                  *)
(* EXECGCDOL_LoadFile() and EXECGCDOL_Signal(), and what else the user may *)
(* do on the Wii side. Whatever it writes before it fails stays in memory. *)
(***************************************************************************)
EXTENDS BootState

StartBooter ==
  /\ pc = "menu"
  /\ pc' = "go"
  /\ UNCHANGED <<mem, tag, idx, padA, wiiVars, gcVars, counters>>

\* EXECGCDOL_Signal(0x50155d01): only the magic word is written.
SignalInject ==
  /\ pc = "go" /\ "inject" \in BooterBuilds
  /\ tag' = [tag EXCEPT !.magic = "inject"]
  /\ pc' = "stall"
  /\ UNCHANGED <<mem, idx, padA, wiiVars, gcVars, counters>>

\* fatInitDefault() or fopen() fails.
OpenFails ==
  /\ pc = "go" /\ "file" \in BooterBuilds
  /\ pc' = "fail"
  /\ UNCHANGED <<mem, tag, idx, padA, wiiVars, gcVars, counters>>

OpenFile(f) ==
  /\ pc = "go" /\ "file" \in BooterBuilds
  /\ file' = f /\ whole' = TRUE /\ idx' = 0
  /\ pc' = "read"
  /\ UNCHANGED <<mem, tag, padA, gcVars, counters>>

\* One round of the first loop of EXECGCDOL_LoadFile: the whole file is read
\* to payloads[idx]. The result of fread is not looked at.
ReadCopy(got) ==
  /\ pc = "read" /\ idx \in Copies
  /\ got = file.size.cells \/ ShortReads
  /\ mem' = [a \in Addr |->
              IF Base[idx] <= a /\ a < Base[idx] + got
              THEN file.data[a - Base[idx]] ELSE mem[a]]
  /\ whole' = (whole /\ got = file.size.cells)
  /\ idx' = idx + 1
  /\ UNCHANGED <<tag, pc, padA, file, gcVars, counters>>

\* The second loop hashes each copy into the same field, copy 0 last; then
\* the tag is copied to 0x80001800.
WriteTag ==
  /\ pc = "read" /\ idx \notin Copies
  /\ \E m \in BooterMagics :
       tag' = [magic |-> m, size |-> file.size,
               hash |-> Content(mem, Base[0], file.size.cells)]
  /\ pc' = "stall"
  /\ UNCHANGED <<mem, idx, padA, wiiVars, gcVars, counters>>

\* Wait until button A is up (a missing controller counts as up).
StallWhileAHeld ==
  /\ pc = "stall" /\ ~padA
  /\ pc' = "launch"
  /\ UNCHANGED <<mem, tag, idx, padA, wiiVars, gcVars, counters>>

\* ES_GetTicketViews fails: the tag has been written already.
TicketViewsFail ==
  /\ pc = "launch"
  /\ pc' = "fail"
  /\ UNCHANGED <<mem, tag, idx, padA, wiiVars, gcVars, counters>>

\* ES_LaunchTitle returns: go() and main() return, the booter exits.
LaunchFails ==
  /\ pc = "launch"
  /\ pc' = "menu"
  /\ UNCHANGED <<mem, tag, idx, padA, wiiVars, gcVars, counters>>

\* fail(): A starts go() again, B (or no controller) exits.
Retry ==
  /\ pc = "fail"
  /\ pc' \in {"go", "menu"}
  /\ UNCHANGED <<mem, tag, idx, padA, wiiVars, gcVars, counters>>

\* The BC title is launched: by the booter, or from the menu for a disc or a
\* front end of the old kind. Broadway halts.
LaunchBC ==
  /\ pc \in {"launch", "menu"} /\ boots < MaxBoots
  /\ pc' = "transit"
  /\ run' = NoRun
  /\ boots' = boots + 1
  /\ UNCHANGED <<mem, tag, idx, padA, wiiVars, entry, diSync, snap, decays>>

\* A front end of the old kind leaves its marker.
LegacyFrontEnd ==
  /\ pc = "menu"
  /\ mem' = [mem EXCEPT ![MarkerAt] = Marker]
  /\ UNCHANGED <<tag, pc, idx, padA, wiiVars, gcVars, counters>>

BooterStep ==
  \/ StartBooter \/ SignalInject \/ OpenFails
  \/ \E f \in Files : OpenFile(f)
  \/ \E got \in 0..file.size.cells : ReadCopy(got)
  \/ WriteTag \/ StallWhileAHeld \/ TicketViewsFail \/ LaunchFails \/ Retry
  \/ LaunchBC \/ LegacyFrontEnd
===========================================================================
