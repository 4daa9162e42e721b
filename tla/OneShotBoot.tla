---------------------------- MODULE OneShotBoot ----------------------------
(***************************************************************************)
(* What the boot chain promises, free of memory, tags and buttons held too *)
(* long: a request for homebrew left in memory is served by at most one    *)
(* boot, requests are served in a fixed order of priority, and the MIOS    *)
(* starts only when nothing was asked for, when the payload asked for does *)
(* not pass its verification, or when the homebrew returned.               *)
(***************************************************************************)
CONSTANT INJECT   \* a payload is linked into the cMIOS (cmios.c:7)

VARIABLES
  pending,   \* the requests the next boot will find
  serving,   \* the request the current boot took up, or "none"
  running,   \* who owns the console
  padA       \* button A of controller 0

vars == <<pending, serving, running, padA>>

Kinds     == {"inject", "file", "legacy"}
TagBorne  == {"inject", "file"}          \* share one word of the tag
Running   == {"wii", "boot", "leaving", "mios"} \union Kinds

\* The request a boot takes up, "none" when there is nothing to serve.
Choice ==
  CASE INJECT /\ ("inject" \in pending \/ padA) -> "inject"
    [] ~(INJECT /\ ("inject" \in pending \/ padA))
       /\ "file" \in pending                     -> "file"
    [] ~(INJECT /\ ("inject" \in pending \/ padA))
       /\ "file" \notin pending
       /\ "legacy" \in pending                   -> "legacy"
    [] OTHER                                     -> "none"

TypeOK ==
  /\ pending \subseteq Kinds
  /\ serving \in Kinds \union {"none"}
  /\ running \in Running
  /\ padA \in BOOLEAN

Init ==
  /\ pending = {} /\ serving = "none" /\ running = "wii"
  /\ padA \in BOOLEAN

\* A Wii program leaves a request; the two that share the tag replace each other.
Ask(r) ==
  /\ running = "wii"
  /\ pending' = {r} \union (IF r \in TagBorne THEN pending \ TagBorne ELSE pending)
  /\ UNCHANGED <<serving, running, padA>>

\* Memory that nobody owns loses requests, and never makes one up.
Lose ==
  /\ running \in {"wii", "boot"}
  /\ pending' \subseteq pending
  /\ UNCHANGED <<serving, running, padA>>

\* A boot into GameCube mode, from the Wii side or by the reset button.
Boot ==
  /\ running' = "boot" /\ serving' = "none"
  /\ UNCHANGED <<pending, padA>>

\* The boot takes up a request, which is gone from memory from then on.
Serve ==
  /\ running = "boot" /\ serving = "none" /\ Choice # "none"
  /\ serving' = Choice
  /\ pending' = pending \ (IF Choice = "legacy" THEN {"legacy"} ELSE TagBorne)
  /\ UNCHANGED <<running, padA>>

Run ==
  /\ running = "boot" /\ serving # "none"
  /\ running' = serving
  /\ UNCHANGED <<pending, serving, padA>>

\* Towards the MIOS.
Leave ==
  /\ \/ running = "boot" /\ serving = "none" /\ Choice = "none"
     \/ running = "boot" /\ serving = "file"
     \/ running \in Kinds
  /\ running' = "leaving"
  /\ UNCHANGED <<pending, serving, padA>>

StartMIOS ==
  /\ running = "leaving"
  /\ running' = "mios"
  /\ UNCHANGED <<pending, serving, padA>>

PowerCycle ==
  /\ running # "wii"
  /\ pending' = {} /\ serving' = "none" /\ running' = "wii"
  /\ UNCHANGED padA

Button == padA' = ~padA /\ UNCHANGED <<pending, serving, running>>

Next ==
  \/ \E r \in Kinds : Ask(r)
  \/ Lose \/ Boot \/ Serve \/ Run \/ Leave \/ StartMIOS \/ PowerCycle \/ Button

Spec == Init /\ [][Next]_vars
===========================================================================
