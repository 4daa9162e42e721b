---------------------------- MODULE TitleStore ----------------------------
(***************************************************************************)
(* What an installation promises the owner of the console: the installed   *)
(* title is the old one or the whole new one, never a mixture; success is  *)
(* reported only with the new title in place, failure only with the title  *)
(* as it was, and a power cut falls on one side or the other.              *)
(***************************************************************************)
EXTENDS Naturals

CONSTANT MaxRuns   \* bound: times the installer is started

VARIABLES
  title,    \* "old" or "new": what the console would boot
  before,   \* the title when the installer was started
  result,   \* "running", "ok", "err" or "cut"
  runs      \* times it was started

vars == <<title, before, result, runs>>

Init == title = "old" /\ before = "old" /\ result = "running" /\ runs = 1

Replace ==
  /\ result = "running"
  /\ title' = "new"
  /\ UNCHANGED <<before, result, runs>>

Succeed ==
  /\ result = "running" /\ title = "new"
  /\ result' = "ok"
  /\ UNCHANGED <<title, before, runs>>

Fail ==
  /\ result = "running" /\ title = before
  /\ result' = "err"
  /\ UNCHANGED <<title, before, runs>>

PowerCut ==
  /\ result = "running"
  /\ result' = "cut"
  /\ UNCHANGED <<title, before, runs>>

Again ==
  /\ result # "running" /\ runs < MaxRuns
  /\ result' = "running" /\ before' = title /\ runs' = runs + 1
  /\ UNCHANGED title

Next == Replace \/ Succeed \/ Fail \/ PowerCut \/ Again

Spec == Init /\ [][Next]_vars
============================================================================
