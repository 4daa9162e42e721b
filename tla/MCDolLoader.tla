---------------------------- MODULE MCDolLoader ----------------------------
(***************************************************************************)
(* Two sections of up to two cells each, a bss of up to two cells: every   *)
(* header whose ranges start in a memory of MemTop + 1 cells (a range may  *)
(* reach beyond its end), loadable or not.                                 *)
(***************************************************************************)
EXTENDS DolLoader

\* Header, then three cells of contents; the rest of memory is recognisable.
MemoryOf(p, s, n, b, c, e) ==
  [a \in Addr |->
     CASE a - DolAt \in 0..1 -> p[a - DolAt]
       [] a - DolAt \in 2..3 -> s[a - DolAt - 2]
       [] a - DolAt \in 4..5 -> n[a - DolAt - 4]
       [] a = DolAt + 6 -> b
       [] a = DolAt + 7 -> c
       [] a = DolAt + 8 -> e
       [] OTHER -> 20 + a]

MCMemories ==
  {MemoryOf(p, s, n, b, c, e) :
     p \in {[j \in 0..1 |-> IF j = 0 THEN 9 ELSE q] : q \in {9, 10}},
     s \in [0..1 -> Addr], n \in [0..1 -> 0..2], b \in {0, 3, 11, MemTop}, c \in 0..2,
     e \in {1}}
============================================================================
