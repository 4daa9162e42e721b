----------------------------- MODULE BytePatch -----------------------------
(***************************************************************************)
(* patch_dvdAccess() and patch_Action_Replay() of src/IOSPatcher.c: each   *)
(* looks for a few bytes in a content and writes others over them. They    *)
(* differ in the bytes only: both stop size - 4 bytes into the content,    *)
(* though one looks for six bytes and the other for four.                  *)
(***************************************************************************)
EXTENDS Integers, Sequences

CONSTANTS
  Patches,   \* records of the bytes looked for and of those written
  MemTop,    \* last byte of the modelled memory, counted from the content
  Memories,  \* what the content, and what lies behind it on the heap, may be
  Sizes,     \* buffer_size of the content
  Cut,       \* 4 in "size - 4"
  Word       \* 2^32: the subtraction is unsigned

VARIABLES
  pc,     \* "search", "done", or "crashed": it ran out of memory
  mem,    \* memory from the start of the content
  mem0,   \* history: memory before
  patch, size, i,
  count   \* match_count

vars == <<pc, mem, mem0, patch, size, i, count>>

Width(p) == Len(p.old)

\* The bytes at a and those looked for are the same.
Matches(m, p, a) == \A q \in 0..Width(p) - 1 : m[a + q] = p.old[q + 1]

ASSUME BytePatchAssumption ==
  /\ Cut \in Nat /\ Word \in Nat \ {0} /\ Sizes \subseteq 0..Word - 1
  /\ \A p \in Patches :
       /\ p.old \in Seq(Nat) /\ p.new \in Seq(Nat)
       /\ Width(p) > 0 /\ Len(p.new) = Width(p)
       \* An end of what is looked for is not a beginning of it.
       /\ \A d \in 1..Width(p) - 1 :
            \E q \in 1..Width(p) - d : p.old[q] # p.old[q + d]
  /\ MemTop \in Nat /\ Memories \subseteq [0..MemTop -> Nat]

\* A bug this guards against: the loop runs to the end of the content.
BoundAtEnd == size

\* The loop runs while i < Bound.
Bound == (size - Cut) % Word

Readable == i + Width(patch) - 1 <= MemTop

----------------------------------------------------------------------------
Init ==
  /\ pc = "search" /\ mem \in Memories /\ mem0 = mem
  /\ patch \in Patches /\ size \in Sizes
  /\ i = 0 /\ count = 0

Advance ==
  /\ pc = "search" /\ i < Bound /\ Readable /\ ~Matches(mem, patch, i)
  /\ i' = i + 1
  /\ UNCHANGED <<pc, mem, mem0, patch, size, count>>

\* A bug this guards against: what was written before is left behind too far.
ReplaceTwice ==
  /\ pc = "search" /\ i < Bound /\ Readable /\ Matches(mem, patch, i)
  /\ mem' = [a \in 0..MemTop |->
               IF a \in i..i + Width(patch) - 1 THEN patch.new[a - i + 1] ELSE mem[a]]
  /\ i' = i + 2 * Width(patch)
  /\ count' = count + 1
  /\ UNCHANGED <<pc, mem0, patch, size>>

\* i is moved behind the match and then by one more (continue and i++).
Replace ==
  /\ pc = "search" /\ i < Bound /\ Readable /\ Matches(mem, patch, i)
  /\ mem' = [a \in 0..MemTop |->
               IF a \in i..i + Width(patch) - 1 THEN patch.new[a - i + 1] ELSE mem[a]]
  /\ i' = i + Width(patch) + 1
  /\ count' = count + 1
  /\ UNCHANGED <<pc, mem0, patch, size>>

Crash ==
  /\ pc = "search" /\ i < Bound /\ ~Readable
  /\ pc' = "crashed"
  /\ UNCHANGED <<mem, mem0, patch, size, i, count>>

Return ==
  /\ pc = "search" /\ i >= Bound
  /\ pc' = "done"
  /\ UNCHANGED <<mem, mem0, patch, size, i, count>>

Next == Advance \/ Replace \/ Crash \/ Return

Spec == Init /\ [][Next]_vars

----------------------------------------------------------------------------
(* Properties                                                              *)

TypeOK ==
  /\ pc \in {"search", "done", "crashed"}
  /\ mem0 \in Memories /\ mem \in [0..MemTop -> Nat]
  /\ patch \in Patches /\ size \in Sizes /\ count \in Nat
  /\ i \in 0..Bound + Width(patch)

\* Where the content has the bytes that the loop looks for, as far as it looks.
Found == {a \in 0..Bound - 1 : a + Width(patch) - 1 <= MemTop /\ Matches(mem0, patch, a)}

Written(a) == \A q \in 0..Width(patch) - 1 : mem[a + q] = patch.new[q + 1]

\* Every match is replaced, but for one that follows directly on another which
\* was, since the loop leaves a byte out there (IOSPatcher.c:38); and none
\* is reported exactly if there was none (IOSPatcher.c:896). What is written does
\* not hide a later match, nor is it found again.
ReplacesMatches ==
  pc = "done" =>
    /\ \A a \in Found : Written(a) \/ (a - Width(patch) \in Found /\ Written(a - Width(patch)))
    /\ count = 0 <=> Found = {}

\* Nothing else is changed: a byte that differs is one of a match that was
\* replaced, and is in the content, or as far behind it as the bytes looked for are
\* longer than what the bound leaves for them, which is a byte for the DVD patch.
ChangesOnlyMatches ==
  \A a \in 0..MemTop : mem[a] # mem0[a] =>
    /\ \E b \in Found : a \in b..b + Width(patch) - 1 /\ Written(b)
    /\ size >= Cut => a < size + Width(patch) - Cut - 1 \/ a < size
============================================================================
