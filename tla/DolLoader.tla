----------------------------- MODULE DolLoader -----------------------------
(***************************************************************************)
(* loadFromMem() and execFromMem() of lib/cmios/src/loader.c: a .dol image *)
(* that lies in memory is spread over the same memory and entered. The     *)
(* header is not copied first: every field is read again when it is used,  *)
(* after everything the earlier rounds have written.                       *)
(*                                                                         *)
(* A cell is a word or, for the payload's contents, a run of bytes.        *)
(***************************************************************************)
EXTENDS Integers, FiniteSets

CONSTANTS
  MemTop,     \* last cell of the modelled memory
  DolAt,      \* dolstart
  NSections,  \* text[7] + data[11], 18 in loader.c:6
  MinStart,   \* 0x100: below it a section is not loaded
  Memories    \* what memory may hold when the loader is entered

Addr == 0..MemTop
HeaderCells == 3 * NSections + 3
Header == DolAt..(DolAt + HeaderCells - 1)

ASSUME LoaderAssumption ==
  /\ MemTop \in Nat /\ DolAt \in Nat /\ NSections \in Nat /\ MinStart \in Nat
  /\ DolAt + HeaderCells <= MemTop + 1
  /\ Memories \subseteq [Addr -> Nat]

VARIABLES
  mem,     \* memory
  mem0,    \* history: memory when the loader was entered
  i,       \* the loop counter
  pc,      \* "bss", "copy", "run", or "crashed": a DSI exception
  target   \* where Broadway jumped to

vars == <<mem, mem0, i, pc, target>>

\* The fields of struct dolheader.
Pos(m, j)   == m[DolAt + j]
Start(m, j) == m[DolAt + NSections + j]
Size(m, j)  == m[DolAt + 2 * NSections + j]
BssStart(m) == m[DolAt + 3 * NSections]
BssSize(m)  == m[DolAt + 3 * NSections + 1]
Entry(m)    == m[DolAt + 3 * NSections + 2]

Cells(a, n)  == a..(a + n - 1)
Bss(m)       == Cells(BssStart(m), BssSize(m))
Source(m, j) == Cells(DolAt + Pos(m, j), Size(m, j))
Dest(m, j)   == Cells(Start(m, j), Size(m, j))

\* A section is loaded if it is not empty and does not start too low.
Loads(m, j) == Size(m, j) # 0 /\ Start(m, j) >= MinStart

Disjoint(s, t) == s \intersect t = {}

----------------------------------------------------------------------------
Init ==
  /\ mem \in Memories /\ mem0 = mem
  /\ i = 0 /\ pc = "bss" /\ target = 0

ClearBss ==
  /\ pc = "bss" /\ Bss(mem) \subseteq Addr
  /\ mem' = [a \in Addr |-> IF a \in Bss(mem) THEN 0 ELSE mem[a]]
  /\ pc' = "copy"
  /\ UNCHANGED <<mem0, i, target>>

\* A bug this guards against: the loop runs backwards.
SkipSectionBelow ==
  /\ pc = "copy" /\ i < NSections /\ ~Loads(mem, i)
  /\ i' = i - 1
  /\ UNCHANGED <<mem, mem0, pc, target>>

SkipSection ==
  /\ pc = "copy" /\ i < NSections /\ ~Loads(mem, i)
  /\ i' = i + 1
  /\ UNCHANGED <<mem, mem0, pc, target>>

\* A bug this guards against: positions are not taken from the start of the file.
CopySectionAbsolute ==
  /\ pc = "copy" /\ i < NSections /\ Loads(mem, i)
  /\ Source(mem, i) \subseteq Addr /\ Dest(mem, i) \subseteq Addr
  /\ mem' = [a \in Addr |-> IF a \in Dest(mem, i)
                            THEN mem[Pos(mem, i) + (a - Start(mem, i))] ELSE mem[a]]
  /\ i' = i + 1
  /\ UNCHANGED <<mem0, pc, target>>

\* memcpy() of a section; if its two ranges overlap, each cell may come out as
\* any of the section's.
CopySection ==
  /\ pc = "copy" /\ i < NSections /\ Loads(mem, i)
  /\ Source(mem, i) \subseteq Addr /\ Dest(mem, i) \subseteq Addr
  /\ \E f \in IF Disjoint(Source(mem, i), Dest(mem, i))
              THEN {[k \in 0..(Size(mem, i) - 1) |-> mem[DolAt + Pos(mem, i) + k]]}
              ELSE [0..(Size(mem, i) - 1) -> {mem[a] : a \in Source(mem, i)}] :
       mem' = [a \in Addr |-> IF a \in Dest(mem, i) THEN f[a - Start(mem, i)] ELSE mem[a]]
  /\ i' = i + 1
  /\ UNCHANGED <<mem0, pc, target>>

\* A range that is not in memory.
Crash ==
  /\ \/ pc = "bss" /\ ~(Bss(mem) \subseteq Addr)
     \/ pc = "copy" /\ i < NSections /\ Loads(mem, i)
        /\ ~(Source(mem, i) \subseteq Addr /\ Dest(mem, i) \subseteq Addr)
  /\ pc' = "crashed"
  /\ UNCHANGED <<mem, mem0, i, target>>

\* entry_point(), as the header has it now.
Jump ==
  /\ pc = "copy" /\ ~(i < NSections)
  /\ target' = Entry(mem) /\ pc' = "run"
  /\ UNCHANGED <<mem, mem0, i>>

Next == ClearBss \/ SkipSection \/ CopySection \/ Crash \/ Jump

Spec == Init /\ [][Next]_vars

----------------------------------------------------------------------------
\* Every variable has its type; the counter stays within the sections.
TypeOK ==
  /\ mem \in [Addr -> Nat] /\ mem0 \in [Addr -> Nat]
  /\ i \in 0..NSections /\ target \in Nat
  /\ pc \in {"bss", "copy", "run", "crashed"}

\* What a payload has to keep to: nothing is written over the header, the bss
\* not over a section's data, and a section not over its own data or that of a
\* section still to come. Sections may be spread over data already used.
Loadable(m) ==
  /\ Bss(m) \subseteq Addr /\ Disjoint(Bss(m), Header)
  /\ \A j \in 0..(NSections - 1) : Loads(m, j) =>
       /\ Source(m, j) \subseteq Addr /\ Dest(m, j) \subseteq Addr
       /\ Disjoint(Dest(m, j), Header) /\ Disjoint(Bss(m), Source(m, j))
       /\ \A k \in j..(NSections - 1) :
            Loads(m, k) => Disjoint(Dest(m, j), Source(m, k))

\* Those of the first n sections that are loaded over cell a.
Over(n, a) == {j \in 0..(n - 1) : Loads(mem0, j) /\ a \in Dest(mem0, j)}

\* Memory is what the header read at first says of the first n sections: the
\* last section over a cell counts, then the bss, then what was there before.
Spread(n) ==
  \A a \in Addr :
    /\ \A j \in Over(n, a) :
         (\A k \in Over(n, a) : k <= j) =>
           mem[a] = mem0[DolAt + Pos(mem0, j) + (a - Start(mem0, j))]
    /\ Over(n, a) = {} => mem[a] = IF a \in Bss(mem0) THEN 0 ELSE mem0[a]

\* A loadable payload is entered where its header says, with memory as its
\* header says, although the header and the data are read while memory is being
\* overwritten (loader.c:16-38 and 42, "loads dol from memory buffer into execution
\* memory, and executes it").
LoadsDol ==
  Loadable(mem0) =>
    /\ pc # "crashed"
    /\ pc = "run" => Spread(NSections) /\ target = Entry(mem0)
============================================================================
