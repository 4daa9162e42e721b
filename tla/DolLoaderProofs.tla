-------------------------- MODULE DolLoaderProofs --------------------------
(***************************************************************************)
(* The loader is right about every loadable payload, for any number of     *)
(* sections and any memory.                                                *)
(***************************************************************************)
EXTENDS DolLoader, TLAPS

\* The inductive invariant.
LoadInv ==
  /\ TypeOK
  /\ pc = "bss" => i = 0
  /\ Loadable(mem0) =>
       /\ pc # "crashed"
       /\ pc = "bss" => mem = mem0
       /\ pc \in {"copy", "run"} => Spread(i)
       /\ pc = "run" => i = NSections /\ target = Entry(mem0)

\* The header and the data still to be read are never overwritten.
LEMMA Kept ==
  ASSUME TypeOK, Loadable(mem0), Spread(i), pc = "copy"
  PROVE  /\ \A a \in Header : mem[a] = mem0[a]
         /\ \A j \in i..(NSections - 1) : Loads(mem0, j) =>
              \A a \in Source(mem0, j) : mem[a] = mem0[a]
<1>1. Header \subseteq Addr
  BY LoaderAssumption DEF Header, Addr, HeaderCells
<1>2. ASSUME NEW a \in Header PROVE mem[a] = mem0[a]
  <2>1. a \in Addr /\ a \notin Bss(mem0)
    BY <1>1 DEF Loadable, Disjoint
  <2>2. Over(i, a) = {}
    BY LoaderAssumption DEF Over, Loadable, Disjoint, TypeOK
  <2> QED BY <2>1, <2>2 DEF Spread
<1>3. ASSUME NEW j \in i..(NSections - 1), Loads(mem0, j), NEW a \in Source(mem0, j)
      PROVE  mem[a] = mem0[a]
  <2>1. j \in 0..(NSections - 1)
    BY LoaderAssumption DEF TypeOK
  <2>2. a \in Addr /\ a \notin Bss(mem0)
    BY <1>3, <2>1 DEF Loadable, Disjoint
  <2>3. ASSUME NEW k \in 0..(i - 1), Loads(mem0, k), a \in Dest(mem0, k) PROVE FALSE
    <3>1. k \in 0..(NSections - 1) /\ j \in k..(NSections - 1)
      BY <2>1, LoaderAssumption DEF TypeOK
    <3>2. Disjoint(Dest(mem0, k), Source(mem0, j))
      BY <3>1, <1>3, <2>3 DEF Loadable
    <3> QED BY <3>2, <2>3 DEF Disjoint
  <2>4. Over(i, a) = {}
    BY <2>3 DEF Over
  <2> QED BY <2>2, <2>4 DEF Spread
<1> QED BY <1>2, <1>3

\* So every field of the header is the one read at first.
LEMMA Fields ==
  ASSUME TypeOK, \A a \in Header : mem[a] = mem0[a]
  PROVE  /\ Entry(mem) = Entry(mem0) /\ BssStart(mem) = BssStart(mem0)
         /\ BssSize(mem) = BssSize(mem0)
         /\ \A j \in 0..(NSections - 1) :
              /\ Pos(mem, j) = Pos(mem0, j) /\ Pos(mem0, j) \in Nat
              /\ Start(mem, j) = Start(mem0, j) /\ Start(mem0, j) \in Nat
              /\ Size(mem, j) = Size(mem0, j) /\ Size(mem0, j) \in Nat
<1>1. Header \subseteq Addr
  BY LoaderAssumption DEF Header, Addr, HeaderCells
<1>2. \A a \in Header : mem0[a] \in Nat
  BY <1>1 DEF TypeOK
<1>3. /\ DolAt + 3 * NSections \in Header /\ DolAt + 3 * NSections + 1 \in Header
      /\ DolAt + 3 * NSections + 2 \in Header
  BY LoaderAssumption DEF Header, HeaderCells
<1>4. ASSUME NEW j \in 0..(NSections - 1)
      PROVE  /\ DolAt + j \in Header /\ DolAt + NSections + j \in Header
             /\ DolAt + 2 * NSections + j \in Header
  BY LoaderAssumption DEF Header, HeaderCells
<1> QED BY <1>2, <1>3, <1>4 DEF Entry, BssStart, BssSize, Pos, Start, Size

LEMMA LoadInit == Init => LoadInv
BY LoaderAssumption DEF Init, LoadInv, TypeOK

LEMMA ClearBssStep ==
  ASSUME LoadInv, ClearBss
  PROVE  LoadInv'
<1>1. /\ pc' = "copy" /\ UNCHANGED <<mem0, i, target>> /\ i = 0
      /\ mem' = [a \in Addr |-> IF a \in Bss(mem) THEN 0 ELSE mem[a]]
  BY DEF ClearBss, LoadInv
<1>2. TypeOK'
  BY <1>1 DEF LoadInv, TypeOK
<1>3. ASSUME Loadable(mem0) PROVE Spread(i)'
  <2>1. mem = mem0
    BY <1>3 DEF LoadInv, ClearBss
  <2>2. ASSUME NEW a \in Addr PROVE Over(0, a) = {}
    BY DEF Over
  <2>3. \A a \in Addr : mem'[a] = IF a \in Bss(mem0) THEN 0 ELSE mem0[a]
    BY <1>1, <2>1
  <2> QED BY <1>1, <2>2, <2>3 DEF Spread, Over
<1> QED BY <1>1, <1>2, <1>3 DEF LoadInv, Loadable

LEMMA SkipSectionStep ==
  ASSUME LoadInv, SkipSection
  PROVE  LoadInv'
<1>1. /\ pc = "copy" /\ pc' = "copy" /\ i' = i + 1 /\ i < NSections
      /\ UNCHANGED <<mem, mem0, target>> /\ ~Loads(mem, i)
  BY DEF SkipSection
<1>2. TypeOK'
  BY <1>1, LoaderAssumption DEF LoadInv, TypeOK
<1>3. ASSUME Loadable(mem0) PROVE Spread(i)'
  <2>1. TypeOK /\ Spread(i) /\ i \in 0..(NSections - 1)
    BY <1>1, <1>3, LoaderAssumption DEF LoadInv, TypeOK
  <2>2. ~Loads(mem0, i)
    BY <1>1, <1>3, <2>1, Kept, Fields DEF Loads
  <2>3. ASSUME NEW a \in Addr PROVE Over(i + 1, a) = Over(i, a)
    BY <2>1, <2>2 DEF Over
  <2> QED BY <1>1, <2>1, <2>3 DEF Spread, Over
<1> QED BY <1>1, <1>2, <1>3 DEF LoadInv, Loadable

\* Under the section's own cells the section counts, elsewhere what did before.
LEMMA CopySectionStep ==
  ASSUME LoadInv, CopySection
  PROVE  LoadInv'
<1>1. /\ pc = "copy" /\ pc' = "copy" /\ i' = i + 1 /\ i < NSections
      /\ UNCHANGED <<mem0, target>> /\ Loads(mem, i) /\ TypeOK
      /\ Source(mem, i) \subseteq Addr /\ Dest(mem, i) \subseteq Addr
  BY DEF CopySection, LoadInv
<1>a. i \in 0..(NSections - 1)
  BY <1>1, LoaderAssumption DEF TypeOK
<1>2. TypeOK'
  <2>1. PICK f : /\ \A k \in 0..(Size(mem, i) - 1) : f[k] \in Nat
                 /\ mem' = [a \in Addr |-> IF a \in Dest(mem, i) THEN f[a - Start(mem, i)]
                                            ELSE mem[a]]
    <3>1. ASSUME NEW k \in 0..(Size(mem, i) - 1)
          PROVE  DolAt + Pos(mem, i) + k \in Source(mem, i)
      <4>1. DolAt + Pos(mem, i) \in Int /\ Size(mem, i) \in Int
        <5>1. DolAt + i \in Header /\ DolAt + 2 * NSections + i \in Header
          BY <1>a, LoaderAssumption DEF Header, HeaderCells
        <5>2. Header \subseteq Addr
          BY LoaderAssumption DEF Header, Addr, HeaderCells
        <5> QED BY <5>1, <5>2, <1>1, LoaderAssumption DEF TypeOK, Pos, Size
      <4> QED BY <4>1 DEF Source, Cells
    <3>2. \A a \in Source(mem, i) : mem[a] \in Nat
      BY <1>1 DEF TypeOK
    <3> DEFINE n == Size(mem, i) - 1
               given == [k \in 0..n |-> mem[DolAt + Pos(mem, i) + k]]
               mixed == [0..n -> {mem[a] : a \in Source(mem, i)}]
    <3>3. PICK f \in IF Disjoint(Source(mem, i), Dest(mem, i)) THEN {given} ELSE mixed :
            mem' = [a \in Addr |-> IF a \in Dest(mem, i) THEN f[a - Start(mem, i)] ELSE mem[a]]
      BY DEF CopySection
    <3>4. \A k \in 0..n : given[k] \in Nat
      BY <3>1, <3>2
    <3>5. \A g \in mixed : \A k \in 0..n : g[k] \in Nat
      BY <3>2
    <3>6. f = given \/ f \in mixed
      BY <3>3
    <3> HIDE DEF given, mixed
    <3>7. \A k \in 0..n : f[k] \in Nat
      BY <3>4, <3>5, <3>6
    <3> QED BY <3>3, <3>7
  <2>2. \A a \in Dest(mem, i) : a - Start(mem, i) \in 0..(Size(mem, i) - 1)
    <3>1. Start(mem, i) \in Int /\ Size(mem, i) \in Int
      <4>1. DolAt + NSections + i \in Header /\ DolAt + 2 * NSections + i \in Header
        BY <1>a, LoaderAssumption DEF Header, HeaderCells
      <4>2. Header \subseteq Addr
        BY LoaderAssumption DEF Header, Addr, HeaderCells
      <4> QED BY <4>1, <4>2, <1>1 DEF TypeOK, Start, Size
    <3> QED BY <3>1 DEF Dest, Cells
  <2>3. mem' \in [Addr -> Nat]
    BY <2>1, <2>2, <1>1 DEF TypeOK
  <2> QED BY <2>3, <1>1, <1>a, LoaderAssumption DEF TypeOK
<1>3. ASSUME Loadable(mem0) PROVE Spread(i)'
  <2>1. Spread(i)
    BY <1>1, <1>3 DEF LoadInv
  <2>2. /\ Pos(mem, i) = Pos(mem0, i) /\ Pos(mem0, i) \in Nat
        /\ Start(mem, i) = Start(mem0, i) /\ Start(mem0, i) \in Nat
        /\ Size(mem, i) = Size(mem0, i) /\ Size(mem0, i) \in Nat
    BY <1>1, <1>a, <1>3, <2>1, Kept, Fields
  <2>3. /\ Loads(mem0, i) /\ Source(mem, i) = Source(mem0, i)
        /\ Dest(mem, i) = Dest(mem0, i)
    BY <1>1, <2>2 DEF Loads, Source, Dest
  <2>4. /\ \A a \in Source(mem0, i) : mem[a] = mem0[a]
        /\ Disjoint(Source(mem, i), Dest(mem, i))
    <3>1. i \in i..(NSections - 1)
      BY <1>a
    <3>2. \A a \in Source(mem0, i) : mem[a] = mem0[a]
      BY <3>1, <1>1, <1>3, <2>1, <2>3, Kept
    <3>3. Disjoint(Dest(mem0, i), Source(mem0, i))
      BY <3>1, <1>a, <1>3, <2>3 DEF Loadable
    <3> QED BY <3>2, <3>3, <2>3 DEF Disjoint
  <2>5. \A a \in Addr : mem'[a] = IF a \in Dest(mem0, i)
                                  THEN mem0[DolAt + Pos(mem0, i) + (a - Start(mem0, i))]
                                  ELSE mem[a]
    <3> DEFINE f == [k \in 0..(Size(mem, i) - 1) |-> mem[DolAt + Pos(mem, i) + k]]
    <3>1. mem' = [a \in Addr |-> IF a \in Dest(mem, i) THEN f[a - Start(mem, i)] ELSE mem[a]]
      BY <2>4 DEF CopySection
    <3>2. ASSUME NEW a \in Dest(mem0, i)
          PROVE  /\ a - Start(mem0, i) \in 0..(Size(mem0, i) - 1)
                 /\ DolAt + Pos(mem0, i) + (a - Start(mem0, i)) \in Source(mem0, i)
      BY <2>2, LoaderAssumption DEF Dest, Source, Cells
    <3> QED BY <3>1, <3>2, <2>2, <2>3, <2>4
  <2>6. ASSUME NEW a \in Addr, a \notin Dest(mem0, i)
        PROVE  Over(i + 1, a) = Over(i, a)
    BY <1>a, <2>6 DEF Over
  <2>7. ASSUME NEW a \in Addr, a \in Dest(mem0, i)
        PROVE  i \in Over(i + 1, a) /\ \A j \in Over(i + 1, a) : i <= j => j = i
    BY <1>a, <2>3, <2>7 DEF Over
  <2>8. ASSUME NEW a \in Addr
        PROVE  /\ \A j \in Over(i + 1, a) :
                    (\A k \in Over(i + 1, a) : k <= j) =>
                      mem'[a] = mem0[DolAt + Pos(mem0, j) + (a - Start(mem0, j))]
               /\ Over(i + 1, a) = {} => mem'[a] = IF a \in Bss(mem0) THEN 0 ELSE mem0[a]
    <3>1. CASE a \in Dest(mem0, i)
      BY <3>1, <2>5, <2>7
    <3>2. CASE a \notin Dest(mem0, i)
      BY <3>2, <2>5, <2>6, <2>1 DEF Spread
    <3> QED BY <3>1, <3>2
  <2>9. \A n, a : Over(n, a)' = Over(n, a)
    BY <1>1 DEF Over
  <2> QED BY <1>1, <2>8, <2>9 DEF Spread
<1> QED BY <1>1, <1>2, <1>3 DEF LoadInv, Loadable

LEMMA CrashStep ==
  ASSUME LoadInv, Crash
  PROVE  LoadInv'
<1>1. TypeOK' /\ TypeOK /\ pc' = "crashed" /\ mem0' = mem0
  BY DEF LoadInv, TypeOK, Crash
<1>2. ASSUME Loadable(mem0) PROVE FALSE
  <2>1. CASE pc = "bss"
    BY <2>1, <1>2 DEF LoadInv, Crash, Loadable
  <2>2. CASE pc = "copy"
    <3>1. Spread(i) /\ i \in 0..(NSections - 1)
      BY <2>2, <1>1, <1>2, LoaderAssumption DEF LoadInv, Crash, TypeOK
    <3>2. /\ Pos(mem, i) = Pos(mem0, i) /\ Start(mem, i) = Start(mem0, i)
          /\ Size(mem, i) = Size(mem0, i)
      BY <1>1, <1>2, <2>2, <3>1, Kept, Fields
    <3>3. Loads(mem0, i) /\ ~(Source(mem0, i) \subseteq Addr /\ Dest(mem0, i) \subseteq Addr)
      BY <2>2, <3>2 DEF Crash, Loads, Source, Dest
    <3> QED BY <1>2, <3>1, <3>3 DEF Loadable
  <2> QED BY <2>1, <2>2 DEF Crash
<1> QED BY <1>1, <1>2 DEF LoadInv

LEMMA JumpStep ==
  ASSUME LoadInv, Jump
  PROVE  LoadInv'
<1>1. /\ pc = "copy" /\ pc' = "run" /\ target' = Entry(mem) /\ i = NSections
      /\ UNCHANGED <<mem, mem0, i>> /\ TypeOK
  BY LoaderAssumption DEF Jump, LoadInv, TypeOK
<1>2. TypeOK'
  <2>1. DolAt + 3 * NSections + 2 \in Addr
    BY LoaderAssumption DEF Addr, HeaderCells
  <2> QED BY <1>1, <2>1 DEF TypeOK, Entry
<1>3. ASSUME Loadable(mem0) PROVE Spread(i)' /\ target' = Entry(mem0)
  <2>1. Spread(i)
    BY <1>1, <1>3 DEF LoadInv
  <2>2. Entry(mem) = Entry(mem0)
    BY <1>1, <1>3, <2>1, Kept, Fields
  <2> QED BY <1>1, <2>1, <2>2 DEF Spread, Over
<1> QED BY <1>1, <1>2, <1>3 DEF LoadInv, Entry

LEMMA LoadStep == LoadInv /\ [Next]_vars => LoadInv'
<1> SUFFICES ASSUME LoadInv, [Next]_vars PROVE LoadInv'
  OBVIOUS
<1>1. CASE UNCHANGED vars
  BY <1>1 DEF vars, LoadInv, TypeOK, Loadable, Spread, Over, Entry
<1> QED
  BY <1>1, ClearBssStep, SkipSectionStep, CopySectionStep, CrashStep, JumpStep DEF Next

\* A loadable payload is entered at its entry point with memory as its header
\* says (loader.c:16-38), for every number of sections and every placement of
\* them, over one another and over data already used included.
THEOREM LoaderCorrect == Spec => []LoadsDol
<1>1. LoadInv => LoadsDol
  BY DEF LoadInv, LoadsDol
<1> QED BY <1>1, LoadInit, LoadStep, PTL DEF Spec

\* The loop counter and the memory keep their types, loadable payload or not.
THEOREM LoaderTypes == Spec => []TypeOK
<1>1. LoadInv => TypeOK
  BY DEF LoadInv
<1> QED BY <1>1, LoadInit, LoadStep, PTL DEF Spec
============================================================================
