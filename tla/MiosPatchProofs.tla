-------------------------- MODULE MiosPatchProofs --------------------------
(***************************************************************************)
(* patchMIOS() has enough space for every regular file, whatever the sizes *)
(* and the number of its segments; and for every file what it returns as   *)
(* patched is patched, and what it refuses cannot be.                      *)
(***************************************************************************)
EXTENDS MiosPatch, TLAPS

N == Len(elf.ph)

\* All that is counted so far is below the size.
SizeInv ==
  /\ pc = "check" => i = 1
  /\ pc = "size" =>
       /\ i \in 1..N + 1
       /\ \A j \in 1..i - 1 : Loaded(elf.ph[j]) => End(elf.ph[j]) <= size

\* Where the next segment of a regular file goes: behind the table, or behind
\* the last segment that was copied, which has moved by at most a header.
Placed ==
  \/ i \in 1..N + 1 /\ outPos = EhdrSize + TableOf(N + 1)
  \/ i \in 1..N + 1 /\ \E j \in 1..i - 1 :
       Loaded(elf.ph[j]) /\ ~IsTable(elf.ph[j]) /\ outPos <= PhdrSize + End(elf.ph[j])
  \/ i = N + 2 /\ outPos <= size

\* While segments are copied, the headers to come are those of the file.
CopyInv ==
  pc = "copy" =>
    /\ CopySize <= elf.length
    /\ \A j \in 1..N : Loaded(elf.ph[j]) => End(elf.ph[j]) + DolSize + PhdrSize <= size
    /\ \A j \in i..N : out.ph[j] = elf.ph[j]
    /\ i \in 1..N + 1 => out.ph[N + 1] = DolHeader(elf)
    /\ Regular(elf) => Placed

\* The inductive invariant.
PatchInv ==
  /\ TypeOK /\ SizeInv /\ CopyInv
  /\ Regular(elf) => pc # "overrun"

\* A buffer that is rounded up holds what it is for.
LEMMA RoomEnough ==
  ASSUME NEW n \in Nat
  PROVE  Room(n) \in Int /\ n <= Room(n)
<1> DEFINE m == n + ArmSize + Align - 1
<1>1. m \in Nat /\ Align \in Nat \ {0} /\ ArmSize \in Nat
  BY ElfAssumption
<1>2. ASSUME NEW a \in Nat, NEW b \in Nat \ {0}
      PROVE  (a \div b) \in Int /\ a < (a \div b) * b + b
  OBVIOUS
<1>3. (m \div Align) \in Int /\ m < (m \div Align) * Align + Align
  BY <1>1, <1>2
<1> QED BY <1>1, <1>3 DEF Room

\* The files as the assumption has them.
LEMMA ElfTypes ==
  ASSUME NEW e \in Elfs
  PROVE  /\ e.valid \in BOOLEAN /\ e.ph \in Seq(Header) /\ e.left \in Nat
         /\ e.length \in Nat /\ e.words \in [0..e.length - 1 -> Nat]
         /\ Len(e.ph) \in Nat /\ DOMAIN e.ph = 1..Len(e.ph)
         /\ EhdrSize + TableOf(Len(e.ph) + 1) <= CopySize
         /\ TableOf(Len(e.ph) + 1) = TableOf(Len(e.ph)) + PhdrSize
         /\ TableOf(Len(e.ph) + 1) \in Nat /\ TableOf(Len(e.ph)) \in Nat
         /\ \A j \in 1..Len(e.ph) :
              /\ e.ph[j] \in Header /\ e.ph[j].offset \in Nat
              /\ e.ph[j].filesz \in Nat /\ End(e.ph[j]) \in Nat
         /\ EhdrSize \in Nat /\ PhdrSize \in Nat /\ DolSize \in Nat /\ CopySize \in Nat
<1>1. /\ e.valid \in BOOLEAN /\ e.ph \in Seq(Header) /\ e.left \in Nat
      /\ e.length \in Nat /\ e.words \in [0..e.length - 1 -> Nat]
      /\ EhdrSize + TableOf(Len(e.ph) + 1) <= CopySize
      /\ EhdrSize \in Nat /\ PhdrSize \in Nat /\ CopySize \in Nat
  BY ElfAssumption
<1>2. DolSize \in Nat
  BY ElfAssumption DEF DolSize
<1>3. Len(e.ph) \in Nat /\ DOMAIN e.ph = 1..Len(e.ph)
  BY <1>1
<1>4. ASSUME NEW k \in Nat, NEW p \in Nat
      PROVE (k + 1) * p = k * p + p /\ k * p \in Nat /\ (k + 1) * p \in Nat
  OBVIOUS
<1>5. /\ TableOf(Len(e.ph) + 1) = TableOf(Len(e.ph)) + PhdrSize
      /\ TableOf(Len(e.ph) + 1) \in Nat /\ TableOf(Len(e.ph)) \in Nat
  BY <1>1, <1>3, <1>4 DEF TableOf
<1>6. ASSUME NEW j \in 1..Len(e.ph)
      PROVE  /\ e.ph[j] \in Header /\ e.ph[j].offset \in Nat
             /\ e.ph[j].filesz \in Nat /\ End(e.ph[j]) \in Nat
  <2>1. e.ph[j] \in Header
    BY <1>1
  <2> QED BY <2>1 DEF Header, End
<1> QED BY <1>1, <1>2, <1>3, <1>5, <1>6

----------------------------------------------------------------------------
(* What a round of copy_sections() needs.                                  *)

\* The segment of the round, and its new header.
LEMMA SegmentTypes ==
  ASSUME PatchInv, pc = "copy", i \in 1..Len(out.ph)
  PROVE  /\ i \in 1..N + 1 /\ elf \in Elfs /\ outPos \in Nat /\ size \in Nat
         /\ out.ph[i] \in Header /\ NewHeader(out.ph[i]) \in Header
         /\ out.ph[i].offset \in Nat /\ out.ph[i].filesz \in Nat
         /\ NewHeader(out.ph[i]).filesz \in Nat
         /\ TableSize = TableOf(N + 1)
         /\ Length(out.ph[i]) \in Nat
         /\ i \in 1..N => out.ph[i] = elf.ph[i]
         /\ i = N + 1 => out.ph[i] = DolHeader(elf)
<1>1. /\ elf \in Elfs /\ outPos \in Nat /\ size \in Nat /\ Len(out.ph) = N + 1
      /\ out.ph \in Seq(Header)
  BY DEF PatchInv, TypeOK, N
<1>2. TableSize = TableOf(N + 1) /\ TableSize \in Nat /\ N \in Nat /\ DolSize \in Nat
  BY <1>1, ElfTypes DEF TableSize, N
<1>3. i \in 1..N + 1 /\ out.ph[i] \in Header
  BY <1>1, <1>2
<1>4. NewHeader(out.ph[i]) \in Header
  BY <1>1, <1>2, <1>3 DEF NewHeader, Header
<1>5. /\ out.ph[i].offset \in Nat /\ out.ph[i].filesz \in Nat
      /\ NewHeader(out.ph[i]).filesz \in Nat
  BY <1>3, <1>4 DEF Header
<1>6. Length(out.ph[i]) \in Nat
  BY <1>2, <1>5 DEF Length
<1>7. (i \in 1..N => out.ph[i] = elf.ph[i]) /\ (i = N + 1 => out.ph[i] = DolHeader(elf))
  BY <1>2, <1>3 DEF PatchInv, CopyInv
<1> QED BY <1>1, <1>2, <1>3, <1>4, <1>5, <1>6, <1>7

\* There is always space for the cMIOS behind what was copied.
LEMMA SpaceForDol ==
  ASSUME PatchInv, pc = "copy", Regular(elf), i \in 1..N + 1
  PROVE  outPos + DolSize <= size
<1>1. elf \in Elfs /\ outPos \in Nat /\ size \in Nat
  BY DEF PatchInv, TypeOK
<1>2. /\ Placed
      /\ \A j \in 1..N : Loaded(elf.ph[j]) => End(elf.ph[j]) + DolSize + PhdrSize <= size
  BY DEF PatchInv, CopyInv
<1>3. /\ N \in Nat /\ DolSize \in Nat /\ PhdrSize \in Nat /\ EhdrSize \in Nat /\ CopySize \in Nat
      /\ EhdrSize + TableOf(N + 1) <= CopySize /\ TableOf(N + 1) \in Nat
      /\ \A j \in 1..N : End(elf.ph[j]) \in Nat
  BY <1>1, ElfTypes DEF N
<1>4. CASE outPos = EhdrSize + TableOf(N + 1)
  <2>1. PICK j \in 1..N : Loaded(elf.ph[j]) /\ CopySize <= End(elf.ph[j])
    BY <1>1, ElfTypes DEF Regular, N
  <2> QED BY <1>1, <1>2, <1>3, <1>4, <2>1
<1>5. CASE \E j \in 1..i - 1 : Loaded(elf.ph[j]) /\ outPos <= PhdrSize + End(elf.ph[j])
  <2>1. PICK j \in 1..i - 1 : Loaded(elf.ph[j]) /\ outPos <= PhdrSize + End(elf.ph[j])
    BY <1>5
  <2>2. j \in 1..N
    BY <1>3, <2>1
  <2>3. End(elf.ph[j]) \in Nat /\ End(elf.ph[j]) + DolSize + PhdrSize <= size
    BY <1>2, <1>3, <2>1, <2>2
  <2> QED BY <1>1, <1>3, <2>1, <2>3
<1>6. i # N + 2
  BY <1>3
<1> QED BY <1>2, <1>4, <1>5, <1>6 DEF Placed

\* A segment that is not the table is never moved by more than one header.
LEMMA MovedByOne ==
  ASSUME PatchInv, pc = "copy", Regular(elf), i \in 1..N,
         Loaded(elf.ph[i]), ~IsTable(elf.ph[i])
  PROVE  outPos <= PhdrSize + elf.ph[i].offset
<1>1. elf \in Elfs /\ outPos \in Nat
  BY DEF PatchInv, TypeOK
<1>2. Placed
  BY DEF PatchInv, CopyInv
<1>3. /\ N \in Nat /\ PhdrSize \in Nat /\ EhdrSize \in Nat
      /\ TableOf(N + 1) = TableOf(N) + PhdrSize
      /\ TableOf(N) \in Nat /\ DOMAIN elf.ph = 1..N
      /\ \A j \in 1..N : End(elf.ph[j]) \in Nat /\ elf.ph[j].offset \in Nat
  BY <1>1, ElfTypes DEF N
<1>4. /\ EhdrSize + TableOf(N) <= elf.ph[i].offset
      /\ \A l \in 1..i - 1 : Loaded(elf.ph[l]) => End(elf.ph[l]) <= elf.ph[i].offset
  BY <1>3 DEF Regular, N
<1>5. CASE outPos = EhdrSize + TableOf(N + 1)
  <2>1. elf.ph[i].offset \in Nat /\ outPos = EhdrSize + (TableOf(N) + PhdrSize)
    BY <1>3, <1>5
  <2>2. PhdrSize \in Nat /\ EhdrSize \in Nat /\ TableOf(N) \in Nat
    BY <1>3
  <2> QED BY <1>4, <2>1, <2>2
<1>6. CASE \E j \in 1..i - 1 : Loaded(elf.ph[j]) /\ outPos <= PhdrSize + End(elf.ph[j])
  <2>1. PICK j \in 1..i - 1 : Loaded(elf.ph[j]) /\ outPos <= PhdrSize + End(elf.ph[j])
    BY <1>6
  <2>2. j \in 1..N
    <3>1. N \in Nat
      BY <1>3
    <3> QED BY <2>1, <3>1
  <2>3. End(elf.ph[j]) <= elf.ph[i].offset
    BY <1>4, <2>1
  <2>4. End(elf.ph[j]) \in Nat /\ elf.ph[i].offset \in Nat /\ PhdrSize \in Nat
    BY <1>3, <2>2
  <2> QED BY <1>1, <2>1, <2>3, <2>4
<1>7. i # N + 2
  BY <1>3
<1> QED BY <1>2, <1>5, <1>6, <1>7 DEF Placed

\* So every round of a regular file stays in both buffers.
LEMMA RoundFits ==
  ASSUME PatchInv, pc = "copy", Regular(elf), i \in 1..Len(out.ph), Loaded(out.ph[i])
  PROVE  /\ InBuffers(out.ph[i])
         /\ outPos + NewHeader(out.ph[i]).filesz <= size
         /\ i \in 1..N /\ ~IsTable(elf.ph[i]) =>
              outPos + NewHeader(out.ph[i]).filesz <= PhdrSize + End(elf.ph[i])
<1> DEFINE h == out.ph[i]
<1>1. /\ i \in 1..N + 1 /\ elf \in Elfs /\ outPos \in Nat /\ size \in Nat
      /\ h.offset \in Nat /\ h.filesz \in Nat
      /\ TableSize = TableOf(N + 1)
      /\ (i \in 1..N => h = elf.ph[i]) /\ (i = N + 1 => h = DolHeader(elf))
  BY SegmentTypes
<1>2. /\ N \in Nat /\ DolSize \in Nat /\ PhdrSize \in Nat /\ EhdrSize \in Nat /\ CopySize \in Nat
      /\ EhdrSize + TableOf(N + 1) <= CopySize /\ TableOf(N + 1) \in Nat
      /\ elf.length \in Nat /\ DOMAIN elf.ph = 1..N
      /\ \A j \in 1..N : End(elf.ph[j]) \in Nat
  BY <1>1, ElfTypes DEF N
<1>3. size <= Room(size) /\ Room(size) \in Int
  BY <1>1, RoomEnough
<1>4. outPos + DolSize <= size
  BY <1>1, SpaceForDol
<1>5. TableOf(N + 1) <= DolSize /\ elf.left # EhdrSize
  BY DEF Regular, N
<1>6. /\ CopySize <= elf.length /\ Len(out.ph) = N + 1
      /\ \A j \in 1..N : Loaded(elf.ph[j]) => End(elf.ph[j]) + DolSize + PhdrSize <= size
  BY DEF PatchInv, CopyInv, TypeOK, N
<1>7. CASE i = N + 1
  <2>1. ~IsTable(h) /\ h.filesz = DolSize /\ IsDol
    BY <1>1, <1>5, <1>6, <1>7 DEF IsTable, DolHeader, IsDol
  <2>2. NewHeader(h).filesz = DolSize /\ Length(h) = DolSize
    <3>1. NewHeader(h) = [h EXCEPT !.offset = outPos]
      BY <2>1 DEF NewHeader
    <3>2. h \in Header
      BY SegmentTypes
    <3> QED BY <2>1, <3>1, <3>2 DEF Length, Header
  <2> QED BY <1>1, <1>2, <1>3, <1>4, <1>7, <2>1, <2>2 DEF InBuffers
<1>8. CASE i \in 1..N
  <2>1. ~IsDol /\ h = elf.ph[i] /\ h \in Header /\ Length(h) = NewHeader(h).filesz
    BY <1>1, <1>2, <1>6, <1>8, SegmentTypes DEF IsDol, Length
  <2>2. CASE IsTable(h)
    <3>1. NewHeader(h).filesz = TableOf(N + 1) /\ h.offset = EhdrSize
      BY <1>1, <2>1, <2>2 DEF NewHeader, IsTable, Header
    <3>2. /\ outPos \in Nat /\ size \in Nat /\ DolSize \in Nat /\ EhdrSize \in Nat
          /\ CopySize \in Nat /\ elf.length \in Nat /\ TableOf(N + 1) \in Nat
      BY <1>1, <1>2
    <3>3. outPos + TableOf(N + 1) <= size
      BY <1>4, <1>5, <3>2
    <3>4. EhdrSize + TableOf(N + 1) <= elf.length
      BY <1>2, <1>6, <3>2
    <3>5. InBuffers(h)
      BY <1>3, <2>1, <3>1, <3>2, <3>3, <3>4 DEF InBuffers
    <3> QED BY <2>1, <2>2, <3>1, <3>3, <3>5
  <2>3. CASE ~IsTable(h)
    <3>1. NewHeader(h).filesz = h.filesz /\ End(h) = h.offset + h.filesz
      BY <2>1, <2>3 DEF NewHeader, Header, End
    <3>2. outPos <= PhdrSize + h.offset
      BY <1>8, <2>1, <2>3, MovedByOne
    <3>3. End(h) <= elf.length /\ End(h) + DolSize + PhdrSize <= size
      BY <1>2, <1>6, <1>8, <2>1, <2>3 DEF Regular
    <3> HIDE DEF h
    <3>9. /\ outPos \in Nat /\ h.offset \in Nat /\ h.filesz \in Nat /\ size \in Nat
          /\ PhdrSize \in Nat /\ DolSize \in Nat /\ elf.length \in Nat
      BY <1>1, <1>2
    <3>4. outPos + NewHeader(h).filesz <= PhdrSize + End(h) /\ End(h) \in Nat
      BY <3>9, <3>1, <3>2
    <3>5. outPos + NewHeader(h).filesz <= size
      BY <3>9, <3>1, <3>3, <3>4
    <3>6. InBuffers(h)
      BY <3>9, <1>3, <2>1, <3>1, <3>3, <3>5 DEF InBuffers
    <3> QED BY <2>1, <3>4, <3>5, <3>6 DEF h
  <2> QED BY <2>2, <2>3
<1>9. i = N + 1 \/ i \in 1..N
  BY <1>1, <1>2
<1> QED BY <1>7, <1>8, <1>9

----------------------------------------------------------------------------
(* The invariant is inductive, action by action.                           *)

LEMMA InitInv == Init => PatchInv
<1> SUFFICES ASSUME Init PROVE PatchInv
  OBVIOUS
<1>1. elf \in Elfs /\ Len(elf.ph) \in Nat
  BY ElfTypes DEF Init
<1>2. TypeOK
  <2>1. pc = "check" /\ ret = "none" /\ i = 1 /\ size = 0 /\ outPos = 0
    BY DEF Init
  <2>2. code \in BOOLEAN /\ entry \in BOOLEAN
    BY DEF Init
  <2>3. i \in 1..Len(elf.ph) + 2
    BY <1>1, <2>1
  <2> QED BY <1>1, <2>1, <2>2, <2>3 DEF TypeOK
<1>3. SizeInv /\ CopyInv /\ pc # "overrun"
  BY DEF Init, SizeInv, CopyInv
<1> QED BY <1>2, <1>3 DEF PatchInv

LEMMA CheckHeadersInv == PatchInv /\ CheckHeaders => PatchInv'
<1> SUFFICES ASSUME PatchInv, CheckHeaders PROVE PatchInv'
  OBVIOUS
<1>1. N \in Nat /\ N' = N /\ elf' = elf
  BY ElfTypes DEF PatchInv, TypeOK, N, CheckHeaders
<1>2. TypeOK'
  BY <1>1 DEF PatchInv, TypeOK, CheckHeaders, Return
<1>3. i = 1 /\ i' = 1 /\ pc' \in {"size", "done"}
  BY DEF PatchInv, SizeInv, CheckHeaders, Return
<1>4. 1 \in 1..N + 1 /\ 1..1 - 1 = {}
  BY <1>1
<1>5. SizeInv'
  BY <1>1, <1>3, <1>4 DEF SizeInv
<1>6. CopyInv' /\ pc' # "overrun"
  BY <1>3 DEF CopyInv
<1> QED BY <1>2, <1>5, <1>6 DEF PatchInv

LEMMA SizeHeaderInv == PatchInv /\ SizeHeader => PatchInv'
<1> SUFFICES ASSUME PatchInv, SizeHeader PROVE PatchInv'
  OBVIOUS
<1>1. /\ elf \in Elfs /\ N' = N /\ elf' = elf /\ pc = "size" /\ pc' = "size" /\ i \in 1..N
      /\ N \in Nat /\ size \in Nat
      /\ \A j \in 1..N : End(elf.ph[j]) \in Nat
  <2>1. elf \in Elfs /\ elf' = elf /\ pc = "size" /\ pc' = "size" /\ i <= N /\ size \in Nat
    BY DEF PatchInv, TypeOK, N, SizeHeader
  <2>2. N \in Nat /\ \A j \in 1..N : End(elf.ph[j]) \in Nat
    BY <2>1, ElfTypes DEF N
  <2>3. i \in 1..N
    BY <2>1, <2>2 DEF PatchInv, SizeInv
  <2> QED BY <2>1, <2>2, <2>3 DEF N
<1>2. /\ size' \in Nat /\ size <= size'
      /\ Loaded(elf.ph[i]) => End(elf.ph[i]) <= size'
  BY <1>1 DEF SizeHeader
<1>3. TypeOK'
  BY <1>1, <1>2 DEF PatchInv, TypeOK, SizeHeader, IsCode, N
<1>4. ASSUME NEW j \in 1..i, Loaded(elf.ph[j]) PROVE End(elf.ph[j]) <= size'
  <2>1. CASE j = i
    BY <1>2, <2>1, <1>4
  <2>2. CASE j # i
    <3>1. j \in 1..i - 1 /\ j \in 1..N
      BY <1>1, <2>2
    <3>2. End(elf.ph[j]) <= size /\ End(elf.ph[j]) \in Nat
      BY <1>1, <1>4, <3>1 DEF PatchInv, SizeInv
    <3> QED BY <1>1, <1>2, <3>2
  <2> QED BY <2>1, <2>2
<1>5. i' = i + 1 /\ i' \in 1..N + 1 /\ 1..i' - 1 = 1..i
  BY <1>1 DEF SizeHeader
<1>6. SizeInv'
  BY <1>1, <1>4, <1>5 DEF SizeInv
<1> QED BY <1>1, <1>3, <1>6 DEF PatchInv, CopyInv

LEMMA EndsInv ==
  PatchInv /\ (NotPatchable \/ EndCopy \/ Overrun) => PatchInv'
<1> SUFFICES ASSUME PatchInv, NotPatchable \/ EndCopy \/ Overrun PROVE PatchInv'
  OBVIOUS
<1>1. elf' = elf /\ N' = N /\ pc' \in {"done", "overrun"}
  BY DEF NotPatchable, EndCopy, Overrun, Return, N
<1>2. TypeOK'
  BY <1>1 DEF PatchInv, TypeOK, NotPatchable, EndCopy, Overrun, Return
<1>3. Regular(elf) => pc' # "overrun"
  <2> SUFFICES ASSUME Regular(elf), Overrun PROVE FALSE
    BY DEF NotPatchable, EndCopy, Return
  <2>1. /\ pc = "copy" /\ i <= Len(out.ph) /\ Loaded(out.ph[i]) /\ ~InBuffers(out.ph[i])
        /\ i \in 1..Len(elf.ph) + 2 /\ out.ph \in Seq(Header) /\ elf \in Elfs
    BY DEF PatchInv, TypeOK, Overrun
  <2>2. i \in Nat /\ 1 <= i /\ Len(out.ph) \in Nat
    BY <2>1, ElfTypes
  <2>3. i \in 1..Len(out.ph)
    BY <2>1, <2>2
  <2> QED BY <2>1, <2>3, RoundFits
<1> QED BY <1>1, <1>2, <1>3 DEF PatchInv, SizeInv, CopyInv

LEMMA SkipSegmentInv == PatchInv /\ SkipSegment => PatchInv'
<1> SUFFICES ASSUME PatchInv, SkipSegment PROVE PatchInv'
  OBVIOUS
<1>1. /\ elf \in Elfs /\ elf' = elf /\ N' = N /\ pc = "copy" /\ pc' = "copy"
      /\ out' = out /\ outPos' = outPos /\ size' = size
      /\ N \in Nat /\ Len(out.ph) = N + 1 /\ i' = i + 1 /\ i \in 1..N + 1
  BY ElfTypes DEF PatchInv, TypeOK, N, SkipSegment
<1>2. i \in 1..N
  <2>1. ASSUME i = N + 1 PROVE FALSE
    <3>1. out.ph[i] = DolHeader(elf)
      BY <1>1, <2>1, SegmentTypes
    <3>2. DolSize \in Nat \ {0}
      BY ElfAssumption DEF DolSize
    <3> QED BY <3>1, <3>2 DEF SkipSegment, Loaded, DolHeader
  <2> QED BY <1>1, <2>1
<1>3. TypeOK'
  BY <1>1, <1>2 DEF PatchInv, TypeOK, SkipSegment, N, Room
<1>4. i' \in 1..N + 1 /\ 1..i - 1 \subseteq 1..i' - 1 /\ i'..N \subseteq i..N
  BY <1>1, <1>2
<1>5. Placed => Placed'
  BY <1>1, <1>2, <1>4 DEF Placed
<1>6. CopyInv'
  BY <1>1, <1>2, <1>4, <1>5 DEF PatchInv, CopyInv
<1> QED BY <1>1, <1>3, <1>6 DEF PatchInv, SizeInv


\* A regular file has a segment that ends behind what is copied first.
LEMMA FirstCopyFits ==
  ASSUME PatchInv, StartCopy, Regular(elf)
  PROVE  CopySize <= Room(size') /\ CopySize <= elf.length
<1>1. /\ elf \in Elfs /\ pc = "size" /\ size \in Nat /\ i \in 1..N + 1 /\ i > N /\ N \in Nat
      /\ size' = size + DolSize + PhdrSize
  BY ElfTypes DEF PatchInv, TypeOK, SizeInv, StartCopy, N
<1>2. /\ DolSize \in Nat /\ PhdrSize \in Nat /\ EhdrSize \in Nat /\ CopySize \in Nat
      /\ EhdrSize + TableOf(N + 1) <= CopySize /\ TableOf(N) \in Nat
      /\ TableOf(N + 1) = TableOf(N) + PhdrSize /\ PhdrSize # 0
      /\ elf.length \in Nat /\ DOMAIN elf.ph = 1..N
      /\ \A j \in 1..N : End(elf.ph[j]) \in Nat
  BY <1>1, ElfTypes, ElfAssumption DEF N
<1>3. size' \in Nat /\ size <= size' /\ size' <= Room(size') /\ Room(size') \in Int
  <2>1. size' \in Nat /\ size <= size'
    BY <1>1, <1>2
  <2> QED BY <2>1, RoomEnough
<1>4. PICK j \in 1..N : Loaded(elf.ph[j]) /\ CopySize <= End(elf.ph[j])
  BY <1>2 DEF Regular
<1>5. End(elf.ph[j]) <= size /\ End(elf.ph[j]) \in Nat
  <2>1. j \in 1..i - 1
    BY <1>1, <1>4
  <2> QED BY <1>1, <1>2, <1>4, <2>1 DEF PatchInv, SizeInv
<1>6. CopySize <= Room(size')
  BY <1>1, <1>2, <1>3, <1>4, <1>5
<1>7. ~IsTable(elf.ph[j])
  <2>1. ASSUME IsTable(elf.ph[j]) PROVE FALSE
    <3>1. elf.ph[j].offset = EhdrSize /\ elf.ph[j].filesz = TableOf(N)
      BY <1>2, <1>4, <2>1 DEF Regular, IsTable, N
    <3>2. End(elf.ph[j]) = EhdrSize + TableOf(N)
      BY <3>1 DEF End
    <3>3. EhdrSize + (TableOf(N) + PhdrSize) <= EhdrSize + TableOf(N)
      BY <1>2, <1>4, <1>5, <3>2
    <3> QED BY <1>2, <3>3
  <2> QED BY <2>1
<1>8. End(elf.ph[j]) <= elf.length
  BY <1>2, <1>4, <1>7 DEF Regular
<1> QED BY <1>2, <1>4, <1>5, <1>6, <1>8

LEMMA StartCopyInv == PatchInv /\ StartCopy => PatchInv'
<1> SUFFICES ASSUME PatchInv, StartCopy PROVE PatchInv'
  OBVIOUS
<1>1. /\ elf \in Elfs /\ elf' = elf /\ N' = N /\ pc = "size" /\ size \in Nat
      /\ i \in 1..N + 1 /\ i > N /\ N \in Nat /\ i' = 1
      /\ size' = size + DolSize + PhdrSize
      /\ outPos' = EhdrSize + TableOf(N + 1)
  BY ElfTypes DEF PatchInv, TypeOK, SizeInv, StartCopy, N
<1>2. /\ DolSize \in Nat /\ PhdrSize \in Nat /\ EhdrSize \in Nat
      /\ TableOf(N + 1) \in Nat
      /\ elf.length \in Nat /\ elf.words \in [0..elf.length - 1 -> Nat]
      /\ elf.ph \in Seq(Header) /\ elf.left \in Nat
      /\ \A j \in 1..N : End(elf.ph[j]) \in Nat
  BY <1>1, ElfTypes DEF N
<1>3. size' \in Nat /\ outPos' \in Nat
  BY <1>1, <1>2
<1>4. Room(size') \in Int /\ CopySize \in Nat
  BY <1>3, RoomEnough, ElfAssumption
<1>5. pc' \in {"copy", "overrun"} /\ ret' = ret /\ ret = "none"
  BY <1>1 DEF StartCopy, PatchInv, TypeOK
<1>6. DolHeader(elf) \in Header
  BY <1>2, ElfAssumption DEF DolHeader, Header
<1>7. ASSUME pc' = "copy"
      PROVE  /\ CopySize <= elf.length
             /\ out'.ph = Append(elf.ph, DolHeader(elf))
             /\ out'.words \in [0..Room(size') - 1 -> Nat]
  <2>1. /\ CopySize <= elf.length /\ CopySize <= Room(size')
        /\ out' = [ph    |-> Append(elf.ph, DolHeader(elf)),
                   words |-> [p \in 0..Room(size') - 1 |->
                                IF p < CopySize THEN elf.words[p] ELSE 0]]
    BY <1>7 DEF StartCopy
  <2>2. ASSUME NEW p \in 0..Room(size') - 1, p < CopySize PROVE elf.words[p] \in Nat
    <3>1. p \in 0..elf.length - 1
      BY <1>2, <1>4, <2>1, <2>2
    <3> QED BY <1>2, <3>1
  <2> QED BY <2>1, <2>2
<1>8. pc' = "copy" => /\ out'.ph \in Seq(Header) /\ Len(out'.ph) = N + 1
                      /\ out'.ph[N + 1] = DolHeader(elf)
                      /\ \A j \in 1..N : out'.ph[j] = elf.ph[j]
  <2> SUFFICES ASSUME pc' = "copy"
               PROVE  /\ out'.ph \in Seq(Header) /\ Len(out'.ph) = N + 1
                      /\ out'.ph[N + 1] = DolHeader(elf)
                      /\ \A j \in 1..N : out'.ph[j] = elf.ph[j]
    OBVIOUS
  <2>1. ASSUME NEW q \in Seq(Header), NEW d \in Header
        PROVE  /\ Append(q, d) \in Seq(Header) /\ Len(Append(q, d)) = Len(q) + 1
               /\ Append(q, d)[Len(q) + 1] = d
               /\ \A j \in 1..Len(q) : Append(q, d)[j] = q[j]
    OBVIOUS
  <2> DEFINE q == elf.ph  d == DolHeader(elf)
  <2>2. q \in Seq(Header) /\ d \in Header /\ out'.ph = Append(q, d) /\ N = Len(q)
    BY <1>2, <1>6, <1>7 DEF N
  <2> HIDE DEF q, d
  <2>3. /\ out'.ph \in Seq(Header) /\ Len(out'.ph) = N + 1
        /\ out'.ph[N + 1] = d /\ \A j \in 1..N : out'.ph[j] = q[j]
    BY <2>1, <2>2
  <2> QED BY <2>3 DEF q, d
<1>9. TypeOK'
  <2>1. code' \in BOOLEAN /\ entry' \in BOOLEAN
    BY DEF PatchInv, TypeOK, StartCopy
  <2>2. i' \in 1..Len(elf'.ph) + 2
    BY <1>1 DEF N
  <2>3. pc' = "copy" => out'.words \in [0..Room(size)' - 1 -> Nat]
    BY <1>7 DEF Room
  <2> QED BY <1>1, <1>3, <1>5, <1>8, <2>1, <2>2, <2>3 DEF TypeOK, N
<1>10. SizeInv'
  BY <1>5 DEF SizeInv
<1>11. CopyInv'
  <2> SUFFICES ASSUME pc' = "copy" PROVE CopyInv'
    BY DEF CopyInv
  <2>1. ASSUME NEW j \in 1..N, Loaded(elf.ph[j])
        PROVE  End(elf.ph[j]) + DolSize + PhdrSize <= size'
    <3>1. End(elf.ph[j]) <= size /\ End(elf.ph[j]) \in Nat
      BY <1>1, <1>2, <2>1 DEF PatchInv, SizeInv
    <3> QED BY <1>1, <1>2, <3>1
  <2>2. Placed'
    BY <1>1 DEF Placed
  <2> QED BY <1>1, <1>7, <1>8, <2>1, <2>2 DEF CopyInv
<1>12. Regular(elf) => pc' # "overrun"
  BY FirstCopyFits DEF StartCopy
<1> QED BY <1>1, <1>9, <1>10, <1>11, <1>12 DEF PatchInv


\* What is copied are words.
LEMMA CopiedTypes ==
  ASSUME PatchInv, pc = "copy", i \in 1..Len(out.ph), InBuffers(out.ph[i])
  PROVE  Copied(out.ph[i]) \in [0..Room(size) - 1 -> Nat]
<1> DEFINE h == out.ph[i]
<1>1. /\ elf \in Elfs /\ outPos \in Nat /\ h.offset \in Nat /\ Length(h) \in Nat
      /\ out.words \in [0..Room(size) - 1 -> Nat] /\ Room(size) \in Int
  BY SegmentTypes, RoomEnough DEF PatchInv, TypeOK
<1>2. elf.length \in Nat /\ elf.words \in [0..elf.length - 1 -> Nat]
  BY <1>1, ElfTypes
<1>3. Dol \in Seq(Nat) /\ DolSize = Len(Dol) /\ DolSize \in Nat
  BY ElfAssumption DEF DolSize
<1>4. ASSUME NEW q \in 0..Length(h) - 1 PROVE Word(h, q) \in Nat
  <2>1. CASE IsDol
    <3>1. Length(h) = DolSize
      BY <2>1 DEF Length
    <3>2. q + 1 \in 1..Len(Dol)
      BY <1>3, <3>1
    <3>3. Dol[q + 1] \in Nat
      BY <1>3, <3>2
    <3> QED BY <2>1, <3>3 DEF Word
  <2>2. CASE ~IsDol
    <3>1. h.offset + Length(h) <= elf.length
      BY <2>2 DEF InBuffers
    <3>2. h.offset + q \in 0..elf.length - 1
      <4>1. ASSUME NEW o \in Nat, NEW l \in Nat, NEW t \in Nat, NEW u \in 0..l - 1, o + l <= t
            PROVE  o + u \in 0..t - 1
        BY <4>1
      <4> QED BY <1>1, <1>2, <3>1, <4>1
    <3> QED BY <1>2, <2>2, <3>2 DEF Word
  <2> QED BY <2>1, <2>2
<1>5. ASSUME NEW p \in 0..Room(size) - 1, outPos <= p, p < outPos + Length(h)
      PROVE  Word(h, p - outPos) \in Nat
  <2>1. p - outPos \in 0..Length(h) - 1
    BY <1>1, <1>5
  <2> QED BY <1>4, <2>1
<1>6. Copied(h) = [p \in 0..Room(size) - 1 |->
        IF outPos <= p /\ p < outPos + Length(h) THEN Word(h, p - outPos) ELSE out.words[p]]
  BY <1>1 DEF Copied
<1> HIDE DEF h
<1>7. Copied(h) \in [0..Room(size) - 1 -> Nat]
  BY <1>1, <1>5, <1>6
<1> QED BY <1>7 DEF h

LEMMA CopySegmentInv == PatchInv /\ CopySegment => PatchInv'
<1> SUFFICES ASSUME PatchInv, CopySegment PROVE PatchInv'
  OBVIOUS
<1> DEFINE h == out.ph[i]  g == NewHeader(h)  c == Copied(h)
<1>1. /\ elf \in Elfs /\ elf' = elf /\ N' = N /\ pc = "copy" /\ pc' \in {"copy", "done"}
      /\ size \in Nat /\ size' = size /\ code' = code /\ i' = i + 1 /\ N \in Nat
      /\ Len(out.ph) = N + 1 /\ out.ph \in Seq(Header) /\ i \in 1..N + 1 /\ outPos \in Nat
  BY ElfTypes DEF PatchInv, TypeOK, N, CopySegment, Return
<1>2. Loaded(h) /\ InBuffers(h)
  BY DEF CopySegment
<1>3. h \in Header /\ g \in Header /\ g.filesz \in Nat
  BY <1>1, SegmentTypes
<1>4. outPos' \in Nat /\ outPos' <= outPos + g.filesz
  BY <1>1, <1>3 DEF CopySegment
<1>5. c \in [0..Room(size) - 1 -> Nat]
  BY <1>1, <1>2, CopiedTypes
<1>6. /\ out'.ph = [out.ph EXCEPT ![i] = g]
      /\ out'.words = c \/ out'.words = [c EXCEPT ![EntryAt(h)] = NewEntry]
  BY DEF CopySegment
<1>7. /\ out'.ph \in Seq(Header) /\ Len(out'.ph) = N + 1
      /\ \A j \in 1..N + 1 : j # i => out'.ph[j] = out.ph[j]
  BY <1>1, <1>3, <1>6
<1>8. out'.words \in [0..Room(size) - 1 -> Nat]
  BY <1>5, <1>6, ElfAssumption
<1>9. TypeOK'
  <2>1. /\ ret' \in {"none", "ok", "refused", "nomem"} /\ (ret' = "none" <=> pc' # "done")
        /\ code' \in BOOLEAN /\ entry' \in BOOLEAN
    BY <1>1 DEF PatchInv, TypeOK, CopySegment, Return
  <2>2. i' \in 1..Len(elf'.ph) + 2
    BY <1>1 DEF N
  <2>3. out'.words \in [0..Room(size)' - 1 -> Nat]
    BY <1>1, <1>8 DEF Room
  <2> QED BY <1>1, <1>4, <1>7, <2>1, <2>2, <2>3 DEF TypeOK, N
<1>10. /\ CopySize <= elf.length
       /\ \A j \in 1..N : Loaded(elf.ph[j]) => End(elf.ph[j]) + DolSize + PhdrSize <= size
       /\ \A j \in i..N : out.ph[j] = elf.ph[j]
       /\ out.ph[N + 1] = DolHeader(elf)
       /\ Regular(elf) => Placed
  BY <1>1 DEF PatchInv, CopyInv
<1>11. ASSUME Regular(elf) PROVE Placed'
  <2>1. /\ outPos + g.filesz <= size
        /\ i \in 1..N /\ ~IsTable(elf.ph[i]) => outPos + g.filesz <= PhdrSize + End(elf.ph[i])
    BY <1>1, <1>2, <1>11, RoundFits
  <2>2. CASE i = N + 1
    <3>1. i' = N + 2 /\ outPos' <= size
      BY <1>1, <1>3, <1>4, <2>1, <2>2
    <3> QED BY <1>1, <3>1 DEF Placed
  <2>3. CASE i \in 1..N /\ ~IsTable(elf.ph[i])
    <3>1. PhdrSize \in Nat /\ End(elf.ph[i]) \in Nat
      BY <1>1, <2>3, ElfTypes DEF N
    <3>2. outPos' <= PhdrSize + End(elf.ph[i])
      BY <1>1, <1>3, <1>4, <2>1, <2>3, <3>1
    <3>3. h = elf.ph[i]
      BY <1>1, <2>3, SegmentTypes
    <3>4. i' \in 1..N + 1 /\ i \in 1..i' - 1
      BY <1>1, <2>3
    <3> QED BY <1>1, <1>2, <2>3, <3>2, <3>3, <3>4 DEF Placed
  <2>4. CASE i \in 1..N /\ IsTable(elf.ph[i])
    <3>1. h = elf.ph[i]
      BY <1>1, <2>4, SegmentTypes
    <3>2. IsTable(g)
      BY <2>4, <3>1, <1>3 DEF NewHeader, IsTable, Header
    <3>3. outPos' = outPos
      BY <3>2 DEF CopySegment
    <3>4. i' \in 1..N + 1 /\ 1..i - 1 \subseteq 1..i' - 1 /\ i # N + 2
      BY <1>1, <2>4
    <3>5. Placed
      BY <1>10, <1>11
    <3> QED BY <1>1, <3>3, <3>4, <3>5 DEF Placed
  <2> QED BY <1>1, <2>2, <2>3, <2>4
<1>12. CopyInv'
  <2>1. \A j \in i'..N : out'.ph[j] = elf.ph[j]
    BY <1>1, <1>7, <1>10
  <2>2. i' \in 1..N + 1 => out'.ph[N + 1] = DolHeader(elf)
    BY <1>1, <1>7, <1>10
  <2> QED BY <1>1, <1>10, <1>11, <2>1, <2>2 DEF CopyInv
<1> QED BY <1>1, <1>9, <1>12 DEF PatchInv, SizeInv

LEMMA StepInv == PatchInv /\ [Next]_vars => PatchInv'
<1>1. PatchInv /\ UNCHANGED vars => PatchInv'
  BY DEF PatchInv, TypeOK, SizeInv, CopyInv, Placed, N, TableSize, Room, vars
<1> QED BY <1>1, CheckHeadersInv, SizeHeaderInv, EndsInv, SkipSegmentInv, StartCopyInv,
           CopySegmentInv DEF Next

LEMMA Invariant == Spec => []PatchInv
BY InitInv, StepInv, PTL DEF Spec

\* patchMIOS() keeps its types: no loop leaves the headers, every copied word is
\* one of the file, and there is a result exactly at the end.
THEOREM PatcherTypes == Spec => []TypeOK
<1>1. PatchInv => TypeOK
  BY DEF PatchInv
<1> QED BY <1>1, Invariant, PTL

\* The size that is calculated from the old offsets is enough: no copy of
\* copy_sections() leaves its buffers if the file is one that linkers make.
THEOREM PatcherFits == Spec => []FitsInSize
<1>1. PatchInv => FitsInSize
  <2> SUFFICES ASSUME PatchInv, Regular(elf), pc = "copy" PROVE outPos <= size
    BY DEF PatchInv, FitsInSize
  <2>1. N \in Nat /\ outPos \in Nat /\ size \in Nat /\ DolSize \in Nat /\ i \in 1..N + 2
    BY ElfTypes DEF PatchInv, TypeOK, N
  <2>2. CASE i \in 1..N + 1
    BY <2>1, <2>2, SpaceForDol
  <2>3. CASE i = N + 2
    <3>1. Placed /\ i \notin 1..N + 1
      BY <2>1, <2>3 DEF PatchInv, CopyInv
    <3> QED BY <3>1 DEF Placed
  <2> QED BY <2>1, <2>2, <2>3
<1> QED BY <1>1, Invariant, PTL

----------------------------------------------------------------------------
(* What the result is, for every file.                                     *)

Wanted(h, q) == IF h.paddr + q = EntryAddr THEN NewEntry ELSE elf.words[h.offset + q]

\* Segment j is where its new header says, as it was but for the entry point.
InPlace(j) ==
  /\ out.ph[j] = [elf.ph[j] EXCEPT !.offset = out.ph[j].offset]
  /\ \A q \in 0..elf.ph[j].filesz - 1 :
       out.words[out.ph[j].offset + q] = Wanted(elf.ph[j], q)

DolInPlace ==
  /\ out.ph[N + 1].paddr = LoadAddr
  /\ \A q \in 1..DolSize : out.words[out.ph[N + 1].offset + q - 1] = Dol[q]

Segment(j) == j \in 1..N /\ Loaded(elf.ph[j]) /\ ~IsTable(elf.ph[j])

\* What was copied is in its place, and below where the next segment goes.
ImageInv ==
  pc = "copy" /\ EntryIsData(elf) =>
    /\ EhdrSize + TableOf(N + 1) <= outPos
    /\ \A j \in 1..i - 1 : Segment(j) =>
         /\ InPlace(j) /\ out.ph[j].offset \in Nat
         /\ out.ph[j].offset + elf.ph[j].filesz <= outPos
    /\ i = N + 2 => DolInPlace

\* A round of copy_sections(): a segment goes to outPos, the table stays and
\* has no entry point.
LEMMA Round ==
  ASSUME PatchInv, ImageInv, EntryIsData(elf), CopySegment,
         NEW h, h = out.ph[i]
  PROVE  /\ i \in 1..N + 1 /\ i' = i + 1 /\ elf' = elf /\ N' = N /\ N \in Nat
         /\ h \in Header /\ out.ph \in Seq(Header) /\ Len(out.ph) = N + 1
         /\ elf \in Elfs /\ outPos \in Nat /\ Room(size) \in Int /\ Length(h) \in Nat
         /\ outPos + Length(h) <= Room(size)
         /\ out.words \in [0..Room(size) - 1 -> Nat]
         /\ out'.ph = [out.ph EXCEPT ![i] = NewHeader(h)]
         /\ i = N + 1 => h = DolHeader(elf) /\ ~IsTable(h)
         /\ i \in 1..N => h = elf.ph[i]
         /\ IsTable(h) => ~Has(NewHeader(h), EntryAddr) /\ outPos' = outPos
         /\ ~IsTable(h) => /\ NewHeader(h) = [h EXCEPT !.offset = outPos]
                           /\ outPos' = outPos + h.filesz
<1>1. pc = "copy" /\ InBuffers(h) /\ Loaded(h) /\ elf' = elf /\ i' = i + 1
  BY DEF CopySegment
<1>2. /\ elf \in Elfs /\ Len(out.ph) = N + 1 /\ out.ph \in Seq(Header) /\ i \in 1..N + 2
      /\ out.words \in [0..Room(size) - 1 -> Nat] /\ i <= Len(out.ph)
  BY <1>1 DEF PatchInv, TypeOK, N, CopySegment
<1>3. /\ N \in Nat /\ PhdrSize \in Nat \ {0} /\ EhdrSize \in Nat
      /\ TableOf(N + 1) = TableOf(N) + PhdrSize /\ TableOf(N) \in Nat /\ DOMAIN elf.ph = 1..N
  BY <1>2, ElfTypes, ElfAssumption DEF N
<1>4. i \in 1..N + 1 /\ i \in 1..Len(out.ph)
  BY <1>2, <1>3
<1>5. /\ outPos \in Nat /\ size \in Nat /\ h \in Header /\ h.filesz \in Nat /\ Length(h) \in Nat
      /\ TableSize = TableOf(N + 1)
      /\ (i \in 1..N => h = elf.ph[i]) /\ (i = N + 1 => h = DolHeader(elf))
  BY <1>1, <1>4, SegmentTypes
<1>6. Room(size) \in Int /\ outPos + Length(h) <= Room(size)
  BY <1>1, <1>5, RoomEnough DEF InBuffers
<1>7. out'.ph = [out.ph EXCEPT ![i] = NewHeader(h)]
  BY DEF CopySegment
<1>8. i = N + 1 => ~IsTable(h)
  BY <1>5 DEF EntryIsData, DolHeader, IsTable
<1>9. ASSUME IsTable(h)  PROVE  ~Has(NewHeader(h), EntryAddr) /\ outPos' = outPos
  <2>1. i \in 1..N /\ h = elf.ph[i]
    <3>1. i # N + 1
      BY <1>8, <1>9
    <3>2. i \in 1..N
      BY ONLY <1>3, <1>4, <3>1
    <3> QED BY <1>5, <3>2
  <2>2. /\ NewHeader(h).paddr = h.paddr /\ NewHeader(h).filesz = TableOf(N + 1)
        /\ NewHeader(h).offset = EhdrSize /\ h.paddr \in Nat
    BY <1>5, <1>9 DEF NewHeader, Header, IsTable
  <2>3. EntryAddr \notin h.paddr..(h.paddr + TableOf(N + 1) - 1)
    BY <1>3, <1>9, <2>1 DEF EntryIsData, N
  <2>4. EntryAddr \in Nat /\ TableOf(N + 1) \in Nat
    BY <1>3, ElfAssumption
  <2>5. ~(h.paddr <= EntryAddr /\ EntryAddr < h.paddr + TableOf(N + 1))
    BY <2>2, <2>3, <2>4
  <2>6. ~Has(NewHeader(h), EntryAddr)
    BY <2>2, <2>5 DEF Has
  <2>7. IsTable(NewHeader(h))
    BY <2>2 DEF IsTable
  <2>8. outPos' = outPos
    BY <2>7 DEF CopySegment
  <2> QED BY <2>6, <2>8
<1>10. ASSUME ~IsTable(h)
       PROVE  NewHeader(h) = [h EXCEPT !.offset = outPos] /\ outPos' = outPos + h.filesz
  <2>1. NewHeader(h) = [h EXCEPT !.offset = outPos]
    BY <1>10 DEF NewHeader
  <2>2. NewHeader(h).offset = outPos /\ NewHeader(h).filesz = h.filesz
    BY <1>5, <2>1 DEF Header
  <2>3. EhdrSize + TableOf(N + 1) <= outPos
    BY <1>1 DEF ImageInv
  <2>4. outPos # EhdrSize
    BY <1>3, <1>5, <2>3
  <2>5. ~IsTable(NewHeader(h))
    BY <2>2, <2>4 DEF IsTable
  <2>6. outPos' = outPos + h.filesz
    BY <2>2, <2>5 DEF CopySegment
  <2> QED BY <2>1, <2>6
<1>11. N' = N
  BY <1>1 DEF N
<1> QED BY <1>1, <1>2, <1>3, <1>4, <1>5, <1>6, <1>7, <1>8, <1>9, <1>10, <1>11

\* What is copied to outPos, and that nothing below is touched.
LEMMA RoundWords ==
  ASSUME PatchInv, ImageInv, EntryIsData(elf), CopySegment, pc' = "copy",
         NEW h, h = out.ph[i]
  PROVE  /\ \A p \in Nat : p < outPos => out'.words[p] = out.words[p]
         /\ ~IsTable(h) => \A q \in 0..h.filesz - 1 :
              out'.words[outPos + q] = IF h.paddr + q = EntryAddr THEN NewEntry ELSE Word(h, q)
<1>1. /\ outPos \in Nat /\ Room(size) \in Int /\ Length(h) \in Nat /\ h \in Header
      /\ outPos + Length(h) <= Room(size)
      /\ out.words \in [0..Room(size) - 1 -> Nat] /\ EntryAddr \in Nat
      /\ IsTable(h) => ~Has(NewHeader(h), EntryAddr)
      /\ ~IsTable(h) => NewHeader(h) = [h EXCEPT !.offset = outPos]
  BY Round, ElfAssumption
<1>2. h.paddr \in Nat /\ h.filesz \in Nat
  BY <1>1 DEF Header
<1> DEFINE c == Copied(h)
<1>3. c = [p \in 0..Room(size) - 1 |->
             IF outPos <= p /\ p < outPos + Length(h) THEN Word(h, p - outPos) ELSE out.words[p]]
  BY <1>1 DEF Copied
<1>4. \/ ~Has(NewHeader(h), EntryAddr) /\ out'.words = c
      \/ /\ Has(NewHeader(h), EntryAddr)
         /\ out'.words = [c EXCEPT ![EntryAt(h)] = NewEntry]
  BY DEF CopySegment, Return
<1>5. ASSUME ~IsTable(h)
      PROVE  /\ Has(NewHeader(h), EntryAddr)
                <=> h.paddr <= EntryAddr /\ EntryAddr < h.paddr + h.filesz
             /\ EntryAt(h) = outPos + EntryAddr - h.paddr
  <2>1. /\ NewHeader(h).offset = outPos /\ NewHeader(h).filesz = h.filesz
        /\ NewHeader(h).paddr = h.paddr
    BY <1>1, <1>5 DEF Header
  <2> QED BY <2>1 DEF Has, EntryAt
<1>6. ASSUME ~IsTable(h)  PROVE  Length(h) = h.filesz
  <2>1. NewHeader(h).filesz = h.filesz
    BY <1>1, <1>6 DEF Header
  <2>2. IsDol => h.filesz = DolSize
    <3>1. IsDol => i = N + 1
      BY Round DEF IsDol
    <3>2. IsDol => h = DolHeader(elf)
      BY <3>1, Round
    <3> QED BY <3>2 DEF DolHeader
  <2> QED BY <2>1, <2>2 DEF Length
<1> HIDE DEF c
<1>7. ASSUME NEW p \in Nat, p < outPos  PROVE  out'.words[p] = out.words[p]
  <2>1. p \in 0..Room(size) - 1
    BY <1>1, <1>7
  <2>2. c[p] = out.words[p]
    BY <1>1, <1>3, <1>7, <2>1
  <2>3. ASSUME Has(NewHeader(h), EntryAddr)  PROVE  EntryAt(h) # p
    <3>1. ~IsTable(h)
      BY <1>1, <2>3
    <3> QED BY <1>1, <1>2, <1>5, <1>7, <2>3, <3>1
  <2>4. p \in DOMAIN c
    BY <1>3, <2>1
  <2> QED BY <1>4, <2>2, <2>3, <2>4
<1>8. ASSUME ~IsTable(h), NEW q \in 0..h.filesz - 1
      PROVE  out'.words[outPos + q] = IF h.paddr + q = EntryAddr THEN NewEntry ELSE Word(h, q)
  <2>1. outPos + q \in 0..Room(size) - 1 /\ outPos <= outPos + q /\ outPos + q < outPos + Length(h)
        /\ (outPos + q) - outPos = q
    BY <1>1, <1>2, <1>6, <1>8
  <2>2. c[outPos + q] = Word(h, q) /\ outPos + q \in DOMAIN c
    BY <1>3, <2>1
  <2>3. EntryAt(h) = outPos + q <=> h.paddr + q = EntryAddr
    <3>1. EntryAt(h) = outPos + EntryAddr - h.paddr
      BY <1>5, <1>8
    <3>2. outPos \in Nat /\ EntryAddr \in Nat /\ h.paddr \in Nat /\ q \in Nat
      BY <1>1, <1>2, <1>8
    <3> QED BY ONLY <3>1, <3>2
  <2>4. h.paddr + q = EntryAddr => Has(NewHeader(h), EntryAddr)
    <3>1. Has(NewHeader(h), EntryAddr) <=> h.paddr <= EntryAddr /\ EntryAddr < h.paddr + h.filesz
      BY <1>5, <1>8
    <3>2. h.filesz \in Nat /\ EntryAddr \in Nat /\ h.paddr \in Nat /\ q \in 0..h.filesz - 1
      BY <1>1, <1>2, <1>8
    <3> QED BY ONLY <3>1, <3>2
  <2> QED BY <1>4, <2>2, <2>3, <2>4
<1> QED BY <1>7, <1>8
\* The segment of the file that is looked at for the entry point, and the word.
HasEntry(j) ==
  /\ j \in 1..N /\ Loaded(elf.ph[j])
  /\ EntryAddr \in elf.ph[j].paddr..(elf.ph[j].paddr + elf.ph[j].filesz - 1)

OldEntryAt(j) == elf.words[elf.ph[j].offset + EntryAddr - elf.ph[j].paddr] = OldEntry

\* A round finds the entry point where the file has it.
LEMMA RoundEntry ==
  ASSUME PatchInv, ImageInv, EntryIsData(elf), CopySegment,
         NEW h, h = out.ph[i]
  PROVE  /\ Has(NewHeader(h), EntryAddr) <=> HasEntry(i)
         /\ Has(NewHeader(h), EntryAddr) =>
              Copied(h)[EntryAt(h)] = elf.words[h.offset + EntryAddr - h.paddr]
<1>1. /\ outPos \in Nat /\ Room(size) \in Int /\ Length(h) \in Nat /\ h \in Header
      /\ outPos + Length(h) <= Room(size) /\ N \in Nat /\ i \in 1..N + 1
      /\ out.words \in [0..Room(size) - 1 -> Nat] /\ EntryAddr \in Nat
      /\ IsTable(h) => ~Has(NewHeader(h), EntryAddr)
      /\ ~IsTable(h) => NewHeader(h) = [h EXCEPT !.offset = outPos]
      /\ i = N + 1 => h = DolHeader(elf) /\ ~IsTable(h)
      /\ i \in 1..N => h = elf.ph[i]
      /\ Len(out.ph) = N + 1 /\ elf \in Elfs
  BY Round, ElfAssumption
<1>2. h.paddr \in Nat /\ h.filesz \in Nat /\ h.offset \in Nat
  BY <1>1 DEF Header
<1>3. Loaded(h)
  BY DEF CopySegment
<1>4. CASE i = N + 1
  <2>1. NewHeader(h).paddr = LoadAddr
    BY <1>1, <1>4 DEF DolHeader, Header
  <2>2. LoadAddr \in Nat /\ EntryAddr < LoadAddr
    BY ElfAssumption
  <2>3. ~Has(NewHeader(h), EntryAddr)
    BY <1>1, <2>1, <2>2 DEF Has
  <2>4. i \notin 1..N
    BY ONLY <1>1, <1>4
  <2> QED BY <2>3, <2>4 DEF HasEntry
<1>5. CASE i \in 1..N /\ IsTable(h)
  <2>1. h = elf.ph[i] /\ DOMAIN elf.ph = 1..N
    BY <1>1, <1>5, ElfTypes DEF N
  <2>2. EntryAddr \notin h.paddr..(h.paddr + h.filesz - 1)
    BY <1>5, <2>1 DEF EntryIsData
  <2> QED BY <1>1, <1>5, <2>1, <2>2 DEF HasEntry
<1>6. CASE i \in 1..N /\ ~IsTable(h)
  <2>1. h = elf.ph[i] /\ ~IsDol
    BY <1>1, <1>6 DEF IsDol
  <2>2. /\ NewHeader(h).offset = outPos /\ NewHeader(h).filesz = h.filesz
        /\ NewHeader(h).paddr = h.paddr
    BY <1>1, <1>6 DEF Header
  <2>3. Has(NewHeader(h), EntryAddr) <=> h.paddr <= EntryAddr /\ EntryAddr < h.paddr + h.filesz
    BY <2>2 DEF Has
  <2>4. EntryAddr \in h.paddr..(h.paddr + h.filesz - 1)
          <=> h.paddr <= EntryAddr /\ EntryAddr < h.paddr + h.filesz
    <3>1. EntryAddr \in Nat
      BY <1>1
    <3> QED BY ONLY <1>2, <3>1
  <2>5. ASSUME Has(NewHeader(h), EntryAddr)
        PROVE  Copied(h)[EntryAt(h)] = elf.words[h.offset + EntryAddr - h.paddr]
    <3>1. EntryAt(h) = outPos + EntryAddr - h.paddr /\ Length(h) = h.filesz
      BY <2>1, <2>2 DEF EntryAt, Length
    <3>2. /\ EntryAt(h) \in 0..Room(size) - 1 /\ outPos <= EntryAt(h)
          /\ EntryAt(h) < outPos + Length(h) /\ EntryAt(h) - outPos = EntryAddr - h.paddr
          /\ h.offset + (EntryAddr - h.paddr) = h.offset + EntryAddr - h.paddr
      <4>1. /\ EntryAt(h) = outPos + EntryAddr - h.paddr /\ Length(h) = h.filesz
            /\ h.paddr <= EntryAddr /\ EntryAddr < h.paddr + h.filesz
        BY <2>3, <2>5, <3>1
      <4>2. /\ outPos \in Nat /\ EntryAddr \in Nat /\ Room(size) \in Int
            /\ outPos + Length(h) <= Room(size)
        BY <1>1
      <4> QED BY ONLY <1>2, <4>1, <4>2
    <3>3. Copied(h)[EntryAt(h)] = Word(h, EntryAt(h) - outPos)
      BY <1>1, <3>2 DEF Copied
    <3> QED BY <2>1, <3>2, <3>3 DEF Word
  <2> QED BY <1>3, <1>6, <2>1, <2>3, <2>4, <2>5 DEF HasEntry
<1>7. i = N + 1 \/ i \in 1..N
  BY ONLY <1>1
<1> QED BY <1>4, <1>5, <1>6, <1>7

----------------------------------------------------------------------------
(* The segments copied so far are in their places.                         *)

LEMMA StartCopyImage == PatchInv /\ StartCopy => ImageInv'
<1> SUFFICES ASSUME PatchInv, StartCopy  PROVE ImageInv'
  OBVIOUS
<1>1. elf \in Elfs /\ elf' = elf /\ N' = N /\ i' = 1 /\ outPos' = EhdrSize + TableOf(N + 1)
  BY DEF PatchInv, TypeOK, StartCopy, N
<1>2. N \in Nat /\ TableOf(N + 1) \in Nat /\ EhdrSize \in Nat
  BY <1>1, ElfTypes DEF N
<1>3. i' # N + 2 /\ 1..i' - 1 = {} /\ outPos' <= outPos'
  BY <1>1, <1>2
<1> QED BY <1>1, <1>3 DEF ImageInv

LEMMA SkipSegmentImage == PatchInv /\ ImageInv /\ SkipSegment => ImageInv'
<1> SUFFICES ASSUME PatchInv, ImageInv, SkipSegment, EntryIsData(elf)  PROVE ImageInv'
  BY DEF SkipSegment, ImageInv
<1>1. /\ elf \in Elfs /\ elf' = elf /\ N' = N /\ pc = "copy" /\ ~Loaded(out.ph[i])
      /\ out' = out /\ outPos' = outPos
      /\ N \in Nat /\ Len(out.ph) = N + 1 /\ i' = i + 1 /\ i \in 1..N + 1
  BY ElfTypes DEF PatchInv, TypeOK, N, SkipSegment
<1>2. i \in 1..N /\ ~Loaded(elf.ph[i])
  <2>1. ASSUME i = N + 1 PROVE FALSE
    <3>1. out.ph[i] = DolHeader(elf)
      BY <1>1, <2>1, SegmentTypes
    <3>2. DolSize \in Nat \ {0}
      BY ElfAssumption DEF DolSize
    <3> QED BY <1>1, <3>1, <3>2 DEF Loaded, DolHeader
  <2>2. i \in 1..N
    BY <1>1, <2>1
  <2> QED BY <1>1, <2>2, SegmentTypes
<1>3. i' # N + 2 /\ \A j \in 1..i' - 1 : j \in 1..i - 1 \/ j = i
  BY <1>1, <1>2
<1>4. ~Segment(i)
  BY <1>2 DEF Segment
<1>5. /\ EhdrSize + TableOf(N + 1) <= outPos
      /\ \A j \in 1..i - 1 : Segment(j) =>
           /\ InPlace(j) /\ out.ph[j].offset \in Nat
           /\ out.ph[j].offset + elf.ph[j].filesz <= outPos
  BY <1>1 DEF ImageInv
<1>6. \A j : Segment(j)' = Segment(j) /\ InPlace(j)' = InPlace(j)
  BY <1>1 DEF Segment, InPlace, Wanted
<1> QED BY <1>1, <1>3, <1>4, <1>5, <1>6 DEF ImageInv

LEMMA CopySegmentImage == PatchInv /\ ImageInv /\ CopySegment => ImageInv'
<1> SUFFICES ASSUME PatchInv, ImageInv, CopySegment, EntryIsData(elf), pc' = "copy"
             PROVE ImageInv'
  BY DEF CopySegment, ImageInv
<1> DEFINE h == out.ph[i]
<1>1. /\ i \in 1..N + 1 /\ i' = i + 1 /\ elf' = elf /\ N' = N /\ N \in Nat
      /\ h \in Header /\ out.ph \in Seq(Header) /\ Len(out.ph) = N + 1
      /\ elf \in Elfs /\ outPos \in Nat
      /\ out'.ph = [out.ph EXCEPT ![i] = NewHeader(h)]
      /\ i = N + 1 => h = DolHeader(elf) /\ ~IsTable(h)
      /\ i \in 1..N => h = elf.ph[i]
      /\ IsTable(h) => outPos' = outPos
      /\ ~IsTable(h) => NewHeader(h) = [h EXCEPT !.offset = outPos] /\ outPos' = outPos + h.filesz
  BY Round
<1>2. /\ \A p \in Nat : p < outPos => out'.words[p] = out.words[p]
      /\ ~IsTable(h) => \A q \in 0..h.filesz - 1 :
           out'.words[outPos + q] = IF h.paddr + q = EntryAddr THEN NewEntry ELSE Word(h, q)
  BY RoundWords
<1>3. pc = "copy"
  BY DEF CopySegment
<1>4. /\ EhdrSize + TableOf(N + 1) <= outPos
      /\ \A j \in 1..i - 1 : Segment(j) =>
           /\ InPlace(j) /\ out.ph[j].offset \in Nat
           /\ out.ph[j].offset + elf.ph[j].filesz <= outPos
  BY <1>3 DEF ImageInv
<1>5. h.filesz \in Nat /\ outPos' \in Nat /\ outPos <= outPos'
  <2>1. h.filesz \in Nat
    BY <1>1 DEF Header
  <2> QED BY <1>1, <2>1
<1>6. TableOf(N + 1) \in Nat /\ EhdrSize \in Nat /\ DOMAIN elf.ph = 1..N
      /\ \A j \in 1..N : elf.ph[j] \in Header /\ elf.ph[j].filesz \in Nat
  BY <1>1, ElfTypes DEF N
<1>7. \A j : j \in 1..N + 1 /\ j # i => out'.ph[j] = out.ph[j]
  BY <1>1
<1>8. out'.ph[i] = NewHeader(h)
  BY <1>1
<1> HIDE DEF h
<1>9. ASSUME NEW j \in 1..i - 1, Segment(j)
      PROVE  /\ InPlace(j)' /\ out'.ph[j].offset \in Nat
             /\ out'.ph[j].offset + elf.ph[j].filesz <= outPos'
  <2>1. j \in 1..N /\ j # i /\ j \in 1..N + 1
    BY <1>1, <1>9 DEF Segment
  <2>2. out'.ph[j] = out.ph[j]
    BY <1>7, <2>1
  <2>3. /\ InPlace(j) /\ out.ph[j].offset \in Nat /\ elf.ph[j].filesz \in Nat
        /\ out.ph[j].offset + elf.ph[j].filesz <= outPos
    BY <1>4, <1>6, <1>9, <2>1
  <2>4. ASSUME NEW q \in 0..elf.ph[j].filesz - 1
        PROVE  out'.words[out.ph[j].offset + q] = out.words[out.ph[j].offset + q]
    <3>1. outPos \in Nat
      BY <1>1
    <3>2. out.ph[j].offset + q \in Nat /\ out.ph[j].offset + q < outPos
      BY ONLY <2>3, <2>4, <3>1
    <3> QED BY <1>2, <3>2
  <2>5. InPlace(j)'
    BY <1>1, <2>2, <2>3, <2>4 DEF InPlace, Wanted
  <2>6. out.ph[j].offset + elf.ph[j].filesz <= outPos'
    <3>1. outPos \in Nat
      BY <1>1
    <3> QED BY ONLY <1>5, <2>3, <3>1
  <2> QED BY <2>2, <2>3, <2>5, <2>6
<1>10. ASSUME NEW j, j = i, Segment(j)
       PROVE  /\ InPlace(j)' /\ out'.ph[j].offset \in Nat
              /\ out'.ph[j].offset + elf.ph[j].filesz <= outPos'
  <2>1. j \in 1..N /\ h = elf.ph[j] /\ ~IsTable(h)
    BY <1>1, <1>10 DEF Segment
  <2>2. out'.ph[j] = [h EXCEPT !.offset = outPos] /\ out'.ph[j].offset = outPos
    BY <1>1, <1>8, <1>10, <2>1 DEF Header
  <2>3. ~IsDol
    BY <1>1, <1>10, <2>1 DEF IsDol
  <2>4. \A q \in 0..h.filesz - 1 : out'.words[outPos + q] = Wanted(h, q)
    BY <1>2, <2>1, <2>3 DEF Wanted, Word
  <2>5. InPlace(j)'
    <3>1. elf' = elf
      BY <1>1
    <3>2. out'.ph[j] = [elf.ph[j] EXCEPT !.offset = out'.ph[j].offset]
      BY <2>1, <2>2
    <3>3. \A q \in 0..elf.ph[j].filesz - 1 :
            out'.words[out'.ph[j].offset + q] = Wanted(elf.ph[j], q)
      BY <2>1, <2>2, <2>4
    <3> QED BY ONLY <3>1, <3>2, <3>3 DEF InPlace, Wanted
  <2>6. outPos + h.filesz <= outPos'
    BY <1>1, <1>5, <2>1
  <2> QED BY <1>1, <2>1, <2>2, <2>5, <2>6
<1>11. ASSUME i' = N + 2  PROVE DolInPlace'
  <2>1. i = N + 1
    BY <1>1, <1>11
  <2>2. h = DolHeader(elf) /\ ~IsTable(h) /\ IsDol /\ DolSize \in Nat
    BY <1>1, <2>1, ElfTypes DEF IsDol
  <2>3. out'.ph[N + 1].paddr = LoadAddr /\ out'.ph[N + 1].offset = outPos /\ h.filesz = DolSize
    <3>1. out'.ph[N + 1] = [h EXCEPT !.offset = outPos]
      BY <1>1, <1>8, <2>1, <2>2
    <3> QED BY <1>1, <2>2, <3>1 DEF DolHeader, Header
  <2>4. ASSUME NEW q \in 1..DolSize  PROVE out'.words[outPos + q - 1] = Dol[q]
    <3>1. q - 1 \in 0..DolSize - 1 /\ outPos + (q - 1) = outPos + q - 1 /\ (q - 1) + 1 = q
      BY <1>1, <2>2
    <3>2. h.paddr = LoadAddr /\ LoadAddr \in Nat /\ EntryAddr \in Nat /\ EntryAddr < LoadAddr
      BY <2>2, ElfAssumption DEF DolHeader
    <3>3. LoadAddr + (q - 1) # EntryAddr
      BY <3>2
    <3>4. out'.words[outPos + (q - 1)] = Word(h, q - 1)
      BY <1>2, <2>2, <2>3, <3>1, <3>2, <3>3
    <3> QED BY <2>2, <3>1, <3>4 DEF Word
  <2> QED BY <1>1, <2>3, <2>4 DEF DolInPlace
<1>12. \A j \in 1..i' - 1 : j \in 1..i - 1 \/ j = i
  BY <1>1
<1>13. EhdrSize + TableOf(N + 1) <= outPos'
  BY <1>1, <1>4, <1>5, <1>6
<1>14. \A j : Segment(j)' = Segment(j)
  BY <1>1 DEF Segment
<1>15. ASSUME NEW j \in 1..i' - 1, Segment(j)'
       PROVE  /\ InPlace(j)' /\ out'.ph[j].offset \in Nat
              /\ out'.ph[j].offset + elf'.ph[j].filesz <= outPos'
  <2>1. Segment(j) /\ elf' = elf
    BY <1>1, <1>14, <1>15
  <2> QED BY <1>9, <1>10, <1>12, <2>1
<1>16. EhdrSize + TableOf(N' + 1) <= outPos'
  BY <1>1, <1>13
<1>17. i' = N' + 2 => DolInPlace'
  BY <1>1, <1>11
<1> QED BY ONLY <1>15, <1>16, <1>17 DEF ImageInv
----------------------------------------------------------------------------
(* What has been found in the segments looked at so far.                   *)

EntryInv ==
  /\ pc \in {"check", "size"} => ~entry
  /\ pc = "check" => ~code
  /\ pc \in {"size", "copy"} => elf.valid
  /\ pc = "size" => (code <=> \E j \in 1..i - 1 : IsCode(elf.ph[j]))
  /\ pc = "copy" => \E j \in 1..N : IsCode(elf.ph[j])
  /\ pc = "copy" /\ EntryIsData(elf) =>
       /\ entry <=> \E j \in 1..i - 1 : HasEntry(j)
       /\ \A j \in 1..i - 1 : HasEntry(j) => OldEntryAt(j)

LEMMA SameFile ==
  ASSUME elf' = elf
  PROVE  /\ N' = N
         /\ \A j : HasEntry(j)' = HasEntry(j) /\ OldEntryAt(j)' = OldEntryAt(j)
BY DEF N, HasEntry, OldEntryAt

LEMMA SizeHeaderEntry == PatchInv /\ EntryInv /\ SizeHeader => EntryInv'
<1> SUFFICES ASSUME PatchInv, EntryInv, SizeHeader  PROVE EntryInv'
  OBVIOUS
<1>1. /\ elf' = elf /\ pc = "size" /\ pc' = "size" /\ i' = i + 1
      /\ code' = (code \/ IsCode(elf.ph[i]))
  BY DEF SizeHeader
<1>2. i \in 1..N + 1 /\ N \in Nat
  BY <1>1, ElfTypes DEF PatchInv, SizeInv, TypeOK, N
<1>3. elf.valid /\ (code <=> \E j \in 1..i - 1 : IsCode(elf.ph[j]))
  BY <1>1 DEF EntryInv
<1>4. \A j : j \in 1..i' - 1 <=> j \in 1..i - 1 \/ j = i
  BY <1>1, <1>2
<1>5. code' <=> \E j \in 1..i' - 1 : IsCode(elf.ph[j])
  BY ONLY <1>1, <1>3, <1>4, Zenon
<1>6. elf'.valid /\ (code' <=> \E j \in 1..i' - 1 : IsCode(elf'.ph[j]))
  BY ONLY <1>1, <1>3, <1>5, Zenon
<1>7. pc' = "size" /\ ~entry'
  BY DEF SizeHeader, EntryInv
<1>8. pc' # "copy" /\ pc' # "check"
  BY <1>7
<1> QED BY ONLY <1>6, <1>7, <1>8, Zenon DEF EntryInv

LEMMA StartCopyEntry == PatchInv /\ EntryInv /\ StartCopy => EntryInv'
<1> SUFFICES ASSUME PatchInv, EntryInv, StartCopy  PROVE EntryInv'
  OBVIOUS
<1>1. elf' = elf /\ pc = "size" /\ pc' \in {"copy", "overrun"} /\ code /\ entry' = entry /\ i' = 1
  BY DEF StartCopy
<1>2. i \in 1..N + 1 /\ N \in Nat /\ elf.valid
  BY <1>1, ElfTypes DEF PatchInv, SizeInv, TypeOK, N, EntryInv
<1>3. \E j \in 1..N : IsCode(elf.ph[j])
  <2>1. PICK j \in 1..i - 1 : IsCode(elf.ph[j])
    BY <1>1 DEF EntryInv
  <2>2. j \in 1..N
    BY <1>2, <2>1
  <2> QED BY <2>1, <2>2
<1>4. ~entry
  BY <1>1 DEF EntryInv
<1>5. 1..i' - 1 = {}
  BY <1>1
<1> QED BY <1>1, <1>2, <1>3, <1>4, <1>5, SameFile DEF EntryInv

LEMMA SkipSegmentEntry == PatchInv /\ EntryInv /\ SkipSegment => EntryInv'
<1> SUFFICES ASSUME PatchInv, EntryInv, SkipSegment  PROVE EntryInv'
  OBVIOUS
<1>1. /\ elf' = elf /\ pc = "copy" /\ pc' = "copy" /\ entry' = entry
      /\ i' = i + 1 /\ ~Loaded(out.ph[i])
  BY DEF SkipSegment
<1>2. i \in 1..N + 1 /\ N \in Nat /\ i \in 1..Len(out.ph)
  BY ElfTypes DEF PatchInv, TypeOK, N, SkipSegment
<1>3. ~HasEntry(i)
  <2>1. i \in 1..N => out.ph[i] = elf.ph[i]
    BY <1>1, <1>2, SegmentTypes
  <2> QED BY <1>1, <2>1 DEF HasEntry
<1>4. \A j : j \in 1..i' - 1 <=> j \in 1..i - 1 \/ j = i
  BY <1>1, <1>2
<1> QED BY <1>1, <1>3, <1>4, SameFile DEF EntryInv

LEMMA CopySegmentEntry == PatchInv /\ ImageInv /\ EntryInv /\ CopySegment => EntryInv'
<1> SUFFICES ASSUME PatchInv, ImageInv, EntryInv, CopySegment  PROVE EntryInv'
  OBVIOUS
<1>1. elf' = elf /\ pc = "copy" /\ pc' \in {"copy", "done"} /\ i' = i + 1
  BY DEF CopySegment, Return
<1>2. N' = N /\ elf.valid /\ \E j \in 1..N : IsCode(elf.ph[j])
  BY <1>1 DEF EntryInv, N
<1>3. ASSUME pc' = "copy", EntryIsData(elf)
      PROVE  /\ entry' <=> \E j \in 1..i' - 1 : HasEntry(j)
             /\ \A j \in 1..i' - 1 : HasEntry(j) => OldEntryAt(j)
  <2> DEFINE h == out.ph[i]
  <2>1. i \in 1..N + 1 /\ N \in Nat /\ (i \in 1..N => h = elf.ph[i])
    BY <1>3, Round
  <2>2. /\ Has(NewHeader(h), EntryAddr) <=> HasEntry(i)
        /\ Has(NewHeader(h), EntryAddr) =>
             Copied(h)[EntryAt(h)] = elf.words[h.offset + EntryAddr - h.paddr]
    BY <1>3, RoundEntry
  <2>3. \/ ~Has(NewHeader(h), EntryAddr) /\ entry' = entry
        \/ /\ Has(NewHeader(h), EntryAddr) /\ Copied(h)[EntryAt(h)] = OldEntry
           /\ entry' = TRUE
    BY <1>3 DEF CopySegment, Return
  <2>4. HasEntry(i) => OldEntryAt(i) /\ entry' = TRUE
    BY <2>1, <2>2, <2>3 DEF OldEntryAt, HasEntry
  <2>5. ~HasEntry(i) => entry' = entry
    BY <2>2, <2>3
  <2>6. \A j : j \in 1..i' - 1 <=> j \in 1..i - 1 \/ j = i
    BY <1>1, <2>1
  <2>7. /\ entry <=> \E j \in 1..i - 1 : HasEntry(j)
        /\ \A j \in 1..i - 1 : HasEntry(j) => OldEntryAt(j)
    BY <1>1, <1>3 DEF EntryInv
  <2>8. entry' <=> \E j \in 1..i' - 1 : HasEntry(j)
    BY ONLY <2>4, <2>5, <2>6, <2>7, Zenon
  <2>9. \A j \in 1..i' - 1 : HasEntry(j) => OldEntryAt(j)
    BY ONLY <2>4, <2>6, <2>7, Zenon
  <2> QED BY <2>8, <2>9
<1> QED BY <1>1, <1>2, <1>3, SameFile DEF EntryInv

----------------------------------------------------------------------------
(* The result.                                                             *)

ResultInv == ImageInv /\ EntryInv /\ PatchedImage /\ RefusesRightly

LEMMA PatchableMeans ==
  ASSUME elf \in Elfs
  PROVE  Patchable(elf) <=> /\ elf.valid /\ \E j \in 1..N : HasEntry(j)
                            /\ \E j \in 1..N : IsCode(elf.ph[j])
                            /\ \A j \in 1..N : HasEntry(j) => OldEntryAt(j)
<1>1. DOMAIN elf.ph = 1..N
  BY ElfTypes DEF N
<1> QED BY <1>1 DEF Patchable, HasEntry, OldEntryAt

\* Nothing is returned, or nothing changes.
LEMMA NoResult ==
  ASSUME RefusesRightly, PatchedImage, ret' \notin {"ok", "refused"} \/ UNCHANGED <<ret, elf, out>>
  PROVE  RefusesRightly' /\ PatchedImage'
<1>1. CASE ret' \notin {"ok", "refused"}
  BY <1>1 DEF RefusesRightly, PatchedImage
<1>2. CASE UNCHANGED <<ret, elf, out>>
  <2>1. ret' = ret /\ elf' = elf /\ out' = out
    BY <1>2
  <2> QED BY <2>1 DEF RefusesRightly, PatchedImage
<1> QED BY <1>1, <1>2

LEMMA EndCopyResult ==
  ASSUME PatchInv, ResultInv, EndCopy
  PROVE  RefusesRightly' /\ PatchedImage'
<1>1. /\ pc = "copy" /\ elf' = elf /\ out' = out /\ elf \in Elfs /\ i \in 1..N + 2 /\ i > N + 1
      /\ ret' = IF entry THEN "ok" ELSE "refused"
  BY DEF PatchInv, TypeOK, EndCopy, Return, N
<1>2. N \in Nat /\ DOMAIN elf.ph = 1..N
  BY <1>1, ElfTypes DEF N
<1>3. i = N + 2
  BY ONLY <1>1, <1>2
<1>4. \A j : j \in 1..N => j \in 1..i - 1
  BY ONLY <1>2, <1>3
<1>5. EntryIsData(elf) => (Patchable(elf) <=> entry)
  <2> SUFFICES ASSUME EntryIsData(elf)  PROVE Patchable(elf) <=> entry
    OBVIOUS
  <2>1. /\ elf.valid /\ \E j \in 1..N : IsCode(elf.ph[j])
        /\ entry <=> \E j \in 1..i - 1 : HasEntry(j)
        /\ \A j \in 1..i - 1 : HasEntry(j) => OldEntryAt(j)
    BY <1>1 DEF ResultInv, EntryInv
  <2>2. entry <=> \E j \in 1..N : HasEntry(j)
    BY ONLY <1>4, <2>1, Zenon DEF HasEntry
  <2>3. \A j \in 1..N : HasEntry(j) => OldEntryAt(j)
    BY <1>4, <2>1
  <2> QED BY ONLY <1>1, <2>1, <2>2, <2>3, PatchableMeans, Zenon
<1>6. RefusesRightly'
  <2>1. /\ ret' = "ok" /\ EntryIsData(elf) => Patchable(elf)
        /\ ret' = "refused" /\ EntryIsData(elf) => ~Patchable(elf)
    BY <1>1, <1>5
  <2> QED BY ONLY <1>1, <2>1, Zenon DEF RefusesRightly
<1>7. ASSUME EntryIsData(elf)
      PROVE  /\ \A j \in 1..N : Segment(j) => InPlace(j)
             /\ DolInPlace
  BY <1>1, <1>3, <1>4, <1>7 DEF ResultInv, ImageInv
<1>8. PatchedImage'
  <2>1. EntryIsData(elf) => PatchedImage
    BY <1>7 DEF PatchedImage, Segment, InPlace, Wanted, DolInPlace, N
  <2>2. SUFFICES ASSUME EntryIsData(elf)  PROVE PatchedImage'
    BY <1>1 DEF PatchedImage
  <2>3. /\ \A j \in 1..N : Loaded(elf.ph[j]) /\ ~IsTable(elf.ph[j]) =>
             /\ out.ph[j] = [elf.ph[j] EXCEPT !.offset = out.ph[j].offset]
             /\ \A q \in 0..elf.ph[j].filesz - 1 :
                  out.words[out.ph[j].offset + q] =
                    IF elf.ph[j].paddr + q = EntryAddr
                    THEN NewEntry ELSE elf.words[elf.ph[j].offset + q]
        /\ out.ph[N + 1].paddr = LoadAddr
        /\ \A q \in 1..DolSize : out.words[out.ph[N + 1].offset + q - 1] = Dol[q]
    BY <1>7, <2>2 DEF Segment, InPlace, Wanted, DolInPlace
  <2> QED BY ONLY <1>1, <2>3 DEF PatchedImage, N
<1> QED BY <1>6, <1>8

LEMMA RefusedResult ==
  ASSUME PatchInv, ResultInv, CheckHeaders \/ NotPatchable \/ CopySegment,
         ret' # ret
  PROVE  RefusesRightly' /\ PatchedImage'
<1>1. elf' = elf /\ elf \in Elfs /\ ret' # "ok"
  BY DEF PatchInv, TypeOK, CheckHeaders, NotPatchable, CopySegment, Return
<1>2. ASSUME ret' = "refused", EntryIsData(elf)  PROVE ~Patchable(elf)
  <2>1. CASE CheckHeaders
    BY <1>1, <1>2, <2>1, PatchableMeans DEF CheckHeaders, PatchInv, TypeOK
  <2>2. CASE NotPatchable
    <3>1. pc = "size" /\ ~code /\ i > N /\ i \in 1..N + 1 /\ N \in Nat
      BY <1>1, <1>2, <2>2, ElfTypes DEF NotPatchable, Return, PatchInv, SizeInv, N
    <3>2. \A j : j \in 1..N => j \in 1..i - 1
      BY ONLY <3>1
    <3>3. ~\E j \in 1..i - 1 : IsCode(elf.ph[j])
      BY <3>1 DEF ResultInv, EntryInv
    <3> QED BY <1>1, <3>2, <3>3, PatchableMeans
  <2>3. CASE CopySegment
    <3> DEFINE h == out.ph[i]
    <3>1. /\ Has(NewHeader(h), EntryAddr) <=> HasEntry(i)
          /\ Has(NewHeader(h), EntryAddr) =>
               Copied(h)[EntryAt(h)] = elf.words[h.offset + EntryAddr - h.paddr]
      BY <1>2, <2>3, RoundEntry DEF ResultInv
    <3>2. i \in 1..N => h = elf.ph[i]
      BY <1>2, <2>3, Round DEF ResultInv
    <3>3. Has(NewHeader(h), EntryAddr) /\ Copied(h)[EntryAt(h)] # OldEntry
      BY <2>3 DEF CopySegment, Return
    <3>4. i \in 1..N /\ HasEntry(i) /\ ~OldEntryAt(i)
      BY <3>1, <3>2, <3>3 DEF HasEntry, OldEntryAt
    <3> QED BY <1>1, <3>4, PatchableMeans
  <2> QED BY <2>1, <2>2, <2>3
<1>3. RefusesRightly'
  BY <1>1, <1>2 DEF RefusesRightly
<1>4. PatchedImage'
  BY <1>1 DEF PatchedImage
<1> QED BY <1>3, <1>4

LEMMA ResultInit == Init => ResultInv
BY DEF Init, ResultInv, ImageInv, EntryInv, PatchedImage, RefusesRightly

LEMMA ResultStep == PatchInv /\ ResultInv /\ [Next]_vars => ResultInv'
<1> SUFFICES ASSUME PatchInv, ResultInv, [Next]_vars  PROVE ResultInv'
  OBVIOUS
<1> USE DEF ResultInv
<1>1. CASE UNCHANGED vars
  <2>1. ImageInv' /\ EntryInv'
    BY <1>1, SameFile
    DEF vars, ImageInv, EntryInv, N, Segment, InPlace, DolInPlace, Wanted, HasEntry, OldEntryAt
  <2>2. UNCHANGED <<ret, elf, out>>
    BY <1>1 DEF vars
  <2> QED BY <2>1, <2>2, NoResult
<1>2. CASE CheckHeaders
  <2>1. ImageInv'
    BY <1>2 DEF CheckHeaders, Return, ImageInv
  <2>2. EntryInv'
    <3>1. /\ pc = "check" /\ i = 1 /\ ~code /\ ~entry /\ pc' \in {"size", "done"}
          /\ UNCHANGED <<elf, i, code, entry>> /\ (pc' = "size" => elf.valid)
      BY <1>2 DEF CheckHeaders, Return, EntryInv, PatchInv, SizeInv
    <3>2. 1..i' - 1 = {}
      BY <3>1
    <3> QED BY <3>1, <3>2 DEF EntryInv
  <2>3. RefusesRightly' /\ PatchedImage'
    BY <1>2, NoResult, RefusedResult DEF CheckHeaders
  <2> QED BY <2>1, <2>2, <2>3
<1>3. CASE SizeHeader
  <2>1. ImageInv' /\ UNCHANGED <<ret, elf, out>>
    BY <1>3 DEF SizeHeader, ImageInv
  <2> QED BY <1>3, <2>1, SizeHeaderEntry, NoResult
<1>4. CASE NotPatchable
  <2>1. ImageInv' /\ EntryInv' /\ UNCHANGED <<elf, out>>
    BY <1>4 DEF NotPatchable, Return, ImageInv, EntryInv
  <2> QED BY <1>4, <2>1, RefusedResult, NoResult
<1>5. CASE StartCopy
  <2>1. ret' \notin {"ok", "refused"}
    BY <1>5 DEF StartCopy, PatchInv, TypeOK
  <2> QED BY <1>5, <2>1, StartCopyImage, StartCopyEntry, NoResult
<1>6. CASE SkipSegment
  <2>1. UNCHANGED <<ret, elf, out>>
    BY <1>6 DEF SkipSegment
  <2> QED BY <1>6, <2>1, SkipSegmentImage, SkipSegmentEntry, NoResult
<1>7. CASE CopySegment
  <2>1. ret = "none"
    BY <1>7 DEF CopySegment, PatchInv, TypeOK
  <2>2. RefusesRightly' /\ PatchedImage'
    BY <1>7, <2>1, NoResult, RefusedResult
  <2> QED BY <1>7, <2>2, CopySegmentImage, CopySegmentEntry
<1>8. CASE Overrun
  <2>1. ImageInv' /\ EntryInv' /\ UNCHANGED <<ret, elf, out>>
    BY <1>8 DEF Overrun, ImageInv, EntryInv
  <2> QED BY <2>1, NoResult
<1>9. CASE EndCopy
  <2>1. ImageInv' /\ EntryInv'
    BY <1>9 DEF EndCopy, Return, ImageInv, EntryInv
  <2> QED BY <1>9, <2>1, EndCopyResult
<1> QED BY <1>1, <1>2, <1>3, <1>4, <1>5, <1>6, <1>7, <1>8, <1>9 DEF Next

LEMMA ResultInvariant == Spec => []ResultInv
<1>1. Spec => [](PatchInv /\ ResultInv)
  BY InitInv, StepInv, ResultInit, ResultStep, PTL DEF Spec
<1> QED BY <1>1, PTL

\* However the segments lie in the file, if it is returned as patched then each
\* has, where its new header says, the words it had but for the entry point, and
\* the cMIOS is where the last header says.
THEOREM ImageIsPatched == Spec => []PatchedImage
<1>1. ResultInv => PatchedImage
  BY DEF ResultInv
<1> QED BY <1>1, ResultInvariant, PTL

\* patchMIOS() refuses exactly the files that have no code or not the expected
\* entry point in every segment over its address.
THEOREM PatcherRefusesRightly == Spec => []RefusesRightly
<1>1. ResultInv => RefusesRightly
  BY DEF ResultInv
<1> QED BY <1>1, ResultInvariant, PTL
============================================================================
