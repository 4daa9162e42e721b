----------------------------- MODULE BootProofs -----------------------------
(***************************************************************************)
(* Proofs about the boot chain, for every memory layout, every set of      *)
(* files and every amount of decay.                                        *)
(***************************************************************************)
EXTENDS BootInv, TLAPS

----------------------------------------------------------------------------
(* What correctErrors() can be relied on for (ecc.c:11-27)                 *)

\* A word whose damage is recoverable is recovered (ecc.c:12-26).
LEMMA CorrectedRecovers ==
  ASSUME NEW w, NEW v, Recoverable(w, v)
  PROVE  Corrected(w) = v
<1>1. /\ w[2] = w[4] => w[2] = v
      /\ w[1] = w[3] => w[1] = v
      /\ w[1] = w[2] => w[1] = v
  BY DEF Recoverable, Independent
<1>2. Reachable(w, v)
  BY DEF Recoverable
<1> QED BY <1>1, <1>2 DEF Corrected, Reachable

\* Whichever two copies are damaged, the code compares two intact ones.
LEMMA TwoDamagedReachable ==
  ASSUME NEW w, NEW v, AtMostTwoDamaged(w, v)
  PROVE  Reachable(w, v)
<1>1. PICK c \in Copies, d \in Copies : \A e \in Copies \ {c, d} : w[e] = v
  BY DEF AtMostTwoDamaged
<1>2. \A e \in {0, 1, 2, 3, 4} : e = c \/ e = d \/ w[e] = v
  BY <1>1 DEF Copies
<1> QED BY <1>2 DEF Reachable

----------------------------------------------------------------------------
(* The memory layout                                                       *)

LEMMA Layout ==
  /\ MemTop \in Nat
  /\ \A c \in Copies : Base[c] \in Nat /\ Base[c] \in Addr
  /\ Base[0] < Base[1] /\ Base[1] < Base[2] /\ Base[2] < Base[3] /\ Base[3] < Base[4]
  /\ \A c \in 1..4 : Base[0] < Base[c] /\ Base[1] <= Base[c] /\ Base[c] <= Base[4]
<1>1. \A c \in Copies : Base[c] \in Nat /\ Base[c] \in Addr
  <2>1. Base \in [Copies -> Addr] /\ MemTop \in Nat
    BY LayoutAssumption
  <2>2. \A c \in Copies : Base[c] \in Addr
    BY <2>1
  <2>3. \A a \in Addr : a \in Nat
    BY <2>1 DEF Addr
  <2> QED BY <2>2, <2>3
<1>2. Base[0] < Base[1] /\ Base[1] < Base[2] /\ Base[2] < Base[3] /\ Base[3] < Base[4]
  BY LayoutAssumption DEF Copies
<1>3. \A c \in 1..4 : c = 1 \/ c = 2 \/ c = 3 \/ c = 4
  OBVIOUS
<1>4. \A c \in 1..4 : Base[0] < Base[c] /\ Base[1] <= Base[c] /\ Base[c] <= Base[4]
  BY <1>1, <1>2, <1>3 DEF Copies
<1> QED BY <1>1, <1>2, <1>4, LayoutAssumption

\* Every copy of a file lies in memory (test.c:33, 44).
LEMMA CopiesInMemory ==
  ASSUME NEW f \in Files, NEW c \in Copies, NEW i \in 0..(f.size.cells - 1)
  PROVE  /\ f.size.cells \in Nat /\ f.size.cells >= 1
         /\ Base[c] + i \in Addr
         /\ f.data[i] \in Word
<1>1. f.size.cells \in Nat /\ f.size.cells >= 1 /\ f.data[i] \in Word
      /\ Base[4] + f.size.cells <= MemTop + 1
  BY FilesAssumption, Layout DEF Sizes
<1>2. Base[c] <= Base[4]
  BY Layout DEF Copies
<1> QED BY <1>1, <1>2, Layout DEF Addr, Copies

----------------------------------------------------------------------------
(* Type correctness                                                        *)

LEMMA InitType == Init => TypeOK
<1> SUFFICES ASSUME Init PROVE TypeOK
  OBVIOUS
<1>1. /\ mem \in [Addr -> Cell] /\ snap \in [Addr -> Cell]
      /\ \A a \in Addr \ {MarkerAt} : mem[a] \in Word
  BY LayoutAssumption DEF Init, Cell
<1>2. /\ tag.magic \in Magics /\ tag.size \in Sizes
      /\ tag = [magic |-> tag.magic, size |-> tag.size, hash |-> tag.hash]
  BY Layout DEF Init, Magics, Sizes
<1>3. decays \in 0..MaxDecay /\ boots \in 0..MaxBoots
  BY BuildsAssumption DEF Init
<1>4. run \in [kind : Kinds \union {"none"}, ecc : BOOLEAN]
  BY DEF Init, NoRun
<1> QED BY <1>1, <1>2, <1>3, <1>4 DEF Init, TypeOK, WiiPhases

\* The words that correctErrors() works on are words of the file's copies.
LEMMA EccInMemory ==
  ASSUME TypeOK, TagInv, RunInv, pc = "ecc", idx < EccWords(tag.size)
  PROVE  /\ tag.size = file.size /\ file \in Files
         /\ idx \in 0..(file.size.cells - 1)
         /\ \A c \in Copies : Base[c] + idx \in Addr
<1>1. tag.size = file.size /\ file \in Files /\ idx \in Nat
  BY DEF TypeOK, TagInv, RunInv, FileTag
<1>2. file.size.cells \in Nat
  BY <1>1, FilesAssumption, Layout DEF Sizes
<1>3. idx \in 0..(file.size.cells - 1)
  BY <1>1, <1>2 DEF EccWords
<1> QED BY <1>1, <1>3, CopiesInMemory

\* What correctErrors() stores is in two copies, or in copy 0 already; so it is
\* no piece of the marker, which lies in one copy at most.
LEMMA CorrectedIsWord ==
  ASSUME TypeOK, TagInv, RunInv, pc = "ecc", idx < EccWords(tag.size)
  PROVE  LET v == Corrected(WordsAt(mem, idx))
         IN  v \in Word \/ v = mem[Base[0] + idx]
<1>1. \A c \in Copies : WordsAt(mem, idx)[c] = mem[Base[c] + idx]
  BY DEF WordsAt
<1>2. \A c \in Copies : mem[Base[c] + idx] \in Word \/ Base[c] + idx = MarkerAt
  BY EccInMemory DEF TypeOK
<1>3. idx \in Nat
  BY DEF TypeOK
<1>4. \A c, d \in Copies : Base[c] \in Nat /\ Base[d] \in Nat
  BY Layout
<1>5. /\ Base[2] + idx # MarkerAt \/ Base[4] + idx # MarkerAt
      /\ Base[1] + idx # MarkerAt \/ Base[3] + idx # MarkerAt
      /\ Base[1] + idx # MarkerAt \/ Base[2] + idx # MarkerAt
  <2>1. Base[2] # Base[4] /\ Base[1] # Base[3] /\ Base[1] # Base[2]
    BY Layout, <1>4 DEF Copies
  <2> QED BY <2>1, <1>3, <1>4 DEF Copies
<1>6. 0 \in Copies /\ 1 \in Copies /\ 2 \in Copies /\ 3 \in Copies /\ 4 \in Copies
  BY DEF Copies
<1> QED BY <1>1, <1>2, <1>5, <1>6 DEF Corrected

\* Writing words leaves memory well typed.
LEMMA WriteWords ==
  ASSUME TypeOK, NEW f, f \in [Addr -> Cell],
         \A a \in Addr : f[a] = mem[a] \/ f[a] \in Word \/ (a = MarkerAt /\ f[a] = Marker),
         mem' = f
  PROVE  mem' \in [Addr -> Cell] /\ \A a \in Addr \ {MarkerAt} : mem'[a] \in Word
BY DEF TypeOK

LEMMA TypeStep ==
  ASSUME TypeOK, TagInv, RunInv, [Next]_vars
  PROVE  TypeOK'
<1> USE DEF TypeOK, WiiPhases, GCPhases
<1>1. CASE StartBooter
  BY <1>1 DEF StartBooter, wiiVars, gcVars, counters
<1>2. CASE SignalInject
  BY <1>2 DEF SignalInject, wiiVars, gcVars, counters, Magics
<1>3. CASE OpenFails
  BY <1>3 DEF OpenFails, wiiVars, gcVars, counters
<1>4. ASSUME NEW f \in Files, OpenFile(f) PROVE TypeOK'
  BY <1>4 DEF OpenFile, gcVars, counters
<1>5. ASSUME NEW got \in 0..file.size.cells, ReadCopy(got) PROVE TypeOK'
  <2> DEFINE m == [a \in Addr |-> IF Base[idx] <= a /\ a < Base[idx] + got
                                  THEN file.data[a - Base[idx]] ELSE mem[a]]
  <2>1. \A a \in Addr : Base[idx] <= a /\ a < Base[idx] + got =>
                            file.data[a - Base[idx]] \in Word
    <3> SUFFICES ASSUME NEW a \in Addr, Base[idx] <= a, a < Base[idx] + got
                 PROVE  file.data[a - Base[idx]] \in Word
      OBVIOUS
    <3>1. idx \in Copies /\ Base[idx] \in Nat /\ a \in Nat
      BY <1>5, Layout DEF ReadCopy, Addr
    <3>2. file.size.cells \in Nat
      BY FilesAssumption, Layout DEF Sizes
    <3>3. a - Base[idx] \in 0..(file.size.cells - 1)
      BY <1>5, <3>1, <3>2
    <3> QED BY <3>3, <3>1, CopiesInMemory
  <2>2. mem' = m
    BY <1>5 DEF ReadCopy
  <2>3. m \in [Addr -> Cell] /\ \A a \in Addr : m[a] = mem[a] \/ m[a] \in Word
    BY <2>1 DEF Cell
  <2> HIDE DEF m
  <2>4. mem' \in [Addr -> Cell] /\ \A a \in Addr \ {MarkerAt} : mem'[a] \in Word
    BY <2>2, <2>3, WriteWords
  <2> QED BY <1>5, <2>4 DEF ReadCopy, Copies, gcVars, counters
<1>6. CASE WriteTag
  BY <1>6, FilesAssumption, BuildsAssumption
     DEF WriteTag, Magics, wiiVars, gcVars, counters
<1>7. CASE StallWhileAHeld
  BY <1>7 DEF StallWhileAHeld, wiiVars, gcVars, counters
<1>8. CASE TicketViewsFail
  BY <1>8 DEF TicketViewsFail, wiiVars, gcVars, counters
<1>9. CASE LaunchFails
  BY <1>9 DEF LaunchFails, wiiVars, gcVars, counters
<1>10. CASE Retry
  BY <1>10 DEF Retry, wiiVars, gcVars, counters
<1>11. CASE LaunchBC
  BY <1>11, BuildsAssumption DEF LaunchBC, wiiVars, NoRun
<1>12. CASE LegacyFrontEnd
  <2>1. mem' \in [Addr -> Cell] /\ \A a \in Addr \ {MarkerAt} : mem'[a] \in Word
    BY <1>12 DEF LegacyFrontEnd, Cell
  <2> QED BY <1>12, <2>1 DEF LegacyFrontEnd, wiiVars, gcVars, counters
<1>13. CASE Startup
  BY <1>13 DEF Startup, wiiVars, gcVars, counters
<1>14. CASE DecideInject
  BY <1>14 DEF DecideInject, wiiVars, counters, Magics, Kinds
<1>15. CASE DecideFile
  BY <1>15 DEF DecideFile, wiiVars, counters, Magics, Kinds
<1>16. CASE DecideLegacy
  <2>1. mem' \in [Addr -> Cell] /\ \A a \in Addr \ {MarkerAt} : mem'[a] \in Word
    BY <1>16 DEF DecideLegacy, Cell
  <2> QED BY <1>16, <2>1 DEF DecideLegacy, wiiVars, counters, Kinds
<1>17. CASE DecideNothing
  BY <1>17 DEF DecideNothing, wiiVars, gcVars, counters
<1>18. CASE CorrectWord
  <2>1. PICK v : v = Corrected(WordsAt(mem, idx))
    OBVIOUS
  <2>2. v \in Word \/ v = mem[Base[0] + idx]
    BY <1>18, <2>1, CorrectedIsWord DEF CorrectWord
  <2>3. mem' = [mem EXCEPT ![Base[0] + idx] = v] /\ mem \in [Addr -> Cell]
    BY <1>18, <2>1 DEF CorrectWord
  <2>4. mem' \in [Addr -> Cell] /\ \A a \in Addr \ {MarkerAt} : mem'[a] \in Word
    BY <2>2, <2>3 DEF Cell
  <2> QED BY <1>18, <2>4 DEF CorrectWord, wiiVars, gcVars, counters
<1>19. CASE CorrectDone
  BY <1>19 DEF CorrectDone, wiiVars, gcVars, counters
<1>20. CASE Verify
  BY <1>20 DEF Verify, wiiVars, gcVars, counters
<1>21. CASE RaiseDiSync
  BY <1>21 DEF RaiseDiSync, wiiVars, counters
<1>22. CASE SpinDone
  BY <1>22 DEF SpinDone, wiiVars, gcVars, counters
<1>23. CASE ExecFromMem
  BY <1>23 DEF ExecFromMem, gcVars, RunInv, wiiVars, counters, Kinds
<1>24. CASE CallMIOS
  BY <1>24 DEF CallMIOS, wiiVars, counters
<1>25. ASSUME NEW a \in Addr, NEW w \in Word, DecayCell(a, w) PROVE TypeOK'
  <2>1. mem' \in [Addr -> Cell] /\ \A b \in Addr \ {MarkerAt} : mem'[b] \in Word
    BY <1>25 DEF DecayCell, Cell
  <2> QED BY <1>25, <2>1, BuildsAssumption DEF DecayCell, wiiVars, gcVars
<1>26. CASE DecayMagic
  BY <1>26, BuildsAssumption DEF DecayMagic, wiiVars, gcVars, Magics
<1>27. CASE LoadPPC
  BY <1>27 DEF LoadPPC, wiiVars, counters
<1>28. CASE StarletAck
  BY <1>28 DEF StarletAck, wiiVars, counters
<1>29. CASE Reset
  BY <1>29, BuildsAssumption DEF Reset, wiiVars, NoRun
<1>30. CASE PowerCycle
  BY <1>30, LayoutAssumption DEF PowerCycle, wiiVars, counters, Cell, Magics, NoRun
<1>31. CASE Button
  BY <1>31 DEF Button, wiiVars, gcVars, counters
<1>32. CASE PayloadReturns
  BY <1>32 DEF PayloadReturns, wiiVars, gcVars, counters
<1>33. CASE UNCHANGED vars
  BY <1>33 DEF vars
<1> QED
  BY <1>1, <1>2, <1>3, <1>4, <1>5, <1>6, <1>7, <1>8, <1>9, <1>10, <1>11, <1>12,
     <1>13, <1>14, <1>15, <1>16, <1>17, <1>18, <1>19, <1>20, <1>21, <1>22, <1>23,
     <1>24, <1>25, <1>26, <1>27, <1>28, <1>29, <1>30, <1>31, <1>32, <1>33
     DEF Next, BooterStep, CmiosStep, Environment

----------------------------------------------------------------------------
(* Which steps lead where                                                  *)

\* EXECGCDOL_LoadFile() is entered with idx = 0 and left by WriteTag.
LEMMA IntoRead ==
  ASSUME [Next]_vars, pc' = "read"
  PROVE  \/ \E f \in Files : OpenFile(f)
         \/ \E got \in 0..file.size.cells : ReadCopy(got)
         \/ UNCHANGED <<mem, tag, pc, idx, file, whole>>
<1>1. CASE BooterStep
  BY <1>1 DEF BooterStep, StartBooter, SignalInject, OpenFails, WriteTag, StallWhileAHeld,
     TicketViewsFail, LaunchFails, Retry, LaunchBC, LegacyFrontEnd
<1>2. CASE CmiosStep
  BY <1>2 DEF CmiosStep, Startup, DecideInject, DecideFile, DecideLegacy, DecideNothing,
     CorrectWord, CorrectDone, Verify, RaiseDiSync, SpinDone, ExecFromMem, CallMIOS
<1>3. CASE Environment
  BY <1>3 DEF Environment, DecayCell, DecayMagic, LoadPPC, StarletAck, Reset, PowerCycle,
     Button, PayloadReturns, wiiVars
<1> QED BY <1>1, <1>2, <1>3 DEF Next, vars

----------------------------------------------------------------------------
(* The inductive invariant                                                 *)

LEMMA CopyStep ==
  ASSUME TypeOK, CopyInv, [Next]_vars
  PROVE  CopyInv'
<1> SUFFICES ASSUME pc' = "read", whole', Fits(file.size)', (idx > 0)'
             PROVE  (Content(mem, Base[0], file.size.cells) = file.data)'
  BY DEF CopyInv
<1> DEFINE n == file.size.cells
<1>1. CASE \E f \in Files : OpenFile(f)
  BY <1>1 DEF OpenFile
<1>2. ASSUME NEW got \in 0..file.size.cells, ReadCopy(got)
      PROVE  (Content(mem, Base[0], file.size.cells) = file.data)'
  <2>a. file' = file /\ pc = "read" /\ idx \in Copies /\ got = n /\ whole
    BY <1>2 DEF ReadCopy
  <2>b. Fits(file.size) /\ file \in Files
    BY <2>a DEF Fits, TypeOK
  <2>c. n \in Nat /\ file.data \in [0..(n - 1) -> Word]
    BY <2>b, FilesAssumption, Layout DEF Sizes
  <2>1. /\ got = n /\ whole /\ file' = file /\ pc = "read" /\ Fits(file.size)
        /\ idx \in Copies /\ n \in Nat /\ file \in Files
        /\ file.data = [i \in 0..(n - 1) |-> file.data[i]]
    BY <2>a, <2>b, <2>c
  <2>2. \A a \in Addr : mem'[a] = IF Base[idx] <= a /\ a < Base[idx] + n
                                  THEN file.data[a - Base[idx]] ELSE mem[a]
    BY <1>2, <2>1 DEF ReadCopy
  <2>3. SUFFICES ASSUME NEW i \in 0..(n - 1)
                 PROVE  mem'[Base[0] + i] = file.data[i]
    BY <2>1 DEF Content
  <2>4. Base[0] + i \in Addr /\ Base[0] \in Nat /\ Base[idx] \in Nat
    <3>1. 0 \in Copies
      BY DEF Copies
    <3> QED BY <2>1, <3>1, CopiesInMemory, Layout
  <2>5. CASE idx = 0
    <3>1. Base[0] + i - Base[0] = i /\ Base[0] <= Base[0] + i /\ Base[0] + i < Base[0] + n
      BY <2>1, <2>4
    <3> QED BY <2>5, <2>2, <2>4, <3>1
  <2>6. CASE idx # 0
    <3>1. idx \in 1..4 /\ idx > 0
      BY <2>1, <2>6 DEF Copies
    <3>2. Base[0] + n <= Base[1] /\ Base[1] <= Base[idx] /\ Base[1] \in Nat
      <4>1. Base[0] + file.size.cells <= Base[0 + 1]
        BY <2>1 DEF Fits
      <4>2. Base[1] \in Nat /\ Base[1] <= Base[idx]
        BY <3>1, Layout DEF Copies
      <4> QED BY <4>1, <4>2
    <3>3. Base[0] + i < Base[idx]
      BY <2>1, <2>4, <3>2
    <3>4. mem'[Base[0] + i] = mem[Base[0] + i]
      BY <2>2, <2>4, <3>3
    <3>5. Content(mem, Base[0], n) = file.data
      BY <2>1, <3>1 DEF CopyInv
    <3> QED BY <2>1, <3>4, <3>5 DEF Content
  <2> QED BY <2>5, <2>6
<1>3. CASE UNCHANGED <<mem, tag, pc, idx, file, whole>>
  BY <1>3 DEF CopyInv, Fits, Content
<1> QED BY <1>1, <1>2, <1>3, IntoRead

\* main() decides once per boot, and what it took up stays until the next.
LEMMA RunStep ==
  ASSUME RunInv, [Next]_vars
  PROVE  RunInv'
<1> USE DEF RunInv, Undecided, WiiPhases
<1>1. CASE BooterStep
  BY <1>1 DEF BooterStep, StartBooter, SignalInject, OpenFails, OpenFile, ReadCopy, WriteTag,
     StallWhileAHeld, TicketViewsFail, LaunchFails, Retry, LaunchBC, LegacyFrontEnd, gcVars
<1>2. CASE CmiosStep
  BY <1>2 DEF CmiosStep, Startup, DecideInject, DecideFile, DecideLegacy, DecideNothing,
     CorrectWord, CorrectDone, Verify, RaiseDiSync, SpinDone, ExecFromMem, CallMIOS, gcVars,
     Kinds
<1>3. CASE Environment
  BY <1>3 DEF Environment, DecayCell, DecayMagic, LoadPPC, StarletAck, Reset, PowerCycle,
     Button, PayloadReturns, gcVars
<1>4. CASE UNCHANGED vars
  BY <1>4 DEF vars
<1> QED BY <1>1, <1>2, <1>3, <1>4 DEF Next

\* The tag keeps telling of the file last read: only LoadFile() writes it.
LEMMA TagStep ==
  ASSUME TypeOK, CopyInv, TagInv, RunInv, [Next]_vars
  PROVE  TagInv'
<1> SUFFICES ASSUME pc' # "read", (tag.magic \in FileMagics \/ run.kind = "file")'
             PROVE  FileTag'
  BY DEF TagInv
<1>1. CASE WriteTag
  <2>1. /\ tag' = [magic |-> tag'.magic, size |-> file.size,
                   hash |-> Content(mem, Base[0], file.size.cells)]
        /\ UNCHANGED <<file, whole, mem>> /\ pc = "read" /\ idx \notin Copies
    BY <1>1 DEF WriteTag, wiiVars
  <2>2. idx > 0
    BY <2>1 DEF TypeOK, Copies
  <2>3. whole /\ Fits(file.size) => Content(mem, Base[0], file.size.cells) = file.data
    BY <2>1, <2>2 DEF CopyInv
  <2>4. tag'.size = file.size /\ tag'.hash = Content(mem, Base[0], file.size.cells)
    BY <2>1
  <2>5. tag'.hash = [i \in 0..(tag'.size.cells - 1) |-> tag'.hash[i]]
    BY <2>4 DEF Content
  <2> QED BY <2>1, <2>3, <2>4, <2>5 DEF FileTag, Fits
<1>2. CASE /\ UNCHANGED <<file, whole>> /\ pc # "read"
           /\ tag'.size = tag.size /\ tag'.hash = tag.hash
           /\ tag.magic \in FileMagics \/ run.kind = "file"
  BY <1>2 DEF TagInv, FileTag
<1>3. CASE BooterStep /\ ~WriteTag
  <2>1. /\ UNCHANGED <<file, whole, run>> \/ run' = NoRun
        /\ UNCHANGED <<file, whole>> /\ pc # "read"
        /\ UNCHANGED tag \/ tag' = [tag EXCEPT !.magic = "inject"]
    BY <1>3 DEF BooterStep, StartBooter, SignalInject, OpenFails, OpenFile, ReadCopy,
       StallWhileAHeld, TicketViewsFail, LaunchFails, Retry, LaunchBC, LegacyFrontEnd,
       gcVars, wiiVars
  <2>2. "inject" \notin FileMagics /\ NoRun.kind # "file"
    BY DEF FileMagics, NoRun
  <2>3. tag = [magic |-> tag.magic, size |-> tag.size, hash |-> tag.hash]
    BY DEF TypeOK
  <2>4. /\ tag'.size = tag.size /\ tag'.hash = tag.hash
        /\ tag'.magic = tag.magic \/ tag'.magic = "inject"
    BY <2>1, <2>3
  <2>5. tag.magic \in FileMagics \/ run.kind = "file"
    BY <2>1, <2>2, <2>4 
  <2> QED BY <1>2, <2>1, <2>4, <2>5
<1>4. CASE CmiosStep
  <2>1. /\ UNCHANGED <<file, whole>> /\ pc # "read"
        /\ \/ UNCHANGED <<tag, run>>
           \/ tag' = [tag EXCEPT !.magic = "none"] /\ tag.magic \in FileMagics
           \/ UNCHANGED tag /\ run'.kind # "file"
           \/ tag' = [tag EXCEPT !.magic = "none"] /\ run'.kind # "file"
    BY <1>4 DEF CmiosStep, Startup, DecideInject, DecideFile, DecideLegacy, DecideNothing,
       CorrectWord, CorrectDone, Verify, RaiseDiSync, SpinDone, ExecFromMem, CallMIOS,
       gcVars, wiiVars, FileAsked
  <2>2. "none" \notin FileMagics
    BY DEF FileMagics
  <2>3. tag = [magic |-> tag.magic, size |-> tag.size, hash |-> tag.hash]
    BY DEF TypeOK
  <2>4. /\ tag'.size = tag.size /\ tag'.hash = tag.hash
        /\ tag'.magic = tag.magic \/ tag'.magic = "none"
    BY <2>1, <2>3
  <2>5. tag.magic \in FileMagics \/ run.kind = "file"
    BY <2>1, <2>2, <2>4
  <2> QED BY <1>2, <2>1, <2>4, <2>5
<1>5. CASE Environment \/ UNCHANGED vars
  <2>1. /\ UNCHANGED <<file, whole>> /\ pc # "read"
        /\ UNCHANGED run \/ run' = NoRun
        /\ UNCHANGED tag \/ tag' = [tag EXCEPT !.magic = "none"]
    BY <1>5 DEF Environment, DecayCell, DecayMagic, LoadPPC, StarletAck, Reset, PowerCycle,
       Button, PayloadReturns, gcVars, wiiVars, GCPhases, vars
  <2>2. "none" \notin FileMagics /\ NoRun.kind # "file"
    BY DEF FileMagics, NoRun
  <2>3. tag = [magic |-> tag.magic, size |-> tag.size, hash |-> tag.hash]
    BY DEF TypeOK
  <2>4. /\ tag'.size = tag.size /\ tag'.hash = tag.hash
        /\ tag'.magic = tag.magic \/ tag'.magic = "none"
    BY <2>1, <2>3
  <2>5. tag.magic \in FileMagics \/ run.kind = "file"
    BY <2>1, <2>2, <2>4
  <2> QED BY <1>2, <2>1, <2>4, <2>5
<1> QED BY <1>1, <1>3, <1>4, <1>5 DEF Next

\* Nothing writes memory between the verification and the payload's entry.
LEMMA VerifiedStep ==
  ASSUME VerifiedInv, RunInv, [Next]_vars
  PROVE  VerifiedInv'
<1> SUFFICES ASSUME pc' \in {"resetDI", "spin", "exec", "payload"}, run'.kind = "file"
             PROVE  VerifyOK'
  BY DEF VerifiedInv
<1> DEFINE Kept == UNCHANGED <<mem, tag>> /\ VerifyOK
<1>1. CASE BooterStep
  BY <1>1 DEF BooterStep, StartBooter, SignalInject, OpenFails, OpenFile, ReadCopy, WriteTag,
     StallWhileAHeld, TicketViewsFail, LaunchFails, Retry, LaunchBC, LegacyFrontEnd
<1>2. CASE CmiosStep
  <2>1. Kept
    BY <1>2 DEF CmiosStep, Startup, DecideInject, DecideFile, DecideLegacy, DecideNothing,
       CorrectWord, CorrectDone, Verify, RaiseDiSync, SpinDone, ExecFromMem, CallMIOS,
       gcVars, VerifiedInv
  <2> QED BY <2>1 DEF VerifyOK, Content
<1>3. CASE Environment \/ UNCHANGED vars
  <2>1. Kept
    BY <1>3 DEF Environment, DecayCell, DecayMagic, LoadPPC, StarletAck, Reset, PowerCycle,
       Button, PayloadReturns, gcVars, vars, VerifiedInv
  <2> QED BY <2>1 DEF VerifyOK, Content
<1> QED BY <1>1, <1>2, <1>3 DEF Next

LEMMA SnapStep ==
  ASSUME SnapInv, RunInv, [Next]_vars
  PROVE  SnapInv'
<1> USE DEF SnapInv, Undecided
<1>1. CASE BooterStep
  BY <1>1 DEF BooterStep, StartBooter, SignalInject, OpenFails, OpenFile, ReadCopy, WriteTag,
     StallWhileAHeld, TicketViewsFail, LaunchFails, Retry, LaunchBC, LegacyFrontEnd
<1>2. CASE CmiosStep
  BY <1>2 DEF CmiosStep, Startup, DecideInject, DecideFile, DecideLegacy, DecideNothing,
     CorrectWord, CorrectDone, Verify, RaiseDiSync, SpinDone, ExecFromMem, CallMIOS, gcVars
<1>3. CASE Environment \/ UNCHANGED vars
  BY <1>3 DEF Environment, DecayCell, DecayMagic, LoadPPC, StarletAck, Reset, PowerCycle,
     Button, PayloadReturns, gcVars, vars
<1> QED BY <1>1, <1>2, <1>3 DEF Next

\* Only resetDI() raises the flag, and LoadPPC finds it lowered.
LEMMA DiStep ==
  ASSUME DiInv, TypeOK, [Next]_vars
  PROVE  DiInv'
<1> USE DEF DiInv, Undecided
<1>1. CASE BooterStep
  BY <1>1 DEF BooterStep, StartBooter, SignalInject, OpenFails, OpenFile, ReadCopy, WriteTag,
     StallWhileAHeld, TicketViewsFail, LaunchFails, Retry, LaunchBC, LegacyFrontEnd
<1>2. CASE CmiosStep
  BY <1>2 DEF CmiosStep, Startup, DecideInject, DecideFile, DecideLegacy, DecideNothing,
     CorrectWord, CorrectDone, Verify, RaiseDiSync, SpinDone, ExecFromMem, CallMIOS, gcVars
<1>3. CASE Environment \/ UNCHANGED vars
  BY <1>3 DEF Environment, DecayCell, DecayMagic, LoadPPC, StarletAck, Reset, PowerCycle,
     Button, PayloadReturns, gcVars, vars
<1> QED BY <1>1, <1>2, <1>3 DEF Next

\* A round of correctErrors() reads five words that no earlier round has changed.
LEMMA EccStep ==
  ASSUME BootInvariant, [Next]_vars
  PROVE  EccInv'
<1> DEFINE Found(n, a) == IF Base[0] <= a /\ a < Base[0] + n
                          THEN Corrected(WordsAt(snap, a - Base[0])) ELSE snap[a]
<1> SUFFICES ASSUME (pc = "ecc" \/ (pc = "verify" /\ run.ecc))', Fits(tag.size)'
             PROVE  (/\ Rounds <= EccWords(tag.size)
                     /\ \A a \in Addr : mem[a] = Found(Rounds, a))'
  BY DEF EccInv
<1>1. CASE DecideFile
  <2>1. /\ UNCHANGED <<mem, snap>> /\ mem = snap /\ idx' = 0 /\ tag'.size = tag.size
        /\ tag.size = file.size /\ file \in Files /\ pc' = "ecc"
    <3>1. UNCHANGED <<mem, snap>> /\ idx' = 0 /\ mem = snap
      BY <1>1 DEF DecideFile, BootInvariant, SnapInv, Undecided
    <3>2. tag'.size = tag.size
      BY <1>1 DEF DecideFile, BootInvariant, TypeOK
    <3>3. tag.size = file.size /\ file \in Files
      BY <1>1 DEF DecideFile, FileAsked, BootInvariant, TypeOK, TagInv, FileTag
    <3>4. pc' = "ecc"
      BY <1>1 DEF DecideFile
    <3> QED BY <3>1, <3>2, <3>3, <3>4
  <2>2. Rounds' = 0 /\ 0 <= EccWords(tag.size)'
    BY <2>1, FilesAssumption, Layout DEF Rounds, EccWords, Sizes
  <2>3. ASSUME NEW a \in Addr PROVE ~(Base[0] <= a /\ a < Base[0] + 0)
    BY Layout DEF Copies, Addr
  <2> QED BY <2>1, <2>2, <2>3
<1>2. CASE CorrectWord
  <2>1. /\ pc = "ecc" /\ pc' = "ecc" /\ UNCHANGED <<tag, snap>> /\ idx' = idx + 1
        /\ mem' = [mem EXCEPT ![Base[0] + idx] = Corrected(WordsAt(mem, idx))]
        /\ idx < EccWords(tag.size) /\ Fits(tag.size)
    BY <1>2 DEF CorrectWord, gcVars, Fits
  <2>2. /\ tag.size = file.size /\ file \in Files
        /\ idx \in 0..(file.size.cells - 1)
        /\ \A c \in Copies : Base[c] + idx \in Addr
    BY <2>1, EccInMemory DEF BootInvariant
  <2>3. /\ file.size.cells \in Nat /\ EccWords(tag.size) \in Nat /\ idx \in Nat
        /\ mem \in [Addr -> Cell]
    BY <2>2, FilesAssumption, Layout DEF Sizes, EccWords, BootInvariant, TypeOK
  <2>4. \A a \in Addr : mem[a] = Found(idx, a)
    BY <2>1 DEF BootInvariant, EccInv, Rounds
  <2>5. WordsAt(mem, idx) = WordsAt(snap, idx)
    <3> SUFFICES ASSUME NEW c \in Copies
                 PROVE  mem[Base[c] + idx] = snap[Base[c] + idx]
      BY DEF WordsAt
    <3>1. Base[0] \in Nat /\ Base[c] \in Nat /\ Base[0] <= Base[c]
      BY Layout DEF Copies
    <3>2. ~(Base[c] + idx < Base[0] + idx)
      BY <3>1, <2>3
    <3> QED BY <2>2, <2>4, <3>2
  <2>6. Rounds' = idx + 1 /\ EccWords(tag.size)' = EccWords(tag.size)
    BY <2>1 DEF Rounds
  <2>7. ASSUME NEW a \in Addr PROVE mem'[a] = Found(idx + 1, a)
    <3>1. Base[0] \in Nat /\ a \in Nat
      BY Layout DEF Copies, Addr
    <3>2. CASE a = Base[0] + idx
      <4>1. mem'[a] = Corrected(WordsAt(snap, idx))
        BY <2>1, <2>3, <2>5, <3>2
      <4>2. a - Base[0] = idx /\ Base[0] <= a /\ a < Base[0] + (idx + 1)
        BY <2>3, <3>1, <3>2
      <4> QED BY <4>1, <4>2
    <3>3. CASE a # Base[0] + idx
      <4>1. mem'[a] = mem[a]
        BY <2>1, <2>3, <3>3
      <4>2. a < Base[0] + (idx + 1) <=> a < Base[0] + idx
        BY <2>3, <3>1, <3>3
      <4> QED BY <4>1, <4>2, <2>4
    <3> QED BY <3>2, <3>3
  <2>8. idx + 1 <= EccWords(tag.size)
    BY <2>1, <2>3
  <2> QED BY <2>1, <2>6, <2>7, <2>8
<1>3. CASE CorrectDone
  <2>1. /\ pc = "ecc" /\ pc' = "verify" /\ UNCHANGED <<mem, tag, snap, idx>>
        /\ ~(idx < EccWords(tag.size)) /\ Fits(tag.size)
    BY <1>3 DEF CorrectDone, gcVars, Fits
  <2>2. idx \in Nat /\ EccWords(tag.size) \in Nat
    BY Layout DEF BootInvariant, TypeOK, Sizes, EccWords
  <2>3. idx <= EccWords(tag.size) /\ \A a \in Addr : mem[a] = Found(idx, a)
    BY <2>1 DEF BootInvariant, EccInv, Rounds
  <2>4. Rounds' = EccWords(tag.size) /\ idx = EccWords(tag.size)
    BY <2>1, <2>2, <2>3 DEF Rounds
  <2> QED BY <2>1, <2>2, <2>3, <2>4
<1>4. CASE UNCHANGED <<mem, tag, snap, idx, run, pc>>
  BY <1>4 DEF BootInvariant, EccInv, Rounds, EccWords, Fits
<1>5. DecideFile \/ CorrectWord \/ CorrectDone \/ UNCHANGED <<mem, tag, snap, idx, run, pc>>
  <2>1. CASE BooterStep
    BY <2>1 DEF BooterStep, StartBooter, SignalInject, OpenFails, OpenFile, ReadCopy,
       WriteTag, StallWhileAHeld, TicketViewsFail, LaunchFails, Retry, LaunchBC,
       LegacyFrontEnd
  <2>2. CASE CmiosStep
    BY <2>2 DEF CmiosStep, Startup, DecideInject, DecideLegacy, DecideNothing,
       Verify, RaiseDiSync, SpinDone, ExecFromMem, CallMIOS, gcVars
  <2>3. CASE Environment \/ UNCHANGED vars
    BY <2>3 DEF Environment, DecayCell, DecayMagic, LoadPPC, StarletAck, Reset, PowerCycle,
       Button, PayloadReturns, gcVars, vars
  <2> QED BY <2>1, <2>2, <2>3 DEF Next
<1> QED BY <1>1, <1>2, <1>3, <1>4, <1>5

LEMMA InitInvariant == Init => BootInvariant
<1> SUFFICES ASSUME Init PROVE BootInvariant
  OBVIOUS
<1>1. TypeOK
  BY InitType
<1>2. CopyInv /\ TagInv /\ RunInv /\ VerifiedInv /\ SnapInv /\ EccInv /\ DiInv
  BY DEF Init, CopyInv, TagInv, RunInv, VerifiedInv, SnapInv, EccInv, DiInv, NoRun,
     FileMagics, Undecided, WiiPhases
<1> QED BY <1>1, <1>2 DEF BootInvariant

LEMMA StepInvariant == BootInvariant /\ [Next]_vars => BootInvariant'
<1> SUFFICES ASSUME BootInvariant, [Next]_vars PROVE BootInvariant'
  OBVIOUS
<1>1. TypeOK /\ CopyInv /\ TagInv /\ RunInv /\ VerifiedInv /\ SnapInv /\ EccInv /\ DiInv
  BY DEF BootInvariant
<1>2. TypeOK' /\ CopyInv' /\ TagInv' /\ RunInv'
  BY <1>1, TypeStep, CopyStep, TagStep, RunStep
<1>3. VerifiedInv' /\ SnapInv' /\ EccInv' /\ DiInv'
  BY <1>1, VerifiedStep, SnapStep, EccStep, DiStep
<1> QED BY <1>2, <1>3 DEF BootInvariant

\* The inductive invariant of the boot chain, its type correctness included.
THEOREM BootInvariantHolds == Spec => []BootInvariant
BY InitInvariant, StepInvariant, PTL DEF Spec

----------------------------------------------------------------------------
(* What follows from it                                                    *)

\* Every variable keeps to its type: the indices of the copies and of the words
\* stay in memory, and no marker is made up from the copies.
THEOREM TypeCorrect == Spec => []TypeOK
<1>1. BootInvariant => TypeOK
  BY DEF BootInvariant
<1> QED BY <1>1, BootInvariantHolds, PTL

\* A payload started from a file that was read completely and fits the gaps is,
\* cell for cell, that file (cmios.c:91-98, test.c:43-62), however much of the
\* memory decayed in between.
THEOREM LaunchedFileCorrect == Spec => []LaunchedIsFile
<1>1. BootInvariant => LaunchedIsFile
  <2> SUFFICES ASSUME BootInvariant, pc = "payload", run.kind = "file", whole,
                      Fits(tag.size)
               PROVE  Content(mem, Base[0], tag.size.cells) = file.data
    BY DEF LaunchedIsFile
  <2>1. FileTag /\ VerifyOK
    BY DEF BootInvariant, TagInv, VerifiedInv
  <2> QED BY <2>1 DEF FileTag, VerifyOK
<1> QED BY <1>1, BootInvariantHolds, PTL

\* After correctErrors() every recoverable word of copy 0 is the word the booter
\* hashed (ecc.c:11-27).
THEOREM EccRecoversWords == Spec => []EccRecovers
<1>1. BootInvariant => EccRecovers
  <2> SUFFICES ASSUME BootInvariant, pc = "verify", run.ecc, Fits(tag.size),
                      NEW i \in 0..(EccWords(tag.size) - 1),
                      Recoverable(WordsAt(snap, i), tag.hash[i])
               PROVE  mem[Base[0] + i] = tag.hash[i]
    BY DEF EccRecovers
  <2>1. /\ i \in 0..(tag.size.cells - 1)
        /\ i < EccWords(tag.size) /\ i \in Nat /\ EccWords(tag.size) \in Nat
    BY Layout DEF BootInvariant, TypeOK, Sizes, EccWords
  <2>2. tag.size = file.size /\ file \in Files
    BY DEF BootInvariant, TypeOK, TagInv, RunInv, FileTag
  <2>3. Base[0] + i \in Addr /\ Base[0] \in Nat
    <3>1. 0 \in Copies
      BY DEF Copies
    <3> QED BY <3>1, <2>1, <2>2, CopiesInMemory, Layout
  <2>4. Base[0] <= Base[0] + i /\ Base[0] + i < Base[0] + EccWords(tag.size)
        /\ (Base[0] + i) - Base[0] = i
    BY <2>1, <2>3
  <2>5. mem[Base[0] + i] = Corrected(WordsAt(snap, i))
    BY <2>3, <2>4 DEF BootInvariant, EccInv, Rounds
  <2> QED BY <2>5, CorrectedRecovers
<1> QED BY <1>1, BootInvariantHolds, PTL

\* Damage in two copies of each whole word, no two of which became equal, never
\* keeps a payload from running; a ragged last word is left as copy 0 had it, and
\* decides (README.md:31-36, ecc.c:11).
THEOREM EccRepairsTwo == Spec => []EccRepairsTwoCopies
<1>1. BootInvariant /\ EccRecovers => EccRepairsTwoCopies
  <2>. DEFINE n == tag.size.cells
              W == WholeWords(tag.size)
  <2> SUFFICES ASSUME BootInvariant, EccRecovers,
                      pc = "verify", run.ecc, Fits(tag.size),
                      \A i \in W :
                        /\ Independent(WordsAt(snap, i), tag.hash[i])
                        /\ AtMostTwoDamaged(WordsAt(snap, i), tag.hash[i])
               PROVE  VerifyOK <=> \A i \in 0..(n - 1) \ W : snap[Base[0] + i] = tag.hash[i]
    BY DEF EccRepairsTwoCopies
  <2>1. /\ n \in Nat \ {0} /\ EccWords(tag.size) \in Nat /\ n <= MemTop + 1
        /\ tag.size = file.size /\ file \in Files
    BY Layout DEF BootInvariant, TypeOK, TagInv, RunInv, FileTag, Sizes, EccWords
  <2>2. \A i \in 0..(n - 1) : i \in W <=> i < EccWords(tag.size)
    BY <2>1 DEF WholeWords, EccWords, BootInvariant, TypeOK, Sizes
  <2>3. ASSUME NEW i \in W
        PROVE  mem[Base[0] + i] = tag.hash[i]
    <3>1. Recoverable(WordsAt(snap, i), tag.hash[i])
      BY TwoDamagedReachable DEF Recoverable
    <3>2. i \in 0..(n - 1)
      BY DEF WholeWords
    <3>3. i \in 0..(EccWords(tag.size) - 1)
      BY <2>1, <2>2, <3>2
    <3> QED BY <3>1, <3>3 DEF EccRecovers
  <2>4. ASSUME NEW i \in 0..(n - 1) \ W
        PROVE  mem[Base[0] + i] = snap[Base[0] + i]
    <3>1. 0 \in Copies
      BY DEF Copies
    <3>2. Base[0] + i \in Addr /\ Base[0] \in Nat
      BY <3>1, <2>1, CopiesInMemory, Layout
    <3>3. ~(Base[0] + i < Base[0] + EccWords(tag.size))
      BY <2>1, <2>2, <3>2
    <3> QED BY <3>2, <3>3 DEF BootInvariant, EccInv, Rounds
  <2>5. tag.hash = [i \in 0..(n - 1) |-> tag.hash[i]]
    BY DEF BootInvariant, TagInv, RunInv, FileTag
  <2>6. VerifyOK <=> \A i \in 0..(n - 1) : mem[Base[0] + i] = tag.hash[i]
    BY <2>5 DEF VerifyOK, Content
  <2>. HIDE DEF W
  <2> QED BY <2>3, <2>4, <2>6
<1> QED BY <1>1, BootInvariantHolds, EccRecoversWords, PTL

\* No payload runs while Starlet still owes its answer to resetDI() (cmios.c:43-45).
THEOREM DiHandshakeHolds == Spec => []DiHandshake
<1>1. BootInvariant => DiHandshake
  BY DEF BootInvariant, DiInv, DiHandshake
<1> QED BY <1>1, BootInvariantHolds, PTL

----------------------------------------------------------------------------
(***************************************************************************)
(* The boot chain implements the one-shot policy of OneShotBoot: each of   *)
(* its steps is a step of the policy, or changes nothing the policy sees.  *)
(***************************************************************************)

\* The requests memory holds.
LEMMA Pending ==
  /\ pendingBar \subseteq {"inject", "file", "legacy"}
  /\ "inject" \in pendingBar <=> tag.magic = "inject"
  /\ "file" \in pendingBar <=> tag.magic \in FileMagics
  /\ "legacy" \in pendingBar <=> mem[MarkerAt] = Marker
<1>1. CASE tag.magic = "inject"
  BY <1>1 DEF pendingBar, FileMagics
<1>2. CASE tag.magic \in FileMagics
  BY <1>2 DEF pendingBar, FileMagics
<1>3. CASE tag.magic # "inject" /\ tag.magic \notin FileMagics
  BY <1>3 DEF pendingBar, FileMagics
<1> QED BY <1>1, <1>2, <1>3

LEMMA PendingNext ==
  /\ pendingBar' \subseteq {"inject", "file", "legacy"}
  /\ "inject" \in pendingBar' <=> tag'.magic = "inject"
  /\ "file" \in pendingBar' <=> tag'.magic \in FileMagics
  /\ "legacy" \in pendingBar' <=> mem'[MarkerAt] = Marker
<1>1. CASE tag'.magic = "inject"
  BY <1>1 DEF pendingBar, FileMagics
<1>2. CASE tag'.magic \in FileMagics
  BY <1>2 DEF pendingBar, FileMagics
<1>3. CASE tag'.magic # "inject" /\ tag'.magic \notin FileMagics
  BY <1>3 DEF pendingBar, FileMagics
<1> QED BY <1>1, <1>2, <1>3

\* What the policy can see unchanged, but for memory that lost a marker.
LEMMA LoseMarker ==
  ASSUME runningBar' = runningBar, runningBar \in {"wii", "boot"},
         UNCHANGED <<run, padA>>,
         tag'.magic = tag.magic \/ tag'.magic = "none",
         mem'[MarkerAt] = Marker => mem[MarkerAt] = Marker
  PROVE  Policy!Next
<1>1. pendingBar' \subseteq pendingBar
  BY Pending, PendingNext DEF FileMagics
<1> QED BY <1>1 DEF Policy!Next, Policy!Lose

LEMMA PolicyInit == Init => Policy!Init
<1> SUFFICES ASSUME Init PROVE Policy!Init
  OBVIOUS
<1>1. mem[MarkerAt] # Marker /\ tag.magic = "none"
  BY LayoutAssumption DEF Init
<1>2. pendingBar = {}
  BY <1>1, Pending DEF FileMagics
<1>3. runningBar = "wii" /\ run.kind = "none" /\ padA \in BOOLEAN
  BY DEF Init, runningBar, WiiPhases, NoRun
<1> QED BY <1>2, <1>3 DEF Policy!Init

LEMMA StutterStep ==
  ASSUME runningBar' = runningBar, UNCHANGED <<tag, mem, padA>>, run'.kind = run.kind
  PROVE  UNCHANGED Policy!vars
BY DEF Policy!vars, pendingBar

LEMMA PolicyBooter ==
  ASSUME BootInvariant, BooterStep
  PROVE  [Policy!Next]_(Policy!vars)
<1> USE DEF runningBar, WiiPhases
<1>1. CASE StartBooter \/ OpenFails \/ StallWhileAHeld \/ TicketViewsFail \/ LaunchFails
           \/ Retry \/ \E f \in Files : OpenFile(f)
  <2>1. runningBar = "wii" /\ runningBar' = "wii" /\ UNCHANGED <<tag, mem, padA, run>>
    BY <1>1 DEF StartBooter, OpenFails, StallWhileAHeld, TicketViewsFail, LaunchFails,
       Retry, OpenFile, wiiVars, gcVars
  <2> QED BY <2>1, StutterStep
<1>2. CASE SignalInject
  <2>1. /\ runningBar = "wii" /\ runningBar' = "wii" /\ UNCHANGED <<mem, padA, run>>
        /\ tag'.magic = "inject"
    BY <1>2 DEF SignalInject, wiiVars, gcVars, BootInvariant, TypeOK
  <2>2. pendingBar' = {"inject"} \union (pendingBar \ {"inject", "file"})
    BY <2>1, Pending, PendingNext DEF FileMagics
  <2> QED BY <2>1, <2>2 DEF Policy!Next, Policy!Ask, Policy!Kinds, Policy!TagBorne
<1>3. ASSUME NEW got \in 0..file.size.cells, ReadCopy(got) PROVE Policy!Next
  <2>1. /\ runningBar = "wii" /\ runningBar' = "wii" /\ UNCHANGED <<tag, padA, run>>
        /\ idx \in Copies /\ file \in Files
        /\ mem' = [a \in Addr |-> IF Base[idx] <= a /\ a < Base[idx] + got
                                  THEN file.data[a - Base[idx]] ELSE mem[a]]
    BY <1>3 DEF ReadCopy, gcVars, BootInvariant, TypeOK
  <2>2. mem'[MarkerAt] = Marker => mem[MarkerAt] = Marker
    <3>1. MarkerAt \in Addr /\ Marker \notin Word
      BY LayoutAssumption
    <3>2. Base[idx] <= MarkerAt /\ MarkerAt < Base[idx] + got =>
             file.data[MarkerAt - Base[idx]] \in Word
      <4> SUFFICES ASSUME Base[idx] <= MarkerAt, MarkerAt < Base[idx] + got
                   PROVE  MarkerAt - Base[idx] \in 0..(file.size.cells - 1)
        BY <2>1, CopiesInMemory
      <4>1. file.size.cells \in Nat /\ Base[idx] \in Nat /\ MarkerAt \in Nat
        BY <2>1, <3>1, FilesAssumption, Layout DEF Sizes, Addr
      <4> QED BY <4>1
    <3> QED BY <2>1, <3>1, <3>2
  <2> QED BY <2>1, <2>2, LoseMarker
<1>4. CASE WriteTag
  <2>1. /\ runningBar = "wii" /\ runningBar' = "wii" /\ UNCHANGED <<mem, padA, run>>
        /\ tag'.magic \in BooterMagics
    BY <1>4 DEF WriteTag, wiiVars, gcVars
  <2>2. tag'.magic \in FileMagics
    BY <2>1, BuildsAssumption DEF FileMagics
  <2>3. pendingBar' = {"file"} \union (pendingBar \ {"inject", "file"})
    BY <2>1, <2>2, Pending, PendingNext DEF FileMagics
  <2> QED BY <2>1, <2>3 DEF Policy!Next, Policy!Ask, Policy!Kinds, Policy!TagBorne
<1>5. CASE LaunchBC
  <2>1. runningBar' = "boot" /\ UNCHANGED <<tag, mem, padA>> /\ run'.kind = "none"
    BY <1>5 DEF LaunchBC, NoRun
  <2>2. pendingBar' = pendingBar
    BY <2>1 DEF pendingBar
  <2> QED BY <2>1, <2>2 DEF Policy!Next, Policy!Boot
<1>6. CASE LegacyFrontEnd
  <2>1. /\ runningBar = "wii" /\ runningBar' = "wii" /\ UNCHANGED <<tag, padA, run>>
        /\ mem'[MarkerAt] = Marker
    BY <1>6, LayoutAssumption DEF LegacyFrontEnd, gcVars, BootInvariant, TypeOK
  <2>2. pendingBar' = {"legacy"} \union pendingBar
    BY <2>1, Pending, PendingNext
  <2> QED BY <2>1, <2>2 DEF Policy!Next, Policy!Ask, Policy!Kinds, Policy!TagBorne
<1> QED BY <1>1, <1>2, <1>3, <1>4, <1>5, <1>6 DEF BooterStep

LEMMA PolicyCmios ==
  ASSUME BootInvariant, CmiosStep
  PROVE  [Policy!Next]_(Policy!vars)
<1> USE DEF runningBar, WiiPhases
<1>1. CASE Startup
  <2>1. UNCHANGED <<tag, mem, padA, run>>
    BY <1>1 DEF Startup, gcVars
  <2>2. CASE entry = "cmios"
    <3>1. runningBar = "boot" /\ runningBar' = "boot"
      BY <1>1, <2>2 DEF Startup, gcVars
    <3> QED BY <2>1, <3>1, StutterStep
  <2>3. CASE entry # "cmios"
    <3>1. runningBar = "leaving" /\ runningBar' = "mios"
      BY <1>1, <2>3 DEF Startup, gcVars, BootInvariant, TypeOK
    <3>2. pendingBar' = pendingBar
      BY <2>1 DEF pendingBar
    <3> QED BY <2>1, <3>1, <3>2 DEF Policy!Next, Policy!StartMIOS
  <2> QED BY <2>2, <2>3
<1>2. CASE DecideInject
  <2>1. /\ runningBar = "boot" /\ runningBar' = "boot" /\ run.kind = "none"
        /\ run'.kind = "inject" /\ UNCHANGED <<mem, padA>> /\ tag'.magic = "none"
        /\ INJECT /\ (tag.magic = "inject" \/ padA)
    BY <1>2 DEF DecideInject, InjectAsked, BootInvariant, TypeOK, RunInv, Undecided, NoRun
  <2>2. pendingBar' = pendingBar \ {"inject", "file"}
    BY <2>1, Pending, PendingNext DEF FileMagics
  <2>3. Policy!Choice = "inject"
    BY <2>1, Pending DEF Policy!Choice
  <2> QED BY <2>1, <2>2, <2>3 DEF Policy!Next, Policy!Serve, Policy!TagBorne
<1>3. CASE DecideFile
  <2>1. /\ runningBar = "boot" /\ runningBar' = "boot" /\ run.kind = "none"
        /\ run'.kind = "file" /\ UNCHANGED <<mem, padA>> /\ tag'.magic = "none"
        /\ ~(INJECT /\ (tag.magic = "inject" \/ padA)) /\ tag.magic \in FileMagics
    BY <1>3 DEF DecideFile, FileAsked, InjectAsked, BootInvariant, TypeOK, RunInv, Undecided,
       NoRun
  <2>2. pendingBar' = pendingBar \ {"inject", "file"}
    BY <2>1, Pending, PendingNext DEF FileMagics
  <2>3. Policy!Choice = "file"
    BY <2>1, Pending DEF Policy!Choice
  <2> QED BY <2>1, <2>2, <2>3 DEF Policy!Next, Policy!Serve, Policy!TagBorne
<1>4. CASE DecideLegacy
  <2>1. /\ runningBar = "boot" /\ runningBar' = "boot" /\ run.kind = "none"
        /\ run'.kind = "legacy" /\ UNCHANGED <<tag, padA>>
        /\ ~(INJECT /\ (tag.magic = "inject" \/ padA)) /\ tag.magic \notin FileMagics
        /\ mem[MarkerAt] = Marker
    BY <1>4 DEF DecideLegacy, LegacyAsked, FileAsked, InjectAsked, BootInvariant, RunInv,
       Undecided, NoRun
  <2>2. mem'[MarkerAt] # Marker
    BY <1>4, LayoutAssumption DEF DecideLegacy, BootInvariant, TypeOK
  <2>3. pendingBar' = pendingBar \ {"legacy"}
    BY <2>1, <2>2, Pending, PendingNext
  <2>4. Policy!Choice = "legacy"
    BY <2>1, Pending DEF Policy!Choice
  <2> QED BY <2>1, <2>3, <2>4 DEF Policy!Next, Policy!Serve
<1>5. CASE DecideNothing
  <2>1. /\ runningBar = "boot" /\ runningBar' = "leaving" /\ run.kind = "none"
        /\ UNCHANGED <<mem, tag, padA, run>>
        /\ ~(INJECT /\ (tag.magic = "inject" \/ padA)) /\ tag.magic \notin FileMagics
        /\ mem[MarkerAt] # Marker
    BY <1>5 DEF DecideNothing, LegacyAsked, FileAsked, InjectAsked, BootInvariant, RunInv,
       Undecided, NoRun, gcVars
  <2>2. pendingBar' = pendingBar
    BY <2>1 DEF pendingBar
  <2>3. Policy!Choice = "none"
    BY <2>1, Pending DEF Policy!Choice
  <2> QED BY <2>1, <2>2, <2>3 DEF Policy!Next, Policy!Leave
<1>6. CASE CorrectWord
  <2>1. /\ runningBar = "boot" /\ runningBar' = "boot" /\ UNCHANGED <<tag, padA, run>>
        /\ pc = "ecc" /\ idx < EccWords(tag.size) /\ mem \in [Addr -> Cell]
        /\ mem' = [mem EXCEPT ![Base[0] + idx] = Corrected(WordsAt(mem, idx))]
    BY <1>6 DEF CorrectWord, gcVars, BootInvariant, TypeOK
  <2>2. PICK v : v = Corrected(WordsAt(mem, idx))
    OBVIOUS
  <2>3. v \in Word \/ v = mem[Base[0] + idx]
    BY <2>1, <2>2, CorrectedIsWord DEF BootInvariant
  <2>4. mem' = [mem EXCEPT ![Base[0] + idx] = v]
    BY <2>1, <2>2
  <2>5. mem'[MarkerAt] = Marker => mem[MarkerAt] = Marker
    BY <2>1, <2>3, <2>4, LayoutAssumption
  <2> QED BY <2>1, <2>5, LoseMarker
<1>7. CASE CorrectDone \/ RaiseDiSync \/ SpinDone
  <2>1. runningBar = "boot" /\ runningBar' = "boot" /\ UNCHANGED <<tag, mem, padA, run>>
    BY <1>7 DEF CorrectDone, RaiseDiSync, SpinDone, gcVars
  <2> QED BY <2>1, StutterStep
<1>8. CASE Verify
  <2>1. runningBar = "boot" /\ UNCHANGED <<tag, mem, padA, run>> /\ run.kind = "file"
    BY <1>8 DEF Verify, gcVars, BootInvariant, RunInv
  <2>2. runningBar' = "boot" \/ runningBar' = "leaving"
    BY <1>8 DEF Verify
  <2>3. pendingBar' = pendingBar
    BY <2>1 DEF pendingBar
  <2>4. CASE runningBar' = "boot"
    BY <2>1, <2>4, StutterStep
  <2>5. CASE runningBar' = "leaving"
    BY <2>1, <2>3, <2>5 DEF Policy!Next, Policy!Leave
  <2> QED BY <2>2, <2>4, <2>5
<1>9. CASE ExecFromMem
  <2>1. /\ runningBar = "boot" /\ runningBar' = run.kind /\ run.kind # "none"
        /\ UNCHANGED <<tag, mem, padA, run>>
    BY <1>9 DEF ExecFromMem, gcVars, BootInvariant, RunInv, Kinds
  <2>2. pendingBar' = pendingBar
    BY <2>1 DEF pendingBar
  <2> QED BY <2>1, <2>2 DEF Policy!Next, Policy!Run
<1>10. CASE CallMIOS
  <2>1. runningBar = "leaving" /\ runningBar' = "leaving" /\ UNCHANGED <<tag, mem, padA, run>>
    BY <1>10 DEF CallMIOS
  <2> QED BY <2>1, StutterStep
<1> QED BY <1>1, <1>2, <1>3, <1>4, <1>5, <1>6, <1>7, <1>8, <1>9, <1>10 DEF CmiosStep

LEMMA PolicyEnvironment ==
  ASSUME BootInvariant, Environment
  PROVE  [Policy!Next]_(Policy!vars)
<1> USE DEF runningBar, WiiPhases
<1>1. ASSUME NEW a \in Addr, NEW w \in Word, DecayCell(a, w) PROVE Policy!Next
  <2>1. /\ runningBar = "boot" /\ runningBar' = "boot" /\ UNCHANGED <<tag, padA, run>>
        /\ mem'[MarkerAt] = Marker => mem[MarkerAt] = Marker
    BY <1>1, LayoutAssumption DEF DecayCell, gcVars, BootInvariant, TypeOK
  <2> QED BY <2>1, LoseMarker
<1>2. CASE DecayMagic
  <2>1. /\ runningBar = "boot" /\ runningBar' = "boot" /\ UNCHANGED <<mem, padA, run>>
        /\ tag'.magic = "none"
    BY <1>2 DEF DecayMagic, gcVars, BootInvariant, TypeOK
  <2> QED BY <2>1, LoseMarker
<1>3. CASE LoadPPC \/ StarletAck
  <2>1. runningBar' = runningBar /\ UNCHANGED <<tag, mem, padA, run>>
    BY <1>3 DEF LoadPPC, StarletAck
  <2> QED BY <2>1, StutterStep
<1>4. CASE Reset
  <2>1. runningBar' = "boot" /\ UNCHANGED <<tag, mem, padA>> /\ run'.kind = "none"
    BY <1>4 DEF Reset, NoRun
  <2>2. pendingBar' = pendingBar
    BY <2>1 DEF pendingBar
  <2> QED BY <2>1, <2>2 DEF Policy!Next, Policy!Boot
<1>5. CASE PowerCycle
  <2>1. runningBar' = "wii" /\ UNCHANGED padA /\ run'.kind = "none" /\ tag'.magic = "none"
        /\ mem'[MarkerAt] # Marker
    BY <1>5, LayoutAssumption DEF PowerCycle, NoRun, BootInvariant, TypeOK
  <2>2. runningBar # "wii"
    BY <1>5 DEF PowerCycle, GCPhases, BootInvariant, RunInv, Kinds
  <2>3. pendingBar' = {}
    BY <2>1, PendingNext DEF FileMagics
  <2> QED BY <2>1, <2>2, <2>3 DEF Policy!Next, Policy!PowerCycle
<1>6. CASE Button
  <2>1. runningBar' = runningBar /\ padA' = ~padA /\ UNCHANGED <<tag, mem, run>>
    BY <1>6 DEF Button, gcVars
  <2>2. pendingBar' = pendingBar
    BY <2>1 DEF pendingBar
  <2> QED BY <2>1, <2>2 DEF Policy!Next, Policy!Button
<1>7. CASE PayloadReturns
  <2>1. /\ runningBar = run.kind /\ runningBar' = "leaving" /\ run.kind \in Kinds
        /\ UNCHANGED <<tag, mem, padA, run>>
    BY <1>7 DEF PayloadReturns, gcVars, BootInvariant, RunInv
  <2>2. pendingBar' = pendingBar
    BY <2>1 DEF pendingBar
  <2> QED BY <2>1, <2>2 DEF Policy!Next, Policy!Leave, Policy!Kinds, Kinds
<1> QED BY <1>1, <1>2, <1>3, <1>4, <1>5, <1>6, <1>7 DEF Environment

\* The boot chain implements the one-shot policy: a request left in memory is
\* served by one boot at most, in the order of main() (cmios.c:65-116), and the
\* MIOS starts when nothing was asked for, when a payload did not pass its
\* verification, or when the homebrew returned.
THEOREM ChainImplementsPolicy == Spec => PolicySpec
<1>1. BootInvariant /\ [Next]_vars => [Policy!Next]_(Policy!vars)
  <2> SUFFICES ASSUME BootInvariant, [Next]_vars
               PROVE  [Policy!Next]_(Policy!vars)
    OBVIOUS
  <2>1. CASE UNCHANGED vars
    <3>1. UNCHANGED <<tag, mem, padA, run>> /\ runningBar' = runningBar
      BY <2>1 DEF vars, runningBar
    <3> QED BY <3>1, StutterStep
  <2> QED BY <2>1, PolicyBooter, PolicyCmios, PolicyEnvironment DEF Next
<1> QED BY <1>1, PolicyInit, BootInvariantHolds, PTL DEF Spec, PolicySpec, Policy!Spec
============================================================================
