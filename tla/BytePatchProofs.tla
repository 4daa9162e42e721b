-------------------------- MODULE BytePatchProofs --------------------------
(***************************************************************************)
(* Proofs about BytePatch, for every pattern that does not overlap itself, *)
(* every content and every size: what is looked for is replaced, and       *)
(* nothing else is touched.                                                *)
(***************************************************************************)
EXTENDS BytePatch, TLAPS

W == Width(patch)

\* What was found below i was replaced, or follows directly on what was; and the
\* count tells whether there was anything.
BehindInv ==
  /\ \A a \in Found : a < i => \E b \in Found : b \in {a, a - W} /\ b < i /\ Written(b)
  /\ count = 0 <=> \A a \in Found : a >= i

\* What differs is of a match that was replaced.
ChangedInv ==
  \A a \in 0..MemTop : mem[a] # mem0[a] =>
    \E b \in Found : b < i /\ a \in b..b + W - 1 /\ Written(b)

\* From i on memory is as it was.
AheadInv == \A a \in 0..MemTop : a >= i => mem[a] = mem0[a]

\* The inductive invariant.
ByteInv ==
  /\ TypeOK /\ BehindInv /\ ChangedInv /\ AheadInv
  /\ pc = "done" => i >= Bound

----------------------------------------------------------------------------
(* Patterns                                                                *)

LEMMA Patterns ==
  ASSUME TypeOK
  PROVE  /\ W \in Nat \ {0} /\ Bound \in Nat /\ i \in Nat /\ MemTop \in Nat
         /\ patch.old \in Seq(Nat) /\ patch.new \in Seq(Nat) /\ Len(patch.new) = W
         /\ Len(patch.old) = W
         /\ \A d \in 1..W - 1 : \E q \in 1..W - d : patch.old[q] # patch.old[q + d]
         /\ mem0 \in [0..MemTop -> Nat] /\ mem \in [0..MemTop -> Nat]
<1>1. patch \in Patches /\ mem0 \in Memories /\ mem \in [0..MemTop -> Nat]
  BY DEF TypeOK
<1>2. /\ patch.old \in Seq(Nat) /\ patch.new \in Seq(Nat) /\ W > 0 /\ Len(patch.new) = W
      /\ \A d \in 1..W - 1 : \E q \in 1..W - d : patch.old[q] # patch.old[q + d]
  BY <1>1, BytePatchAssumption DEF W
<1>3. W \in Nat /\ W = Len(patch.old)
  BY <1>2 DEF W, Width
<1>4. Bound \in Nat
  <2>1. size \in Int /\ Cut \in Int /\ Word \in Nat \ {0}
    BY BytePatchAssumption DEF TypeOK
  <2>. QED  BY <2>1 DEF Bound
<1>5. i \in Nat
  BY <1>3, <1>4 DEF TypeOK, W
<1>. QED  BY <1>1, <1>2, <1>3, <1>4, <1>5, BytePatchAssumption

\* Two matches do not overlap.
LEMMA Disjoint ==
  ASSUME TypeOK, NEW a \in Found, NEW c \in Found, a < c
  PROVE  a + W <= c
<1>1. /\ a \in Nat /\ c \in Nat
      /\ \A q \in 0..W - 1 : mem0[a + q] = patch.old[q + 1] /\ mem0[c + q] = patch.old[q + 1]
  BY Patterns DEF Found, Matches, W
<1>2. SUFFICES ASSUME c < a + W  PROVE  FALSE
  BY <1>1, Patterns
<1>. DEFINE d == c - a
<1>3. d \in 1..W - 1
  <2>1. W \in Nat \ {0} /\ a < c
    BY Patterns
  <2>. HIDE DEF W
  <2>. QED  BY ONLY <1>1, <1>2, <2>1
<1>4. PICK q \in 1..W - d : patch.old[q] # patch.old[q + d]
  BY <1>3, Patterns
<1>5. /\ q - 1 \in 0..W - 1 /\ (q - 1) + 1 = q
      /\ d + (q - 1) \in 0..W - 1 /\ (d + (q - 1)) + 1 = q + d
      /\ c + (q - 1) = a + (d + (q - 1))
  <2>1. W \in Nat \ {0} /\ q \in 1..W - d
    BY Patterns
  <2>. HIDE DEF W
  <2>. QED  BY ONLY <1>1, <1>3, <2>1 DEF d
<1>6. mem0[c + (q - 1)] = patch.old[q] /\ mem0[a + (d + (q - 1))] = patch.old[q + d]
  BY <1>1, <1>5
<1>. QED  BY <1>4, <1>5, <1>6

\* Where the loop is, it sees what was there before.
LEMMA HereAsBefore ==
  ASSUME ByteInv, i < Bound, Readable
  PROVE  i \in Found <=> Matches(mem, patch, i)
<1>1. i \in Nat /\ W \in Nat \ {0} /\ MemTop \in Nat /\ i + W - 1 <= MemTop
  BY Patterns DEF ByteInv, Readable, W
<1>2. \A q \in 0..W - 1 : i + q \in 0..MemTop /\ i + q >= i
  BY <1>1
<1>3. \A q \in 0..W - 1 : mem[i + q] = mem0[i + q]
  BY <1>2 DEF ByteInv, AheadInv
<1>4. i \in 0..Bound - 1
  BY <1>1, Patterns DEF ByteInv
<1>. QED  BY <1>1, <1>3, <1>4 DEF Found, Matches, W

LEMMA FoundSame == mem0' = mem0 /\ patch' = patch /\ size' = size => Found' = Found /\ W' = W
BY DEF Found, W, Bound, Matches, Width

----------------------------------------------------------------------------
(* The steps                                                               *)

LEMMA ByteInit == Init => ByteInv
<1>. SUFFICES ASSUME Init  PROVE  ByteInv
  OBVIOUS
<1>1. TypeOK
  <2>1. Width(patch) \in Nat
    BY BytePatchAssumption DEF Init, Width
  <2>2. Bound \in Nat
    <3>1. size \in Int /\ Cut \in Int /\ Word \in Nat \ {0}
      BY BytePatchAssumption DEF Init
    <3>. QED  BY <3>1 DEF Bound
  <2>. QED  BY <2>1, <2>2, BytePatchAssumption DEF Init, TypeOK
<1>2. \A a \in Found : a \in Nat /\ ~(a < 0)
  BY <1>1, Patterns DEF Found
<1>. QED  BY <1>1, <1>2 DEF Init, ByteInv, BehindInv, ChangedInv, AheadInv

LEMMA AdvanceStep == ByteInv /\ Advance => ByteInv'
<1>. SUFFICES ASSUME ByteInv, Advance  PROVE  ByteInv'
  OBVIOUS
<1>1. i \in Nat /\ W \in Nat \ {0} /\ Bound \in Nat
  BY Patterns DEF ByteInv
<1>2. /\ i' = i + 1 /\ i < Bound /\ pc' = pc /\ mem' = mem /\ mem0' = mem0
      /\ patch' = patch /\ size' = size /\ count' = count /\ pc = "search"
  BY DEF Advance
<1>3. i \notin Found
  BY HereAsBefore DEF Advance
<1>4. Found' = Found /\ W' = W /\ Bound' = Bound
  BY <1>2, FoundSame DEF Bound
<1>5. \A a : Written(a)' <=> Written(a)
  BY <1>2 DEF Written, Width
<1>6. \A a \in Found : a \in Nat /\ (a < i + 1 <=> a < i) /\ (a >= i + 1 <=> a >= i)
  BY <1>1, <1>3 DEF Found
<1>7. TypeOK'
  <2>1. i + 1 \in 0..Bound + Width(patch)
    BY <1>1, <1>2 DEF W
  <2>. QED  BY <1>2, <1>4, <2>1 DEF ByteInv, TypeOK, Width
<1>8. BehindInv'
  <2>1. \A a \in Found : a < i + 1 =>
          \E b \in Found : b \in {a, a - W} /\ b < i + 1 /\ Written(b)
    BY <1>6 DEF ByteInv, BehindInv
  <2>2. count = 0 <=> \A a \in Found : a >= i + 1
    BY <1>6 DEF ByteInv, BehindInv
  <2>. QED  BY <1>2, <1>4, <1>5, <2>1, <2>2 DEF BehindInv
<1>9. ChangedInv'
  BY <1>2, <1>4, <1>5, <1>6 DEF ByteInv, ChangedInv
<1>10. AheadInv'
  <2>1. \A a \in 0..MemTop : a >= i + 1 => a >= i
    BY <1>1
  <2>. QED  BY <1>2, <2>1 DEF ByteInv, AheadInv
<1>. QED  BY <1>2, <1>7, <1>8, <1>9, <1>10 DEF ByteInv

LEMMA ReplaceStep == ByteInv /\ Replace => ByteInv'
<1>. SUFFICES ASSUME ByteInv, Replace  PROVE  ByteInv'
  OBVIOUS
<1>1. /\ i \in Nat /\ W \in Nat \ {0} /\ Bound \in Nat /\ MemTop \in Nat
      /\ patch.new \in Seq(Nat) /\ Len(patch.new) = W /\ mem \in [0..MemTop -> Nat]
  BY Patterns DEF ByteInv
<1>2. /\ i' = i + W + 1 /\ i < Bound /\ pc' = pc /\ mem0' = mem0
      /\ patch' = patch /\ size' = size /\ count' = count + 1 /\ pc = "search"
      /\ i + W - 1 <= MemTop
      /\ mem' = [a \in 0..MemTop |->
                   IF a \in i..i + W - 1 THEN patch.new[a - i + 1] ELSE mem[a]]
  BY DEF Replace, W, Readable
<1>3. i \in Found
  BY HereAsBefore DEF Replace
<1>4. Found' = Found /\ W' = W /\ Bound' = Bound
  BY <1>2, FoundSame DEF Bound
<1>5. \A a \in Found : a \in Nat
  BY <1>1 DEF Found
<1>6. ASSUME NEW c, c = i  PROVE  Written(c)'
  <2>1. \A q \in 0..W - 1 : /\ i + q \in 0..MemTop /\ i + q \in i..i + W - 1
                            /\ (i + q) - i + 1 = q + 1
    BY <1>1, <1>2
  <2>2. \A q \in 0..W - 1 : mem'[i + q] = patch.new[q + 1]
    BY <1>2, <2>1
  <2>. QED  BY <1>2, <1>6, <2>2 DEF Written, W, Width
<1>7. ASSUME NEW c \in Found, c < i, Written(c)  PROVE  Written(c)'
  <2>1. c \in Nat /\ c + W <= i
    BY <1>3, <1>5, <1>7, Disjoint DEF ByteInv
  <2>2. \A q \in 0..W - 1 : c + q \in 0..MemTop /\ c + q < i
    BY <1>1, <1>2, <2>1
  <2>3. \A q \in 0..W - 1 : mem'[c + q] = mem[c + q]
    BY <1>1, <1>2, <2>2
  <2>. QED  BY <1>2, <1>7, <2>3 DEF Written, W, Width
<1>8. TypeOK'
  <2>1. i + W + 1 \in 0..Bound + W
    BY <1>1, <1>2
  <2>2. \A a \in 0..MemTop : a \in i..i + W - 1 => a - i + 1 \in 1..W
    BY <1>1
  <2>3. mem' \in [0..MemTop -> Nat]
    BY <1>1, <1>2, <2>2
  <2>. QED  BY <1>2, <1>4, <2>1, <2>3 DEF ByteInv, TypeOK, W
<1>9. BehindInv'
  <2>1. \A a \in Found : a < i + W + 1 =>
          \E b \in Found : b \in {a, a - W} /\ b < i + W + 1 /\ Written(b)'
    <3>1. SUFFICES ASSUME NEW a \in Found, a < i + W + 1
                   PROVE  \E b \in Found : b \in {a, a - W} /\ b < i + W + 1 /\ Written(b)'
      OBVIOUS
    <3>2. CASE a < i
      <4>1. PICK b \in Found : b \in {a, a - W} /\ b < i /\ Written(b)
        BY <3>2 DEF ByteInv, BehindInv
      <4>2. Written(b)' /\ b < i + W + 1
        BY <1>1, <1>5, <1>7, <4>1
      <4>. QED  BY <4>1, <4>2
    <3>3. CASE a = i
      <4>1. i < i + W + 1
        BY <1>1
      <4>. QED  BY <1>3, <1>6, <3>3, <4>1
    <3>4. CASE i < a
      <4>1. i + W <= a
        BY <1>3, <3>4, Disjoint DEF ByteInv
      <4>2. a - W = i /\ i < i + W + 1
        BY <1>1, <1>5, <3>1, <4>1
      <4>3. \A b : b = i => Written(b)'
        BY <1>6
      <4>. QED  BY <1>3, <4>2, <4>3
    <3>. QED  BY <1>1, <1>5, <3>2, <3>3, <3>4
  <2>2. count + 1 # 0 /\ i < i + W + 1
    BY <1>1 DEF ByteInv, TypeOK
  <2>3. ~(\A a \in Found : a >= i + W + 1)
    BY <1>1, <1>3, <2>2
  <2>. QED  BY <1>2, <1>4, <2>1, <2>2, <2>3 DEF BehindInv
<1>10. ChangedInv'
  <2>1. ASSUME NEW a \in 0..MemTop, mem'[a] # mem0[a]
        PROVE  \E b \in Found : b < i + W + 1 /\ a \in b..b + W - 1 /\ Written(b)'
    <3>1. CASE a \in i..i + W - 1
      <4>1. i < i + W + 1
        BY <1>1
      <4>. QED  BY <1>3, <1>6, <3>1, <4>1
    <3>2. CASE a \notin i..i + W - 1
      <4>1. mem[a] # mem0[a]
        BY <1>2, <2>1, <3>2
      <4>2. PICK b \in Found : b < i /\ a \in b..b + W - 1 /\ Written(b)
        BY <4>1 DEF ByteInv, ChangedInv
      <4>3. Written(b)' /\ b < i + W + 1
        BY <1>1, <1>5, <1>7, <4>2
      <4>. QED  BY <4>2, <4>3
    <3>. QED  BY <3>1, <3>2
  <2>. QED  BY <1>2, <1>4, <2>1 DEF ChangedInv
<1>11. AheadInv'
  <2>1. \A a \in 0..MemTop : a >= i + W + 1 => a >= i /\ a \notin i..i + W - 1
    BY <1>1
  <2>. QED  BY <1>2, <2>1 DEF ByteInv, AheadInv
<1>. QED  BY <1>2, <1>8, <1>9, <1>10, <1>11 DEF ByteInv

LEMMA EndStep == ByteInv /\ (Crash \/ Return \/ UNCHANGED vars) => ByteInv'
<1>. SUFFICES ASSUME ByteInv, Crash \/ Return \/ UNCHANGED vars  PROVE  ByteInv'
  OBVIOUS
<1>1. /\ mem' = mem /\ mem0' = mem0 /\ patch' = patch /\ size' = size /\ i' = i
      /\ count' = count
      /\ pc' \in {"crashed", "done", pc} /\ (pc' = "done" => pc = "done" \/ i >= Bound)
  BY DEF Crash, Return, vars
<1>2. Found' = Found /\ W' = W /\ Bound' = Bound
  BY <1>1, FoundSame DEF Bound
<1>3. \A a : Written(a)' <=> Written(a)
  BY <1>1 DEF Written, Width
<1>4. TypeOK'
  BY <1>1, <1>2 DEF ByteInv, TypeOK, Width
<1>5. BehindInv' /\ ChangedInv' /\ AheadInv'
  BY <1>1, <1>2, <1>3 DEF ByteInv, BehindInv, ChangedInv, AheadInv
<1>. QED  BY <1>1, <1>2, <1>4, <1>5 DEF ByteInv

\* The inductive invariant holds in every state.
THEOREM ByteInvariant == Spec => []ByteInv
<1>1. ByteInv /\ [Next]_vars => ByteInv'
  BY AdvanceStep, ReplaceStep, EndStep DEF Next
<1>. QED  BY <1>1, ByteInit, PTL DEF Spec

\* The loop stays within the content and the width of what it looks for.
THEOREM BytePatchTypes == Spec => []TypeOK
<1>1. ByteInv => TypeOK
  BY DEF ByteInv
<1>. QED  BY <1>1, ByteInvariant, PTL

\* For every content and every pattern that does not overlap itself, each match
\* is replaced, but for one directly behind another that was; what is written does
\* not hide a match; and the count tells whether there was one.
THEOREM AllMatchesReplaced == Spec => []ReplacesMatches
<1>1. ByteInv => ReplacesMatches
  <2>. SUFFICES ASSUME ByteInv, pc = "done"
                PROVE  /\ \A a \in Found : Written(a) \/ (a - W \in Found /\ Written(a - W))
                       /\ count = 0 <=> Found = {}
    BY DEF ReplacesMatches, W
  <2>1. \A a \in Found : a \in Nat /\ a < i /\ ~(a >= i)
    BY Patterns DEF ByteInv, Found
  <2>2. \A a \in Found : \E b \in Found : b \in {a, a - W} /\ Written(b)
    BY <2>1 DEF ByteInv, BehindInv
  <2>3. count = 0 <=> Found = {}
    BY <2>1 DEF ByteInv, BehindInv
  <2>. QED  BY <2>2, <2>3
<1>. QED  BY <1>1, ByteInvariant, PTL

\* No byte is changed that is not of a match that was replaced, and none behind the
\* content but what the longer pattern reaches beyond the bound.
THEOREM OnlyMatchesChanged == Spec => []ChangesOnlyMatches
<1>1. ByteInv => ChangesOnlyMatches
  <2>. SUFFICES ASSUME ByteInv, NEW a \in 0..MemTop, mem[a] # mem0[a]
                PROVE  /\ \E b \in Found : a \in b..b + W - 1 /\ Written(b)
                       /\ size >= Cut => a < size + W - Cut - 1 \/ a < size
    BY DEF ChangesOnlyMatches, W
  <2>1. PICK b \in Found : a \in b..b + W - 1 /\ Written(b)
    BY DEF ByteInv, ChangedInv
  <2>2. ASSUME size >= Cut  PROVE  a < size + W - Cut - 1
    <3>1. size \in 0..Word - 1 /\ Cut \in Nat /\ Word \in Nat \ {0}
      BY BytePatchAssumption DEF ByteInv, TypeOK
    <3>2. Bound = size - Cut
      BY <2>2, <3>1 DEF Bound
    <3>3. b \in 0..Bound - 1 /\ W \in Nat
      BY Patterns DEF ByteInv, Found
    <3>. QED  BY <2>1, <3>1, <3>2, <3>3
  <2>. QED  BY <2>1, <2>2
<1>. QED  BY <1>1, ByteInvariant, PTL
============================================================================
