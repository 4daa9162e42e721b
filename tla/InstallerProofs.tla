-------------------------- MODULE InstallerProofs --------------------------
(***************************************************************************)
(* InstallInv is inductive, and the invariants of the installer follow     *)
(* from it. One lemma for each part of InstallInv shows that a step keeps  *)
(* it: by the groups of actions, then by the actions that disturb it. Then *)
(* the refinement of TitleStore, and both for Download, which has an       *)
(* invariant of its own until the title is complete.                       *)
(***************************************************************************)
EXTENDS InstallerInv, Download, TLAPS

CtType == [size : Nat, encCap : Nat, decCap : Nat, dec : Data,
           enc : [iv : Nat, data : Data]]
EntryType == [index : Nat, size : Nat, hash : Data \ {Junk}]
TmdType == [contents : Seq(EntryType), new : BOOLEAN,
            sig : {"official", "stale", "forged", "hopeless"}]

----------------------------------------------------------------------------
(* Sizes, names of blocks, sequences                                       *)

\* Rounding up does not lose anything, and more of it gains.
LEMMA RoundUpBounds ==
  ASSUME NEW s \in Nat
  PROVE  /\ RoundUp(s, 2) \in Nat /\ s <= RoundUp(s, 2)
         /\ RoundUp(s, 4) \in Nat /\ s <= RoundUp(s, 4)
         /\ RoundUp(s, 2) <= RoundUp(s, 4)
BY DEF RoundUp

\* Blocks of different names are different.
LEMMA Apart ==
  /\ Ios \notin AllFields /\ Ios \notin Files /\ Ios # B("outbuf")
  /\ Files \intersect AllFields = {} /\ B("fp") # B("header")
  /\ Parts \intersect Arrays = {}
  /\ \A n \in Nat : /\ Buffers(n) \intersect (Parts \union Arrays) = {}
                    /\ Enc(n + 1) \notin Buffers(n) /\ Dec(n + 1) \notin Buffers(n)
                    /\ Enc(n) # Dec(n)
BY DEF Ios, B, AllFields, Files, Parts, Arrays, Buffers, Enc, Dec

\* A sequence made from another one element by element has its length.
LEMMA SeqMap ==
  ASSUME NEW S, NEW s \in Seq(S), NEW t, t = [c \in DOMAIN s |-> t[c]]
  PROVE  Len(t) = Len(s)
OBVIOUS

\* ... and elements of the type each of them has.
LEMMA SeqMapType ==
  ASSUME NEW S, NEW R, NEW s \in Seq(S), NEW t, t = [c \in DOMAIN s |-> t[c]],
         \A c \in DOMAIN s : t[c] \in R
  PROVE  t \in Seq(R)
<1>1. DOMAIN s = 1..Len(s) /\ Len(s) \in Nat
  OBVIOUS
<1>2. t \in [1..Len(s) -> R]
  BY <1>1
<1> QED BY <1>1, <1>2

\* The empty sequence, an element, one more element.
LEMMA SeqOps ==
  ASSUME NEW S, NEW s \in Seq(S)
  PROVE  /\ << >> \in Seq(S)
         /\ \A n \in DOMAIN s : s[n] \in S
         /\ \A e \in S : Append(s, e) \in Seq(S)
OBVIOUS

\* One element is replaced, if the sequence has it.
LEMMA SeqExcept ==
  ASSUME NEW S, NEW s \in Seq(S), NEW m, NEW v, m \in DOMAIN s => v \in S
  PROVE  [s EXCEPT ![m] = v] \in Seq(S)
<1> DEFINE t == [s EXCEPT ![m] = v]
<1>1. t = [c \in DOMAIN s |-> t[c]]
  OBVIOUS
<1>2. \A c \in DOMAIN s : t[c] \in S
  OBVIOUS
<1> HIDE DEF t
<1>3. t \in Seq(S)
  BY <1>1, <1>2, SeqMapType
<1> QED BY <1>3 DEF t

----------------------------------------------------------------------------
(* The beginning, and the parts of the invariant one by one                *)

\* The installer begins in a state of the invariant.
LEMMA InstallInit == Init => InstallInv
<1> SUFFICES ASSUME Init PROVE InstallInv
  OBVIOUS
<1>0. /\ conts \in Seq([size : Nat, encCap : Nat, decCap : Nat, dec : Data,
                       enc : [iv : Nat, data : Data]])
      /\ tmd.contents = << >> /\ Len(tmd.contents) = 0 /\ Len(conts) = 0
      /\ tmd \in [contents : Seq([index : Nat, size : Nat, hash : Data \ {Junk}]),
                  new : BOOLEAN, sig : {"official", "stale", "forged", "hopeless"}]
      /\ es \in [open : BOOLEAN, given : Seq(Data)]
  BY DEF Init, NoTmd, Closed
<1>1. TypeOK
  <2>1. ret \in {"ok", "err"} /\ call \in Calls /\ wad \in Wads
    BY DEF Init
  <2>2. attempt \in Attempts /\ runs \in Nat
    BY DEF Init, Attempts
  <2>3. k \in 1..Len(tmd.contents) + 1
    BY <1>0 DEF Init
  <2>4. live \subseteq Blocks /\ fields \subseteq Blocks
    BY DEF Init
  <2>5. Len(conts) <= Len(tmd.contents)
    BY <1>0 DEF Init
  <2> QED BY <1>0, <2>1, <2>2, <2>3, <2>4, <2>5 DEF TypeOK
<1>2. pc = "usb" /\ live = {} /\ fields = {} /\ ~bad /\ conts = << >> /\ tmd = NoTmd
      /\ es = Closed
  BY DEF Init
<1>3. HeapInv /\ TmdInv /\ CountInv
  BY <1>2 DEF HeapInv, TmdInv, CountInv, Checked, Reading, Prepared, EsCalls
<1>4. ContentInv /\ SigInv /\ EsInv
  BY <1>2 DEF ContentInv, SigInv, EsInv, Reading, EsCalls, Closed
<1> QED BY <1>1, <1>2, <1>3, <1>4 DEF InstallInv, PointInv, Points, Ended, Reading

\* Every step leads to a point of the program, with the result it has there.
LEMMA PointStep == InstallInv /\ [Next]_vars => PointInv'
<1> SUFFICES ASSUME InstallInv, [Next]_vars PROVE PointInv'
  OBVIOUS
<1> USE DEF InstallInv, PointInv, Points, Reading, Prepared, EsCalls, Ended, Err, Go, Return
<1>1. CASE ReadWad
  BY <1>1 DEF ReadWad, InitIOS, OpenWad, ReadHeader, LoadCerts, LoadCrl, LoadTicket, LoadTmd,
              LoadPart,
     CheckTitle, SetContentCount, ReadContent, DecryptIOS, CheckHashes, FreeOnErr, CloseWad
<1>2. CASE Prepare
  BY <1>2 DEF Prepare, FindModule, PatchFails, PatchModule, NoMemoryForPatched, SetRevision,
     ForgeTmd, EncryptIOS, Confirm
<1>3. CASE InstallIOS
  BY <1>3 DEF InstallIOS, AddTicket, AddTitleStart, AddContentStart, AddContentData,
     AddContentFinish, AddTitleFinish, EsRefuses, Succeed
<1>4. CASE InitUsb \/ PowerCut \/ Again \/ UNCHANGED vars
  BY <1>4 DEF InstallInv, InitUsb, PowerCut, Again, vars
<1> QED BY <1>1, <1>2, <1>3, <1>4 DEF Next

\* A step that changes the TMD leaves its signature stale until ForgeTmd.
LEMMA SigStep == InstallInv /\ [Next]_vars => SigInv'
<1> SUFFICES ASSUME InstallInv, [Next]_vars PROVE SigInv'
  OBVIOUS
<1> USE DEF InstallInv, SigInv, Reading, EsCalls, Err, Go, Return
<1>1. CASE ReadWad
  <2>1. CASE InitIOS
    BY <2>1 DEF InitIOS, NoTmd
  <2>2. CASE LoadTmd
    BY <2>2 DEF LoadTmd, LoadPart, NoTmd
  <2>3. CASE FreeOnErr \/ CloseWad
    BY <2>3 DEF FreeOnErr, CloseWad, PointInv
  <2>4. ASSUME ~InitIOS, ~LoadTmd, ~FreeOnErr, ~CloseWad PROVE SigInv'
    <3>1. tmd' = tmd /\ pc \in Reading
      BY <1>1, <2>4 DEF ReadWad, InitIOS, OpenWad, ReadHeader, LoadCerts, LoadCrl, LoadTicket,
                        LoadTmd, LoadPart,
         CheckTitle, SetContentCount, ReadContent, DecryptIOS, CheckHashes, FreeOnErr, CloseWad
    <3> QED BY <1>1, <2>4, <3>1 DEF ReadWad, InitIOS, OpenWad, ReadHeader, LoadCerts, LoadCrl,
                                    LoadTicket, LoadTmd, LoadPart,
         CheckTitle, SetContentCount, ReadContent, DecryptIOS, CheckHashes, FreeOnErr, CloseWad
  <2> QED BY <2>1, <2>2, <2>3, <2>4
<1>2. CASE Prepare
  BY <1>2 DEF Prepare, FindModule, PatchFails, PatchModule, NoMemoryForPatched, SetRevision,
     ForgeTmd, EncryptIOS, Confirm, TypeOK
<1>3. CASE InstallIOS
  BY <1>3 DEF InstallIOS, AddTicket, AddTitleStart, AddContentStart, AddContentData,
     AddContentFinish, AddTitleFinish, EsRefuses, Succeed
<1>4. CASE InitUsb \/ PowerCut \/ Again \/ UNCHANGED vars
  BY <1>4 DEF InitUsb, PowerCut, Again, vars, NoTmd
<1> QED BY <1>1, <1>2, <1>3, <1>4 DEF Next

\* An import is open only between the calls that give its contents.
LEMMA EsStep == InstallInv /\ [Next]_vars => EsInv'
<1> SUFFICES ASSUME InstallInv, [Next]_vars PROVE EsInv'
  OBVIOUS
<1> USE DEF InstallInv, EsInv, EsCalls, Err, Go, Return, esVars
<1>0. Closed.open = FALSE
  BY DEF Closed
<1>1. CASE ReadWad
  <2>1. es' = es /\ pc \notin {"start", "data", "finish"}
    BY <1>1 DEF ReadWad, InitIOS, OpenWad, ReadHeader, LoadCerts, LoadCrl, LoadTicket, LoadTmd,
                LoadPart,
       CheckTitle, SetContentCount, ReadContent, DecryptIOS, CheckHashes, FreeOnErr, CloseWad
  <2> QED BY <2>1
<1>2. CASE Prepare
  <2>1. es' = es /\ pc \notin {"start", "data", "finish"}
    BY <1>2 DEF Prepare, FindModule, PatchFails, PatchModule, NoMemoryForPatched, SetRevision,
       ForgeTmd, EncryptIOS, Confirm
  <2> QED BY <2>1
<1>3. CASE InstallIOS
  <2>1. CASE AddTitleFinish \/ EsRefuses
    BY <1>0, <2>1 DEF AddTitleFinish, EsRefuses
  <2>2. CASE AddTicket \/ AddContentStart \/ AddContentData \/ Succeed
    BY <2>2 DEF AddTicket, AddContentStart, AddContentData, Succeed
  <2>3. CASE AddTitleStart \/ AddContentFinish
    BY <2>3 DEF AddTitleStart, AddContentFinish
  <2> QED BY <1>3, <2>1, <2>2, <2>3 DEF InstallIOS
<1>4. CASE PowerCut \/ Again
  BY <1>0, <1>4 DEF PowerCut, Again
<1>5. CASE InitUsb \/ UNCHANGED vars
  BY <1>5 DEF InitUsb, vars
<1> QED BY <1>1, <1>2, <1>3, <1>4, <1>5 DEF Next

\* Until the hashes are checked the TMD is that of the open WAD.
LEMMA TmdStep == InstallInv /\ [Next]_vars => TmdInv'
<1> SUFFICES ASSUME InstallInv, [Next]_vars PROVE TmdInv'
  OBVIOUS
<1> USE DEF TmdInv, Reading, Err, Go, Return
<1>1. CASE ReadWad
  <2>1. CASE InitIOS
    BY <2>1 DEF InitIOS
  <2>2. CASE OpenWad
    BY <2>2 DEF OpenWad, InstallInv
  <2>3. CASE LoadTmd
    BY <2>3 DEF LoadTmd, LoadPart, NoTmd, InstallInv
  <2>4. ASSUME ~InitIOS, ~OpenWad, ~LoadTmd PROVE TmdInv'
    <3>1. tmd' = tmd /\ wad' = wad
      BY <1>1, <2>4 DEF ReadWad, ReadHeader, LoadCerts, LoadCrl, LoadTicket, LoadPart,
         CheckTitle, SetContentCount, ReadContent, DecryptIOS, CheckHashes, FreeOnErr, CloseWad
    <3> QED BY <1>1, <2>4, <3>1 DEF InstallInv, ReadWad, ReadHeader, LoadCerts, LoadCrl,
         LoadTicket, LoadPart, CheckTitle, SetContentCount, ReadContent, DecryptIOS,
         CheckHashes, FreeOnErr, CloseWad
  <2> QED BY <2>1, <2>2, <2>3, <2>4
<1>2. CASE Prepare
  BY <1>2 DEF Prepare, FindModule, PatchFails, PatchModule, NoMemoryForPatched, SetRevision,
     ForgeTmd, EncryptIOS, Confirm
<1>3. CASE InstallIOS
  BY <1>3 DEF InstallIOS, AddTicket, AddTitleStart, AddContentStart, AddContentData,
     AddContentFinish, AddTitleFinish, EsRefuses, Succeed
<1>4. CASE InitUsb \/ PowerCut \/ Again
  BY <1>4 DEF InitUsb, PowerCut, Again
<1>5. CASE UNCHANGED vars
  BY <1>5 DEF vars, InstallInv
<1> QED BY <1>1, <1>2, <1>3, <1>4, <1>5 DEF Next

\* The loop counter, and the number of contents read.
LEMMA CountStep == InstallInv /\ [Next]_vars => CountInv'
<1> SUFFICES ASSUME InstallInv, [Next]_vars PROVE CountInv'
  OBVIOUS
<1> USE DEF CountInv, Checked, Prepared, EsCalls, Err, Go, Return
<1>1. CASE ReadWad
  <2>1. CASE InitIOS
    BY <2>1 DEF InitIOS
  <2>2. CASE LoadTmd
    BY <2>2 DEF LoadTmd, LoadPart, InstallInv
  <2>3. CASE ReadContent
    <3>1. /\ pc = "content" /\ Len(conts) = k - 1 /\ k <= Len(tmd.contents) /\ tmd' = tmd
          /\ conts \in Seq([size : Nat, encCap : Nat, decCap : Nat, dec : Data,
                            enc : [iv : Nat, data : Data]])
      BY <2>3 DEF ReadContent, InstallInv, TypeOK
    <3>2. CASE pc' = "err"
      BY <3>2
    <3>3. CASE pc' = pc /\ \E e : conts' = Append(conts, e) /\ k' = k + 1
      <4>1. Len(conts') = Len(conts) + 1
        BY <3>1, <3>3
      <4> QED BY <3>1, <3>3, <4>1 DEF InstallInv, TypeOK
    <3> QED BY <2>3, <3>2, <3>3 DEF ReadContent
  <2>4. CASE DecryptIOS
    <3>1. Len(conts') = Len(conts)
      BY <2>4 DEF DecryptIOS, InstallInv, TypeOK
    <3> QED BY <2>4, <3>1 DEF DecryptIOS, InstallInv, TypeOK
  <2>5. CASE CheckHashes \/ FreeOnErr \/ CloseWad
    BY <2>5 DEF InstallInv, PointInv, CheckHashes, FreeOnErr, CloseWad
  <2>6. CASE OpenWad \/ ReadHeader \/ CheckTitle
    BY <2>6 DEF InstallInv, OpenWad, ReadHeader, CheckTitle
  <2>8. CASE SetContentCount
    <3>1. k = 1 /\ conts = << >> /\ Len(conts) = k - 1
      BY <2>8 DEF SetContentCount, InstallInv
    <3>2. UNCHANGED <<k, conts, tmd>> /\ pc' \in {"content", "err"}
          /\ (pc' = "err" => ret' = "err")
      BY <2>8 DEF SetContentCount
    <3> QED BY <3>1, <3>2
  <2>7. CASE LoadCerts \/ LoadCrl \/ LoadTicket
    BY <2>7 DEF InstallInv, LoadCerts, LoadCrl, LoadTicket, LoadPart
  <2> QED BY <1>1, <2>1, <2>2, <2>3, <2>4, <2>5, <2>6, <2>7, <2>8 DEF ReadWad
<1>2. CASE Prepare
  <2>1. CASE PatchModule
    <3>1. Len(conts') = Len(conts) /\ Len(tmd'.contents) = Len(tmd.contents)
      BY <2>1 DEF PatchModule, InstallInv, TypeOK
    <3> QED BY <2>1, <3>1 DEF PatchModule, InstallInv
  <2>2. CASE EncryptIOS
    <3>1. conts' = [c \in DOMAIN conts |-> conts'[c]]
      BY <2>2 DEF EncryptIOS
    <3>2. conts \in Seq([size : Nat, encCap : Nat, decCap : Nat, dec : Data,
                         enc : [iv : Nat, data : Data]])
      BY DEF InstallInv, TypeOK
    <3>3. Len(conts') = Len(conts)
      BY <3>1, <3>2, SeqMap
    <3> QED BY <2>2, <3>3 DEF EncryptIOS, InstallInv
  <2>3. CASE SetRevision \/ ForgeTmd
    <3>1. tmd'.contents = tmd.contents
      BY <2>3 DEF SetRevision, ForgeTmd, InstallInv, TypeOK
    <3> QED BY <2>3, <3>1 DEF SetRevision, ForgeTmd, InstallInv
  <2>4. CASE FindModule \/ PatchFails \/ NoMemoryForPatched \/ Confirm
    BY <2>4 DEF FindModule, PatchFails, NoMemoryForPatched, Confirm, InstallInv
  <2> QED BY <1>2, <2>1, <2>2, <2>3, <2>4 DEF Prepare
<1>3. CASE InstallIOS
  BY <1>3 DEF InstallIOS, AddTicket, AddTitleStart, AddContentStart, AddContentData,
     AddContentFinish, AddTitleFinish, EsRefuses, Succeed, InstallInv
<1>4. CASE InitUsb \/ PowerCut \/ Again
  BY <1>4 DEF InitUsb, PowerCut, Again
<1>5. CASE UNCHANGED vars
  BY <1>5 DEF vars, args, InstallInv
<1> QED BY <1>1, <1>2, <1>3, <1>4, <1>5 DEF Next

----------------------------------------------------------------------------
(* The heap                                                                *)

\* A block that is not live may be allocated.
LEMMA AllocOK ==
  ASSUME NEW S, Alloc(S), ~bad, S \intersect live = {}
  PROVE  ~bad' /\ live' = live \union S
BY DEF Alloc

\* Blocks that are live may be freed.
LEMMA FreeOK ==
  ASSUME NEW S, Free(S), ~bad, S \subseteq live
  PROVE  ~bad' /\ live' = live \ S
BY DEF Free

\* What has to be shown of a step into the error path, and into the reader.
LEMMA IntoErr ==
  ASSUME pc' = "err", ~bad', fields' \subseteq AllFields',
         NEW f \in SUBSET Files, live' = Owned' \union f
  PROVE  HeapInv'
BY DEF HeapInv, Reading, Prepared, EsCalls

\* The same of a step within the reader.
LEMMA IntoReading ==
  ASSUME pc' \in Reading \ {"open", "header"}, ~bad', fields' \subseteq AllFields',
         live' = Owned' \union Files,
         pc' \in Reading \ {"content", "check"} => fields' \subseteq Before(pc)',
         pc' = "content" => (fields \subseteq Parts \union Arrays \union Buffers(k - 1))'
  PROVE  HeapInv'
BY DEF HeapInv, Reading, Prepared, EsCalls

\* One part of the WAD is loaded, or there is no memory for it.
LEMMA HeapPart ==
  ASSUME InstallInv, NEW checked,
         NEW part, NEW next, LoadPart(part, checked, next),
         <<part, next>> \in {<<"certs", "crl">>, <<"crl", "ticket">>,
                             <<"ticket", "tmd">>, <<"tmd", "title">>}
  PROVE  HeapInv'
<1>1. pc = part /\ live = Owned \union Files /\ fields \subseteq Before(part) /\ ~bad
  BY DEF LoadPart, InstallInv, HeapInv, Reading
<1>2. /\ Before(part) \subseteq Parts /\ B(part) \in Parts \ Before(part)
      /\ Before(next) = Before(part) \union {B(part)}
  BY DEF Before, Parts, B
<1>3. Parts \subseteq AllFields /\ Parts \subseteq AllFields'
  BY DEF AllFields
<1>4. B(part) \notin live
  BY <1>1, <1>2, <1>3, Apart DEF Owned
<1>5. CASE Alloc({B(part)}) /\ fields' = fields \union {B(part)} /\ pc' \in {next, "err"}
  <2>1. ~bad' /\ live' = live \union {B(part)}
    BY <1>1, <1>4, <1>5, AllocOK
  <2>2. live' = Owned' \union Files /\ fields' \subseteq Before(next)
    BY <1>1, <1>2, <1>5, <2>1 DEF Owned
  <2>3. fields' \subseteq AllFields'
    BY <1>1, <1>2, <1>3, <1>5
  <2>4. CASE pc' = next
    BY <2>1, <2>2, <2>3, <2>4, IntoReading DEF Reading, Before
  <2> QED BY <1>5, <2>1, <2>2, <2>3, <2>4, IntoErr
<1>6. CASE pc' = "err" /\ UNCHANGED heapVars
  BY <1>1, <1>2, <1>3, <1>6, IntoErr DEF heapVars, Owned
<1> QED BY <1>5, <1>6 DEF LoadPart, Err, Go

\* struct IOS, the file and its header.
LEMMA HeapOpening ==
  ASSUME InstallInv, InitIOS \/ OpenWad \/ ReadHeader
  PROVE  HeapInv'
<1>0. HeapInv
  BY DEF InstallInv
<1>1. CASE InitIOS
  <2>1. live = {} /\ ~bad /\ fields' = {}
    BY <1>0, <1>1 DEF InitIOS, HeapInv
  <2>2. CASE Alloc({Ios}) /\ pc' = "open"
    <3>1. ~bad' /\ live' = {Ios}
      BY <2>1, <2>2, AllocOK
    <3> QED BY <2>1, <2>2, <3>1 DEF HeapInv, Owned, Reading, Prepared, EsCalls, Before
  <2>3. CASE UNCHANGED <<live, bad>> /\ ret' = "err" /\ pc' = "out"
    BY <2>1, <2>3 DEF HeapInv, Reading, Prepared, EsCalls
  <2> QED BY <1>1, <2>2, <2>3 DEF InitIOS
<1>2. CASE OpenWad
  <2>1. live = Owned /\ ~bad /\ fields' = fields /\ fields \subseteq Before("open")
    BY <1>0, <1>2 DEF OpenWad, HeapInv, Reading
  <2>2. fields = {} /\ Owned' = Owned
    BY <2>1 DEF Before, Owned
  <2>3. CASE Alloc({B("fp")}) /\ pc' = "header"
    <3>1. ~bad' /\ live' = live \union {B("fp")}
      BY <2>1, <2>2, <2>3, AllocOK, Apart DEF Owned, Files
    <3> QED BY <2>1, <2>2, <2>3, <3>1 DEF HeapInv, Reading, Prepared, EsCalls
  <2>4. CASE pc' = "err" /\ UNCHANGED <<live, bad>>
    BY <2>1, <2>2, <2>4, IntoErr
  <2> QED BY <1>2, <2>3, <2>4 DEF OpenWad, Go, Err
<1>3. CASE ReadHeader
  <2>1. /\ live = Owned \union {B("fp")} /\ ~bad
        /\ fields' = fields /\ fields \subseteq Before("header")
    BY <1>0, <1>3 DEF ReadHeader, HeapInv, Reading
  <2>2. fields = {} /\ Owned' = Owned
    BY <2>1 DEF Before, Owned
  <2>3. CASE Alloc({B("header")}) /\ pc' \in {"certs", "err"}
    <3>1. B("header") \notin live
      BY <2>1, <2>2, Apart DEF Owned, Files
    <3>2. ~bad' /\ live' = Owned' \union Files
      BY <2>1, <2>2, <2>3, <3>1, AllocOK DEF Files
    <3>3. CASE pc' = "certs"
      BY <2>1, <2>2, <3>2, <3>3, IntoReading DEF Reading
    <3> QED BY <2>1, <2>2, <2>3, <3>2, <3>3, IntoErr
  <2>4. CASE pc' = "err" /\ UNCHANGED <<live, bad>>
    BY <2>1, <2>2, <2>4, IntoErr DEF Files
  <2> QED BY <1>3, <2>3, <2>4 DEF ReadHeader, Go, Err
<1> QED BY <1>1, <1>2, <1>3

\* The arrays over the contents, and the two buffers of each content.
LEMMA HeapContents ==
  ASSUME InstallInv, SetContentCount \/ ReadContent
  PROVE  HeapInv'
<1>0. HeapInv /\ TypeOK
  BY DEF InstallInv
<1>1. CASE SetContentCount
  <2>1. /\ live = Owned \union Files /\ ~bad /\ fields \subseteq Parts
        /\ AllFields' = AllFields /\ Parts \union Arrays \subseteq AllFields
    BY <1>0, <1>1 DEF SetContentCount, HeapInv, Reading, Before, AllFields, Buffers
  <2>2. CASE pc' = "content" /\ UNCHANGED heapVars
    BY <2>1, <2>2, IntoReading DEF heapVars, Owned, Reading
  <2>3. ASSUME NEW got \in SUBSET Arrays, Alloc(got), fields' = fields \union got,
               pc' \in {"content", "err"}
        PROVE  HeapInv'
    <3>1. got \intersect live = {}
      BY <2>1, Apart DEF Owned
    <3>2. ~bad' /\ live' = Owned' \union Files
      BY <2>1, <2>3, <3>1, AllocOK DEF Owned
    <3>3. CASE pc' = "content"
      BY <2>1, <2>3, <3>2, <3>3, IntoReading DEF Reading
    <3> QED BY <2>1, <2>3, <3>2, <3>3, IntoErr
  <2> QED BY <1>1, <2>2, <2>3 DEF SetContentCount, Go, Err
<1>2. CASE ReadContent
  <2>1. /\ live = Owned \union Files /\ ~bad
        /\ fields \subseteq Parts \union Arrays \union Buffers(k - 1)
        /\ k \in Nat \ {0} /\ k <= Len(tmd.contents) /\ Len(tmd.contents) \in Nat
        /\ AllFields' = AllFields
    <3>1. pc = "content" /\ k <= Len(tmd.contents) /\ tmd' = tmd
      BY <1>2 DEF ReadContent
    <3>2. /\ live = Owned \union Files /\ ~bad
          /\ fields \subseteq Parts \union Arrays \union Buffers(k - 1)
      BY <1>0, <3>1 DEF HeapInv, Reading
    <3>3. k \in Nat \ {0} /\ Len(tmd.contents) \in Nat
      BY <1>0 DEF TypeOK
    <3> QED BY <3>1, <3>2, <3>3 DEF AllFields, Buffers
  <2>2. Enc(k) \notin fields /\ Dec(k) \notin fields
    <3>1. /\ Buffers(k) \intersect (Parts \union Arrays) = {}
          /\ Enc(k) \notin Buffers(k - 1) /\ Dec(k) \notin Buffers(k - 1)
      <4>1. k - 1 \in Nat /\ (k - 1) + 1 = k /\ k \in Nat
        BY <2>1
      <4>2. Enc((k - 1) + 1) \notin Buffers(k - 1) /\ Dec((k - 1) + 1) \notin Buffers(k - 1)
        BY <4>1, Apart
      <4> QED BY <4>1, <4>2, Apart
    <3>2. {Enc(k), Dec(k)} \subseteq Buffers(k)
      BY <2>1 DEF Buffers
    <3> QED BY <2>1, <3>1, <3>2
  <2>3. /\ Buffers(k) \subseteq AllFields
        /\ Buffers(k - 1) \union {Enc(k), Dec(k)} = Buffers(k)
    BY <2>1 DEF Buffers, AllFields
  <2>4. PICK got \in SUBSET {Enc(k), Dec(k)} :
          /\ Alloc(got) /\ fields' = fields \union got
          /\ \/ pc' = "content" /\ k' = k + 1
             \/ pc' = "err"
    BY <1>2 DEF ReadContent, Err
  <2>5. got \intersect live = {}
    BY <2>1, <2>2, <2>3, Apart DEF Owned
  <2>6. ~bad' /\ live' = Owned' \union Files /\ fields' \subseteq AllFields'
    BY <1>0, <2>1, <2>3, <2>4, <2>5, AllocOK DEF Owned, HeapInv
  <2>7. CASE pc' = "content" /\ k' = k + 1
    <3>1. fields' \subseteq Parts \union Arrays \union Buffers(k' - 1)
      BY <2>1, <2>3, <2>4, <2>7
    <3> QED BY <2>6, <2>7, <3>1, IntoReading DEF Reading
  <2> QED BY <2>4, <2>6, <2>7, IntoErr
<1> QED BY <1>1, <1>2

\* All of the reader: on its way out, with success or not, nothing is lost.
LEMMA HeapRead ==
  ASSUME InstallInv, ReadWad
  PROVE  HeapInv'
<1>0. HeapInv /\ PointInv
  BY DEF InstallInv
<1>1. CASE LoadCerts \/ LoadCrl \/ LoadTicket \/ LoadTmd
  <2>1. CASE pc = "crl" /\ pc' = "ticket" /\ UNCHANGED <<heapVars, tmd>>
    BY <1>0, <2>1, IntoReading
       DEF HeapInv, Reading, heapVars, Owned, Before, AllFields, Buffers
  <2> QED BY <1>1, <2>1, HeapPart DEF LoadCerts, LoadCrl, LoadTicket, LoadTmd, Go
<1>2. CASE CheckTitle \/ DecryptIOS \/ CheckHashes
  <2>1. /\ pc \in {"title", "content", "check"} /\ UNCHANGED <<heapVars, tmd>>
        /\ \/ pc = "title" /\ pc' = "count"
           \/ pc = "content" /\ pc' = "check"
           \/ pc = "check" /\ pc' = "out" /\ ret' = ret
           \/ pc' = "err"
    BY <1>2 DEF CheckTitle, DecryptIOS, CheckHashes, Go, Err
  <2>2. /\ live' = Owned' \union Files /\ ~bad' /\ fields' \subseteq AllFields'
        /\ pc = "title" => fields' \subseteq Parts
    BY <1>0, <2>1 DEF HeapInv, Reading, heapVars, Owned, Before, AllFields, Buffers
  <2>3. CASE pc' = "out"
    <3>1. ret' = "ok"
      BY <1>0, <2>1, <2>3 DEF PointInv, Reading
    <3> QED BY <2>1, <2>2, <2>3, <3>1 DEF HeapInv, Reading, Prepared, EsCalls
  <2>4. CASE pc' \in {"count", "check"}
    BY <2>1, <2>2, <2>4, IntoReading DEF Reading, Before
  <2> QED BY <2>1, <2>2, <2>3, <2>4, IntoErr
<1>3. CASE FreeOnErr
  <2>1. PICK f \in SUBSET Files : live = Owned \union f
    BY <1>0, <1>3 DEF FreeOnErr, HeapInv
  <2>2. ~bad' /\ live' = live \ Owned /\ UNCHANGED <<fields, tmd>>
    BY <1>0, <1>3, <2>1, FreeOK DEF FreeOnErr, FreeIOS, Owned, HeapInv
  <2>3. pc' = "out" /\ ret' = "err"
    BY <1>0, <1>3 DEF FreeOnErr, Go, PointInv
  <2> QED BY <1>0, <2>1, <2>2, <2>3
          DEF HeapInv, Reading, Prepared, EsCalls, AllFields, Buffers
<1>4. CASE CloseWad
  <2>1. Free(Files \intersect live) /\ UNCHANGED <<fields, tmd>> /\ ~bad
    BY <1>0, <1>4 DEF CloseWad, Files, HeapInv
  <2>2. ~bad' /\ live' = live \ Files
    BY <2>1, FreeOK
  <2>3. fields' \subseteq AllFields' /\ Owned' = Owned
    BY <1>0, <2>1 DEF HeapInv, AllFields, Buffers, Owned
  <2>4. CASE ret = "ok"
    <3>1. live = Owned \union Files
      BY <1>0, <1>4, <2>4 DEF CloseWad, HeapInv
    <3>2. live' = Owned' /\ pc' = "read"
      BY <1>0, <1>4, <2>2, <2>3, <2>4, <3>1, Apart DEF CloseWad, Go, Owned, HeapInv
    <3> QED BY <2>2, <2>3, <3>2 DEF HeapInv, Reading, Prepared, EsCalls
  <2>5. CASE ret # "ok"
    <3>1. live' = {} /\ pc' \in {"init", "return"}
      BY <1>0, <1>4, <2>2, <2>5 DEF CloseWad, HeapInv, Go, Return
    <3> QED BY <2>2, <2>3, <3>1 DEF HeapInv, Reading, Prepared, EsCalls
  <2> QED BY <2>4, <2>5
<1>5. CASE InitIOS \/ OpenWad \/ ReadHeader
  BY <1>5, HeapOpening
<1>6. CASE SetContentCount \/ ReadContent
  BY <1>6, HeapContents
<1> QED BY <1>1, <1>2, <1>3, <1>4, <1>5, <1>6 DEF ReadWad

\* A step keeps the heap in order.
LEMMA HeapStep == InstallInv /\ [Next]_vars => HeapInv'
<1> SUFFICES ASSUME InstallInv, [Next]_vars PROVE HeapInv'
  OBVIOUS
<1>0. HeapInv /\ TypeOK
  BY DEF InstallInv
<1>1. ASSUME pc \in Prepared, pc' = "return", FreeIOS, tmd' = tmd
      PROVE  HeapInv'
  <2>1. ~bad' /\ live' = {} /\ fields' = fields
    BY <1>0, <1>1, FreeOK DEF FreeIOS, HeapInv, Owned
  <2> QED BY <1>0, <1>1, <2>1 DEF HeapInv, Reading, Prepared, EsCalls, AllFields, Buffers
<1>2. ASSUME pc \in Prepared, pc' \in Prepared, UNCHANGED heapVars,
             Len(tmd'.contents) = Len(tmd.contents)
      PROVE  HeapInv'
  <2>1. live = Owned /\ live' = Owned' /\ fields' = fields /\ bad' = bad
        /\ AllFields' = AllFields
    BY <1>0, <1>2 DEF HeapInv, heapVars, Owned, AllFields, Buffers
  <2> QED BY <1>0, <1>2, <2>1 DEF HeapInv, Reading, Prepared, EsCalls
<1>3. CASE ReadWad
  BY <1>3, HeapRead
<1>4. CASE Prepare
  <2>1. CASE FindModule \/ Confirm \/ NoMemoryForPatched
    BY <1>1, <1>2, <2>1 DEF FindModule, Confirm, NoMemoryForPatched, Go, Return, Prepared, EsCalls
  <2>2. CASE PatchFails
    <3>1. live = Owned /\ ~bad /\ ~bad' /\ live' \subseteq {B("outbuf")}
          /\ UNCHANGED <<fields, tmd>> /\ pc' = "return"
      BY <1>0, <2>2 DEF PatchFails, HeapInv, Owned, Prepared, Return
    <3> QED BY <1>0, <3>1 DEF HeapInv, Reading, Prepared, EsCalls, AllFields, Buffers
  <2>3. CASE PatchModule
    <3>1. Len(tmd'.contents) = Len(tmd.contents)
      BY <1>0, <2>3 DEF PatchModule, TypeOK
    <3> QED BY <1>2, <2>3, <3>1 DEF PatchModule, Go, Prepared
  <2>4. CASE SetRevision \/ ForgeTmd \/ EncryptIOS
    <3>1. tmd'.contents = tmd.contents
      BY <1>0, <2>4 DEF SetRevision, ForgeTmd, EncryptIOS, TypeOK
    <3> QED BY <1>2, <2>4, <3>1 DEF SetRevision, ForgeTmd, EncryptIOS, Go, Prepared, EsCalls
  <2> QED BY <1>4, <2>1, <2>2, <2>3, <2>4 DEF Prepare
<1>5. CASE InstallIOS
  <2>1. CASE EsRefuses \/ Succeed
    BY <1>1, <2>1 DEF EsRefuses, Succeed, Return, Prepared
  <2>2. CASE ~EsRefuses /\ ~Succeed
    BY <1>2, <1>5, <2>2 DEF InstallIOS, AddTicket, AddTitleStart, AddContentStart, AddContentData,
       AddContentFinish, AddTitleFinish, Go, Prepared, EsCalls
  <2> QED BY <2>1, <2>2
<1>6. CASE InitUsb
  BY <1>0, <1>6 DEF InitUsb, HeapInv, heapVars, Go, Return, Reading, Prepared, EsCalls,
     AllFields, Buffers
<1>7. CASE PowerCut \/ Again
  <2>1. pc' \in {"off", "usb"} /\ live' = {} /\ fields' = {} /\ ~bad'
    BY <1>0, <1>7 DEF PowerCut, Again, HeapInv
  <2> QED BY <2>1 DEF HeapInv, Reading, Prepared, EsCalls
<1>8. CASE UNCHANGED vars
  BY <1>0, <1>8 DEF vars, heapVars, HeapInv, Owned, AllFields, Buffers, Before
<1> QED BY <1>3, <1>4, <1>5, <1>6, <1>7, <1>8 DEF Next

----------------------------------------------------------------------------
(* The contents                                                            *)

\* The steps that leave the contents and the TMD's list of them alone.
LEMMA ContentQuiet ==
  ASSUME InstallInv, conts' = conts, tmd'.contents = tmd.contents,
         \/ pc' \notin {"content", "check"} /\ ~Checked'
         \/ /\ Checked /\ pc' \notin {"content", "check"}
            /\ pc' \in {"out", "read", "confirm"} \union EsCalls
                 => pc \in {"out", "read", "confirm"} \union EsCalls
  PROVE  ContentInv'
BY DEF InstallInv, ContentInv

\* Nothing has to be known of no contents.
LEMMA ContentNone ==
  ASSUME conts' = << >>
  PROVE  ContentInv'
BY DEF ContentInv

\* A content is read into buffers that are as large as it is.
LEMMA ContentRead ==
  ASSUME InstallInv, ReadContent
  PROVE  ContentInv'
<1>1. /\ pc = "content" /\ Len(conts) = k - 1 /\ k \in Nat /\ k <= Len(tmd.contents)
      /\ conts \in Seq(CtType) /\ tmd' = tmd
      /\ tmd.contents[k] \in EntryType
  <2>1. pc = "content" /\ k <= Len(tmd.contents) /\ tmd' = tmd
    BY DEF ReadContent
  <2>2. Len(conts) = k - 1 /\ k \in Nat /\ k >= 1 /\ conts \in Seq(CtType)
    BY <2>1 DEF InstallInv, TypeOK, CountInv, CtType
  <2>3. tmd.contents \in Seq(EntryType)
    BY DEF InstallInv, TypeOK, EntryType
  <2> QED BY <2>1, <2>2, <2>3
<1>2. tmd.contents[k].index = wad.contents[k].index
  BY <1>1 DEF InstallInv, TmdInv, TypeOK
<1>3. CASE conts' = conts /\ pc' = "err"
  BY <1>1, <1>3, ContentQuiet DEF Checked, Prepared, EsCalls
<1>4. ASSUME NEW d, pc' = pc,
             LET s == RoundUp(tmd.contents[k].size, 4)
             IN  conts' = Append(conts,
                   [size |-> s, encCap |-> s, decCap |-> s, dec |-> Junk,
                    enc |-> [iv |-> wad.contents[k].index, data |-> d]])
      PROVE  ContentInv'
  <2> DEFINE s == RoundUp(tmd.contents[k].size, 4)
  <2> DEFINE e == [size |-> s, encCap |-> s, decCap |-> s, dec |-> Junk,
                   enc |-> [iv |-> wad.contents[k].index, data |-> d]]
  <2>1. s \in Nat /\ tmd.contents[k].size <= s
    BY <1>1, RoundUpBounds DEF EntryType
  <2>2. conts' = Append(conts, e)
    BY <1>4
  <2> HIDE DEF s
  <2>3. /\ DOMAIN conts' = DOMAIN conts \union {k} /\ conts'[k] = e
        /\ \A c \in DOMAIN conts : conts'[c] = conts[c]
    BY <1>1, <2>2
  <2>4. pc' = "content" /\ ~Checked'
    BY <1>1, <1>4 DEF Checked, Prepared, EsCalls
  <2>5. \A c \in DOMAIN conts :
          /\ conts[c].size <= conts[c].encCap /\ conts[c].size <= conts[c].decCap
          /\ tmd.contents[c].size <= conts[c].size
          /\ conts[c].enc.iv = tmd.contents[c].index
    BY <1>1 DEF InstallInv, ContentInv
  <2> QED BY <1>1, <1>2, <2>1, <2>3, <2>4, <2>5 DEF ContentInv
<1> QED BY <1>3, <1>4 DEF ReadContent, Err

\* Decryption puts plain data beside the encrypted.
LEMMA ContentDecrypt ==
  ASSUME InstallInv, DecryptIOS
  PROVE  ContentInv'
<1>1. /\ pc = "content" /\ pc' = "check" /\ tmd' = tmd /\ conts \in Seq(CtType)
      /\ DOMAIN conts' = DOMAIN conts
  BY DEF DecryptIOS, InstallInv, TypeOK, CtType, Go
<1>2. \A c \in DOMAIN conts :
        /\ conts'[c].size = conts[c].size /\ conts'[c].encCap = conts[c].encCap
        /\ conts'[c].decCap = conts[c].decCap /\ conts'[c].enc = conts[c].enc
        /\ conts'[c].dec = Decrypted(conts[c].enc, c - 1)
  <2> SUFFICES ASSUME NEW c \in DOMAIN conts
               PROVE  /\ conts'[c].size = conts[c].size /\ conts'[c].encCap = conts[c].encCap
                      /\ conts'[c].decCap = conts[c].decCap /\ conts'[c].enc = conts[c].enc
                      /\ conts'[c].dec = Decrypted(conts[c].enc, c - 1)
    OBVIOUS
  <2>1. conts[c] \in CtType
    BY <1>1
  <2>2. conts'[c] = [conts[c] EXCEPT !.dec = Decrypted(conts[c].enc, c - 1)]
    BY DEF DecryptIOS
  <2> QED BY <2>1, <2>2 DEF CtType
<1>3. ~Checked'
  BY <1>1 DEF Checked, Prepared, EsCalls
<1> QED BY <1>1, <1>2, <1>3 DEF InstallInv, ContentInv

\* A hash that is right was taken of data decrypted with the right IV.
LEMMA ContentCheck ==
  ASSUME InstallInv, CheckHashes
  PROVE  ContentInv'
<1>1. pc = "check" /\ tmd' = tmd /\ conts' = conts /\ conts \in Seq(CtType)
      /\ Len(conts) <= Len(tmd.contents) /\ tmd.contents \in Seq(EntryType)
  BY DEF CheckHashes, InstallInv, TypeOK, CtType, EntryType
<1>2. CASE pc' = "err"
  BY <1>1, <1>2, ContentQuiet DEF Checked, Prepared, EsCalls
<1>3. CASE pc' = "out" /\ \A c \in DOMAIN conts : conts[c].dec = tmd.contents[c].hash
  <2>1. ASSUME NEW c \in DOMAIN conts
        PROVE  /\ tmd.contents[c].index = c - 1
               /\ conts[c].enc = [iv |-> c - 1, data |-> conts[c].dec]
    <3>1. conts[c].dec # Junk /\ conts[c].enc \in [iv : Nat, data : Data]
      <4>1. conts[c] \in CtType /\ tmd.contents[c] \in EntryType
        BY <1>1
      <4> QED BY <1>3, <4>1 DEF EntryType, CtType
    <3>2. /\ conts[c].dec = Decrypted(conts[c].enc, c - 1)
          /\ conts[c].enc.iv = tmd.contents[c].index
      BY <1>1 DEF InstallInv, ContentInv
    <3>3. conts[c].enc.iv = c - 1 /\ conts[c].enc.data = conts[c].dec
      BY <3>1, <3>2 DEF Decrypted
    <3> QED BY <3>1, <3>2, <3>3
  <2> QED BY <1>1, <1>3, <2>1 DEF InstallInv, ContentInv
<1> QED BY <1>2, <1>3 DEF CheckHashes, Go, Err

\* The patched module fits the buffers it has then, and the TMD has its hash.
LEMMA ContentPatch ==
  ASSUME InstallInv, PatchModule
  PROVE  ContentInv'
<1> DEFINE m == Module
<1>1. /\ pc = "patch" /\ pc' = "revision" /\ conts \in Seq(CtType)
      /\ tmd.contents \in Seq(EntryType) /\ Len(conts) = Len(tmd.contents)
  <2>1. pc = "patch" /\ pc' = "revision"
    BY DEF PatchModule, Go
  <2>2. conts \in Seq(CtType) /\ tmd.contents \in Seq(EntryType)
    BY DEF InstallInv, TypeOK, CtType, EntryType
  <2>3. Len(conts) = Len(tmd.contents)
    BY <2>1 DEF InstallInv, CountInv, Checked, Prepared
  <2> QED BY <2>1, <2>2, <2>3
<1>2. PICK s \in PatchedSizes :
        LET new == Patched(conts[m], s)
        IN  /\ conts' = [conts EXCEPT ![m] = new]
            /\ tmd' = [tmd EXCEPT !.contents[m].size = new.size,
                                  !.contents[m].hash = new.dec,
                                  !.sig = "stale"]
  BY DEF PatchModule
<1> DEFINE new == Patched(conts[m], s)
<1> HIDE DEF m
<1>3. /\ conts' = [conts EXCEPT ![m] = new]
      /\ tmd'.contents = [tmd.contents EXCEPT ![m] =
                            [tmd.contents[m] EXCEPT !.size = new.size, !.hash = new.dec]]
  BY <1>2 DEF InstallInv, TypeOK
<1>4. Checked
  BY <1>1 DEF Checked, Prepared
<1>5. \A c \in DOMAIN conts :
        /\ conts[c].size <= conts[c].encCap /\ conts[c].size <= conts[c].decCap
        /\ tmd.contents[c].size <= conts[c].size
        /\ tmd.contents[c].index = c - 1 /\ conts[c].dec = tmd.contents[c].hash
  BY <1>4 DEF InstallInv, ContentInv
<1>6. /\ DOMAIN conts' = DOMAIN conts /\ DOMAIN tmd'.contents = DOMAIN tmd.contents
      /\ \A c \in DOMAIN conts \ {m} : /\ conts'[c] = conts[c]
                                      /\ tmd'.contents[c] = tmd.contents[c]
  BY <1>1, <1>3
<1>7. ASSUME m \in DOMAIN conts
      PROVE  /\ conts'[m].size <= conts'[m].encCap /\ conts'[m].size <= conts'[m].decCap
             /\ tmd'.contents[m].size <= conts'[m].size
             /\ tmd'.contents[m].index = m - 1 /\ conts'[m].dec = tmd'.contents[m].hash
  <2>1. conts[m] \in CtType /\ tmd.contents[m] \in EntryType /\ s \in Nat
    BY <1>1, <1>7, WadAssumption
  <2>2. /\ new.size = RoundUp(s, 2) /\ new.decCap = RoundUp(s, 4)
        /\ new.encCap = IF RoundUp(s, 2) > conts[m].size THEN RoundUp(s, 2)
                        ELSE conts[m].encCap
    BY <2>1 DEF Patched, CtType
  <2>3. conts'[m] = new
    BY <1>3, <1>7
  <2>4. /\ tmd'.contents[m].size = new.size /\ tmd'.contents[m].hash = new.dec
        /\ tmd'.contents[m].index = tmd.contents[m].index
    BY <1>1, <1>3, <1>7, <2>1 DEF EntryType
  <2>5. new.size <= new.encCap /\ new.size <= new.decCap
    BY <1>5, <1>7, <2>1, <2>2, RoundUpBounds DEF CtType
  <2>6. new.size <= new.size
    BY <2>1, <2>2, RoundUpBounds
  <2> QED BY <1>5, <1>7, <2>3, <2>4, <2>5, <2>6
<1> QED BY <1>1, <1>5, <1>6, <1>7 DEF ContentInv, EsCalls

\* Encryption makes the two buffers agree again.
LEMMA ContentEncrypt ==
  ASSUME InstallInv, EncryptIOS
  PROVE  ContentInv'
<1>1. /\ pc = "encrypt" /\ pc' = "addTicket" /\ tmd' = tmd /\ conts \in Seq(CtType)
      /\ DOMAIN conts' = DOMAIN conts /\ Checked
  BY DEF EncryptIOS, InstallInv, TypeOK, CtType, Go, Checked, Prepared
<1>2. ASSUME NEW c \in DOMAIN conts
      PROVE  /\ conts'[c].size = conts[c].size /\ conts'[c].encCap = conts[c].encCap
             /\ conts'[c].decCap = conts[c].decCap /\ conts'[c].dec = conts[c].dec
             /\ conts'[c].enc = [iv |-> c - 1, data |-> conts'[c].dec]
  <2>1. conts[c] \in CtType
    <3>1. conts \in Seq(CtType)
      BY <1>1
    <3> QED BY <1>2, <3>1
  <2>2. conts'[c] = [conts[c] EXCEPT !.enc = [iv |-> c - 1, data |-> conts[c].dec]]
    BY <1>2 DEF EncryptIOS
  <2> QED BY <2>1, <2>2 DEF CtType
<1> QED BY <1>1, <1>2 DEF InstallInv, ContentInv

\* A step keeps what is known of the contents.
LEMMA ContentStep == InstallInv /\ [Next]_vars => ContentInv'
<1> SUFFICES ASSUME InstallInv, [Next]_vars PROVE ContentInv'
  OBVIOUS
<1>1. CASE ReadWad
  <2>1. CASE InitIOS \/ LoadTmd \/ SetContentCount
    <3>1. conts' = conts \/ conts' = << >>
      BY <2>1 DEF InitIOS, LoadTmd, LoadPart, SetContentCount
    <3>2. CASE LoadTmd \/ SetContentCount
      <4>1. conts = << >>
        BY <3>2 DEF LoadTmd, LoadPart, SetContentCount, InstallInv, CountInv
      <4> QED BY <3>1, <4>1, ContentNone
    <3>3. CASE InitIOS
      BY <3>3, ContentNone DEF InitIOS
    <3> QED BY <2>1, <3>2, <3>3
  <2>2. CASE OpenWad \/ ReadHeader \/ LoadCerts \/ LoadCrl \/ LoadTicket \/ CheckTitle
             \/ FreeOnErr
    BY <2>2, ContentQuiet
       DEF OpenWad, ReadHeader, LoadCerts, LoadCrl, LoadTicket, LoadPart, CheckTitle,
           FreeOnErr, Go, Err, Checked, Prepared, EsCalls, InstallInv, PointInv
  <2>3. CASE CloseWad
    BY <2>3, ContentQuiet DEF CloseWad, Go, Return, Checked, Prepared, EsCalls
  <2> QED BY <1>1, <2>1, <2>2, <2>3, ContentRead, ContentDecrypt, ContentCheck DEF ReadWad
<1>2. CASE Prepare
  <2>1. CASE FindModule \/ PatchFails \/ NoMemoryForPatched \/ Confirm
    BY <2>1, ContentQuiet
       DEF FindModule, PatchFails, NoMemoryForPatched, Confirm, Go, Return, Checked,
           Prepared, EsCalls
  <2>2. CASE SetRevision \/ ForgeTmd
    <3>1. tmd'.contents = tmd.contents
      BY <2>2 DEF SetRevision, ForgeTmd, InstallInv, TypeOK
    <3> QED BY <2>2, <3>1, ContentQuiet DEF SetRevision, ForgeTmd, Go, Checked, Prepared, EsCalls
  <2> QED BY <1>2, <2>1, <2>2, ContentPatch, ContentEncrypt DEF Prepare
<1>3. CASE InstallIOS
  <2>1. /\ conts' = conts /\ tmd' = tmd /\ pc \in EsCalls \union {"installed"}
        /\ pc' \in EsCalls \union {"installed", "return"}
        /\ pc' \in EsCalls => pc \in EsCalls
    BY <1>3 DEF InstallIOS, AddTicket, AddTitleStart, AddContentStart, AddContentData,
       AddContentFinish, AddTitleFinish, EsRefuses, Succeed, EsCalls, Go, Return
  <2> QED BY <2>1, ContentQuiet DEF Checked, Prepared, EsCalls
<1>4. CASE InitUsb \/ PowerCut
  BY <1>4, ContentQuiet DEF InitUsb, PowerCut, Go, Return, Checked, Prepared, EsCalls
<1>5. CASE Again
  BY <1>5, ContentNone DEF Again
<1>6. CASE UNCHANGED vars
  BY <1>6 DEF vars, InstallInv, ContentInv, Checked
<1> QED BY <1>1, <1>2, <1>3, <1>4, <1>5, <1>6 DEF Next

----------------------------------------------------------------------------
(* Types                                                                   *)

\* The result, the arguments, the attempt, the WAD and the number of runs.
LEMMA TypeOfScalars ==
  ASSUME InstallInv, [Next]_vars
  PROVE  /\ ret' \in {"ok", "err"} /\ call' \in Calls /\ attempt' \in Attempts
         /\ wad' \in Wads /\ runs' \in Nat
<1> USE DEF Attempts, args, Go, Err, Return
<1>0. /\ ret \in {"ok", "err"} /\ call \in Calls /\ attempt \in 1..3
      /\ wad \in Wads /\ runs \in Nat
  BY DEF InstallInv, TypeOK
<1>1. CASE ReadWad
  BY <1>0, <1>1 DEF ReadWad, InitIOS, OpenWad, ReadHeader, LoadCerts, LoadCrl, LoadTicket,
                    LoadTmd, LoadPart,
     CheckTitle, SetContentCount, ReadContent, DecryptIOS, CheckHashes, FreeOnErr, CloseWad
<1>2. CASE Prepare
  BY <1>0, <1>2 DEF Prepare, FindModule, PatchFails, PatchModule, NoMemoryForPatched, SetRevision,
     ForgeTmd, EncryptIOS, Confirm
<1>3. CASE InstallIOS
  BY <1>0, <1>3 DEF InstallIOS, AddTicket, AddTitleStart, AddContentStart, AddContentData,
     AddContentFinish, AddTitleFinish, EsRefuses, Succeed
<1>4. CASE InitUsb \/ PowerCut \/ Again
  BY <1>0, <1>4 DEF InitUsb, PowerCut, Again
<1>5. CASE UNCHANGED vars
  BY <1>0, <1>5 DEF vars
<1> QED BY <1>1, <1>2, <1>3, <1>4, <1>5 DEF Next

\* ES's import.
LEMMA TypeOfEs ==
  ASSUME InstallInv, [Next]_vars
  PROVE  es' \in [open : BOOLEAN, given : Seq(Data)]
<1> USE DEF esVars, Go, Err, Return
<1>0. es \in [open : BOOLEAN, given : Seq(Data)] /\ Closed \in [open : BOOLEAN, given : Seq(Data)]
  BY DEF InstallInv, TypeOK, Closed
<1>1. CASE ReadWad
  BY <1>0, <1>1 DEF ReadWad, InitIOS, OpenWad, ReadHeader, LoadCerts, LoadCrl, LoadTicket,
                    LoadTmd, LoadPart,
     CheckTitle, SetContentCount, ReadContent, DecryptIOS, CheckHashes, FreeOnErr, CloseWad
<1>2. CASE Prepare
  BY <1>0, <1>2 DEF Prepare, FindModule, PatchFails, PatchModule, NoMemoryForPatched, SetRevision,
     ForgeTmd, EncryptIOS, Confirm
<1>3. CASE InstallIOS
  <2>1. CASE AddContentFinish
    <3>1. pc = "finish" /\ Delivered(k) = tmd.contents[k].hash
      BY <2>1 DEF AddContentFinish, Acceptable
    <3>2. tmd.contents \in Seq(EntryType)
      BY DEF InstallInv, TypeOK, EntryType
    <3>3. k \in Nat /\ 1 <= k /\ k <= Len(tmd.contents)
      <4>1. k \in Nat /\ 1 <= k /\ Len(conts) <= Len(tmd.contents) /\ conts \in Seq(CtType)
        BY <3>2 DEF InstallInv, TypeOK, CtType
      <4>2. k <= Len(conts)
        BY <3>1 DEF InstallInv, CountInv
      <4> QED BY <3>2, <4>1, <4>2
    <3>4. tmd.contents[k] \in EntryType
      BY <3>2, <3>3
    <3>5. Delivered(k) \in Data
      BY <3>1, <3>4 DEF EntryType
    <3>6. es' = [es EXCEPT !.given = Append(es.given, Delivered(k))]
      BY <2>1 DEF AddContentFinish
    <3>7. es.given \in Seq(Data) /\ es.open \in BOOLEAN
      BY <1>0
    <3>8. Append(es.given, Delivered(k)) \in Seq(Data)
      BY <3>5, <3>7
    <3>9. es' = [open |-> es.open, given |-> Append(es.given, Delivered(k))]
      BY <1>0, <3>6
    <3> QED BY <3>7, <3>8, <3>9
  <2>2. CASE AddTitleStart
    <3>1. es' = Closed \/ es' = [open |-> TRUE, given |-> << >>]
      BY <2>2 DEF AddTitleStart
    <3>2. [open |-> TRUE, given |-> << >>] \in [open : BOOLEAN, given : Seq(Data)]
      OBVIOUS
    <3> QED BY <1>0, <3>1, <3>2
  <2>3. CASE AddTitleFinish \/ EsRefuses
    BY <1>0, <2>3 DEF AddTitleFinish, EsRefuses
  <2>4. CASE AddTicket \/ AddContentStart \/ AddContentData \/ Succeed
    BY <1>0, <2>4 DEF AddTicket, AddContentStart, AddContentData, Succeed
  <2> QED BY <1>3, <2>1, <2>2, <2>3, <2>4 DEF InstallIOS
<1>4. CASE InitUsb \/ PowerCut \/ Again \/ UNCHANGED vars
  BY <1>0, <1>4 DEF InitUsb, PowerCut, Again, vars
<1> QED BY <1>1, <1>2, <1>3, <1>4 DEF Next

\* The contents.
LEMMA TypeOfConts ==
  ASSUME InstallInv, [Next]_vars
  PROVE  conts' \in Seq(CtType)
<1>0. conts \in Seq(CtType) /\ tmd.contents \in Seq(EntryType)
  BY DEF InstallInv, TypeOK, CtType, EntryType
<1>1. CASE conts' = conts \/ conts' = << >>
  <2>1. << >> \in Seq(CtType)
    OBVIOUS
  <2> QED BY <1>0, <1>1, <2>1
<1>2. CASE ReadContent
  <2>1. tmd.contents[k] \in EntryType
    <3>1. k \in Nat \ {0} /\ k <= Len(tmd.contents)
      BY <1>2 DEF ReadContent, InstallInv, TypeOK
    <3> QED BY <1>0, <3>1
  <2>2. wad.contents[k].index \in Nat /\ wad.contents[k].data \in Data /\ Junk \in Data
    <3>1. wad \in Wads /\ k \in DOMAIN wad.contents
      <4>1. pc = "content" /\ k <= Len(tmd.contents) /\ k \in Nat \ {0}
        BY <1>2 DEF ReadContent, InstallInv, TypeOK
      <4> QED BY <1>0, <4>1 DEF InstallInv, TypeOK, TmdInv
    <3>2. wad.contents \in Seq([index : Nat, size : Nat, data : Data \ {Junk},
                                hash : Data \ {Junk}])
      BY <3>1, WadAssumption
    <3>3. wad.contents[k] \in [index : Nat, size : Nat, data : Data \ {Junk},
                              hash : Data \ {Junk}]
      BY <3>1, <3>2, SeqOps
    <3> QED BY <3>3 DEF Junk, Data
  <2>3. RoundUp(tmd.contents[k].size, 4) \in Nat
    BY <2>1, RoundUpBounds DEF EntryType
  <2>4. CASE \E d \in {wad.contents[k].data, Junk} :
               conts' = Append(conts,
                   [size |-> RoundUp(tmd.contents[k].size, 4),
                    encCap |-> RoundUp(tmd.contents[k].size, 4),
                    decCap |-> RoundUp(tmd.contents[k].size, 4), dec |-> Junk,
                    enc |-> [iv |-> wad.contents[k].index, data |-> d]])
    BY <1>0, <2>2, <2>3, <2>4 DEF CtType
  <2> QED BY <1>1, <1>2, <2>4 DEF ReadContent
<1>3. CASE DecryptIOS
  <2>1. ASSUME NEW c \in DOMAIN conts
        PROVE  [conts[c] EXCEPT !.dec = Decrypted(conts[c].enc, c - 1)] \in CtType
    <3>1. conts[c] \in CtType
      BY <1>0, <2>1
    <3> QED BY <3>1 DEF CtType, Decrypted, Junk, Data
  <2>2. conts' = [c \in DOMAIN conts |->
                   [conts[c] EXCEPT !.dec = Decrypted(conts[c].enc, c - 1)]]
    BY <1>3 DEF DecryptIOS
  <2> QED BY <1>0, <2>1, <2>2, SeqMapType
<1>4. CASE EncryptIOS
  <2>1. ASSUME NEW c \in DOMAIN conts
        PROVE  [conts[c] EXCEPT !.enc = [iv |-> c - 1, data |-> conts[c].dec]] \in CtType
    <3>1. conts[c] \in CtType /\ c - 1 \in Nat
      BY <1>0, <2>1
    <3> QED BY <3>1 DEF CtType
  <2>2. conts' = [c \in DOMAIN conts |->
                   [conts[c] EXCEPT !.enc = [iv |-> c - 1, data |-> conts[c].dec]]]
    BY <1>4 DEF EncryptIOS
  <2> QED BY <1>0, <2>1, <2>2, SeqMapType
<1>5. CASE PatchModule
  <2>1. PICK s \in PatchedSizes :
          conts' = [conts EXCEPT ![Module] = Patched(conts[Module], s)]
    BY <1>5 DEF PatchModule
  <2>2. ASSUME Module \in DOMAIN conts
        PROVE  Patched(conts[Module], s) \in CtType
    <3>1. conts[Module] \in CtType /\ s \in Nat
      BY <1>0, <2>2, WadAssumption
    <3> QED BY <3>1, RoundUpBounds DEF CtType, Patched, Data
  <2> QED BY <1>0, <2>1, <2>2, SeqExcept
<1>6. CASE ReadWad
  BY <1>1, <1>2, <1>3, <1>6
     DEF ReadWad, InitIOS, OpenWad, ReadHeader, LoadCerts, LoadCrl, LoadTicket, LoadTmd,
         LoadPart, CheckTitle, SetContentCount, CheckHashes, FreeOnErr, CloseWad
<1>7. CASE Prepare
  BY <1>1, <1>4, <1>5, <1>7 DEF Prepare, FindModule, PatchFails, NoMemoryForPatched,
     SetRevision, ForgeTmd, Confirm
<1>8. CASE InstallIOS
  BY <1>1, <1>8 DEF InstallIOS, AddTicket, AddTitleStart, AddContentStart, AddContentData,
     AddContentFinish, AddTitleFinish, EsRefuses, Succeed
<1>9. CASE InitUsb \/ PowerCut \/ Again \/ UNCHANGED vars
  BY <1>1, <1>9 DEF InitUsb, PowerCut, Again, vars
<1> QED BY <1>6, <1>7, <1>8, <1>9 DEF Next

\* The TMD.
LEMMA TypeOfTmd ==
  ASSUME InstallInv, [Next]_vars
  PROVE  tmd' \in TmdType
<1>0. tmd \in TmdType /\ NoTmd \in TmdType
  <2>1. tmd \in TmdType
    BY DEF InstallInv, TypeOK, TmdType, EntryType
  <2>2. << >> \in Seq(EntryType)
    OBVIOUS
  <2> QED BY <2>1, <2>2 DEF NoTmd, TmdType
<1>1. CASE tmd' = tmd \/ tmd' = NoTmd
  BY <1>0, <1>1
<1>2. CASE LoadTmd
  <2> DEFINE cs == [c \in DOMAIN wad.contents |->
                     [index |-> wad.contents[c].index, size |-> wad.contents[c].size,
                      hash |-> wad.contents[c].hash]]
  <2>1. wad.contents \in Seq([index : Nat, size : Nat, data : Data \ {Junk},
                              hash : Data \ {Junk}])
    BY WadAssumption DEF InstallInv, TypeOK
  <2>2. ASSUME NEW c \in DOMAIN wad.contents PROVE cs[c] \in EntryType
    <3>1. wad.contents[c] \in [index : Nat, size : Nat, data : Data \ {Junk},
                              hash : Data \ {Junk}]
      BY <2>1, <2>2, SeqOps
    <3>2. cs[c] = [index |-> wad.contents[c].index, size |-> wad.contents[c].size,
                   hash |-> wad.contents[c].hash]
      BY <2>2
    <3> HIDE DEF cs
    <3> QED BY <3>1, <3>2 DEF EntryType
  <2>3. cs = [c \in DOMAIN wad.contents |-> cs[c]]
    OBVIOUS
  <2> HIDE DEF cs
  <2>4. cs \in Seq(EntryType)
    <3> DEFINE R == [index : Nat, size : Nat, data : Data \ {Junk}, hash : Data \ {Junk}]
    <3>1. wad.contents \in Seq(R)
      BY <2>1
    <3>2. \A c \in DOMAIN wad.contents : cs[c] \in EntryType
      BY <2>2
    <3> HIDE DEF R
    <3> QED BY <2>3, <3>1, <3>2, SeqMapType
  <2>5. [NoTmd EXCEPT !.contents = cs] \in TmdType
    BY <1>0, <2>4 DEF TmdType
  <2> QED BY <1>0, <1>2, <2>5 DEF LoadTmd, cs
<1>3. CASE PatchModule
  <2>1. PICK s \in PatchedSizes :
          tmd' = [tmd EXCEPT !.contents[Module].size = Patched(conts[Module], s).size,
                             !.contents[Module].hash = Patched(conts[Module], s).dec,
                             !.sig = "stale"]
    BY <1>3 DEF PatchModule
  <2> DEFINE new == Patched(conts[Module], s)
             entry == [tmd.contents[Module] EXCEPT !.size = new.size, !.hash = new.dec]
  <2>2. ASSUME Module \in DOMAIN tmd.contents
        PROVE  entry \in EntryType
    <3>1. Module \in DOMAIN conts
      <4>1. Len(conts) = Len(tmd.contents)
        BY <1>3 DEF PatchModule, InstallInv, CountInv, Checked, Prepared
      <4> QED BY <1>0, <2>2, <4>1 DEF InstallInv, TypeOK, TmdType
    <3>2. conts[Module] \in CtType /\ tmd.contents[Module] \in EntryType /\ s \in Nat
      <4>1. conts \in Seq(CtType) /\ tmd.contents \in Seq(EntryType)
        BY <1>0 DEF InstallInv, TypeOK, CtType, TmdType
      <4> QED BY <2>2, <3>1, <4>1, SeqOps, WadAssumption
    <3>3. new.size \in Nat /\ new.dec \in Data \ {Junk}
      <4>1. new.size = RoundUp(s, 2) /\ new.dec = [conts[Module].dec EXCEPT !.patched = TRUE]
        BY <3>2 DEF Patched, CtType
      <4>2. conts[Module].dec \in Data
        BY <3>2 DEF CtType
      <4>3. RoundUp(s, 2) \in Nat
        BY <3>2, RoundUpBounds
      <4>4. [conts[Module].dec EXCEPT !.patched = TRUE] \in Data \ {Junk}
        BY <4>2 DEF Data, Junk
      <4> HIDE DEF new
      <4> QED BY <4>1, <4>3, <4>4
    <3> HIDE DEF new
    <3> QED BY <3>2, <3>3 DEF EntryType
  <2>3. tmd.contents \in Seq(EntryType)
    BY <1>0 DEF TmdType
  <2>4. /\ tmd' = [contents |-> [tmd.contents EXCEPT ![Module] = entry],
                   new |-> tmd.new, sig |-> "stale"]
    BY <1>0, <2>1 DEF TmdType
  <2> HIDE DEF entry
  <2>5. [tmd.contents EXCEPT ![Module] = entry] \in Seq(EntryType)
    BY <2>2, <2>3, SeqExcept
  <2> QED BY <1>0, <2>4, <2>5 DEF TmdType
<1>4. CASE SetRevision \/ ForgeTmd
  BY <1>0, <1>4 DEF SetRevision, ForgeTmd, TmdType
<1>5. CASE ReadWad
  BY <1>1, <1>2, <1>5
     DEF ReadWad, InitIOS, OpenWad, ReadHeader, LoadCerts, LoadCrl, LoadTicket, CheckTitle,
         SetContentCount, ReadContent, DecryptIOS, CheckHashes, FreeOnErr, CloseWad
<1>6. CASE Prepare
  BY <1>1, <1>3, <1>4, <1>6 DEF Prepare, FindModule, PatchFails, NoMemoryForPatched,
     EncryptIOS, Confirm
<1>7. CASE InstallIOS
  BY <1>1, <1>7 DEF InstallIOS, AddTicket, AddTitleStart, AddContentStart, AddContentData,
     AddContentFinish, AddTitleFinish, EsRefuses, Succeed
<1>8. CASE InitUsb \/ PowerCut \/ Again \/ UNCHANGED vars
  BY <1>1, <1>8 DEF InitUsb, PowerCut, Again, vars
<1> QED BY <1>5, <1>6, <1>7, <1>8 DEF Next

\* The loop counter and the number of contents.
LEMMA TypeOfCounts ==
  ASSUME InstallInv, [Next]_vars
  PROVE  k' \in 1..Len(tmd'.contents) + 1 /\ Len(conts') <= Len(tmd'.contents)
<1>0. /\ k \in 1..Len(tmd.contents) + 1 /\ Len(conts) <= Len(tmd.contents)
      /\ Len(tmd.contents) \in Nat /\ conts \in Seq(CtType)
  BY DEF InstallInv, TypeOK, CtType
<1>1. CASE Len(tmd'.contents) = Len(tmd.contents) /\ Len(conts') = Len(conts)
           /\ k' \in {k, 1}
  BY <1>0, <1>1
<1>2. CASE k' = 1 /\ conts' = << >>
  <2>1. Len(tmd'.contents) \in Nat
    BY TypeOfTmd DEF TmdType
  <2> QED BY <1>2, <2>1
<1>3. CASE ReadContent
  <2>1. CASE conts' = conts /\ k' = k
    BY <1>1, <1>3, <2>1 DEF ReadContent
  <2>2. CASE k' = k + 1 /\ \E e : conts' = Append(conts, e)
    <3>1. /\ Len(conts) = k - 1 /\ k <= Len(tmd.contents) /\ tmd' = tmd
      BY <1>3 DEF ReadContent, InstallInv, CountInv
    <3>2. Len(conts') = Len(conts) + 1
      BY <1>0, <2>2
    <3> QED BY <1>0, <2>2, <3>1, <3>2
  <2> QED BY <1>3, <2>1, <2>2 DEF ReadContent
<1>4. CASE DecryptIOS \/ EncryptIOS
  <2>1. conts' = [c \in DOMAIN conts |-> conts'[c]]
    BY <1>4 DEF DecryptIOS, EncryptIOS
  <2>2. Len(conts') = Len(conts)
    BY <1>0, <2>1, SeqMap
  <2> QED BY <1>1, <1>4, <2>2 DEF DecryptIOS, EncryptIOS
<1>5. CASE PatchModule
  <2>1. Len(conts') = Len(conts) /\ Len(tmd'.contents) = Len(tmd.contents)
    BY <1>5 DEF PatchModule, InstallInv, TypeOK
  <2> QED BY <1>1, <1>5, <2>1 DEF PatchModule
<1>6. CASE SetRevision \/ ForgeTmd
  <2>1. tmd'.contents = tmd.contents
    BY <1>6 DEF SetRevision, ForgeTmd, InstallInv, TypeOK
  <2> QED BY <1>1, <1>6, <2>1 DEF SetRevision, ForgeTmd
<1>7. CASE AddContentFinish
  <2>1. k' = k + 1 /\ k <= Len(conts) /\ conts' = conts /\ tmd' = tmd
    BY <1>7 DEF AddContentFinish, InstallInv, CountInv
  <2> QED BY <1>0, <2>1
<1>8. CASE LoadTmd
  <2>1. k' = k /\ conts' = conts /\ k = 1 /\ conts = << >>
    BY <1>8 DEF LoadTmd, LoadPart, InstallInv, CountInv
  <2> QED BY <1>2, <2>1
<1>9. CASE ReadWad
  BY <1>1, <1>2, <1>3, <1>4, <1>8, <1>9
     DEF ReadWad, InitIOS, OpenWad, ReadHeader, LoadCerts, LoadCrl, LoadTicket, LoadPart,
         CheckTitle, SetContentCount, CheckHashes, FreeOnErr, CloseWad
<1>10. CASE Prepare
  BY <1>1, <1>4, <1>5, <1>6, <1>10 DEF Prepare, FindModule, PatchFails, NoMemoryForPatched,
     Confirm
<1>11. CASE InstallIOS
  BY <1>1, <1>7, <1>11 DEF InstallIOS, AddTicket, AddTitleStart, AddContentStart,
     AddContentData, AddTitleFinish, EsRefuses, Succeed
<1>12. CASE InitUsb \/ PowerCut \/ Again \/ UNCHANGED vars
  BY <1>1, <1>2, <1>12 DEF InitUsb, PowerCut, Again, vars
<1> QED BY <1>9, <1>10, <1>11, <1>12 DEF Next

\* A step keeps the types; the blocks' follow from the heap.
LEMMA TypeStep == InstallInv /\ [Next]_vars => TypeOK'
<1> SUFFICES ASSUME InstallInv, [Next]_vars PROVE TypeOK'
  OBVIOUS
<1>1. HeapInv' /\ PointInv'
  BY HeapStep, PointStep
<1>2. AllFields' \subseteq Blocks'
  BY DEF AllFields, Blocks, Parts, Buffers
<1>3. Files \subseteq Blocks' /\ {B("outbuf"), Ios} \subseteq Blocks'
  BY DEF Files, Blocks
<1>4. live' \subseteq Blocks' /\ fields' \subseteq Blocks'
  BY <1>1, <1>2, <1>3
     DEF HeapInv, PointInv, Points, Reading, Prepared, Ended, EsCalls, Owned, Files
<1> QED BY <1>4, TypeOfScalars, TypeOfEs, TypeOfConts, TypeOfTmd, TypeOfCounts
       DEF TypeOK, CtType, TmdType, EntryType

----------------------------------------------------------------------------
(* The theorems                                                            *)

\* Before each of its steps the installer, on every path through WADs good
\* and bad, failing allocations and calls of ES that are refused, is in a
\* state that explains what it does next.
THEOREM InstallInductive == Spec => []InstallInv
<1>1. InstallInv /\ [Next]_vars => InstallInv'
  BY TypeStep, PointStep, HeapStep, TmdStep, CountStep, ContentStep, SigStep, EsStep
     DEF InstallInv
<1> QED BY <1>1, InstallInit, PTL DEF Spec

\* Every variable has its type, and no loop over the contents goes beyond what
\* the TMD lists (wad.c:218, IOSPatcher.c:399).
THEOREM InstallerTypes == Spec => []TypeOK
<1>1. InstallInv => TypeOK
  BY DEF InstallInv
<1> QED BY <1>1, InstallInductive, PTL

\* Nothing is freed twice or lost, and *ios points to live memory wherever it
\* is used, whatever fails (free_IOS(), IOSPatcher.c:310).
THEOREM InstallerHeapSafe == Spec => []HeapSafe
<1>1. InstallInv => HeapSafe
  BY Apart DEF InstallInv, HeapInv, PointInv, Points, HeapSafe, Owned, Reading, Prepared,
     Ended, EsCalls, Files
<1> QED BY <1>1, InstallInductive, PTL

\* When the installer returns, memory, file and import are given back, but for
\* the one buffer patchMIOS() forgets (patchmios.c:240).
THEOREM InstallerLeavesNothing == Spec => []NothingLeftOpen
<1>1. InstallInv => NothingLeftOpen
  BY DEF InstallInv, HeapInv, EsInv, NothingLeftOpen
<1> QED BY <1>1, InstallInductive, PTL

\* No content is larger than its buffers, whatever size the patched module has
\* (IOSPatcher.c:932-950).
THEOREM InstallerBuffersHold == Spec => []BuffersHold
<1>1. InstallInv => BuffersHold
  BY DEF InstallInv, ContentInv, BuffersHold
<1> QED BY <1>1, InstallInductive, PTL

\* Whatever is wrong with the WAD, and however it was patched, the contents
\* handed to ES are those of the TMD, which is signed as it is
\* (wad.c:256-266, IOSPatcher.c:953-985).
THEOREM InstallerSubmitsConsistent == Spec => []SubmittedConsistent
<1>1. InstallInv => SubmittedConsistent
  <2> SUFFICES ASSUME InstallInv, pc \in EsCalls PROVE SubmittedConsistent
    BY DEF SubmittedConsistent
  <2>1. Checked
    BY DEF Checked, Prepared
  <2>2. ASSUME NEW c \in DOMAIN conts PROVE Acceptable(c)
    <3>1. /\ tmd.contents[c].index = c - 1 /\ conts[c].dec = tmd.contents[c].hash
          /\ conts[c].enc = [iv |-> c - 1, data |-> conts[c].dec]
          /\ tmd.contents[c].size <= conts[c].size
      BY <2>1, <2>2 DEF InstallInv, ContentInv
    <3>2. Delivered(c) = conts[c].dec
      BY <3>1 DEF Delivered, Decrypted
    <3>3. conts \in Seq(CtType) /\ tmd.contents \in Seq(EntryType)
          /\ Len(conts) <= Len(tmd.contents)
      BY DEF InstallInv, TypeOK, CtType, EntryType
    <3>4. conts[c] \in CtType /\ tmd.contents[c] \in EntryType
      BY <2>2, <3>3, SeqOps
    <3> QED BY <3>1, <3>2, <3>4 DEF Acceptable, CtType, EntryType
  <2> QED BY <2>1, <2>2 DEF InstallInv, SigInv, CountInv, SubmittedConsistent
<1> QED BY <1>1, InstallInductive, PTL

----------------------------------------------------------------------------
(***************************************************************************)
(* The installer implements TitleStore: for WADs that have a module to     *)
(* patch and are not patched yet, every step of it is a step of TitleStore *)
(* or leaves the title, as the console sees it, and the result alone.      *)
(***************************************************************************)

\* The types the lemmas below need.
LEMMA StoreTypes ==
  ASSUME TypeOK
  PROVE  /\ conts \in Seq(CtType) /\ tmd \in TmdType /\ tmd.contents \in Seq(EntryType)
         /\ Len(conts) \in Nat /\ Len(tmd.contents) \in Nat
         /\ Len(conts) <= Len(tmd.contents)
         /\ k \in Nat /\ 1 <= k /\ k <= Len(tmd.contents) + 1
         /\ es \in [open : BOOLEAN, given : Seq(Data)] /\ es.given \in Seq(Data)
         /\ wad \in Wads /\ call \in Calls
<1>1. conts \in Seq(CtType) /\ tmd \in TmdType /\ tmd.contents \in Seq(EntryType)
  BY DEF TypeOK, CtType, TmdType, EntryType
<1>2. Len(conts) \in Nat /\ Len(tmd.contents) \in Nat
  BY <1>1
<1> QED BY <1>1, <1>2 DEF TypeOK

\* What an element added to a sequence does to it.
LEMMA SeqAppend ==
  ASSUME NEW S, NEW s \in Seq(S), NEW e
  PROVE  /\ Len(Append(s, e)) = Len(s) + 1
         /\ Append(s, e)[Len(s) + 1] = e
         /\ \A n \in 1..Len(s) : Append(s, e)[n] = s[n]
OBVIOUS

\* The installer begins in a state of the invariant.
LEMMA StoreInit == Init => StoreInv
<1> SUFFICES ASSUME Init PROVE StoreInv
  OBVIOUS
<1>1. pc = "usb" /\ call \in Calls /\ title = before
  BY DEF Init
<1>2. InstallInv
  BY InstallInit
<1>3. DataInv
  BY <1>1 DEF DataInv, Checked, Prepared, EsCalls
<1>4. PathInv
  BY <1>1, WadAssumption DEF PathInv, Reading, EsCalls
<1>5. GivenInv
  BY <1>1 DEF GivenInv, Importing
<1> QED BY <1>2, <1>3, <1>4, <1>5 DEF StoreInv

----------------------------------------------------------------------------
(* The path is that of the arguments                                       *)

\* A step keeps to the path of the arguments.
LEMMA PathStep == StoreInv /\ [Next]_vars => PathInv'
<1> SUFFICES ASSUME StoreInv, [Next]_vars PROVE PathInv'
  OBVIOUS
<1>0. PathInv /\ PointInv /\ tmd \in TmdType
  BY DEF StoreInv, InstallInv, TypeOK, TmdType, EntryType
<1> USE DEF PathInv, EsCalls, Go, Err, Return, args
<1>1. CASE ReadWad
  <2>1. CASE InitIOS
    BY <1>0, <2>1 DEF InitIOS, NoTmd
  <2>2. CASE LoadTmd
    BY <1>0, <2>2 DEF LoadTmd, LoadPart, NoTmd, Reading
  <2>3. CASE FreeOnErr \/ CloseWad
    BY <1>0, <2>3 DEF FreeOnErr, CloseWad, PointInv, Reading
  <2>4. ASSUME ~InitIOS, ~LoadTmd, ~FreeOnErr, ~CloseWad PROVE PathInv'
    <3>1. /\ tmd' = tmd /\ call' = call /\ pc \in Reading
          /\ pc' \in Reading \union {"err", "out"}
      BY <1>1, <2>4 DEF ReadWad, OpenWad, ReadHeader, LoadCerts, LoadCrl, LoadTicket, LoadPart,
         CheckTitle, SetContentCount, ReadContent, DecryptIOS, CheckHashes, Reading
    <3> QED BY <1>0, <3>1 DEF Reading
  <2> QED BY <2>1, <2>2, <2>3, <2>4
<1>2. CASE Prepare
  <2>1. CASE FindModule
    BY <1>0, <2>1 DEF FindModule, Unpatched, Reading
  <2>2. CASE PatchFails \/ NoMemoryForPatched
    BY <1>0, <2>2 DEF PatchFails, NoMemoryForPatched, Reading
  <2>3. CASE PatchModule
    <3>1. tmd'.new = tmd.new
      BY <1>0, <2>3 DEF PatchModule, TmdType
    <3>2. pc = "patch" /\ pc' = "revision" /\ call' = call
      BY <2>3 DEF PatchModule
    <3>3. ~tmd'.new
      BY <1>0, <3>1, <3>2
    <3> QED BY <1>0, <3>2, <3>3 DEF Reading
  <2>4. CASE SetRevision
    BY <1>0, <2>4 DEF SetRevision, TmdType, Reading
  <2>5. CASE ForgeTmd
    BY <1>0, <2>5 DEF ForgeTmd, TmdType, Reading
  <2>6. CASE EncryptIOS
    BY <1>0, <2>6 DEF EncryptIOS, Reading
  <2>7. CASE Confirm
    <3>1. tmd.new = FALSE /\ call.newrevision = FALSE
      BY <1>0, <2>7 DEF Confirm, Unpatched, TmdType
    <3> QED BY <1>0, <2>7, <3>1 DEF Confirm, Reading
  <2> QED BY <1>2, <2>1, <2>2, <2>3, <2>4, <2>5, <2>6, <2>7 DEF Prepare
<1>3. CASE InstallIOS
  BY <1>0, <1>3 DEF InstallIOS, AddTicket, AddTitleStart, AddContentStart, AddContentData,
     AddContentFinish, AddTitleFinish, EsRefuses, Succeed, Reading
<1>4. CASE InitUsb \/ PowerCut \/ Again
  BY <1>0, <1>4, WadAssumption DEF InitUsb, PowerCut, Again, Reading
<1>5. CASE UNCHANGED vars
  BY <1>0, <1>5 DEF vars, Unpatched
<1> QED BY <1>1, <1>2, <1>3, <1>4, <1>5 DEF Next

----------------------------------------------------------------------------
(* The data is what is intended                                            *)

\* The steps that leave the contents alone, and what is intended for them.
LEMMA DataQuiet ==
  ASSUME StoreInv, UNCHANGED <<conts, wad, call>>, tmd'.contents = tmd.contents,
         pc' \notin {"content", "check"},
         \/ ~Checked'
         \/ /\ Checked
            /\ pc' \in {"out", "read", "patch"} <=> pc \in {"out", "read", "patch"}
         \/ Checked /\ ~call.patchhomebrew
  PROVE  DataInv'
BY DEF StoreInv, DataInv, Intended

\* There is no data without contents.
LEMMA DataNone ==
  ASSUME conts' = << >>, ~Checked'
  PROVE  DataInv'
BY DEF DataInv

\* What is read is the WAD's data, or junk.
LEMMA DataRead ==
  ASSUME StoreInv, ReadContent
  PROVE  DataInv'
<1>1. /\ pc = "content" /\ Len(conts) = k - 1 /\ k \in Nat /\ conts \in Seq(CtType)
      /\ UNCHANGED <<wad, tmd>>
  <2>1. pc = "content" /\ UNCHANGED <<wad, tmd>>
    BY DEF ReadContent
  <2>2. k \in Nat /\ conts \in Seq(CtType)
    BY DEF StoreInv, InstallInv, TypeOK, CtType
  <2> QED BY <2>1, <2>2 DEF StoreInv, InstallInv, CountInv
<1>2. ~Checked'
  BY <1>1 DEF ReadContent, Err, Checked, Prepared, EsCalls
<1>3. CASE conts' = conts
  BY <1>1, <1>2, <1>3 DEF StoreInv, DataInv
<1>4. ASSUME NEW e, conts' = Append(conts, e), e.enc.data \in {wad.contents[k].data, Junk}
      PROVE  DataInv'
  <2>1. /\ DOMAIN conts' = DOMAIN conts \union {k} /\ conts'[k] = e
        /\ \A c \in DOMAIN conts : conts'[c] = conts[c]
    BY <1>1, <1>4
  <2> QED BY <1>1, <1>2, <1>4, <2>1 DEF StoreInv, DataInv
<1>5. CASE \E d \in {wad.contents[k].data, Junk} :
             LET s == RoundUp(tmd.contents[k].size, 4)
             IN  conts' = Append(conts,
                   [size |-> s, encCap |-> s, decCap |-> s, dec |-> Junk,
                    enc |-> [iv |-> wad.contents[k].index, data |-> d]])
  BY <1>4, <1>5
<1> QED BY <1>3, <1>5 DEF ReadContent

\* Decryption does not change what was read.
LEMMA DataDecrypt ==
  ASSUME DataInv, DecryptIOS, conts \in Seq(CtType)
  PROVE  DataInv'
<1>1. pc = "content" /\ pc' = "check" /\ wad' = wad /\ DOMAIN conts' = DOMAIN conts
  BY DEF DecryptIOS, Go
<1>2. ASSUME NEW c \in DOMAIN conts PROVE conts'[c].enc = conts[c].enc
  <2>1. conts[c] \in CtType
    BY <1>2, SeqOps
  <2>2. conts'[c] = [conts[c] EXCEPT !.dec = Decrypted(conts[c].enc, c - 1)]
    BY <1>2 DEF DecryptIOS
  <2> QED BY <2>1, <2>2 DEF CtType
<1>3. ~Checked'
  BY <1>1 DEF Checked, Prepared, EsCalls
<1> QED BY <1>1, <1>2, <1>3 DEF DataInv

\* The data whose hash is right is that of the WAD.
LEMMA DataCheck ==
  ASSUME DataInv, CheckHashes, OriginalWads, wad \in Wads,
         tmd.contents \in Seq(EntryType), DOMAIN conts \subseteq DOMAIN tmd.contents,
         DOMAIN tmd.contents = DOMAIN wad.contents,
         \A c \in DOMAIN tmd.contents : tmd.contents[c].index = wad.contents[c].index,
         \A c \in DOMAIN conts : conts[c].dec = Decrypted(conts[c].enc, c - 1)
  PROVE  DataInv'
<1>1. pc = "check" /\ UNCHANGED <<wad, call, tmd, conts>>
  BY DEF CheckHashes, args
<1>2. CASE pc' = "err"
  BY <1>2 DEF DataInv, Checked, Prepared, EsCalls
<1>3. CASE pc' = "out" /\ \A c \in DOMAIN conts : conts[c].dec = tmd.contents[c].hash
  <2>1. ASSUME NEW c \in DOMAIN conts
        PROVE  conts[c].dec = Intended(c)'
    <3>1. tmd.contents[c] \in EntryType
      BY <2>1, SeqOps
    <3>2. conts[c].dec # Junk
      BY <1>3, <2>1, <3>1 DEF EntryType
    <3>3. /\ conts[c].dec = Decrypted(conts[c].enc, c - 1)
          /\ conts[c].enc.data \in {wad.contents[c].data, Junk}
      BY <1>1, <2>1 DEF DataInv
    <3>4. conts[c].dec = wad.contents[c].data
      BY <3>2, <3>3 DEF Decrypted
    <3>5. wad.contents[c].data \in Data /\ ~wad.contents[c].data.patched
      <4> DEFINE R == [index : Nat, size : Nat, data : Data \ {Junk}, hash : Data \ {Junk}]
      <4>1. wad.contents \in Seq(R)
        BY WadAssumption
      <4>2. wad.contents[c] \in R
        <5> HIDE DEF R
        <5> QED BY <2>1, <4>1, SeqOps
      <4> QED BY <2>1, <4>2 DEF OriginalWads
    <3> QED BY <1>1, <1>3, <3>4, <3>5 DEF Intended, Data
  <2> QED BY <1>1, <1>3, <2>1 DEF DataInv, Intended
<1> QED BY <1>2, <1>3 DEF CheckHashes, Go, Err

\* The module of the TMD is that of the WAD.
LEMMA ModuleAgrees ==
  ASSUME conts \in Seq(CtType), tmd.contents \in Seq(EntryType),
         Len(conts) = Len(tmd.contents), DOMAIN tmd.contents = DOMAIN wad.contents,
         \A c \in DOMAIN conts : tmd.contents[c].index = wad.contents[c].index
  PROVE  Module = ModuleOf(wad.contents)
<1>1. \A c \in DOMAIN tmd.contents : tmd.contents[c].index = wad.contents[c].index
  OBVIOUS
<1> DEFINE Last(found) == IF found = {} THEN 0
                          ELSE CHOOSE c \in found : \A d \in found : d <= c
           Ones(cs) == {c \in DOMAIN cs : cs[c].index = 1}
<1>2. Module = Last(Ones(tmd.contents)) /\ ModuleOf(wad.contents) = Last(Ones(wad.contents))
  BY Zenon DEF Module, ModuleOf
<1>3. Ones(tmd.contents) = Ones(wad.contents)
  BY <1>1
<1> HIDE DEF Last, Ones
<1> QED BY <1>2, <1>3

\* patchMIOS() makes the module, and only the module, what is intended.
LEMMA DataPatch ==
  ASSUME StoreInv, PatchModule
  PROVE  DataInv'
<1> DEFINE m == Module
<1>1. /\ pc = "patch" /\ pc' = "revision" /\ UNCHANGED <<wad, call>>
      /\ conts \in Seq(CtType) /\ tmd \in TmdType
      /\ Len(conts) <= Len(tmd.contents)
  BY DEF PatchModule, StoreInv, InstallInv, TypeOK, CtType, EntryType, TmdType, args, Go
<1>2. call.patchhomebrew /\ Checked
  BY <1>1 DEF StoreInv, PathInv, Checked, Prepared
<1>3. /\ DOMAIN tmd.contents = DOMAIN wad.contents
      /\ DOMAIN conts \subseteq DOMAIN tmd.contents
      /\ \A c \in DOMAIN conts :
           /\ tmd.contents[c].index = wad.contents[c].index
           /\ conts[c].dec = Intended(c)
  BY <1>1, <1>2 DEF StoreInv, DataInv, TmdType
<1>4. Len(conts) = Len(tmd.contents)
  BY <1>2 DEF StoreInv, InstallInv, CountInv
<1>5. m = ModuleOf(wad.contents)
  BY <1>1, <1>3, <1>4, ModuleAgrees DEF TmdType
<1> HIDE DEF m
<1>6. PICK s \in PatchedSizes :
        /\ conts' = [conts EXCEPT ![m] = Patched(conts[m], s)]
        /\ tmd' = [tmd EXCEPT !.contents[m].size = Patched(conts[m], s).size,
                              !.contents[m].hash = Patched(conts[m], s).dec,
                              !.sig = "stale"]
  BY DEF PatchModule, m
<1> DEFINE new == Patched(conts[m], s)
<1>7. /\ conts' = [conts EXCEPT ![m] = new]
      /\ tmd'.contents = [tmd.contents EXCEPT ![m] =
                            [tmd.contents[m] EXCEPT !.size = new.size, !.hash = new.dec]]
  BY <1>1, <1>6 DEF TmdType
<1>8. m \in DOMAIN conts => new.dec = [conts[m].dec EXCEPT !.patched = TRUE]
  <2>1. m \in DOMAIN conts => conts[m] \in CtType
    BY <1>1, SeqOps
  <2> QED BY <2>1 DEF Patched, CtType
<1> HIDE DEF new
<1>9. /\ DOMAIN conts' = DOMAIN conts /\ DOMAIN tmd'.contents = DOMAIN tmd.contents
      /\ \A c \in DOMAIN conts : tmd'.contents[c].index = tmd.contents[c].index
  <2>1. tmd.contents \in Seq(EntryType)
    BY <1>1 DEF TmdType
  <2>2. \A c \in DOMAIN conts : tmd.contents[c] \in EntryType
    BY <1>3, <2>1, SeqOps
  <2> QED BY <1>3, <1>7, <2>1, <2>2 DEF EntryType
<1>10. ASSUME NEW c \in DOMAIN conts PROVE conts'[c].dec = Intended(c)'
  <2>1. conts[c].dec = Intended(c) /\ conts[c] \in CtType
    BY <1>1, <1>3, <1>10, SeqOps
  <2>2. conts[c].dec = [wad.contents[c].data EXCEPT !.patched = FALSE]
    BY <1>1, <2>1 DEF Intended
  <2>3. CASE c = m
    BY <1>1, <1>2, <1>5, <1>7, <1>8, <2>2, <2>3, <1>10 DEF Intended
  <2>4. CASE c # m
    BY <1>1, <1>5, <1>7, <2>2, <2>4, <1>10 DEF Intended
  <2> QED BY <2>3, <2>4
<1> QED BY <1>1, <1>3, <1>9, <1>10 DEF DataInv

\* Encryption keeps the plain data.
LEMMA DataEncrypt ==
  ASSUME StoreInv, EncryptIOS
  PROVE  DataInv'
<1>1. /\ pc = "encrypt" /\ pc' = "addTicket" /\ UNCHANGED <<wad, call, tmd>>
      /\ conts \in Seq(CtType) /\ DOMAIN conts' = DOMAIN conts /\ Checked
  BY DEF EncryptIOS, StoreInv, InstallInv, TypeOK, CtType, Go, Checked, Prepared, args
<1>2. ASSUME NEW c \in DOMAIN conts PROVE conts'[c].dec = conts[c].dec
  <2>1. conts[c] \in CtType
    BY <1>1, <1>2, SeqOps
  <2>2. conts'[c] = [conts[c] EXCEPT !.enc = [iv |-> c - 1, data |-> conts[c].dec]]
    BY <1>2 DEF EncryptIOS
  <2> QED BY <2>1, <2>2 DEF CtType
<1> QED BY <1>1, <1>2 DEF StoreInv, DataInv, Intended

\* A step keeps the data what is intended.
LEMMA DataStep == StoreInv /\ [Next]_vars /\ OriginalWads => DataInv'
<1> SUFFICES ASSUME StoreInv, [Next]_vars, OriginalWads PROVE DataInv'
  OBVIOUS
<1> USE DEF Go, Err, Return, args
<1>1. CASE ReadWad
  <2>1. CASE InitIOS
    BY <2>1, DataNone DEF InitIOS, Checked, Prepared, EsCalls
  <2>2. CASE LoadTmd \/ SetContentCount
    <3>1. conts = << >> /\ conts' = conts
      BY <2>2 DEF LoadTmd, LoadPart, SetContentCount, StoreInv, InstallInv, CountInv
    <3>2. ~Checked'
      BY <2>2 DEF LoadTmd, LoadPart, SetContentCount, Checked, Prepared, EsCalls
    <3> QED BY <3>1, <3>2, DataNone
  <2>3. CASE OpenWad
    <3>1. conts' = << >>
      BY <2>3 DEF OpenWad, StoreInv, InstallInv, CountInv
    <3> QED BY <2>3, <3>1, DataNone DEF OpenWad, Checked, Prepared, EsCalls
  <2>4. CASE ReadHeader \/ LoadCerts \/ LoadCrl \/ LoadTicket \/ CheckTitle \/ FreeOnErr
    BY <2>4, DataQuiet
       DEF ReadHeader, LoadCerts, LoadCrl, LoadTicket, LoadPart, CheckTitle, FreeOnErr,
           Checked, Prepared, EsCalls, StoreInv, InstallInv, PointInv
  <2>5. CASE CloseWad
    BY <2>5, DataQuiet DEF CloseWad, Checked, Prepared, EsCalls
  <2>6. CASE DecryptIOS \/ CheckHashes
    <3>1. /\ DataInv /\ conts \in Seq(CtType) /\ tmd.contents \in Seq(EntryType)
          /\ DOMAIN conts \subseteq DOMAIN tmd.contents /\ wad \in Wads
      BY StoreTypes DEF StoreInv, InstallInv
    <3>2. pc = "check" =>
            /\ DOMAIN tmd.contents = DOMAIN wad.contents
            /\ \A c \in DOMAIN tmd.contents : tmd.contents[c].index = wad.contents[c].index
            /\ \A c \in DOMAIN conts : conts[c].dec = Decrypted(conts[c].enc, c - 1)
      BY DEF StoreInv, InstallInv, TmdInv, ContentInv
    <3> QED BY <2>6, <3>1, <3>2, DataDecrypt, DataCheck DEF CheckHashes
  <2> QED BY <1>1, <2>1, <2>2, <2>3, <2>4, <2>5, <2>6, DataRead DEF ReadWad
<1>2. CASE Prepare
  <2>1. CASE FindModule
    BY <2>1, DataQuiet DEF FindModule, Unpatched, Checked, Prepared, EsCalls
  <2>2. CASE PatchFails \/ NoMemoryForPatched \/ Confirm
    BY <2>2, DataQuiet DEF PatchFails, NoMemoryForPatched, Confirm, Checked, Prepared, EsCalls
  <2>3. CASE SetRevision \/ ForgeTmd
    <3>1. tmd'.contents = tmd.contents
      BY <2>3 DEF SetRevision, ForgeTmd, StoreInv, InstallInv, TypeOK
    <3> QED BY <2>3, <3>1, DataQuiet DEF SetRevision, ForgeTmd, Checked, Prepared, EsCalls
  <2> QED BY <1>2, <2>1, <2>2, <2>3, DataPatch, DataEncrypt DEF Prepare
<1>3. CASE InstallIOS
  <2>1. /\ UNCHANGED <<conts, tmd, wad, call>> /\ pc \in EsCalls \union {"installed"}
        /\ pc' \in EsCalls \union {"installed", "return"}
    BY <1>3 DEF InstallIOS, AddTicket, AddTitleStart, AddContentStart, AddContentData,
       AddContentFinish, AddTitleFinish, EsRefuses, Succeed, EsCalls
  <2> QED BY <2>1, DataQuiet DEF Checked, Prepared, EsCalls
<1>4. CASE InitUsb \/ PowerCut
  BY <1>4, DataQuiet DEF InitUsb, PowerCut, Checked, Prepared, EsCalls
<1>5. CASE Again
  BY <1>5, DataNone DEF Again, Checked, Prepared, EsCalls
<1>6. CASE UNCHANGED vars
  BY <1>6 DEF vars, StoreInv, DataInv, Checked, Intended
<1> QED BY <1>1, <1>2, <1>3, <1>4, <1>5, <1>6 DEF Next

----------------------------------------------------------------------------
(* The title changes once, to a whole one                                  *)

\* What the console sees depends on the title alone.
LEMMA SeenPrime == Seen(title)' = Seen(title') /\ Seen(before)' = Seen(before')
BY DEF Seen, WholeTitles, WholeTitle, OldTitle, ModuleOf

\* What ES was given when the last content is in is a whole title.
LEMMA WholeGiven ==
  ASSUME StoreInv, AddTitleFinish, OriginalWads
  PROVE  Seen(title') = "new"
<1>1. /\ pc = "start" /\ k > Len(conts) /\ title' = [contents |-> es.given, new |-> tmd.new]
      /\ Checked
  BY DEF AddTitleFinish, Checked, Prepared, EsCalls
<1>2. /\ conts \in Seq(CtType) /\ k \in 1..Len(tmd.contents) + 1 /\ es.given \in Seq(Data)
      /\ tmd \in TmdType /\ wad \in Wads /\ call \in Calls
  BY DEF StoreInv, InstallInv, TypeOK, CtType, TmdType, EntryType
<1>3. Len(conts) = Len(tmd.contents)
  BY <1>1 DEF StoreInv, InstallInv, CountInv
<1>4. k = Len(conts) + 1
  BY <1>1, <1>2, <1>3 DEF TmdType
<1>5. Len(es.given) = Len(conts) /\ \A c \in DOMAIN conts : es.given[c] = conts[c].dec
  BY <1>1, <1>2, <1>4 DEF StoreInv, GivenInv, Importing
<1>6. /\ DOMAIN tmd.contents = DOMAIN wad.contents
      /\ \A c \in DOMAIN conts : conts[c].dec = Intended(c)
  BY <1>1 DEF StoreInv, DataInv
<1>7. DOMAIN conts = DOMAIN wad.contents
  BY <1>2, <1>3, <1>6 DEF TmdType
<1> DEFINE whole == [c \in DOMAIN wad.contents |->
                      [wad.contents[c].data EXCEPT
                        !.patched = call.patchhomebrew /\ c = ModuleOf(wad.contents)]]
<1>8. es.given = whole
  <2>1. \A c \in DOMAIN conts : es.given[c] = whole[c]
    BY <1>1, <1>5, <1>6, <1>7 DEF Intended
  <2>2. es.given = [c \in DOMAIN conts |-> es.given[c]]
    BY <1>2, <1>5
  <2> QED BY <1>7, <2>1, <2>2
<1>9. tmd.new = call.newrevision
  BY <1>1 DEF StoreInv, PathInv, EsCalls
<1>10. title' \in WholeTitles
  <2>1. title' = [contents |-> whole, new |-> call.newrevision]
    BY <1>1, <1>8, <1>9
  <2>2. title' = WholeTitle(wad, call)
    BY <2>1 DEF WholeTitle
  <2>3. \A w \in Wads, a \in Calls : WholeTitle(w, a) \in WholeTitles
    BY DEF WholeTitles
  <2> QED BY <1>2, <2>2, <2>3
<1>11. title' # OldTitle
  <2>1. ModuleOf(wad.contents) # 0
    BY <1>2 DEF OriginalWads
  <2>2. DOMAIN wad.contents # {}
    BY <2>1 DEF ModuleOf
  <2>3. Len(es.given) # 0
    BY <1>2, <1>5, <1>7, <2>2
  <2> QED BY <1>1, <2>3 DEF OldTitle
<1> QED BY <1>10, <1>11 DEF Seen

\* What ES was given are the first contents; the title waits for the last.
LEMMA GivenStep == StoreInv /\ [Next]_vars /\ OriginalWads => GivenInv'
<1> SUFFICES ASSUME StoreInv, [Next]_vars, OriginalWads PROVE GivenInv'
  OBVIOUS
<1>0. GivenInv
  BY DEF StoreInv
<1> USE DEF GivenInv, Importing, Go, Err, Return, args, esVars
<1>1. CASE ReadWad
  <2>1. /\ UNCHANGED <<title, before>> /\ pc \in Reading \union {"init", "err", "out"}
        /\ pc' \notin Importing \union {"installed"}
    BY <1>1 DEF ReadWad, InitIOS, OpenWad, ReadHeader, LoadCerts, LoadCrl, LoadTicket, LoadTmd,
       LoadPart, CheckTitle, SetContentCount, ReadContent, DecryptIOS, CheckHashes, FreeOnErr,
       CloseWad, Reading
  <2> QED BY <1>0, <2>1 DEF Reading
<1>2. CASE Prepare
  <2>1. /\ UNCHANGED <<title, before>> /\ pc' \notin Importing \union {"installed"}
        /\ pc \notin {"installed", "return", "off"}
    BY <1>2 DEF Prepare, FindModule, PatchFails, PatchModule, NoMemoryForPatched, SetRevision,
       ForgeTmd, EncryptIOS, Confirm
  <2> QED BY <1>0, <2>1
<1>3. CASE InstallIOS
  <2>1. CASE AddTicket \/ AddContentStart \/ AddContentData
    <3>1. UNCHANGED <<title, before, es, k, conts>> /\ pc' # "installed"
          /\ (pc' \in Importing => pc \in Importing) /\ pc \notin {"installed", "return", "off"}
      BY <2>1 DEF AddTicket, AddContentStart, AddContentData
    <3>2. title' = before'
      BY <1>0, <3>1
    <3>3. pc' \in Importing => /\ Len(es'.given) = k' - 1
                              /\ \A c \in 1..k' - 1 : es'.given[c] = conts'[c].dec
      BY <1>0, <3>1
    <3> QED BY <3>1, <3>2, <3>3
  <2>2. CASE AddTitleStart
    <3>1. /\ es'.given = << >> /\ k' = 1 /\ pc' = "start" /\ UNCHANGED <<title, before>>
          /\ pc \notin {"installed", "return", "off"}
      BY <2>2 DEF AddTitleStart
    <3>2. Len(es'.given) = k' - 1 /\ 1..k' - 1 = {}
      BY <3>1
    <3> QED BY <1>0, <3>1, <3>2
  <2>3. CASE AddContentFinish
    <3>1. PICK d : /\ es'.given = Append(es.given, d) /\ d = tmd.contents[k].hash
                   /\ pc = "finish" /\ pc' = "start" /\ k' = k + 1
                   /\ UNCHANGED <<conts, title, before>>
      <4>1. es \in [open : BOOLEAN, given : Seq(Data)]
        BY StoreTypes DEF StoreInv, InstallInv
      <4>2. /\ Delivered(k) = tmd.contents[k].hash
            /\ es' = [es EXCEPT !.given = Append(@, Delivered(k))]
        BY <2>3 DEF AddContentFinish, Acceptable
      <4> QED BY <2>3, <4>1, <4>2 DEF AddContentFinish, Delivered
    <3>2. k \in Nat /\ 1 <= k /\ es.given \in Seq(Data) /\ conts \in Seq(CtType)
      BY StoreTypes DEF StoreInv, InstallInv
    <3>3. k <= Len(conts)
      BY <3>1 DEF StoreInv, InstallInv, CountInv
    <3>4. d = conts[k].dec
      <4>1. k \in DOMAIN conts
        BY <3>2, <3>3
      <4>2. Checked
        BY <3>1 DEF Checked, Prepared, EsCalls
      <4> QED BY <3>1, <4>1, <4>2 DEF StoreInv, InstallInv, ContentInv
    <3>5. Len(es.given) = k - 1 /\ \A c \in 1..k - 1 : es.given[c] = conts[c].dec
      BY <1>0, <3>1
    <3>6. Len(es'.given) = k /\ es'.given[k] = d /\ \A c \in 1..k - 1 : es'.given[c] = es.given[c]
      <4>1. (k - 1) + 1 = k
        BY <3>2
      <4> QED BY <3>1, <3>2, <3>5, <4>1, SeqAppend
    <3>7. k' - 1 = k /\ \A c \in 1..k : c = k \/ c \in 1..k - 1
      BY <3>1, <3>2
    <3>8. Len(es'.given) = k' - 1 /\ \A c \in 1..k' - 1 : es'.given[c] = conts'[c].dec
      BY <3>1, <3>4, <3>5, <3>6, <3>7
    <3> QED BY <1>0, <3>1, <3>8
  <2>4. CASE AddTitleFinish
    <3>1. Seen(title') = "new" /\ pc' = "installed"
      BY <2>4, WholeGiven DEF AddTitleFinish
    <3>2. NewInstalled'
      BY <3>1, SeenPrime DEF NewInstalled
    <3> QED BY <3>1, <3>2
  <2>5. CASE EsRefuses \/ Succeed
    BY <2>5 DEF EsRefuses, Succeed
  <2> QED BY <1>3, <2>1, <2>2, <2>3, <2>4, <2>5 DEF InstallIOS
<1>4. CASE InitUsb \/ PowerCut \/ Again
  BY <1>0, <1>4 DEF InitUsb, PowerCut, Again
<1>5. CASE UNCHANGED vars
  <2>1. UNCHANGED <<pc, es, k, conts, title, before>>
    BY <1>5 DEF vars
  <2>2. NewInstalled' <=> NewInstalled
    BY <2>1, SeenPrime DEF NewInstalled
  <2> QED BY <1>0, <2>1, <2>2
<1> QED BY <1>1, <1>2, <1>3, <1>4, <1>5 DEF Next

----------------------------------------------------------------------------
(* The refinement                                                          *)

\* Every step is one of TitleStore or a stutter.
LEMMA StoreStep ==
  ASSUME StoreInv, [Next]_vars, OriginalWads
  PROVE  [Store!Next]_Store!vars
<1>0. InstallInv /\ GivenInv
  BY DEF StoreInv
<1> USE DEF Go, Err, Return, args
<1>1. ASSUME UNCHANGED <<title, before, runs>>, Result' = Result
      PROVE  UNCHANGED Store!vars
  <2>1. Seen(title)' = Seen(title) /\ Seen(before)' = Seen(before)
    BY <1>1, SeenPrime
  <2> QED BY <1>1, <2>1 DEF Store!vars
<1>2. ASSUME UNCHANGED <<title, before, runs>>, pc \notin {"installed", "return", "off"},
             pc' = "return", ret' = "err"
      PROVE  Store!Fail
  <2>1. Seen(title)' = Seen(title) /\ Seen(before)' = Seen(before) /\ title = before
    BY <1>0, <1>2, SeenPrime DEF GivenInv
  <2>2. Result = "running" /\ Result' = "err"
    BY <1>2 DEF Result
  <2> QED BY <1>2, <2>1, <2>2 DEF Store!Fail
<1>3. CASE ReadWad
  <2>1. /\ UNCHANGED <<title, before, runs>> /\ pc \notin {"installed", "return", "off"}
        /\ pc' # "off" /\ (pc' = "return" => ret' = "err")
    BY <1>3 DEF ReadWad, InitIOS, OpenWad, ReadHeader, LoadCerts, LoadCrl, LoadTicket, LoadTmd,
       LoadPart, CheckTitle, SetContentCount, ReadContent, DecryptIOS, CheckHashes, FreeOnErr,
       CloseWad, esVars
  <2>2. CASE pc' # "return"
    BY <1>1, <2>1, <2>2 DEF Result
  <2> QED BY <1>2, <2>1, <2>2 DEF Store!Next
<1>4. CASE Prepare
  <2>1. /\ UNCHANGED <<title, before, runs>> /\ pc \notin {"installed", "return", "off"}
        /\ pc' # "off"
    BY <1>4 DEF Prepare, FindModule, PatchFails, PatchModule, NoMemoryForPatched, SetRevision,
       ForgeTmd, EncryptIOS, Confirm, esVars
  <2>2. pc = "read" => Module # 0
    <3>1. pc = "read" => /\ Len(conts) = Len(tmd.contents)
                         /\ DOMAIN tmd.contents = DOMAIN wad.contents
                         /\ \A c \in DOMAIN conts : tmd.contents[c].index = wad.contents[c].index
      BY DEF StoreInv, InstallInv, CountInv, DataInv, Checked, Prepared
    <3>2. conts \in Seq(CtType) /\ tmd.contents \in Seq(EntryType) /\ wad \in Wads
      BY DEF StoreInv, InstallInv, TypeOK, CtType, EntryType
    <3> QED BY <3>1, <3>2, ModuleAgrees DEF OriginalWads
  <2>3. pc' = "return" => ret' = "err"
    BY <1>4, <2>2 DEF Prepare, FindModule, PatchFails, PatchModule, NoMemoryForPatched,
       SetRevision, ForgeTmd, EncryptIOS, Confirm
  <2>4. CASE pc' # "return"
    BY <1>1, <2>1, <2>4 DEF Result
  <2> QED BY <1>2, <2>1, <2>3, <2>4 DEF Store!Next
<1>5. CASE InstallIOS
  <2>1. CASE EsRefuses
    BY <1>2, <2>1 DEF EsRefuses, EsCalls, Store!Next
  <2>2. CASE Succeed
    <3>1. Seen(title) = "new" /\ Result = "running" /\ Result' = "ok"
      BY <1>0, <2>2 DEF Succeed, GivenInv, NewInstalled, Result
    <3>2. UNCHANGED <<title, before, runs>>
      BY <2>2 DEF Succeed, esVars
    <3>3. Seen(title)' = Seen(title) /\ Seen(before)' = Seen(before)
      BY <3>2, SeenPrime
    <3> QED BY <3>1, <3>2, <3>3 DEF Store!Next, Store!Succeed
  <2>3. CASE AddTitleFinish
    <3>1. Result = "running" /\ Result' = "running" /\ UNCHANGED <<before, runs>>
      BY <2>3 DEF AddTitleFinish, Result
    <3>2. Seen(title)' = "new" /\ Seen(before)' = Seen(before)
      BY <2>3, <3>1, WholeGiven, SeenPrime
    <3> QED BY <3>1, <3>2 DEF Store!Next, Store!Replace
  <2>4. CASE AddTicket \/ AddTitleStart \/ AddContentStart \/ AddContentData \/ AddContentFinish
    BY <1>1, <2>4 DEF AddTicket, AddTitleStart, AddContentStart, AddContentData,
       AddContentFinish, Result, esVars
  <2> QED BY <1>5, <2>1, <2>2, <2>3, <2>4 DEF InstallIOS
<1>6. CASE InitUsb
  BY <1>1, <1>2, <1>6 DEF InitUsb, Result, esVars, Store!Next
<1>7. CASE PowerCut
  <2>1. Result = "running" /\ Result' = "cut" /\ UNCHANGED <<title, before, runs>>
    BY <1>7 DEF PowerCut, Result
  <2>2. Seen(title)' = Seen(title) /\ Seen(before)' = Seen(before)
    BY <2>1, SeenPrime
  <2> QED BY <2>1, <2>2 DEF Store!Next, Store!PowerCut
<1>8. CASE Again
  <2>1. Result # "running" /\ Result' = "running"
    BY <1>0, <1>8 DEF Again, Result, InstallInv, TypeOK
  <2>2. runs < MaxRuns /\ runs' = runs + 1 /\ title' = title /\ before' = title
    BY <1>8 DEF Again
  <2>3. Seen(title)' = Seen(title) /\ Seen(before)' = Seen(title)
    BY <2>2, SeenPrime
  <2> QED BY <2>1, <2>2, <2>3 DEF Store!Next, Store!Again
<1>9. CASE UNCHANGED vars
  <2>1. UNCHANGED <<title, before, runs, pc, ret>>
    BY <1>9 DEF vars, esVars
  <2> QED BY <1>1, <2>1 DEF Result
<1> QED BY <1>3, <1>4, <1>5, <1>6, <1>7, <1>8, <1>9 DEF Next

\* Through WADs good and bad, failures at any allocation and any call of ES,
\* and power cuts, the console has the old title or a whole new one, and what
\* Install_patched_MIOS() returns says which (IOSPatcher.c:745-1021).
THEOREM InstallerKeepsPromise ==
  ASSUME OriginalWads
  PROVE  Spec => StoreSpec
<1>1. Init => Store!Init
  BY DEF Init, Store!Init, Seen, Result
<1>2. StoreInv /\ [Next]_vars => StoreInv'
  BY PathStep, DataStep, GivenStep, TypeStep, PointStep, HeapStep, TmdStep, CountStep,
     ContentStep, SigStep, EsStep DEF StoreInv, InstallInv
<1>3. StoreInv /\ [Next]_vars => [Store!Next]_Store!vars
  BY StoreStep
<1> QED BY <1>1, <1>2, <1>3, StoreInit, PTL DEF Spec, StoreSpec, Store!Spec

----------------------------------------------------------------------------
(***************************************************************************)
(* The installer when it downloads the title. Up to the end of             *)
(* Download_IOS() there is an invariant of its own; what was downloaded is *)
(* as good as what is read from a file, and from there on the installer's  *)
(* invariant does.                                                         *)
(***************************************************************************)

\* The points of Download_IOS(), and what it may lose.
Requests == {"open", "certs", "getTmd", "tmd", "getTicket", "ticket", "title", "count",
             "content", "check"}
Outside  == {"usb", "init", "off", "return", "err", "out", "crashed"}
LostAlone   == {Buffer("tmd"), Buffer("ticket"), Names(1), Names(2)}
LostBlocks  == {{}} \union {{b} : b \in LostAlone} \union SUBSET NamesLost(Len(tmd.contents))

\* All that was received was in order.
Complete == pc = "out" /\ ret = "ok"

DownTypes ==
  /\ ret \in {"ok", "err"} /\ call \in Calls /\ attempt \in Attempts /\ wad \in Wads
  /\ k \in 1..Len(tmd.contents) + 1 /\ tmd \in TmdType
  /\ conts \in Seq(CtType) /\ Len(conts) <= Len(tmd.contents)
  /\ es \in [open : BOOLEAN, given : Seq(Data)] /\ runs \in Nat

\* ret is that of the last request: if it failed there is nothing to decrypt.
DownPoint ==
  /\ pc \in Requests \union Outside \union Prepared
  /\ pc = "err" => ret = "err"
  /\ pc \in Requests \ {"content"} => ret = "ok"
  /\ pc = "content" /\ ret = "err" => k > 1 /\ Enc(k - 1) \notin fields

\* The fields of *ios that may have been set at p.
HadAt(p) ==
  CASE p \in {"getTmd", "tmd"} -> {B("certs")}
    [] p \in {"getTicket", "ticket"} -> {B("certs"), B("tmd")}
    [] p \in {"title", "count"} -> Parts
    [] OTHER -> {}

DownHeap ==
  /\ ~bad /\ fields \subseteq AllFields
  /\ pc \in {"usb", "init", "off"} => live = {}
  /\ pc \in Requests \ {"tmd", "ticket", "content"} => live = Owned
  /\ pc \in {"tmd", "ticket"} => live = Owned \union {Buffer(pc)}
  /\ pc = "content" => \E lost \in SUBSET NamesLost(k - 1) : live = Owned \union lost
  /\ pc \in {"err", "crashed"} => \E lost \in LostBlocks : live = Owned \union lost
  /\ pc = "out" => IF ret = "ok" THEN live = Owned ELSE live \in LostBlocks
  /\ pc = "return" => live \in LostBlocks \union {{B("outbuf")}} /\ (ret = "ok" => live = {})
  /\ pc \in Requests \ {"content", "check"} => fields \subseteq HadAt(pc)
  /\ pc = "content" => fields \subseteq Parts \union Arrays \union Buffers(k - 1)

\* The TMD is what the server has.
DownTmd ==
  /\ pc \in {"open", "certs", "getTmd", "tmd"} => tmd = NoTmd
  /\ pc \in Requests \/ Complete => tmd.sig = "official"
  /\ pc \in {"getTicket", "ticket", "title", "count", "content", "check"} =>
       /\ DOMAIN tmd.contents = DOMAIN wad.contents
       /\ \A c \in DOMAIN tmd.contents :
            /\ tmd.contents[c].index = wad.contents[c].index
            /\ tmd.contents[c].size = wad.contents[c].size
            /\ tmd.contents[c].hash = wad.contents[c].hash

DownCount ==
  /\ pc \in Requests \ {"content", "check"} => k = 1 /\ conts = << >>
  /\ pc = "content" => Len(conts) = k - 1
  /\ pc = "check" \/ Complete => Len(conts) = Len(tmd.contents)

\* What is known of each content. The buffer of one that was not received is
\* missing, although its size is not 0.
DownContent ==
  pc \in {"content", "check"} \/ Complete =>
    \A c \in DOMAIN conts :
      /\ conts[c].size <= conts[c].decCap
      /\ 0 < tmd.contents[c].size /\ tmd.contents[c].size <= conts[c].size
      /\ Enc(c) \in fields => conts[c].size <= conts[c].encCap
      /\ pc \in {"check", "out"} => Enc(c) \in fields
      /\ pc \in {"content", "check"} => conts[c].enc.iv = tmd.contents[c].index
      /\ pc = "check" => conts[c].dec = Decrypted(conts[c].enc, c - 1)
      /\ pc = "out" => /\ tmd.contents[c].index = c - 1
                       /\ conts[c].dec = tmd.contents[c].hash
                       /\ conts[c].enc = [iv |-> c - 1, data |-> conts[c].dec]

\* The inductive invariant: from the end of the download on it is the installer's.
DownloadInv ==
  /\ DownTypes /\ DownPoint /\ DownHeap /\ DownTmd /\ DownCount /\ DownContent
  /\ EsInv
  /\ pc \in Prepared => InstallInv


\* The TMD that is read from w.
TmdOf(w) ==
  [NoTmd EXCEPT !.contents =
     [c \in DOMAIN w.contents |->
        [index |-> w.contents[c].index, size |-> w.contents[c].size,
         hash |-> w.contents[c].hash]]]

\* TMDs are of their type.
LEMMA NoTmdType == NoTmd \in TmdType
<1>1. << >> \in Seq(EntryType)
  OBVIOUS
<1>. QED  BY <1>1 DEF NoTmd, TmdType

LEMMA TmdOfType ==
  ASSUME NEW w \in Wads
  PROVE  TmdOf(w) \in TmdType
<1>. DEFINE cs == [c \in DOMAIN w.contents |->
                    [index |-> w.contents[c].index, size |-> w.contents[c].size,
                     hash |-> w.contents[c].hash]]
            R == [index : Nat, size : Nat, data : Data \ {Junk}, hash : Data \ {Junk}]
<1>1. w.contents \in Seq(R)
  BY WadAssumption
<1>2. ASSUME NEW c \in DOMAIN w.contents  PROVE  cs[c] \in EntryType
  <2>1. w.contents[c] \in R
    BY <1>1, <1>2, SeqOps
  <2>2. cs[c] = [index |-> w.contents[c].index, size |-> w.contents[c].size,
                 hash |-> w.contents[c].hash]
    BY <1>2
  <2>. HIDE DEF cs
  <2>. QED  BY <2>1, <2>2 DEF EntryType
<1>3. cs = [c \in DOMAIN w.contents |-> cs[c]]
  OBVIOUS
<1>4. TmdOf(w) = [NoTmd EXCEPT !.contents = cs]
  BY DEF TmdOf
<1>. HIDE DEF cs, R
<1>5. cs \in Seq(EntryType)
  BY <1>1, <1>2, <1>3, SeqMapType
<1>. QED  BY <1>4, <1>5, NoTmdType DEF TmdType

----------------------------------------------------------------------------
\* What may be lost is none of what the installer knows by name.
LEMMA NamesApart ==
  ASSUME NEW n \in Nat
  PROVE  /\ Names(n) \notin AllFields \union {Ios, B("outbuf"), Buffer("tmd"), Buffer("ticket")}
         /\ \A m \in Nat : Names(m) = Names(n) => m = n
BY DEF Names, Buffer, B, Ios, AllFields, Parts, Arrays, Buffers, Enc, Dec

LEMMA LostApart ==
  /\ \A b \in LostAlone : b \notin AllFields \union {Ios, B("outbuf")}
  /\ Buffer("tmd") # Buffer("ticket")
<1>1. {Buffer("tmd"), Buffer("ticket")} \intersect (AllFields \union {Ios, B("outbuf")}) = {}
  BY DEF Buffer, B, Ios, AllFields, Parts, Arrays, Buffers, Enc, Dec
<1>2. Buffer("tmd") # Buffer("ticket")
  BY DEF Buffer
<1>. QED  BY <1>1, <1>2, NamesApart DEF LostAlone

\* ... nor are the names of contents.
LEMMA NamesLostApart ==
  ASSUME NEW n \in Nat
  PROVE  NamesLost(n) \intersect (AllFields \union {Ios, B("outbuf")}) = {}
<1>1. ASSUME NEW c \in 1..n
      PROVE  Names(c + 2) \notin AllFields \union {Ios, B("outbuf")}
  BY NamesApart
<1>. QED  BY <1>1 DEF NamesLost

LEMMA BlocksApart ==
  ASSUME tmd \in TmdType, NEW lost \in LostBlocks
  PROVE  lost \intersect (AllFields \union {Ios, B("outbuf")}) = {}
<1>1. Len(tmd.contents) \in Nat
  BY DEF TmdType
<1>2. CASE lost = {} \/ \E b \in LostAlone : lost = {b}
  BY <1>2, LostApart
<1>3. CASE lost \subseteq NamesLost(Len(tmd.contents))
  BY <1>1, <1>3, NamesLostApart
<1>. QED  BY <1>2, <1>3 DEF LostBlocks

\* The buffers of the next content have names that are not in use.
LEMMA NewBuffers ==
  ASSUME NEW n \in Nat \ {0}, NEW F, F \subseteq Parts \union Arrays \union Buffers(n - 1)
  PROVE  /\ Enc(n) \notin F /\ Dec(n) \notin F /\ Enc(n) # Dec(n)
         /\ Buffers(n) = Buffers(n - 1) \union {Enc(n), Dec(n)}
<1>1. n - 1 \in Nat /\ (n - 1) + 1 = n /\ n \in Nat
  OBVIOUS
<1>2. Enc((n - 1) + 1) \notin Buffers(n - 1) /\ Dec((n - 1) + 1) \notin Buffers(n - 1)
  BY <1>1, Apart
<1>3. Buffers(n) = Buffers(n - 1) \union {Enc(n), Dec(n)}
  BY <1>1 DEF Buffers
<1>4. Buffers(n) \intersect (Parts \union Arrays) = {} /\ Enc(n) # Dec(n)
  BY <1>1, Apart
<1>. QED  BY <1>1, <1>2, <1>3, <1>4

\* Nothing is lost at first.
LEMMA DownInit == Init => DownloadInv
<1>. SUFFICES ASSUME Init  PROVE  DownloadInv
  OBVIOUS
<1>1. InstallInv
  BY InstallInit
<1>2. /\ pc = "usb" /\ ret = "ok" /\ live = {} /\ fields = {} /\ ~bad /\ conts = << >>
      /\ tmd = NoTmd
  BY DEF Init
<1>3. DownTypes
  BY <1>1 DEF InstallInv, TypeOK, DownTypes, CtType, TmdType, EntryType
<1>. QED  BY <1>1, <1>2, <1>3
       DEF DownloadInv, InstallInv, DownPoint, DownHeap, DownTmd, DownCount, DownContent,
           Requests, Outside, Prepared, EsCalls, Complete

\* Every step of the download leads to a point of it, with the result it has there.
LEMMA DownPointStep ==
  ASSUME DownloadInv, DownloadIOS
  PROVE  DownPoint'
<1>. USE DEF DownloadInv, DownPoint, Requests, Outside, Prepared, EsCalls, Err, Go, Return
<1>1. CASE GetContent
  <2>1. /\ pc = "content" /\ k \in Nat \ {0}
        /\ fields \subseteq Parts \union Arrays \union Buffers(k - 1)
    BY <1>1 DEF GetContent, DownTypes, DownHeap
  <2>2. Enc(k) \notin fields /\ Enc(k) # Dec(k)
    BY <2>1, NewBuffers
  <2>3. PICK got \in BOOLEAN, memory \in BOOLEAN, n \in Lengths,
             d \in {wad.contents[k].data, Junk} :
          LET c   == Received(got, n, d)
              enc == IF got THEN {Enc(k)} ELSE {}
              new == IF memory THEN enc \union {Dec(k)} ELSE enc
          IN  \/ /\ LongEnough(c)
                 /\ Alloc(new \union (IF got THEN {} ELSE {Names(k + 2)}))
                 /\ fields' = fields \union new
                 /\ IF memory
                    THEN /\ conts' = Append(conts, c) /\ k' = k + 1
                         /\ ret' = (IF got THEN "ok" ELSE "err") /\ UNCHANGED pc
                    ELSE Err /\ UNCHANGED <<conts, k>>
              \/ /\ got
                 /\ Alloc(enc) /\ fields' = fields \union enc
                 /\ Err /\ UNCHANGED <<conts, k>>
    BY <1>1 DEF GetContent
  <2>4. CASE pc' = "err" /\ ret' = "err"
    BY <2>4
  <2>5. CASE pc' = pc /\ got /\ ret' = "ok"
    BY <2>1, <2>5
  <2>6. CASE pc' = pc /\ ~got /\ ret' = "err" /\ fields' = fields \union {Dec(k)} /\ k' = k + 1
    <3>1. k' > 1 /\ k' - 1 = k
      BY <2>1, <2>6
    <3>2. Enc(k' - 1) \notin fields'
      BY <2>2, <2>6, <3>1
    <3>. QED  BY <2>1, <2>6, <3>1, <3>2
  <2>. QED  BY <2>3, <2>4, <2>5, <2>6
<1>2. CASE Decrypt
  <2>1. pc = "content" /\ k > Len(tmd.contents) /\ fields' = fields /\ ret' = ret
        /\ pc' \in {"check", "crashed"}
    BY <1>2 DEF Decrypt, DecryptIOS, heapVars
  <2>2. ASSUME pc' = "check", ret = "err"  PROVE  FALSE
    <3>1. \A c \in DOMAIN conts : Enc(c) \in fields \/ conts[c].size = 0
      BY <1>2, <2>2 DEF Decrypt
    <3>2. /\ k > 1 /\ Enc(k - 1) \notin fields /\ Len(conts) = k - 1 /\ k \in Nat
          /\ conts \in Seq(CtType) /\ tmd \in TmdType /\ Len(conts) <= Len(tmd.contents)
      BY <2>1, <2>2 DEF DownTypes, DownCount
    <3>3. k - 1 \in DOMAIN conts
      BY <3>2
    <3>4. conts[k - 1].size = 0
      BY <3>1, <3>2, <3>3
    <3>5. 0 < tmd.contents[k - 1].size /\ tmd.contents[k - 1].size <= conts[k - 1].size
      BY <2>1, <3>3 DEF DownContent
    <3>6. tmd.contents[k - 1].size \in Nat
      <4>1. tmd.contents \in Seq(EntryType) /\ k - 1 \in 1..Len(tmd.contents)
        BY <3>2 DEF TmdType
      <4>2. tmd.contents[k - 1] \in EntryType
        BY <4>1
      <4>. QED  BY <4>2 DEF EntryType
    <3>. QED  BY <3>4, <3>5, <3>6
  <2>. QED  BY <2>1, <2>2 DEF DownTypes
<1>3. CASE \/ SelectDownload \/ InitIOS \/ NetInit \/ GetCerts \/ GetTmd \/ CopyTmd
           \/ GetTicket \/ CopyTicket
  BY <1>3 DEF SelectDownload, InitIOS, NetInit, GetCerts, GetTmd, CopyTmd, GetTicket,
     CopyTicket, GetObject, CopyObject
<1>4. CASE CheckTitle \/ SetContentCount \/ CheckHashes \/ FreeOnErr \/ DownloadReturns
  BY <1>4 DEF CheckTitle, SetContentCount, CheckHashes, FreeOnErr, DownloadReturns
<1>. QED  BY <1>1, <1>2, <1>3, <1>4 DEF DownloadIOS

\* The TMD is set when it has been received, and stays what it is.
LEMMA DownTmdStep ==
  ASSUME DownloadInv, DownloadIOS
  PROVE  DownTmd'
<1>. USE DEF DownloadInv, DownTmd, Requests, Complete, Err, Go, Return
<1>1. CASE CopyTmd
  <2>1. pc = "tmd" /\ wad' = wad /\ tmd = NoTmd
    BY <1>1 DEF CopyTmd, CopyObject
  <2>2. CASE pc' = "getTicket"
    BY <1>1, <2>1, <2>2 DEF CopyTmd, NoTmd
  <2>3. CASE pc' = "err"
    BY <2>3
  <2>. QED  BY <1>1, <2>2, <2>3 DEF CopyTmd, CopyObject
<1>2. CASE SelectDownload \/ InitIOS
  BY <1>2 DEF SelectDownload, InitIOS, NoTmd
<1>3. CASE NetInit \/ GetCerts \/ GetTmd \/ GetTicket \/ CopyTicket
  BY <1>3 DEF NetInit, GetCerts, GetTmd, GetTicket, CopyTicket, GetObject, CopyObject, NoTmd
<1>4. CASE CheckTitle \/ SetContentCount \/ GetContent \/ Decrypt \/ CheckHashes
  <2>1. tmd' = tmd /\ wad' = wad /\ pc \in {"title", "count", "content", "check"}
        /\ pc' \in {"count", "content", "check", "err", "out", "crashed"}
    BY <1>4 DEF CheckTitle, SetContentCount, GetContent, Decrypt, DecryptIOS, CheckHashes
  <2>. QED  BY <2>1
<1>5. CASE FreeOnErr \/ DownloadReturns
  BY <1>5 DEF FreeOnErr, DownloadReturns, DownPoint
<1>. QED  BY <1>1, <1>2, <1>3, <1>4, <1>5 DEF DownloadIOS

\* The TMD is what the server has, or none.
LEMMA DownTmdType ==
  ASSUME DownloadInv, DownloadIOS
  PROVE  tmd' \in TmdType
<1>1. tmd \in TmdType /\ wad \in Wads
  BY DEF DownloadInv, DownTypes
<1>2. CASE CopyTmd
  <2>1. tmd' = tmd \/ tmd' = TmdOf(wad)
    BY <1>2 DEF CopyTmd, TmdOf
  <2>. QED  BY <1>1, <2>1, TmdOfType
<1>3. CASE InitIOS
  BY <1>3, NoTmdType DEF InitIOS
<1>4. CASE tmd' = tmd
  BY <1>1, <1>4
<1>. QED  BY <1>2, <1>3, <1>4
       DEF DownloadIOS, SelectDownload, NetInit, GetCerts, GetTmd, GetTicket, CopyTicket,
           GetObject, CheckTitle, SetContentCount, GetContent, Decrypt, DecryptIOS,
           CheckHashes, FreeOnErr, DownloadReturns

\* The contents.
LEMMA DownContsType ==
  ASSUME DownloadInv, DownloadIOS
  PROVE  conts' \in Seq(CtType)
<1>1. conts \in Seq(CtType) /\ tmd \in TmdType /\ wad \in Wads /\ tmd.contents \in Seq(EntryType)
  BY DEF DownloadInv, DownTypes, TmdType
<1>2. CASE conts' = conts \/ conts' = << >>
  <2>1. << >> \in Seq(CtType)
    OBVIOUS
  <2>. QED  BY <1>1, <1>2, <2>1
<1>3. CASE GetContent
  <2>1. pc = "content" /\ k \in Nat \ {0} /\ k <= Len(tmd.contents)
    BY <1>3 DEF GetContent, DownloadInv, DownTypes
  <2>2. k \in DOMAIN wad.contents
    BY <1>1, <2>1 DEF DownloadInv, DownTmd
  <2>3. ASSUME NEW got \in BOOLEAN, NEW n \in Lengths, NEW d \in {wad.contents[k].data, Junk}
        PROVE  Received(got, n, d) \in CtType
    <3>1. wad.contents[k].index \in Nat /\ d \in Data /\ Junk \in Data
      <4>1. wad.contents \in Seq([index : Nat, size : Nat, data : Data \ {Junk},
                                  hash : Data \ {Junk}])
        BY <1>1, WadAssumption
      <4>2. wad.contents[k] \in [index : Nat, size : Nat, data : Data \ {Junk},
                                 hash : Data \ {Junk}]
        BY <2>2, <4>1, SeqOps
      <4>3. wad.contents[k].index \in Nat /\ wad.contents[k].data \in Data
        BY <4>2
      <4>4. Junk \in Data
        BY DEF Junk, Data
      <4>. QED  BY <4>3, <4>4, <2>3
    <3>2. n \in Nat
      BY DEF Lengths
    <3>3. RoundUp(tmd.contents[k].size, 4) \in Nat
      <4>1. tmd.contents[k] \in EntryType
        BY <1>1, <2>1
      <4>. QED  BY <4>1, RoundUpBounds DEF EntryType
    <3>. HIDE DEF Junk, Data
    <3>4. CASE got
      BY <3>1, <3>2, <3>4 DEF Received, CtType
    <3>5. CASE ~got
      BY <3>1, <3>3, <3>5 DEF Received, CtType
    <3>. QED  BY <3>4, <3>5
  <2>4. CASE \E got \in BOOLEAN, n \in Lengths, d \in {wad.contents[k].data, Junk} :
               conts' = Append(conts, Received(got, n, d))
    BY <1>1, <2>3, <2>4, SeqOps
  <2>. QED  BY <1>2, <1>3, <2>4 DEF GetContent
<1>4. CASE DecryptIOS
  <2>1. ASSUME NEW c \in DOMAIN conts
        PROVE  [conts[c] EXCEPT !.dec = Decrypted(conts[c].enc, c - 1)] \in CtType
    <3>1. conts[c] \in CtType
      BY <1>1, <2>1
    <3> QED BY <3>1 DEF CtType, Decrypted, Junk, Data
  <2>2. conts' = [c \in DOMAIN conts |->
                   [conts[c] EXCEPT !.dec = Decrypted(conts[c].enc, c - 1)]]
    BY <1>4 DEF DecryptIOS
  <2> QED BY <1>1, <2>1, <2>2, SeqMapType
<1>. QED  BY <1>2, <1>3, <1>4
       DEF DownloadIOS, SelectDownload, InitIOS, NetInit, GetCerts, GetTmd, CopyTmd, GetTicket,
           CopyTicket, GetObject, CopyObject, CheckTitle, SetContentCount, Decrypt, CheckHashes,
           FreeOnErr, DownloadReturns

\* The counter, and how many contents there are; the TMD has no fewer.
LEMMA DownCountStep ==
  ASSUME DownloadInv, DownloadIOS
  PROVE  DownCount' /\ k' \in 1..Len(tmd'.contents) + 1 /\ Len(conts') <= Len(tmd'.contents)
<1>. USE DEF DownCount, Requests, Complete, Err, Go, Return
<1>0. /\ k \in 1..Len(tmd.contents) + 1 /\ conts \in Seq(CtType) /\ tmd \in TmdType
      /\ Len(tmd.contents) \in Nat /\ Len(conts) <= Len(tmd.contents) /\ DownCount
  BY DEF DownloadInv, DownTypes, TmdType
<1>1. CASE GetContent
  <2>1. pc = "content" /\ tmd' = tmd /\ Len(conts) = k - 1 /\ k <= Len(tmd.contents)
    BY <1>0, <1>1 DEF GetContent
  <2>2. CASE pc' = "err" /\ conts' = conts /\ k' = k
    BY <1>0, <2>1, <2>2
  <2>3. CASE pc' = pc /\ k' = k + 1 /\ \E c : conts' = Append(conts, c)
    <3>1. Len(conts') = Len(conts) + 1
      BY <1>0, <2>3
    <3>. QED  BY <1>0, <2>1, <2>3, <3>1
  <2>. QED  BY <1>1, <2>2, <2>3 DEF GetContent
<1>2. CASE Decrypt
  <2>1. pc = "content" /\ k > Len(tmd.contents) /\ tmd' = tmd /\ k' = k
        /\ pc' \in {"check", "crashed"} /\ Len(conts) = k - 1
    BY <1>0, <1>2 DEF Decrypt, DecryptIOS
  <2>2. Len(conts') = Len(conts)
    <3>1. conts' = [c \in DOMAIN conts |-> conts'[c]] \/ conts' = conts
      BY <1>2 DEF Decrypt, DecryptIOS
    <3>. QED  BY <1>0, <3>1, SeqMap
  <2>. QED  BY <1>0, <2>1, <2>2
<1>3. CASE CopyTmd
  <2>1. k = 1 /\ conts = << >> /\ k' = k /\ conts' = conts
    BY <1>0, <1>3 DEF CopyTmd, CopyObject
  <2>2. Len(tmd'.contents) \in Nat
    BY <1>3, DownTmdType DEF TmdType
  <2>3. pc' \in {"getTicket", "err"}
    BY <1>3 DEF CopyTmd, CopyObject
  <2>. QED  BY <2>1, <2>2, <2>3
<1>4. CASE InitIOS
  BY <1>4 DEF InitIOS, NoTmd
<1>5. CASE \/ SelectDownload \/ NetInit \/ GetCerts \/ GetTmd \/ GetTicket \/ CopyTicket
           \/ CheckTitle
  BY <1>0, <1>5 DEF SelectDownload, NetInit, GetCerts, GetTmd, GetTicket, CopyTicket,
     GetObject, CopyObject, CheckTitle
<1>6. CASE SetContentCount
  <2>1. k = 1 /\ conts = << >> /\ Len(conts) = k - 1
    BY <1>0, <1>6 DEF SetContentCount
  <2>2. UNCHANGED <<k, conts, tmd>> /\ pc' \in {"content", "err"}
        /\ (pc' = "err" => ret' = "err")
    BY <1>6 DEF SetContentCount
  <2>. QED  BY <1>0, <2>1, <2>2
<1>7. CASE CheckHashes \/ FreeOnErr \/ DownloadReturns
  BY <1>0, <1>7 DEF CheckHashes, FreeOnErr, DownloadReturns, DownloadInv, DownPoint
<1>. QED  BY <1>1, <1>2, <1>3, <1>4, <1>5, <1>6, <1>7 DEF DownloadIOS

LEMMA DownTypesStep ==
  ASSUME DownloadInv, DownloadIOS
  PROVE  DownTypes'
<1>. USE DEF args, esVars, Go, Err, Return
<1>1. DownTypes
  BY DEF DownloadInv
<1>2. /\ ret' \in {"ok", "err"} /\ call' \in Calls /\ attempt' \in Attempts /\ wad' \in Wads
      /\ es' = es /\ runs' = runs
  <2>1. CASE \/ SelectDownload \/ InitIOS \/ NetInit \/ GetCerts \/ GetTmd \/ CopyTmd
             \/ GetTicket \/ CopyTicket
    BY <1>1, <2>1 DEF SelectDownload, InitIOS, NetInit, GetCerts, GetTmd, CopyTmd, GetTicket,
       CopyTicket, GetObject, CopyObject, DownTypes
  <2>2. CASE \/ CheckTitle \/ SetContentCount \/ GetContent \/ Decrypt \/ CheckHashes
             \/ FreeOnErr \/ DownloadReturns
    BY <1>1, <2>2 DEF CheckTitle, SetContentCount, GetContent, Decrypt, DecryptIOS, CheckHashes,
       FreeOnErr, DownloadReturns, DownTypes
  <2>. QED  BY <2>1, <2>2 DEF DownloadIOS
<1>. QED  BY <1>1, <1>2, DownTmdType, DownContsType, DownCountStep DEF DownTypes

\* What is known of the contents.
LEMMA DownContentStep ==
  ASSUME DownloadInv, DownloadIOS
  PROVE  DownContent'
<1>1. /\ conts \in Seq(CtType) /\ tmd \in TmdType /\ tmd.contents \in Seq(EntryType)
      /\ wad \in Wads /\ k \in Nat \ {0} /\ Len(conts) <= Len(tmd.contents)
      /\ DownContent
  BY DEF DownloadInv, DownTypes, TmdType
<1>2. CASE pc' \notin {"content", "check", "out"} \/ conts' = << >> \/ (pc' = "out" /\ ret' = "err")
  BY <1>2 DEF DownContent, Complete
<1>3. CASE GetContent /\ pc' = "content"
  <2>1. /\ pc = "content" /\ k <= Len(tmd.contents) /\ Len(conts) = k - 1 /\ tmd' = tmd
        /\ fields \subseteq Parts \union Arrays \union Buffers(k - 1)
    BY <1>3 DEF GetContent, DownloadInv, DownCount, DownHeap
  <2>2. PICK got \in BOOLEAN, n \in Lengths, d \in {wad.contents[k].data, Junk} :
          /\ LongEnough(Received(got, n, d))
          /\ conts' = Append(conts, Received(got, n, d))
          /\ fields' = fields \union (IF got THEN {Enc(k), Dec(k)} ELSE {Dec(k)})
    BY <1>3 DEF GetContent, Err
  <2>. DEFINE e == Received(got, n, d)
  <2>3. /\ tmd.contents[k] \in EntryType /\ tmd.contents[k].size \in Nat
        /\ tmd.contents[k].index = wad.contents[k].index
        /\ 0 < tmd.contents[k].size
    <3>1. tmd.contents[k] \in EntryType /\ k \in DOMAIN tmd.contents
      BY <1>1, <2>1
    <3>2. /\ tmd.contents[k].index = wad.contents[k].index
          /\ tmd.contents[k].size = wad.contents[k].size /\ k \in DOMAIN wad.contents
      BY <2>1, <3>1 DEF DownloadInv, DownTmd
    <3>3. wad.contents[k].size > 0
      BY <1>1, <3>2, DownloadAssumption
    <3>. QED  BY <3>1, <3>2, <3>3 DEF EntryType
  <2>4. /\ n \in Nat /\ RoundUp(tmd.contents[k].size, 4) \in Nat
    BY <2>3, RoundUpBounds DEF Lengths
  <2>5. /\ e.size = e.decCap /\ e.size \in Nat /\ (got => e.encCap = e.size)
        /\ e.enc.iv = tmd.contents[k].index
        /\ tmd.contents[k].size <= e.size
    <3>1. e.size >= tmd.contents[k].size
      BY <2>2 DEF LongEnough
    <3>2. e.size = e.decCap /\ e.size \in Nat /\ (got => e.encCap = e.size)
          /\ e.enc.iv = wad.contents[k].index
      BY <2>4 DEF Received
    <3>. QED  BY <2>3, <3>1, <3>2
  <2>. HIDE DEF e
  <2>6. conts' = Append(conts, e)
    BY <2>2 DEF e
  <2>7. /\ DOMAIN conts' = DOMAIN conts \union {k} /\ conts'[k] = e
        /\ \A c \in DOMAIN conts : conts'[c] = conts[c] /\ c \in Nat /\ c < k
    BY <1>1, <2>1, <2>6
  <2>8. ASSUME NEW c \in DOMAIN conts, Enc(c) \in fields'  PROVE  Enc(c) \in fields
    BY <2>2, <2>7, <2>8 DEF Enc, Dec
  <2>9. Enc(k) \in fields' => got
    <3>1. Enc(k) \notin fields /\ Enc(k) # Dec(k)
      BY <1>1, <2>1, NewBuffers
    <3>. QED  BY <2>2, <3>1
  <2>10. \A c \in DOMAIN conts :
           /\ conts[c].size <= conts[c].decCap
           /\ 0 < tmd.contents[c].size /\ tmd.contents[c].size <= conts[c].size
           /\ Enc(c) \in fields => conts[c].size <= conts[c].encCap
           /\ conts[c].enc.iv = tmd.contents[c].index
    BY <1>1, <2>1 DEF DownContent
  <2>11. \A c \in DOMAIN conts' :
           /\ conts'[c].size <= conts'[c].decCap
           /\ 0 < tmd'.contents[c].size /\ tmd'.contents[c].size <= conts'[c].size
           /\ Enc(c) \in fields' => conts'[c].size <= conts'[c].encCap
           /\ conts'[c].enc.iv = tmd'.contents[c].index
    BY <2>1, <2>3, <2>5, <2>7, <2>8, <2>9, <2>10
  <2>. QED  BY <1>3, <2>11 DEF DownContent
<1>4. CASE Decrypt /\ pc' = "check"
  <2>1. pc = "content" /\ tmd' = tmd /\ fields' = fields /\ DOMAIN conts' = DOMAIN conts
    BY <1>1, <1>4 DEF Decrypt, DecryptIOS, heapVars
  <2>2. ASSUME NEW c \in DOMAIN conts
        PROVE  /\ conts'[c].size = conts[c].size /\ conts'[c].encCap = conts[c].encCap
               /\ conts'[c].decCap = conts[c].decCap /\ conts'[c].enc = conts[c].enc
               /\ conts'[c].dec = Decrypted(conts[c].enc, c - 1)
    <3>1. conts[c] \in CtType
      BY <1>1
    <3>2. conts'[c] = [conts[c] EXCEPT !.dec = Decrypted(conts[c].enc, c - 1)]
      BY <1>4 DEF Decrypt, DecryptIOS, Go
    <3>. QED  BY <3>1, <3>2 DEF CtType
  <2>3. ASSUME NEW c \in DOMAIN conts  PROVE  Enc(c) \in fields
    <3>1. Enc(c) \in fields \/ conts[c].size = 0
      BY <1>4 DEF Decrypt, Go
    <3>2. 0 < tmd.contents[c].size /\ tmd.contents[c].size <= conts[c].size
      BY <1>1, <2>1 DEF DownContent
    <3>3. tmd.contents[c].size \in Nat
      <4>1. tmd.contents[c] \in EntryType
        BY <1>1
      <4>. QED  BY <4>1 DEF EntryType
    <3>. QED  BY <3>1, <3>2, <3>3
  <2>4. \A c \in DOMAIN conts' :
          /\ conts'[c].size <= conts'[c].decCap
          /\ 0 < tmd'.contents[c].size /\ tmd'.contents[c].size <= conts'[c].size
          /\ conts'[c].size <= conts'[c].encCap /\ Enc(c) \in fields'
          /\ conts'[c].enc.iv = tmd'.contents[c].index
          /\ conts'[c].dec = Decrypted(conts'[c].enc, c - 1)
    BY <1>1, <2>1, <2>2, <2>3 DEF DownContent
  <2>. QED  BY <1>4, <2>4 DEF DownContent
<1>5. CASE CheckHashes /\ pc' = "out"
  <2>1. pc = "check" /\ UNCHANGED <<tmd, conts, fields>>
        /\ \A c \in DOMAIN conts : conts[c].dec = tmd.contents[c].hash
    BY <1>5 DEF CheckHashes, Err, heapVars
  <2>2. ASSUME NEW c \in DOMAIN conts
        PROVE  /\ tmd.contents[c].index = c - 1
               /\ conts[c].enc = [iv |-> c - 1, data |-> conts[c].dec]
    <3>1. conts[c].dec # Junk /\ conts[c].enc \in [iv : Nat, data : Data]
      <4>1. conts[c] \in CtType /\ tmd.contents[c] \in EntryType
        BY <1>1
      <4>. QED  BY <2>1, <4>1 DEF EntryType, CtType
    <3>2. /\ conts[c].dec = Decrypted(conts[c].enc, c - 1)
          /\ conts[c].enc.iv = tmd.contents[c].index
      BY <1>1, <2>1 DEF DownContent
    <3>3. conts[c].enc.iv = c - 1 /\ conts[c].enc.data = conts[c].dec
      BY <3>1, <3>2 DEF Decrypted
    <3>. QED  BY <3>1, <3>2, <3>3
  <2>3. \A c \in DOMAIN conts :
          /\ conts[c].size <= conts[c].decCap
          /\ 0 < tmd.contents[c].size /\ tmd.contents[c].size <= conts[c].size
          /\ Enc(c) \in fields => conts[c].size <= conts[c].encCap
          /\ Enc(c) \in fields
    BY <1>1, <2>1 DEF DownContent
  <2>. QED  BY <1>5, <2>1, <2>2, <2>3 DEF DownContent
<1>6. CASE SetContentCount
  <2>1. conts' = << >>
    BY <1>6 DEF SetContentCount, DownloadInv, DownCount, Requests
  <2>. QED  BY <1>2, <2>1
<1>7. CASE InitIOS
  BY <1>2, <1>7 DEF InitIOS
<1>8. CASE FreeOnErr
  BY <1>2, <1>8 DEF FreeOnErr, DownloadInv, DownPoint, Go
<1>9. CASE \/ SelectDownload \/ NetInit \/ GetCerts \/ GetTmd \/ CopyTmd
           \/ GetTicket \/ CopyTicket \/ CheckTitle \/ DownloadReturns
  BY <1>2, <1>9 DEF SelectDownload, NetInit, GetCerts, GetTmd, CopyTmd, GetTicket,
     CopyTicket, GetObject, CopyObject, CheckTitle, DownloadReturns, Go, Err, Return
<1>10. CASE GetContent \/ Decrypt \/ CheckHashes
  <2>1. CASE GetContent
    BY <1>2, <1>3, <2>1 DEF GetContent, Err
  <2>2. CASE Decrypt
    BY <1>2, <1>4, <2>2 DEF Decrypt, DecryptIOS, Go
  <2>3. CASE CheckHashes
    BY <1>2, <1>5, <2>3 DEF CheckHashes, Go, Err
  <2>. QED  BY <1>10, <2>1, <2>2, <2>3
<1>. QED  BY <1>6, <1>7, <1>8, <1>9, <1>10 DEF DownloadIOS

\* What has to be shown of a step to an error, and of a step that goes on.
LEMMA DownIntoErr ==
  ASSUME pc' = "err", ~bad', fields' \subseteq AllFields',
         NEW lost \in LostBlocks', live' = Owned' \union lost
  PROVE  DownHeap'
BY DEF DownHeap, Requests, Prepared, EsCalls

LEMMA DownIntoRequest ==
  ASSUME pc' \in Requests \ {"content"}, ~bad', fields' \subseteq AllFields',
         live' = Owned' \union (IF pc' \in {"tmd", "ticket"} THEN {Buffer(pc)'} ELSE {}),
         pc' # "check" => fields' \subseteq HadAt(pc)'
  PROVE  DownHeap'
BY DEF DownHeap, Requests, Prepared, EsCalls, Buffer

LEMMA DownIntoContent ==
  ASSUME pc' = "content", ~bad', fields' \subseteq AllFields',
         NEW lost \in SUBSET NamesLost(k - 1)', live' = Owned' \union lost,
         (fields \subseteq Parts \union Arrays \union Buffers(k - 1))'
  PROVE  DownHeap'
BY DEF DownHeap, Requests, Prepared, EsCalls

\* One of the two objects is requested: if that fails, the names are lost.
LEMMA HeapObject ==
  ASSUME DownloadInv, NEW at, NEW part, NEW n, GetObject(at, part, n),
         <<at, part, n>> \in {<<"getTmd", "tmd", 1>>, <<"getTicket", "ticket", 2>>}
  PROVE  DownHeap'
<1>1. /\ pc = at /\ live = Owned /\ fields \subseteq HadAt(at) /\ ~bad
      /\ fields \subseteq AllFields /\ AllFields' = AllFields /\ fields' = fields
  BY DEF GetObject, DownloadInv, DownHeap, Requests, AllFields, Buffers
<1>2. HadAt(part) = HadAt(at)
  BY DEF HadAt
<1>3. CASE Alloc({Buffer(part)}) /\ pc' = part
  <2>1. Buffer(part) \notin live
    BY <1>1, LostApart DEF Owned, LostAlone
  <2>2. ~bad' /\ live' = Owned' \union {Buffer(part)}
    BY <1>1, <1>3, <2>1, AllocOK DEF Owned
  <2>3. HadAt(pc)' = HadAt(part) /\ Buffer(pc)' = Buffer(part)
    BY <1>3 DEF HadAt, Buffer
  <2>. QED  BY <1>1, <1>2, <1>3, <2>2, <2>3, DownIntoRequest DEF Requests
<1>4. CASE pc' = "err" /\ Alloc({Names(n)})
  <2>1. Names(n) \in LostAlone
    BY DEF LostAlone
  <2>2. Names(n) \notin live /\ {Names(n)} \in LostBlocks'
    BY <1>1, <2>1, LostApart DEF Owned, LostBlocks, LostAlone
  <2>3. ~bad' /\ live' = Owned' \union {Names(n)}
    BY <1>1, <1>4, <2>2, AllocOK DEF Owned
  <2>. QED  BY <1>1, <1>4, <2>2, <2>3, DownIntoErr
<1>. QED  BY <1>3, <1>4 DEF GetObject, Go, Err

\* ... and copied: only if there is no memory for it, its buffer is lost.
LEMMA HeapCopy ==
  ASSUME DownloadInv, NEW part, NEW next, CopyObject(part, next),
         <<part, next>> \in {<<"tmd", "getTicket">>, <<"ticket", "title">>}
  PROVE  DownHeap'
<1>1. /\ pc = part /\ live = Owned \union {Buffer(part)} /\ fields \subseteq HadAt(part) /\ ~bad
  BY DEF CopyObject, DownloadInv, DownHeap, Requests
<1>2. /\ HadAt(part) \union {B(part)} \subseteq HadAt(next)
      /\ HadAt(next) \subseteq Parts /\ HadAt(part) \subseteq Parts /\ B(part) \in Parts
  BY DEF HadAt, Parts
<1>3. Parts \subseteq AllFields' /\ Parts \subseteq AllFields
  BY DEF AllFields
<1>4. CASE /\ live' = (live \ {Buffer(part)}) \union {B(part)}
           /\ fields' = fields \union {B(part)} /\ bad' = bad /\ pc' \in {next, "err"}
  <2>1. Buffer(part) \notin Owned
    BY <1>1, <1>2, <1>3, LostApart DEF Owned, LostAlone
  <2>2. live' = Owned' /\ fields' \subseteq HadAt(next) /\ fields' \subseteq AllFields'
    BY <1>1, <1>2, <1>3, <1>4, <2>1 DEF Owned
  <2>3. CASE pc' = next
    <3>1. HadAt(pc)' = HadAt(next)
      BY <2>3 DEF HadAt
    <3>. QED  BY <1>1, <1>4, <2>2, <2>3, <3>1, DownIntoRequest DEF Requests
  <2>4. CASE pc' = "err"
    <3>1. {} \in LostBlocks' /\ live' = Owned' \union {}
      BY <2>2 DEF LostBlocks
    <3>. QED  BY <1>1, <1>4, <2>2, <2>4, <3>1, DownIntoErr
  <2>. QED  BY <1>4, <2>3, <2>4
<1>5. CASE pc' = "err" /\ UNCHANGED heapVars
  <2>1. /\ {Buffer(part)} \in LostBlocks' /\ live' = Owned' \union {Buffer(part)}
        /\ fields' \subseteq AllFields' /\ ~bad'
    BY <1>1, <1>2, <1>3, <1>5 DEF LostBlocks, LostAlone, heapVars, Owned
  <2>. QED  BY <1>5, <2>1, DownIntoErr
<1>. QED  BY <1>4, <1>5 DEF CopyObject, Go, Err

\* The blocks that the request of a content allocates, and which of them stay.
LEMMA ReceivedBlocks ==
  ASSUME GetContent, Enc(k) # Dec(k)
  PROVE  \E new \in SUBSET {Enc(k), Dec(k)}, names \in SUBSET {Names(k + 2)} :
           /\ Alloc(new \union names) /\ fields' = fields \union new
           /\ names # {} => Enc(k) \notin new
           /\ \/ pc' = "content" /\ k' = k + 1
              \/ pc' = "err"
<1>1. PICK got \in BOOLEAN, memory \in BOOLEAN :
        LET enc == IF got THEN {Enc(k)} ELSE {}
            new == IF memory THEN enc \union {Dec(k)} ELSE enc
        IN  \/ /\ Alloc(new \union (IF got THEN {} ELSE {Names(k + 2)}))
               /\ fields' = fields \union new
               /\ \/ pc' = "content" /\ k' = k + 1
                  \/ pc' = "err"
            \/ /\ got
               /\ Alloc(enc) /\ fields' = fields \union enc /\ pc' = "err"
  BY DEF GetContent, Err
<1>. DEFINE enc == IF got THEN {Enc(k)} ELSE {}
            new == IF memory THEN enc \union {Dec(k)} ELSE enc
            names == IF got THEN {} ELSE {Names(k + 2)}
<1>2. CASE /\ Alloc(new \union names) /\ fields' = fields \union new
           /\ \/ pc' = "content" /\ k' = k + 1
              \/ pc' = "err"
  <2>1. new \in SUBSET {Enc(k), Dec(k)} /\ names \in SUBSET {Names(k + 2)}
    OBVIOUS
  <2>2. names # {} => Enc(k) \notin new
    OBVIOUS
  <2>. HIDE DEF new, names
  <2>. QED  BY <1>2, <2>1, <2>2
<1>3. CASE got /\ Alloc(enc) /\ fields' = fields \union enc /\ pc' = "err"
  <2>1. enc \in SUBSET {Enc(k), Dec(k)} /\ enc \union {} = enc /\ {} \in SUBSET {Names(k + 2)}
    OBVIOUS
  <2>. HIDE DEF enc
  <2>. QED  BY <1>3, <2>1
<1>. QED  BY <1>1, <1>2, <1>3

\* The arrays over the contents, and the buffers of each content.
LEMMA HeapReceived ==
  ASSUME DownloadInv, SetContentCount \/ GetContent
  PROVE  DownHeap'
<1>0. DownHeap /\ DownTypes
  BY DEF DownloadInv
<1>1. CASE SetContentCount
  <2>1. /\ live = Owned /\ ~bad /\ fields \subseteq Parts
        /\ AllFields' = AllFields /\ Parts \union Arrays \subseteq AllFields
    BY <1>0, <1>1 DEF SetContentCount, DownHeap, Requests, HadAt, AllFields, Buffers
  <2>2. CASE pc' = "content" /\ UNCHANGED heapVars
    <3>1. {} \in SUBSET NamesLost(k - 1)' /\ live' = Owned' \union {} /\ ~bad'
          /\ fields' \subseteq Parts /\ fields' \subseteq AllFields'
      BY <2>1, <2>2 DEF heapVars, Owned
    <3>. QED  BY <2>2, <3>1, DownIntoContent
  <2>3. ASSUME NEW got \in SUBSET Arrays, Alloc(got), fields' = fields \union got,
               pc' \in {"content", "err"}
        PROVE  DownHeap'
    <3>1. got \intersect live = {}
      BY <2>1, Apart DEF Owned
    <3>2. ~bad' /\ live' = Owned' /\ fields' \subseteq Parts \union Arrays
          /\ fields' \subseteq AllFields'
      BY <2>1, <2>3, <3>1, AllocOK DEF Owned
    <3>3. CASE pc' = "content"
      <4>1. {} \in SUBSET NamesLost(k - 1)' /\ live' = Owned' \union {}
        BY <3>2
      <4>. QED  BY <3>2, <3>3, <4>1, DownIntoContent
    <3>4. CASE pc' = "err"
      <4>1. {} \in LostBlocks' /\ live' = Owned' \union {}
        BY <3>2 DEF LostBlocks
      <4>. QED  BY <3>2, <3>4, <4>1, DownIntoErr
    <3>. QED  BY <2>3, <3>3, <3>4
  <2>. QED  BY <1>1, <2>2, <2>3 DEF SetContentCount, Go, Err
<1>2. CASE GetContent
  <2>1. /\ pc = "content" /\ ~bad
        /\ fields \subseteq Parts \union Arrays \union Buffers(k - 1)
        /\ k \in Nat \ {0} /\ k <= Len(tmd.contents) /\ Len(tmd.contents) \in Nat
        /\ AllFields' = AllFields /\ tmd' = tmd
    <3>1. pc = "content" /\ k <= Len(tmd.contents) /\ tmd' = tmd
      BY <1>2 DEF GetContent
    <3>2. ~bad /\ fields \subseteq Parts \union Arrays \union Buffers(k - 1)
      BY <1>0, <3>1 DEF DownHeap, Requests
    <3>3. k \in Nat \ {0} /\ Len(tmd.contents) \in Nat
      BY <1>0, TmdOfType DEF DownTypes
    <3>. QED  BY <3>1, <3>2, <3>3 DEF AllFields, Buffers
  <2>2. PICK lost \in SUBSET NamesLost(k - 1) : live = Owned \union lost
    BY <1>0, <2>1 DEF DownHeap
  <2>3. /\ Enc(k) \notin fields /\ Dec(k) \notin fields /\ Enc(k) # Dec(k)
        /\ Buffers(k) = Buffers(k - 1) \union {Enc(k), Dec(k)}
    BY <2>1, NewBuffers
  <2>4. Buffers(k) \subseteq AllFields /\ fields \subseteq AllFields
    BY <1>0, <2>1 DEF Buffers, AllFields, DownHeap
  <2>5. PICK new \in SUBSET {Enc(k), Dec(k)}, names \in SUBSET {Names(k + 2)} :
          /\ Alloc(new \union names) /\ fields' = fields \union new
          /\ names # {} => Enc(k) \notin new
          /\ \/ pc' = "content" /\ k' = k + 1
             \/ pc' = "err"
    BY <1>2, <2>1, <2>3, ReceivedBlocks
  <2>6. (new \union names) \intersect live = {}
    <3>1. new \intersect Owned = {}
      BY <2>3, <2>4, Apart DEF Owned
    <3>2. new \intersect lost = {}
      BY <2>1, <2>2, <2>3, <2>4, NamesLostApart
    <3>3. Names(k + 2) \notin Owned
      BY <2>1, <2>4, NamesApart DEF Owned
    <3>4. Names(k + 2) \notin NamesLost(k - 1)
      <4>1. ASSUME NEW c \in 1..(k - 1)  PROVE  Names(c + 2) # Names(k + 2)
        <5>1. c + 2 \in Nat /\ k + 2 \in Nat /\ c + 2 # k + 2
          BY <2>1
        <5>. QED  BY <5>1, NamesApart
      <4>. QED  BY <4>1 DEF NamesLost
    <3>. QED  BY <2>2, <3>1, <3>2, <3>3, <3>4
  <2>7. ~bad' /\ live' = Owned' \union (lost \union names) /\ fields' \subseteq AllFields'
    BY <2>1, <2>2, <2>3, <2>4, <2>5, <2>6, AllocOK DEF Owned
  <2>8. ASSUME NEW n \in Nat, k <= n
        PROVE  lost \union names \subseteq
                 {Names(c + 2) : c \in {i \in 1..n : Enc(i) \notin fields'}}
    <3>1. ASSUME NEW c \in 1..(k - 1), Enc(c) \notin fields
          PROVE  c \in 1..n /\ Enc(c) \notin fields'
      <4>1. Enc(c) # Enc(k) /\ Enc(c) # Dec(k)
        BY <2>1 DEF Enc, Dec
      <4>. QED  BY <2>1, <2>5, <2>8, <3>1, <4>1
    <3>2. lost \subseteq {Names(c + 2) : c \in {i \in 1..n : Enc(i) \notin fields'}}
      BY <2>2, <3>1 DEF NamesLost
    <3>3. names # {} => Enc(k) \notin fields' /\ k \in 1..n
      BY <2>1, <2>3, <2>5, <2>8
    <3>. QED  BY <2>5, <3>2, <3>3
  <2>9. CASE pc' = "content" /\ k' = k + 1
    <3>1. fields' \subseteq Parts \union Arrays \union Buffers(k' - 1)
      BY <2>1, <2>3, <2>5, <2>9
    <3>2. k' - 1 = k /\ k \in Nat
      BY <2>1, <2>9
    <3>3. lost \union names \in SUBSET NamesLost(k - 1)'
      BY <2>8, <3>2 DEF NamesLost
    <3>. QED  BY <2>7, <2>9, <3>1, <3>3, DownIntoContent
  <2>10. CASE pc' = "err"
    <3>1. lost \union names \in SUBSET NamesLost(Len(tmd.contents))'
      BY <2>1, <2>8 DEF NamesLost
    <3>2. lost \union names \in LostBlocks'
      BY <3>1 DEF LostBlocks
    <3>. QED  BY <2>7, <2>10, <3>2, DownIntoErr
  <2>. QED  BY <2>5, <2>9, <2>10
<1>. QED  BY <1>1, <1>2

\* All of the download.
LEMMA DownHeapStep ==
  ASSUME DownloadInv, DownloadIOS, pc' \notin Prepared
  PROVE  DownHeap'
<1>0. DownHeap /\ DownPoint
  BY DEF DownloadInv
<1>1. CASE GetTmd \/ GetTicket
  BY <1>1, HeapObject DEF GetTmd, GetTicket
<1>2. CASE CopyTmd \/ CopyTicket
  BY <1>2, HeapCopy DEF CopyTmd, CopyTicket
<1>3. CASE SetContentCount \/ GetContent
  BY <1>3, HeapReceived
<1>4. CASE SelectDownload
  <2>1. /\ pc = "usb" /\ pc' = "init" /\ UNCHANGED heapVars /\ tmd' = tmd
    BY <1>4 DEF SelectDownload, Go
  <2>. QED  BY <1>0, <2>1 DEF DownHeap, heapVars, Requests, Prepared, AllFields, Buffers
<1>5. CASE InitIOS
  <2>1. live = {} /\ ~bad /\ fields' = {}
    BY <1>0, <1>5 DEF InitIOS, DownHeap
  <2>2. CASE Alloc({Ios}) /\ pc' = "open"
    <3>1. ~bad' /\ live' = {Ios}
      BY <2>1, <2>2, AllocOK
    <3>. QED  BY <2>1, <2>2, <3>1, DownIntoRequest DEF Owned, Requests
  <2>3. CASE UNCHANGED <<live, bad>> /\ ret' = "err" /\ pc' = "out"
    BY <2>1, <2>3 DEF DownHeap, Requests, LostBlocks
  <2>. QED  BY <1>5, <2>2, <2>3 DEF InitIOS
<1>6. CASE NetInit \/ GetCerts \/ CheckTitle \/ CheckHashes
  <2>1. /\ pc \in {"open", "certs", "title", "check"} /\ tmd'.contents = tmd.contents
        /\ live = Owned /\ ~bad /\ fields \subseteq AllFields
    BY <1>0, <1>6 DEF NetInit, GetCerts, CheckTitle, CheckHashes, DownHeap,
       Requests
  <2>2. AllFields' = AllFields /\ Parts \subseteq AllFields
    BY <2>1 DEF AllFields, Buffers
  <2>3. CASE UNCHANGED heapVars /\ ~(GetCerts /\ Alloc({B("certs")}) /\ pc' = "getTmd")
    <3>1. live' = Owned' /\ ~bad' /\ fields' \subseteq AllFields' /\ {} \in LostBlocks'
          /\ live' = Owned' \union {}
      BY <2>1, <2>2, <2>3 DEF heapVars, Owned, LostBlocks
    <3>2. CASE pc' = "err"
      BY <3>1, <3>2, DownIntoErr
    <3>3. CASE pc' \in {"certs", "count"}
      <4>1. pc = "open" \/ pc = "title"
        BY <1>6, <3>3 DEF NetInit, GetCerts, CheckTitle, CheckHashes, Err, Go
      <4>2. HadAt(pc)' = HadAt(pc) /\ fields' \subseteq HadAt(pc)
        BY <1>0, <1>6, <2>3, <3>3, <4>1
           DEF NetInit, GetCerts, CheckTitle, CheckHashes, Err, Go, heapVars,
               DownHeap, Requests, HadAt
      <4>. QED  BY <3>1, <3>3, <4>2, DownIntoRequest DEF Requests
    <3>4. CASE pc' = "out" /\ ret' = "ok"
      BY <3>1, <3>4 DEF DownHeap, Requests
    <3>5. pc' = "out" => ret' = "ok"
      BY <1>0, <1>6 DEF NetInit, GetCerts, CheckTitle, CheckHashes, Err, Go,
         DownPoint, Requests
    <3>6. pc' \in {"err", "certs", "count", "out"}
      BY <1>6, <2>3 DEF NetInit, GetCerts, CheckTitle, CheckHashes, Err, Go
    <3>. QED  BY <3>2, <3>3, <3>4, <3>5, <3>6
  <2>4. CASE GetCerts /\ Alloc({B("certs")}) /\ fields' = fields \union {B("certs")}
             /\ pc' = "getTmd"
    <3>1. fields = {}
      BY <1>0, <2>4 DEF GetCerts, DownHeap, Requests, HadAt
    <3>2. B("certs") \in Parts /\ B("certs") \notin live
      BY <2>1, <2>2, <3>1, Apart DEF Owned, Parts
    <3>3. ~bad' /\ live' = Owned'
      BY <2>1, <2>4, <3>2, AllocOK DEF Owned
    <3>4. fields' \subseteq HadAt(pc)' /\ fields' \subseteq AllFields'
      BY <2>2, <2>4, <3>1, <3>2 DEF HadAt
    <3>. QED  BY <2>4, <3>3, <3>4, DownIntoRequest DEF Requests
  <2>5. \/ UNCHANGED heapVars /\ ~(GetCerts /\ Alloc({B("certs")}) /\ pc' = "getTmd")
        \/ GetCerts /\ Alloc({B("certs")}) /\ fields' = fields \union {B("certs")}
           /\ pc' = "getTmd"
    BY <1>6 DEF NetInit, GetCerts, CheckTitle, CheckHashes, heapVars, Go, Err
  <2>. QED  BY <2>3, <2>4, <2>5
<1>7. CASE FreeOnErr
  <2>1. PICK lost \in LostBlocks : live = Owned \union lost
    BY <1>0, <1>7 DEF FreeOnErr, DownHeap
  <2>2. /\ ~bad /\ fields \subseteq AllFields /\ AllFields' = AllFields
        /\ ret' = "err" /\ pc' = "out" /\ tmd' = tmd /\ tmd \in TmdType
    BY <1>0, <1>7 DEF FreeOnErr, DownHeap, DownPoint, Go, AllFields, Buffers, DownloadInv,
       DownTypes
  <2>3. lost \intersect Owned = {}
    BY <2>2, BlocksApart DEF Owned
  <2>4. ~bad' /\ live' = lost /\ fields' = fields
    BY <1>7, <2>1, <2>2, <2>3, FreeOK DEF FreeOnErr, FreeIOS, Owned
  <2>5. lost \in LostBlocks'
    BY <2>2, <2>4 DEF LostBlocks, LostAlone, NamesLost
  <2>. QED  BY <2>2, <2>4, <2>5 DEF DownHeap, Requests
<1>8. CASE DownloadReturns
  <2>1. /\ pc = "out" /\ pc' = "return" /\ ret # "ok" /\ ret' = "err" /\ UNCHANGED heapVars
        /\ tmd' = tmd
    BY <1>8 DEF DownloadReturns, Go, Return, Prepared
  <2>2. LostBlocks' = LostBlocks
    BY <2>1 DEF LostBlocks, LostAlone, NamesLost, heapVars
  <2>. QED  BY <1>0, <2>1, <2>2 DEF DownHeap, heapVars, Requests, AllFields, Buffers
<1>9. CASE Decrypt
  <2>1. /\ pc = "content" /\ tmd'.contents = tmd.contents /\ UNCHANGED <<live, fields, bad, tmd>>
        /\ pc' \in {"check", "crashed"} /\ Len(conts) = k - 1
        /\ conts \in Seq(CtType) /\ tmd \in TmdType /\ k \in Nat /\ Len(conts) <= Len(tmd.contents)
    BY <1>9 DEF Decrypt, DecryptIOS, heapVars, Go, DownloadInv, DownCount, DownTypes
  <2>2. PICK lost \in SUBSET NamesLost(k - 1) : live = Owned \union lost
    BY <1>0, <2>1 DEF DownHeap
  <2>3. ~bad' /\ fields' \subseteq AllFields' /\ live' = Owned' \union lost
    BY <1>0, <2>1, <2>2 DEF DownHeap, AllFields, Owned, Buffers
  <2>4. CASE pc' = "crashed"
    <3>1. k - 1 <= Len(tmd.contents) /\ Len(tmd.contents) \in Nat
      BY <2>1 DEF TmdType
    <3>2. NamesLost(k - 1) \subseteq NamesLost(Len(tmd.contents))
      BY <2>1, <3>1 DEF NamesLost
    <3>3. lost \in SUBSET NamesLost(Len(tmd.contents))'
      BY <2>1, <2>2, <3>2 DEF NamesLost
    <3>4. lost \in LostBlocks'
      BY <3>3 DEF LostBlocks
    <3>. QED  BY <2>3, <2>4, <3>4 DEF DownHeap, Requests
  <2>5. CASE pc' = "check"
    <3>1. DOMAIN conts' = DOMAIN conts
      BY <1>9, <2>1, <2>5 DEF Decrypt, DecryptIOS, Go
    <3>2. \A c \in DOMAIN conts : Enc(c) \in fields
      BY <2>1, <2>5, <3>1, DownContentStep DEF DownContent
    <3>3. DOMAIN conts = 1..(k - 1)
      BY <2>1
    <3>4. lost = {}
      BY <2>2, <3>2, <3>3 DEF NamesLost
    <3>. QED  BY <2>3, <2>5, <3>4, DownIntoRequest DEF Requests
  <2>. QED  BY <2>1, <2>4, <2>5
<1>. QED  BY <1>1, <1>2, <1>3, <1>4, <1>5, <1>6, <1>7, <1>8, <1>9 DEF DownloadIOS

\* ES has no part in the download.
LEMMA DownEsStep ==
  ASSUME DownloadInv, DownloadIOS
  PROVE  EsInv'
<1>. USE DEF EsInv, Go, Err, Return, esVars
<1>1. pc \in Requests \union Outside /\ es.open = FALSE /\ es' = es
  <2>1. CASE \/ SelectDownload \/ InitIOS \/ NetInit \/ GetCerts \/ GetTmd \/ CopyTmd
             \/ GetTicket \/ CopyTicket
    BY <2>1 DEF SelectDownload, InitIOS, NetInit, GetCerts, GetTmd, CopyTmd, GetTicket,
       CopyTicket, GetObject, CopyObject, DownloadInv, Requests, Outside
  <2>2. CASE \/ CheckTitle \/ SetContentCount \/ GetContent \/ Decrypt \/ CheckHashes
             \/ FreeOnErr \/ DownloadReturns
    BY <2>2 DEF CheckTitle, SetContentCount, GetContent, Decrypt, DecryptIOS, CheckHashes,
       FreeOnErr, DownloadReturns, DownloadInv, Requests, Outside
  <2>. QED  BY <2>1, <2>2 DEF DownloadIOS
<1>. QED  BY <1>1

\* What is left of the installer's invariant when its types are those of the download.
LEMMA TypesAgree ==
  /\ TypeOK => DownTypes
  /\ DownTypes /\ live \subseteq Blocks /\ fields \subseteq Blocks => TypeOK
  /\ AllFields \union {Ios} \subseteq Blocks
BY DEF TypeOK, DownTypes, CtType, TmdType, EntryType, AllFields, Blocks, Parts, Arrays, Buffers

\* What was downloaded is as good as what is read from a file.
LEMMA DownloadIsRead ==
  ASSUME DownloadInv, DownloadReturns, pc' = "read"
  PROVE  InstallInv'
<1>1. /\ pc = "out" /\ ret = "ok" /\ ret' = ret
      /\ UNCHANGED <<args, k, wad, heapVars, conts, tmd, esVars>>
      /\ DownTypes /\ live = Owned /\ ~bad /\ fields \subseteq AllFields
      /\ Len(conts) = Len(tmd.contents) /\ tmd.sig = "official" /\ es.open = FALSE
  BY DEF DownloadReturns, Go, Return, DownloadInv, DownHeap, DownCount, DownTmd, Complete, EsInv
<1>2. TypeOK'
  <2>1. TypeOK
    BY <1>1, TypesAgree DEF Owned
  <2>. QED  BY <1>1, <2>1 DEF args, heapVars, esVars, TypeOK, Blocks
<1>3. PointInv'
  BY DEF PointInv, Points, Reading, Prepared
<1>4. HeapInv'
  BY <1>1 DEF heapVars, HeapInv, Reading, Prepared, EsCalls, Owned, AllFields, Buffers
<1>5. TmdInv' /\ CountInv' /\ SigInv' /\ EsInv'
  BY <1>1 DEF TmdInv, CountInv, SigInv, EsInv, Reading, Prepared, EsCalls, Checked, esVars
<1>6. ContentInv'
  <2>1. \A c \in DOMAIN conts :
          /\ conts[c].size <= conts[c].decCap /\ tmd.contents[c].size <= conts[c].size
          /\ conts[c].size <= conts[c].encCap
          /\ tmd.contents[c].index = c - 1 /\ conts[c].dec = tmd.contents[c].hash
          /\ conts[c].enc = [iv |-> c - 1, data |-> conts[c].dec]
    BY <1>1 DEF DownloadInv, DownContent, Complete
  <2>2. conts' = conts /\ tmd' = tmd /\ pc' \notin {"content", "check"}
    BY <1>1
  <2>. QED  BY <2>1, <2>2 DEF ContentInv
<1>. QED  BY <1>2, <1>3, <1>4, <1>5, <1>6 DEF InstallInv

\* From there on the installer keeps its own invariant, and that of the download.
LEMMA PreparedStep ==
  ASSUME DownloadInv, pc \in Prepared, Prepare \/ InstallIOS \/ PowerCut
  PROVE  DownloadInv'
<1>1. InstallInv /\ Next
  BY DEF DownloadInv, Next
<1>2. InstallInv'
  BY <1>1, TypeStep, PointStep, HeapStep, TmdStep, CountStep, ContentStep, SigStep, EsStep
     DEF InstallInv
<1>3. /\ pc' \in Prepared \union {"return", "off"}
      /\ pc' = "return" => \/ live' = {}
                           \/ live' = {B("outbuf")} /\ ret' = "err"
  <2>. USE DEF Go, Return, Prepared, EsCalls
  <2>1. live = Owned
    BY <1>1 DEF InstallInv, HeapInv
  <2>2. FreeIOS => live' = {}
    BY <2>1 DEF FreeIOS, Free, Owned
  <2>3. CASE PatchFails
    BY <2>1, <2>3 DEF PatchFails, Owned
  <2>4. CASE Prepare /\ ~PatchFails
    BY <2>2, <2>4 DEF Prepare, FindModule, PatchModule, NoMemoryForPatched, SetRevision, ForgeTmd,
       EncryptIOS, Confirm
  <2>5. CASE InstallIOS \/ PowerCut
    BY <2>2, <2>5 DEF InstallIOS, AddTicket, AddTitleStart, AddContentStart, AddContentData,
       AddContentFinish, AddTitleFinish, EsRefuses, Succeed, PowerCut
  <2>. QED  BY <2>3, <2>4, <2>5
<1>4. DownTypes'
  BY <1>2, TypesAgree DEF InstallInv, TypeOK, DownTypes, CtType, TmdType, EntryType
<1>5. DownHeap'
  BY <1>2, <1>3 DEF InstallInv, HeapInv, DownHeap, LostBlocks, Prepared, EsCalls, Requests
<1>6. DownPoint' /\ DownTmd' /\ DownCount' /\ DownContent'
  BY <1>3 DEF DownPoint, DownTmd, DownCount, DownContent, Prepared, EsCalls, Requests, Outside,
     Complete
<1>. QED  BY <1>2, <1>4, <1>5, <1>6 DEF DownloadInv, InstallInv

\* The power is cut, or the installer started again.
LEMMA RestartStep ==
  ASSUME DownloadInv, (PowerCut /\ pc \notin Prepared) \/ Again
  PROVE  DownloadInv'
<1>1. DownTypes /\ ~bad
  BY DEF DownloadInv, DownHeap
<1>2. Closed \in [open : BOOLEAN, given : Seq(Data)] /\ Closed.open = FALSE
  <2>1. << >> \in Seq(Data)
    OBVIOUS
  <2>. QED  BY <2>1 DEF Closed
<1>3. CASE PowerCut
  <2>1. pc' = "off" /\ live' = {} /\ fields' = {} /\ ~bad' /\ es' = Closed
        /\ UNCHANGED <<ret, call, attempt, runs, k, wad, conts, tmd>>
    BY <1>1, <1>3 DEF PowerCut, args
  <2>2. DownTypes'
    BY <1>1, <1>2, <2>1 DEF DownTypes
  <2>. QED  BY <1>2, <2>1, <2>2
         DEF DownloadInv, DownPoint, DownHeap, DownTmd, DownCount, DownContent, EsInv, Requests,
             Outside, Prepared, EsCalls, Complete
<1>4. CASE Again
  <2>1. /\ pc' = "usb" /\ live' = {} /\ fields' = {} /\ ~bad' /\ es' = Closed /\ ret' = "ok"
        /\ call' \in Calls /\ attempt' = 1 /\ k' = 1 /\ runs' = runs + 1 /\ wad' = wad
        /\ conts' = << >> /\ tmd' = NoTmd
    BY <1>1, <1>4 DEF Again
  <2>2. DownTypes'
    <3>1. NoTmd \in TmdType /\ Len(NoTmd.contents) = 0 /\ << >> \in Seq(CtType)
      BY NoTmdType DEF NoTmd
    <3>2. k' \in 1..Len(tmd'.contents) + 1 /\ Len(conts') <= Len(tmd'.contents)
      BY <2>1, <3>1
    <3>3. runs' \in Nat /\ attempt' \in Attempts
      BY <1>1, <2>1 DEF DownTypes, Attempts
    <3>. QED  BY <1>1, <1>2, <2>1, <3>1, <3>2, <3>3 DEF DownTypes
  <2>. QED  BY <1>2, <2>1, <2>2
         DEF DownloadInv, DownPoint, DownHeap, DownTmd, DownCount, DownContent, EsInv, Requests,
             Outside, Prepared, EsCalls, Complete
<1>. QED  BY <1>3, <1>4

\* The download ends in Prepared only at "read".
LEMMA DownloadStep ==
  ASSUME DownloadInv, DownloadIOS
  PROVE  DownloadInv'
<1>1. /\ DownTypes' /\ DownPoint' /\ DownTmd' /\ DownCount' /\ DownContent' /\ EsInv'
  BY DownTypesStep, DownPointStep, DownTmdStep, DownCountStep, DownContentStep, DownEsStep
<1>2. CASE pc' \notin Prepared
  BY <1>1, <1>2, DownHeapStep DEF DownloadInv
<1>3. CASE pc' \in Prepared
  <2>1. DownloadReturns /\ pc' = "read"
    <3>. USE DEF Go, Err, Return, Prepared, EsCalls
    <3>1. CASE \/ SelectDownload \/ InitIOS \/ NetInit \/ GetCerts \/ GetTmd \/ CopyTmd
               \/ GetTicket \/ CopyTicket
      BY <1>3, <3>1 DEF SelectDownload, InitIOS, NetInit, GetCerts, GetTmd, CopyTmd, GetTicket,
         CopyTicket, GetObject, CopyObject
    <3>2. CASE CheckTitle \/ SetContentCount \/ GetContent \/ Decrypt \/ CheckHashes \/ FreeOnErr
      BY <1>3, <3>2 DEF CheckTitle, SetContentCount, GetContent, Decrypt, DecryptIOS,
         CheckHashes, FreeOnErr
    <3>3. CASE DownloadReturns
      BY <1>3, <3>3 DEF DownloadReturns
    <3>. QED  BY <3>1, <3>2, <3>3 DEF DownloadIOS
  <2>2. InstallInv'
    BY <2>1, DownloadIsRead
  <2>3. DownHeap'
    BY <2>1, <2>2 DEF InstallInv, HeapInv, DownHeap, Requests
  <2>. QED  BY <1>1, <2>2, <2>3 DEF DownloadInv
<1>. QED  BY <1>2, <1>3

\* These actions are only possible when the title has been downloaded.
LEMMA PreparedActions == Prepare \/ InstallIOS => pc \in Prepared
BY DEF Prepare, FindModule, PatchFails, PatchModule, NoMemoryForPatched, SetRevision,
   ForgeTmd, EncryptIOS, Confirm, InstallIOS, AddTicket, AddTitleStart, AddContentStart,
   AddContentData, AddContentFinish, AddTitleFinish, EsRefuses, Succeed, Prepared, EsCalls

\* A step keeps the invariant.
LEMMA DownloadInductive == DownloadInv /\ [DownloadNext]_vars => DownloadInv'
<1>. SUFFICES ASSUME DownloadInv, [DownloadNext]_vars  PROVE  DownloadInv'
  OBVIOUS
<1>1. CASE DownloadIOS
  BY <1>1, DownloadStep
<1>2. CASE Prepare \/ InstallIOS
  <2>1. pc \in Prepared
    BY <1>2, PreparedActions
  <2>. QED  BY <1>2, <2>1, PreparedStep
<1>3. CASE PowerCut \/ Again
  BY <1>3, PreparedStep, RestartStep
<1>4. CASE UNCHANGED vars
  <2>1. DownTypes' /\ DownPoint' /\ DownHeap' /\ DownTmd' /\ DownCount' /\ DownContent' /\ EsInv'
    <3>1. /\ DownTypes' = DownTypes /\ DownPoint' = DownPoint /\ DownTmd' = DownTmd
          /\ DownCount' = DownCount /\ EsInv' = EsInv
      BY <1>4 DEF vars, args, heapVars, esVars, DownTypes, DownPoint, DownTmd, DownCount, EsInv,
         Complete
    <3>2. DownContent' = DownContent
      BY <1>4 DEF vars, args, heapVars, esVars, DownContent, Complete
    <3>3. DownHeap' = DownHeap
      BY <1>4 DEF vars, args, heapVars, esVars, DownHeap, HadAt, Owned, AllFields, Buffers,
         Buffer, LostBlocks, LostAlone, NamesLost
    <3>. QED  BY <3>1, <3>2, <3>3 DEF DownloadInv
  <2>2. pc' \in Prepared => InstallInv'
    <3>1. ASSUME InstallInv  PROVE  InstallInv'
      BY <1>4, <3>1, TypeStep, PointStep, HeapStep, TmdStep, CountStep, ContentStep, SigStep,
         EsStep DEF InstallInv
    <3>. QED  BY <1>4, <3>1 DEF vars, DownloadInv
  <2>. QED  BY <2>1, <2>2 DEF DownloadInv
<1>. QED  BY <1>1, <1>2, <1>3, <1>4 DEF DownloadNext

\* Before each step of a download, whatever the server answers and memory is
\* missing for, and of the installation of what was downloaded, what follows
\* has all it relies on.
THEOREM DownloadInvariant == DownloadSpec => []DownloadInv
<1>. QED  BY DownInit, DownloadInductive, PTL DEF DownloadSpec

\* Nothing is freed twice, no pointer of *ios is replaced, and *ios points to live
\* memory wherever it is used, whatever fails on the way
\* (IOSPatcher.c:558-677).
THEOREM DownloadHeapSafe == DownloadSpec => []HeapSafe
<1>1. DownloadInv => HeapSafe
  <2>. SUFFICES ASSUME DownloadInv  PROVE  HeapSafe
    OBVIOUS
  <2>1. DownHeap /\ DownPoint
    BY DEF DownloadInv
  <2>2. CASE pc \in Prepared
    BY <2>1, <2>2, Apart DEF DownloadInv, InstallInv, HeapInv, HeapSafe, Owned, Prepared, EsCalls
  <2>3. CASE pc \notin Prepared
    <3>1. tmd \in TmdType /\ k \in Nat \ {0}
      BY DEF DownloadInv, DownTypes, TmdType
    <3>2. \A lost \in LostBlocks \union {{B("outbuf")}} : Ios \notin lost
      BY <3>1, BlocksApart DEF B, Ios
    <3>. QED  BY <2>1, <2>3, <3>2
           DEF DownHeap, DownPoint, HeapSafe, Owned, Requests, Outside, Prepared, EsCalls
  <2>. QED  BY <2>2, <2>3
<1>. QED  BY <1>1, DownloadInvariant, PTL

\* What a download has lost at its return is nothing after a success; otherwise one
\* buffer, or one pair of names, or the names of contents that were not received
\* (http.c:289-290, 390-391, IOSPatcher.c:450-453, 563-606, 651, 701-705).
THEOREM DownloadLeaksKnown == DownloadSpec => []KnownLeaksOnly
<1>1. DownloadInv => KnownLeaksOnly
  <2>. SUFFICES ASSUME DownloadInv, pc = "return"  PROVE  KnownLeaksOnly
    BY DEF KnownLeaksOnly
  <2>1. live \in LostBlocks \union {{B("outbuf")}} /\ (ret = "ok" => live = {}) /\ ~es.open
    BY DEF DownloadInv, DownHeap, EsInv
  <2>2. \/ \E b \in LostAlone \union {B("outbuf")} : live \subseteq {b}
        \/ live \subseteq NamesLost(Len(tmd.contents))
    BY <2>1 DEF LostBlocks
  <2>. QED  BY <2>1, <2>2 DEF KnownLeaksOnly, LostAlone
<1>. QED  BY <1>1, DownloadInvariant, PTL

\* Whatever lengths the server answers with, what is hashed of a content is
\* within its buffer (IOSPatcher.c:647-673, 690).
THEOREM DownloadHashesFit == DownloadSpec => []HashedFits
<1>1. DownloadInv => HashedFits
  <2>. SUFFICES ASSUME DownloadInv, pc = "check", NEW c \in DOMAIN conts
                PROVE  tmd.contents[c].size <= conts[c].decCap
    BY DEF HashedFits
  <2>1. conts[c] \in CtType /\ tmd.contents[c] \in EntryType
    <3>1. conts \in Seq(CtType) /\ tmd.contents \in Seq(EntryType)
          /\ Len(conts) <= Len(tmd.contents)
      BY DEF DownloadInv, DownTypes, TmdType
    <3>. QED  BY <3>1
  <2>2. conts[c].size <= conts[c].decCap /\ tmd.contents[c].size <= conts[c].size
    BY DEF DownloadInv, DownContent
  <2>. QED  BY <2>1, <2>2 DEF CtType, EntryType
<1>. QED  BY <1>1, DownloadInvariant, PTL

----------------------------------------------------------------------------
(* A download keeps the promise of TitleStore, too.                        *)

\* What the installer's own invariants say of the data, the path and the title
\* is so at the points of a download; tmd is the TMD as it was received.
DownStoreInv ==
  /\ DownloadInv /\ DataInv /\ PathInv /\ GivenInv
  /\ pc = "getTicket" => ~tmd.new

\* What is received is the server's data, or junk; what was checked is intended.
LEMMA DownDataStep ==
  ASSUME DownStoreInv, DownloadIOS, OriginalWads
  PROVE  DataInv'
<1>. USE DEF Go, Err, Return, args, Checked, Prepared, EsCalls
<1>0. DownloadInv /\ DataInv /\ DownPoint
  BY DEF DownStoreInv, DownloadInv
<1>1. CASE GetContent
  <2>1. /\ pc = "content" /\ Len(conts) = k - 1 /\ k \in Nat /\ conts \in Seq(CtType)
        /\ UNCHANGED <<wad, tmd>> /\ ~Checked'
    BY <1>0, <1>1 DEF GetContent, DownloadInv, DownCount, DownTypes
  <2>2. CASE conts' = conts
    BY <1>0, <2>1, <2>2 DEF DataInv
  <2>3. ASSUME NEW e, conts' = Append(conts, e), e.enc.data \in {wad.contents[k].data, Junk}
        PROVE  DataInv'
    <3>1. /\ DOMAIN conts' = DOMAIN conts \union {k} /\ conts'[k] = e
          /\ \A c \in DOMAIN conts : conts'[c] = conts[c]
      BY <2>1, <2>3
    <3>. HIDE DEF Checked
    <3>. QED  BY <1>0, <2>1, <2>3, <3>1 DEF DataInv
  <2>4. ASSUME NEW got \in BOOLEAN, NEW n \in Lengths, NEW d \in {wad.contents[k].data, Junk}
        PROVE  Received(got, n, d).enc.data \in {wad.contents[k].data, Junk}
    BY <2>4 DEF Received
  <2>5. conts' = conts \/ \E got \in BOOLEAN, n \in Lengths, d \in {wad.contents[k].data, Junk} :
                            conts' = Append(conts, Received(got, n, d))
    BY <1>1 DEF GetContent
  <2>. QED  BY <2>2, <2>3, <2>4, <2>5
<1>2. CASE DecryptIOS
  <2>1. conts \in Seq(CtType)
    BY <1>0 DEF DownloadInv, DownTypes
  <2>. QED  BY <1>0, <1>2, <2>1, DataDecrypt
<1>3. CASE CheckHashes
  <2>1. /\ conts \in Seq(CtType) /\ tmd.contents \in Seq(EntryType) /\ wad \in Wads
        /\ Len(conts) <= Len(tmd.contents)
    BY <1>0 DEF DownloadInv, DownTypes, TmdType
  <2>2. DOMAIN conts \subseteq DOMAIN tmd.contents
    BY <2>1
  <2>3. /\ DOMAIN tmd.contents = DOMAIN wad.contents
        /\ \A c \in DOMAIN tmd.contents : tmd.contents[c].index = wad.contents[c].index
        /\ \A c \in DOMAIN conts : conts[c].dec = Decrypted(conts[c].enc, c - 1)
    BY <1>0, <1>3 DEF CheckHashes, DownloadInv, DownTmd, DownContent
  <2>. QED  BY <1>0, <1>3, <2>1, <2>2, <2>3, DataCheck
<1>4. CASE Decrypt /\ ~DecryptIOS
  BY <1>4 DEF Decrypt, DataInv
<1>5. CASE DownloadReturns
  <2>1. /\ pc = "out" /\ UNCHANGED <<wad, call, conts, tmd>>
        /\ pc' = "return" \/ (pc' = "read" /\ ret = "ok")
    BY <1>5 DEF DownloadReturns
  <2>. QED  BY <1>0, <2>1 DEF DataInv, Intended
<1>6. CASE FreeOnErr
  BY <1>0, <1>6 DEF FreeOnErr, DataInv, DownPoint
<1>7. CASE SetContentCount
  <2>1. conts' = << >> /\ ~Checked'
    BY <1>0, <1>7 DEF SetContentCount, DownloadInv, DownCount, Requests
  <2>. QED  BY <2>1, DataNone
<1>8. CASE \/ SelectDownload \/ InitIOS \/ NetInit \/ GetCerts \/ GetTmd \/ CopyTmd
           \/ GetTicket \/ CopyTicket \/ CheckTitle
  <2>1. pc' \notin {"content", "check"} /\ ~Checked'
    BY <1>8 DEF SelectDownload, InitIOS, NetInit, GetCerts, GetTmd, CopyTmd, GetTicket,
       CopyTicket, GetObject, CopyObject, CheckTitle
  <2>. HIDE DEF Checked
  <2>. QED  BY <2>1 DEF DataInv
<1>. QED  BY <1>1, <1>2, <1>3, <1>4, <1>5, <1>6, <1>7, <1>8 DEF DownloadIOS, Decrypt

\* A download changes neither the title nor the arguments, and ends with an
\* error or goes on to the installation.
LEMMA DownPath ==
  ASSUME DownStoreInv, DownloadIOS
  PROVE  /\ PathInv' /\ GivenInv' /\ (pc' = "getTicket" => ~tmd'.new)
         /\ UNCHANGED <<title, before, runs>> /\ pc \notin {"installed", "return", "off"}
         /\ pc' \notin {"off", "installed"} /\ (pc' = "return" => ret' = "err")
<1>. USE DEF Go, Err, Return, args, esVars
<1>0. PathInv /\ GivenInv /\ DownPoint /\ DownTmd /\ (pc = "getTicket" => ~tmd.new) /\ ~NoTmd.new
  BY DEF DownStoreInv, DownloadInv, NoTmd
<1>1. /\ UNCHANGED <<title, before, runs, call>>
      /\ pc \in Requests \union {"usb", "init", "err", "out"}
      /\ pc' \in Requests \union {"init", "err", "out", "crashed", "read", "return"}
      /\ pc' \in {"out", "read"} /\ ret' = "ok" => pc \in {"check", "out"} /\ ret = "ok"
      /\ pc' = "read" => ret' = "ok"
      /\ pc' = "return" => ret' = "err"
  <2>1. CASE \/ SelectDownload \/ InitIOS \/ NetInit \/ GetCerts \/ GetTmd \/ CopyTmd
             \/ GetTicket \/ CopyTicket
    BY <2>1 DEF SelectDownload, InitIOS, NetInit, GetCerts, GetTmd, CopyTmd, GetTicket,
       CopyTicket, GetObject, CopyObject, Requests
  <2>2. CASE \/ CheckTitle \/ SetContentCount \/ GetContent \/ Decrypt \/ CheckHashes
             \/ FreeOnErr \/ DownloadReturns
    BY <1>0, <2>2 DEF CheckTitle, SetContentCount, GetContent, Decrypt, DecryptIOS, CheckHashes,
       FreeOnErr, DownloadReturns, Requests, DownPoint
  <2>. QED  BY <2>1, <2>2 DEF DownloadIOS
<1>2. CASE InitIOS
  <2>1. tmd' = NoTmd
    BY <1>2 DEF InitIOS
  <2>. QED  BY <1>0, <1>1, <2>1 DEF PathInv, GivenInv, Importing, EsCalls, Requests
<1>3. CASE CopyTmd
  <2>1. tmd' = NoTmd \/ (tmd' = TmdOf(wad))
    BY <1>0, <1>3 DEF CopyTmd, CopyObject, DownTmd, TmdOf
  <2>2. ~tmd'.new
    BY <1>0, <2>1 DEF TmdOf, NoTmd
  <2>3. pc' \in {"getTicket", "err"}
    BY <1>3 DEF CopyTmd, CopyObject
  <2>. QED  BY <1>0, <1>1, <2>2, <2>3 DEF PathInv, GivenInv, Importing, EsCalls, Reading, Requests
<1>4. CASE ~InitIOS /\ ~CopyTmd
  <2>1. tmd' = tmd
    BY <1>4 DEF DownloadIOS, SelectDownload, NetInit, GetCerts, GetTmd, GetTicket, CopyTicket,
       GetObject, CheckTitle, SetContentCount, GetContent, Decrypt, DecryptIOS, CheckHashes,
       FreeOnErr, DownloadReturns
  <2>2. pc \in Requests => ~tmd.new
    BY <1>0 DEF PathInv, Reading, Requests, DownTmd
  <2>3. pc = "out" /\ ret = "ok" => ~tmd.new
    BY <1>0 DEF PathInv
  <2>4. pc' \in Requests => pc \in Requests
    BY <1>4 DEF DownloadIOS, SelectDownload, NetInit, GetCerts, GetTmd, GetTicket, CopyTicket,
       GetObject, CopyObject, CheckTitle, SetContentCount, GetContent, Decrypt, DecryptIOS,
       CheckHashes, FreeOnErr, DownloadReturns, Requests
  <2>. QED  BY <1>0, <1>1, <2>1, <2>2, <2>3, <2>4
         DEF PathInv, GivenInv, Importing, EsCalls, Reading, Requests
<1>. QED  BY <1>2, <1>3, <1>4

\* A power cut, or another start.
LEMMA DownRestart ==
  ASSUME DownStoreInv, (PowerCut /\ pc \notin Prepared) \/ Again
  PROVE  DataInv' /\ PathInv' /\ GivenInv' /\ pc' # "getTicket"
<1>1. PathInv
  BY DEF DownStoreInv
<1>2. CASE PowerCut
  BY <1>1, <1>2 DEF PowerCut, args, DataInv, PathInv, GivenInv, Checked, Prepared, EsCalls,
     Reading, Importing
<1>3. CASE Again
  BY <1>3, WadAssumption DEF Again, DataInv, PathInv, GivenInv, Checked, Prepared, EsCalls,
     Reading, Importing, NoTmd
<1>. QED  BY <1>2, <1>3

\* Whatever the server answers, through failures at any allocation and any call
\* of ES, and power cuts, the console has the old title or a whole new one, and
\* the result says which (IOSPatcher.c:530-709, 745-1021).
THEOREM DownloadKeepsPromise ==
  ASSUME OriginalWads
  PROVE  DownloadSpec => StoreSpec
<1>1. Init => Store!Init /\ DownStoreInv
  BY StoreInit, DownInit DEF Init, Store!Init, Seen, Result, StoreInv, DownStoreInv
<1>2. ASSUME DownStoreInv, [DownloadNext]_vars
      PROVE  DownStoreInv' /\ [Store!Next]_Store!vars
  <2>1. DownloadInv'
    BY <1>2, DownloadInductive DEF DownStoreInv
  <2>2. CASE DownloadIOS
    <3>1. DownStoreInv'
      BY <1>2, <2>1, <2>2, DownDataStep, DownPath DEF DownStoreInv
    <3>2. CASE pc' = "return"
      <4>1. title = before /\ Result = "running" /\ Result' = "err"
        BY <1>2, <2>2, <3>2, DownPath DEF Result, DownStoreInv, GivenInv
      <4>. QED  BY <1>2, <2>2, <3>1, <4>1, DownPath, SeenPrime DEF Store!Next, Store!Fail
    <3>3. CASE pc' # "return"
      <4>1. Result' = Result
        BY <1>2, <2>2, <3>3, DownPath DEF Result
      <4>. QED  BY <1>2, <2>2, <3>1, <4>1, DownPath, SeenPrime DEF Store!vars
    <3>. QED  BY <3>2, <3>3
  <2>3. CASE pc \in Prepared /\ (Prepare \/ InstallIOS \/ PowerCut)
    <3>1. StoreInv /\ [Next]_vars
      BY <1>2, <2>3 DEF DownStoreInv, DownloadInv, StoreInv, Next
    <3>2. DataInv' /\ PathInv' /\ GivenInv'
      BY <3>1, DataStep, PathStep, GivenStep
    <3>3. pc' # "getTicket"
      BY <2>3 DEF Prepare, FindModule, PatchFails, PatchModule, NoMemoryForPatched, SetRevision,
         ForgeTmd, EncryptIOS, Confirm, InstallIOS, AddTicket, AddTitleStart, AddContentStart,
         AddContentData, AddContentFinish, AddTitleFinish, EsRefuses, Succeed, PowerCut, Go, Return
    <3>. QED  BY <2>1, <3>1, <3>2, <3>3, StoreStep DEF DownStoreInv
  <2>4. CASE PowerCut /\ pc \notin Prepared
    <3>1. Result = "running" /\ Result' = "cut" /\ UNCHANGED <<title, before, runs>>
      BY <2>4 DEF PowerCut, Result, args
    <3>. QED  BY <1>2, <2>1, <2>4, <3>1, DownRestart, SeenPrime
           DEF DownStoreInv, Store!Next, Store!PowerCut
  <2>5. CASE Again
    <3>1. Result # "running" /\ Result' = "running"
      BY <1>2, <2>5 DEF Again, Result, DownStoreInv, DownloadInv, DownTypes
    <3>2. runs < MaxRuns /\ runs' = runs + 1 /\ title' = title /\ before' = title
      BY <2>5 DEF Again
    <3>3. Seen(title)' = Seen(title) /\ Seen(before)' = Seen(title)
      BY <3>2, SeenPrime
    <3>. QED  BY <1>2, <2>1, <2>5, <3>1, <3>2, <3>3, DownRestart
           DEF DownStoreInv, Store!Next, Store!Again
  <2>6. CASE UNCHANGED vars
    <3>1. UNCHANGED <<title, before, runs, pc, ret, wad, conts, tmd, call, k, es>>
      BY <2>6 DEF vars, esVars, args
    <3>2. DataInv' /\ PathInv' /\ GivenInv'
      BY <1>2, <3>1 DEF DownStoreInv, DataInv, PathInv, GivenInv, Checked, Intended, Unpatched,
         NewInstalled, Seen
    <3>3. Result' = Result
      BY <3>1 DEF Result
    <3>. QED  BY <1>2, <2>1, <3>1, <3>2, <3>3, SeenPrime DEF DownStoreInv, Store!vars
  <2>. QED  BY <1>2, <2>2, <2>3, <2>4, <2>5, <2>6, PreparedActions DEF DownloadNext
<1>3. DownStoreInv /\ [DownloadNext]_vars => DownStoreInv' /\ [Store!Next]_Store!vars
  BY <1>2
<1>. QED  BY <1>1, <1>3, PTL DEF DownloadSpec, StoreSpec, Store!Spec
============================================================================
