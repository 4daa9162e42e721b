----------------------------- MODULE Installer -----------------------------
(***************************************************************************)
(* The installer: Install_patched_MIOS() of src/IOSPatcher.c with all it   *)
(* calls, Wad_Read_into_memory() of src/wad.c included, against the heap   *)
(* it allocates from and the system's title store (ES), either of which    *)
(* may refuse at any call; the power may be cut between any two steps.     *)
(*                                                                         *)
(* Sizes are in units of 16 bytes. A block of the heap is named for the    *)
(* pointer that holds it. Data is the identity of a content and whether it *)
(* is patched; a hash is the data it was taken of, an encrypted content    *)
(* the data with its initialisation vector. Headers and signatures are     *)
(* what the checks of the code tell apart.                                 *)
(***************************************************************************)
EXTENDS Integers, Sequences

CONSTANTS
  Wads,          \* the WAD files there may be, see WadAssumption
  Calls,         \* arguments of Install_patched_MIOS(); main.c:17 has one
  PatchedSizes,  \* sizes patchMIOS() may return
  MaxRuns        \* bound: times the installer is started

Attempts == 1..3   \* the three file names get_IOS() tries

\* Data that was not read completely or decrypted with a wrong IV.
Junk == [of |-> 0, patched |-> FALSE]
Data == [of : Nat, patched : BOOLEAN]

ASSUME WadAssumption ==
  /\ \A w \in Wads :
       /\ w.lens \in BOOLEAN      \* certs, ticket and TMD are not empty
       /\ w.crl \in BOOLEAN       \* there is a CRL
       /\ w.sigs \in BOOLEAN      \* certs, ticket and TMD have a signature type
       /\ w.title \in BOOLEAN     \* title ID and revision are those asked for
       /\ w.contents \in Seq([index : Nat, size : Nat, data : Data \ {Junk},
                              hash : Data \ {Junk}])
  /\ Calls \subseteq [patchhomebrew : BOOLEAN, newrevision : BOOLEAN]
  /\ PatchedSizes \subseteq Nat \ {0} /\ MaxRuns \in Nat

VARIABLES
  pc,        \* where the installer is
  ret,       \* the sign of the variable of this name
  call,      \* the arguments
  attempt,   \* which file name get_IOS() is at
  k,         \* loop counter over the contents
  wad,       \* the file that is open
  live,      \* blocks of the heap (and the open file)
  fields,    \* the pointers of struct IOS that are not NULL
  bad,       \* history: a block was freed twice, or lost by being replaced
  conts,     \* content k: buffer_size, capacities, encrypted and decrypted data
  tmd,       \* the TMD: index, size and hash of each content; revision; signature
  es,        \* the title store's import: open, contents given so far
  title,     \* the store: what is installed
  before,    \* history: what was installed when the installer was started
  runs       \* times the installer was started

args     == <<call, attempt, runs, before>>
heapVars == <<live, fields, bad>>
esVars   == <<es, title>>
vars == <<pc, ret, args, k, wad, heapVars, conts, tmd, esVars>>

B(name) == <<name, 0>>
Ios     == B("ios")
Arrays  == {B("encrypted_buffer"), B("decrypted_buffer"), B("buffer_size")}
Enc(i)  == <<"encrypted", i>>
Dec(i)  == <<"decrypted", i>>

RoundUp(s, n) == ((s + n - 1) \div n) * n

Decrypted(e, iv) == IF e.iv = iv THEN e.data ELSE Junk

NoTmd    == [contents |-> << >>, new |-> FALSE, sig |-> "official"]
Closed   == [open |-> FALSE, given |-> << >>]
OldTitle == [contents |-> << >>, new |-> FALSE]

Alloc(S) == live' = live \union S /\ bad' = (bad \/ S \intersect live # {})
Free(S)  == live' = live \ S /\ bad' = (bad \/ ~(S \subseteq live))

\* free_IOS()
FreeIOS == Free(fields \union {Ios}) /\ UNCHANGED fields

Err == ret' = "err" /\ pc' = "err"
Go(next) == pc' = next /\ UNCHANGED ret
Return(r) == ret' = r /\ pc' = "return"

----------------------------------------------------------------------------
(* Starting                                                                *)

Init ==
  /\ pc = "usb" /\ ret = "ok" /\ call \in Calls /\ attempt = 1 /\ k = 1
  /\ wad \in Wads /\ live = {} /\ fields = {} /\ bad = FALSE
  /\ conts = << >> /\ tmd = NoTmd
  /\ es = Closed /\ title = OldTitle /\ before = OldTitle /\ runs = 1

\* Init_USB() in get_IOS(), before anything is allocated.
InitUsb ==
  /\ pc = "usb"
  /\ Go("init") \/ Return("err")
  /\ UNCHANGED <<args, k, wad, heapVars, conts, tmd, esVars>>

----------------------------------------------------------------------------
(* Wad_Read_into_memory()                                                  *)

\* A bug this guards against: Init_IOS() leaves content_count as it finds it.
InitIOSKeepsContents ==
  /\ pc = "init"
  /\ Alloc({Ios}) /\ ret' = "ok" /\ pc' = "open"
  /\ fields' = {} /\ tmd' = NoTmd /\ k' = 1
  /\ UNCHANGED <<args, wad, conts, esVars>>

\* Init_IOS(); if it fails *ios is NULL and free_IOS() does nothing.
InitIOS ==
  /\ pc = "init"
  /\ \/ Alloc({Ios}) /\ ret' = "ok" /\ pc' = "open"
     \/ UNCHANGED <<live, bad>> /\ ret' = "err" /\ pc' = "out"
  /\ fields' = {} /\ conts' = << >> /\ tmd' = NoTmd /\ k' = 1
  /\ UNCHANGED <<args, wad, esVars>>

OpenWad ==
  /\ pc = "open"
  /\ \/ \E w \in Wads : wad' = w /\ Alloc({B("fp")}) /\ Go("header")
     \/ Err /\ UNCHANGED <<wad, live, bad>>
  /\ UNCHANGED <<args, k, fields, conts, tmd, esVars>>

ReadHeader ==
  /\ pc = "header"
  /\ \/ Alloc({B("header")}) /\ IF wad.lens THEN Go("certs") ELSE Err
     \/ Err /\ UNCHANGED <<live, bad>>
  /\ UNCHANGED <<args, k, wad, fields, conts, tmd, esVars>>

\* __Wad_ReadAlloc() of one part. A part that was read short is noticed, if
\* at all, by the check of its signature type.
LoadPart(part, checked, next) ==
  /\ pc = part
  /\ \/ /\ Alloc({B(part)}) /\ fields' = fields \union {B(part)}
        /\ \/ (checked => wad.sigs) /\ Go(next)
           \/ checked /\ Err
     \/ Err /\ UNCHANGED heapVars
  /\ UNCHANGED <<args, k, wad, conts, esVars>>

LoadCerts == LoadPart("certs", TRUE, "crl") /\ UNCHANGED tmd

LoadCrl ==
  \/ wad.crl /\ LoadPart("crl", FALSE, "ticket") /\ UNCHANGED tmd
  \/ /\ pc = "crl" /\ ~wad.crl
     /\ Go("ticket")
     /\ UNCHANGED <<args, k, wad, heapVars, conts, tmd, esVars>>

LoadTicket == LoadPart("ticket", TRUE, "tmd") /\ UNCHANGED tmd

\* tmd_data points into the part that was loaded.
LoadTmd ==
  /\ LoadPart("tmd", TRUE, "title")
  /\ tmd' = IF pc' # "title" THEN tmd
            ELSE [NoTmd EXCEPT !.contents =
                    [c \in DOMAIN wad.contents |->
                       [index |-> wad.contents[c].index,
                        size  |-> wad.contents[c].size,
                        hash  |-> wad.contents[c].hash]]]

CheckTitle ==
  /\ pc = "title"
  /\ IF wad.title THEN Go("count") ELSE Err
  /\ UNCHANGED <<args, k, wad, heapVars, conts, tmd, esVars>>

\* set_content_count(): three arrays, each of which may not be had.
SetContentCount ==
  /\ pc = "count"
  /\ IF tmd.contents = << >>
     THEN Go("content") /\ UNCHANGED heapVars
     ELSE \E got \in SUBSET Arrays :
            /\ Alloc(got) /\ fields' = fields \union got
            /\ IF got = Arrays THEN Go("content") ELSE Err
  /\ UNCHANGED <<args, k, wad, conts, tmd, esVars>>

\* One round of the loop over the contents. fread() may read less than a
\* content, which is not noticed here.
ReadContent ==
  /\ pc = "content" /\ k <= Len(tmd.contents)
  /\ \E got \in SUBSET {Enc(k), Dec(k)} :
       /\ Alloc(got) /\ fields' = fields \union got
       /\ IF got = {Enc(k), Dec(k)}
          THEN /\ \E d \in {wad.contents[k].data, Junk} :
                    LET s == RoundUp(tmd.contents[k].size, 4)
                    IN  conts' = Append(conts,
                          [size |-> s, encCap |-> s, decCap |-> s, dec |-> Junk,
                           enc |-> [iv |-> wad.contents[k].index, data |-> d]])
               /\ k' = k + 1 /\ UNCHANGED <<pc, ret>>
          ELSE Err /\ UNCHANGED <<conts, k>>
  /\ UNCHANGED <<args, wad, tmd, esVars>>

\* decrypt_IOS(): the IV of a content is its position, counted from 0.
DecryptIOS ==
  /\ pc = "content" /\ k > Len(tmd.contents)
  /\ conts' = [c \in DOMAIN conts |->
                 [conts[c] EXCEPT !.dec = Decrypted(conts[c].enc, c - 1)]]
  /\ Go("check")
  /\ UNCHANGED <<args, k, wad, heapVars, tmd, esVars>>

\* A bug this guards against: the last content is not checked.
CheckHashesOneShort ==
  /\ pc = "check"
  /\ IF \A c \in 1..Len(conts) - 1 : conts[c].dec = tmd.contents[c].hash
     THEN Go("out") ELSE Err
  /\ UNCHANGED <<args, k, wad, heapVars, conts, tmd, esVars>>

CheckHashes ==
  /\ pc = "check"
  /\ IF \A c \in DOMAIN conts : conts[c].dec = tmd.contents[c].hash
     THEN Go("out") ELSE Err
  /\ UNCHANGED <<args, k, wad, heapVars, conts, tmd, esVars>>

\* err: free_IOS(); *ios dangles until the next attempt.
FreeOnErr ==
  /\ pc = "err"
  /\ FreeIOS /\ Go("out")
  /\ UNCHANGED <<args, k, wad, conts, tmd, esVars>>

\* A bug this guards against: the file is closed only when all went well.
CloseWadIfOk ==
  /\ pc = "out"
  /\ Free({B("header"), B("fp")} \intersect (IF ret = "ok" THEN live ELSE {}))
  /\ IF ret = "ok" THEN Go("read") ELSE Return("err")
  /\ UNCHANGED <<args, k, wad, fields, conts, tmd, esVars>>

\* out: the header is freed, the file closed; get_IOS() tries the next name.
CloseWad ==
  /\ pc = "out"
  /\ Free({B("header"), B("fp")} \intersect live)
  /\ IF ret = "ok" THEN Go("read") /\ UNCHANGED attempt
     ELSE IF attempt < 3 THEN Go("init") /\ attempt' = attempt + 1
     ELSE Return("err") /\ UNCHANGED attempt
  /\ UNCHANGED <<call, runs, before, k, wad, fields, conts, tmd, esVars>>

----------------------------------------------------------------------------
(* Install_patched_MIOS(), patchMIOS() and install_unpatched_MIOS()        *)

\* What the arguments ask for: the WAD as it is.
Unpatched == ~call.newrevision /\ ~call.patchhomebrew

\* The last of the contents cs with index 1; 0 if there is none.
ModuleOf(cs) ==
  LET found == {c \in DOMAIN cs : cs[c].index = 1}
  IN  IF found = {} THEN 0 ELSE CHOOSE c \in found : \A d \in found : d <= c

Module == ModuleOf(tmd.contents)

FindModule ==
  /\ pc = "read"
  /\ \/ Unpatched /\ Go("confirm") /\ UNCHANGED heapVars
     \/ ~call.patchhomebrew /\ ~Unpatched /\ Go("revision") /\ UNCHANGED heapVars
     \/ call.patchhomebrew /\ Module # 0 /\ Go("patch") /\ UNCHANGED heapVars
     \/ call.patchhomebrew /\ Module = 0 /\ FreeIOS /\ Return(ret)
  /\ UNCHANGED <<args, k, wad, conts, tmd, esVars>>

\* patchMIOS() refuses the module or finds no memory; after -39 the buffer
\* it made is lost.
PatchFails ==
  /\ pc = "patch"
  /\ \E lost \in {{}, {B("outbuf")}} :
       live' = (live \ (fields \union {Ios})) \union lost
  /\ bad' = (bad \/ ~(fields \union {Ios} \subseteq live))
  /\ Return("err")
  /\ UNCHANGED <<args, k, wad, fields, conts, tmd, esVars>>

\* The content c after patchMIOS() returned s: its buffers and its size.
\* A bug this guards against: the encrypted buffer is not made larger.
PatchedKeepsBuffer(c, s) ==
  [c EXCEPT !.size = RoundUp(s, 2), !.decCap = RoundUp(s, 4), !.dec.patched = TRUE]

Patched(c, s) ==
  LET r == RoundUp(s, 2)
  IN  [c EXCEPT !.size = r, !.decCap = RoundUp(s, 4), !.dec.patched = TRUE,
                !.encCap = IF r > c.size THEN r ELSE c.encCap]

\* Success of patchMIOS(); the new buffers take the names of the old ones.
PatchModule ==
  /\ pc = "patch"
  /\ \E s \in PatchedSizes :
       LET new == Patched(conts[Module], s)
       IN  /\ conts' = [conts EXCEPT ![Module] = new]
           /\ tmd' = [tmd EXCEPT !.contents[Module].size = new.size,
                                 !.contents[Module].hash = new.dec,
                                 !.sig = "stale"]
  /\ Go("revision")
  /\ UNCHANGED <<args, k, wad, heapVars, esVars>>

\* A bug this guards against: the old buffer is freed before the new one is had.
NoMemoryForPatchedFreesFirst ==
  /\ pc = "patch"
  /\ \E s \in PatchedSizes : RoundUp(s, 2) > conts[Module].size
  /\ live' = live \ (fields \union {Ios})
  /\ bad' = (bad \/ ~(fields \union {Ios} \subseteq live \ {Enc(Module)}))
  /\ Return("err")
  /\ UNCHANGED <<args, k, wad, fields, conts, tmd, esVars>>

\* The module grew and there is no memory for its encrypted buffer.
NoMemoryForPatched ==
  /\ pc = "patch"
  /\ \E s \in PatchedSizes : RoundUp(s, 2) > conts[Module].size
  /\ FreeIOS /\ Return("err")
  /\ UNCHANGED <<args, k, wad, conts, tmd, esVars>>

SetRevision ==
  /\ pc = "revision"
  /\ tmd' = IF call.newrevision THEN [tmd EXCEPT !.new = TRUE, !.sig = "stale"] ELSE tmd
  /\ Go("sign")
  /\ UNCHANGED <<args, k, wad, heapVars, conts, esVars>>

\* forge_tmd(), if tmd_dirty; brute_tmd() may find no value for fill3 and
\* nobody looks at its result.
ForgeTmd ==
  /\ pc = "sign"
  /\ \E sig \in {"forged", "hopeless"} :
       tmd' = IF tmd.sig = "stale" THEN [tmd EXCEPT !.sig = sig] ELSE tmd
  /\ Go("encrypt")
  /\ UNCHANGED <<args, k, wad, heapVars, conts, esVars>>

\* A bug this guards against: the position is counted from 1.
EncryptIOSFrom1 ==
  /\ pc = "encrypt"
  /\ conts' = [c \in DOMAIN conts |->
                 [conts[c] EXCEPT !.enc = [iv |-> c, data |-> conts[c].dec]]]
  /\ Go("addTicket")
  /\ UNCHANGED <<args, k, wad, heapVars, tmd, esVars>>

EncryptIOS ==
  /\ pc = "encrypt"
  /\ conts' = [c \in DOMAIN conts |->
                 [conts[c] EXCEPT !.enc = [iv |-> c - 1, data |-> conts[c].dec]]]
  /\ Go("addTicket")
  /\ UNCHANGED <<args, k, wad, heapVars, tmd, esVars>>

\* install_unpatched_MIOS() asks for button A; the other path presets it.
Confirm ==
  /\ pc = "confirm"
  /\ \/ Go("addTicket") /\ UNCHANGED heapVars
     \/ FreeIOS /\ Return("err")
  /\ UNCHANGED <<args, k, wad, conts, tmd, esVars>>

----------------------------------------------------------------------------
(* install_IOS(); what ES does with a call is not in src/.                 *)

AddTicket ==
  /\ pc = "addTicket"
  /\ Go("addTitle")
  /\ UNCHANGED <<args, k, wad, heapVars, conts, tmd, esVars>>

AddTitleStart ==
  /\ pc = "addTitle"
  /\ tmd.sig \in {"official", "forged"} /\ ~es.open
  /\ es' = [open |-> TRUE, given |-> << >>] /\ k' = 1
  /\ Go("start")
  /\ UNCHANGED <<args, wad, heapVars, conts, tmd, title>>

AddContentStart ==
  /\ pc = "start" /\ k <= Len(conts)
  /\ Go("data")
  /\ UNCHANGED <<args, k, wad, heapVars, conts, tmd, esVars>>

AddContentData ==
  /\ pc = "data"
  /\ Go("finish")
  /\ UNCHANGED <<args, k, wad, heapVars, conts, tmd, esVars>>

\* ES decrypts with the index the TMD has for the content as its IV.
Delivered(c) == Decrypted(conts[c].enc, tmd.contents[c].index)
Acceptable(c) == /\ Delivered(c) = tmd.contents[c].hash
                 /\ conts[c].size >= tmd.contents[c].size

AddContentFinish ==
  /\ pc = "finish" /\ Acceptable(k)
  /\ es' = [es EXCEPT !.given = Append(@, Delivered(k))]
  /\ k' = k + 1
  /\ Go("start")
  /\ UNCHANGED <<args, wad, heapVars, conts, tmd, title>>

\* The last call: the whole title replaces the old one at once.
AddTitleFinish ==
  /\ pc = "start" /\ k > Len(conts)
  /\ title' = [contents |-> es.given, new |-> tmd.new]
  /\ es' = Closed
  /\ Go("installed")
  /\ UNCHANGED <<args, k, wad, heapVars, conts, tmd>>

\* The end of Install_patched_MIOS() and of install_unpatched_MIOS().
Succeed ==
  /\ pc = "installed"
  /\ FreeIOS /\ Return("ok")
  /\ UNCHANGED <<args, k, wad, conts, tmd, esVars>>

EsCalls == {"addTicket", "addTitle", "start", "data", "finish"}

\* A bug this guards against: the result of ES_AddTitleFinish() is ignored.
EsRefusesIgnored ==
  /\ pc \in EsCalls
  /\ es' = Closed
  /\ FreeIOS /\ Return(IF pc = "start" /\ k > Len(conts) THEN "ok" ELSE "err")
  /\ UNCHANGED <<args, k, wad, conts, tmd, title>>

\* Any call may fail: ES_AddTitleCancel(), free_IOS() and an error.
EsRefuses ==
  /\ pc \in EsCalls
  /\ es' = Closed
  /\ FreeIOS /\ Return("err")
  /\ UNCHANGED <<args, k, wad, conts, tmd, title>>

----------------------------------------------------------------------------
\* An import that was not finished is gone after a power cut.
PowerCut ==
  /\ pc \notin {"return", "off"}
  /\ pc' = "off" /\ live' = {} /\ fields' = {} /\ es' = Closed
  /\ UNCHANGED <<ret, args, k, wad, bad, conts, tmd, title>>

\* The installer is started again, by its user.
Again ==
  /\ pc \in {"return", "off"} /\ runs < MaxRuns
  /\ pc' = "usb" /\ ret' = "ok" /\ call' \in Calls /\ attempt' = 1 /\ k' = 1
  /\ live' = {} /\ fields' = {} /\ es' = Closed
  /\ conts' = << >> /\ tmd' = NoTmd
  /\ before' = title /\ runs' = runs + 1
  /\ UNCHANGED <<wad, bad, title>>

ReadWad == \/ InitIOS \/ OpenWad \/ ReadHeader \/ LoadCerts \/ LoadCrl
           \/ LoadTicket \/ LoadTmd \/ CheckTitle \/ SetContentCount
           \/ ReadContent \/ DecryptIOS \/ CheckHashes \/ FreeOnErr \/ CloseWad

Prepare == \/ FindModule \/ PatchFails \/ PatchModule \/ NoMemoryForPatched
           \/ SetRevision \/ ForgeTmd \/ EncryptIOS \/ Confirm

InstallIOS == \/ AddTicket \/ AddTitleStart \/ AddContentStart \/ AddContentData
              \/ AddContentFinish \/ AddTitleFinish \/ EsRefuses \/ Succeed

Next == InitUsb \/ ReadWad \/ Prepare \/ InstallIOS \/ PowerCut \/ Again

Spec == Init /\ [][Next]_vars

----------------------------------------------------------------------------
(* Properties                                                              *)

Blocks == {Ios} \union Arrays
          \union {B(n) : n \in {"fp", "header", "certs", "crl", "ticket", "tmd", "outbuf"}}
          \union {Enc(c) : c \in 1..Len(tmd.contents)}
          \union {Dec(c) : c \in 1..Len(tmd.contents)}

\* Every variable has its type, there is never more content than the TMD says
\* and the counter stays within it (the loops of wad.c:218 and
\* IOSPatcher.c:399).
TypeOK ==
  /\ ret \in {"ok", "err"} /\ call \in Calls /\ attempt \in Attempts /\ wad \in Wads
  /\ k \in 1..Len(tmd.contents) + 1
  /\ live \subseteq Blocks /\ fields \subseteq Blocks
  /\ conts \in Seq([size : Nat, encCap : Nat, decCap : Nat, dec : Data,
                    enc : [iv : Nat, data : Data]])
  /\ tmd \in [contents : Seq([index : Nat, size : Nat, hash : Data \ {Junk}]),
              new : BOOLEAN, sig : {"official", "stale", "forged", "hopeless"}]
  /\ Len(conts) <= Len(tmd.contents)
  /\ es \in [open : BOOLEAN, given : Seq(Data)] /\ runs \in Nat

\* No block is freed twice and none is lost by being replaced, on any path
\* through three attempts to read a WAD, a failure at any allocation and any
\* call of ES; every pointer of *ios that is not NULL is live while *ios is in
\* use (free_IOS(), IOSPatcher.c:310, and its callers).
HeapSafe ==
  /\ ~bad
  /\ Ios \in live => fields \subseteq live
  /\ pc \in {"read", "patch", "revision", "sign", "encrypt", "confirm", "installed"}
             \union EsCalls
       => {Ios} \union fields \subseteq live

\* When the installer returns, with or without success, it has given back
\* all its memory and closed its file, but for the buffer of patchMIOS() that
\* patchmios.c:240 forgets; and ES has no import open (ES_AddTitleCancel()).
NothingLeftOpen == pc = "return" => live \subseteq {B("outbuf")} /\ ~es.open

\* Wherever the loops over the contents run (decryption, hashing, encryption,
\* the calls of ES), no content is larger than either of its buffers: the
\* patched module may have grown or shrunk (IOSPatcher.c:932-950).
BuffersHold ==
  \A c \in DOMAIN conts :
    conts[c].size <= conts[c].encCap /\ conts[c].size <= conts[c].decCap

\* What is handed to ES is consistent: the TMD was not changed after it was
\* signed, and every content decrypts, with the IV ES will use, to data with
\* the hash the TMD has for it. A short read, a corrupt WAD, or one whose
\* contents are not in the order of their indexes is found before the first
\* call of ES (wad.c:256-266, IOSPatcher.c:953-985).
SubmittedConsistent ==
  pc \in EsCalls =>
    /\ tmd.sig # "stale"
    /\ Len(conts) = Len(tmd.contents)
    /\ \A c \in DOMAIN conts : Acceptable(c)

\* The titles a complete installation leaves.
WholeTitle(w, a) ==
  [contents |-> [c \in DOMAIN w.contents |->
                   [w.contents[c].data EXCEPT
                      !.patched = a.patchhomebrew /\ c = ModuleOf(w.contents)]],
   new |-> a.newrevision]

WholeTitles == {WholeTitle(w, a) : w \in Wads, a \in Calls}

Seen(t) == IF t = OldTitle THEN "old" ELSE IF t \in WholeTitles THEN "new" ELSE "broken"

Result == IF pc = "return" THEN ret ELSE IF pc = "off" THEN "cut" ELSE "running"

Store == INSTANCE TitleStore WITH
           title <- Seen(title), before <- Seen(before), result <- Result

\* The installer keeps the promise of TitleStore: through failures and power
\* cuts the console has the old title or a whole new one, and the result says
\* which. (The WADs have a module to patch, see WithModule in MCInstaller.)
StoreSpec == Store!Spec
============================================================================
