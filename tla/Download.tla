------------------------------ MODULE Download -----------------------------
(***************************************************************************)
(* Download_IOS() of src/IOSPatcher.c, which get_IOS() calls in the place  *)
(* of Wad_Read_into_memory() if that is selected (main() never selects     *)
(* it): TMD, ticket and contents are requested from a server, each request *)
(* may fail, and what comes has any length. The rest is the installer's.   *)
(* A request is get_nus_object(), in one step; see Http for what is in it. *)
(***************************************************************************)
EXTENDS Installer

\* tmd_buffer and ticket_buffer, which are not fields of *ios.
Buffer(part) == <<part, 1>>

\* http_host and http_path of the n-th request: that of the TMD is the first, of the
\* ticket the second, of content c the one numbered c + 2. http_get_result() frees
\* them; after a request that failed nobody does (IOSPatcher.c:450-453).
Names(n) == <<"names", n>>

\* No title has an empty content. (One would be in order without being received.)
ASSUME DownloadAssumption ==
  \A w \in Wads : \A c \in DOMAIN w.contents : w.contents[c].size > 0

\* get_IOS() with selection 2; wad is what the server has.
SelectDownload ==
  /\ pc = "usb" /\ Go("init") /\ wad' \in Wads
  /\ UNCHANGED <<args, k, heapVars, conts, tmd, esVars>>

\* net_init() is repeated as long as it returns -11; main() downloads once.
NetInit ==
  /\ pc = "open"
  /\ Go("certs") \/ Err
  /\ UNCHANGED <<args, k, wad, heapVars, conts, tmd, esVars>>

\* A copy of cert_sys.
GetCerts ==
  /\ pc = "certs"
  /\ \/ Alloc({B("certs")}) /\ fields' = fields \union {B("certs")} /\ Go("getTmd")
     \/ Err /\ UNCHANGED heapVars
  /\ UNCHANGED <<args, k, wad, conts, tmd, esVars>>

\* get_nus_object() of the TMD or the ticket, which is the n-th request.
GetObject(at, part, n) ==
  /\ pc = at
  /\ \/ Alloc({Buffer(part)}) /\ Go(part)
     \/ Alloc({Names(n)}) /\ Err
  /\ UNCHANGED <<args, k, wad, fields, conts, tmd, esVars>>

\* A bug this guards against: the object is copied and its buffer forgotten.
CopyObjectKeepsBuffer(part, next) ==
  /\ pc = part
  /\ \/ /\ live' = live \union {B(part)}
        /\ fields' = fields \union {B(part)} /\ UNCHANGED bad
        /\ IF wad.sigs THEN Go(next) ELSE Err
     \/ Err /\ UNCHANGED heapVars
  /\ UNCHANGED <<args, k, wad, conts, esVars>>

\* A bug this guards against: the pointer is set although there is no memory.
CopyObjectDangles(part, next) ==
  /\ pc = part
  /\ \/ /\ live' = (live \ {Buffer(part)}) \union {B(part)}
        /\ fields' = fields \union {B(part)} /\ UNCHANGED bad
        /\ IF wad.sigs THEN Go(next) ELSE Err
     \/ Err /\ fields' = fields \union {B(part)} /\ UNCHANGED <<live, bad>>
  /\ UNCHANGED <<args, k, wad, conts, esVars>>

\* It is copied to memory of its own size and the buffer freed; if there is no
\* memory for it the buffer is lost.
CopyObject(part, next) ==
  /\ pc = part
  /\ \/ /\ live' = (live \ {Buffer(part)}) \union {B(part)}
        /\ fields' = fields \union {B(part)} /\ UNCHANGED bad
        /\ IF wad.sigs THEN Go(next) ELSE Err
     \/ Err /\ UNCHANGED heapVars
  /\ UNCHANGED <<args, k, wad, conts, esVars>>

GetTmd == GetObject("getTmd", "tmd", 1)

CopyTmd ==
  /\ CopyObject("tmd", "getTicket")
  /\ tmd' = IF pc' # "getTicket" THEN tmd
            ELSE [NoTmd EXCEPT !.contents =
                    [c \in DOMAIN wad.contents |->
                       [index |-> wad.contents[c].index,
                        size  |-> wad.contents[c].size,
                        hash  |-> wad.contents[c].hash]]]

GetTicket == GetObject("getTicket", "ticket", 2)

CopyTicket == CopyObject("ticket", "title") /\ UNCHANGED tmd

\* What a content is after its request: the length that was received, or
\* if nothing was, the length that was expected.
Received(got, n, d) ==
  LET s == IF got THEN n ELSE RoundUp(tmd.contents[k].size, 4)
  IN  [size |-> s, encCap |-> IF got THEN n ELSE 0, decCap |-> s, dec |-> Junk,
       enc |-> [iv |-> wad.contents[k].index, data |-> IF got THEN d ELSE Junk]]

\* Lengths a server may answer a request for the content with.
Lengths == {0, tmd.contents[k].size - 1, tmd.contents[k].size, tmd.contents[k].size + 1}
           \intersect Nat

\* A bug this guards against: a content that is too short is not noticed.
LongEnoughAlways(c) == TRUE

LongEnough(c) == c.size >= tmd.contents[k].size

\* One round of the loop over the contents: whether the request succeeded is not
\* looked at (IOSPatcher.c:651), only the length, which may be no multiple of
\* 16 either.
GetContent ==
  /\ pc = "content" /\ k <= Len(tmd.contents)
  /\ \E got \in BOOLEAN, memory \in BOOLEAN, n \in Lengths, d \in {wad.contents[k].data, Junk} :
       LET c   == Received(got, n, d)
           enc == IF got THEN {Enc(k)} ELSE {}
           new == IF memory THEN enc \union {Dec(k)} ELSE enc
       IN  \/ /\ LongEnough(c)
              /\ Alloc(new \union (IF got THEN {} ELSE {Names(k + 2)}))
              /\ fields' = fields \union new
              /\ IF memory
                 THEN /\ conts' = Append(conts, c) /\ k' = k + 1
                      /\ ret' = (IF got THEN "ok" ELSE "err") /\ UNCHANGED pc
                 ELSE Err /\ UNCHANGED <<conts, k>>
           \/ /\ got   \* too short, or no multiple of 16
              /\ Alloc(enc) /\ fields' = fields \union enc
              /\ Err /\ UNCHANGED <<conts, k>>
  /\ UNCHANGED <<args, wad, tmd, esVars>>

\* decrypt_IOS() reads every encrypted_buffer.
Decrypt ==
  \/ DecryptIOS /\ \A c \in DOMAIN conts : Enc(c) \in fields \/ conts[c].size = 0
  \/ /\ pc = "content" /\ k > Len(tmd.contents)
     /\ \E c \in DOMAIN conts : Enc(c) \notin fields /\ conts[c].size > 0
     /\ Go("crashed")
     /\ UNCHANGED <<args, k, wad, heapVars, conts, tmd, esVars>>

\* There is no second attempt.
DownloadReturns ==
  /\ pc = "out"
  /\ IF ret = "ok" THEN Go("read") ELSE Return("err")
  /\ UNCHANGED <<args, k, wad, heapVars, conts, tmd, esVars>>

DownloadIOS == \/ SelectDownload \/ InitIOS \/ NetInit \/ GetCerts
               \/ GetTmd \/ CopyTmd \/ GetTicket \/ CopyTicket \/ CheckTitle
               \/ SetContentCount \/ GetContent \/ Decrypt \/ CheckHashes
               \/ FreeOnErr \/ DownloadReturns

DownloadNext == DownloadIOS \/ Prepare \/ InstallIOS \/ PowerCut \/ Again

DownloadSpec == Init /\ [][DownloadNext]_vars

----------------------------------------------------------------------------
(* Properties; those of Installer that do not mention its file hold, too.  *)
(* (http_host and http_path are no pointers of *ios: that the next request *)
(* replaces those of one that failed is not against HeapSafe.)             *)

\* The names of the first n contents, as far as their requests failed.
NamesLost(n) == {Names(c + 2) : c \in {i \in 1..n : Enc(i) \notin fields}}

\* Not all memory is given back when the installer returns. After a success all is;
\* after a failure what may be missing is the buffer of patchMIOS(), the object that
\* was received and could not be copied, or the names of the request that failed,
\* one of them; or, since the loop goes on after a failed request, the names of every
\* content that was not received, and nothing else. No import is left open
\* (http.c:289-290, 390-391, IOSPatcher.c:450-453, 563-606, 651, 701-705).
KnownLeaksOnly ==
  pc = "return" =>
    /\ ~es.open /\ (ret = "ok" => live = {})
    /\ \/ \E b \in {B("outbuf"), Buffer("tmd"), Buffer("ticket"), Names(1), Names(2)} :
            live \subseteq {b}
       \/ live \subseteq NamesLost(Len(tmd.contents))

\* Whatever lengths the server answers with, the size that the TMD has for a content
\* is within the buffer that is hashed (IOSPatcher.c:647-673, 690).
HashedFits ==
  pc = "check" => \A c \in DOMAIN conts : tmd.contents[c].size <= conts[c].decCap

============================================================================
