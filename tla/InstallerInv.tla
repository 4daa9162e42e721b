---------------------------- MODULE InstallerInv ----------------------------
(***************************************************************************)
(* Why the installer is correct: what holds at each point of the program,  *)
(* of the heap and of the contents, and implies its invariants.            *)
(***************************************************************************)
EXTENDS Installer

Files == {B("fp"), B("header")}
Parts == {B("certs"), B("crl"), B("ticket"), B("tmd")}

\* The points of Wad_Read_into_memory() and what follows it.
Reading  == {"open", "header", "certs", "crl", "ticket", "tmd", "title", "count",
             "content", "check"}
Prepared == {"read", "patch", "revision", "sign", "encrypt", "confirm", "installed"}
            \union EsCalls
Ended    == {"usb", "init", "return", "off"}
Points   == Reading \union Prepared \union Ended \union {"err", "out"}

PointInv ==
  /\ pc \in Points
  /\ pc = "err" => ret = "err"
  /\ pc \in Reading => ret = "ok"

\* The fields of *ios that may have been set when the part at p is loaded.
Before(p) ==
  CASE p = "crl" -> {B("certs")}
    [] p = "ticket" -> {B("certs"), B("crl")}
    [] p = "tmd" -> Parts \ {B("tmd")}
    [] p \in {"title", "count"} -> Parts
    [] OTHER -> {}

Buffers(n) == {Enc(c) : c \in 1..n} \union {Dec(c) : c \in 1..n}

AllFields == Parts \union Arrays \union Buffers(Len(tmd.contents))

\* What *ios points to; everything else that is live is an open file.
Owned == {Ios} \union fields

\* The blocks that are live, by the point of the program.
HeapInv ==
  /\ ~bad /\ fields \subseteq AllFields
  /\ pc \in {"usb", "init", "off"} => live = {}
  /\ pc = "return" => live \subseteq {B("outbuf")}
  /\ pc = "open" => live = Owned
  /\ pc = "header" => live = Owned \union {B("fp")}
  /\ pc \in Reading \ {"open", "header"} => live = Owned \union Files
  /\ pc = "err" => \E f \in SUBSET Files : live = Owned \union f
  /\ pc = "out" => IF ret = "ok" THEN live = Owned \union Files ELSE live \subseteq Files
  /\ pc \in Prepared => live = Owned
  /\ pc \in Reading \ {"content", "check"} => fields \subseteq Before(pc)
  /\ pc = "content" => fields \subseteq Parts \union Arrays \union Buffers(k - 1)

\* The TMD is that of the open WAD.
TmdInv ==
  /\ pc \in Reading \ {"title", "count", "content", "check"} => tmd = NoTmd
  /\ pc \in {"title", "count", "content", "check"} =>
       /\ DOMAIN tmd.contents = DOMAIN wad.contents
       /\ \A c \in DOMAIN tmd.contents :
            /\ tmd.contents[c].index = wad.contents[c].index
            /\ tmd.contents[c].size = wad.contents[c].size
            /\ tmd.contents[c].hash = wad.contents[c].hash

\* The contents checked, so that position and index agree.
Checked == (pc = "out" /\ ret = "ok") \/ pc \in Prepared

\* The counters over the contents, and which of them have been read.
CountInv ==
  /\ pc \in {"open", "header", "certs", "crl", "ticket", "tmd", "title", "count"} =>
       k = 1 /\ conts = << >>
  /\ pc = "content" => Len(conts) = k - 1
  /\ pc = "check" \/ Checked => Len(conts) = Len(tmd.contents)
  /\ pc \in {"data", "finish"} => k <= Len(conts)

\* What is known of each content.
ContentInv ==
  \A c \in DOMAIN conts :
    /\ conts[c].size <= conts[c].encCap /\ conts[c].size <= conts[c].decCap
    /\ tmd.contents[c].size <= conts[c].size
    /\ pc \in {"content", "check"} => conts[c].enc.iv = tmd.contents[c].index
    /\ pc = "check" => conts[c].dec = Decrypted(conts[c].enc, c - 1)
    /\ Checked => /\ tmd.contents[c].index = c - 1
                  /\ conts[c].dec = tmd.contents[c].hash
    /\ pc \in {"out", "read", "confirm"} \union EsCalls /\ Checked =>
         conts[c].enc = [iv |-> c - 1, data |-> conts[c].dec]

\* The signature is that of the TMD as it is.
SigInv ==
  /\ pc \in Reading \union {"read", "confirm"} \/ (pc = "out" /\ ret = "ok")
       => tmd.sig = "official"
  /\ pc \in {"encrypt"} \union EsCalls => tmd.sig # "stale"

\* ES has an import open only while its contents are given.
EsInv == pc \notin {"start", "data", "finish"} => es.open = FALSE

\* The inductive invariant.
InstallInv ==
  /\ TypeOK /\ PointInv
  /\ HeapInv /\ TmdInv /\ CountInv /\ ContentInv /\ SigInv /\ EsInv

----------------------------------------------------------------------------
(* Why the installer keeps the promise of TitleStore, for WADs that have a *)
(* module to patch and are not patched yet.                                *)

Importing == {"start", "data", "finish"}

OriginalWads ==
  \A w \in Wads : /\ ModuleOf(w.contents) # 0
                  /\ \A c \in DOMAIN w.contents : ~w.contents[c].data.patched

\* The data of content c, before and after patchMIOS().
Intended(c) ==
  [wad.contents[c].data EXCEPT
     !.patched = /\ call.patchhomebrew /\ pc \notin {"out", "read", "patch"}
                 /\ c = ModuleOf(wad.contents)]

\* What is read is the WAD's data or junk; what was checked, and patched, is
\* what the arguments ask for.
DataInv ==
  /\ pc \in {"content", "check"} =>
       \A c \in DOMAIN conts : conts[c].enc.data \in {wad.contents[c].data, Junk}
  /\ Checked =>
       /\ DOMAIN tmd.contents = DOMAIN wad.contents
       /\ \A c \in DOMAIN conts : /\ tmd.contents[c].index = wad.contents[c].index
                                 /\ conts[c].dec = Intended(c)

\* The way through Install_patched_MIOS() is that of the arguments.
PathInv ==
  /\ call \in [patchhomebrew : BOOLEAN, newrevision : BOOLEAN]
  /\ pc = "patch" => call.patchhomebrew
  /\ pc = "confirm" => Unpatched
  /\ pc \in Reading \union {"read", "patch", "revision", "confirm"} => ~tmd.new
  /\ pc = "out" /\ ret = "ok" => ~tmd.new
  /\ pc \in {"sign", "encrypt"} \union EsCalls => tmd.new = call.newrevision

NewInstalled == Seen(title) = "new"

\* ES was given the contents before k; the title changes with the last call.
GivenInv ==
  /\ pc \in Importing => /\ Len(es.given) = k - 1
                         /\ \A c \in 1..k - 1 : es.given[c] = conts[c].dec
  /\ pc \notin {"installed", "return", "off"} => title = before
  /\ pc = "installed" => NewInstalled

StoreInv == InstallInv /\ DataInv /\ PathInv /\ GivenInv
============================================================================
