----------------------------- MODULE BootState -----------------------------
(***************************************************************************)
(* The state shared by the Wii-side booter (lib/cmios/test.c) and the      *)
(* cMIOS (lib/cmios/src): the part of MEM1 that holds the copies of the    *)
(* payload and the legacy marker, and the signalling tag at 0x80001800.    *)
(* Nobody owns this memory while Broadway is halted between the two.       *)
(*                                                                         *)
(* A cell stands for one 4-byte word. A size is a number of cells and a    *)
(* flag: the last cell is only partly used (the byte size is no multiple   *)
(* of 4). A hash is the very content it was computed from: collisions of   *)
(* SHA-1 are left out.                                                     *)
(***************************************************************************)
EXTENDS Naturals, Ecc

CONSTANTS
  MemTop,        \* last cell of the modelled memory
  Base,          \* payloads[0..4] of the tag; the other four slots are NULL
  MarkerAt,      \* legacyMagic, 0x807fffe0
  Word,          \* what a cell can hold, except:
  Stale,         \* the word memory holds after power up
  Marker,        \* the string "gchomebrew dol"
  Files,         \* the .dol files the booter may find
  BooterBuilds,  \* "inject", "file": INJECTED defined in test.c, or not
  BooterMagics,  \* tag magics a booter writes; test.c writes "fileEcc"
  ShortReads,    \* fread may return less than was asked for
  INJECT,        \* cmios.c:7, a payload is linked into the cMIOS
  MaxDecay,      \* bound: cells that lose their value, in a behaviour
  MaxBoots       \* bound: boots into GameCube mode, in a behaviour

Addr  == 0..MemTop
Cell  == Word \union {Marker}
Sizes == [cells : 1..(MemTop + 1), tail : BOOLEAN]

ASSUME LayoutAssumption ==
  /\ MemTop \in Nat
  /\ Base \in [Copies -> Addr]
  /\ \A c, d \in Copies : c < d => Base[c] < Base[d]
  /\ MarkerAt \in Addr
  /\ Marker \notin Word
  /\ Stale \in Word

ASSUME FilesAssumption ==
  \A f \in Files :
    /\ f.size \in Sizes
    /\ f.data \in [0..(f.size.cells - 1) -> Word]
    /\ Base[4] + f.size.cells <= MemTop + 1

ASSUME BuildsAssumption ==
  /\ BooterBuilds \subseteq {"inject", "file"}
  /\ BooterMagics \subseteq {"file", "fileEcc"}
  /\ ShortReads \in BOOLEAN /\ INJECT \in BOOLEAN
  /\ MaxDecay \in Nat /\ MaxBoots \in Nat

VARIABLES
  mem,      \* MEM1: [Addr -> Cell]
  tag,      \* CMIOSTag: magic, size, hash
  pc,       \* where the program on Broadway is
  idx,      \* loop counter of LoadFile() and of correctErrors()
  run,      \* locals of the cMIOS's main(): branch taken, ecc
  entry,    \* the word at 0x800037fc: entry point of the PPC MIOS
  diSync,   \* the word at 0x800030F8 shared with Starlet
  padA,     \* button A of controller 0 is held
  file,     \* the file the booter is reading or last read
  whole,    \* history: every fread of that file was complete
  snap,     \* history: memory as the cMIOS found it
  decays,   \* cells lost so far
  boots     \* boots so far

wiiVars  == <<file, whole>>
gcVars   == <<run, entry, diSync, snap>>
counters == <<decays, boots>>
vars == <<mem, tag, pc, idx, run, entry, diSync, padA, file, whole, snap,
          decays, boots>>

WiiPhases == {"menu", "go", "read", "stall", "launch", "fail"}
GCPhases  == {"transit", "startup", "decide", "ecc", "verify", "resetDI", "spin",
              "exec", "payload", "callMIOS", "mios"}

Magics     == {"none", "inject", "file", "fileEcc"}
FileMagics == {"file", "fileEcc"}   \* (magic & 0x0fffffff) == 0xd0110ad
Kinds      == {"inject", "file", "legacy"}

NoRun == [kind |-> "none", ecc |-> FALSE]

\* The n cells at address a.
Content(m, a, n) == [i \in 0..(n - 1) |-> m[a + i]]

\* A bug this guards against: the loop stops one word early.
EccWordsOneShort(size) == size.cells - 1

\* tag->size/4: the words correctErrors() looks at.
EccWords(size) == IF size.tail THEN size.cells - 1 ELSE size.cells

\* Word i of each of the five copies.
WordsAt(m, i) == [c \in Copies |-> m[Base[c] + i]]

\* The gaps between the payload addresses hold a payload of this size.
Fits(size) == \A c \in 0..3 : Base[c] + size.cells <= Base[c + 1]
============================================================================
