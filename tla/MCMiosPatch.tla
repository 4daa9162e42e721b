---------------------------- MODULE MCMiosPatch ----------------------------
(* Files of up to three segments, the places of which are free.            *)
EXTENDS MiosPatch

CONSTANTS MaxHeaders, FileSize

MCDol == <<91, 92, 93, 94>>

\* Segments of code, and segments that end before the entry point or with it.
Segments == [offset : 5..7, paddr : {EntryAddr - 1, CodeFrom + 1}, filesz : 1..2]

Table(n) == [load |-> TRUE, offset |-> EhdrSize, paddr |-> 0, filesz |-> n, memsz |-> n]

\* Those, two that are not loaded, and the table of headers as a segment.
Headers(n) ==
  {[load |-> TRUE, offset |-> s.offset, paddr |-> s.paddr,
    filesz |-> s.filesz, memsz |-> s.filesz] : s \in Segments}
  \cup {[load |-> FALSE, offset |-> 5, paddr |-> EntryAddr, filesz |-> 1, memsz |-> 1],
        [load |-> TRUE, offset |-> 5, paddr |-> EntryAddr, filesz |-> 1, memsz |-> 0],
        Table(n)}

\* Every word is another one, but for the old entry point at one place.
Words(at) == [p \in 0..FileSize - 1 |-> IF p = at THEN OldEntry ELSE 100 + p]

Files(n, left) ==
  [valid : {TRUE}, ph : [1..n -> Headers(n)], left : {left},
   length : {FileSize}, words : {Words(6), Words(8)}]

\* The word that becomes the offset of the new header is that of the table
\* only in the smaller files.
MCElfs ==
  UNION {Files(n, 100) : n \in 0..MaxHeaders}
  \cup UNION {Files(n, EhdrSize) : n \in 0..MaxHeaders - 1}
  \cup [valid : {FALSE}, ph : {<< >>}, left : {100}, length : {FileSize}, words : {Words(6)}]
============================================================================
