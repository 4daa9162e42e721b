----------------------------- MODULE MiosPatch -----------------------------
(***************************************************************************)
(* patchMIOS() of src/patchmios.c: the ELF file in a content of the MIOS   *)
(* gets one segment more, the cMIOS, and a new entry point. First          *)
(* calculate_new_size() says how large the result will be, then            *)
(* copy_sections() makes it, in the order of the program headers.          *)
(*                                                                         *)
(* The unit of sizes, offsets and addresses is a word of 4 bytes. The      *)
(* program headers are kept apart from the words they are stored in: what  *)
(* the segments copy lies behind them. Sums are taken not to wrap at 2^32. *)
(***************************************************************************)
EXTENDS Integers, Sequences

CONSTANTS
  Elfs,        \* the files there may be, see ElfAssumption
  EhdrSize,    \* sizeof(Elf32_Ehdr_t)
  PhdrSize,    \* sizeof(Elf32_Phdr_t)
  CopySize,    \* 0x1000 bytes, copied before anything is looked at
  ArmSize,     \* what is before the ELF file: the ARM header and its offset
  Align,       \* 0x40 bytes, the buffer is a multiple of it
  CodeFrom, CodeTo,   \* 0x10000 and 0x2000000: where a MIOS has its code
  EntryAddr,   \* ENTRY_PATCH_ADDR, address of the entry point
  OldEntry,    \* 0x81300200
  NewEntry,    \* BIN_PATCH_ADDR as an entry point
  LoadAddr,    \* BIN_PATCH_ADDR as a physical address
  Dol          \* dolloader_bin, the cMIOS

Header == [load : BOOLEAN, offset : Nat, paddr : Nat, filesz : Nat, memsz : Nat]

DolSize == Len(Dol)

\* The size of a table of n program headers.
TableOf(n) == n * PhdrSize

ASSUME ElfAssumption ==
  /\ EhdrSize \in Nat \ {0} /\ PhdrSize \in Nat \ {0} /\ CopySize \in Nat
  /\ ArmSize \in Nat /\ Align \in Nat \ {0}
  /\ CodeFrom \in Nat /\ CodeTo \in Nat /\ EntryAddr \in Nat
  /\ LoadAddr \in Nat /\ EntryAddr < LoadAddr
  /\ OldEntry \in Nat /\ NewEntry \in Nat
  /\ Dol \in Seq(Nat) /\ DolSize > 0
  /\ \A e \in Elfs :
       /\ e.valid \in BOOLEAN    \* header size of the ARM binary, ELF magic
       /\ e.ph \in Seq(Header)
       /\ e.left \in Nat         \* the offset in a header after the last one
       /\ e.length \in Nat /\ e.words \in [0..e.length - 1 -> Nat]
       \* "0x1000 should be enough to copy ELF header."
       /\ EhdrSize + TableOf(Len(e.ph) + 1) <= CopySize

VARIABLES
  pc,      \* "check", "size", "copy", "done", or "overrun": a copy left a buffer
  elf,     \* the file in *buffer
  i,       \* the loop counter of both functions, from 1
  size,    \* maxSize, then outElfSize
  code,    \* patchSize # 0
  out,     \* the program headers and the words of outElf
  outPos,  \* where the next segment goes
  entry,   \* entry # NULL
  ret      \* "none", "ok", "refused", "nomem"

vars == <<pc, elf, i, size, code, out, outPos, entry, ret>>

Nothing == [ph |-> << >>, words |-> [p \in {} |-> 0]]

Loaded(h)  == h.load /\ h.memsz # 0 /\ h.filesz # 0
End(h)     == h.offset + h.filesz
IsTable(h) == h.offset = EhdrSize

\* A bug this guards against: a segment that ends before the entry point has it.
HasOrEnds(h, a) == h.paddr <= a /\ a <= h.paddr + h.filesz

\* The segment has the word at a.
Has(h, a) == h.paddr <= a /\ a < h.paddr + h.filesz

IsCode(h) == Loaded(h) /\ CodeFrom < h.paddr /\ h.paddr < CodeTo

Return(r) == pc' = "done" /\ ret' = r

----------------------------------------------------------------------------
Init ==
  /\ pc = "check" /\ elf \in Elfs /\ i = 1 /\ size = 0 /\ code = FALSE
  /\ out = Nothing /\ outPos = 0 /\ entry = FALSE /\ ret = "none"

\* A bug this guards against: the error is noted, and the function goes on.
CheckHeadersGoesOn ==
  /\ pc = "check"
  /\ pc' = "size" /\ ret' = IF elf.valid THEN "none" ELSE "refused"
  /\ UNCHANGED <<elf, i, size, code, out, outPos, entry>>

CheckHeaders ==
  /\ pc = "check"
  /\ \/ elf.valid /\ pc' = "size" /\ UNCHANGED ret
     \/ ~elf.valid /\ Return("refused")
  /\ UNCHANGED <<elf, i, size, code, out, outPos, entry>>

\* A bug this guards against: the size is that of the largest segment.
SizeHeaderNoOffset ==
  /\ pc = "size" /\ i <= Len(elf.ph)
  /\ LET h == elf.ph[i]
     IN  /\ size' = IF Loaded(h) /\ h.filesz > size THEN h.filesz ELSE size
         /\ code' = (code \/ IsCode(h))
  /\ i' = i + 1
  /\ UNCHANGED <<pc, elf, out, outPos, entry, ret>>

\* A round of calculate_new_size().
SizeHeader ==
  /\ pc = "size" /\ i <= Len(elf.ph)
  /\ LET h == elf.ph[i]
     IN  /\ size' = IF Loaded(h) /\ End(h) > size THEN End(h) ELSE size
         /\ code' = (code \/ IsCode(h))
  /\ i' = i + 1
  /\ UNCHANGED <<pc, elf, out, outPos, entry, ret>>

\* No segment is code, or memalign() fails.
NotPatchable ==
  /\ pc = "size" /\ i > Len(elf.ph)
  /\ \/ ~code /\ Return("refused")
     \/ code /\ Return("nomem")
  /\ UNCHANGED <<elf, i, size, code, out, outPos, entry>>

\* What the buffer of content_size bytes has for an ELF file of n words.
Room(n) == ((n + ArmSize + Align - 1) \div Align) * Align - ArmSize

\* The new header before it is filled in has what happens to be there as its
\* offset; all else in it is set when its turn comes, and not read before.
DolHeader(e) == [load |-> TRUE, offset |-> e.left, paddr |-> LoadAddr,
                 filesz |-> DolSize, memsz |-> DolSize]

\* The buffer, cleared, and the start of copy_sections().
StartCopy ==
  /\ pc = "size" /\ i > Len(elf.ph) /\ code
  /\ size' = size + DolSize + PhdrSize
  /\ \/ /\ CopySize <= Room(size') /\ CopySize <= elf.length
        /\ pc' = "copy"
        /\ out' = [ph    |-> Append(elf.ph, DolHeader(elf)),
                   words |-> [p \in 0..Room(size') - 1 |->
                                IF p < CopySize THEN elf.words[p] ELSE 0]]
     \/ /\ ~(CopySize <= Room(size') /\ CopySize <= elf.length)
        /\ pc' = "overrun" /\ UNCHANGED out
  /\ outPos' = EhdrSize + TableOf(Len(elf.ph) + 1)
  /\ i' = 1
  /\ UNCHANGED <<elf, code, entry, ret>>

TableSize == TableOf(Len(out.ph))

\* The header of segment i as it is written. The table of headers stays where
\* it is, and grows with the new header.
NewHeader(h) ==
  IF IsTable(h) THEN [h EXCEPT !.filesz = TableSize, !.memsz = TableSize]
                ELSE [h EXCEPT !.offset = outPos]

IsDol == i = Len(out.ph)

\* A bug this guards against: the source is found after the offset was changed.
WordNewOffset(h, q) ==
  IF IsDol THEN Dol[q + 1] ELSE elf.words[(NewHeader(h).offset + q) % elf.length]

\* The words that are copied to outPos, and how many. The source of the table
\* of headers is the table: it is copied behind it too, and overwritten there.
Length(h) == IF IsDol THEN DolSize ELSE NewHeader(h).filesz
Word(h, q) == IF IsDol THEN Dol[q + 1] ELSE elf.words[h.offset + q]

Copied(h) ==
  [p \in DOMAIN out.words |->
     IF outPos <= p /\ p < outPos + Length(h) THEN Word(h, p - outPos) ELSE out.words[p]]

\* Where the entry point is in the result.
EntryAt(h) == NewHeader(h).offset + EntryAddr - h.paddr

InBuffers(h) == /\ outPos + Length(h) <= Room(size)
                /\ IsDol \/ h.offset + Length(h) <= elf.length

SkipSegment ==
  /\ pc = "copy" /\ i <= Len(out.ph) /\ ~Loaded(out.ph[i])
  /\ i' = i + 1
  /\ UNCHANGED <<pc, elf, size, code, out, outPos, entry, ret>>

\* A round of copy_sections(): a segment is copied, and either the entry point
\* is not in it, or it is the expected one and replaced, or it is another one.
CopySegment ==
  /\ pc = "copy" /\ i <= Len(out.ph)
  /\ LET h == out.ph[i]
         g == NewHeader(h)
     IN  /\ Loaded(h) /\ InBuffers(h)
         /\ outPos' = IF IsTable(g) THEN outPos ELSE outPos + g.filesz
         /\ \/ /\ ~Has(g, EntryAddr)
               /\ out' = [ph |-> [out.ph EXCEPT ![i] = g], words |-> Copied(h)]
               /\ UNCHANGED <<pc, entry, ret>>
            \/ /\ Has(g, EntryAddr) /\ Copied(h)[EntryAt(h)] = OldEntry
               /\ out' = [ph    |-> [out.ph EXCEPT ![i] = g],
                          words |-> [Copied(h) EXCEPT ![EntryAt(h)] = NewEntry]]
               /\ entry' = TRUE
               /\ UNCHANGED <<pc, ret>>
            \/ /\ Has(g, EntryAddr) /\ Copied(h)[EntryAt(h)] # OldEntry
               /\ Return("refused")
               /\ out' = [ph |-> [out.ph EXCEPT ![i] = g], words |-> Copied(h)]
               /\ entry' = TRUE
  /\ i' = i + 1
  /\ UNCHANGED <<elf, size, code>>

Overrun ==
  /\ pc = "copy" /\ i <= Len(out.ph) /\ Loaded(out.ph[i]) /\ ~InBuffers(out.ph[i])
  /\ pc' = "overrun"
  /\ UNCHANGED <<elf, i, size, code, out, outPos, entry, ret>>

EndCopy ==
  /\ pc = "copy" /\ i > Len(out.ph)
  /\ Return(IF entry THEN "ok" ELSE "refused")
  /\ UNCHANGED <<elf, i, size, code, out, outPos, entry>>

Next == \/ CheckHeaders \/ SizeHeader \/ NotPatchable \/ StartCopy
        \/ SkipSegment \/ CopySegment \/ Overrun \/ EndCopy

Spec == Init /\ [][Next]_vars

----------------------------------------------------------------------------
(* Properties                                                              *)

\* The states patchMIOS() goes through: it has a result exactly when it has
\* ended (no error is passed over), and the copy has one header more.
TypeOK ==
  /\ pc \in {"check", "size", "copy", "done", "overrun"}
  /\ ret \in {"none", "ok", "refused", "nomem"} /\ (ret = "none" <=> pc # "done")
  /\ elf \in Elfs /\ i \in 1..Len(elf.ph) + 2 /\ size \in Nat /\ outPos \in Nat
  /\ code \in BOOLEAN /\ entry \in BOOLEAN
  /\ pc = "copy" =>
       /\ out.ph \in Seq(Header) /\ Len(out.ph) = Len(elf.ph) + 1
       /\ out.words \in [0..Room(size) - 1 -> Nat]

\* What linkers make: the table of headers, if it is a segment, is one of its
\* own size; the others are behind the table in their order, without sharing
\* any of the file, and the last of them ends behind what is copied first; the
\* cMIOS is larger than the table; and the word that becomes the offset of the
\* new header is not by accident that of the table.
Regular(e) ==
  /\ TableOf(Len(e.ph) + 1) <= DolSize
  /\ e.left # EhdrSize
  /\ \E j \in DOMAIN e.ph : Loaded(e.ph[j]) /\ CopySize <= End(e.ph[j])
  /\ \A j \in DOMAIN e.ph : Loaded(e.ph[j]) =>
       IF IsTable(e.ph[j])
       THEN e.ph[j].filesz = TableOf(Len(e.ph))
       ELSE /\ EhdrSize + TableOf(Len(e.ph)) <= e.ph[j].offset
            /\ End(e.ph[j]) <= e.length
            /\ \A l \in 1..j - 1 :
                 Loaded(e.ph[l]) => End(e.ph[l]) <= e.ph[j].offset

\* The size that is calculated from the old offsets is enough for all that is
\* copied, in the order and to the places that are found while copying.
FitsInSize == Regular(elf) => /\ pc # "overrun"
                              /\ pc = "copy" => outPos <= size

\* The entry point is the word at EntryAddr, and not in the table of headers, as
\* large as the file says or as the table will be.
EntryIsData(e) ==
  /\ e.left # EhdrSize
  /\ \A j \in DOMAIN e.ph : IsTable(e.ph[j]) =>
       \A n \in {e.ph[j].filesz, TableOf(Len(e.ph) + 1)} :
         EntryAddr \notin e.ph[j].paddr..(e.ph[j].paddr + n - 1)

\* The file is returned as patched only if every segment has, at the place its
\* new header gives, the words it had, the entry point replaced, and the new
\* header leads to the cMIOS: however the segments lie in the file, nothing
\* that was copied is overwritten.
PatchedImage ==
  ret = "ok" /\ EntryIsData(elf) =>
    LET n == Len(elf.ph)
    IN  /\ \A j \in 1..n : Loaded(elf.ph[j]) /\ ~IsTable(elf.ph[j]) =>
             LET h == elf.ph[j]
                 g == out.ph[j]
             IN  /\ g = [h EXCEPT !.offset = g.offset]
                 /\ \A q \in 0..h.filesz - 1 :
                      out.words[g.offset + q] =
                        IF h.paddr + q = EntryAddr THEN NewEntry ELSE elf.words[h.offset + q]
        /\ out.ph[n + 1].paddr = LoadAddr
        /\ \A q \in 1..DolSize : out.words[out.ph[n + 1].offset + q - 1] = Dol[q]

\* A file that can be patched: it has code, and the expected entry point in
\* every segment that is loaded over its address.
Patchable(e) ==
  LET HasEntry == {j \in DOMAIN e.ph : Loaded(e.ph[j]) /\
                     EntryAddr \in e.ph[j].paddr..(e.ph[j].paddr + e.ph[j].filesz - 1)}
  IN  /\ e.valid /\ HasEntry # {}
      /\ \E j \in DOMAIN e.ph : IsCode(e.ph[j])
      /\ \A j \in HasEntry : e.words[e.ph[j].offset + EntryAddr - e.ph[j].paddr] = OldEntry

\* patchMIOS() refuses the files that cannot be patched, and no other.
RefusesRightly ==
  /\ ret = "ok" /\ EntryIsData(elf) => Patchable(elf)
  /\ ret = "refused" /\ EntryIsData(elf) => ~Patchable(elf)
============================================================================
