# Debug cMIOS: models, checks and proofs

Debug cMIOS boots GameCube homebrew on a Wii. A Wii program leaves a request in
memory and launches GameCube mode; there a small program, the *cMIOS*, injected into
the system's MIOS, finds the request, repairs and verifies the homebrew and runs
it, or starts the MIOS as if nothing had happened. An installer makes the patched
MIOS from an original one and installs it as a system title.

This directory holds TLA+ models of that code, the TLC configurations that check
them and proofs checked by TLAPS. Paths below are relative to `src/`.

## 1. Inventory

| Component | Code | State | Operations | Interacts with |
|---|---|---|---|---|
| Wii-side booter | `lib/cmios/test.c` | the file read, five copies of it, the tag at 0x80001800 | open, read five times, hash, write the tag, wait for button A to be released, launch BC, retry | the cMIOS, by memory only |
| cMIOS | `lib/cmios/src/cmios.c`, `ecc.c` | tag, marker at 0x807fffe0, the word at 0x800037fc (entry point), the word at 0x800030F8 (DI flag), locals `ecc`, `run` | decide, correct errors, verify, reset DI, execute, call the MIOS | the booter's leftovers; Starlet over the DI flag; itself, through the startup code |
| .dol loader | `lib/cmios/src/loader.c` | all of memory, the header included | clear bss, copy 18 sections, jump | called by the cMIOS |
| Installer | `src/main.c`, `src/IOSPatcher.c` | `IOS*` with its buffers, the TMD, ES's import | read, patch, sign, encrypt, install, free | WAD reader, ELF patcher, AES, SHA-1, ES |
| WAD reader | `src/wad.c` | file, header, `IOS*` | open, read and allocate each part, decrypt, check | called for up to three file names |
| ELF patcher | `src/patchmios.c` | input and output image | check headers, compute the size, copy segments, add the cMIOS, patch the entry point | called by the installer |
| Byte patches | `src/IOSPatcher.c:25-86` | a content's bytes | search and replace | called by the installer |
| NUS download | `src/http.c`, `IOSPatcher.c:441-706` | the socket, global status, length and block; object buffers | connect, send, read lines, read the body; get certificates, TMD, ticket, contents | fills the `IOS*` in the place of the WAD reader; not reachable from `main()`, as `get_IOS()` has the USB drive selected |
| AES-128 CBC | `src/rijndael.c`, `IOSPatcher.c:88-106, 230-270` | tables, key schedules and IVs, all static | make tables, expand a key, encrypt, decrypt | decrypt_IOS(), encrypt_IOS(), title key |
| SHA-1 | `src/sha1.c` | 64-byte buffer, 64-bit counter | init, update, final | hash checks, TMD signature |
| User interface | `src/tools.c` | console, pads, mounts | printing, buttons, mounting, reboot | everything |

What is hard about them:

- **Nobody owns the memory** between the booter and the cMIOS: cells lose their
  values while Broadway is halted; requests of three kinds may be there at once,
  left by programs that failed, exited or ran in an earlier boot; the reset button
  boots again with the same memory.
- **The cMIOS re-enters itself**: the startup code it jumps back to must find the
  entry point restored.
- **Two processors** share the DI flag.
- **The loader overwrites the memory it reads from**, its own header included.
- **Failure at every step of the installation**: three tries to read a WAD that
  share one pointer, an allocation, file, or system call that fails anywhere, power
  cuts between the calls that replace a system title; sizes that change on the way.
- **A network that may do anything at any try**: nothing, a part, an error, a reply cut
  anywhere; the request must end, close its socket and keep nothing of the last one.
- **Static state behind pure functions**: tables, key schedules and chaining blocks are shared by
  all calls; parts of blocks, carries and paddings go wrong at the edges only.

What makes each component correct: a request is served by one boot and in a fixed
priority; what runs is the file that was read; damage is repaired when five copies
allow it; the loader leaves memory as the header says; an installation is whole or
does not happen, its result says which, and no path through it corrupts the heap, wherever the
title came from; a content that is decrypted, patched and encrypted is what ES will read; a digest
is that of all the bytes of a message; a request ends, and succeeds only with a whole reply.
The hazards are listed line by line in `PROJECT.json`, with the properties that
cover each.

## 2. Modules

    Ecc ──> BootState ──> Booter ──┐
                     └──> Cmios  ──┴─> BootChain ──> BootInv ──> MCBootChain
                                          │             ├──────> BootProofs
                       OneShotBoot <──────┘
    DolLoader ──> MCDolLoader, DolLoaderProofs
    TitleStore <── Installer ──> InstallerInv ──> MCInstaller, InstallerProofs
               <──     └───────> Download ──────> MCDownload, InstallerProofs
    MiosPatch ──> MCMiosPatch, MiosPatchProofs
    BytePatch ──> MCBytePatch, BytePatchProofs
    HttpAnswer <── Http ──> MCHttp, HttpProofs
    Sha1Stream ──> MCSha1Stream, Sha1Proofs
    Cbc ──> MCCbc, CipherProofs
    ExclusiveOr ──> AesBytes ───────> Aes <──┐
             └────> RijndaelTables ──> Rijndael ──> MCRijndael, CipherProofs

`A ──> B`: B extends A. `A <── B`: B implements A, by INSTANCE and a refinement mapping.

**Ecc** has `correctErrors()` for one word, and two conditions under which it recovers it.
**BootState** declares what booter and cMIOS share. A cell is a 4-byte word; a hash is
the content it was taken of. **Booter** has one action per step of `go()`,
`fail()` and the two `EXECGCDOL_` functions; one build of `test.c` injects, the other
loads a file. **Cmios** has one action per branch of `main()`, one per
round of `correctErrors()`, and `resetDI()`, `execFromMem()`, `callMIOS()`.
**BootChain** composes the two with their surroundings: decay, the ARM MIOS that
loads the PPC MIOS, Starlet, the reset and power buttons, button A. Its `pc` says
where the program on Broadway is; the phases of the Wii side and of GameCube mode
are disjoint. **OneShotBoot** is the promise, without memory and tags: a set of
pending requests, the one being served, and who owns the console.

**DolLoader** runs `loadFromMem()` over a memory of cells, one action per round of
its loop; every read of the header is a read of the memory as it is then.

**Installer** follows `Install_patched_MIOS()` through all it calls. The heap is
the set of live blocks, named for the pointers that hold them; a content has a
size, two capacities and two data; data is an identity and whether it is patched.
Each allocation, file access and system call has an action, or a disjunct of
one, in which it fails. **TitleStore** is the promise: the old title or the whole new
one, and a result that says which.

**MiosPatch** is `patchMIOS()` on an ELF file: the passes of `calculate_new_size()` and
`copy_sections()` over the program headers, one action per round. Sizes and addresses
count words; the headers are records, apart from the words they are stored in. A
copy that leaves one of its buffers ends in `"overrun"`. Installer has the same function
by its outcomes only: a size, or one of two failures.

**BytePatch** has the two search loops, a comparison as a step, over the content and the memory
behind it; the bound is unsigned, and memory that cannot be read ends in `"crashed"`. In Installer
both are part of "patched".

**Download** is `Download_IOS()` in the place of the WAD reader: it extends Installer, whose
actions from `Prepare` on follow it, and has the reader's checks in common with it. A request is one
step there, `GetObject` or `GetContent`, which may fail or bring any length. **Http** is what is
in that step: each try of a call of the network is an action with three outcomes (done, nothing yet,
an error), the clock ticks while nothing was ready, and the header is read byte by byte.
**HttpAnswer** is the promise: a request ends, and what it returns is the body of a reply that is
good when it is looked at as a whole, by definitions that know no loop.

**Cbc** is how `decrypt_IOS()` and `encrypt_IOS()` go over contents and blocks, with the
schedule and the chaining block that all calls share; the cipher is a permutation of blocks for each key. What
is assumed of it is shown by **Rijndael**: `aes_set_key()` adds a word of the key as a step, `encrypt()`
and `decrypt()` take a block through a round as a step, once each and in any order, with the code's
own tables (**RijndaelTables**). It refines the standard (**Aes** over **AesBytes**), which has a state of
columns, substitutes, shifts, mixes and adds, transforms no key, and multiplies bytes as polynomials.
**ExclusiveOr** makes the `^` of bytes from that of bits, by doubling a table three times. TLC
evaluates definitions without parameters before it starts, in an order of its own: a table that is used to
make another one is named by LET in it, and the inverse of a byte in AesBytes is its power 254, which
`TablesAssumption` says is its inverse, so that no order takes more than seconds.

**Sha1Stream** has `SHA1Update()` as an action up to its loop, the rounds of the loop and the rest, and
`SHA1Final()` as the updates it makes. `hashed` is what `SHA1Transform()` was given so far: a digest
is a function of it.

The code's names are kept where they fit: `pc` values of Cmios are the functions the
code is in, `LoadCrl` is the part of `Wad_Read_into_memory()` that reads the CRL. `map` in
`PROJECT.json` has the lines for every definition. Definitions marked "A bug this
guards against" are variants of the action that follows them; no specification uses
them. They are put in its place to see that the properties notice.

## 3. Runs

| Run | Shows |
|---|---|
| `boot` | Two boots; all ways to ask, in both builds; the loss of any two cells, reset, power and button at any time. The chain refines OneShotBoot (`PolicySpec`), no payload runs before Starlet answered (`DiHandshake`), what is damaged is corrected (`EccRecovers`, `EccRepairsTwoCopies`) but for a ragged last word, which decides as copy 0 has it (`EccRepairsTwoCopies`), only the file runs (`LaunchedIsFile`), and every boot ends in homebrew, in the MIOS or in a power cut (`EveryBootEnds`, under the fairness of section 4). |
| `boot_big_dol` | *violation*: a file longer than the gaps behind copies 0 and 3 is not there five times; these two lose their ends (`FiveCopiesMade`). |
| `loader` | A payload that keeps to `Loadable` is spread and entered as its header says (`LoadsDol`); any other header may do anything, a crash included. |
| `install` | Three runs of the installer with power cuts, all arguments, WADs good and bad, and a failure anywhere: no double free, no lost block, no overflow, nothing left open, nothing inconsistent given to ES; the installer implements TitleStore (`StoreSpec`). |
| `download` | The same with a MIOS from a server: after a success nothing is lost; after a failure one buffer may be, or the host and path of the request that failed, or those of each content that was not received, and nothing else (`KnownLeaksOnly`); no answer is too short for what is hashed (`HashedFits`), and `StoreSpec` and `HeapSafe` hold as before. |
| `mios_patch` | Files of up to three headers, segments anywhere: space suffices for the regular ones (`FitsInSize`), the result has every segment (`PatchedImage`), and what is refused cannot be patched (`RefusesRightly`). |
| `byte_patch` | Every content: matches are replaced but for one that follows another at once (`ReplacesMatches`), and nothing else is changed, a byte behind the content at most (`ChangesOnlyMatches`). |
| `cbc` | WADs one after the other: encrypted and decrypted contents are in step (`InStep`), and what is written stays in the blocks that a content has begun (`StaysInBlocks`). |
| `rijndael` | Each round, forth and back, is one of the standard (`StandardSpec`); the standard's example (`Example`); encryption and decryption undo one another, whichever comes first (`CallsUndo`). All that the proofs take of the tables is computed (`TablesAssumption`). |
| `sha1` | Messages in any partition: no byte is lost (`NothingLost`), the counter is right (`CountIsLength`), the padding is that of the standard (`PadsMessage`). |
| `http` | Two requests: a socket is closed on every path (`SocketsClosed`), a body fits (`BodyFits`), no block takes longer than its time (`BlockInTime`), and the whole refines HttpAnswer (`AnswerSpec`): it ends, and accepts good replies only, of this request. |
| `http_line` | *violation*: a line is not waited for as long as `HTTP_TIMEOUT` says. |

Deadlock is checked for the boot chain. It is not for the others: loader, patchers, digest, cipher
and CBC end; the installer and the requests end and need not be started again.

### Bounds, and why they are enough

- *Memory of 11 cells, payloads of two words* (boot chain). Gaps of 2, 2, 3, 2 cells,
  those of `test.c:33` rounded to megabytes; the marker lies in copy 2, as it does in the code. The
  words of a payload are corrected independently; two show that a round does not disturb
  another, and one payload has a ragged last word.
- *Gaps of 3, 4, 5, 2 cells, a payload of four words* (`boot_big_dol`). The gaps of the code are 0x200020,
  0x200040, 0x300020 and 0x1fffc0 bytes: the last is the smallest, and these cells have the same order. The
  payload is longer than two of them, like a file of 0x200021 to 0x200040 bytes; from 0x1fffc1 bytes
  on copy 3 alone is damaged, and longer files damage copies 1 and 2, too. No copy follows copy 4.
- *Three values of a word*: the two of the file and one foreign value, so that
  copies may be damaged alike or differently. All branches of `correctErrors()` compare at
  most three copies.
- `MaxDecay` = 2 damages as many copies as can be repaired, or one and loses the tag; more
  damage is in the theorems only. `MaxBoots` = 2 has a boot whose leftovers the next one finds.
  Both are guards of their actions. `ShortReads` is FALSE in the runs: the theorems
  cover short reads, too.
- *Loader*: memory of MCDolLoader.cfg, two sections, every start, lengths up to two:
  sections over header, file, each other, the bss, and beyond the end.
- *Installer*: `MaxRuns` = 3: before, during and after a replacement. WADs of up to two
  contents, one unit (16 bytes) and five; patched modules of 3, 8 and 9 units shrink, fill and
  outgrow the buffer of 8. Bad WADs fail each test of the reader.
- *ELF patcher*: three headers are one for code, one for the entry point and one for the table
  of headers. Segments of one and two words at three places meet, overlap, come out of order
  and end before or with the entry point. Files whose header slot looks like the table have up to
  two headers. `CopySize` is 6 of the 9 words; the buffer is a multiple of two, so that
  rounding hides the smallest overruns, as it does in the code.

- *Byte patches*: patterns of two and four bytes with a bound that leaves out two stand for four and
  six with four; memories of nine bytes of three values have every overlap, neighbour and end.
  Contents of one byte wrap the bound around.
- *Cbc*: bytes of one bit, blocks of two, contents of one and a half blocks, of two and of half a one, equal
  blocks, and an index block that is like data. `MaxWads` = 2 has a chain that the first WAD left behind.
- *Rijndael*: the real tables. A round acts on the bytes of a block in the same way whatever they are, and
  three keys with three blocks put every table to use. The theorems hold for all.
- *Sha1Stream*: blocks of 8 bytes with a length of 4, words that wrap after 8 bytes; 20 bytes reach three
  blocks, two carries and each way a padding can end.
- *Http*: lines of up to four bytes and three lines; a text that is looked for is one byte. Time-outs of
  one tick are reached with progress before and after. A second request has all the first left.

What no bound could show, the proofs show for all: layouts, files, decay and
memories of any size.

## 4. Fairness

`FairSpec` of BootChain assumes weak fairness of `CmiosStep` (Broadway executes the
program it is given: one step of it is enabled until it is taken), `LoadPPC` (BC
resumes Broadway) and `StarletAck` (the MIOS's IOP side answers; `resetDI()` has no
time-out, so without this assumption the boot does hang). Nothing makes a payload
return, a button be pressed or released, or a booter go on. Resets are finite by
`MaxBoots`: a user who never stops pressing reset never boots.

`Spec` of Http assumes weak fairness of `Work`, the steps of a request: the program has one thread, and
each of its loops looks at the clock, tries, or sleeps 20 ms. Nothing makes the network answer. A
request ends nevertheless: the clock ticks while nothing is ready, and the tries that move bytes are as
many as the bytes. `BlockInTime` says how long a block may take at most. The other specifications need
no fairness; they are checked for safety only.

## 5. Proofs

All by TLAPS, for every value of the constants that satisfies the named assumptions
(`LayoutAssumption`, `FilesAssumption`, `BuildsAssumption`, `LoaderAssumption`,
`WadAssumption`, `DownloadAssumption`, `ElfAssumption`, `BytePatchAssumption`, `CbcAssumption`,
`Sha1Assumption`, `PowerAssumption`, `HttpAssumption`, `RijndaelAssumption`, which TLC also evaluates in the
runs). `TablesAssumption` is of another kind: it has no parameter, so that what TLC computes in the run
`rijndael`, for each of the 256 entries of each table and each pair of bytes, is all there is of it.

**BootProofs.** `BootInvariant` (module BootInv) is inductive; the invariants
follow from it:

- `CopyInv`: copy 0 is the file once it has been read, since later copies lie above.
- `FileTag`, `TagInv`: a tag that asks for a file has the hash of the file read last.
- `RunInv`: a request is taken up exactly at the decision.
- `SnapInv`, `EccInv`: the rounds done so far changed copy 0 only, each to what the five
  *original* words call for, though later rounds read memory that earlier ones wrote;
  this needs the gaps to be large enough (`Fits`).
- `VerifiedInv`: the verification still holds when the payload runs. `DiInv`: no answer of
  Starlet is outstanding where no wait is.

`LaunchedFileCorrect`, `EccRecoversWords`, `EccRepairsTwo`, `DiHandshakeHolds`, `TypeCorrect`
are the resulting theorems. That a ragged last word is neither corrected nor changed, which `EccRepairsTwo`
needs, is the other half of `EccInv`. Without `EccInv` none of the statements on correction
is inductive: they speak of one state, `pc = "verify"`, and of the memory the
cMIOS found.

`ChainImplementsPolicy`: `Spec => PolicySpec`. The initial states map to an initial state; each action of the chain maps to an action of
OneShotBoot or to a stutter, by cases, with `RunInv` and `TypeOK` for the mapping of
`serving`.

**DolLoaderProofs.** `LoaderCorrect`: for every memory and any number of sections a
loadable payload never crashes and ends spread over memory as its header said at
first. The invariant: header and the data of the sections still to come are unchanged,
and each cell holds what the first `i` sections and the bss put there last.

**InstallerProofs.** `InstallInv` (module InstallerInv) is inductive. None of the
invariants of the installer is by itself; what they lack is

- `HeapInv`: exactly which blocks are live at each point, as `{*ios}`, the pointers
  in it, and the open file; on the error path the file or its header may be missing.
- `TmdInv`, `CountInv`: while the WAD is read the TMD is its, and as many contents as the loop
  has gone through are there.
- `ContentInv`: the IV with which a content was encrypted is its index in the TMD, the one with which
  it is decrypted its position. The hash is right only if the two are the same,
  hence `CheckHashes` also finds contents out of order, and ES, which uses the index, gets what
  `encrypt_IOS()` made with the position.
- `SigInv`, `EsInv`: the TMD is stale only between a change and `ForgeTmd`; an import is open only
  inside the loop over the contents.

`InstallerTypes`, `InstallerHeapSafe`, `InstallerLeavesNothing`, `InstallerBuffersHold` and
`InstallerSubmitsConsistent` follow, for every WAD, every size of the patched module, any number of
contents and of runs (`WadAssumption`).

`InstallerKeepsPromise`: `Spec => StoreSpec`, for WADs that have a module
to patch and are not patched yet (`OriginalWads`; without a module the promise is broken, see
section 6). `StoreInv` adds where data comes from (`DataInv`), what path the arguments
choose (`PathInv`), and what ES was given (`GivenInv`): when the last content is in, this is
the title that `WholeTitles` has for the WAD and the arguments.

The same for **Download**, whose states from `Prepare` on satisfy `InstallInv` itself. Before, `DownloadInv`
takes its place and differs where the code does: on the way out one buffer or the names of failed requests may be lost, and while the contents are
received the names of those that were not (`DownHeap`), and a content may have a size without having a buffer (`DownContent`), for
when nothing was received the length is taken from the TMD. Decryption ends at such a content, and
an error that is still the result belongs to one (`DownPoint`), so the checks begin only if all
was received.
`DownloadHeapSafe`, `DownloadLeaksKnown` and `DownloadHashesFit` follow for every server and every length
of an answer, and `DownloadKeepsPromise`: `DownloadSpec => StoreSpec`, under `OriginalWads` as before.
`DownloadAssumption` says that no title has an empty content.

**MiosPatchProofs.** `PatcherFits`: `copy_sections()` stays within the size that
`calculate_new_size()` found, for every regular file. The invariant `PatchInv`: the size is at
least the end of each segment counted so far, plus the cMIOS and one header; the headers
to come are still those of the file; and the place of the next segment is behind the
table, or at most one header beyond the end of the last segment copied (`Placed`). So a segment
moves by at most one header, which is what was added for it. The table of headers, copied to a
place where it is not used, fits where the cMIOS will. `PatcherTypes` needs no
regularity. `Regular` asks for what linkers make: segments in the order of the file that share none
of it, a table of its own size, no more headers than the cMIOS is large.

`ImageIsPatched` and `PatcherRefusesRightly` need no regularity, only that the entry point is not in the
table of headers (`EntryIsData`). The invariant `ImageInv`: every segment copied so far is where its new
header says and ends below `outPos`, and no round writes there, not even the one that copies the table to
a place where the next segment goes (`RoundWords`). `EntryInv`: `entry` says whether one of the segments
looked at has the entry point, and each that has it has the expected word, which a round finds where
the file has it (`RoundEntry`).

**Sha1Proofs.** `Sha1Inv` is inductive: between updates the bytes given are those transformed and those
in the buffer before `Place` (`IdleInv`); in the loop they are those transformed and those of the
caller's data that are left (`BlocksInv`); the counter is their number, which is what makes `Place` the
length modulo the block (`PlaceOfLength`). `StreamTypes`, `NoByteLost` and `CounterCorrect`
follow, for messages, partitions, blocks and words of any size. The lemmas on quotients and remainders
are proved there, too.

`MessagePadded`: what is transformed in the end is the padded message. `PadInv` adds what `SHA1Final()`
has given so far (`GivenInv`): the message, the mark, zeros, and no earlier place was the one for
the length (`PaddedTo`), hence there are as few zeros as possible; and the bytes of the length, which are
made of the two words of the counter, are the digits of eight times the length of the message
(`FinalCountIsLength`). `PowerAssumption` has what that takes of powers: half of the length is a word,
and the law for the exponents up to `LenSize`.

**CipherProofs**, the blocks. `CallsUndoEachOther`: for every key and block, `encrypt()` and `decrypt()` undo
one another. `FollowsStandard`: they are AES, for every key and block and not for examples only. The argument:

- *Exclusive or.* A table that is doubled keeps the laws of a group (`LawsDoubled`), so `XorLaws` follow from
  those of bits.
- *Columns.* The mixing of the tables of encryption (`Mixed`) and `InvMixCol()` keep sums (`MixedSum`,
  `InvMixColSum`), since multiplication of bytes does. A word is the sum of four words of one byte
  (`WordOfSingles`), for which the tables show that either undoes the other; hence they do
  for all words (`MixingUndoes`).
- *Rounds.* A round of `encrypt()` substitutes, moves, mixes, adds the key; one of `decrypt()` does the same
  with the transformed key, which is as good as adding the key of encryption and mixing back
  (`UntableRoundIs`, `ReverseKeyIs`).
- *Calls.* `CipherInv` is inductive. `PathInv` says which blocks the first call went through, and that the
  second meets them in reverse order half a round off: a round of one ends with the addition of
  a key, which is what the other begins with (`OpeningUndoes`, `MiddleUndoes`, `ClosingUndoes`).
  `KeysInv`: no word of the expanded key depends on one that is not there yet, and those of decryption
  are made of all of them.
- *Standard.* The words that `gkey()` expands are the schedule (`StandardSchedule`), rows move alike
  (`StandardShift`), and the columns' products are entries of the code's tables (`StandardMix`).

**CipherProofs**, the contents. `CbcInv` is inductive: while contents are gone over, the schedule is the ticket's and the
chaining block is that of the content and place (`ChainInv`), whatever the last WAD left in both; and all
blocks before place `b` of content `k` are in step (`DoneInv`). `StaysInStep` and `WritesInBlocks`
follow, for every permutation, key, block size and number of contents.

**BytePatchProofs.** `ByteInv`: every match before `i` was replaced, or follows at once on one that was
(`BehindInv`); what differs is of such a match (`ChangedInv`); memory from `i` on is as it was
(`AheadInv`), so that a comparison sees what was there at first. Matches of a pattern that does
not overlap itself are disjoint (`Disjoint`), hence a replaced one stays. `AllMatchesReplaced`,
`OnlyMatchesChanged` and `BytePatchTypes` follow for every content and bound, one that wraps around included.

**HttpProofs.** `HttpInv` is inductive: one socket is open exactly between its opening and the end of
the request (`SocketInv`), the lines of the header stay below their bound and the transfer of the body
starts from nothing (`LineInv`), and `step` is the number of whole blocks (`BlockInv`). The latter
needs that a try brings no more than a block (`Blocks`, `Moves`). `HttpTypes`, `SocketsAreClosed`,
`BodiesFit` and `BlocksInTime` follow.

`OnlyGoodAnswers`: Http implements HttpAnswer, but for the fairness. `AnswerInv` connects the loops
with the reply as a whole. Until the header ends (`HeaderInv`) there is a place `b`, the last end of a
line that was read: the bytes of `line` are those behind it and end no line yet (`LineBehind`), and `lines`,
`status` and `length` are what the lines up to `b` are and say (`Known`). A byte completes a line exactly if
a line of the reply ends there (`LineSoFar`), which adds one to what is known (`OneMore`, `OneMoreSays`), or is
the end of the header (`EndOfHeader`). From then on (`ReceivedInv`) the header is one that may be accepted,
and the body is what follows it, as far as it was received.

Only model-checked:

- `EveryBootEnds` and the fairness of `AnswerSpec`: liveness is out of the prover's reach.
- `Example`, one key and one block: nothing but a computation; and what `TablesAssumption` says of the
  tables, another one.
- That the violations exist.

No module declares a recursive operator.

## 6. Findings and known departures

Shown by a run:

1. `test.c:47`: a copy loses its end to the start of the next one when the file is longer than the gap
   between them; the README promises five copies (`boot_big_dol`). If copy 0 is damaged its hash is in the tag.
2. `http.c:328`: a time-out of 300000 ms is passed as 16 bits, 37856 ms (`http_line`).

Met while modelling; the properties leave room for them or exclude them by name, and no run is
spent on them:

- `test.c:47`: the result of `fread()` is ignored. After a short read of copy 0 the hash is that of a
  truncated payload, which passes its verification. `LaunchedIsFile` speaks of files that were read whole.
- `cmios.c:68`: "clear magic value so GC disc will work after reset" holds for the tag only: a
  marker of an old front end survives, and the reset after injected homebrew boots its payload. OneShotBoot
  has the requests as a set for this reason.
- `IOSPatcher.c:892`: a WAD without a module to patch is reported, and the non-negative result of
  `get_IOS()` is returned: success, and nothing installed. The WADs of the runs have a module.
- `patchmios.c:182`: "Calculate required memory space." takes the largest end in the old file; with segments
  that share data in the file the copy needs more, and the check at `patchmios.c:247` comes after the
  copy and compares the size with its own rounding. `Regular` excludes such files.
- `patchmios.c:240`: the buffer is not freed when `copy_sections()` fails; `NothingLeftOpen` and
  `KnownLeaksOnly` leave room for it.
- `IOSPatcher.c:564-606`: the object that was received is lost when there is no memory for its copy.
- `http.c:289`: host and path of a request that failed are never freed, as `get_nus_object()` returns
  before `http_get_result()` (`IOSPatcher.c:450`). Contents are requested on after a failure, so a
  download may lose several pairs; `KnownLeaksOnly` says which.
- `IOSPatcher.c:651`: whether a content was received is not looked at. Without a buffer `decrypt_IOS()`
  reads from NULL, which ends in `"crashed"`; nothing was installed then.
- `http.c:78`: errno is returned, which is an error to the caller only since the network library sets
  it below 0 (`HttpAssumption`).
- `http.c:321`: the result of `tcp_write()` is not looked at; the answer is waited for all the same.
- `rijndael.c:395`: a last block that is not whole is written as a whole one, up to 15 bytes beyond the
  content; the buffers are rounded up to 32 or 64 bytes, so nothing is overwritten.
- `README.md:88` says "on sd card" where the code reads USB.

## 7. What the models leave out

- Collisions of SHA-1, and `SHA1Transform()`: a hash stands for what it was taken of.
- Caches, and the instruction cache flushes of the loader.
- Decay of the tag's size, hash and pointers: the tag loses its magic or nothing.
  (With a changed hash the verification fails, which `boot` shows for changed
  payloads.) A decayed word is not the marker.
- What payloads do, but for returning.
- File offsets, alignment and texts in the WAD reader; the exact errors of ES. A header,
  certificate, ticket or TMD read short shows in its signature type or in ES's refusal.
- ES itself: it checks each content against the TMD, decrypts with the content's
  index, replaces the title at once and drops open imports at boot. The ticket, which is
  stored before the title and stays if the title fails, is not in the state.
- In Installer the byte patches, as part of "patched", and `patchMIOS()` but for its sizes and failures; in
  MiosPatch, sums that wrap at 2^32, the fields of a header that are only copied, and an entry point
  inside the table of headers, whose words are not modelled (`EntryIsData`).
- In Download the bytes behind a TMD or ticket that is shorter than its own fields say: what is copied is what
  the server has, or has no valid signature type. `net_init()` is done once; only its failure and success are told apart.
- In Http the meaning of a line but for its beginning, bytes 0, the URL's syntax (it is built by
  `get_nus_object()`), and ticks while bytes are ready but for one per try.
- Console, pads, mounts, build files, the SD and NAND choices of `get_IOS()`, functions nobody calls.

## 8. Plan

Done: all modules of section 2; as theorems, all invariants of the runs but the example of the cipher,
and the refinements of OneShotBoot, TitleStore (by Installer and by Download), Aes and HttpAnswer (its
safety).

Left: `SHA1Transform()` on words of 16 bits in pairs, against the standard.
