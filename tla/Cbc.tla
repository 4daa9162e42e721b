-------------------------------- MODULE Cbc --------------------------------
(***************************************************************************)
(* The contents of a WAD are decrypted, changed and encrypted again:       *)
(* decrypt_IOS(), encrypt_IOS() and get_title_key() of src/IOSPatcher.c    *)
(* over aes_decrypt() and aes_encrypt() of src/rijndael.c. The expanded    *)
(* key and the chaining block are static and shared by all calls. What is  *)
(* done with one block is not described here (see Rijndael), but that one  *)
(* direction undoes the other.                                             *)
(***************************************************************************)
EXTENDS Integers

CONSTANTS
  Byte, Xor,         \* bytes with 0, and exclusive or: Xor[a][b]
  BlockSize,         \* 16
  Cipher, Decipher,  \* encrypt() and decrypt() of a block by key: Cipher[key][block]
  CommonKey,
  IndexBlock,        \* memcpy(iv, &index, 2): the position of a content in a block
  Tickets,           \* records of the title key and the title ID
  Count,             \* content_count
  Room,              \* bytes of memory that are modelled of each buffer
  Buffers,           \* what the encrypted contents and the patched ones may be
  Sizes,             \* buffer_size
  MaxWads            \* bound: WADs that are read one after the other

Contents == 0..Count - 1
Block == [0..BlockSize - 1 -> Byte]
Buffer == [0..Room - 1 -> Byte]

XorBlock(x, y) == [q \in 0..BlockSize - 1 |-> Xor[x[q]][y[q]]]

\* len / sizeof(block) blocks are whole; one more may be begun.
Whole(n) == n \div BlockSize
Begun(n) == (n + BlockSize - 1) \div BlockSize

ASSUME CbcAssumption ==
  /\ 0 \in Byte /\ BlockSize \in Nat \ {0} /\ Count \in Nat /\ Room \in Nat
  /\ Xor \in [Byte -> [Byte -> Byte]]
  /\ \A x, y \in Byte : Xor[x][y] = Xor[y][x] /\ Xor[Xor[x][y]][y] = x
  /\ CommonKey \in Block /\ IndexBlock \in [Contents -> Block]
  /\ Cipher \in [Block -> [Block -> Block]] /\ Decipher \in [Block -> [Block -> Block]]
  /\ \A x \in Block, y \in Block :
       Cipher[x][Decipher[x][y]] = y /\ Decipher[x][Cipher[x][y]] = y
  /\ Tickets \subseteq [key : Block, title : Block]
  /\ Buffers \subseteq Buffer /\ MaxWads \in Nat
  /\ \A n \in Sizes : n \in Nat /\ Begun(n) * BlockSize <= Room

VARIABLES
  pc,        \* "read", "decrypt", "plain", "encrypt", "sealed"
  schedule,  \* the key for which fkey and rkey were expanded
  iv,        \* the static block of decrypt_buffer() or encrypt_buffer()
  ticket, size,
  enc, dec,  \* encrypted_buffer, decrypted_buffer
  k, b,      \* the loops over the contents and the blocks
  wads

vars == <<pc, schedule, iv, ticket, size, enc, dec, k, b, wads>>

BlockAt(buf, c) == [q \in 0..BlockSize - 1 |-> buf[c * BlockSize + q]]

\* The title key as it is in the ticket.
SealedKey == Cipher[CommonKey][XorBlock(ticket.key, ticket.title)]

\* get_title_key() expands the common key and decrypts one block.
TitleKey == XorBlock(ticket.title, Decipher[CommonKey][SealedKey])

----------------------------------------------------------------------------
Init ==
  /\ pc = "read" /\ schedule \in {CommonKey} /\ iv = [q \in 0..BlockSize - 1 |-> 0]
  /\ ticket \in Tickets
  /\ size \in [Contents -> Sizes] /\ enc \in [Contents -> Buffers]
  /\ dec = [c \in Contents |-> [a \in 0..Room - 1 |-> 0]]
  /\ k = 0 /\ b = 0 /\ wads = 1

\* The hashes of the contents are wrong, and the next file is tried.
ReadWad ==
  /\ pc = "plain" /\ wads < MaxWads
  /\ ticket' \in Tickets
  /\ size' \in [Contents -> Sizes] /\ enc' \in [Contents -> Buffers]
  /\ pc' = "read" /\ wads' = wads + 1
  /\ UNCHANGED <<schedule, iv, dec, k, b>>

\* The start of decrypt_IOS() and of encrypt_IOS().
Start(from, to) ==
  /\ pc = from /\ pc' = to
  /\ schedule' = TitleKey
  /\ k' = 0 /\ b' = 0
  /\ iv' = IF Count > 0 THEN IndexBlock[0] ELSE iv
  /\ UNCHANGED <<ticket, size, enc, dec, wads>>

DecryptIOS == Start("read", "decrypt")
EncryptIOS == Start("plain", "encrypt")

\* There is a block left, and how much of it is in the content.
More == k < Count /\ b * BlockSize < size[k]

\* A bug this guards against: every block is taken to be whole.
FractionWhole == BlockSize

Fraction == IF b < Whole(size[k]) THEN BlockSize ELSE size[k] % BlockSize

\* What the next block of buf is, completed with zeros.
Taken(buf) == [q \in 0..BlockSize - 1 |-> IF q < Fraction THEN buf[b * BlockSize + q] ELSE 0]

\* buf with the first n bytes of block at the place of the next block.
Put(buf, block, n) ==
  [a \in 0..Room - 1 |->
     IF b * BlockSize <= a /\ a < b * BlockSize + n THEN block[a - b * BlockSize] ELSE buf[a]]

\* A round of aes_decrypt(), which chains with the encrypted block before.
DecryptBlock ==
  /\ pc = "decrypt" /\ More
  /\ LET before == IF b = 0 THEN iv ELSE BlockAt(enc[k], b - 1)
     IN  dec' = [dec EXCEPT ![k] =
                   Put(@, XorBlock(before, Decipher[schedule][Taken(enc[k])]), Fraction)]
  /\ b' = b + 1
  /\ UNCHANGED <<pc, schedule, iv, ticket, size, enc, k, wads>>

\* A round of aes_encrypt(), which keeps the block for the next one and always
\* writes the whole of it; what is behind the end of the content stays 0.
EncryptBlock ==
  /\ pc = "encrypt" /\ More
  /\ LET x == [q \in 0..BlockSize - 1 |->
                 IF q < Fraction THEN Xor[dec[k][b * BlockSize + q]][iv[q]] ELSE 0]
     IN  /\ iv' = Cipher[schedule][x]
         /\ enc' = [enc EXCEPT ![k] = Put(@, Cipher[schedule][x], BlockSize)]
  /\ b' = b + 1
  /\ UNCHANGED <<pc, schedule, ticket, size, dec, k, wads>>

\* A bug this guards against: the next content goes on with the same chaining block.
NextContentKeepsIv ==
  /\ pc \in {"decrypt", "encrypt"} /\ ~More
  /\ IF k + 1 < Count
     THEN k' = k + 1 /\ b' = 0 /\ UNCHANGED <<iv, pc>>
     ELSE pc' = (IF pc = "decrypt" THEN "plain" ELSE "sealed") /\ UNCHANGED <<k, b, iv>>
  /\ UNCHANGED <<schedule, ticket, size, enc, dec, wads>>

\* decrypt_buffer() or encrypt_buffer() of the next content, or the end.
NextContent ==
  /\ pc \in {"decrypt", "encrypt"} /\ ~More
  /\ IF k + 1 < Count
     THEN k' = k + 1 /\ b' = 0 /\ iv' = IndexBlock[k + 1] /\ UNCHANGED pc
     ELSE pc' = (IF pc = "decrypt" THEN "plain" ELSE "sealed") /\ UNCHANGED <<k, b, iv>>
  /\ UNCHANGED <<schedule, ticket, size, enc, dec, wads>>

\* Contents are patched and go on to be encrypted; the module may have another
\* size then.
PatchAndEncrypt ==
  /\ pc = "plain" /\ pc' = "encrypt"
  /\ \E c \in Contents, new \in Buffers, n \in Sizes :
       dec' = [dec EXCEPT ![c] = new] /\ size' = [size EXCEPT ![c] = n]
  /\ schedule' = TitleKey
  /\ k' = 0 /\ b' = 0 /\ iv' = IndexBlock[0]
  /\ UNCHANGED <<ticket, enc, wads>>

Next == \/ ReadWad \/ DecryptIOS \/ EncryptIOS \/ PatchAndEncrypt
        \/ DecryptBlock \/ EncryptBlock \/ NextContent

Spec == Init /\ [][Next]_vars

----------------------------------------------------------------------------
(* Properties                                                              *)

\* Block n of content c is what CBC mode makes of it with the key that is sealed
\* in the ticket and the position of the content.
Chained(c, n) ==
  BlockAt(enc[c], n) =
    Cipher[ticket.key][XorBlock(BlockAt(dec[c], n),
                                IF n = 0 THEN IndexBlock[c] ELSE BlockAt(enc[c], n - 1))]

\* After decrypt_IOS() and after encrypt_IOS() every whole block of every content is
\* in step with its other form: ES, which has the same key and position, gets
\* what the installer has. No key or chaining block of an earlier call, content or
\* WAD is left in it (rijndael.c:337-398, IOSPatcher.c:88-106, 230-270).
InStep ==
  pc \in {"plain", "sealed"} =>
    \A c \in Contents : \A n \in 0..Whole(size[c]) - 1 : Chained(c, n)

\* Decryption writes within the content, encryption within the blocks that the
\* content has begun: up to 15 bytes more (rijndael.c:376-393).
StaysInBlocks ==
  [][\A c \in Contents :
       /\ pc = "decrypt" =>
            \A a \in 0..Room - 1 : dec'[c][a] # dec[c][a] => a < size[c]
       /\ pc = "encrypt" =>
            \A a \in 0..Room - 1 : enc'[c][a] # enc[c][a] => a < Begun(size[c]) * BlockSize]_vars
============================================================================
