SPECIFICATION Spec
CONSTANTS
  Byte = {0, 1}
  Xor <- MCXor
  BlockSize = 2
  Cipher <- MCCipher
  Decipher <- MCDecipher
  CommonKey <- MCCommonKey
  IndexBlock <- MCIndexBlock
  Tickets <- MCTickets
  Count = 2
  Room = 6
  Buffers <- MCBuffers
  Sizes = {1, 3, 4}
  MaxWads = 2
INVARIANT InStep
PROPERTY StaysInBlocks
CHECK_DEADLOCK FALSE
