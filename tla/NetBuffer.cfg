SPECIFICATION nbFairSpec
CONSTANTS
  Byte = {0, 1, 2, 3, 4, 5}
  LF = 0
  Streams <- MCStreams
  Max = 3
  Nums = {0, 2, 3, 4}
INVARIANT BufferFits
PROPERTIES
  ReaderSpec
  CallReturns
