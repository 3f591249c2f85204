\* As MCSwapSession.cfg, with wider words and the calls that ask for a text.
CONSTANTS
  STELLAR_NATIVE_DECIMAL_PLACES = 2
  DECIMAL_PLACES = 2
  I64_MAX = 131071
  BUFFER_SIZE = 11
  DefaultPath = DefaultPath
  Malformed = Malformed
  MAX = 2
  BASE = 64
  U64_BYTES = 4
  U32_BYTES = 2
  Path <- MCPath
  Block <- MCBlock
  PermittedPaths <- MCPath
  AddressOf <- MCAddressOf
  TxOf <- MCTxOf
  Params <- PrintableParams
  Header <- MCHeader
  Data <- MCData
SPECIFICATION Spec
INVARIANTS PrintedDenotes PrintedAsReviewed
CHECK_DEADLOCK FALSE
