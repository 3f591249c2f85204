CONSTANTS
  STELLAR_NATIVE_DECIMAL_PLACES = 2
  DECIMAL_PLACES = 2
  I64_MAX = 9
  BUFFER_SIZE = 9
  DefaultPath = DefaultPath
  Malformed = Malformed
  MAX = 2
  BASE = 2
  U64_BYTES = 4
  U32_BYTES = 2
  Path <- MCPath
  Block <- MCBlock
  PermittedPaths <- MCPath
  AddressOf <- MCAddressOf
  TxOf <- MCTxOf
  Params <- MCParams
  Header <- MCHeader
  Data <- MCData
SPECIFICATION Spec
INVARIANTS SwapTypeOK SignedIsAgreed SignedIsWholeStream ResultIsTruthful
PROPERTIES AtMostOneSignature
CHECK_DEADLOCK FALSE
