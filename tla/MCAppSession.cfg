CONSTANTS
  p1 = p1
  p2 = p2
  a = a
  DefaultPath = DefaultPath
  Malformed = Malformed
  NoRequest = NoRequest
  MAX = 2
  Path <- MCPath
  Block <- MCBlock
  PermittedPaths <- MCPath
  Header <- MCHeader
  Data <- MCData
  TxParses <- MCTxParses
  TxFormats <- MCTxFormats
  TxSoroban <- MCTxSoroban
  AuthParses <- MCAuthParses
  Hashes <- MCHashes
SPECIFICATION Spec
INVARIANTS TypeOK ReviewedIsSigned BlindOnlyWhenEnabled SuccessIsEarned
PROPERTIES HomeRestored KeepsPromise
