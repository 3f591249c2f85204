CONSTANTS
  p1 = p1
  p2 = p2
  a = a
  b = b
  DefaultPath = DefaultPath
  Malformed = Malformed
  NoRequest = NoRequest
  MAX = 2
  Path <- MCPath
  Block <- MCBlock
  PermittedPaths <- MCPath
  Header <- MCBystander
  Bystander <- MCNoBystander
  Data <- MCData
  Job <- MCFewJobs
  TxParses <- MCSeq
  TxFormats <- MCSeq
  TxSoroban <- MCTxSoroban
  AuthParses <- MCSeq
  Hashes <- MCHashes
SPECIFICATION TransferSpec
PROPERTIES EveryJobEnds
