SPECIFICATION Spec
CONSTANTS
  Grammar <- StellarGrammar
  Roots <- MCRoots
  Lengths <- MCLengths
  Words <- MCWords
  MAX_PARSE_DEPTH = 3
  U32_MAX = 65535
  HEAP = 64
  Rank <- MCRank
  CHAIN = 12
  Reading <- MCReading
INVARIANTS
  TypeOK
  ReadsInside
  DepthIsNesting
  StackBounded
  EveryPassReads
