SPECIFICATION Spec
CONSTANTS
  STELLAR_NATIVE_DECIMAL_PLACES = 2
  SETTINGS_SIZE = 6
  WORD = 100
  DATE_MAX = 1500
  I64_MAX = 1000000
  CODE4 = 2
  KnownTokens <- MCKnownTokens
  Spellable = {}
  Candidates <- ClassicCandidates
  Signers <- OneSigner
  TouchedRows <- NoRows
  Formats <- Formattable
  HeaderOf <- TransactionHeader
  AuthorizationOf <- AuthorizationEntries
  OperationOf <- OperationEntries
  IntentOf <- Intent
INVARIANTS
  ReviewTells
  TitleAgrees
