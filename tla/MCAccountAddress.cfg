SPECIFICATION Spec
CONSTANTS
  KEY_BYTES = 2
  ADDRESS_LEN = 8
  BUFFER_BITS = 13
  PublicKeys <- MCPublicKeys
INVARIANTS
  ChecksumDivides
  NothingLost
  AddressNamesKey
CHECK_DEADLOCK FALSE
