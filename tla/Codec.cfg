SPECIFICATION StreamSpec
CONSTANTS
  Values <- MCValues
  MaxArgs = 2
  NoHeader = NoHeader
  NoFields = NoFields
  Messages <- MCMessages
  EncodeFields <- FieldsEncoded
  DecodeFields <- FieldsDecoded
  Constructed <- MCConstructed
  SentValues <- MCSent
  MaxSent = 2
INVARIANTS
  SignatureWalks
  EncodedInPlace
  ArgsRoundTrip
  BlankRoundTrip
  AllArgsAgrees
  ReadAsWritten
CHECK_DEADLOCK FALSE
