SPECIFICATION BronzeFairSpec
CONSTANTS
  Content <- MCContent
  Decodable <- MCDecodable
  Jobs = {"batch", "stream"}
  BatchLimit = 1
  StreamLimit = 2
  TornReads = TRUE
  MaxPolls = 2
  MaxCrashes = 1
INVARIANTS ConsumedIsAccountedFor DuplicatesBounded
PROPERTIES EverythingConsumed
CHECK_DEADLOCK FALSE
