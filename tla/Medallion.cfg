SPECIFICATION MedallionFairSpec
CONSTANTS
  Garbage = Garbage
  Headers = {0, 1}
  Content <- MCContent
  Decodable <- MCDecodable
  Jobs = {"batch"}
  BatchLimit = 1
  StreamLimit = 1
  TornReads = FALSE
  MaxPolls = 2
  MaxCrashes = 1
  Vehicles = {"v1"}
  Grains = {"g1"}
  Times = {1, 2}
INVARIANTS SilverKeepsSightings GoldIsFirstSighting
PROPERTIES GoldImplementsFacts SightingsBecomeFacts
CHECK_DEADLOCK FALSE
