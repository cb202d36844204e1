SPECIFICATION ArchiveSpec
CONSTANTS
  ok = ok
  junk = junk
  Pollers = {p1, p2}
  Feeds <- MCFeeds
  Payloads = {ok, junk}
  NoPayload = NoPayload
  Decodable = {ok}
  Second = 2
  Interval = 3
  Backoff = 2
  Horizon = 4
  MaxPolls = 3
  MaxDeaths = 1
INVARIANTS BytesAreKept ArchivedIsDecided
PROPERTIES PunctualPollsAreApart
SYMMETRY MCSymmetry
CHECK_DEADLOCK FALSE
