\* Two workers start on every kind of volume.
SPECIFICATION FairSpec
CONSTANTS
  w1 = w1
  w2 = w2
  r1 = r1
  r2 = r2
  Worker = {w1, w2}
  Request = {r1, r2}
  NoWorker = NoWorker
  StartStates = {"current", "json_only", "old_schema", "old_schema_no_json",
                 "empty_volume"}
  MaxLists = 2
  MaxFaults = 1
INVARIANTS
  CacheIsCoherent
  ReadsAreFresh
  OutdatedRowsAreRebuilt
PROPERTIES
  AnswersArePublished
  RequestsAreAnswered
