CONSTANTS
  n1 = n1
  n2 = n2
  n3 = n3
  Notices = {n1, n2, n3}
  MaxReferences = 2
  Workers = {w1, w2}
  NoWorker = NoWorker
  Turns <- MCTurns
  Hits <- MCHits
  Latest <- MCLatest
  RerankItems <- MCItems
  MaxWriteFailures = 1
  MaxDeltas = 2
  MaxCrashes = 1
SPECIFICATION Spec
CHECK_DEADLOCK FALSE
INVARIANTS QuestionBeforeAnswer ReferencesFollowTheReply StreamsAreWhole InsertsFitTheTable
SYMMETRY WorkerSymmetry
