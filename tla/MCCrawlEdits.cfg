\* Edits, of titles too, failed requests and crawls, notices taken down.
SPECIFICATION Spec
CONSTANTS
  a = a
  b = b
  c = c
  d = d
  Url = {a, b, c}
  NumBoards = 1
  BoardOf <- OneBoard
  TitlesOf <- RetitledOnce
  PageLen = 2
  PinsRepeat = {}
  LastRepeats = {}
  RecheckDays = 1
  RecentDays = 2
  MaxDay = 2
  MaxEdits = 1
  MaxPins = 0
  MaxShifts = 1
  MaxTouches = 1
  MaxFaults = 1
INVARIANT NoticesAreStoredOnce
PROPERTY EditsReachStore
