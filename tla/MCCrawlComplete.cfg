\* Three notices on a board that shows its last page again past the end and its pinned
\* notices on every page, and a board without notices; the first changes between
\* requests.  In four days with a window of one and a life of three a notice is new,
\* rechecked, known and stale.  Under fairness.
SPECIFICATION FairSpec
CONSTANTS
  a = a
  b = b
  c = c
  d = d
  Url = {a, b, c}
  NumBoards = 2
  BoardOf <- TwoBoards
  TitlesOf <- Reposted
  PageLen = 2
  PinsRepeat = {1}
  LastRepeats = {1}
  RecheckDays = 1
  RecentDays = 3
  MaxDay = 4
  MaxEdits = 0
  MaxPins = 1
  MaxShifts = 0
  MaxTouches = 1
  MaxFaults = 0
INVARIANT TypeOK
PROPERTIES CrawlIsComplete CrawlEnds
