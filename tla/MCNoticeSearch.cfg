\* Lists of up to six notices, of which four are scored, over two days.
SPECIFICATION Spec
CONSTANTS
  Notices = {1, 2, 3, 4, 5, 6}
  Sources <- MCSources
  Named <- MCNamed
  Info <- MCInfo
  CandidateLimit = 4
  UsefulShapes = {1, 3}
  CategoryLimit = 3
  ShownCategories = 2
  Lists <- MCLists
  Queries <- MCQueries
  JumpPages = {0, 3}
  Questions <- MCQuestions
  Words = {"exam", "dorm", "visa"}
  Days = {101, 102}
INVARIANTS
  WalksAreComplete
  OffersFindSomething
  AnswersAgree
  EvidenceSuitsTheUser
