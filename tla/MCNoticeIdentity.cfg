\* Pairs of notices of one board and of two.
SPECIFICATION Spec
CONSTANTS
  t1 = t1
  t2 = t2
  Variety <- MCVariety
  Pages = {1, 2}
  Titles = {t1, t2}
  MaxRetitles = 1
SYMMETRY TitleSymmetry
INVARIANTS IdsNameOneNotice NoticesHaveOneAddress LabelsFollowNotices
PROPERTY IdsStayWhileListed
