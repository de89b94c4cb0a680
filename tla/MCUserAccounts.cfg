\* Two people who may register, withdraw and register again.
SPECIFICATION Spec
CONSTANTS
  k1 = k1
  k2 = k2
  u1 = u1
  u2 = u2
  u3 = u3
  n1 = n1
  n2 = n2
  r1 = r1
  r2 = r2
  Kakao = {k1, k2}
  UserId = {u1, u2, u3}
  Notice = {n1, n2}
  MaxBookmarks = 1
  PageSize = 1
  Slot = {r1, r2}
  None = None
SYMMETRY AccountSymmetry
INVARIANTS
  LimitKept
  BookmarksHaveUser
  OneAccountPerKakao
  OldTokensAreRefused
