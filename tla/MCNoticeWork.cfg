CONSTANTS
  k1 = k1
  k2 = k2
  k3 = k3
  Posts <- MCPosts
  Assets <- MCAssets
  Thin <- MCThin
  MaxVersion = 1
  MaxCalls = 2
  Keys = {k1, k2, k3}
  Reviewed = {k2}
  MaxLlmCalls = 2
  Answers <- MCAnswers
  Board <- MCBoard
  Title <- MCTitle
  Body <- MCBody
  KeyOf <- MCKeyOf
  Edits <- MCEdits
  Configs <- MCConfigs
  MaxFaults = 1
SPECIFICATION Spec
CHECK_DEADLOCK FALSE

INVARIANTS BoardTextIsKept CallsAreBounded OneLabelPerKey NoticesAreNotStarved
PROPERTIES PaidTextIsKept ServedLabelsStay
