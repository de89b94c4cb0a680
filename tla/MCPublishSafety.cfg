\* Two workers and one run of the shell script that publishes beside them.
SPECIFICATION Spec
CONSTANTS
  w1 = w1
  w2 = w2
  s1 = s1
  n1 = n1
  n2 = n2
  f1 = f1
  f2 = f2
  f3 = f3
  Worker = {w1, w2}
  Script = {s1}
  Notice = {n1, n2}
  General = {n2}
  TempFile = {f1, f2, f3}
  NoTemp = NoTemp
  MinRecords = 1
  RetainNum = 1
  RetainDen = 2
  SlowSteps = {"load", "crawl", "validate", "replace", "discard"}
  MaxFaults = 2
SYMMETRY WorkerFileSymmetry
INVARIANTS
  OnePublishAtATime
  LiveTempKept
  PublishedListIsValid
