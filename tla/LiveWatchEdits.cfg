CONSTANTS
  UrlSession = {u1}
  FileSession = {f1}
  Writer = {w1, w2}
  MaxVersion = 2
  MaxFileVersion = 2
  MaxTime = 2
  Missing = Missing
SPECIFICATION Spec
CHECK_DEADLOCK FALSE
INVARIANTS
  TypeOK
  WaitersAreServed
PROPERTIES
  
  SaveReachesWatchingFile
