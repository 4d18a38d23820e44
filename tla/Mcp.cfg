SPECIFICATION FairSpec
CONSTANTS
  files = files
  web = web
  w1 = w1
  w2 = w2
  w3 = w3
  k1 = k1
  k2 = k2
  none = none
  Servers = {files, web}
  Stdio = {files}
  AtStart = {files}
  Switches = {w1, w2}
  Calls = {k1}
  None = none
INVARIANTS
  ConnectingIsAtWork
  ForgottenIsOvertaken
PROPERTIES
  AnswersReachTheirCaller
  EverythingSettles
CHECK_DEADLOCK FALSE
