SPECIFICATION Spec
CONSTANTS
  m1 = m1
  m2 = m2
  m3 = m3
  c1 = c1
  c2 = c2
  feed = feed
  none = none
  Msgs = {m1, m2, m3}
  Convs = {c1, c2}
  Feed = feed
  NoConv = none
  Threshold = 3
  MessagesToLoad = 5
  LoadLimit = 4
  MaxEvents = 1
  MaxRequests = 2
SYMMETRY NamingSymmetry
INVARIANTS
  NamedOnce
PROPERTY ManualNameStays
CHECK_DEADLOCK FALSE
