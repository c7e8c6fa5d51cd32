SPECIFICATION Spec
CONSTANTS
  t1 = t1
  t2 = t2
  t3 = t3
  s1 = s1
  s2 = s2
  s3 = s3
  s4 = s4
  None = None
  Tab <- Tabs
  Session <- Sessions
SYMMETRY Symmetry
VIEW View
INVARIANT PeerKeepsPool
