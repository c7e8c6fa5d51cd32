SPECIFICATION Spec
CONSTANTS
  r1 = r1
  r2 = r2
  r3 = r3
  pa = pa
  pb = pb
  home = home
  Request <- Requests
  Profile <- Profiles
  Root <- OneRoot
  None = None
  MaxStarts = 2
CHECK_DEADLOCK FALSE
SYMMETRY Symmetry
VIEW View
INVARIANTS BridgeSound SessionsHeld ServesForwarding OpenedIsWatched WaitersServed
