SPECIFICATION ServerSpec
CONSTANTS
  s1 = s1
  s2 = s2
  r1 = r1
  r2 = r2
  w1 = w1
  c1 = c1
  c2 = c2
  c3 = c3
  l1 = l1
  l2 = l2
  g1 = g1
  g2 = g2
  p1 = p1
  p2 = p2
  t1 = t1
  t2 = t2
  t3 = t3
  i1 = i1
  i2 = i2
  None = None
  Nobody = Nobody
  NoLog = NoLog
  Missing = Missing
  Parts = {"files"}
  Shell <- TwoShells
  Reader <- TwoReaders
  Conn <- TwoConns
  Stream <- TwoStreams
  MaxLines = 3
  Cap = 2
  Buffer = 1
  Call <- ThreeCalls
  Page <- TwoPages
  SecretAction <- FewActions
  Vaults = {TRUE, FALSE}
  MaxHostLines = 2
  MaxSaves = 0
  Sweeper <- OneSweeper
  ShellProfile = {pa}
  Worker = {u1, u2}
  MaxFails = 1
  MaxOpens = 1
  MaxRetries = 0
  MaxReplaces = 0
  Modes = {FALSE}
  Log <- TwoLogs
  Writer = {w1}
  CallKinds = {"start", "pause", "stop", "delete"}
  Beat = 1
  Stale = 2
  Grace = 2
  ProfileId <- TwoIds
  Request = {q1, q2}
  MaxRequests = 2
  MaxFailures = 0
  Host = {h1, h2}
  KeyType = {ed, rsa}
  Dialer = {d1, d2}
  Replacer = {d1}
CHECK_DEADLOCK FALSE
\* One property at a time: the first that is violated ends the run.
INVARIANT SavesKept
\* INVARIANT FlagsAgree
