SPECIFICATION Spec
CONSTANTS
  u1 = u1
  u2 = u2
  c1 = c1
  c2 = c2
  c3 = c3
  c4 = c4
  c5 = c5
  None = None
  Background = Background
  User <- Users
  Conn <- FiveConns
  Tickers <- NoTickers
  MinSize = 1
  MaxSize = 2
  MaxDials = 1
  MaxBackground = 1
SYMMETRY Symmetry5
VIEW View
INVARIANTS RetiredAreClosed
