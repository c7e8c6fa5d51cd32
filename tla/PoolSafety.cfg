SPECIFICATION Spec
CONSTANTS
  u1 = u1
  u2 = u2
  c1 = c1
  c2 = c2
  c3 = c3
  c4 = c4
  c5 = c5
  None = None
  Background = Background
  User <- Users
  Conn <- FourConns
  Tickers <- AllTickers
  MinSize = 1
  MaxSize = 2
  MaxDials = 1
  MaxBackground = 1
SYMMETRY Symmetry4
VIEW View
CONSTRAINT MixedLoad
INVARIANTS
  PoolSound
  NothingLeaks
  ExclusiveUse
  NoClosedClientHandedOut
PROPERTIES NotCutInUse
