SPECIFICATION LiveSpec
CONSTANTS
  u1 = u1
  u2 = u2
  c1 = c1
  c2 = c2
  c3 = c3
  c4 = c4
  c5 = c5
  None = None
  Background = Background
  User <- Users
  Conn <- TwoConns
  Tickers <- KeepAliveOnly
  MinSize = 1
  MaxSize = 1
  MaxDials = 0
  MaxBackground = 1
VIEW View
PROPERTIES
  CallsReturn
  DeadTransportRedialled
