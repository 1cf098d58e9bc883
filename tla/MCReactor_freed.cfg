SPECIFICATION Spec
CONSTANTS
  Conns = {c1, c2}
  Workers = {w1, w2}
  NoConn = NoConn
  Listen = Listen
  Fds = {f1, f2}
  NoFd = NoFd
  Room = 1
  Frames <- AllFrames
  Errnos = {"EAGAIN", "other"}
  MaxUnits = 2
INVARIANT ToolAvailable
CHECK_DEADLOCK FALSE
