SPECIFICATION CalmSpec
CONSTANTS
  Conns = {c1, c2}
  Workers = {w1, w2}
  NoConn = NoConn
  Listen = Listen
  Fds = {f1, f2}
  NoFd = NoFd
  Room = 1
  Frames <- AllFrames
  Errnos = {"other"}
  MaxUnits = 4
INVARIANT ToolAvailable
   
CHECK_DEADLOCK FALSE
