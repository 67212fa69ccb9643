CONSTANTS
  t1 = t1  t2 = t2  s1 = s1  s2 = s2
  Task <- MCTask
  Carries <- MCCarries
  Sock <- MCSock
  Op = {"write", "send", "sendto", "sendfile", "sendmsg", "sendfd", "read"}
  Half = {"wr"}
  MaxFd = 0
  Size = 2
  FileSize = 1
  Room = 1
  MaxIn = 1
  MaxFault = 2
  Timeo = 0
  None = None
SPECIFICATION Spec
INVARIANTS AnswersTrue ParkedOnOwnFd LocksHeldByRunners
PROPERTIES RefinesStream CallsReturn
CHECK_DEADLOCK FALSE
