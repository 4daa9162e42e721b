SPECIFICATION Spec
CONSTANTS
  Replies <- MCReplies
  StatusLine <- MCStatusLine
  LengthLine <- MCLengthLine
  Cr = 13
  Lf = 10
  MaxLine = 4
  MaxLines = 3
  MaxSize = 3
  RequestSize = 3
  Chunk = 2
  TcpBlock = 2
  ConnectTimeout = 1
  SendTimeout = 1
  RecvTimeout = 1
  HttpTimeout = 6
  U16 = 5
  Sockets = {0, 1}
  Errors <- MCErrors
  MaxRequests = 1
PROPERTY WaitsForLine
CHECK_DEADLOCK FALSE
