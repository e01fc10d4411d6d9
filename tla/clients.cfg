SPECIFICATION FairSpec
CONSTANTS
  c1 = c1
  c2 = c2
  Client = {c1, c2}
  Kind = {"HEARTBEAT", "QUIT"}
  Failure = {"fin", "rst", "abrt"}
  RS485 = FALSE
  LIGHTS = 2
  NULL = NULL
PROPERTIES HeartbeatAnswered FailedIsClosed
