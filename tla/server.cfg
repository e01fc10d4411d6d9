SPECIFICATION Spec
CONSTANTS
  c1 = c1
  c2 = c2
  Client = {c1, c2}
  Kind = {"HEARTBEAT", "QUIT", "GETINFO"}
  Failure = {"fin", "rst", "abrt"}
  RS485 = TRUE
  LIGHTS = 2
  NULL = NULL
INVARIANTS TypeOK SubscriptionIsOwn ServedOnce
SYMMETRY ClientSymmetry
