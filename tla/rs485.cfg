SPECIFICATION Spec
CONSTANTS
  Byte = {1, 2}
  ZERO = 0
  LENGTH = 3
INVARIANT HandedAsReceived
PROPERTY EventuallyHanded
