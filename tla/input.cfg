SPECIFICATION Spec
CONSTANTS
  short = short
  long = long
  Frame = {short, long}
  Size <- MCSize
  ETH_RXBUFNB = 3
  POOL = 4
  INPKT = 2
  MBOX = 4
  LATE = 1
  NULL = NULL
INVARIANTS NothingLeaks MailboxHasRoom
PROPERTIES IsChannel RingDrains
