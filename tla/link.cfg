SPECIFICATION LinkSpec
CONSTANTS
  Writers = {w1}
  Sizes = {4, 5}
  MAX_SEND_NUM = 0
  HighWater = 5
  MaxMsgs = 3
  Base = 4
INVARIANTS
  TypeOK
  StreamIntact
  SentInOrder
  RequestsAreMessages
PROPERTIES
  Arrives
CHECK_DEADLOCK FALSE
