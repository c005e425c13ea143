SPECIFICATION Spec
CONSTANTS
  Writers = {w1}
  Sizes = {1}
  MAX_SEND_NUM = 1
  HighWater = 5
  MaxMsgs = 2
PROPERTY CancelledWhenEmpty
CHECK_DEADLOCK FALSE
