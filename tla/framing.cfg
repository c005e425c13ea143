SPECIFICATION Spec
CONSTANTS
  Base = 4
  Msgs <- SomeMsgs
  Junk <- SomeJunk
  MaxWrites = 3
INVARIANTS
  TypeOK
  MessagesIntact
  BlockIsMessage
PROPERTIES
  ClosedOnlyIfInvalid
  NotRefused
  Delivered
  EndNoticed
CHECK_DEADLOCK FALSE
