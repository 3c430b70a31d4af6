SPECIFICATION Spec
CONSTANTS
  Messages <- Lines
  MaxLines = 3
  MaxLength = 2
INVARIANT AllMessagesFlow
CHECK_DEADLOCK FALSE
