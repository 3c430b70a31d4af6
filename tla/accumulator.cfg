SPECIFICATION Spec
CONSTANTS
  Messages <- Lines
  MaxLines = 3
  MaxLength = 2
INVARIANTS
  TypeOK
  BufferIsOpenLine
  AnswersFirstLine
CHECK_DEADLOCK FALSE
