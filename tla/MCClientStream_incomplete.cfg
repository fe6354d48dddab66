SPECIFICATION Spec
CONSTANTS
  Commands <- MCCommands
  Number <- MCNumber
  Header <- MCHeader
  Star <- MCStar
  Rests <- MCRests
  MaxCommands = 1
  BufferSize = 14
  TtlRange = 100000
  ShortSends = FALSE
INVARIANTS IncompleteIsNotConsumed
\* The client stops after MaxCommands.
CHECK_DEADLOCK FALSE
