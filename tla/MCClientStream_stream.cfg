SPECIFICATION FairSpec
CONSTANTS
  Commands <- MCCommands
  Number <- MCNumber
  Header <- MCHeader
  Star <- MCStar
  Rests <- MCRests
  MaxCommands = 2
  BufferSize = 14
  TtlRange = 100000
  ShortSends = TRUE
INVARIANTS TypeOK FramedExact Excerpts OnlyBlanks RepliesInOrder
PROPERTIES Answered
\* The client stops after MaxCommands.
CHECK_DEADLOCK FALSE
