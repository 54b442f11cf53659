SPECIFICATION FairSpec
CONSTANTS
  Files = {f1}
  NoFile = NoFile
  MaxPieces = 3
  Lines = {1, 2, 3}
  Blank = {2}
  MaxChanges = 2
  MaxErrors = 1
  LogBatchSize = 2
  maxLogRate = 2
  logRateWindow = 1
  MaxOutput = 1
INVARIANTS TypeOK OffsetIsTrue WindowIsEmpty
PROPERTIES RepeatedForCreation InOrder EventuallyRead
\* The client may stop, and the game need not write.
CHECK_DEADLOCK FALSE
