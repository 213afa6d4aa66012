\* Two blocks, two writes, and links that come and go.
SPECIFICATION FairSpec
CONSTANTS
  None = None
  BlockCount = 2
  Values = {0, 1, 2}
  InitialValue = 0
  Crc <- SmallCrc
  Writes <- TwoWrites
  After <- Upwards
INVARIANTS TypeOK SyncedMeansSame
PROPERTIES Replicates ReaderCatchesUp
