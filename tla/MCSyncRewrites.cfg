\* One block whose value comes back.
SPECIFICATION Spec
CONSTANTS
  None = None
  BlockCount = 1
  Values = {0, 1}
  InitialValue = 0
  Crc <- SmallCrc
  Writes <- AnyWrites
  After <- AnyAfter
INVARIANT IntegrityEnsured
