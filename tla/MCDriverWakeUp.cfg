\* The same, when the task of the queue may be left disabled.
SPECIFICATION FairSpec
CONSTANTS
  None = None
  Ack = Ack
  Headers = {a}
  Channels = {c1}
  Powers = {p1}
  QueueSize = 2
PROPERTY ReceptionIsProcessed
