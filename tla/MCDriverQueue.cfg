\* One service, a queue of two events that does overflow.
SPECIFICATION FairSpec
CONSTANTS
  None = None
  Ack = Ack
  Headers = {a}
  Channels = {c1}
  Powers = {p1}
  QueueSize = 2
INVARIANT TypeOK
PROPERTY ReceptionComesBack
