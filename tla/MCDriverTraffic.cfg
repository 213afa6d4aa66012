\* Two services share the driver; changes of channel and power in the traffic.
SPECIFICATION Spec
CONSTANTS
  None = None
  Ack = Ack
  Headers = {a, b}
  Channels = {c1, c2}
  Powers = {p1}
  QueueSize = 3
CONSTRAINT NothingLost
INVARIANTS RadioAttended DeafIsServed CreditIsEarned
