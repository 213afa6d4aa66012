\* Two hosts may open the same session to one remote.
SPECIFICATION Spec
CONSTANTS
  None = None
  Hosts = {h1, h2}
  Remotes = {r1}
  Ids = {0, 1}
  INVALID_SESSION = 0
  KeyGens = {k1, k2}
  RequestIds = {0}
  MinLatencySamples = 0
  MinClockSamples = 0
  Stoppable = {}
  Expiring = {}
  Impatient = {}
SYMMETRY Symmetry
INVARIANT AuthenticLink
