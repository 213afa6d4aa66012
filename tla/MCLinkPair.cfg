\* A pair of which the remote is stopped and started, two sessions, every time-out.
SPECIFICATION Spec
CONSTANTS
  None = None
  Hosts = {h1}
  Remotes = {r1}
  Ids = {0, 1, 2}
  INVALID_SESSION = 0
  KeyGens = {k1, k2}
  RequestIds = {0}
  MinLatencySamples = 1
  MinClockSamples = 0
  Stoppable = {r1}
  Expiring = {h1, r1}
  Impatient = {h1, r1}
SYMMETRY Symmetry
INVARIANTS TypeOK EncryptedLink FreshAttempt LinkAgreement HostCommitsLast RemoteCommitsOnRequest
PROPERTIES CipherIsFrozen Agrees
