SPECIFICATION MCSpec
CONSTANTS
  c1 = c1
  c2 = c2
  n1 = n1
  u1 = u1
  e1 = e1
  None = None
  Conn = {c1, c2}
  Node = {n1}
  User = {u1}
  Entity = {e1}
  MyDevices = {}
  MaxPeers = 1
  MaxChanges = 3
  x1 = x1
  x2 = x2
  a = a
  b = b
  End = {a, b}
  IdEntity = {x1, x2}
  Friendly = {a, b}
  MaxChallenge = 3
  q1 = q1
  q2 = q2
  Remote = {q1, q2}
  Configs <- MCConfigs
  Nobody = Nobody
  BootstrapNodes = {q2}
  MaxActive = 1
  Slots = 1
  Proto = {"ptt"}
  Sender = {"send", "sync"}
  MaxCalls = 2
  MaxReads = 2
INVARIANTS
    
    PeersMatch
    WithinLimits
    OneWriter
PROPERTIES
    ClosedPeersLeave
    PendingClears
    StaticConnects
    
    NobodyStaysBehind
CHECK_DEADLOCK FALSE
