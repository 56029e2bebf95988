CONSTANTS
  None = None
  Nobody = Nobody
  Ids = {m1, m2, m3}
  Kinds <- MCKinds
  Eligible <- MCEligible
  MaxTime = 2
  MaxStored = 4
  Listeners = {l1, l2}
  WindowSize = 3
  MaxWaiting = 2
  Callers = {p1, p2}
  MaxDrops = 2
  MaxCalls = 4
  Channels = {"world", "alerts", "graph"}
  Wrapped = {"graph"}
  Slots = {1, 2}
  MaxMounts = 2
  MaxOutages = 2
  MaxThrows = 1
  MaxDelay = 2
SPECIFICATION MessagingSpec
CHECK_DEADLOCK FALSE
PROPERTIES
    KeepsPromise
    LoopComesBack
    Reconnects
