CONSTANTS
  None = None
  Nothing = Nothing
  c1 = c1
  c2 = c2
  k1 = k1
  k2 = k2
  Clients = {c1, c2}
  Keys = {k1, k2}
  InView <- NarrowBox
  Cooldown = 1
  HistoryLimit = 2
  MaxTime = 1
  MaxAlerts = 2
  MaxWaiting = 2
  s1 = s1
  s2 = s2
  a1 = a1
  Senders = {s1, s2}
  Nonces = {1, 2, 3}
  Actors = {a1}
  Messages <- MCMessages
  Grants <- MCGrants
  MaxSpeed <- MCMaxSpeed
  MaxAccel <- MCMaxAccel
  Burst <- MCBurst
  Rate <- MCRate
  GlobalBurst = 2
  GlobalRate = 1
  Skew = 1
  ExtraRetention = 1
  CleanupInterval = 2
  TeleportThreshold = 400
  MaxMono = 5
  MaxBack = 1
  MaxPassed = 4
  MaxGrants = 1
  ca = ca
  cb = cb
  gps = gps
  rsu = rsu
  Scenes <- MCScenes
  Accuracy <- MCAccuracy
  Errors <- MCErrors
  LastSecond = 6
SPECIFICATION ServicesSpec
CHECK_DEADLOCK FALSE
INVARIANTS
    StoreMatchesLifecycle
    ClientsAgreeInTurn
    NeverAcceptedTwice
    RateHeld
    Foretold
