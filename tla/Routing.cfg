CONSTANTS
  None = None
  Roads = {"ab", "ac", "bd", "cd", "bc"}
  Cars = {c1, c2}
  Speeds = {10}
  Penalties = {80}
  Rank <- MCRank
  Registered <- MCRegistered
  Late = 1
  MaxTime = 1
  MaxEntries = 1
  MaxHazards = 1
  Network <- MCNetwork
  Straight <- MCStraight
  Riders = {r1}
  Trips <- MCTrips
  Reported = {"ab", "bd"}
  Posted <- MCPosted
  Conditions <- MCConditions
SPECIFICATION MCRoutingSpec
SYMMETRY Symmetry
CHECK_DEADLOCK FALSE
INVARIANTS
    CountsFollow
    PathOptimal
