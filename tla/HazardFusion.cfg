CONSTANTS
  None = None
  Reported = {"BUMP", "DEBRIS"}
  Places = {85, 120}
  Sources = {s1, s2}
  Segments = {g1, g2}
  Confidences = {600}
  Radii = {50}
  AssociationRadius = 50
  CellMetres = 108
  NominalCell = 111
  MaxTime = 1
  MaxHazards = 2
  MaxEvidence = 2
  MaxContradictions = 1
  Kinds = {"ACCIDENT", "LANE_CLOSURE"}
  Points <- MCPoints
  Nowhere = Nowhere
  Lateness = 1
  Observers = {o1, o2}
  Certainties = {900}
  MatchRadius = 50
  Promotion = 700
  SourceWeight = 300
  KeptPerUnit = 40
  StaleAfter = 1
  Lives <- MCLives
  MaxClock = 2
  MaxTracked = 2
  MaxReports = 3
SPECIFICATION MapsSpec
CHECK_DEADLOCK FALSE
SYMMETRY Symmetry
INVARIANTS
    IndexAgrees
    VerifiedIsConfident
