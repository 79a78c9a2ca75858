\* Two slots, two requests on the way.
CONSTANTS
  Slots = {s1, s2}  AtFirst = {"Available"}  MaxInFlight = 2  None = None
SPECIFICATION Spec
SYMMETRY Symmetry
INVARIANTS TypeOK ConclusionIsTargets
PROPERTIES ReportTrue ConfirmedAsShown
