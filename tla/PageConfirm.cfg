\* As Page.cfg, for one property.
CONSTANTS
  Slots = {s1, s2}  AtFirst = {"Available"}  MaxInFlight = 2  None = None
SPECIFICATION Spec
SYMMETRY Symmetry
PROPERTY DoubtfulIsConfirmed
