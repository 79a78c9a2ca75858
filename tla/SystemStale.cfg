\* An inspection that outlives an upload into its slot.
CONSTANTS
  good = good  raw = raw  padded = padded
  Erased = Erased  None = None
  Conns = {c1, c2}
  Slots <- MCSlots  Absent <- MCAbsent
  Images <- MCImages  Kind <- MCKind  Len <- MCLen
  Sectors = 2  FactoryImage = good  CountdownSeconds = 2
SPECIFICATION Spec
PROPERTY AcceptedCanBoot
