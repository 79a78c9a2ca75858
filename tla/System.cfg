\* Two server tasks, the factory slot and one OTA slot of two sectors, a one-sector
\* hashed image, one without a digest of two sectors, one with trailing bytes.
CONSTANTS
  good = good  raw = raw  padded = padded
  Erased = Erased  None = None
  Conns = {c1, c2}
  Slots <- MCSlots  Absent <- MCAbsent
  Images <- MCImages  Kind <- MCKind  Len <- MCLen
  Sectors = 2  FactoryImage = good  CountdownSeconds = 2
SPECIFICATION Spec
INVARIANTS TypeOK OneUpload CountdownExact RunningIntact StatusHonest ProgressExplained
PROPERTIES ImplementsService ReadyIsComplete ActivationEnds UploadEnds
