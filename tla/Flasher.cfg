\* Ten configurations, three images, release and debug builds.
CONSTANTS
  Configs <- MCConfigs  ImageSizes = {1, 4, 9}  Profiles = {"release", "debug"}
  MaxSlots = 3  BlockSize = 4  FirstOffset = 8  None = None
SPECIFICATION Spec
INVARIANTS TypeOK TableSound
PROPERTY CleanRunsInStep
