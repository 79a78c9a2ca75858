\* One slot or two, release builds only.
CONSTANTS
  Configs <- MCTwo  ImageSizes = {4}  Profiles = {"release"}
  MaxSlots = 3  BlockSize = 4  FirstOffset = 8  None = None
SPECIFICATION Spec
PROPERTY AlwaysInStep
