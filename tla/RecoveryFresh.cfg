\* What the README says of the panic counter, on two OTA slots.
CONSTANTS
  OtaSlots = 2  PanicRetry = 2  Refused = {}  Crashing = {}  MaxSeq = 3
  Blank = Blank  Garbage = Garbage  Request = Request  Unset = Unset
SPECIFICATION Spec
PROPERTY FreshImageCountsFromZero
