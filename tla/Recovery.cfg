\* Three OTA slots, one refused and one that crashes; sequence numbers up to six.
CONSTANTS
  OtaSlots = 3  PanicRetry = 2  Refused = {3}  Crashing = {2}  MaxSeq = 6
  Blank = Blank  Garbage = Garbage  Request = Request  Unset = Unset
SPECIFICATION Spec
INVARIANTS TypeOK GivesUpInTime NeverGivesUpEarly CountdownMeansSwitched NumbersReadable
PROPERTIES SwitchIsAtomic CrashLoopEnds
