\* Two server tasks and two addresses, with every failure at any time.
CONSTANTS
  MaxConnections = 2  Addresses = {a1, a2}  None = None
SPECIFICATION Spec
INVARIANTS TypeOK AnswersHeldLease
PROPERTIES ComesBack Announces
