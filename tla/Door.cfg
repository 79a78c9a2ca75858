\* The door controller with a window of three ticks.
CONSTANT Delay = 3
SPECIFICATION Spec
INVARIANTS TypeOK LockWins
PROPERTIES HeldUntilLocked ImplementsDoor LockObeyed WindowCloses StuckButtonCloses
