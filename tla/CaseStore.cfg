\* Three requests at once; statements that are refused, roll back or race, and
\* a service that crashes.
CONSTANTS
  Runs = {r1, r2, r3}
SPECIFICATION Spec
INVARIANTS
  ReturnedIsOnRecord
  NothingIsStranded
CHECK_DEADLOCK FALSE
