SPECIFICATION Spec
CONSTANTS
  MaxTyped = 5
INVARIANTS
  TypeOK
  FirstKeyDecides
PROPERTIES
  KeysAreRead
  QuitIsHeeded
\* The program stops once run() is left.
CHECK_DEADLOCK FALSE
