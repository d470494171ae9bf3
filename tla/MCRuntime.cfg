SPECIFICATION Spec
CONSTANTS
  Compilers = {printsA, printsB, plain}
  Importing = {printsA, printsB}
  Runtimes = {r1, r2}
  Trapcodes = {DIV_0, Stack_overflow}
  NONE = NONE
  None = None
  printsA = printsA
  printsB = printsB
  r1 = r1
  r2 = r2
  DIV_0 = DIV_0
  Stack_overflow = Stack_overflow
  plain = plain
SYMMETRY Alike
INVARIANTS TypeOK TrapsAreCaught TrapCodeIsOwn OwnMemoryOnly
\* A process that was killed, or that has used up its modules, stops.
CHECK_DEADLOCK FALSE
