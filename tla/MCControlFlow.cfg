SPECIFICATION Spec
CONSTANTS
  FnArity <- MCFnArity
  MaxOps = 6
  MaxDepth = 3
  Features = {}
INVARIANTS TypeOK BranchesLand StackMirrorsWasm
PROPERTIES ValidAccepted LinkedOnce BranchesEventuallyLand
\* Compilation ends, and stops where MaxOps is reached inside a function.
CHECK_DEADLOCK FALSE
