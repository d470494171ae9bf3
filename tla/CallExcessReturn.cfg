SPECIFICATION Spec
CONSTANTS
  work = work
  leaf = leaf
  puts = puts
  zero = zero
  one = one
  HostFn = HostFn
  Stale = Stale
  Zero = zero
  Funcs <- MCFuncs
  Imports <- MCImports
  Values <- MCValues
  NParams <- MCParams
  NLocals <- MCLocals
  HasResult <- MCResult
  Table <- MCTable
  MaxParams = 1
  GuardWords = 12
  ImmWords = 8
  MaxHeight = 2
  ExcessReturns = TRUE
  IndirectFrom = {leaf}
INVARIANT OperandsMatch
