CONSTANTS
  c1 = c1
  c2 = c2
  c3 = c3
  c4 = c4
  c5 = c5
  k1 = k1
  k2 = k2
  NoKey = NoKey
  Calls <- MCCalls
  Keys <- MCKeys
  Role <- MCRole
  Key <- MCKey
SPECIFICATION Spec
INVARIANT LastTaskUnloads
CHECK_DEADLOCK FALSE
