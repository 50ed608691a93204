CONSTANTS
  Keys <- MCKeys
  Values <- MCValues
  MaxVars = 3

SPECIFICATION Spec

INVARIANT ViewsAgree
