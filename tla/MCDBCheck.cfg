CONSTANTS
  NilV = NilV
  CorruptV = CorruptV
  UnreachableV = UnreachableV
  Builds <- MCBuilds
  Nil <- NilV
  Corrupt <- CorruptV
  Unreachable <- UnreachableV

SPECIFICATION Spec

INVARIANT ExitCodeTruthful

\* The process exits after one command.
CHECK_DEADLOCK FALSE
