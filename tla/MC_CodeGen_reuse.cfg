CONSTANTS
  Programs <- ReuseVariadic
  Builtins <- MCBuiltins
  Callables <- MCCallables
  ImportFailures <- MCImportFailures
  Main = "main"
  Eager = TRUE
  MaxGenerate = 2
  NoRef = NoRef
  ExtraSolveOpts <- MCExtraSolveOpts
SPECIFICATION Spec
INVARIANT GenerateMatchesReference
INVARIANT FirstErrorReturned
