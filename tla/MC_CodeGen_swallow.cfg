CONSTANTS
  Programs <- SwallowOnly
  Builtins <- MCBuiltins
  Callables <- MCCallables
  ImportFailures <- MCImportFailures
  Main = "main"
  Eager = FALSE
  MaxGenerate = 1
  NoRef = NoRef
  ExtraSolveOpts <- MCExtraSolveOpts
SPECIFICATION Spec
INVARIANT FirstErrorReturned
