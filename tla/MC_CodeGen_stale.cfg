CONSTANTS
  Programs <- ReusePrograms
  Builtins <- MCBuiltins
  Callables <- MCCallables
  ImportFailures <- MCImportFailures
  Main = "main"
  Eager = TRUE
  MaxGenerate = 2
  NoRef = NoRef
  ExtraSolveOpts <- MCExtraSolveOpts
SPECIFICATION Spec
INVARIANT ImportDispatchChecked
