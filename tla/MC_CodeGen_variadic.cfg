CONSTANTS
  Programs <- VariadicOnly
  Builtins <- MCBuiltins
  Callables <- MCCallables
  ImportFailures <- MCImportFailures
  Main = "main"
  Eager = TRUE
  MaxGenerate = 1
  NoRef = NoRef
  ExtraSolveOpts <- MCExtraSolveOpts
SPECIFICATION FairSpec
PROPERTY GenerateRefines
