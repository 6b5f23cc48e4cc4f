CONSTANTS
  Programs <- MCPrograms
  Builtins <- MCBuiltins
  Callables <- MCCallables
  ImportFailures <- MCImportFailures
  Main = "main"
  Eager = TRUE
  MaxGenerate = 1
  NoRef = NoRef
  ExtraSolveOpts <- MCExtraSolveOpts
SPECIFICATION FairSpec
INVARIANT TypeOK
INVARIANT GenerateMatchesReference
INVARIANT FirstErrorReturned
INVARIANT RequestsWellKinded
INVARIANT ForceNotReentrant
PROPERTY GenerateRefines
