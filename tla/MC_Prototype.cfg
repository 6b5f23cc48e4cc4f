CONSTANTS
  PrototypeIn <- MCPrototypeIn
  PrototypeOut <- MCPrototypeOut
  Signatures <- RepoSignatures
  DynamicTypes <- MCDynamicTypes
  ArgKinds = {"string", "int"}
  MaxArgs = 3
SPECIFICATION Spec
INVARIANT TypeOK
INVARIANT NoPanicAtCall
