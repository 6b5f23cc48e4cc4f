CONSTANTS
  PrototypeIn <- MCPrototypeIn
  PrototypeOut <- MCPrototypeOut
  Signatures <- AnySignatures
  DynamicTypes <- MCDynamicTypes
  ArgKinds = {"string", "int"}
  MaxArgs = 3
SPECIFICATION Spec
INVARIANT NoPanicAtCall
