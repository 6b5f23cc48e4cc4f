CONSTANTS
  Kinds <- MCKinds
  Names <- MCNames
  FieldNames <- MCFieldNames
  Chars <- MCChars
  MaxDecls = 1
  MaxText = 3
SPECIFICATION Spec
INVARIANT ReferenceIsSource
