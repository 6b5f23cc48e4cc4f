CONSTANTS
  Kinds <- MCKinds
  Names <- MCNames
  FieldNames <- MCFieldNames
  Chars <- MCChars
  MaxDecls = 2
  MaxText = 1
SPECIFICATION Spec
INVARIANT TypeOK
INVARIANT LookupMatchesDecls
