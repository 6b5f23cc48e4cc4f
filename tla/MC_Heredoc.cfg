CONSTANTS
  Chars <- MCChars
  Literals <- MCLiterals
  MaxLen = 6
SPECIFICATION Spec
INVARIANT TypeOK
INVARIANT DedentKeepsRelativeIndent
INVARIANT FoldKeepsWords
INVARIANT ElaboratesAsSpecified
