CONSTANTS
  Chars <- MCChars
  Literals <- DedentLines
  MaxLen = 3
SPECIFICATION Spec
INVARIANT DedentRemovesCommonIndent
