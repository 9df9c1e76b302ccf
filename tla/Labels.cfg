SPECIFICATION Spec
CONSTANTS
  a = a
  b = b
  nl = nl
  Null = Null
  Chars <- FewChars
  Newline = nl
  Files <- AllFiles
  MaxLabels = 2
INVARIANTS
  NamesAreTheLines
  NoBlockIsLost
CHECK_DEADLOCK FALSE
