\* The last line of a file.
SPECIFICATION WriterSpec
CONSTANTS
  LF = LF
  CR = CR
  Qual = Qual
  Nul = Nul
  Blank = Blank
  Backslash = Backslash
  Delim = Delim
  x = x
  y = y
  Chars <- AllChars
  FieldsNum = 2
  NoValue = NoValue
  Null = Null
  Unknown = Unknown
  Values <- AllValues
  Trims = {"eInvalid", "eAll", "eHead", "eTail", "eNull"}
  Sizes = {}
  Delims <- NarrowDelim
  Rows = {LF}
  Escapes = {FALSE}
  Unqualified = {FALSE}
  Inputs <- LastLines
INVARIANT LastLineMayMissDelimiter
CHECK_DEADLOCK FALSE
