\* Texts in records with a delimiter of two characters.
SPECIFICATION WriterSpec
CONSTANTS
  LF = LF
  CR = CR
  Qual = Qual
  Nul = Nul
  Blank = Blank
  Backslash = Backslash
  Delim = Delim
  x = x
  y = y
  Chars <- AllChars
  FieldsNum = 2
  NoValue = NoValue
  Null = Null
  Unknown = Unknown
  Values <- AllValues
  Trims = {"eInvalid", "eAll", "eHead", "eTail", "eNull"}
  Sizes = {}
  Delims <- WideDelim
  Rows = {LF}
  Escapes = {FALSE}
  Unqualified = {FALSE}
  Inputs <- WideTexts
INVARIANT TextsAreFields
CHECK_DEADLOCK FALSE
