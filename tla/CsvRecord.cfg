\* Every buffer of up to 5 characters, longer ones with texts, two records in
\* one object, and records that were written, with all the configurations.
SPECIFICATION MCSpec
CONSTANTS
  LF = LF
  CR = CR
  Qual = Qual
  Nul = Nul
  Blank = Blank
  Backslash = Backslash
  Delim = Delim
  x = x
  y = y
  Chars <- AllChars
  FieldsNum = 2
  NoValue = NoValue
  Null = Null
  Unknown = Unknown
  Values <- AllValues
  Trims = {"eInvalid", "eAll", "eHead", "eTail", "eNull"}
  Sizes <- AllSizes
  Delims <- AllDelims
  Rows = {LF, CR}
  Escapes = {TRUE, FALSE}
  Unqualified = {TRUE, FALSE}
  Inputs <- AllInputs
INVARIANTS TypeOK StaysInside AcceptsRecords ValuesAreFields RoundTrip
PROPERTY ParseEnds
CHECK_DEADLOCK FALSE
