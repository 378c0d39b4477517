SPECIFICATION DocSpec
CONSTANTS
  LF = LF
  Nul = Nul
  Sp = Sp
  Eq = Eq
  Semi = Semi
  Hash = Hash
  Open = Open
  Close = Close
  EF = EF
  BB = BB
  BF = BF
  Bom <- mcBom
  a = a
  A = A
  b = b
  Letters = {a, A, b, EF, BB, BF}
  Lower <- mcLower
  MaxLine = 16
  MaxName = 3
  MaxLines = 4
  Docs <- mcDocs
INVARIANTS
  TypeOK
  ReadsLines
  FirstError
CHECK_DEADLOCK FALSE
