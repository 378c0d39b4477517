\* Three values, as many blocks, strings of 19, 20, 21 and 40 characters and
\* two allocations that fail; nothing follows undefined behaviour.
SPECIFICATION Spec
CONSTANTS
  Objects = {o1, o2, o3}
  Blocks = {b1, b2, b3}
  Scalars = {v1}
  s19 = s19
  s20 = s20
  s21 = s21
  s40 = s40
  Strings <- SomeStrings
  Length <- Lengths
  NullPtr = NullPtr
  Junk = Junk
  MaxFails = 2
INVARIANTS TypeOK ExclusiveOwner NoLeak StringFits
PROPERTY ImplementsValue
CHECK_DEADLOCK FALSE
