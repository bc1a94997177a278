SPECIFICATION MCSpec
CONSTANTS
  c1 = c1
  c2 = c2
  nil = nil
  a = a
  b = b
  Calls = {c1, c2}
  Names = {a, b}
  Nums <- MCNums
  Nil = nil
  MaxItems = 2
  Input <- MCInput
  Tries = 3
  Timeout = 3
INVARIANT PageHasAll
CHECK_DEADLOCK FALSE
