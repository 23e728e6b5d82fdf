SPECIFICATION Spec
CONSTANTS
  p1 = p1
  p2 = p2
  a = a
  b = b
  NoProcess = NoProcess
  NoName = NoName
  Process = {p1, p2}
  Name = {a, b}
  MaxCount = 2
  MaxUsers = 2
  MaxRestarts = 1
  Modulus = 4
CHECK_DEADLOCK FALSE
INVARIANTS Exclusive
