\* One process remembers, forgets and remembers again.
SPECIFICATION MemorySpec
CONSTANTS
  Process = {p1}
  Claim = {c1, c2}
  Ref = {r1}
  MaxMemoryCommands = 4
INVARIANT
  RememberedIsKept
CHECK_DEADLOCK FALSE
