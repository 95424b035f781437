\* Two processes supersede one memory at the same time.
SPECIFICATION MemorySpec
CONSTANTS
  Process = {p1, p2}
  Claim = {c1, c2}
  Ref = {r1}
  MaxMemoryCommands = 5
PROPERTY
  LinksKept
CHECK_DEADLOCK FALSE
