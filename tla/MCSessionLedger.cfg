\* Two processes that submit, resume and overtake each other.
SPECIFICATION Spec
CONSTANTS
  Process = {p1, p2}
  Command = {c1, c2, c3}
  Session = {s1}
  Payload = {x}
  None = None
  MaxSeq = 3
  MaxOrdinal = 2
  MaxRunSeq = 2
SYMMETRY Symmetry
INVARIANTS
  TypeOK
  SeqIntegrity
  OvertakenRunsAreFenced
  LedgerAgrees
  ResultNamesItsEvent
PROPERTIES
  RefinesCommandOutcomes
CHECK_DEADLOCK FALSE
