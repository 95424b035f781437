\* A write that two rewind commands and a resume compete for.
SPECIFICATION Spec
CONSTANTS
  Call = {c1}
  Run = {r1, r2}
  Resumer = {q1}
  Rewind = {k1, k2}
  Text = {t1, t2}
  Mode = {m1, m2}
  NewMode = m1
  NoFile = NoFile
  None = None
  MaxRetries = 1
  MaxEdits = 1
SYMMETRY Symmetry
INVARIANTS
  ReplacesOnlyWhatItChecked
  RewindOutcomesAgree
PROPERTIES
  RewindAnswersStand
  RefinesJournalOutcomes
CHECK_DEADLOCK FALSE
