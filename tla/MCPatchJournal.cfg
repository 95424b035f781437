\* Two writes of one file, crashes, hanging writers, a resume, a user who edits.
SPECIFICATION Spec
CONSTANTS
  Call = {c1, c2}
  Run = {r1, r2, r3}
  Resumer = {q1}
  Rewind = {}
  Text = {t1, t2}
  Mode = {m1, m2}
  NewMode = m1
  NoFile = NoFile
  None = None
  MaxRetries = 1
  MaxEdits = 1
SYMMETRY Symmetry
INVARIANTS
  VerifiedWasObserved
  NoWriteForgotten
CHECK_DEADLOCK FALSE
