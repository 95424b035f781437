\* A rewind is killed, the session resumed, the rewind submitted again.
SPECIFICATION Spec
CONSTANTS
  Call = {c1}
  Run = {r1, r2}
  Resumer = {q1}
  Rewind = {k1}
  Text = {t1, t2}
  Mode = {m1, m2}
  NewMode = m1
  NoFile = NoFile
  None = None
  MaxRetries = 1
  MaxEdits = 0
SYMMETRY Symmetry
INVARIANT
  StaysRewindable
CHECK_DEADLOCK FALSE
