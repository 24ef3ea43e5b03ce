\* Two versions, two bodies, one chunk at a time.
SPECIFICATION Spec
CONSTANTS
  t1 = t1  t2 = t2  b1 = b1  b2 = b2  r1 = r1  Nothing = Nothing
  Template = {t1, t2}
  Version = {1, 2}
  Body = {b1, b2}
  Run = {r1}
SYMMETRY Symmetry
INVARIANTS TypeOK SentWasApproved
