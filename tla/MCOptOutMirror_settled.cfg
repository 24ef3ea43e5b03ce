\* A number, a number the API refuses, no number; five attempts.
SPECIFICATION FairMirrorSpec
CONSTANTS
  i1 = i1  i2 = i2  i3 = i3
  Stop = {i1, i2, i3}
  Anonymous = {i3}
  Refused = {i2}
  MaxAttempts = 5
INVARIANTS MirrorTypeOK NothingDropped EventsBounded
PROPERTIES EveryOptOutSettled
