\* An insert that fails for another reason than a lost race.
SPECIFICATION MirrorSpec
CONSTANTS
  i1 = i1  i2 = i2  i3 = i3
  Stop = {i1}
  Anonymous = {}
  Refused = {}
  MaxAttempts = 5
INVARIANTS AnsweredIsLogged
