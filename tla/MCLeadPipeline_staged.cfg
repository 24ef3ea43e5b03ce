\* Two executions on the files of one run id.
SPECIFICATION Spec
CONSTANTS
  k1 = k1  r1 = r1  x1 = x1  x2 = x2  p1 = p1  e1 = e1
  tp = tp  tpp = tpp  te = te  junk = junk  d1 = d1
  Key = {k1}
  RunId = {r1}
  RunIdOf <- SameName
  Content <- AnyFile
  Exec = {x1, x2}
  Text = {Blank, junk, tp, tpp, te}
  Blank = Blank
  Identifier = {p1, e1}
  None = None
  Normalize <- Reading
  DomainOf <- Domain
  HasMx = {d1}
  BadTime = BadTime
  NoColumn = NoColumn
  Cooldown = 1
  MaxUpsets = 2
  MaxNow = 1
INVARIANTS TypeOK StagedIsClear EveryRowAccounted
SYMMETRY Executions
\* A behaviour stops where the bounds stop it.
CHECK_DEADLOCK FALSE
