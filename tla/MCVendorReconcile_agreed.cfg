\* Pages of one entry; one failure, one entry taken off.
SPECIFICATION FairSpec
CONSTANTS
  p = p  f = f  m = m
  wp = wp  alt = alt  bad = bad
  r1 = r1  none = none
  Phone = {p, f}
  Email = {m}
  Entry = {wp, alt, bad}
  Wire <- WireOf
  Parse <- ParseOf
  Unparseable = none
  Run = {r1}
  PageSize = 1
  MaxUnblocks = 1
  MaxFails = 1
INVARIANTS TypeOK RunClosesGaps
PROPERTIES ListsComeToAgree
