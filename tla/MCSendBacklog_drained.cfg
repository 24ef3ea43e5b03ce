\* The three leads at the head are never accepted, two of them in any hour; five
\* leads an hour, which one fewer would not be enough for; chunks of two.
SPECIFICATION BacklogSpec
CONSTANTS
  Lead <- NineLeads
  Unreachable = {1, 2, 3}
  Window <- HalfDays
  Hours = 4
  Limit = 5
  Scope = 2
INVARIANTS BacklogTypeOK
PROPERTIES EveryLeadIsContacted
