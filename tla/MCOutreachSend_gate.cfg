\* Overlapping runs, an opt-out, a callback, a killed transaction.
SPECIFICATION Spec
CONSTANTS
  p1 = p1  p2 = p2  i1 = i1
  NoPhone = NoPhone  NoZone = NoZone  NoLead = NoLead  NoSid = NoSid
  Lead <- TwoLeads
  Run = {r1, r2}
  Inbound = {i1}
  Phone = {p1, p2}
  PhoneOf <- TwoPhones
  From <- Senders
  Verdict <- Stops
  UtcOffset <- AtUtc
  DeliveryStatus = {"delivered"}
  HourlyLimit = 2
  MaxCallouts = 2
  TicksPerHour = 1
  StartTick = 12
  MaxTick = 12
  MaxCalls = 4
  MaxMarks = 1
  MaxAborts = 1
INVARIANTS TypeOK UniqueSid ContactedIsLogged OptOutHandled
PROPERTIES GateImplementsPermit
\* A behaviour stops where the bounds stop it.
CHECK_DEADLOCK FALSE
