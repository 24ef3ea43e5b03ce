\* One run at a time across the end of the send window of one of the leads.
SPECIFICATION FairSpec
CONSTANTS
  p1 = p1  p2 = p2  i1 = i1
  NoPhone = NoPhone  NoZone = NoZone  NoLead = NoLead  NoSid = NoSid
  Lead <- ThreeLeads
  Run = {r1}
  Inbound = {}
  Phone = {p1, p2}
  PhoneOf <- SharedPhones
  From <- Senders
  Verdict <- Stops
  UtcOffset <- MixedZones
  DeliveryStatus = {"delivered"}
  HourlyLimit = 1
  MaxCallouts = 2
  TicksPerHour = 1
  StartTick = 19
  MaxTick = 21
  MaxCalls = 5
  MaxMarks = 1
  MaxAborts = 1
INVARIANTS HourlyCap OneSendPerMarking
PROPERTIES EveryRunFinishes
\* A behaviour stops where the bounds stop it.
CHECK_DEADLOCK FALSE
