CONSTANTS
  c1 = c1
  c2 = c2
  Callers = {c1, c2}
  Uses <- TwoRoles
  Validators = {v1}
  d1 = d1
  d2 = d2
  d3 = d3
  e1 = e1
  m1 = m1
  Disputes = {d1, d2, d3}
  Asked <- Requests
  EntryAmount <- Amounts
  Opening <- OneReserve
  Rate = 1
  Obstacles = {}
  Store <- InMemory
  Faults = {"unavailable", "reply_lost"}
  MaxTransitions = 5
  Limit <- Limits
  PoolSize = 3
SPECIFICATION FairSpec
INVARIANTS TypeOK DisputesBegin HoldsAreAccountedFor ReservesFollowHolds FraudIsNeverDisputed OkMeansDone
PROPERTIES CallsReturn
