CONSTANTS
  Callers = {c1}
  d1 = d1
  d2 = d2
  d3 = d3
  Disputes = {d1, d2, d3}
  Store <- LastOverMigration
  Faults = {"unavailable", "reply_lost"}
  MaxTransitions = 5
SPECIFICATION Spec
INVARIANTS HistoriesAreChained NothingIsRecorded
PROPERTIES ImplementsLifecycle
