CONSTANTS
  Callers = {c1, c2, c3}
  d1 = d1
  d2 = d2
  d3 = d3
  Disputes = {d1}
  Store <- InMemory
  Faults = {"unavailable", "reply_lost"}
  MaxTransitions = 5
SPECIFICATION Spec
SYMMETRY Symmetry
INVARIANTS TypeOK HistoryIsATree ForksAreBounded
