CONSTANTS
  Callers = {c1, c2}
  d1 = d1
  d2 = d2
  d3 = d3
  Disputes = {d1}
  Store <- InMemory
  Faults = {}
  MaxTransitions = 5
SPECIFICATION Spec
PROPERTIES ReversedIsTerminal
