CONSTANTS
  Calls = {c1, c2}
  Tokens = {t1, t2}
  KeyIds = {k1, k2}
  TestKey = k1
  Nobody = nobody
  Faults = {"persist", "rows", "restart"}
  MaxLifetime = 2
  Pans <- SamplePans
SPECIFICATION FairSpec
INVARIANTS TypeOK CardsOpenInTheirLifetime
PROPERTIES NoLostUpdate OldCardsStay CallsReturn
