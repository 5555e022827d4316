CONSTANTS
  Clients = {c1, c2}
  Ids = {a1, a2, a3}
  Numbers = {n1}
  Types = {"asset", "liability"}
  Currencies = {usd}
  Amounts = {1}
  t1 = t1
  t2 = t2
  p1 = p1
  p2 = p2
  Txns = {t1, t2, t3}
  Prefixes = {p1, p2}
  PrefixOf <- TwoPrefixes
  Stamps = {s1}
  Schema = {"update_account_balance"}
  Faults = {"reply_lost", "unavailable"}
  Obstacles = {}
  MaxEntries = 2
SYMMETRY TxnSymmetry
SPECIFICATION Spec
INVARIANTS OkMeansPosted
PROPERTIES ImplementsBook
