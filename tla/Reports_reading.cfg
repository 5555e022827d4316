CONSTANTS
  Clients = {c1, c2}
  Ids = {a1}
  Numbers = {n1}
  Types = {"asset"}
  Currencies = {usd}
  Amounts = {1}
  t1 = t1
  t2 = t2
  p1 = p1
  Txns = {t1}
  Prefixes = {p1}
  PrefixOf <- OnePrefix
  Stamps = {s1, s2}
  Schema = {"update_account_balance", "create_balance_snapshot"}
  Faults = {"serialization", "unavailable"}
  Obstacles = {}
  MaxEntries = 2
  MaxClock = 3
SPECIFICATION ReportSpec
SYMMETRY Symmetry
INVARIANTS ReportTypeOK VerdictsAreExplained DriftTellsOfFalls OverdraftAlarmsAreFalse
PROPERTIES HistorySettles
