CONSTANTS
  Clients = {c1, c2}
  Ids = {a1, a2, a3}
  Numbers = {n1}
  Types = {"asset", "liability"}
  Currencies = {usd}
  Amounts = {1}
  t1 = t1
  t2 = t2
  p1 = p1
  p2 = p2
  Txns = {t1, t2}
  Prefixes = {p1, p2}
  PrefixOf <- SharedPrefix
  Stamps = {s1}
  Schema = {"validate_double_entry", "validate_transaction_entries", "update_account_balance", "create_balance_snapshot", "account_balances_chk"}
  Faults = {}
  Obstacles = {"scan"}
  MaxEntries = 2
SPECIFICATION FairSpec
PROPERTIES ErrorsLeaveNothing
