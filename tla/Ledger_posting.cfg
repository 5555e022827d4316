CONSTANTS
  Clients = {c1, c2}
  Ids = {a1, a2}
  Numbers = {n1}
  Types = {"asset", "expense"}
  Currencies = {usd}
  Amounts = {1, 2}
  t1 = t1
  t2 = t2
  p1 = p1
  p2 = p2
  Txns = {t1}
  Prefixes = {p1, p2}
  PrefixOf <- OnePrefix
  Stamps = {s1}
  Schema = {"update_account_balance", "create_balance_snapshot"}
  Faults = {"serialization", "reply_lost"}
  Obstacles = {}
  MaxEntries = 2
SPECIFICATION FairSpec
INVARIANTS TypeOK BalancesMatchJournal SnapshotsChain NoOverdraft OkMeansPosted
PROPERTIES CallsReturn
