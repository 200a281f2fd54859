CONSTANTS
  ann = ann
  bob = bob
  cyd = cyd
  Ids = {ann, bob, cyd}
  Openings <- MCOpenings
  Orders <- MCOrders
  Prices = {1}
  Hash <- MCHash
  MaxTx = 3
SPECIFICATION Spec
INVARIANTS
  TypeOK
  IdsRunOn
  PartiesRegistered
  ChainValid
  BalancesReplayHistory
PROPERTIES
  ImplementsLog
  TransactionsKept
