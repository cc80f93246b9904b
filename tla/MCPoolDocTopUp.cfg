SPECIFICATION Spec
CONSTANTS
  NoKey = NoKey
  adm = adm
  ann = ann
  bob = bob
  basket = basket
  retrofit = retrofit
  boiler = boiler
  MaxU64 = 7
  MaxU128 = 63
  Precision = 5
  Wallets = {adm, ann, bob}
  Accounts = {adm, ann, bob, basket}
  InitialUsdc <- TopUpUsdc
  Deployers = {adm}
  Treasuries = {adm}
  FeeChoices = {0}
  Pools = {basket}
  PoolProjects = {retrofit}
  PoolInvestors = {ann, bob}
  PoolTargets = {4}
  Donors = {}
  MAX_POOL_PROJECTS_V1 = 1
PROPERTIES
  TopUpIsNoLoss
CHECK_DEADLOCK FALSE
