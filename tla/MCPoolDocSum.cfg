SPECIFICATION Spec
CONSTANTS
  NoKey = NoKey
  adm = adm
  ann = ann
  bob = bob
  basket = basket
  retrofit = retrofit
  boiler = boiler
  MaxU64 = 8
  MaxU128 = 80
  Precision = 5
  Wallets = {adm, ann, bob}
  Accounts = {adm, ann, bob, basket}
  InitialUsdc <- PoolUsdc
  Deployers = {adm}
  Treasuries = {adm}
  FeeChoices = {0}
  Pools = {basket}
  PoolProjects = {retrofit}
  PoolInvestors = {ann, bob}
  PoolTargets = {3}
  Donors = {}
  MAX_POOL_PROJECTS_V1 = 1
INVARIANTS
  ClaimsWithinDistributions
CHECK_DEADLOCK FALSE
