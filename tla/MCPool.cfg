SPECIFICATION PoolFairSpec
CONSTANTS
  NoKey = NoKey
  adm = adm
  ann = ann
  bob = bob
  basket = basket
  retrofit = retrofit
  boiler = boiler
  MaxU64 = 9
  MaxU128 = 99
  Precision = 5
  Wallets = {adm, ann, bob}
  Accounts = {adm, ann, bob, basket}
  InitialUsdc <- PoolUsdc
  Deployers = {adm}
  Treasuries = {adm}
  FeeChoices = {0}
  Pools = {basket}
  PoolProjects = {retrofit}
  PoolInvestors = {adm, ann, bob}
  PoolTargets = {4}
  Donors = {}
  MAX_POOL_PROJECTS_V1 = 1
INVARIANTS
  PoolTypeOK
  StakesAreSold
  OnlyTopUpsInherit
PROPERTIES
  OnlyClaimsLeaveVault
  PoolEntitlementsGrow
  IsEagerDividends
  StakesGetPaid
CHECK_DEADLOCK FALSE
