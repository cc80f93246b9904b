SPECIFICATION Spec
CONSTANTS
  NoKey = NoKey
  adm = adm
  ann = ann
  bob = bob
  basket = basket
  retrofit = retrofit
  boiler = boiler
  MaxU64 = 7
  MaxU128 = 63
  Precision = 3
  Wallets = {adm, ann, bob}
  Accounts = {adm, ann, bob, basket}
  InitialUsdc <- VaultUsdc
  Deployers = {adm}
  Treasuries = {adm}
  FeeChoices = {0}
  Pools = {basket}
  PoolProjects = {retrofit, boiler}
  PoolInvestors = {ann, bob}
  PoolTargets = {3}
  Donors = {ann}
  MAX_POOL_PROJECTS_V1 = 1
INVARIANTS
  FairWithoutTopUps
  PoolVaultAccounted
  LinksCounted
CHECK_DEADLOCK FALSE
