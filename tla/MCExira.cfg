SPECIFICATION Spec
CONSTANTS
  NoKey = NoKey
  adm = adm
  ann = ann
  bob = bob
  retrofit = retrofit
  boiler = boiler
  basket = basket
  solar = solar
  MaxU64 = 3
  MaxU128 = 15
  Precision = 2
  Wallets = {adm, ann, bob}
  Accounts = {adm, ann, bob, retrofit, boiler, basket}
  InitialUsdc <- ExiraUsdc
  Deployers = {adm}
  Treasuries = {adm}
  FeeChoices = {10000}
  Projects = {retrofit, boiler}
  Investors = {ann}
  SplUsers = {}
  Senders = {adm}
  Targets = {1}
  Pools = {basket}
  PoolInvestors = {ann, bob}
  PoolTargets = {2}
  MAX_POOL_PROJECTS_V1 = 1
  Retrofits = {solar}
  AuditorWallets = {adm}
  Periods <- OnePeriod
  MaxU8 = 0
SYMMETRY Alike
INVARIANTS
  BackedByRecord
  CountersCount
PROPERTIES
  IsProjects
  IsPools
  WorthNeverShrinks
CHECK_DEADLOCK FALSE
