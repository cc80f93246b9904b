SPECIFICATION Spec
CONSTANTS
  NoKey = NoKey
  adm = adm
  ann = ann
  bob = bob
  retrofit = retrofit
  boiler = boiler
  solar = solar
  MaxU64 = 5
  MaxU128 = 35
  Precision = 2
  Wallets = {adm, ann}
  Accounts = {adm, ann, retrofit, boiler}
  InitialUsdc <- TwoProjectsUsdc
  Deployers = {adm}
  Treasuries = {adm}
  FeeChoices = {5000}
  Projects = {retrofit, boiler}
  MrvProjects = {solar}
  Investors = {ann}
  SplUsers = {}
  Senders = {}
  Targets = {1, 2}
INVARIANTS
  VaultAccounted
  Solvent
PROPERTIES
  IsRevenueShare
CHECK_DEADLOCK FALSE
