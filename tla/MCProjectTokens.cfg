SPECIFICATION Spec
CONSTANTS
  NoKey = NoKey
  adm = adm
  ann = ann
  bob = bob
  retrofit = retrofit
  boiler = boiler
  solar = solar
  MaxU64 = 5
  MaxU128 = 35
  Precision = 3
  Wallets = {adm, ann}
  Accounts = {adm, ann, retrofit}
  InitialUsdc <- OneInvestorUsdc
  Deployers = {adm}
  Treasuries = {adm}
  FeeChoices = {5000}
  Projects = {retrofit}
  MrvProjects = {solar}
  Investors = {adm, ann}
  SplUsers = {ann}
  Senders = {ann}
  Targets = {2}
INVARIANTS
  SupplyWithinSold
  VaultAccounted
  Solvent
CHECK_DEADLOCK FALSE
