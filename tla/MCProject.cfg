SPECIFICATION FairSpec
CONSTANTS
  NoKey = NoKey
  adm = adm
  ann = ann
  bob = bob
  retrofit = retrofit
  boiler = boiler
  solar = solar
  MaxU64 = 7
  MaxU128 = 63
  Precision = 5
  Wallets = {adm, ann, bob}
  Accounts = {adm, ann, bob, retrofit}
  InitialUsdc <- TwoInvestorsUsdc
  Deployers = {adm}
  Treasuries = {adm}
  FeeChoices = {5000}
  Projects = {retrofit}
  MrvProjects = {solar}
  Investors = {ann, bob}
  SplUsers = {}
  Senders = {}
  Targets = {3}
INVARIANTS
  TypeOK
  HeldIsSold
  ActivatedSoldOut
  WithinDistributions
  ProRata
  ArithmeticNeverBlocks
  Accounting
PROPERTIES
  SharesFrozen
  EntitlementsGrow
  IsRevenueShare
  IsEagerDividends
  ClaimsGetPaid
CHECK_DEADLOCK FALSE
