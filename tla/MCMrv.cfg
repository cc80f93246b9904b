SPECIFICATION MrvFairSpec
CONSTANTS
  NoKey = NoKey
  adm = adm
  eve = eve
  joe = joe
  solar = solar
  boiler = boiler
  MaxU64 = 3
  MaxU128 = 15
  Precision = 1
  Wallets = {adm, eve, joe}
  Deployers = {adm}
  Treasuries = {adm}
  FeeChoices = {0}
  Retrofits = {solar, boiler}
  AuditorWallets = {eve, joe}
  Periods <- TwoPeriods
  MaxU8 = 2
INVARIANTS
  MrvTypeOK
  VerificationsCounted
  RecordFollowsStatus
PROPERTIES
  IsSignedRecord
  VerificationsGetAttested
CHECK_DEADLOCK FALSE
