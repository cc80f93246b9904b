SPECIFICATION PageFairSpec
CONSTANTS
  NoKey = NoKey
  adm = adm
  ann = ann
  retrofit = retrofit
  solar = solar
  k1 = k1
  k2 = k2
  MaxU64 = 2
  MaxU128 = 8
  Precision = 1
  Wallets = {adm, ann}
  Accounts = {adm, ann, retrofit}
  InitialUsdc <- PageUsdc
  Deployers = {adm}
  Treasuries = {adm}
  FeeChoices = {0}
  Projects = {retrofit}
  MrvProjects = {solar}
  Investors = {ann}
  SplUsers = {}
  Senders = {}
  Targets = {1}
  Slots <- TwoEach
  Buttons <- OwnButtons
  Amounts = {1}
  Mints = {k1, k2}
INVARIANTS
  PageKnowledgeHolds
PROPERTIES
  RetriedClaimsLand
CHECK_DEADLOCK FALSE
