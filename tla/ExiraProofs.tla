---------------------------- MODULE ExiraProofs ----------------------------
(***************************************************************************)
(* Proofs about the whole program: each component's specification holds of *)
(* it, and with it all that is proved of the component alone; and the      *)
(* chain from a pool to the registry, and the counters, hold across them.  *)
(***************************************************************************)
EXTENDS ExiraProperties, LedgerProofs, FiniteSetTheorems, TLAPS

\* What is proved of the registry, of the project instructions and of the
\* pool instructions alone, in the view each has of the whole program.
RegistryProofs == INSTANCE MrvProofs

ProjectsProofs == INSTANCE ProjectSafetyProofs WITH
  MrvProjects <- Retrofits,
  baselined   <- Baselined,
  platform    <- [platform EXCEPT !.pool_count = 0],
  Senders     <- Accounts \ Projects

PoolsProofs == INSTANCE PoolProofs WITH
  PoolProjects <- Projects,
  created      <- Created,
  platform     <- [platform EXCEPT !.project_count = 0],
  Donors       <- Accounts \ Pools

(***************************************************************************)
(* The registry                                                            *)
(***************************************************************************)
LEMMA RegistryGround ==
  /\ RegistryProofs!WidthAssumption
  /\ RegistryProofs!PlatformAssumption
  /\ RegistryProofs!MrvAssumption
BY WidthAssumption, PlatformAssumption, ExiraAssumption
   DEF RegistryProofs!WidthAssumption, RegistryProofs!PlatformAssumption,
       RegistryProofs!MrvAssumption, Registry!MrvAssumption

\* Whatever a step does to the platform account, it is one of these.
PlatformStep ==
  \/ UNCHANGED platform
  \/ \E a \in Deployers, t \in Treasuries, bps \in FeeChoices :
       InitializePlatform(a, t, bps)
  \/ Initialized /\ platform' = [platform EXCEPT !.project_count = SaturatingSucc(@)]
  \/ Initialized /\ platform' = [platform EXCEPT !.pool_count = SaturatingSucc(@)]

\* The administrator's and the counters' operators are the same everywhere.
LEMMA SamePlatform ==
  /\ Issue!Initialized = Initialized /\ Fund!Initialized = Initialized
  /\ Registry!Initialized = Initialized
  /\ \A a, t, bps :
       /\ Issue!InitializePlatform(a, t, bps) = InitializePlatform(a, t, bps)
       /\ Fund!InitializePlatform(a, t, bps) = InitializePlatform(a, t, bps)
       /\ Registry!InitializePlatform(a, t, bps) = InitializePlatform(a, t, bps)
  /\ \A n : Issue!SaturatingSucc(n) = SaturatingSucc(n)
            /\ Fund!SaturatingSucc(n) = SaturatingSucc(n)
<1>1. /\ Issue!Initialized = Initialized /\ Fund!Initialized = Initialized
      /\ Registry!Initialized = Initialized
  BY DEF Issue!Initialized, Fund!Initialized, Registry!Initialized, Initialized
<1>2. Issue!MAX_FEE_BPS = MAX_FEE_BPS /\ Fund!MAX_FEE_BPS = MAX_FEE_BPS
      /\ Registry!MAX_FEE_BPS = MAX_FEE_BPS
  BY DEF Issue!MAX_FEE_BPS, Fund!MAX_FEE_BPS, Registry!MAX_FEE_BPS, MAX_FEE_BPS
<1>3. ASSUME NEW a, NEW t, NEW bps
      PROVE  /\ Issue!InitializePlatform(a, t, bps) = InitializePlatform(a, t, bps)
             /\ Fund!InitializePlatform(a, t, bps) = InitializePlatform(a, t, bps)
             /\ Registry!InitializePlatform(a, t, bps) = InitializePlatform(a, t, bps)
  BY <1>1, <1>2, Zenon DEF Issue!InitializePlatform, Fund!InitializePlatform,
     Registry!InitializePlatform, InitializePlatform
<1>4. ASSUME NEW n
      PROVE  Issue!SaturatingSucc(n) = SaturatingSucc(n)
             /\ Fund!SaturatingSucc(n) = SaturatingSucc(n)
  BY DEF Issue!SaturatingSucc, Fund!SaturatingSucc, SaturatingSucc
<1> QED BY <1>1, <1>3, <1>4

LEMMA IssuePlatform == IssueNext => PlatformStep
<1> SUFFICES ASSUME IssueNext PROVE PlatformStep
  OBVIOUS
<1>1. ASSUME NEW a \in Deployers, NEW t \in Treasuries, NEW bps \in FeeChoices,
             Issue!Deploy(a, t, bps)
      PROVE  PlatformStep
  BY <1>1, SamePlatform DEF Issue!Deploy, PlatformStep
<1>2. ASSUME NEW p \in Projects, NEW m \in Retrofits, NEW target \in Targets,
             Issue!CreateProject(p, m, target)
      PROVE  PlatformStep
  BY <1>2, SamePlatform DEF Issue!CreateProject, PlatformStep
<1>3. ASSUME UNCHANGED platform PROVE PlatformStep
  BY <1>3 DEF PlatformStep
<1>4. ASSUME NEW p \in Projects, NEW amount, NEW a, NEW i, NEW to,
             \/ Issue!ActivateProject(p) \/ Issue!DistributeRepayment(p, amount)
             \/ Issue!CloseProject(p) \/ Issue!WithdrawProjectFunds(p, a, amount)
             \/ Issue!BuyProjectTokens(p, i, amount) \/ Issue!WithdrawInvestment(p, i)
             \/ Issue!ClaimProjectReturns(p, i)
             \/ Issue!SendTokens(p, a, to, amount) \/ Issue!BurnTokens(p, a, amount)
      PROVE  PlatformStep
  BY <1>3, <1>4 DEF Issue!ActivateProject, Issue!DistributeRepayment,
     Issue!CloseProject, Issue!WithdrawProjectFunds, Issue!BuyProjectTokens,
     Issue!WithdrawInvestment, Issue!ClaimProjectReturns, Issue!SendTokens,
     Issue!BurnTokens
<1>5. ASSUME NEW from, NEW to, NEW amount, Issue!SendUsdc(from, to, amount)
      PROVE  PlatformStep
  BY <1>3, <1>5 DEF Issue!SendUsdc
<1>6. CASE Issue!AdminNext
  BY <1>1, <1>2, <1>4, <1>6, Zenon DEF Issue!AdminNext
<1>7. CASE Issue!InvestorNext
  BY <1>4, <1>7, Zenon DEF Issue!InvestorNext
<1>8. CASE Issue!HolderNext
  BY <1>4, <1>5, <1>8, Zenon DEF Issue!HolderNext
<1> QED BY <1>6, <1>7, <1>8 DEF IssueNext

LEMMA FundPlatform == FundNext => PlatformStep
<1> SUFFICES ASSUME FundNext PROVE PlatformStep
  OBVIOUS
<1>1. ASSUME NEW a \in Deployers, NEW t \in Treasuries, NEW bps \in FeeChoices,
             Fund!Deploy(a, t, bps)
      PROVE  PlatformStep
  BY <1>1, SamePlatform DEF Fund!Deploy, PlatformStep
<1>2. ASSUME NEW q \in Pools, NEW target \in PoolTargets, Fund!CreatePool(q, target)
      PROVE  PlatformStep
  BY <1>2, SamePlatform DEF Fund!CreatePool, PlatformStep
<1>3. ASSUME NEW q, NEW p, NEW amount, NEW i,
             \/ Fund!AddProjectToPool(q, p) \/ Fund!DistributePoolReturns(q, amount)
             \/ Fund!BuyPoolTokens(q, i, amount) \/ Fund!ClaimPoolReturns(q, i)
      PROVE  PlatformStep
  BY <1>3 DEF Fund!AddProjectToPool, Fund!DistributePoolReturns, Fund!BuyPoolTokens,
     Fund!ClaimPoolReturns, PlatformStep
<1> QED BY <1>1, <1>2, <1>3, Zenon
        DEF FundNext, Fund!PoolAdminNext, Fund!PoolInvestorNext

LEMMA PlatformTyped ==
  ASSUME platform \in PlatformType, PlatformStep
  PROVE  platform' \in PlatformType
<1>1. \A n \in U64 : SaturatingSucc(n) \in U64
  BY WidthAssumption DEF U64, SaturatingSucc
<1>2. 0 \in U64
  BY WidthAssumption DEF U64
<1>3. ASSUME NEW a \in Deployers, NEW t \in Treasuries, NEW bps \in FeeChoices,
             InitializePlatform(a, t, bps)
      PROVE  platform' \in PlatformType
  BY <1>2, <1>3, PlatformAssumption DEF InitializePlatform, PlatformType, MAX_FEE_BPS
<1>4. ASSUME Initialized,
             \/ platform' = [platform EXCEPT !.project_count = SaturatingSucc(@)]
             \/ platform' = [platform EXCEPT !.pool_count = SaturatingSucc(@)]
      PROVE  platform' \in PlatformType
  BY <1>1, <1>4 DEF Initialized, NoPlatform, PlatformType
<1> QED BY <1>3, <1>4 DEF PlatformStep

\* The registry of the proofs is the registry of the program.
LEMMA SameRegistry ==
  /\ Registry!Init => RegistryProofs!Init
  /\ Registry!Next => RegistryProofs!Next
<1>1. Registry!Init => RegistryProofs!Init
  BY DEF Registry!Init, RegistryProofs!Init, Registry!NoPlatform,
     RegistryProofs!NoPlatform, Registry!NoMrvProject, RegistryProofs!NoMrvProject,
     Registry!Indexes, RegistryProofs!Indexes, Registry!NoVerification,
     RegistryProofs!NoVerification
<1>2. ASSUME NEW a, NEW t, NEW bps, Registry!Deploy(a, t, bps)
      PROVE  RegistryProofs!Deploy(a, t, bps)
  BY <1>2 DEF Registry!Deploy, RegistryProofs!Deploy, Registry!InitializePlatform,
     RegistryProofs!InitializePlatform, Registry!Initialized,
     RegistryProofs!Initialized, Registry!MAX_FEE_BPS, RegistryProofs!MAX_FEE_BPS
<1>3. ASSUME NEW m, Registry!RegisterMrvProject(m)
      PROVE  RegistryProofs!RegisterMrvProject(m)
  BY <1>3 DEF Registry!RegisterMrvProject, RegistryProofs!RegisterMrvProject,
     Registry!Initialized, RegistryProofs!Initialized, Registry!Registered,
     RegistryProofs!Registered, Registry!NoMrvProject, RegistryProofs!NoMrvProject
<1>4. ASSUME NEW a, Registry!AddAuditor(a)
      PROVE  RegistryProofs!AddAuditor(a)
  BY <1>4 DEF Registry!AddAuditor, RegistryProofs!AddAuditor, Registry!Initialized,
     RegistryProofs!Initialized
<1>5. ASSUME NEW a, NEW m, Registry!SubmitBaseline(a, m)
      PROVE  RegistryProofs!SubmitBaseline(a, m)
  BY <1>5 DEF Registry!SubmitBaseline, RegistryProofs!SubmitBaseline,
     Registry!Registered, RegistryProofs!Registered
<1>6. \A n : Registry!Counted(n) = RegistryProofs!Counted(n)
  BY DEF Registry!Counted, RegistryProofs!Counted
<1>7. ASSUME NEW a, NEW m, NEW k, NEW period, Registry!SubmitVerification(a, m, k, period)
      PROVE  RegistryProofs!SubmitVerification(a, m, k, period)
  BY <1>6, <1>7 DEF Registry!SubmitVerification, RegistryProofs!SubmitVerification,
     Registry!Submitted, RegistryProofs!Submitted
<1>8. ASSUME NEW a, NEW m, NEW k, Registry!AttestVerification(a, m, k)
      PROVE  RegistryProofs!AttestVerification(a, m, k)
  BY <1>8 DEF Registry!AttestVerification, RegistryProofs!AttestVerification
<1>9. Registry!Indexes = RegistryProofs!Indexes
  BY DEF Registry!Indexes, RegistryProofs!Indexes
<1> QED BY <1>1, <1>2, <1>3, <1>4, <1>5, <1>7, <1>8, <1>9, Zenon
        DEF Registry!Next, RegistryProofs!Next

LEMMA RegistryTypes ==
  /\ RegistryProofs!PlatformType = PlatformType
  /\ \A m : RegistryProofs!Registered(m) <=> Registry!Registered(m)
<1>1. RegistryProofs!NoPlatform = NoPlatform
  BY DEF RegistryProofs!NoPlatform, NoPlatform
<1>2. RegistryProofs!MAX_FEE_BPS = MAX_FEE_BPS /\ RegistryProofs!U64 = U64
  BY DEF RegistryProofs!MAX_FEE_BPS, MAX_FEE_BPS, RegistryProofs!U64, U64
<1>3. RegistryProofs!PlatformType = PlatformType
  BY <1>1, <1>2, Zenon DEF RegistryProofs!PlatformType, PlatformType
<1> QED BY <1>3 DEF RegistryProofs!Registered, Registry!Registered

\* The registry's invariant holds whatever the other instructions do.
LEMMA RegistryInvariant == Spec => []RegistryProofs!Inv
<1>1. Init => RegistryProofs!Inv
  BY SameRegistry, RegistryGround, RegistryProofs!InitInv DEF Init
<1>2. RegistryProofs!Inv /\ [Next]_exiraVars => RegistryProofs!Inv'
  <2> SUFFICES ASSUME RegistryProofs!Inv, [Next]_exiraVars PROVE RegistryProofs!Inv'
    OBVIOUS
  <2>1. platform \in PlatformType
    BY RegistryTypes DEF RegistryProofs!Inv, RegistryProofs!MrvTypeOK
  <2>2. auditors \subseteq AuditorWallets
    BY DEF RegistryProofs!Inv, RegistryProofs!MrvTypeOK
  <2>3. ASSUME UNCHANGED registryVars, platform' \in PlatformType
        PROVE  RegistryProofs!Inv'
    BY <2>2, <2>3, RegistryGround, RegistryTypes, RegistryProofs!RecordFrame
       DEF registryVars
  <2>4. CASE IssueNext
    BY <2>1, <2>3, <2>4, IssuePlatform, PlatformTyped DEF IssueNext, registryVars
  <2>5. CASE FundNext
    BY <2>1, <2>3, <2>5, FundPlatform, PlatformTyped DEF FundNext, registryVars
  <2>6. CASE RegistryNext
    BY <2>6, SameRegistry, RegistryGround, RegistryProofs!StepInv DEF RegistryNext
  <2>7. CASE UNCHANGED exiraVars
    BY <2>1, <2>3, <2>7 DEF exiraVars, registryVars
  <2> QED BY <2>4, <2>5, <2>6, <2>7 DEF Next
<1> QED BY <1>1, <1>2, PTL DEF Spec

(***************************************************************************)
(* The whole program as projects see it                                    *)
(***************************************************************************)
\* What the operators of a project compute does not depend on the view.
LEMMA SameArithmetic ==
  /\ \A p : Issue!Exists(p) = ProjectsView!Exists(p)
  /\ \A m, target : Issue!NewProject(m, target) = ProjectsView!NewProject(m, target)
  /\ \A n : SaturatingSucc(n) = ProjectsView!SaturatingSucc(n)
  /\ \A x, amount : Issue!DistributionFits(x, amount) = ProjectsView!DistributionFits(x, amount)
  /\ \A x, amount : Issue!AfterDistribution(x, amount) = ProjectsView!AfterDistribution(x, amount)
  /\ \A pos, i, cum, amount :
       Issue!AfterBuy(pos, i, cum, amount) = ProjectsView!AfterBuy(pos, i, cum, amount)
  /\ \A pos, cum : Issue!Owed(pos, cum) = ProjectsView!Owed(pos, cum)
  /\ \A pos, cum : Issue!ClaimFits(pos, cum) = ProjectsView!ClaimFits(pos, cum)
  /\ \A pos, cum : Issue!AfterClaim(pos, cum) = ProjectsView!AfterClaim(pos, cum)
<1>1. \A p : Issue!Exists(p) = ProjectsView!Exists(p)
  BY DEF Issue!Exists, ProjectsView!Exists
<1>2. \A m, target : Issue!NewProject(m, target) = ProjectsView!NewProject(m, target)
  BY DEF Issue!NewProject, ProjectsView!NewProject
<1>3. \A n : SaturatingSucc(n) = ProjectsView!SaturatingSucc(n)
  BY DEF SaturatingSucc, ProjectsView!SaturatingSucc
<1>4. \A amount, sold : Issue!DeltaPerToken(amount, sold) = ProjectsView!DeltaPerToken(amount, sold)
  BY DEF Issue!DeltaPerToken, ProjectsView!DeltaPerToken
<1>5. Issue!U64 = ProjectsView!U64 /\ Issue!U128 = ProjectsView!U128
  BY DEF Issue!U64, ProjectsView!U64, Issue!U128, ProjectsView!U128
<1>6. \A x, amount : Issue!DistributionFits(x, amount) = ProjectsView!DistributionFits(x, amount)
  BY <1>4, <1>5, Zenon DEF Issue!DistributionFits, ProjectsView!DistributionFits
<1>7. \A x, amount : Issue!AfterDistribution(x, amount) = ProjectsView!AfterDistribution(x, amount)
  BY <1>4, Zenon DEF Issue!AfterDistribution, ProjectsView!AfterDistribution
<1>8. \A pos, i, cum, amount :
        Issue!AfterBuy(pos, i, cum, amount) = ProjectsView!AfterBuy(pos, i, cum, amount)
  BY Zenon DEF Issue!AfterBuy, ProjectsView!AfterBuy, Issue!Opened, ProjectsView!Opened
<1>9. \A pos, cum : Issue!Owed(pos, cum) = ProjectsView!Owed(pos, cum)
  BY DEF Issue!Owed, ProjectsView!Owed, Issue!OwedScaled, ProjectsView!OwedScaled
<1>10. \A pos, cum : Issue!OwedScaled(pos, cum) = ProjectsView!OwedScaled(pos, cum)
  BY DEF Issue!OwedScaled, ProjectsView!OwedScaled
<1>11. \A pos, cum : Issue!ClaimFits(pos, cum) = ProjectsView!ClaimFits(pos, cum)
  BY <1>5, <1>9, <1>10, Zenon DEF Issue!ClaimFits, ProjectsView!ClaimFits
<1>12. \A pos, cum : Issue!AfterClaim(pos, cum) = ProjectsView!AfterClaim(pos, cum)
  BY <1>9, Zenon DEF Issue!AfterClaim, ProjectsView!AfterClaim
<1> QED BY <1>1, <1>2, <1>3, <1>6, <1>7, <1>8, <1>9, <1>11, <1>12

\* The same of the predicates of its handlers, and of what they do to USDC.
LEMMA SameProject ==
  /\ \A p : /\ Issue!FullySold(p) = ProjectsView!FullySold(p)
            /\ Issue!Repayable(p) = ProjectsView!Repayable(p)
            /\ Issue!Refundable(p) = ProjectsView!Refundable(p)
            /\ Issue!Receives(p) = ProjectsView!Receives(p)
  /\ \A p, i : Issue!Due(p, i) = ProjectsView!Due(p, i)
  /\ \A p, i, amount : Issue!Burned(p, i, amount) = ProjectsView!Burned(p, i, amount)
  /\ \A a, b, amount : /\ Issue!Moved(a, b, amount) = ProjectsView!Moved(a, b, amount)
                       /\ Issue!Transfer(a, b, amount) = ProjectsView!Transfer(a, b, amount)
                       /\ Fund!Transfer(a, b, amount) = ProjectsView!Transfer(a, b, amount)
<1>1. \A p, i : Issue!Due(p, i) = ProjectsView!Due(p, i)
  BY SameArithmetic, Zenon DEF Issue!Due, ProjectsView!Due
<1>2. \A p : Issue!Receives(p) = ProjectsView!Receives(p)
  BY SameArithmetic, Zenon DEF Issue!Receives, ProjectsView!Receives
<1>3. \A p : /\ Issue!FullySold(p) = ProjectsView!FullySold(p)
             /\ Issue!Repayable(p) = ProjectsView!Repayable(p)
             /\ Issue!Refundable(p) = ProjectsView!Refundable(p)
  BY DEF Issue!FullySold, ProjectsView!FullySold, Issue!Repayable,
     ProjectsView!Repayable, Issue!Refundable, ProjectsView!Refundable
<1>4. \A p, i, amount : Issue!Burned(p, i, amount) = ProjectsView!Burned(p, i, amount)
  BY DEF Issue!Burned, ProjectsView!Burned
<1>5. \A a, b, amount :
        /\ Issue!Moved(a, b, amount) = ProjectsView!Moved(a, b, amount)
        /\ Issue!Transfer(a, b, amount) = ProjectsView!Transfer(a, b, amount)
        /\ Fund!Transfer(a, b, amount) = ProjectsView!Transfer(a, b, amount)
  BY Zenon DEF Issue!Moved, ProjectsView!Moved, Issue!Transfer, ProjectsView!Transfer,
     Fund!Transfer
<1> QED BY <1>1, <1>2, <1>3, <1>4, <1>5

\* The platform account as projects see it.
Seen == [platform EXCEPT !.pool_count = 0]

LEMMA SeenPlatform ==
  ASSUME platform \in PlatformType
  PROVE  /\ Seen.admin = platform.admin /\ Seen.treasury = platform.treasury
         /\ Seen.origination_fee_bps = platform.origination_fee_bps
         /\ Seen.project_count = platform.project_count
         /\ ProjectsView!Initialized <=> Initialized
         /\ \A target : ProjectsView!OriginationFee(target) = Issue!OriginationFee(target)
<1>1. /\ Seen.admin = platform.admin /\ Seen.treasury = platform.treasury
      /\ Seen.origination_fee_bps = platform.origination_fee_bps
      /\ Seen.project_count = platform.project_count
  BY DEF Seen, PlatformType, NoPlatform
<1>2. ProjectsView!Initialized <=> Initialized
  BY <1>1 DEF ProjectsView!Initialized, Initialized, Seen
<1>3. ProjectsView!MAX_FEE_BPS = Issue!MAX_FEE_BPS
  BY DEF ProjectsView!MAX_FEE_BPS, Issue!MAX_FEE_BPS
<1>4. \A target : ProjectsView!OriginationFee(target) = Issue!OriginationFee(target)
  BY <1>1, <1>3 DEF ProjectsView!OriginationFee, Issue!OriginationFee, Seen
<1> QED BY <1>1, <1>2, <1>4

\* What steps do to it: a new project is counted, a new pool is not.
LEMMA SeenSteps ==
  ASSUME platform \in PlatformType
  PROVE  /\ UNCHANGED platform => UNCHANGED Seen
         /\ \A a \in Deployers, t \in Treasuries, bps \in FeeChoices :
              InitializePlatform(a, t, bps) => ProjectsView!InitializePlatform(a, t, bps)
         /\ platform' = [platform EXCEPT !.project_count = SaturatingSucc(@)] =>
              Seen' = [Seen EXCEPT !.project_count = SaturatingSucc(@)]
         /\ platform' = [platform EXCEPT !.pool_count = SaturatingSucc(@)] =>
              Seen' = Seen
<1>1. UNCHANGED platform => UNCHANGED Seen
  BY DEF Seen
<1>2. ASSUME NEW a \in Deployers, NEW t \in Treasuries, NEW bps \in FeeChoices,
             InitializePlatform(a, t, bps)
      PROVE  ProjectsView!InitializePlatform(a, t, bps)
  BY <1>2, SeenPlatform DEF InitializePlatform, ProjectsView!InitializePlatform,
     ProjectsView!MAX_FEE_BPS, MAX_FEE_BPS
<1>3. ASSUME NEW n, NEW k
      PROVE  /\ platform' = [platform EXCEPT !.project_count = n] =>
                  Seen' = [Seen EXCEPT !.project_count = n]
             /\ platform' = [platform EXCEPT !.pool_count = k] => Seen' = Seen
  BY DEF Seen, PlatformType, NoPlatform
<1>4. Seen.project_count = platform.project_count
  BY SeenPlatform
<1> QED BY <1>1, <1>2, <1>3, <1>4

\* Every project instruction, and every direct use of the token program, is
\* one of the projects' own steps.
LEMMA IssueRefines ==
  ASSUME platform \in PlatformType, IssueNext
  PROVE  /\ ProjectsView!Next
         /\ Issue!AdminNext => ProjectsView!AdminNext
         /\ Issue!InvestorNext => ProjectsView!InvestorNext
<1>1. ASSUME NEW a \in Deployers, NEW t \in Treasuries, NEW bps \in FeeChoices,
             Issue!Deploy(a, t, bps)
      PROVE  ProjectsView!Deploy(a, t, bps)
  BY <1>1, SamePlatform, SeenSteps DEF Issue!Deploy, ProjectsView!Deploy
<1>2. ASSUME NEW p \in Projects, NEW m \in Retrofits, NEW target \in Targets,
             Issue!CreateProject(p, m, target)
      PROVE  ProjectsView!CreateProject(p, m, target)
  <2>1. /\ Seen' = [Seen EXCEPT !.project_count = ProjectsView!SaturatingSucc(@)]
        /\ ProjectsView!Initialized
    BY <1>2, SamePlatform, SeenSteps, SeenPlatform, SameArithmetic DEF Issue!CreateProject
  <2> QED BY <1>2, <2>1, SameArithmetic DEF Issue!CreateProject, ProjectsView!CreateProject, Seen
<1>3. ASSUME UNCHANGED platform PROVE UNCHANGED Seen
  BY <1>3, SeenSteps
<1>4. ASSUME NEW p \in Projects, Issue!ActivateProject(p)
      PROVE  ProjectsView!ActivateProject(p)
  <2>1. /\ ProjectsView!Initialized /\ UNCHANGED Seen
        /\ Seen.treasury = platform.treasury
        /\ ProjectsView!OriginationFee(project[p].target_amount)
             = Issue!OriginationFee(project[p].target_amount)
    BY <1>3, <1>4, SamePlatform, SeenPlatform DEF Issue!ActivateProject
  <2> QED BY <1>4, <2>1, SameProject DEF Issue!ActivateProject, ProjectsView!ActivateProject, Seen
<1>5. ASSUME NEW p \in Projects, NEW amount \in U64, Issue!DistributeRepayment(p, amount)
      PROVE  ProjectsView!DistributeRepayment(p, amount)
  <2>1. /\ ProjectsView!Initialized /\ UNCHANGED Seen
        /\ Seen.admin = platform.admin
    BY <1>3, <1>5, SamePlatform, SeenPlatform DEF Issue!DistributeRepayment
  <2> QED BY <1>5, <2>1, SameArithmetic, SameProject
          DEF Issue!DistributeRepayment, ProjectsView!DistributeRepayment, Seen
<1>6. ASSUME NEW p \in Projects, Issue!CloseProject(p)
      PROVE  ProjectsView!CloseProject(p)
  BY <1>3, <1>6, SamePlatform, SeenPlatform, SameProject
     DEF Issue!CloseProject, ProjectsView!CloseProject, Seen
<1>7. ASSUME NEW p \in Projects, NEW a \in Accounts, NEW amount \in U64,
             Issue!WithdrawProjectFunds(p, a, amount)
      PROVE  ProjectsView!WithdrawProjectFunds(p, a, amount)
  BY <1>3, <1>7, SamePlatform, SeenPlatform, SameProject, SameArithmetic
     DEF Issue!WithdrawProjectFunds, ProjectsView!WithdrawProjectFunds, Seen
<1>8. ASSUME NEW p \in Projects, NEW i \in Investors, NEW amount \in U64,
             Issue!BuyProjectTokens(p, i, amount)
      PROVE  ProjectsView!BuyProjectTokens(p, i, amount)
  <2>1. UNCHANGED Seen /\ Issue!U64 = ProjectsView!U64
    BY <1>3, <1>8 DEF Issue!BuyProjectTokens, Issue!U64, ProjectsView!U64
  <2> QED BY <1>8, <2>1, SameProject, SameArithmetic
          DEF Issue!BuyProjectTokens, ProjectsView!BuyProjectTokens, Seen
<1>9. ASSUME NEW p \in Projects, NEW i \in Investors, Issue!WithdrawInvestment(p, i)
      PROVE  ProjectsView!WithdrawInvestment(p, i)
  <2>1. UNCHANGED Seen
    BY <1>3, <1>9 DEF Issue!WithdrawInvestment
  <2> QED BY <1>9, <2>1, SameProject
          DEF Issue!WithdrawInvestment, ProjectsView!WithdrawInvestment, Seen
<1>10. ASSUME NEW p \in Projects, NEW i \in Investors, Issue!ClaimProjectReturns(p, i)
       PROVE  ProjectsView!ClaimProjectReturns(p, i)
  <2>1. UNCHANGED Seen
    BY <1>3, <1>10 DEF Issue!ClaimProjectReturns
  <2> QED BY <1>10, <2>1, SameProject, SameArithmetic
          DEF Issue!ClaimProjectReturns, ProjectsView!ClaimProjectReturns, Seen
<1>11. ASSUME NEW p \in Projects, NEW from, NEW to, NEW amount,
              Issue!SendTokens(p, from, to, amount)
       PROVE  ProjectsView!SendTokens(p, from, to, amount)
  BY <1>3, <1>11 DEF Issue!SendTokens, ProjectsView!SendTokens, Seen
<1>12. ASSUME NEW p \in Projects, NEW from, NEW amount, Issue!BurnTokens(p, from, amount)
       PROVE  ProjectsView!BurnTokens(p, from, amount)
  BY <1>3, <1>12, SameProject DEF Issue!BurnTokens, ProjectsView!BurnTokens, Seen
<1>13. ASSUME NEW from, NEW to, NEW amount, Issue!SendUsdc(from, to, amount)
       PROVE  ProjectsView!SendUsdc(from, to, amount)
  BY <1>3, <1>13, SameProject DEF Issue!SendUsdc, ProjectsView!SendUsdc, Seen
<1>14. Senders \subseteq Accounts \ Projects /\ Issue!U64 = U64 /\ ProjectsView!U64 = U64
  BY ExiraAssumption DEF Issue!ProjectAssumption, Issue!U64, ProjectsView!U64, U64
<1>15. Issue!AdminNext => ProjectsView!AdminNext
  BY <1>1, <1>2, <1>4, <1>5, <1>6, <1>7, <1>14, Zenon
     DEF Issue!AdminNext, ProjectsView!AdminNext
<1>16. Issue!InvestorNext => ProjectsView!InvestorNext
  BY <1>8, <1>9, <1>10, <1>14, Zenon
     DEF Issue!InvestorNext, ProjectsView!InvestorNext
<1>17. Issue!HolderNext => ProjectsView!HolderNext
  BY <1>11, <1>12, <1>13, <1>14, Zenon
     DEF Issue!HolderNext, ProjectsView!HolderNext
<1> QED BY <1>15, <1>16, <1>17
        DEF IssueNext, ProjectsView!Next, ProjectsView!ExternalNext

\* The sets the components are made of are apart.
LEMMA Apart ==
  /\ Pools \subseteq Accounts \ Projects /\ Projects \subseteq Accounts \ Pools
  /\ Wallets \subseteq Accounts \ Projects /\ Wallets \subseteq Accounts \ Pools
  /\ Investors \subseteq Wallets /\ PoolInvestors \subseteq Wallets
BY ExiraAssumption, LedgerAssumption DEF Issue!ProjectAssumption, Fund!PoolAssumption

LEMMA SameWidths ==
  /\ Issue!U64 = U64 /\ ProjectsView!U64 = U64 /\ Fund!U64 = U64
  /\ U64 \subseteq Nat /\ U64 \subseteq Int
BY WidthAssumption DEF Issue!U64, ProjectsView!U64, Fund!U64, U64

\* The administrator is a wallet once there is one.
LEMMA AdminIsWallet ==
  ASSUME platform \in PlatformType, Initialized
  PROVE  platform.admin \in Wallets /\ platform.treasury \in Wallets
BY DEF PlatformType, NoPlatform, Initialized

\* USDC that moves without the project instructions is a transfer from
\* outside, and no disbursement.
LEMMA OutsideTransfer ==
  ASSUME platform \in PlatformType, disbursed \in [Projects -> Int],
         NEW from \in Accounts \ Projects, NEW to \in Accounts \ Projects,
         NEW amount \in U64, amount > 0, ProjectsView!Transfer(from, to, amount),
         UNCHANGED <<platform, issueVars, mrv>>
  PROVE  ProjectsView!Next
<1>1. UNCHANGED Seen
  BY DEF Seen
<1>2. UNCHANGED Baselined
  BY DEF Baselined
<1>3. ProjectsView!Receives(to)
  BY DEF ProjectsView!Receives
<1>4. disbursed' = ProjectsView!Moved(from, to, amount)
  <2>1. UNCHANGED disbursed
    BY DEF issueVars
  <2>2. ProjectsView!Moved(from, to, amount) = [q \in Projects |-> disbursed[q] + 0 - 0]
    BY DEF ProjectsView!Moved
  <2>3. \A q \in Projects : disbursed[q] + 0 - 0 = disbursed[q]
    OBVIOUS
  <2> QED BY <2>1, <2>2, <2>3
<1>5. ProjectsView!SendUsdc(from, to, amount)
  BY <1>1, <1>2, <1>3, <1>4 DEF ProjectsView!SendUsdc, Seen, issueVars
<1>6. ProjectsView!HolderNext
  BY <1>5, SameWidths DEF ProjectsView!HolderNext
<1> QED BY <1>6 DEF ProjectsView!Next, ProjectsView!ExternalNext

\* To projects, what pools do is nothing, or USDC sent by others.
LEMMA FundRefines ==
  ASSUME platform \in PlatformType, disbursed \in [Projects -> Int], FundNext
  PROVE  [ProjectsView!Next]_ProjectsView!vars
<1>1. UNCHANGED issueVars /\ UNCHANGED mrv /\ UNCHANGED Baselined
  BY DEF FundNext, registryVars, Baselined
<1>2. ASSUME UNCHANGED usdc, UNCHANGED Seen PROVE UNCHANGED ProjectsView!vars
  BY <1>1, <1>2 DEF ProjectsView!vars, issueVars, Seen
<1>3. ASSUME NEW a \in Deployers, NEW t \in Treasuries, NEW bps \in FeeChoices,
             Fund!Deploy(a, t, bps)
      PROVE  ProjectsView!Deploy(a, t, bps)
  BY <1>1, <1>3, SamePlatform, SeenSteps DEF Fund!Deploy, ProjectsView!Deploy, issueVars
<1>4. ASSUME NEW q \in Pools, NEW target \in PoolTargets, Fund!CreatePool(q, target)
      PROVE  UNCHANGED ProjectsView!vars
  BY <1>2, <1>4, SamePlatform, SeenSteps DEF Fund!CreatePool
<1>5. ASSUME NEW q \in Pools, NEW p \in Projects, Fund!AddProjectToPool(q, p)
      PROVE  UNCHANGED ProjectsView!vars
  BY <1>2, <1>5, SeenSteps DEF Fund!AddProjectToPool
<1>6. ASSUME NEW q \in Pools, NEW amount \in U64, Fund!DistributePoolReturns(q, amount)
      PROVE  ProjectsView!Next
  BY <1>1, <1>6, SamePlatform, SameProject, AdminIsWallet, Apart, OutsideTransfer
     DEF Fund!DistributePoolReturns
<1>7. ASSUME NEW q \in Pools, NEW i \in PoolInvestors, NEW amount \in U64,
             Fund!BuyPoolTokens(q, i, amount)
      PROVE  ProjectsView!Next
  BY <1>1, <1>7, SameProject, Apart, OutsideTransfer DEF Fund!BuyPoolTokens
<1>8. ASSUME NEW q \in Pools, NEW i \in PoolInvestors, Fund!ClaimPoolReturns(q, i)
      PROVE  ProjectsView!Next
  <2>1. Fund!PoolDue(q, i) \in U64 /\ Fund!PoolDue(q, i) > 0
    BY <1>8, SameWidths DEF Fund!ClaimPoolReturns, Fund!ClaimFits, Fund!PoolDue
  <2> QED BY <1>1, <1>8, <2>1, SameProject, Apart, OutsideTransfer
          DEF Fund!ClaimPoolReturns
<1>9. ASSUME NEW a \in Deployers, NEW t \in Treasuries, NEW bps \in FeeChoices,
             ProjectsView!Deploy(a, t, bps)
      PROVE  ProjectsView!Next
  BY <1>9 DEF ProjectsView!Next, ProjectsView!AdminNext
<1>10. CASE Fund!PoolAdminNext
  BY <1>3, <1>4, <1>5, <1>6, <1>9, <1>10, SameWidths, Zenon DEF Fund!PoolAdminNext
<1>11. CASE Fund!PoolInvestorNext
  BY <1>7, <1>8, <1>11, SameWidths, Zenon DEF Fund!PoolInvestorNext
<1> QED BY <1>10, <1>11 DEF FundNext

\* To projects, what the registry does is a baseline submitted, once per
\* retrofit, and nothing else: registering a retrofit clears no flag.
LEMMA RegistryRefines ==
  ASSUME RegistryProofs!Inv, RegistryNext
  PROVE  [ProjectsView!Next]_ProjectsView!vars
<1>1. UNCHANGED <<usdc, issueVars>> /\ platform \in PlatformType
      /\ RegistryProofs!MrvTypeOK /\ RegistryProofs!BlankUntilRegistered
  BY RegistryTypes DEF RegistryNext, RegistryProofs!Inv, RegistryProofs!MrvTypeOK
<1>2. ASSUME UNCHANGED platform, UNCHANGED Baselined PROVE UNCHANGED ProjectsView!vars
  BY <1>1, <1>2, SeenSteps DEF ProjectsView!vars, issueVars, Seen
<1>3. mrv \in [Retrofits ->
        [status : {"Absent", "Registered", "BaselineSubmitted", "InProgress"},
         baseline_submitted : BOOLEAN, verification_count : 0 .. MaxU8]]
  BY <1>1 DEF RegistryProofs!MrvTypeOK
<1>4. ASSUME NEW a \in Deployers, NEW t \in Treasuries, NEW bps \in FeeChoices,
             Registry!Deploy(a, t, bps)
      PROVE  ProjectsView!Next
  <2>1. UNCHANGED Baselined
    BY <1>4 DEF Registry!Deploy, Baselined
  <2>2. ProjectsView!Deploy(a, t, bps)
    BY <1>1, <1>4, <2>1, SamePlatform, SeenSteps
       DEF Registry!Deploy, ProjectsView!Deploy, issueVars
  <2> QED BY <2>2 DEF ProjectsView!Next, ProjectsView!AdminNext
<1>5. ASSUME NEW m \in Retrofits, Registry!RegisterMrvProject(m)
      PROVE  UNCHANGED ProjectsView!vars
  <2>1. /\ mrv' = [mrv EXCEPT ![m] = [Registry!NoMrvProject EXCEPT !.status = "Registered"]]
        /\ UNCHANGED platform /\ mrv[m] = RegistryProofs!NoMrvProject
    BY <1>1, <1>5, RegistryTypes
       DEF Registry!RegisterMrvProject, RegistryProofs!BlankUntilRegistered
  <2>2. ~mrv[m].baseline_submitted
    BY <2>1 DEF RegistryProofs!NoMrvProject
  <2>3. ~mrv'[m].baseline_submitted
    BY <1>3, <2>1 DEF Registry!NoMrvProject
  <2>4. \A r \in Retrofits \ {m} : mrv'[r] = mrv[r]
    BY <1>3, <2>1
  <2>5. UNCHANGED Baselined
    BY <2>2, <2>3, <2>4 DEF Baselined
  <2> QED BY <1>2, <2>1, <2>5
<1>6. ASSUME NEW a \in AuditorWallets, NEW m \in Retrofits, Registry!SubmitBaseline(a, m)
      PROVE  ProjectsView!Next
  <2>1. /\ m \notin Baselined
        /\ mrv' = [mrv EXCEPT ![m].baseline_submitted = TRUE,
                              ![m].status = "BaselineSubmitted"]
        /\ UNCHANGED platform
    BY <1>6 DEF Registry!SubmitBaseline, Baselined
  <2>2. /\ mrv'[m].baseline_submitted
        /\ \A r \in Retrofits \ {m} : mrv'[r] = mrv[r]
    BY <1>3, <2>1
  <2>3. Baselined' = Baselined \cup {m}
    BY <2>2 DEF Baselined
  <2>4. ProjectsView!BaselineSubmitted(m)
    BY <1>1, <2>1, <2>3, SeenSteps DEF ProjectsView!BaselineSubmitted, issueVars, Seen
  <2> QED BY <2>4 DEF ProjectsView!Next, ProjectsView!ExternalNext
<1>7. ASSUME UNCHANGED platform,
             \A m \in Retrofits : mrv'[m].baseline_submitted <=> mrv[m].baseline_submitted
      PROVE  UNCHANGED ProjectsView!vars
  BY <1>2, <1>7 DEF Baselined
<1>8. ASSUME NEW a \in AuditorWallets, NEW m \in Retrofits, NEW k \in Registry!Indexes,
             NEW period \in Periods, Registry!SubmitVerification(a, m, k, period)
      PROVE  UNCHANGED ProjectsView!vars
  <2>1. /\ mrv' = [mrv EXCEPT ![m].verification_count = Registry!Counted(@),
                              ![m].status = "InProgress"]
        /\ UNCHANGED platform
    BY <1>8 DEF Registry!SubmitVerification
  <2> QED BY <1>3, <1>7, <2>1
<1>9. ASSUME NEW a, NEW m, NEW k,
             Registry!AddAuditor(a) \/ Registry!AttestVerification(a, m, k)
      PROVE  UNCHANGED ProjectsView!vars
  BY <1>7, <1>9 DEF Registry!AddAuditor, Registry!AttestVerification
<1> QED BY <1>4, <1>5, <1>6, <1>8, <1>9, Zenon DEF RegistryNext, Registry!Next

\* The projects of the proofs are the projects of the program.
LEMMA SameViewArithmetic ==
  /\ ProjectsView!U64 = ProjectsProofs!U64
  /\ \A x, amount :
       /\ ProjectsView!DistributionFits(x, amount) = ProjectsProofs!DistributionFits(x, amount)
       /\ ProjectsView!AfterDistribution(x, amount) = ProjectsProofs!AfterDistribution(x, amount)
  /\ \A pos, i, cum, amount :
       ProjectsView!AfterBuy(pos, i, cum, amount) = ProjectsProofs!AfterBuy(pos, i, cum, amount)
  /\ \A pos, cum :
       /\ ProjectsView!Owed(pos, cum) = ProjectsProofs!Owed(pos, cum)
       /\ ProjectsView!ClaimFits(pos, cum) = ProjectsProofs!ClaimFits(pos, cum)
       /\ ProjectsView!AfterClaim(pos, cum) = ProjectsProofs!AfterClaim(pos, cum)
  /\ \A a, b, amount : ProjectsView!Transfer(a, b, amount) = ProjectsProofs!Transfer(a, b, amount)
  /\ ProjectsView!Initialized <=> ProjectsProofs!Initialized
  /\ ProjectsView!MAX_FEE_BPS = ProjectsProofs!MAX_FEE_BPS
  /\ \A target : ProjectsView!OriginationFee(target) = ProjectsProofs!OriginationFee(target)
  /\ \A p : ProjectsView!Exists(p) <=> ProjectsProofs!Exists(p)
  /\ \A p, i, amount : ProjectsView!Burned(p, i, amount) = ProjectsProofs!Burned(p, i, amount)
  /\ \A a, b, amount : ProjectsView!Moved(a, b, amount) = ProjectsProofs!Moved(a, b, amount)
<1>1. ProjectsView!U64 = ProjectsProofs!U64 /\ ProjectsView!U128 = ProjectsProofs!U128
  BY DEF ProjectsView!U64, ProjectsProofs!U64, ProjectsView!U128,
         ProjectsProofs!U128
<1>2. \A amount, sold :
        ProjectsView!DeltaPerToken(amount, sold) = ProjectsProofs!DeltaPerToken(amount, sold)
  BY DEF ProjectsView!DeltaPerToken, ProjectsProofs!DeltaPerToken
<1>3. \A pos, cum : ProjectsView!OwedScaled(pos, cum) = ProjectsProofs!OwedScaled(pos, cum)
  BY DEF ProjectsView!OwedScaled, ProjectsProofs!OwedScaled
<1>4. \A pos, cum : ProjectsView!Owed(pos, cum) = ProjectsProofs!Owed(pos, cum)
  BY <1>3, Zenon DEF ProjectsView!Owed, ProjectsProofs!Owed
<1>5. \A x, amount :
        /\ ProjectsView!DistributionFits(x, amount) = ProjectsProofs!DistributionFits(x, amount)
        /\ ProjectsView!AfterDistribution(x, amount) = ProjectsProofs!AfterDistribution(x, amount)
  BY <1>1, <1>2, Zenon
     DEF ProjectsView!DistributionFits, ProjectsProofs!DistributionFits,
         ProjectsView!AfterDistribution, ProjectsProofs!AfterDistribution
<1>6. \A pos, cum :
        /\ ProjectsView!ClaimFits(pos, cum) = ProjectsProofs!ClaimFits(pos, cum)
        /\ ProjectsView!AfterClaim(pos, cum) = ProjectsProofs!AfterClaim(pos, cum)
  BY <1>1, <1>3, <1>4, Zenon
     DEF ProjectsView!ClaimFits, ProjectsProofs!ClaimFits,
         ProjectsView!AfterClaim, ProjectsProofs!AfterClaim
<1>7. \A pos, i, cum, amount :
        ProjectsView!AfterBuy(pos, i, cum, amount) = ProjectsProofs!AfterBuy(pos, i, cum, amount)
  BY Zenon
     DEF ProjectsView!AfterBuy, ProjectsProofs!AfterBuy, ProjectsView!Opened,
         ProjectsProofs!Opened
<1>8. /\ \A a, b, amount :
             /\ ProjectsView!Transfer(a, b, amount) = ProjectsProofs!Transfer(a, b, amount)
             /\ ProjectsView!Moved(a, b, amount) = ProjectsProofs!Moved(a, b, amount)
      /\ ProjectsView!Initialized <=> ProjectsProofs!Initialized
      /\ \A p : ProjectsView!Exists(p) <=> ProjectsProofs!Exists(p)
      /\ \A p, i, amount : ProjectsView!Burned(p, i, amount) = ProjectsProofs!Burned(p, i, amount)
  BY Zenon
     DEF ProjectsView!Transfer, ProjectsProofs!Transfer, ProjectsView!Moved,
         ProjectsProofs!Moved, ProjectsView!Initialized,
         ProjectsProofs!Initialized, ProjectsView!Exists,
         ProjectsProofs!Exists, ProjectsView!Burned, ProjectsProofs!Burned
<1>9. ProjectsView!MAX_FEE_BPS = ProjectsProofs!MAX_FEE_BPS
  BY DEF ProjectsView!MAX_FEE_BPS, ProjectsProofs!MAX_FEE_BPS
<1>10. \A target : ProjectsView!OriginationFee(target) = ProjectsProofs!OriginationFee(target)
  BY <1>9, Zenon DEF ProjectsView!OriginationFee, ProjectsProofs!OriginationFee
<1> QED BY <1>1, <1>4, <1>5, <1>6, <1>7, <1>8, <1>9, <1>10

LEMMA SameView ==
  /\ ProjectsView!Init => ProjectsProofs!Init
  /\ [ProjectsView!Next]_ProjectsView!vars => [ProjectsProofs!Next]_ProjectsProofs!vars
  /\ ProjectsView!AdminNext => ProjectsProofs!AdminNext
  /\ ProjectsView!InvestorNext => ProjectsProofs!InvestorNext
<1>1. ProjectsView!Init => ProjectsProofs!Init
  BY Zenon
     DEF ProjectsView!Init, ProjectsProofs!Init, ProjectsView!NoPlatform,
         ProjectsProofs!NoPlatform, ProjectsView!NoProject,
         ProjectsProofs!NoProject, ProjectsView!NoPosition,
         ProjectsProofs!NoPosition
<1>2. UNCHANGED ProjectsView!vars => UNCHANGED ProjectsProofs!vars
  BY DEF ProjectsView!vars, ProjectsProofs!vars
<1>3. ASSUME NEW a, NEW t, NEW bps, ProjectsView!Deploy(a, t, bps)
      PROVE  ProjectsProofs!Deploy(a, t, bps)
  BY <1>3, SameViewArithmetic, Zenon
     DEF ProjectsView!Deploy, ProjectsProofs!Deploy,
         ProjectsView!InitializePlatform, ProjectsProofs!InitializePlatform
<1>4. ASSUME NEW p, NEW m, NEW target, ProjectsView!CreateProject(p, m, target)
      PROVE  ProjectsProofs!CreateProject(p, m, target)
  BY <1>4, SameViewArithmetic, Zenon
     DEF ProjectsView!CreateProject, ProjectsProofs!CreateProject,
         ProjectsView!NewProject, ProjectsProofs!NewProject,
         ProjectsView!SaturatingSucc, ProjectsProofs!SaturatingSucc
<1>5. ASSUME NEW p, ProjectsView!ActivateProject(p)
      PROVE  ProjectsProofs!ActivateProject(p)
  BY <1>5, SameViewArithmetic, Zenon
     DEF ProjectsView!ActivateProject, ProjectsProofs!ActivateProject,
         ProjectsView!FullySold, ProjectsProofs!FullySold
<1>6. ASSUME NEW p, NEW amount, ProjectsView!DistributeRepayment(p, amount)
      PROVE  ProjectsProofs!DistributeRepayment(p, amount)
  BY <1>6, SameViewArithmetic, Zenon
     DEF ProjectsView!DistributeRepayment, ProjectsProofs!DistributeRepayment,
         ProjectsView!Repayable, ProjectsProofs!Repayable
<1>7. ASSUME NEW p, ProjectsView!CloseProject(p)
      PROVE  ProjectsProofs!CloseProject(p)
  BY <1>7, SameViewArithmetic, Zenon
     DEF ProjectsView!CloseProject, ProjectsProofs!CloseProject,
         ProjectsView!Repayable, ProjectsProofs!Repayable
<1>8. ASSUME NEW p, NEW a, NEW amount, ProjectsView!WithdrawProjectFunds(p, a, amount)
      PROVE  ProjectsProofs!WithdrawProjectFunds(p, a, amount)
  BY <1>8, SameViewArithmetic, Zenon
     DEF ProjectsView!WithdrawProjectFunds,
         ProjectsProofs!WithdrawProjectFunds, ProjectsView!Receives,
         ProjectsProofs!Receives
<1>9. ASSUME NEW p, NEW i, NEW amount, ProjectsView!BuyProjectTokens(p, i, amount)
      PROVE  ProjectsProofs!BuyProjectTokens(p, i, amount)
  BY <1>9, SameViewArithmetic, Zenon
     DEF ProjectsView!BuyProjectTokens, ProjectsProofs!BuyProjectTokens
<1>10. ASSUME NEW p, NEW i, ProjectsView!WithdrawInvestment(p, i)
      PROVE  ProjectsProofs!WithdrawInvestment(p, i)
  BY <1>10, SameViewArithmetic, Zenon
     DEF ProjectsView!WithdrawInvestment, ProjectsProofs!WithdrawInvestment,
         ProjectsView!Refundable, ProjectsProofs!Refundable
<1>11. ASSUME NEW p, NEW i, ProjectsView!ClaimProjectReturns(p, i)
      PROVE  ProjectsProofs!ClaimProjectReturns(p, i)
  BY <1>11, SameViewArithmetic, Zenon
     DEF ProjectsView!ClaimProjectReturns, ProjectsProofs!ClaimProjectReturns,
         ProjectsView!Due, ProjectsProofs!Due
<1>12. ASSUME NEW p, NEW from, NEW to, NEW amount, ProjectsView!SendTokens(p, from, to, amount)
      PROVE  ProjectsProofs!SendTokens(p, from, to, amount)
  BY <1>12, SameViewArithmetic, Zenon
     DEF ProjectsView!SendTokens, ProjectsProofs!SendTokens
<1>13. ASSUME NEW p, NEW from, NEW amount, ProjectsView!BurnTokens(p, from, amount)
      PROVE  ProjectsProofs!BurnTokens(p, from, amount)
  BY <1>13, SameViewArithmetic, Zenon
     DEF ProjectsView!BurnTokens, ProjectsProofs!BurnTokens
<1>14. ASSUME NEW from, NEW to, NEW amount, ProjectsView!SendUsdc(from, to, amount)
      PROVE  ProjectsProofs!SendUsdc(from, to, amount)
  BY <1>14, SameViewArithmetic, Zenon
     DEF ProjectsView!SendUsdc, ProjectsProofs!SendUsdc,
         ProjectsView!Receives, ProjectsProofs!Receives
<1>15. ASSUME NEW m, ProjectsView!BaselineSubmitted(m)
      PROVE  ProjectsProofs!BaselineSubmitted(m)
  BY <1>15, SameViewArithmetic, Zenon
     DEF ProjectsView!BaselineSubmitted, ProjectsProofs!BaselineSubmitted
<1>16. ProjectsView!AdminNext => ProjectsProofs!AdminNext
  BY <1>3, <1>4, <1>5, <1>6, <1>7, <1>8, SameViewArithmetic, Zenon
     DEF ProjectsView!AdminNext, ProjectsProofs!AdminNext
<1>17. ProjectsView!InvestorNext => ProjectsProofs!InvestorNext
  BY <1>9, <1>10, <1>11, SameViewArithmetic, Zenon
     DEF ProjectsView!InvestorNext, ProjectsProofs!InvestorNext
<1>18. ProjectsView!ExternalNext => ProjectsProofs!ExternalNext
  BY <1>12, <1>13, <1>14, <1>15, SameViewArithmetic, Zenon
     DEF ProjectsView!ExternalNext, ProjectsProofs!ExternalNext,
         ProjectsView!HolderNext, ProjectsProofs!HolderNext
<1>19. ProjectsView!Next => ProjectsProofs!Next
  BY <1>16, <1>17, <1>18 DEF ProjectsView!Next, ProjectsProofs!Next
<1> QED BY <1>1, <1>2, <1>16, <1>17, <1>19

\* A step of the whole program is a step of the projects, or nothing to them.
LEMMA ProjectsStep ==
  ASSUME RegistryProofs!Inv, disbursed \in [Projects -> Int], [Next]_exiraVars
  PROVE  [ProjectsView!Next]_ProjectsView!vars
<1>1. platform \in PlatformType
  BY RegistryTypes DEF RegistryProofs!Inv, RegistryProofs!MrvTypeOK
<1>2. CASE UNCHANGED exiraVars
  <2>1. /\ UNCHANGED <<usdc, platform, issueVars, mrv>>
        /\ UNCHANGED Seen /\ UNCHANGED Baselined
    BY <1>2 DEF exiraVars, registryVars, Seen, Baselined
  <2> QED BY <2>1 DEF ProjectsView!vars, issueVars, Seen
<1> QED BY <1>1, <1>2, IssueRefines, FundRefines, RegistryRefines DEF Next

LEMMA ProjectsInit == Init => ProjectsView!Init
<1> SUFFICES ASSUME Init PROVE ProjectsView!Init
  OBVIOUS
<1>1. platform = NoPlatform
  BY DEF Init, Issue!Init, Issue!NoPlatform, NoPlatform
<1>2. Seen = ProjectsView!NoPlatform
  BY <1>1 DEF Seen, NoPlatform, ProjectsView!NoPlatform
<1> QED BY <1>2 DEF Init, Issue!Init, ProjectsView!Init, Issue!NoProject,
        ProjectsView!NoProject, Issue!NoPosition, ProjectsView!NoPosition, Seen

LEMMA ProjectsGround ==
  /\ ProjectsProofs!WidthAssumption
  /\ ProjectsProofs!PlatformAssumption
  /\ ProjectsProofs!LedgerAssumption
  /\ ProjectsProofs!ProjectAssumption
<1>1. ProjectsProofs!WidthAssumption /\ ProjectsProofs!PlatformAssumption
  BY WidthAssumption, PlatformAssumption
     DEF ProjectsProofs!WidthAssumption, ProjectsProofs!PlatformAssumption
<1>2. ProjectsProofs!LedgerAssumption
  <2>1. \A f : ProjectsProofs!SumFunction(f) = SumFunction(f)
    BY DEF ProjectsProofs!SumFunction, ProjectsProofs!SumFunctionOnSet,
       ProjectsProofs!FoldFunctionOnSet, ProjectsProofs!MapThenFoldSet,
       SumFunction, SumFunctionOnSet, FoldFunctionOnSet, MapThenFoldSet
  <2>2. ProjectsProofs!IsFiniteSet(Accounts) <=> IsFiniteSet(Accounts)
    BY DEF ProjectsProofs!IsFiniteSet, IsFiniteSet
  <2> QED BY <2>1, <2>2, LedgerAssumption DEF ProjectsProofs!LedgerAssumption
<1>3. ProjectsProofs!ProjectAssumption
  BY ExiraAssumption
     DEF Issue!ProjectAssumption, ProjectsProofs!ProjectAssumption, Issue!U64,
         ProjectsProofs!U64
<1> QED BY <1>1, <1>2, <1>3

LEMMA ProjectsInvariant == Spec => [](RegistryProofs!Inv /\ ProjectsProofs!Inv)
<1>1. Init => ProjectsProofs!Inv
  BY ProjectsInit, SameView, ProjectsGround, ProjectsProofs!InitInv
<1>2. RegistryProofs!Inv /\ ProjectsProofs!Inv /\ [Next]_exiraVars => ProjectsProofs!Inv'
  <2> SUFFICES ASSUME RegistryProofs!Inv, ProjectsProofs!Inv, [Next]_exiraVars
               PROVE  ProjectsProofs!Inv'
    OBVIOUS
  <2>1. disbursed \in [Projects -> Int]
    BY DEF ProjectsProofs!Inv, ProjectsProofs!TypeOK
  <2>2. [ProjectsProofs!Next]_ProjectsProofs!vars
    BY <2>1, ProjectsStep, SameView
  <2> QED BY <2>2, ProjectsGround, ProjectsProofs!StepInv
<1> QED BY <1>1, <1>2, RegistryInvariant, PTL DEF Spec

\* Whatever pools and the registry do, the projects behave as their own
\* specification says.
THEOREM IsProjectsTheorem == Spec => IsProjects
<1>1. ProjectsProofs!Inv => disbursed \in [Projects -> Int]
  BY DEF ProjectsProofs!Inv, ProjectsProofs!TypeOK
<1>2. RegistryProofs!Inv /\ ProjectsProofs!Inv /\ [Next]_exiraVars
        => [ProjectsView!Next]_ProjectsView!vars
  BY <1>1, ProjectsStep
<1> QED BY <1>2, ProjectsInit, ProjectsInvariant, PTL DEF Spec, IsProjects, ProjectsView!Spec

\* All that is proved of the projects alone therefore holds of the whole
\* program: a vault that was not overdrawn pays everyone at once.
THEOREM ProjectsStaySolvent == Spec => []ProjectsProofs!Solvent
<1>1. Spec => ProjectsProofs!Spec
  BY IsProjectsTheorem, SameView, PTL DEF IsProjects, ProjectsView!Spec, ProjectsProofs!Spec
<1> QED BY <1>1, ProjectsGround, ProjectsProofs!SolventTheorem, PTL

(***************************************************************************)
(* The whole program as pools see it                                       *)
(***************************************************************************)
\* The platform account as pools see it.
SeenByPools == [platform EXCEPT !.project_count = 0]

\* What pools see of the administrator, and how it changes: a new pool is
\* counted, a new project is not.
LEMMA PoolPlatform ==
  ASSUME platform \in PlatformType
  PROVE  /\ SeenByPools.admin = platform.admin
         /\ SeenByPools.pool_count = platform.pool_count
         /\ PoolsView!Initialized <=> Initialized
         /\ UNCHANGED platform => UNCHANGED SeenByPools
         /\ \A a \in Deployers, t \in Treasuries, bps \in FeeChoices :
              InitializePlatform(a, t, bps) => PoolsView!InitializePlatform(a, t, bps)
         /\ platform' = [platform EXCEPT !.pool_count = SaturatingSucc(@)] =>
              SeenByPools' = [SeenByPools EXCEPT !.pool_count = SaturatingSucc(@)]
         /\ platform' = [platform EXCEPT !.project_count = SaturatingSucc(@)] =>
              SeenByPools' = SeenByPools
<1>1. SeenByPools.admin = platform.admin /\ SeenByPools.pool_count = platform.pool_count
  BY DEF SeenByPools, PlatformType, NoPlatform
<1>2. PoolsView!Initialized <=> Initialized
  BY <1>1 DEF PoolsView!Initialized, Initialized, SeenByPools
<1>3. UNCHANGED platform => UNCHANGED SeenByPools
  BY DEF SeenByPools
<1>4. ASSUME NEW a \in Deployers, NEW t \in Treasuries, NEW bps \in FeeChoices,
             InitializePlatform(a, t, bps)
      PROVE  PoolsView!InitializePlatform(a, t, bps)
  BY <1>2, <1>4 DEF InitializePlatform, PoolsView!InitializePlatform,
     PoolsView!MAX_FEE_BPS, MAX_FEE_BPS
<1>5. ASSUME NEW n, NEW k
      PROVE  /\ platform' = [platform EXCEPT !.pool_count = n] =>
                  SeenByPools' = [SeenByPools EXCEPT !.pool_count = n]
             /\ platform' = [platform EXCEPT !.project_count = k] =>
                  SeenByPools' = SeenByPools
  BY DEF SeenByPools, PlatformType, NoPlatform
<1> QED BY <1>1, <1>2, <1>3, <1>4, <1>5

\* What the operators of a pool compute does not depend on the view.
LEMMA SamePool ==
  /\ \A q : Fund!PoolExists(q) <=> PoolsView!PoolExists(q)
  /\ Fund!NoPool = PoolsView!NoPool
  /\ \A n : SaturatingSucc(n) = PoolsView!SaturatingSucc(n)
  /\ \A x, amount : /\ Fund!DistributionFits(x, amount) = PoolsView!DistributionFits(x, amount)
                    /\ Fund!AfterDistribution(x, amount) = PoolsView!AfterDistribution(x, amount)
  /\ \A pos, i, cum, amount :
       Fund!AfterBuy(pos, i, cum, amount) = PoolsView!AfterBuy(pos, i, cum, amount)
  /\ \A q, i : Fund!PoolDue(q, i) = PoolsView!PoolDue(q, i)
  /\ \A pos, cum : /\ Fund!ClaimFits(pos, cum) = PoolsView!ClaimFits(pos, cum)
                   /\ Fund!AfterClaim(pos, cum) = PoolsView!AfterClaim(pos, cum)
  /\ \A q, amount : Fund!FitsTarget(q, amount) <=> PoolsView!FitsTarget(q, amount)
  /\ \A q, i, amount : Fund!Inheritance(q, i, amount) = PoolsView!Inheritance(q, i, amount)
  /\ \A a, b, amount : /\ Fund!Transfer(a, b, amount) = PoolsView!Transfer(a, b, amount)
                       /\ Issue!Transfer(a, b, amount) = PoolsView!Transfer(a, b, amount)
  /\ Fund!U64 = PoolsView!U64
<1>1. \A amount, sold : Fund!DeltaPerToken(amount, sold) = PoolsView!DeltaPerToken(amount, sold)
  BY DEF Fund!DeltaPerToken, PoolsView!DeltaPerToken
<1>2. Fund!U64 = PoolsView!U64 /\ Fund!U128 = PoolsView!U128
  BY DEF Fund!U64, PoolsView!U64, Fund!U128, PoolsView!U128
<1>3. \A pos, cum : Fund!OwedScaled(pos, cum) = PoolsView!OwedScaled(pos, cum)
  BY DEF Fund!OwedScaled, PoolsView!OwedScaled
<1>4. \A pos, cum : Fund!Owed(pos, cum) = PoolsView!Owed(pos, cum)
  BY <1>3, Zenon DEF Fund!Owed, PoolsView!Owed
<1>5. \A x, amount : /\ Fund!DistributionFits(x, amount) = PoolsView!DistributionFits(x, amount)
                     /\ Fund!AfterDistribution(x, amount) = PoolsView!AfterDistribution(x, amount)
  BY <1>1, <1>2, Zenon DEF Fund!DistributionFits, PoolsView!DistributionFits,
     Fund!AfterDistribution, PoolsView!AfterDistribution
<1>6. \A pos, cum : /\ Fund!ClaimFits(pos, cum) = PoolsView!ClaimFits(pos, cum)
                    /\ Fund!AfterClaim(pos, cum) = PoolsView!AfterClaim(pos, cum)
  BY <1>2, <1>3, <1>4, Zenon DEF Fund!ClaimFits, PoolsView!ClaimFits, Fund!AfterClaim,
     PoolsView!AfterClaim
<1>7. \A pos, i, cum, amount :
        Fund!AfterBuy(pos, i, cum, amount) = PoolsView!AfterBuy(pos, i, cum, amount)
  BY Zenon DEF Fund!AfterBuy, PoolsView!AfterBuy, Fund!Opened, PoolsView!Opened
<1>8. \A q, i : Fund!PoolDue(q, i) = PoolsView!PoolDue(q, i)
  BY <1>4, Zenon DEF Fund!PoolDue, PoolsView!PoolDue
<1>9. /\ \A q : Fund!PoolExists(q) <=> PoolsView!PoolExists(q)
      /\ \A q, amount : Fund!FitsTarget(q, amount) <=> PoolsView!FitsTarget(q, amount)
      /\ \A a, b, amount : /\ Fund!Transfer(a, b, amount) = PoolsView!Transfer(a, b, amount)
                           /\ Issue!Transfer(a, b, amount) = PoolsView!Transfer(a, b, amount)
  BY Zenon DEF Fund!PoolExists, PoolsView!PoolExists, Fund!FitsTarget,
     PoolsView!FitsTarget, Fund!Transfer, PoolsView!Transfer, Issue!Transfer
<1>10. Fund!NoPool = PoolsView!NoPool
  BY DEF Fund!NoPool, PoolsView!NoPool
<1>11. \A n : SaturatingSucc(n) = PoolsView!SaturatingSucc(n)
  BY DEF SaturatingSucc, PoolsView!SaturatingSucc
<1>12. \A q, i, amount : Fund!Inheritance(q, i, amount) = PoolsView!Inheritance(q, i, amount)
  BY DEF Fund!Inheritance, PoolsView!Inheritance
<1> QED BY <1>2, <1>5, <1>6, <1>7, <1>8, <1>9, <1>10, <1>11, <1>12

\* Every pool instruction is one of the pools' own steps.
LEMMA FundIsFund ==
  ASSUME platform \in PlatformType, FundNext
  PROVE  /\ PoolsView!Next
         /\ PoolsView!PoolAdminNext \/ PoolsView!PoolInvestorNext
<1>1. UNCHANGED Created
  BY DEF FundNext, issueVars, Created
<1>2. ASSUME NEW a \in Deployers, NEW t \in Treasuries, NEW bps \in FeeChoices,
             Fund!Deploy(a, t, bps)
      PROVE  PoolsView!Deploy(a, t, bps)
  BY <1>1, <1>2, SamePlatform, PoolPlatform DEF Fund!Deploy, PoolsView!Deploy
<1>3. ASSUME NEW q \in Pools, NEW target \in PoolTargets, Fund!CreatePool(q, target)
      PROVE  PoolsView!CreatePool(q, target)
  <2>1. /\ SeenByPools' = [SeenByPools EXCEPT !.pool_count = PoolsView!SaturatingSucc(@)]
        /\ PoolsView!Initialized
    BY <1>3, SamePlatform, PoolPlatform, SamePool DEF Fund!CreatePool
  <2> QED BY <1>1, <1>3, <2>1, SamePool DEF Fund!CreatePool, PoolsView!CreatePool, SeenByPools
<1>4. ASSUME NEW q \in Pools, NEW p \in Projects, Fund!AddProjectToPool(q, p)
      PROVE  PoolsView!AddProjectToPool(q, p)
  BY <1>1, <1>4, SamePlatform, PoolPlatform, SamePool
     DEF Fund!AddProjectToPool, PoolsView!AddProjectToPool, SeenByPools
<1>5. ASSUME NEW q \in Pools, NEW amount, Fund!DistributePoolReturns(q, amount)
      PROVE  PoolsView!DistributePoolReturns(q, amount)
  <2>1. /\ PoolsView!Initialized /\ UNCHANGED SeenByPools
        /\ SeenByPools.admin = platform.admin
    BY <1>5, SamePlatform, PoolPlatform DEF Fund!DistributePoolReturns
  <2> QED BY <1>1, <1>5, <2>1, SamePool
          DEF Fund!DistributePoolReturns, PoolsView!DistributePoolReturns, SeenByPools
<1>6. ASSUME NEW q \in Pools, NEW i, NEW amount, Fund!BuyPoolTokens(q, i, amount)
      PROVE  PoolsView!BuyPoolTokens(q, i, amount)
  <2>1. UNCHANGED SeenByPools
    BY <1>6, PoolPlatform DEF Fund!BuyPoolTokens
  <2> QED BY <1>1, <1>6, <2>1, SamePool
          DEF Fund!BuyPoolTokens, PoolsView!BuyPoolTokens, SeenByPools
<1>7. ASSUME NEW q \in Pools, NEW i, Fund!ClaimPoolReturns(q, i)
      PROVE  PoolsView!ClaimPoolReturns(q, i)
  <2>1. UNCHANGED SeenByPools
    BY <1>7, PoolPlatform DEF Fund!ClaimPoolReturns
  <2> QED BY <1>1, <1>7, <2>1, SamePool
          DEF Fund!ClaimPoolReturns, PoolsView!ClaimPoolReturns, SeenByPools
<1>8. Fund!PoolAdminNext => PoolsView!PoolAdminNext
  BY <1>2, <1>3, <1>4, <1>5, SamePool, Zenon
     DEF Fund!PoolAdminNext, PoolsView!PoolAdminNext
<1>9. Fund!PoolInvestorNext => PoolsView!PoolInvestorNext
  BY <1>6, <1>7, SamePool, Zenon
     DEF Fund!PoolInvestorNext, PoolsView!PoolInvestorNext
<1> QED BY <1>8, <1>9 DEF FundNext, PoolsView!Next

\* What the projects' own invariant says of the accounts pools depend on.
LEMMA ProjectsTyped ==
  ASSUME RegistryProofs!Inv, ProjectsProofs!Inv
  PROVE  /\ platform \in PlatformType
         /\ usdc \in [Accounts -> Nat]
         /\ project \in [Projects -> ProjectsProofs!ProjectType]
         /\ \A p \in Projects : /\ project[p].target_amount \in U64
                                /\ \A i \in Wallets : position[p][i].tokens_held \in U64
<1>1. platform \in PlatformType
  BY RegistryTypes DEF RegistryProofs!Inv, RegistryProofs!MrvTypeOK
<1>2. ProjectsProofs!TypeOK /\ ProjectsProofs!U64 = U64
  BY SameViewArithmetic, SameWidths DEF ProjectsProofs!Inv
<1>3. /\ usdc \in [Accounts -> Nat]
      /\ project \in [Projects -> ProjectsProofs!ProjectType]
      /\ position \in [Projects -> [Wallets -> ProjectsProofs!PositionType]]
  BY <1>2 DEF ProjectsProofs!TypeOK
<1>4. \A x \in ProjectsProofs!ProjectType : x.target_amount \in U64
  BY <1>2 DEF ProjectsProofs!ProjectType
<1>5. \A x \in ProjectsProofs!PositionType : x.tokens_held \in U64
  BY <1>2 DEF ProjectsProofs!PositionType
<1> QED BY <1>1, <1>3, <1>4, <1>5

\* A project, once there, stays.
LEMMA CreatedSteps ==
  ASSUME project \in [Projects -> ProjectsProofs!ProjectType], NEW p \in Projects
  PROVE  /\ UNCHANGED project => UNCHANGED Created
         /\ \A x : project' = [project EXCEPT ![p] = x] /\ x.status # "Absent" =>
              Created' = Created \cup {p}
         /\ Issue!Exists(p) => p \in Created
<1>1. UNCHANGED project => UNCHANGED Created
  BY DEF Created
<1>2. ASSUME NEW x, project' = [project EXCEPT ![p] = x], x.status # "Absent"
      PROVE  Created' = Created \cup {p}
  <2>1. project'[p] = x /\ \A r \in Projects \ {p} : project'[r] = project[r]
    BY <1>2
  <2> QED BY <1>2, <2>1 DEF Created
<1> QED BY <1>1, <1>2 DEF Created, Issue!Exists

\* A step that sends USDC out of a project, or between wallets, is a donation
\* to pools, if anything.
LEMMA OutsideDonation ==
  ASSUME RegistryProofs!Inv, ProjectsProofs!Inv, VaultsReceive,
         NEW from \in Accounts \ Pools, NEW to \in Accounts,
         NEW amount \in U64, amount > 0, PoolsView!Transfer(from, to, amount),
         UNCHANGED <<platform, fundVars, Created>>
  PROVE  PoolsView!Next
<1>1. UNCHANGED SeenByPools
  BY ProjectsTyped, PoolPlatform
<1>2. to \in Pools => PoolsView!PoolExists(to)
  <2>1. SUFFICES ASSUME to \in Pools PROVE PoolsView!PoolExists(to)
    OBVIOUS
  <2>2. usdc[to] \in Nat /\ amount \in Nat /\ amount > 0
    BY ProjectsTyped, SameWidths
  <2>3. usdc'[to] = usdc[to] + amount
    BY ProjectsTyped DEF PoolsView!Transfer
  <2>4. usdc'[to] > usdc[to]
    BY <2>2, <2>3
  <2> QED BY <2>1, <2>4, SamePool DEF VaultsReceive
<1>3. PoolsView!Donate(from, to, amount)
  BY <1>1, <1>2 DEF PoolsView!Donate, SeenByPools, fundVars
<1>4. amount \in PoolsView!U64
  BY SamePool, SameWidths
<1>5. PoolsView!OutsideNext
  BY <1>3, <1>4 DEF PoolsView!OutsideNext
<1> QED BY <1>5 DEF PoolsView!Next

\* A fee is a u64, like the target it is a part of.
LEMMA FeeIsU64 ==
  ASSUME RegistryProofs!Inv, ProjectsProofs!Inv, NEW p \in Projects
  PROVE  Issue!OriginationFee(project[p].target_amount) \in U64
<1> DEFINE target == project[p].target_amount
           fee == Issue!OriginationFee(target)
<1>1. target \in U64 /\ target \in Nat
  BY ProjectsTyped, SameWidths
<1>2. Seen \in ProjectsProofs!PlatformType
  BY DEF ProjectsProofs!Inv, ProjectsProofs!TypeOK, Seen
<1>3. ProjectsProofs!OriginationFee(target) \in Nat
      /\ ProjectsProofs!OriginationFee(target) <= target
  BY <1>1, <1>2, ProjectsGround, ProjectsProofs!FeeAtMostTarget DEF Seen
<1>4. fee = ProjectsProofs!OriginationFee(target)
  BY ProjectsTyped, SeenPlatform, SameViewArithmetic
<1> HIDE DEF fee, target
<1>5. fee \in Nat /\ fee <= target
  BY <1>3, <1>4
<1>6. fee \in U64
  BY <1>1, <1>5, WidthAssumption DEF U64
<1> QED BY <1>6 DEF fee, target

\* To pools, what project instructions do is nothing, a project created, or
\* USDC sent by others: none takes from a pool's vault.
LEMMA IssueToPools ==
  ASSUME RegistryProofs!Inv, ProjectsProofs!Inv, IssueNext
  PROVE  [PoolsView!Next]_PoolsView!poolVars
<1>1. UNCHANGED fundVars /\ VaultsReceive
  BY DEF IssueNext
<1>2. ASSUME UNCHANGED usdc, UNCHANGED SeenByPools, UNCHANGED Created
      PROVE  UNCHANGED PoolsView!poolVars
  BY <1>1, <1>2 DEF PoolsView!poolVars, fundVars, SeenByPools
<1>3. platform \in PlatformType /\ project \in [Projects -> ProjectsProofs!ProjectType]
  BY ProjectsTyped
<1>4. UNCHANGED platform => UNCHANGED SeenByPools
  BY <1>3, PoolPlatform
<1>5. ASSUME NEW a \in Deployers, NEW t \in Treasuries, NEW bps \in FeeChoices,
             Issue!Deploy(a, t, bps)
      PROVE  PoolsView!Next
  <2>1. UNCHANGED Created /\ UNCHANGED usdc
    BY <1>5 DEF Issue!Deploy, Created
  <2>2. PoolsView!Deploy(a, t, bps)
    BY <1>1, <1>3, <1>5, <2>1, SamePlatform, PoolPlatform
       DEF Issue!Deploy, PoolsView!Deploy, fundVars
  <2> QED BY <2>2 DEF PoolsView!Next, PoolsView!PoolAdminNext
<1>6. ASSUME NEW p \in Projects, NEW m \in Retrofits, NEW target \in Targets,
             Issue!CreateProject(p, m, target)
      PROVE  PoolsView!Next
  <2>1. Created' = Created \cup {p} /\ p \notin Created
    BY <1>3, <1>6, CreatedSteps
       DEF Issue!CreateProject, Issue!NewProject, Created, Issue!Exists
  <2>2. UNCHANGED SeenByPools /\ UNCHANGED usdc
    BY <1>3, <1>6, SamePlatform, PoolPlatform DEF Issue!CreateProject
  <2>3. PoolsView!ProjectCreated(p)
    BY <1>1, <2>1, <2>2 DEF PoolsView!ProjectCreated, fundVars, SeenByPools
  <2> QED BY <2>3 DEF PoolsView!Next, PoolsView!OutsideNext
<1>7. ASSUME NEW p \in Projects, NEW x, Issue!Exists(p), x.status # "Absent",
             project' = [project EXCEPT ![p] = x]
      PROVE  UNCHANGED Created
  BY <1>3, <1>7, CreatedSteps
<1>8. ASSUME NEW from \in Accounts \ Pools, NEW to \in Accounts, NEW amount \in U64,
             amount > 0, Issue!Transfer(from, to, amount), UNCHANGED platform,
             UNCHANGED Created
      PROVE  PoolsView!Next
  BY <1>1, <1>8, SamePool, OutsideDonation
<1>9. ASSUME NEW p \in Projects, Issue!ActivateProject(p)
      PROVE  [PoolsView!Next]_PoolsView!poolVars
  <2> DEFINE fee == Issue!OriginationFee(project[p].target_amount)
             next == [project[p] EXCEPT !.status = "Active",
                                        !.origination_fee_collected = fee]
  <2>1. /\ Initialized /\ UNCHANGED platform /\ Issue!Exists(p)
        /\ project' = [project EXCEPT ![p] = next]
        /\ \/ fee > 0 /\ Issue!Transfer(p, platform.treasury, fee)
           \/ fee = 0 /\ UNCHANGED usdc
    BY <1>9, SamePlatform DEF Issue!ActivateProject, Issue!Exists
  <2>2. next.status # "Absent"
    BY <1>3 DEF ProjectsProofs!ProjectType
  <2>3. UNCHANGED Created /\ UNCHANGED SeenByPools
    BY <1>4, <1>7, <2>1, <2>2
  <2>4. fee \in U64 /\ platform.treasury \in Accounts /\ p \in Accounts \ Pools
    BY <1>3, <2>1, FeeIsU64, AdminIsWallet, Apart
  <2> QED BY <1>2, <1>8, <2>1, <2>3, <2>4
<1>10. ASSUME NEW p \in Projects, NEW amount \in U64, Issue!DistributeRepayment(p, amount)
       PROVE  PoolsView!Next
  <2> DEFINE next == [Issue!AfterDistribution(project[p], amount) EXCEPT !.status = "Repaying"]
  <2>1. /\ Initialized /\ UNCHANGED platform /\ Issue!Exists(p) /\ amount > 0
        /\ project' = [project EXCEPT ![p] = next]
        /\ Issue!Transfer(platform.admin, p, amount)
    BY <1>10, SamePlatform DEF Issue!DistributeRepayment, Issue!Repayable, Issue!Exists
  <2>2. next.status # "Absent"
    BY <1>3 DEF ProjectsProofs!ProjectType, Issue!AfterDistribution
  <2>3. UNCHANGED Created
    BY <1>7, <2>1, <2>2
  <2>4. platform.admin \in Accounts \ Pools /\ p \in Accounts
    BY <1>3, <2>1, AdminIsWallet, Apart
  <2> QED BY <1>8, <2>1, <2>3, <2>4
<1>11. ASSUME NEW p \in Projects, Issue!CloseProject(p)
       PROVE  UNCHANGED PoolsView!poolVars
  <2> DEFINE next == [project[p] EXCEPT !.status = "Completed"]
  <2>1. /\ UNCHANGED <<usdc, platform>> /\ Issue!Exists(p)
        /\ project' = [project EXCEPT ![p] = next]
    BY <1>3, <1>11 DEF Issue!CloseProject, Issue!Repayable, Issue!Exists
  <2>2. next.status # "Absent"
    BY <1>3 DEF ProjectsProofs!ProjectType
  <2> QED BY <1>2, <1>4, <1>7, <2>1, <2>2
<1>12. ASSUME NEW p \in Projects, NEW a \in Accounts, NEW amount \in U64,
              Issue!WithdrawProjectFunds(p, a, amount)
       PROVE  PoolsView!Next
  <2>1. UNCHANGED Created
    BY <1>3, <1>12, CreatedSteps DEF Issue!WithdrawProjectFunds
  <2> QED BY <1>8, <1>12, <2>1, Apart DEF Issue!WithdrawProjectFunds
<1>13. ASSUME NEW p \in Projects, NEW i \in Investors, NEW amount \in U64,
              Issue!BuyProjectTokens(p, i, amount)
       PROVE  PoolsView!Next
  <2> DEFINE next == [project[p] EXCEPT !.tokens_sold = @ + amount]
  <2>1. /\ UNCHANGED platform /\ Issue!Exists(p) /\ amount > 0
        /\ project' = [project EXCEPT ![p] = next]
        /\ project[p].status = "Funding"
        /\ Issue!Transfer(i, p, amount)
    BY <1>3, <1>13 DEF Issue!BuyProjectTokens, Issue!Exists
  <2>2. next.status # "Absent"
    BY <1>3, <2>1 DEF ProjectsProofs!ProjectType
  <2>3. UNCHANGED Created
    BY <1>7, <2>1, <2>2
  <2>4. i \in Accounts \ Pools /\ p \in Accounts
    BY Apart
  <2> QED BY <1>8, <2>1, <2>3, <2>4
<1>14. ASSUME NEW p \in Projects, NEW i \in Investors, Issue!WithdrawInvestment(p, i)
       PROVE  PoolsView!Next
  <2> DEFINE amount == position[p][i].tokens_held
             next == [project[p] EXCEPT !.tokens_sold = @ - amount]
  <2>1. /\ UNCHANGED platform /\ Issue!Exists(p) /\ amount > 0
        /\ project' = [project EXCEPT ![p] = next]
        /\ project[p].status # "Absent"
        /\ Issue!Transfer(p, i, amount)
    BY <1>3, <1>14 DEF Issue!WithdrawInvestment, Issue!Refundable, Issue!Exists
  <2>2. next.status # "Absent"
    BY <1>3, <2>1 DEF ProjectsProofs!ProjectType
  <2>3. UNCHANGED Created
    BY <1>7, <2>1, <2>2
  <2>4. p \in Accounts \ Pools /\ i \in Accounts /\ i \in Wallets
    BY Apart
  <2>5. amount \in U64
    BY <2>4, ProjectsTyped
  <2> QED BY <1>8, <2>1, <2>3, <2>4, <2>5
<1>15. ASSUME NEW p \in Projects, NEW i \in Investors, Issue!ClaimProjectReturns(p, i)
       PROVE  PoolsView!Next
  <2>1. Issue!Due(p, i) \in U64 /\ Issue!Due(p, i) > 0
    BY <1>15, SameWidths DEF Issue!ClaimProjectReturns, Issue!ClaimFits, Issue!Due
  <2>2. UNCHANGED Created
    BY <1>3, <1>15, CreatedSteps DEF Issue!ClaimProjectReturns
  <2> QED BY <1>8, <1>15, <2>1, <2>2, Apart DEF Issue!ClaimProjectReturns
<1>16. ASSUME NEW p \in Projects, NEW from, NEW to, NEW amount,
              Issue!SendTokens(p, from, to, amount) \/ Issue!BurnTokens(p, from, amount)
       PROVE  UNCHANGED PoolsView!poolVars
  <2>1. UNCHANGED <<usdc, platform, project>>
    BY <1>16 DEF Issue!SendTokens, Issue!BurnTokens
  <2> QED BY <1>2, <1>3, <1>4, <2>1, CreatedSteps
<1>17. ASSUME NEW from \in Senders, NEW to \in Accounts, NEW amount \in U64,
              Issue!SendUsdc(from, to, amount)
       PROVE  PoolsView!Next
  <2>1. UNCHANGED Created
    BY <1>17 DEF Issue!SendUsdc, Created
  <2>2. from \in Accounts \ Pools
    BY ExiraAssumption, Apart
  <2> QED BY <1>8, <1>17, <2>1, <2>2 DEF Issue!SendUsdc
<1>18. CASE Issue!AdminNext
  BY <1>5, <1>6, <1>9, <1>10, <1>11, <1>12, <1>18, SameWidths, Zenon DEF Issue!AdminNext
<1>19. CASE Issue!InvestorNext
  BY <1>13, <1>14, <1>15, <1>19, SameWidths, Zenon DEF Issue!InvestorNext
<1>20. CASE Issue!HolderNext
  BY <1>16, <1>17, <1>20, SameWidths, Zenon DEF Issue!HolderNext
<1> QED BY <1>18, <1>19, <1>20 DEF IssueNext

\* To pools, what the registry does is nothing.
LEMMA RegistryToPools ==
  ASSUME RegistryProofs!Inv, RegistryNext
  PROVE  [PoolsView!Next]_PoolsView!poolVars
<1>1. /\ UNCHANGED <<usdc, fundVars>> /\ platform \in PlatformType
      /\ UNCHANGED Created
  BY RegistryTypes
     DEF RegistryNext, RegistryProofs!Inv, RegistryProofs!MrvTypeOK, Created, issueVars
<1>2. ASSUME UNCHANGED platform PROVE UNCHANGED PoolsView!poolVars
  BY <1>1, <1>2, PoolPlatform DEF PoolsView!poolVars, fundVars, SeenByPools
<1>3. ASSUME NEW a \in Deployers, NEW t \in Treasuries, NEW bps \in FeeChoices,
             Registry!Deploy(a, t, bps)
      PROVE  PoolsView!Next
  <2>1. PoolsView!Deploy(a, t, bps)
    BY <1>1, <1>3, SamePlatform, PoolPlatform
       DEF Registry!Deploy, PoolsView!Deploy, fundVars
  <2> QED BY <2>1 DEF PoolsView!Next, PoolsView!PoolAdminNext
<1>4. ASSUME NEW a, NEW m, NEW k, NEW period,
             \/ Registry!RegisterMrvProject(m) \/ Registry!AddAuditor(a)
             \/ Registry!SubmitBaseline(a, m)
             \/ Registry!SubmitVerification(a, m, k, period)
             \/ Registry!AttestVerification(a, m, k)
      PROVE  UNCHANGED PoolsView!poolVars
  BY <1>2, <1>4 DEF Registry!RegisterMrvProject, Registry!AddAuditor,
     Registry!SubmitBaseline, Registry!SubmitVerification, Registry!AttestVerification
<1> QED BY <1>3, <1>4, Zenon DEF RegistryNext, Registry!Next

LEMMA PoolsStep ==
  ASSUME RegistryProofs!Inv, ProjectsProofs!Inv, [Next]_exiraVars
  PROVE  [PoolsView!Next]_PoolsView!poolVars
<1>1. CASE UNCHANGED exiraVars
  <2>1. UNCHANGED <<usdc, fundVars>> /\ UNCHANGED SeenByPools /\ UNCHANGED Created
    BY <1>1 DEF exiraVars, issueVars, SeenByPools, Created
  <2> QED BY <2>1 DEF PoolsView!poolVars, fundVars, SeenByPools
<1> QED BY <1>1, IssueToPools, FundIsFund, RegistryToPools, ProjectsTyped DEF Next

LEMMA PoolsInit == Init => PoolsView!Init
<1> SUFFICES ASSUME Init PROVE PoolsView!Init
  OBVIOUS
<1>1. platform = NoPlatform
  BY DEF Init, Issue!Init, Issue!NoPlatform, NoPlatform
<1>2. SeenByPools = PoolsView!NoPlatform
  BY <1>1 DEF SeenByPools, NoPlatform, PoolsView!NoPlatform
<1>3. Created = {}
  BY DEF Init, Issue!Init, Issue!NoProject, Created
<1> QED BY <1>2, <1>3 DEF Init, Fund!Init, PoolsView!Init, Fund!NoPool,
        PoolsView!NoPool, Fund!NoPosition, PoolsView!NoPosition, SeenByPools

\* Whatever projects and the registry do, the pools behave as their own
\* specification says.
THEOREM IsPoolsTheorem == Spec => IsPools
BY PoolsStep, PoolsInit, ProjectsInvariant, PTL DEF Spec, IsPools, PoolsView!Spec

\* The pools of the proofs are the pools of the program.
LEMMA SamePoolView ==
  /\ PoolsView!Init => PoolsProofs!Init
  /\ [PoolsView!Next]_PoolsView!poolVars => [PoolsProofs!Next]_PoolsProofs!poolVars
  /\ PoolsView!PoolAdminNext => PoolsProofs!PoolAdminNext
  /\ PoolsView!PoolInvestorNext => PoolsProofs!PoolInvestorNext
<1>1. PoolsView!U64 = PoolsProofs!U64 /\ PoolsView!U128 = PoolsProofs!U128
  BY DEF PoolsView!U64, PoolsProofs!U64, PoolsView!U128, PoolsProofs!U128
<1>2. \A amount, sold : PoolsView!DeltaPerToken(amount, sold) = PoolsProofs!DeltaPerToken(amount, sold)
  BY DEF PoolsView!DeltaPerToken, PoolsProofs!DeltaPerToken
<1>3. \A pos, cum : PoolsView!OwedScaled(pos, cum) = PoolsProofs!OwedScaled(pos, cum)
  BY DEF PoolsView!OwedScaled, PoolsProofs!OwedScaled
<1>4. \A pos, cum : PoolsView!Owed(pos, cum) = PoolsProofs!Owed(pos, cum)
  BY <1>3, Zenon DEF PoolsView!Owed, PoolsProofs!Owed
<1>5. \A x, amount :
        /\ PoolsView!DistributionFits(x, amount) = PoolsProofs!DistributionFits(x, amount)
        /\ PoolsView!AfterDistribution(x, amount) = PoolsProofs!AfterDistribution(x, amount)
  BY <1>1, <1>2, Zenon
     DEF PoolsView!DistributionFits, PoolsProofs!DistributionFits,
         PoolsView!AfterDistribution, PoolsProofs!AfterDistribution
<1>6. \A pos, cum :
        /\ PoolsView!ClaimFits(pos, cum) = PoolsProofs!ClaimFits(pos, cum)
        /\ PoolsView!AfterClaim(pos, cum) = PoolsProofs!AfterClaim(pos, cum)
  BY <1>1, <1>3, <1>4, Zenon
     DEF PoolsView!ClaimFits, PoolsProofs!ClaimFits, PoolsView!AfterClaim,
         PoolsProofs!AfterClaim
<1>7. \A pos, i, cum, amount :
        PoolsView!AfterBuy(pos, i, cum, amount) = PoolsProofs!AfterBuy(pos, i, cum, amount)
  BY Zenon
     DEF PoolsView!AfterBuy, PoolsProofs!AfterBuy, PoolsView!Opened,
         PoolsProofs!Opened
<1>8. /\ \A a, b, amount : PoolsView!Transfer(a, b, amount) = PoolsProofs!Transfer(a, b, amount)
      /\ PoolsView!Initialized <=> PoolsProofs!Initialized
      /\ \A q : PoolsView!PoolExists(q) <=> PoolsProofs!PoolExists(q)
      /\ \A q, amount : PoolsView!FitsTarget(q, amount) <=> PoolsProofs!FitsTarget(q, amount)
      /\ PoolsView!NoPool = PoolsProofs!NoPool
  BY Zenon
     DEF PoolsView!Transfer, PoolsProofs!Transfer, PoolsView!Initialized,
         PoolsProofs!Initialized, PoolsView!PoolExists,
         PoolsProofs!PoolExists, PoolsView!FitsTarget, PoolsProofs!FitsTarget,
         PoolsView!NoPool, PoolsProofs!NoPool
<1>9. PoolsView!MAX_FEE_BPS = PoolsProofs!MAX_FEE_BPS
      /\ \A q, i, amount : PoolsView!Inheritance(q, i, amount) = PoolsProofs!Inheritance(q, i, amount)
      /\ \A n : PoolsView!SaturatingSucc(n) = PoolsProofs!SaturatingSucc(n)
  BY DEF PoolsView!MAX_FEE_BPS, PoolsProofs!MAX_FEE_BPS,
         PoolsView!Inheritance, PoolsProofs!Inheritance,
         PoolsView!SaturatingSucc, PoolsProofs!SaturatingSucc
<1>10. PoolsView!Init => PoolsProofs!Init
  BY <1>8, Zenon
     DEF PoolsView!Init, PoolsProofs!Init, PoolsView!NoPlatform,
         PoolsProofs!NoPlatform, PoolsView!NoPosition, PoolsProofs!NoPosition
<1>11. UNCHANGED PoolsView!poolVars => UNCHANGED PoolsProofs!poolVars
  BY DEF PoolsView!poolVars, PoolsProofs!poolVars
<1>12. ASSUME NEW a, NEW t, NEW bps, PoolsView!Deploy(a, t, bps)
       PROVE  PoolsProofs!Deploy(a, t, bps)
  BY <1>1, <1>4, <1>5, <1>6, <1>7, <1>8, <1>9, <1>12, Zenon
     DEF PoolsView!Deploy, PoolsProofs!Deploy, PoolsView!InitializePlatform,
         PoolsProofs!InitializePlatform
<1>13. ASSUME NEW q, NEW target, PoolsView!CreatePool(q, target)
       PROVE  PoolsProofs!CreatePool(q, target)
  BY <1>1, <1>4, <1>5, <1>6, <1>7, <1>8, <1>9, <1>13, Zenon
     DEF PoolsView!CreatePool, PoolsProofs!CreatePool
<1>14. ASSUME NEW q, NEW p, PoolsView!AddProjectToPool(q, p)
       PROVE  PoolsProofs!AddProjectToPool(q, p)
  BY <1>1, <1>4, <1>5, <1>6, <1>7, <1>8, <1>9, <1>14, Zenon
     DEF PoolsView!AddProjectToPool, PoolsProofs!AddProjectToPool
<1>15. ASSUME NEW q, NEW amount, PoolsView!DistributePoolReturns(q, amount)
       PROVE  PoolsProofs!DistributePoolReturns(q, amount)
  BY <1>1, <1>4, <1>5, <1>6, <1>7, <1>8, <1>9, <1>15, Zenon
     DEF PoolsView!DistributePoolReturns, PoolsProofs!DistributePoolReturns
<1>16. ASSUME NEW q, NEW i, NEW amount, PoolsView!BuyPoolTokens(q, i, amount)
       PROVE  PoolsProofs!BuyPoolTokens(q, i, amount)
  BY <1>1, <1>4, <1>5, <1>6, <1>7, <1>8, <1>9, <1>16, Zenon
     DEF PoolsView!BuyPoolTokens, PoolsProofs!BuyPoolTokens
<1>17. ASSUME NEW q, NEW i, PoolsView!ClaimPoolReturns(q, i)
       PROVE  PoolsProofs!ClaimPoolReturns(q, i)
  BY <1>1, <1>4, <1>5, <1>6, <1>7, <1>8, <1>9, <1>17, Zenon
     DEF PoolsView!ClaimPoolReturns, PoolsProofs!ClaimPoolReturns,
         PoolsView!PoolDue, PoolsProofs!PoolDue
<1>18. ASSUME NEW p, PoolsView!ProjectCreated(p)
       PROVE  PoolsProofs!ProjectCreated(p)
  BY <1>1, <1>4, <1>5, <1>6, <1>7, <1>8, <1>9, <1>18, Zenon
     DEF PoolsView!ProjectCreated, PoolsProofs!ProjectCreated
<1>19. ASSUME NEW from, NEW to, NEW amount, PoolsView!Donate(from, to, amount)
       PROVE  PoolsProofs!Donate(from, to, amount)
  BY <1>1, <1>4, <1>5, <1>6, <1>7, <1>8, <1>9, <1>19, Zenon
     DEF PoolsView!Donate, PoolsProofs!Donate
<1>20. PoolsView!PoolAdminNext => PoolsProofs!PoolAdminNext
  BY <1>1, <1>12, <1>13, <1>14, <1>15, Zenon
     DEF PoolsView!PoolAdminNext, PoolsProofs!PoolAdminNext
<1>21. PoolsView!PoolInvestorNext => PoolsProofs!PoolInvestorNext
  BY <1>1, <1>16, <1>17, Zenon
     DEF PoolsView!PoolInvestorNext, PoolsProofs!PoolInvestorNext
<1>22. PoolsView!OutsideNext => PoolsProofs!OutsideNext
  BY <1>1, <1>18, <1>19, Zenon DEF PoolsView!OutsideNext, PoolsProofs!OutsideNext
<1>23. PoolsView!Next => PoolsProofs!Next
  BY <1>20, <1>21, <1>22 DEF PoolsView!Next, PoolsProofs!Next
<1> QED BY <1>10, <1>11, <1>20, <1>21, <1>23

LEMMA PoolsGround ==
  /\ PoolsProofs!WidthAssumption
  /\ PoolsProofs!PlatformAssumption
  /\ PoolsProofs!LedgerAssumption
  /\ PoolsProofs!PoolAssumption
<1>1. PoolsProofs!WidthAssumption /\ PoolsProofs!PlatformAssumption
  BY WidthAssumption, PlatformAssumption
     DEF PoolsProofs!WidthAssumption, PoolsProofs!PlatformAssumption
<1>2. PoolsProofs!LedgerAssumption
  <2>1. \A f : PoolsProofs!SumFunction(f) = SumFunction(f)
    BY DEF PoolsProofs!SumFunction, PoolsProofs!SumFunctionOnSet,
       PoolsProofs!FoldFunctionOnSet, PoolsProofs!MapThenFoldSet,
       SumFunction, SumFunctionOnSet, FoldFunctionOnSet, MapThenFoldSet
  <2>2. PoolsProofs!IsFiniteSet(Accounts) <=> IsFiniteSet(Accounts)
    BY DEF PoolsProofs!IsFiniteSet, IsFiniteSet
  <2> QED BY <2>1, <2>2, LedgerAssumption DEF PoolsProofs!LedgerAssumption
<1>3. PoolsProofs!PoolAssumption
  BY ExiraAssumption
     DEF Fund!PoolAssumption, PoolsProofs!PoolAssumption, Fund!U64, PoolsProofs!U64
<1> QED BY <1>1, <1>2, <1>3

\* The invariants of the three components hold together.
LEMMA WholeInvariant ==
  Spec => [](RegistryProofs!Inv /\ ProjectsProofs!Inv /\ PoolsProofs!Inv)
<1>1. Init => PoolsProofs!Inv
  BY PoolsInit, SamePoolView, PoolsGround, PoolsProofs!InitInv
<1>2. RegistryProofs!Inv /\ ProjectsProofs!Inv /\ PoolsProofs!Inv /\ [Next]_exiraVars
        => PoolsProofs!Inv'
  BY PoolsStep, SamePoolView, PoolsGround, PoolsProofs!StepInv
<1> QED BY <1>1, <1>2, ProjectsInvariant, PTL DEF Spec

\* No instruction of any component takes from a pool's vault but the claims
\* of its holders: it has what was sold and distributed, less those.
THEOREM PoolVaultsStayAccounted == Spec => []PoolsProofs!PoolVaultAccounted
<1>1. Spec => PoolsProofs!Spec
  BY IsPoolsTheorem, SamePoolView, PTL DEF IsPools, PoolsView!Spec, PoolsProofs!Spec
<1> QED BY <1>1, PoolsGround, PoolsProofs!PoolVaultAccountedTheorem, PTL

(***************************************************************************)
(* Across the components                                                   *)
(***************************************************************************)
\* What a step does to the projects there are, and to what they refer to.
Founds(p) ==
  /\ Initialized /\ p \notin Created
  /\ Created' = Created \cup {p}
  /\ project'[p].mrv_project \in Baselined
  /\ \A r \in Created : project'[r].mrv_project = project[r].mrv_project
  /\ UNCHANGED Baselined
  /\ Seen' = [Seen EXCEPT !.project_count = SaturatingSucc(@)]

Deploys ==
  /\ ~Initialized
  /\ UNCHANGED <<project, Baselined>>
  /\ Seen'.project_count = 0 /\ Seen'.admin # NoKey

Continues ==
  /\ UNCHANGED <<Seen, Created>>
  /\ \A r \in Created : project'[r].mrv_project = project[r].mrv_project
  /\ Baselined \subseteq Baselined'

LEMMA ProjectKinds ==
  ASSUME platform \in PlatformType,
         project \in [Projects -> ProjectsProofs!ProjectType],
         [ProjectsView!Next]_ProjectsView!vars
  PROVE  Continues \/ Deploys \/ \E p \in Projects : Founds(p)
<1>1. ASSUME NEW p \in Projects, NEW x, ProjectsView!Exists(p), x.status # "Absent",
             x.mrv_project = project[p].mrv_project,
             project' = [project EXCEPT ![p] = x], UNCHANGED <<Seen, Baselined>>
      PROVE  Continues
  <2>1. UNCHANGED Created
    BY <1>1, CreatedSteps, SameArithmetic
  <2>2. \A r \in Created : project'[r].mrv_project = project[r].mrv_project
    BY <1>1 DEF Created
  <2> QED BY <1>1, <2>1, <2>2 DEF Continues
<1>2. ASSUME UNCHANGED <<Seen, project>>, Baselined \subseteq Baselined'
      PROVE  Continues
  BY <1>2 DEF Continues, Created
<1>3. ASSUME NEW a \in Deployers, NEW t, NEW bps, ProjectsView!Deploy(a, t, bps)
      PROVE  Deploys
  BY <1>3, SeenPlatform, PlatformAssumption
     DEF ProjectsView!Deploy, ProjectsView!InitializePlatform, Deploys, Seen
<1>4. ASSUME NEW p \in Projects, NEW m \in Retrofits, NEW target,
             ProjectsView!CreateProject(p, m, target)
      PROVE  Founds(p)
  <2> DEFINE new == ProjectsView!NewProject(m, target)
  <2>1. /\ Initialized /\ m \in Baselined /\ p \notin Created
        /\ project' = [project EXCEPT ![p] = new]
        /\ Seen' = [Seen EXCEPT !.project_count = SaturatingSucc(@)]
        /\ UNCHANGED Baselined
    BY <1>4, SeenPlatform, SameArithmetic
       DEF ProjectsView!CreateProject, ProjectsView!Exists, Created, Seen
  <2>2. new.status # "Absent" /\ new.mrv_project = m
    BY DEF ProjectsView!NewProject
  <2>3. Created' = Created \cup {p}
    BY <2>1, <2>2, CreatedSteps
  <2>4. \A r \in Created : project'[r].mrv_project = project[r].mrv_project
    BY <2>1 DEF Created
  <2>5. project'[p].mrv_project = m
    BY <2>1, <2>2
  <2> QED BY <2>1, <2>3, <2>4, <2>5 DEF Founds
<1>5. ASSUME NEW p \in Projects, ProjectsView!ActivateProject(p)
      PROVE  Continues
  <2> DEFINE x == [project[p] EXCEPT !.status = "Active", !.origination_fee_collected =
                     ProjectsView!OriginationFee(project[p].target_amount)]
  <2>1. /\ ProjectsView!Exists(p) /\ project' = [project EXCEPT ![p] = x]
        /\ UNCHANGED <<Seen, Baselined>>
    BY <1>5 DEF ProjectsView!ActivateProject, ProjectsView!Exists, Seen
  <2>2. x.status # "Absent" /\ x.mrv_project = project[p].mrv_project
    BY DEF ProjectsProofs!ProjectType
  <2> QED BY <1>1, <2>1, <2>2
<1>6. ASSUME NEW p \in Projects, NEW amount, ProjectsView!DistributeRepayment(p, amount)
      PROVE  Continues
  <2> DEFINE x == [ProjectsView!AfterDistribution(project[p], amount)
                     EXCEPT !.status = "Repaying"]
  <2>1. /\ ProjectsView!Exists(p) /\ project' = [project EXCEPT ![p] = x]
        /\ UNCHANGED <<Seen, Baselined>>
    BY <1>6 DEF ProjectsView!DistributeRepayment, ProjectsView!Repayable,
       ProjectsView!Exists, Seen
  <2>2. x.status # "Absent" /\ x.mrv_project = project[p].mrv_project
    BY DEF ProjectsProofs!ProjectType, ProjectsView!AfterDistribution
  <2> QED BY <1>1, <2>1, <2>2
<1>7. ASSUME NEW p \in Projects, ProjectsView!CloseProject(p)
      PROVE  Continues
  <2> DEFINE x == [project[p] EXCEPT !.status = "Completed"]
  <2>1. /\ ProjectsView!Exists(p) /\ project' = [project EXCEPT ![p] = x]
        /\ UNCHANGED <<Seen, Baselined>>
    BY <1>7 DEF ProjectsView!CloseProject, ProjectsView!Repayable,
       ProjectsView!Exists, Seen
  <2>2. x.status # "Absent" /\ x.mrv_project = project[p].mrv_project
    BY DEF ProjectsProofs!ProjectType
  <2> QED BY <1>1, <2>1, <2>2
<1>8. ASSUME NEW p \in Projects, NEW i, NEW amount,
             ProjectsView!BuyProjectTokens(p, i, amount)
      PROVE  Continues
  <2> DEFINE x == [project[p] EXCEPT !.tokens_sold = @ + amount]
  <2>1. /\ project[p].status = "Funding" /\ project' = [project EXCEPT ![p] = x]
        /\ ProjectsView!Exists(p) /\ UNCHANGED <<Seen, Baselined>>
    BY <1>8 DEF ProjectsView!BuyProjectTokens, ProjectsView!Exists, Seen
  <2>2. x.status # "Absent" /\ x.mrv_project = project[p].mrv_project
    BY <2>1 DEF ProjectsProofs!ProjectType
  <2> QED BY <1>1, <2>1, <2>2
<1>9. ASSUME NEW p \in Projects, NEW i, ProjectsView!WithdrawInvestment(p, i)
      PROVE  Continues
  <2> DEFINE x == [project[p] EXCEPT !.tokens_sold = @ - position[p][i].tokens_held]
  <2>1. /\ project[p].status # "Absent" /\ project' = [project EXCEPT ![p] = x]
        /\ ProjectsView!Exists(p) /\ UNCHANGED <<Seen, Baselined>>
    BY <1>9 DEF ProjectsView!WithdrawInvestment, ProjectsView!Refundable,
       ProjectsView!Exists, Seen
  <2>2. x.status # "Absent" /\ x.mrv_project = project[p].mrv_project
    BY <2>1 DEF ProjectsProofs!ProjectType
  <2> QED BY <1>1, <2>1, <2>2
<1>10. ASSUME NEW p, NEW i, NEW a, NEW b, NEW amount,
              \/ ProjectsView!WithdrawProjectFunds(p, a, amount)
              \/ ProjectsView!ClaimProjectReturns(p, i)
              \/ ProjectsView!SendTokens(p, a, b, amount)
              \/ ProjectsView!BurnTokens(p, a, amount)
              \/ ProjectsView!SendUsdc(a, b, amount)
       PROVE  Continues
  BY <1>2, <1>10 DEF ProjectsView!WithdrawProjectFunds, ProjectsView!ClaimProjectReturns,
     ProjectsView!SendTokens, ProjectsView!BurnTokens, ProjectsView!SendUsdc, Seen
<1>11. ASSUME NEW m, ProjectsView!BaselineSubmitted(m) PROVE Continues
  BY <1>2, <1>11 DEF ProjectsView!BaselineSubmitted, Seen
<1>12. CASE UNCHANGED ProjectsView!vars
  BY <1>2, <1>12 DEF ProjectsView!vars, Seen
<1>13. CASE ProjectsView!AdminNext
  BY <1>3, <1>4, <1>5, <1>6, <1>7, <1>10, <1>13, Zenon DEF ProjectsView!AdminNext
<1>14. CASE ProjectsView!InvestorNext
  BY <1>8, <1>9, <1>10, <1>14, Zenon DEF ProjectsView!InvestorNext
<1>15. CASE ProjectsView!ExternalNext
  BY <1>10, <1>11, <1>15, Zenon DEF ProjectsView!ExternalNext, ProjectsView!HolderNext
<1> QED BY <1>12, <1>13, <1>14, <1>15 DEF ProjectsView!Next

\* The same for pools.
Existing == {q \in Pools : Fund!PoolExists(q)}

OpensPool(q) ==
  /\ Initialized /\ q \notin Existing
  /\ Existing' = Existing \cup {q}
  /\ SeenByPools' = [SeenByPools EXCEPT !.pool_count = SaturatingSucc(@)]

DeploysPools ==
  /\ ~Initialized
  /\ UNCHANGED Existing
  /\ SeenByPools'.pool_count = 0 /\ SeenByPools'.admin # NoKey

LEMMA PoolKinds ==
  ASSUME platform \in PlatformType, pool \in [Pools -> PoolsProofs!PoolType],
         [PoolsView!Next]_PoolsView!poolVars
  PROVE  UNCHANGED <<SeenByPools, Existing>> \/ DeploysPools \/ \E q \in Pools : OpensPool(q)
<1>1. ASSUME UNCHANGED <<SeenByPools, pool>> PROVE UNCHANGED <<SeenByPools, Existing>>
  BY <1>1 DEF Existing, Fund!PoolExists
<1>2. ASSUME NEW a \in Deployers, NEW t, NEW bps, PoolsView!Deploy(a, t, bps)
      PROVE  DeploysPools
  BY <1>2, PoolPlatform, PlatformAssumption
     DEF PoolsView!Deploy, PoolsView!InitializePlatform, DeploysPools, SeenByPools,
         Existing, Fund!PoolExists
<1>3. ASSUME NEW q \in Pools, NEW target, PoolsView!CreatePool(q, target)
      PROVE  OpensPool(q)
  <2> DEFINE new == [PoolsView!NoPool EXCEPT !.status = "Funding", !.target_amount = target]
  <2>1. /\ Initialized /\ q \notin Existing
        /\ pool' = [pool EXCEPT ![q] = new]
        /\ SeenByPools' = [SeenByPools EXCEPT !.pool_count = SaturatingSucc(@)]
    BY <1>3, PoolPlatform, SamePool DEF PoolsView!CreatePool, Existing, SeenByPools
  <2>2. new.status = "Funding"
    BY DEF PoolsView!NoPool
  <2>3. pool'[q].status = "Funding" /\ \A r \in Pools \ {q} : pool'[r] = pool[r]
    BY <2>1, <2>2
  <2>4. Existing' = Existing \cup {q}
    BY <2>3 DEF Existing, Fund!PoolExists
  <2> QED BY <2>1, <2>4 DEF OpensPool
<1>4. ASSUME UNCHANGED SeenByPools,
             \A q \in Pools : pool'[q].status = pool[q].status
      PROVE  UNCHANGED <<SeenByPools, Existing>>
  BY <1>4 DEF Existing, Fund!PoolExists
<1>5. ASSUME NEW q \in Pools, NEW p, PoolsView!AddProjectToPool(q, p)
      PROVE  UNCHANGED <<SeenByPools, Existing>>
  BY <1>4, <1>5 DEF PoolsView!AddProjectToPool, PoolsProofs!PoolType, SeenByPools
<1>6. ASSUME NEW q \in Pools, NEW amount, PoolsView!DistributePoolReturns(q, amount)
      PROVE  UNCHANGED <<SeenByPools, Existing>>
  BY <1>4, <1>6 DEF PoolsView!DistributePoolReturns, PoolsView!AfterDistribution,
     PoolsProofs!PoolType, SeenByPools
<1>7. ASSUME NEW q \in Pools, NEW i, NEW amount, PoolsView!BuyPoolTokens(q, i, amount)
      PROVE  UNCHANGED <<SeenByPools, Existing>>
  BY <1>4, <1>7 DEF PoolsView!BuyPoolTokens, PoolsProofs!PoolType, SeenByPools
<1>8. ASSUME NEW q, NEW i, NEW p, NEW a, NEW b, NEW amount,
             \/ PoolsView!ClaimPoolReturns(q, i) \/ PoolsView!ProjectCreated(p)
             \/ PoolsView!Donate(a, b, amount)
      PROVE  UNCHANGED <<SeenByPools, Existing>>
  BY <1>1, <1>8 DEF PoolsView!ClaimPoolReturns, PoolsView!ProjectCreated,
     PoolsView!Donate, SeenByPools
<1>9. CASE UNCHANGED PoolsView!poolVars
  BY <1>1, <1>9 DEF PoolsView!poolVars, SeenByPools
<1>10. CASE PoolsView!PoolAdminNext
  BY <1>2, <1>3, <1>5, <1>6, <1>10, Zenon DEF PoolsView!PoolAdminNext
<1>11. CASE PoolsView!PoolInvestorNext
  BY <1>7, <1>8, <1>11, Zenon DEF PoolsView!PoolInvestorNext
<1>12. CASE PoolsView!OutsideNext
  BY <1>8, <1>12, Zenon DEF PoolsView!OutsideNext
<1> QED BY <1>9, <1>10, <1>11, <1>12 DEF PoolsView!Next

\* Nothing is there before the platform, the counters saturate at the number
\* of accounts, and every project refers to a retrofit with a baseline.
UpToLimit(n) == IF n < MaxU64 THEN n ELSE MaxU64

Counts ==
  /\ platform.project_count = UpToLimit(Cardinality(Created))
  /\ platform.pool_count = UpToLimit(Cardinality(Existing))
  /\ ~Initialized => Created = {} /\ Existing = {}

OnBaseline == \A p \in Created : project[p].mrv_project \in Baselined

\* One more account is one more in the counter, until it is full.
LEMMA OneMore ==
  ASSUME NEW S, IsFiniteSet(S), NEW x, x \notin S
  PROVE  UpToLimit(Cardinality(S \cup {x})) = SaturatingSucc(UpToLimit(Cardinality(S)))
<1>1. Cardinality(S) \in Nat
  BY FS_CardinalityType
<1>2. Cardinality(S \cup {x}) = Cardinality(S) + 1
  BY FS_AddElement
<1> QED BY <1>1, <1>2, WidthAssumption DEF UpToLimit, SaturatingSucc

LEMMA AccountsFinite == IsFiniteSet(Created) /\ IsFiniteSet(Existing)
<1>1. Created \subseteq Accounts /\ Existing \subseteq Accounts
  BY Apart DEF Created, Existing
<1> QED BY <1>1, LedgerAssumption, FS_Subset

\* The fields of the platform are what each component sees of them.
SeenFields ==
  platform \in PlatformType =>
    /\ Seen.admin = platform.admin /\ SeenByPools.admin = platform.admin
    /\ Seen.project_count = platform.project_count
    /\ SeenByPools.pool_count = platform.pool_count

LEMMA FieldsSeen == SeenFields
BY SeenPlatform, PoolPlatform DEF SeenFields

Whole == RegistryProofs!Inv /\ ProjectsProofs!Inv /\ PoolsProofs!Inv

LEMMA CountsStep ==
  ASSUME Whole, Whole', Counts, [Next]_exiraVars
  PROVE  Counts'
<1>1. /\ platform \in PlatformType /\ platform' \in PlatformType
      /\ project \in [Projects -> ProjectsProofs!ProjectType]
      /\ pool \in [Pools -> PoolsProofs!PoolType]
  <2>1. platform \in PlatformType /\ platform' \in PlatformType
    BY RegistryTypes DEF Whole, RegistryProofs!Inv, RegistryProofs!MrvTypeOK
  <2> QED BY <2>1, ProjectsTyped DEF Whole, PoolsProofs!Inv, PoolsProofs!PoolTypeOK
<1>2. SeenFields /\ SeenFields'
  BY FieldsSeen, PTL
<1>3. /\ Seen.admin = platform.admin /\ Seen'.admin = platform'.admin
      /\ SeenByPools.admin = platform.admin /\ SeenByPools'.admin = platform'.admin
      /\ Seen.project_count = platform.project_count
      /\ Seen'.project_count = platform'.project_count
      /\ SeenByPools.pool_count = platform.pool_count
      /\ SeenByPools'.pool_count = platform'.pool_count
  BY <1>1, <1>2 DEF SeenFields
<1>4. "admin" \in DOMAIN Seen /\ "project_count" \in DOMAIN Seen
      /\ "admin" \in DOMAIN SeenByPools /\ "pool_count" \in DOMAIN SeenByPools
  BY <1>1 DEF Seen, SeenByPools, PlatformType, NoPlatform
<1>5. UpToLimit(Cardinality({})) = 0
  BY FS_EmptySet, WidthAssumption DEF UpToLimit
<1>6. /\ platform'.project_count = UpToLimit(Cardinality(Created'))
      /\ platform'.admin = NoKey => Created' = {}
  <2>1. Continues \/ Deploys \/ \E p \in Projects : Founds(p)
    BY <1>1, ProjectsStep, ProjectKinds DEF Whole, ProjectsProofs!Inv, ProjectsProofs!TypeOK
  <2>2. CASE Continues
    BY <1>3, <2>2 DEF Continues, Counts, Initialized
  <2>3. CASE Deploys
    <3>1. Created' = {}
      BY <2>3 DEF Deploys, Counts, Created
    <3> QED BY <1>3, <1>5, <2>3, <3>1 DEF Deploys
  <2>4. ASSUME NEW p \in Projects, Founds(p)
        PROVE  /\ platform'.project_count = UpToLimit(Cardinality(Created'))
               /\ platform'.admin = NoKey => Created' = {}
    <3>1. /\ Seen'.project_count = SaturatingSucc(Seen.project_count)
          /\ Seen'.admin = Seen.admin
      BY <1>4, <2>4 DEF Founds
    <3>2. UpToLimit(Cardinality(Created')) = SaturatingSucc(UpToLimit(Cardinality(Created)))
      BY <2>4, AccountsFinite, OneMore DEF Founds
    <3> QED BY <1>3, <2>4, <3>1, <3>2 DEF Founds, Counts, Initialized
  <2> QED BY <2>1, <2>2, <2>3, <2>4
<1>7. /\ platform'.pool_count = UpToLimit(Cardinality(Existing'))
      /\ platform'.admin = NoKey => Existing' = {}
  <2>1. UNCHANGED <<SeenByPools, Existing>> \/ DeploysPools \/ \E q \in Pools : OpensPool(q)
    BY <1>1, PoolsStep, PoolKinds DEF Whole
  <2>2. CASE UNCHANGED <<SeenByPools, Existing>>
    BY <1>3, <2>2 DEF Counts, Initialized
  <2>3. CASE DeploysPools
    <3>1. Existing' = {}
      BY <2>3 DEF DeploysPools, Counts
    <3> QED BY <1>3, <1>5, <2>3, <3>1 DEF DeploysPools
  <2>4. ASSUME NEW q \in Pools, OpensPool(q)
        PROVE  /\ platform'.pool_count = UpToLimit(Cardinality(Existing'))
               /\ platform'.admin = NoKey => Existing' = {}
    <3>1. /\ SeenByPools'.pool_count = SaturatingSucc(SeenByPools.pool_count)
          /\ SeenByPools'.admin = SeenByPools.admin
      BY <1>4, <2>4 DEF OpensPool
    <3>2. UpToLimit(Cardinality(Existing')) = SaturatingSucc(UpToLimit(Cardinality(Existing)))
      BY <2>4, AccountsFinite, OneMore DEF OpensPool
    <3> QED BY <1>3, <2>4, <3>1, <3>2 DEF OpensPool, Counts, Initialized
  <2> QED BY <2>1, <2>2, <2>3, <2>4
<1> QED BY <1>6, <1>7 DEF Counts, Initialized

LEMMA OnBaselineStep ==
  ASSUME Whole, OnBaseline, [Next]_exiraVars
  PROVE  OnBaseline'
<1>1. /\ platform \in PlatformType
      /\ project \in [Projects -> ProjectsProofs!ProjectType]
  BY ProjectsTyped DEF Whole
<1>2. Continues \/ Deploys \/ \E p \in Projects : Founds(p)
  BY <1>1, ProjectsStep, ProjectKinds DEF Whole, ProjectsProofs!Inv, ProjectsProofs!TypeOK
<1>3. CASE Continues
  BY <1>3 DEF Continues, OnBaseline
<1>4. CASE Deploys
  BY <1>4 DEF Deploys, OnBaseline, Created
<1>5. ASSUME NEW p \in Projects, Founds(p) PROVE OnBaseline'
  BY <1>5 DEF Founds, OnBaseline
<1> QED BY <1>2, <1>3, <1>4, <1>5

\* The chain holds in every state these invariants describe: a project has a
\* retrofit with a baseline, which the registry says an auditor signed.
LEMMA ChainHolds == Whole /\ OnBaseline => BackedByRecord
<1> SUFFICES ASSUME Whole, OnBaseline PROVE BackedByRecord
  OBVIOUS
<1>1. RegistryProofs!RecordFollowsStatus /\ RegistryProofs!BlankUntilRegistered
  BY DEF Whole, RegistryProofs!Inv
<1>2. ASSUME NEW m \in Baselined
      PROVE  Registry!Registered(m) /\ baseline[m] \in auditors
  <2>1. m \in Retrofits /\ mrv[m].baseline_submitted
    BY DEF Baselined
  <2>2. RegistryProofs!Registered(m)
    BY <1>1, <2>1 DEF RegistryProofs!BlankUntilRegistered, RegistryProofs!NoMrvProject
  <2> QED BY <1>1, <2>1, <2>2, RegistryTypes DEF RegistryProofs!RecordFollowsStatus
<1>3. \A q \in Pools : links[q] \subseteq Created
  BY DEF Whole, PoolsProofs!Inv, PoolsProofs!Facts, PoolsProofs!Linked
<1> QED BY <1>2, <1>3 DEF BackedByRecord, OnBaseline

\* The invariant of the whole program.
LEMMA ExiraInvariant == Spec => [](Whole /\ Counts /\ OnBaseline)
<1>1. Init => Counts /\ OnBaseline
  <2> SUFFICES ASSUME Init PROVE Counts /\ OnBaseline
    OBVIOUS
  <2>1. platform = NoPlatform
    BY DEF Init, Issue!Init, Issue!NoPlatform, NoPlatform
  <2>2. Created = {} /\ Existing = {}
    BY DEF Init, Issue!Init, Issue!NoProject, Created, Fund!Init, Fund!NoPool,
       Existing, Fund!PoolExists
  <2>3. UpToLimit(Cardinality({})) = 0
    BY FS_EmptySet, WidthAssumption DEF UpToLimit
  <2> QED BY <2>1, <2>2, <2>3 DEF Counts, OnBaseline, NoPlatform
<1>2. Spec => []Whole
  BY WholeInvariant DEF Whole
<1>3. Whole /\ Whole' /\ Counts /\ OnBaseline /\ [Next]_exiraVars => Counts' /\ OnBaseline'
  BY CountsStep, OnBaselineStep
<1> QED BY <1>1, <1>2, <1>3, PTL DEF Spec

\* Behind every project, and every project a pool links to, stands a
\* registered retrofit whose baseline an authorized auditor signed.
THEOREM BackedByRecordTheorem == Spec => []BackedByRecord
BY ExiraInvariant, ChainHolds, PTL

\* The platform's two counters count projects and pools, until full, however
\* the creations interleave.
THEOREM CountersCountTheorem == Spec => []CountersCount
<1>1. Counts => CountersCount
  BY DEF Counts, CountersCount, UpToLimit, Existing
<1> QED BY <1>1, ExiraInvariant, PTL

(***************************************************************************)
(* The worth of what a holder has                                          *)
(***************************************************************************)
\* What i has and is owed, project by project and pool by pool.
Lots(i) == [p \in Projects |-> ProjectsProofs!Holding(p, i)]

Shares(i) == [q \in Pools |-> PoolsProofs!PoolHolding(q, i)]

WorthSplits ==
  \A i : Worth(i) = usdc[i] + SumFunction(Lots(i)) + SumFunction(Shares(i))

LEMMA WorthIsSum == WorthSplits
<1>1. ASSUME NEW p, NEW i
      PROVE  position[p][i].tokens_held + Issue!Due(p, i) = ProjectsProofs!Holding(p, i)
  <2>1. Issue!Due(p, i) = ProjectsProofs!Due(p, i)
    BY SameProject, SameViewArithmetic, Zenon DEF ProjectsView!Due, ProjectsProofs!Due
  <2> QED BY <2>1, Zenon DEF ProjectsProofs!Holding
<1>2. ASSUME NEW q, NEW i
      PROVE  stake[q][i].tokens_held + Fund!PoolDue(q, i) = PoolsProofs!PoolHolding(q, i)
  <2>1. PoolsView!OwedScaled(stake[q][i], pool[q].cumulative_usdc_per_token)
          = PoolsProofs!OwedScaled(stake[q][i], pool[q].cumulative_usdc_per_token)
    BY DEF PoolsView!OwedScaled, PoolsProofs!OwedScaled
  <2>2. Fund!PoolDue(q, i) = PoolsProofs!PoolDue(q, i)
    BY <2>1, SamePool, Zenon
       DEF PoolsView!PoolDue, PoolsProofs!PoolDue, PoolsView!Owed, PoolsProofs!Owed
  <2> QED BY <2>2, Zenon DEF PoolsProofs!PoolHolding
<1> QED BY <1>1, <1>2, Zenon DEF WorthSplits, Worth, Lots, Shares

WorthTyped ==
  \A i \in Wallets :
    /\ usdc[i] \in Nat
    /\ Lots(i) \in [Projects -> Nat] /\ Shares(i) \in [Pools -> Nat]

LEMMA WholeTyped == Whole => WorthTyped
<1> SUFFICES ASSUME Whole, NEW i \in Wallets
             PROVE  /\ usdc[i] \in Nat
                    /\ Lots(i) \in [Projects -> Nat] /\ Shares(i) \in [Pools -> Nat]
  BY DEF WorthTyped
<1>1. usdc[i] \in Nat
  BY ProjectsTyped, LedgerAssumption DEF Whole
<1>2. \A p \in Projects : ProjectsProofs!Holding(p, i) \in Nat
  BY ProjectsGround, ProjectsProofs!HoldingType DEF Whole
<1>3. \A q \in Pools : PoolsProofs!PoolHolding(q, i) \in Nat
  BY PoolsGround, PoolsProofs!PoolHoldingType DEF Whole
<1> QED BY <1>1, <1>2, <1>3 DEF Lots, Shares

\* When one value of a function changes, so does its total.
LEMMA OneValue ==
  ASSUME NEW I, IsFiniteSet(I), NEW f \in [I -> Nat], NEW g \in [I -> Nat],
         NEW k \in I, \A r \in I \ {k} : g[r] = f[r]
  PROVE  /\ SumFunction(f) \in Nat /\ SumFunction(g) \in Nat
         /\ SumFunction(g) = SumFunction(f) + g[k] - f[k]
<1>1. g = [f EXCEPT ![k] = g[k]]
  OBVIOUS
<1> QED BY <1>1, SumUpdate, SumType

\* A step that is fair to i's lots and leaves its shares alone, or the other
\* way round, keeps its worth.
LEMMA FairKeepsWorth ==
  ASSUME WorthTyped, WorthTyped', NEW i \in Wallets,
         \/ ProjectsProofs!FairTo(i) /\ UNCHANGED Shares(i)
         \/ PoolsProofs!PoolFairTo(i) /\ UNCHANGED Lots(i)
  PROVE  Worth(i)' >= Worth(i)
<1>1. /\ usdc[i] \in Nat /\ usdc'[i] \in Nat
      /\ Lots(i) \in [Projects -> Nat] /\ Lots(i)' \in [Projects -> Nat]
      /\ Shares(i) \in [Pools -> Nat] /\ Shares(i)' \in [Pools -> Nat]
  BY DEF WorthTyped
<1>2. IsFiniteSet(Projects) /\ IsFiniteSet(Pools)
  BY Apart, LedgerAssumption, FS_Subset
<1>3. /\ SumFunction(Lots(i)) \in Nat /\ SumFunction(Lots(i))' \in Nat
      /\ SumFunction(Shares(i)) \in Nat /\ SumFunction(Shares(i))' \in Nat
  BY <1>1, <1>2, SumType
<1>4. WorthSplits /\ WorthSplits'
  BY WorthIsSum, PTL
<1>5. /\ Worth(i) = usdc[i] + SumFunction(Lots(i)) + SumFunction(Shares(i))
      /\ Worth(i)' = usdc'[i] + SumFunction(Lots(i))' + SumFunction(Shares(i))'
  BY <1>4 DEF WorthSplits
<1>6. CASE ProjectsProofs!FairTo(i) /\ UNCHANGED Shares(i)
  <2>1. CASE /\ \A p \in Projects : ProjectsProofs!Holding(p, i)' = ProjectsProofs!Holding(p, i)
             /\ usdc'[i] >= usdc[i]
    <3>1. Lots(i)' = Lots(i)
      BY <2>1 DEF Lots
    <3> QED BY <1>1, <1>3, <1>5, <1>6, <2>1, <3>1
  <2>2. ASSUME NEW p \in Projects,
               \A r \in Projects \ {p} :
                 ProjectsProofs!Holding(r, i)' = ProjectsProofs!Holding(r, i),
               usdc'[i] + ProjectsProofs!Holding(p, i)'
                 >= usdc[i] + ProjectsProofs!Holding(p, i)
        PROVE  Worth(i)' >= Worth(i)
    <3>1. /\ \A r \in Projects \ {p} : Lots(i)'[r] = Lots(i)[r]
          /\ usdc'[i] + Lots(i)'[p] >= usdc[i] + Lots(i)[p]
      BY <2>2 DEF Lots
    <3>2. SumFunction(Lots(i))' = SumFunction(Lots(i)) + Lots(i)'[p] - Lots(i)[p]
      BY <1>1, <1>2, <3>1, OneValue
    <3>3. Lots(i)[p] \in Nat /\ Lots(i)'[p] \in Nat
      BY <1>1
    <3> QED BY <1>1, <1>3, <1>5, <1>6, <3>1, <3>2, <3>3
  <2> QED BY <1>6, <2>1, <2>2, Zenon DEF ProjectsProofs!FairTo
<1>7. CASE PoolsProofs!PoolFairTo(i) /\ UNCHANGED Lots(i)
  <2>1. CASE /\ \A q \in Pools : PoolsProofs!PoolHolding(q, i)' = PoolsProofs!PoolHolding(q, i)
             /\ usdc'[i] >= usdc[i]
    <3>1. Shares(i)' = Shares(i)
      BY <2>1 DEF Shares
    <3> QED BY <1>1, <1>3, <1>5, <1>7, <2>1, <3>1
  <2>2. ASSUME NEW q \in Pools,
               \A r \in Pools \ {q} :
                 PoolsProofs!PoolHolding(r, i)' = PoolsProofs!PoolHolding(r, i),
               usdc'[i] + PoolsProofs!PoolHolding(q, i)'
                 >= usdc[i] + PoolsProofs!PoolHolding(q, i)
        PROVE  Worth(i)' >= Worth(i)
    <3>1. /\ \A r \in Pools \ {q} : Shares(i)'[r] = Shares(i)[r]
          /\ usdc'[i] + Shares(i)'[q] >= usdc[i] + Shares(i)[q]
      BY <2>2 DEF Shares
    <3>2. SumFunction(Shares(i))' = SumFunction(Shares(i)) + Shares(i)'[q] - Shares(i)[q]
      BY <1>1, <1>2, <3>1, OneValue
    <3>3. Shares(i)[q] \in Nat /\ Shares(i)'[q] \in Nat
      BY <1>1
    <3> QED BY <1>1, <1>3, <1>5, <1>7, <3>1, <3>2, <3>3
  <2> QED BY <1>7, <2>1, <2>2, Zenon DEF PoolsProofs!PoolFairTo
<1> QED BY <1>6, <1>7

\* The steps of each component, for a holder who is neither the
\* administrator nor sends USDC away itself.
LEMMA LotsKept ==
  ASSUME NEW i, UNCHANGED <<project, position>>
  PROVE  UNCHANGED Lots(i)
BY DEF Lots, ProjectsProofs!Holding, ProjectsProofs!Due, ProjectsProofs!Owed,
       ProjectsProofs!OwedScaled

LEMMA SharesKept ==
  ASSUME NEW i, UNCHANGED <<pool, stake>>
  PROVE  UNCHANGED Shares(i)
BY DEF Shares, PoolsProofs!PoolHolding, PoolsProofs!PoolDue, PoolsProofs!Owed,
       PoolsProofs!OwedScaled

LEMMA IssueFair ==
  ASSUME Whole, IssueNext, NEW i \in Wallets, i \notin Senders, i # platform.admin
  PROVE  ProjectsProofs!FairTo(i)
<1>1. /\ platform \in PlatformType /\ usdc \in [Accounts -> Nat]
      /\ i \in Accounts /\ usdc[i] \in Nat
  BY ProjectsTyped, LedgerAssumption DEF Whole
<1>2. CASE Issue!AdminNext
  <2>1. ProjectsProofs!AdminNext /\ i # Seen.admin
    BY <1>1, <1>2, IssueRefines, SameView, SeenPlatform
  <2> QED BY <2>1, ProjectsGround, ProjectsProofs!AdminFair DEF Whole, Seen
<1>3. CASE Issue!InvestorNext
  <2>1. ProjectsProofs!InvestorNext
    BY <1>1, <1>3, IssueRefines, SameView
  <2> QED BY <2>1, ProjectsGround, ProjectsProofs!InvestorFair DEF Whole
<1>4. ASSUME UNCHANGED <<project, position>>, usdc'[i] >= usdc[i]
      PROVE  ProjectsProofs!FairTo(i)
  BY <1>4 DEF ProjectsProofs!FairTo, ProjectsProofs!Holding, ProjectsProofs!Due,
     ProjectsProofs!Owed, ProjectsProofs!OwedScaled
<1>5. ASSUME NEW p, NEW from, NEW to, NEW amount,
             Issue!SendTokens(p, from, to, amount) \/ Issue!BurnTokens(p, from, amount)
      PROVE  ProjectsProofs!FairTo(i)
  BY <1>1, <1>4, <1>5 DEF Issue!SendTokens, Issue!BurnTokens
<1>6. ASSUME NEW from \in Senders, NEW to \in Accounts, NEW amount \in U64,
             Issue!SendUsdc(from, to, amount)
      PROVE  ProjectsProofs!FairTo(i)
  <2>1. from \in Accounts /\ i # from /\ amount \in Nat
    BY <1>6, ExiraAssumption, LedgerAssumption, WidthAssumption DEF U64
  <2>2. Transfer(from, to, amount)
    BY <1>6 DEF Issue!SendUsdc, Issue!Transfer, Transfer
  <2>3. usdc'[i] >= usdc[i]
    BY <1>1, <2>1, <2>2, TransferEffect
  <2> QED BY <1>4, <1>6, <2>3 DEF Issue!SendUsdc
<1>7. CASE Issue!HolderNext
  BY <1>5, <1>6, <1>7, SameWidths, Zenon DEF Issue!HolderNext
<1> QED BY <1>2, <1>3, <1>7 DEF IssueNext

LEMMA FundFair ==
  ASSUME Whole, FundNext, NEW i \in Wallets, i # platform.admin
  PROVE  PoolsProofs!PoolFairTo(i)
<1>1. platform \in PlatformType
  BY ProjectsTyped DEF Whole
<1>2. /\ PoolsProofs!PoolAdminNext \/ PoolsProofs!PoolInvestorNext
      /\ i # SeenByPools.admin
  BY <1>1, FundIsFund, SamePoolView, PoolPlatform
<1> QED BY <1>2, PoolsGround, PoolsProofs!PoolStepFair DEF Whole, SeenByPools

LEMMA WorthStep ==
  ASSUME Whole, Whole', [Next]_exiraVars
  PROVE  [\A i \in Wallets \ (Senders \cup {platform.admin}) :
            Worth(i)' >= Worth(i)]_exiraVars
<1> SUFFICES ASSUME Next, NEW i \in Wallets \ (Senders \cup {platform.admin})
             PROVE  Worth(i)' >= Worth(i)
  OBVIOUS
<1>1. WorthTyped /\ WorthTyped'
  <2>1. (Whole => WorthTyped) /\ (Whole => WorthTyped)'
    BY WholeTyped, PTL
  <2> QED BY <2>1
<1>2. CASE IssueNext
  <2>1. UNCHANGED Shares(i)
    BY <1>2, SharesKept DEF IssueNext, fundVars
  <2> QED BY <1>1, <1>2, <2>1, IssueFair, FairKeepsWorth
<1>3. CASE FundNext
  <2>1. UNCHANGED Lots(i)
    BY <1>3, LotsKept DEF FundNext, issueVars
  <2> QED BY <1>1, <1>3, <2>1, FundFair, FairKeepsWorth
<1>4. CASE RegistryNext
  <2>1. UNCHANGED Lots(i) /\ UNCHANGED Shares(i) /\ UNCHANGED usdc
    BY <1>4, LotsKept, SharesKept DEF RegistryNext, issueVars, fundVars
  <2>2. usdc'[i] >= usdc[i]
    BY <1>1, <2>1 DEF WorthTyped
  <2>3. ProjectsProofs!FairTo(i)
    BY <1>4, <2>2 DEF RegistryNext, issueVars, ProjectsProofs!FairTo,
       ProjectsProofs!Holding, ProjectsProofs!Due, ProjectsProofs!Owed,
       ProjectsProofs!OwedScaled
  <2> QED BY <1>1, <2>1, <2>3, FairKeepsWorth
<1> QED BY <1>2, <1>3, <1>4 DEF Next

\* No step of anyone leaves a holder with less, all components together: its
\* cash, and its tokens and claims at the price it paid.
THEOREM WorthNeverShrinksTheorem == Spec => WorthNeverShrinks
<1>1. Whole /\ Whole' /\ [Next]_exiraVars =>
        [\A i \in Wallets \ (Senders \cup {platform.admin}) :
           Worth(i)' >= Worth(i)]_exiraVars
  BY WorthStep
<1> QED BY <1>1, ExiraInvariant, PTL DEF Spec, WorthNeverShrinks
=============================================================================
