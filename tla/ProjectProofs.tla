---------------------------- MODULE ProjectProofs ----------------------------
(***************************************************************************)
(* Proofs about the project instructions, for every set of wallets,        *)
(* projects and MRV entries, every width and every PRECISION.              *)
(***************************************************************************)
EXTENDS ProjectProperties, LedgerProofs

USE DEF U64, U128

(***************************************************************************)
(* Arithmetic                                                              *)
(***************************************************************************)
\* A fee of at most 100% of the target fits where the target does.
LEMMA FeeAtMostTarget ==
  ASSUME NEW target \in Nat, platform \in PlatformType
  PROVE  /\ OriginationFee(target) \in Nat
         /\ OriginationFee(target) <= target
<1> DEFINE bps == platform.origination_fee_bps
<1>1. bps \in 0 .. 10000
  BY DEF PlatformType, NoPlatform, MAX_FEE_BPS
<1> HIDE DEF bps
<1>2. target * bps \in Nat /\ target * bps <= target * 10000
  BY <1>1
<1>3. (target * bps) \div 10000 \in Nat /\ (target * bps) \div 10000 <= target
  BY <1>2
<1> QED BY <1>3 DEF OriginationFee, MAX_FEE_BPS, bps

(***************************************************************************)
(* Type correctness                                                        *)
(***************************************************************************)
LEMMA InitType == Init => TypeOK
BY WidthAssumption, LedgerAssumption, PlatformAssumption
   DEF Init, TypeOK, NoPlatform, NoProject, NoPosition, PlatformType,
       ProjectType, PositionType, MAX_FEE_BPS

LEMMA MovedType ==
  ASSUME disbursed \in [Projects -> Int], NEW from, NEW to, NEW amount \in Nat
  PROVE  Moved(from, to, amount) \in [Projects -> Int]
BY DEF Moved

LEMMA StepType == TypeOK /\ [Next]_vars => TypeOK'
<1> SUFFICES ASSUME TypeOK, [Next]_vars PROVE TypeOK'
  OBVIOUS
<1>1. ASSUME NEW a \in Deployers, NEW t \in Treasuries, NEW bps \in FeeChoices,
             Deploy(a, t, bps)
      PROVE  TypeOK'
  <2>1. platform' \in PlatformType
    <3>1. a \in Wallets /\ t \in Wallets
      BY PlatformAssumption
    <3>2. bps \in 0 .. MAX_FEE_BPS
      BY <1>1, PlatformAssumption DEF Deploy, InitializePlatform, MAX_FEE_BPS
    <3>3. 0 \in U64
      BY WidthAssumption
    <3> QED BY <1>1, <3>1, <3>2, <3>3 DEF Deploy, InitializePlatform, PlatformType
  <2> QED BY <1>1, <2>1 DEF TypeOK, Deploy
<1>2. ASSUME NEW m \in MrvProjects, BaselineSubmitted(m)
      PROVE  TypeOK'
  BY <1>2 DEF TypeOK, BaselineSubmitted
<1>3. ASSUME NEW p \in Projects, NEW m \in MrvProjects, NEW target \in Targets,
             CreateProject(p, m, target)
      PROVE  TypeOK'
  <2>1. platform \in [admin : Wallets, treasury : Wallets,
                      origination_fee_bps : 0 .. MAX_FEE_BPS,
                      project_count : U64, pool_count : U64]
    BY <1>3 DEF TypeOK, CreateProject, PlatformType, NoPlatform, Initialized
  <2>2. SaturatingSucc(platform.project_count) \in U64
    BY <2>1, WidthAssumption DEF SaturatingSucc
  <2>3. platform' \in PlatformType
    BY <1>3, <2>1, <2>2 DEF CreateProject, PlatformType
  <2>4. NewProject(m, target) \in ProjectType
    BY WidthAssumption, ProjectAssumption DEF NewProject, ProjectType, Statuses
  <2>5. project' \in [Projects -> ProjectType]
    BY <1>3, <2>4 DEF TypeOK, CreateProject
  <2> QED BY <1>3, <2>3, <2>5 DEF TypeOK, CreateProject
<1>4. ASSUME NEW p \in Projects, ActivateProject(p)
      PROVE  TypeOK'
  <2> DEFINE fee == OriginationFee(project[p].target_amount)
  <2>1. fee \in U64
    <3>1. project[p].target_amount \in U64
      BY DEF TypeOK, ProjectType
    <3> QED BY <3>1, FeeAtMostTarget, WidthAssumption DEF TypeOK
  <2>2. usdc' \in [Accounts -> Nat]
    <3>1. platform.treasury \in Accounts
      BY <1>4, LedgerAssumption
         DEF ActivateProject, FullySold, TypeOK, PlatformType, Initialized, NoPlatform
    <3>2. CASE UNCHANGED usdc
      BY <3>2 DEF TypeOK
    <3>3. CASE Transfer(p, platform.treasury, fee)
      BY <2>1, <3>1, <3>3, TransferType, ProjectAssumption, WidthAssumption DEF TypeOK
    <3> QED BY <1>4, <3>2, <3>3 DEF ActivateProject, FullySold
  <2> HIDE DEF fee
  <2>3. project' = [project EXCEPT ![p] =
          [@ EXCEPT !.status = "Active", !.origination_fee_collected = fee]]
    BY <1>4 DEF ActivateProject, FullySold, fee
  <2>4. project' \in [Projects -> ProjectType]
    BY <2>1, <2>3 DEF TypeOK, ProjectType, Statuses
  <2> QED BY <1>4, <2>2, <2>4 DEF TypeOK, ActivateProject, FullySold
<1>5. ASSUME NEW p \in Projects, NEW amount \in U64, DistributeRepayment(p, amount)
      PROVE  TypeOK'
  <2>1. platform.admin \in Accounts /\ p \in Accounts /\ amount \in Nat
    BY <1>5, LedgerAssumption, ProjectAssumption, WidthAssumption
       DEF DistributeRepayment, Repayable, TypeOK, PlatformType, Initialized, NoPlatform
  <2>2. usdc' \in [Accounts -> Nat]
    BY <1>5, <2>1, TransferType DEF DistributeRepayment, Repayable, TypeOK
  <2> DEFINE cum == project[p].cumulative_usdc_per_token
                      + DeltaPerToken(amount, project[p].tokens_sold)
             total == project[p].total_distributed + amount
  <2>3. cum \in U128 /\ total \in U64
    BY <1>5 DEF DistributeRepayment, Repayable, DistributionFits
  <2>4. project' = [project EXCEPT ![p] =
          [@ EXCEPT !.cumulative_usdc_per_token = cum,
                    !.total_distributed = total, !.status = "Repaying"]]
    BY <1>5 DEF DistributeRepayment, Repayable, AfterDistribution
  <2> HIDE DEF cum, total
  <2>5. project' \in [Projects -> ProjectType]
    BY <2>3, <2>4 DEF TypeOK, ProjectType, Statuses
  <2> QED BY <1>5, <2>2, <2>5 DEF TypeOK, DistributeRepayment, Repayable
<1>6. ASSUME NEW p \in Projects, CloseProject(p)
      PROVE  TypeOK'
  BY <1>6 DEF TypeOK, CloseProject, Repayable, ProjectType, Statuses
<1>7. ASSUME NEW p \in Projects, NEW a \in Accounts, NEW amount \in U64,
             WithdrawProjectFunds(p, a, amount)
      PROVE  TypeOK'
  <2>1. usdc' \in [Accounts -> Nat]
    BY <1>7, TransferType, ProjectAssumption, WidthAssumption
       DEF WithdrawProjectFunds, TypeOK
  <2>2. disbursed' \in [Projects -> Int]
    BY <1>7, MovedType, WidthAssumption DEF WithdrawProjectFunds, TypeOK
  <2> QED BY <1>7, <2>1, <2>2 DEF TypeOK, WithdrawProjectFunds
<1>8. ASSUME NEW p \in Projects, NEW i \in Investors, NEW amount \in U64,
             BuyProjectTokens(p, i, amount)
      PROVE  TypeOK'
  <2>1. i \in Wallets /\ i \in Accounts /\ p \in Accounts /\ amount \in Nat
    BY LedgerAssumption, ProjectAssumption, WidthAssumption
  <2>2. usdc' \in [Accounts -> Nat]
    BY <1>8, <2>1, TransferType DEF BuyProjectTokens, TypeOK
  <2>3. tokens' \in [Projects -> [Wallets -> Nat]]
    BY <1>8, <2>1 DEF BuyProjectTokens, TypeOK
  <2>4. project' \in [Projects -> ProjectType]
    BY <1>8 DEF BuyProjectTokens, TypeOK, ProjectType
  <2>5. AfterBuy(position[p][i], i, project[p].cumulative_usdc_per_token, amount)
          \in PositionType
    <3>1. /\ position[p][i] \in PositionType
          /\ project[p].cumulative_usdc_per_token \in U128
          /\ position[p][i].tokens_held + amount \in U64
      BY <1>8, <2>1 DEF BuyProjectTokens, TypeOK, ProjectType
    <3> QED BY <2>1, <3>1, AfterBuyType
  <2>6. position' \in [Projects -> [Wallets -> PositionType]]
    BY <1>8, <2>1, <2>5 DEF BuyProjectTokens, TypeOK
  <2> QED BY <1>8, <2>2, <2>3, <2>4, <2>6 DEF TypeOK, BuyProjectTokens
<1>9. ASSUME NEW p \in Projects, NEW i \in Investors, WithdrawInvestment(p, i)
      PROVE  TypeOK'
  <2>1. i \in Wallets /\ i \in Accounts /\ p \in Accounts
    BY LedgerAssumption, ProjectAssumption
  <2> DEFINE amount == position[p][i].tokens_held
  <2>2. amount \in U64 /\ position[p][i] \in PositionType
    BY <2>1 DEF TypeOK, PositionType
  <2>3. usdc' \in [Accounts -> Nat]
    BY <1>9, <2>1, <2>2, TransferType, WidthAssumption DEF WithdrawInvestment, Refundable, Burned, TypeOK
  <2>4. tokens' \in [Projects -> [Wallets -> Nat]]
    BY <1>9, <2>1, <2>2, WidthAssumption DEF WithdrawInvestment, Refundable, Burned, TypeOK
  <2>5. position' \in [Projects -> [Wallets -> PositionType]]
    <3>1. [position[p][i] EXCEPT !.tokens_held = 0] \in PositionType
      BY <2>2, WidthAssumption DEF PositionType
    <3>2. position' = [position EXCEPT ![p][i] = [@ EXCEPT !.tokens_held = 0]]
      BY <1>9 DEF WithdrawInvestment, Refundable, Burned
    <3> QED BY <2>1, <3>1, <3>2 DEF TypeOK
  <2>6. project' \in [Projects -> ProjectType]
    <3>1. project[p].tokens_sold - amount \in U64
      BY <1>9, <2>2, WidthAssumption DEF WithdrawInvestment, Refundable, Burned, TypeOK, ProjectType
    <3>2. project' = [project EXCEPT ![p].tokens_sold = @ - amount]
      BY <1>9 DEF WithdrawInvestment, Refundable, Burned
    <3> QED BY <3>1, <3>2 DEF TypeOK, ProjectType
  <2> QED BY <1>9, <2>3, <2>4, <2>5, <2>6 DEF TypeOK, WithdrawInvestment, Refundable, Burned
<1>10. ASSUME NEW p \in Projects, NEW i \in Investors, ClaimProjectReturns(p, i)
       PROVE  TypeOK'
  <2>1. i \in Wallets /\ i \in Accounts /\ p \in Accounts
    BY LedgerAssumption, ProjectAssumption
  <2>2. Due(p, i) \in Nat
    BY <1>10, WidthAssumption DEF ClaimProjectReturns, ClaimFits, Due
  <2>3. usdc' \in [Accounts -> Nat]
    BY <1>10, <2>1, <2>2, TransferType DEF ClaimProjectReturns, TypeOK
  <2>4. AfterClaim(position[p][i], project[p].cumulative_usdc_per_token)
          \in PositionType
    <3>1. /\ position[p][i] \in PositionType
          /\ project[p].cumulative_usdc_per_token \in U128
          /\ position[p][i].total_claimed
               + Owed(position[p][i], project[p].cumulative_usdc_per_token) \in U64
      BY <1>10, <2>1 DEF ClaimProjectReturns, ClaimFits, TypeOK, ProjectType
    <3> QED BY <3>1 DEF AfterClaim, PositionType
  <2>5. position' \in [Projects -> [Wallets -> PositionType]]
    BY <1>10, <2>1, <2>4 DEF ClaimProjectReturns, TypeOK
  <2> QED BY <1>10, <2>3, <2>5 DEF TypeOK, ClaimProjectReturns
<1>11. ASSUME NEW p \in Projects, NEW from \in SplUsers, NEW to \in Wallets,
              NEW amount \in U64, SendTokens(p, from, to, amount)
       PROVE  TypeOK'
  <2>1. from \in Wallets /\ amount \in Nat
    BY ProjectAssumption, WidthAssumption
  <2>2. tokens' \in [Projects -> [Wallets -> Nat]]
    BY <1>11, <2>1 DEF SendTokens, TypeOK
  <2> QED BY <1>11, <2>2 DEF TypeOK, SendTokens
<1>12. ASSUME NEW p \in Projects, NEW from \in SplUsers, NEW amount \in U64,
              BurnTokens(p, from, amount)
       PROVE  TypeOK'
  <2>1. from \in Wallets /\ amount \in Nat
    BY ProjectAssumption, WidthAssumption
  <2>2. tokens' \in [Projects -> [Wallets -> Nat]]
    BY <1>12, <2>1 DEF BurnTokens, Burned, TypeOK
  <2> QED BY <1>12, <2>2 DEF TypeOK, BurnTokens, Burned
<1>13. ASSUME NEW from \in Senders, NEW to \in Accounts, NEW amount \in U64,
              SendUsdc(from, to, amount)
       PROVE  TypeOK'
  <2>1. from \in Accounts /\ amount \in Nat
    BY LedgerAssumption, ProjectAssumption, WidthAssumption
  <2>2. usdc' \in [Accounts -> Nat]
    BY <1>13, <2>1, TransferType DEF SendUsdc, TypeOK
  <2>3. disbursed' \in [Projects -> Int]
    BY <1>13, <2>1, MovedType DEF SendUsdc, TypeOK
  <2> QED BY <1>13, <2>2, <2>3 DEF TypeOK, SendUsdc
<1>14. CASE UNCHANGED vars
  BY <1>14 DEF TypeOK, vars
<1> QED
  BY <1>1, <1>2, <1>3, <1>4, <1>5, <1>6, <1>7, <1>8, <1>9, <1>10, <1>11, <1>12,
     <1>13, <1>14 DEF Next, AdminNext, InvestorNext, ExternalNext, HolderNext

\* In every reachable state each field holds a value of its Rust type and no
\* balance is negative: checked arithmetic is never bypassed.
THEOREM TypeCorrect == Spec => []TypeOK
BY InitType, StepType, PTL DEF Spec

(***************************************************************************)
(* The inductive invariant, project by project                             *)
(***************************************************************************)
SoldOut(p) ==
  ~Raising(p) =>
    /\ project[p].tokens_sold = project[p].target_amount
    /\ project[p].origination_fee_collected =
         OriginationFee(project[p].target_amount)

SharesInv(p) ==
  /\ project[p].tokens_sold = SumFunction(Held(p))
  /\ SoldOut(p)
  /\ LifeCycle(p)
  /\ AccumulatorBacked(p)

VaultInv(p) ==
  usdc[p] + disbursed[p] + project[p].origination_fee_collected
          + SumFunction(Claimed(p))
    = project[p].tokens_sold + project[p].total_distributed

SupplyInv(p) == SumFunction(tokens[p]) <= project[p].tokens_sold

Inv ==
  /\ TypeOK
  /\ \A p \in Projects : SharesInv(p) /\ VaultInv(p) /\ SupplyInv(p)

LEMMA InvIsAccounting == Inv <=> TypeOK /\ Accounting
BY DEF Inv, Accounting, SharesInv, VaultInv, SupplyInv, SoldOut, HeldIsSold,
       LifeCycle, SupplyWithinSold, ActivatedSoldOut, VaultAccounted

\* What a project's facts do not mention leaves them alone.
LEMMA SharesFrame ==
  ASSUME NEW p \in Projects, SharesInv(p), project'[p] = project[p],
         position'[p] = position[p], platform'.admin = platform.admin,
         platform'.origination_fee_bps = platform.origination_fee_bps
  PROVE  SharesInv(p)'
<1>1. Held(p)' = Held(p)
  BY DEF Held
<1> QED BY <1>1 DEF SharesInv, SoldOut, LifeCycle, AccumulatorBacked, Raising,
                    Exists, Initialized, OriginationFee

LEMMA VaultFrame ==
  ASSUME NEW p \in Projects, VaultInv(p), project'[p] = project[p],
         position'[p] = position[p], usdc'[p] + disbursed'[p] = usdc[p] + disbursed[p]
  PROVE  VaultInv(p)'
<1>1. Claimed(p)' = Claimed(p)
  BY DEF Claimed
<1> QED BY <1>1 DEF VaultInv

LEMMA SupplyFrame ==
  ASSUME NEW p \in Projects, SupplyInv(p), project'[p].tokens_sold = project[p].tokens_sold,
         tokens'[p] = tokens[p]
  PROVE  SupplyInv(p)'
BY DEF SupplyInv

LEMMA InitInv == Init => Inv
<1> SUFFICES ASSUME Init PROVE Inv
  OBVIOUS
<1>1. TypeOK
  BY InitType
<1>2. ASSUME NEW p \in Projects PROVE SharesInv(p) /\ VaultInv(p) /\ SupplyInv(p)
  <2>1. /\ project[p] = NoProject /\ usdc[p] = 0 /\ disbursed[p] = 0
        /\ tokens[p] = [i \in Wallets |-> 0]
        /\ position[p] = [i \in Wallets |-> NoPosition]
    BY LedgerAssumption, ProjectAssumption DEF Init
  <2>2. Held(p) = [i \in Wallets |-> 0] /\ Claimed(p) = [i \in Wallets |-> 0]
    BY <2>1 DEF Held, Claimed, NoPosition
  <2>3. SumFunction([i \in Wallets |-> 0]) = 0
    BY SumZero, WalletsFinite
  <2>4. AccumulatorBacked(p)
    BY <2>1, WidthAssumption DEF AccumulatorBacked, NoProject, NoPosition
  <2>5. LifeCycle(p) /\ SoldOut(p)
    BY <2>1 DEF LifeCycle, SoldOut, Raising, Exists, NoProject
  <2>6. SharesInv(p)
    BY <2>1, <2>2, <2>3, <2>4, <2>5 DEF SharesInv, NoProject
  <2>7. VaultInv(p) /\ SupplyInv(p)
    BY <2>1, <2>2, <2>3 DEF VaultInv, SupplyInv, NoProject
  <2> QED BY <2>6, <2>7
<1> QED BY <1>1, <1>2 DEF Inv

\* Steps that touch neither the accounts nor the positions of projects.
LEMMA PlainStep ==
  ASSUME Inv, TypeOK', UNCHANGED <<project, position, platform>>,
         \A p \in Projects : usdc'[p] + disbursed'[p] = usdc[p] + disbursed[p],
         \A p \in Projects : SupplyInv(p)'
  PROVE  Inv'
BY SharesFrame, VaultFrame DEF Inv

\* Transfers outside the project flows are booked as disbursed.
LEMMA MovedBalance ==
  ASSUME TypeOK, NEW from \in Accounts, NEW to \in Accounts, NEW amount \in Nat,
         Transfer(from, to, amount), disbursed' = Moved(from, to, amount),
         NEW p \in Projects
  PROVE  usdc'[p] + disbursed'[p] = usdc[p] + disbursed[p]
<1>1. p \in Accounts /\ usdc[p] \in Nat /\ disbursed[p] \in Int
  BY ProjectAssumption DEF TypeOK
<1>2. disbursed'[p] = disbursed[p] + (IF p = from THEN amount ELSE 0)
                                   - (IF p = to THEN amount ELSE 0)
  BY DEF Moved
<1>3. from # to /\ usdc \in [Accounts -> Nat]
  BY DEF Transfer, TypeOK
<1>4. /\ usdc'[from] = usdc[from] - amount
      /\ usdc'[to] = usdc[to] + amount
      /\ \A a \in Accounts \ {from, to} : usdc'[a] = usdc[a]
  BY <1>3, TransferEffect
<1> QED BY <1>1, <1>2, <1>3, <1>4

\* Sending tokens moves the supply; burning them lowers it.
LEMMA SendSupply ==
  ASSUME NEW t \in [Wallets -> Nat], NEW from \in Wallets, NEW to \in Wallets,
         from # to, NEW amount \in Nat, amount <= t[from]
  PROVE  SumFunction([t EXCEPT ![from] = @ - amount, ![to] = @ + amount])
           = SumFunction(t)
<1> DEFINE u == [t EXCEPT ![from] = t[from] - amount]
<1>1. t[from] - amount \in Nat /\ t[to] + amount \in Nat /\ SumFunction(t) \in Nat
  BY SumType, WalletsFinite
<1>2. u \in [Wallets -> Nat] /\ u[to] = t[to]
  BY <1>1
<1>3. SumFunction(u) = SumFunction(t) + (t[from] - amount) - t[from]
  BY <1>1, SumUpdate, WalletsFinite
<1>4. [t EXCEPT ![from] = @ - amount, ![to] = @ + amount]
        = [u EXCEPT ![to] = t[to] + amount]
  OBVIOUS
<1> HIDE DEF u
<1>5. SumFunction([u EXCEPT ![to] = t[to] + amount])
        = SumFunction(u) + (t[to] + amount) - u[to]
  BY <1>1, <1>2, SumUpdate, WalletsFinite
<1> QED BY <1>1, <1>2, <1>3, <1>4, <1>5

LEMMA DeployInv ==
  ASSUME Inv, TypeOK', NEW a, NEW t, NEW bps, Deploy(a, t, bps) PROVE Inv'
<1>1. ASSUME NEW p \in Projects
      PROVE  SharesInv(p)' /\ VaultInv(p)' /\ SupplyInv(p)'
  <2>1. project'[p] = project[p] /\ position'[p] = position[p]
    BY <1>1 DEF Deploy
  <2>2. ~Exists(p)
    BY <1>1 DEF Inv, SharesInv, LifeCycle, Deploy, InitializePlatform
  <2>3. Held(p)' = Held(p)
    BY <2>1 DEF Held
  <2>4. SharesInv(p)'
    BY <1>1, <2>1, <2>2, <2>3 DEF Inv, SharesInv, SoldOut, LifeCycle,
          AccumulatorBacked, Raising, Exists
  <2>5. VaultInv(p)' /\ SupplyInv(p)'
    BY <1>1, <2>1, VaultFrame, SupplyFrame DEF Inv, Deploy
  <2> QED BY <2>4, <2>5
<1> QED BY <1>1 DEF Inv

LEMMA ExternalInv ==
  ASSUME Inv, TypeOK', ExternalNext PROVE Inv'
<1>1. CASE \E m \in MrvProjects : BaselineSubmitted(m)
  BY <1>1, PlainStep, SupplyFrame DEF BaselineSubmitted, Inv
<1>2. ASSUME NEW p \in Projects, NEW from \in SplUsers, NEW to \in Wallets,
             NEW amount \in U64, SendTokens(p, from, to, amount)
      PROVE  Inv'
  <2>1. from \in Wallets /\ amount \in Nat /\ tokens[p] \in [Wallets -> Nat]
    BY ProjectAssumption, WidthAssumption DEF Inv, TypeOK
  <2>2. tokens'[p] = [tokens[p] EXCEPT ![from] = @ - amount, ![to] = @ + amount]
    BY <1>2, <2>1 DEF SendTokens, Inv, TypeOK
  <2>3. SumFunction(tokens'[p]) = SumFunction(tokens[p])
    BY <1>2, <2>1, <2>2, SendSupply DEF SendTokens
  <2>4. ASSUME NEW q \in Projects PROVE SupplyInv(q)'
    <3>1. CASE q = p
      BY <1>2, <2>3, <3>1 DEF SendTokens, SupplyInv, Inv
    <3>2. CASE q # p
      BY <1>2, <3>2, SupplyFrame DEF SendTokens, Inv, TypeOK
    <3> QED BY <3>1, <3>2
  <2> QED BY <1>2, <2>4, PlainStep DEF SendTokens
<1>3. ASSUME NEW p \in Projects, NEW from \in SplUsers, NEW amount \in U64,
             BurnTokens(p, from, amount)
      PROVE  Inv'
  <2>1. from \in Wallets /\ amount \in Nat /\ tokens[p] \in [Wallets -> Nat]
    BY ProjectAssumption, WidthAssumption DEF Inv, TypeOK
  <2>2. tokens'[p] = [tokens[p] EXCEPT ![from] = tokens[p][from] - amount]
    BY <1>3, <2>1 DEF BurnTokens, Burned, Inv, TypeOK
  <2>3. tokens[p][from] \in Nat /\ tokens[p][from] - amount \in Nat
    BY <1>3, <2>1 DEF BurnTokens, Burned
  <2>4. SumFunction(tokens'[p]) =
          SumFunction(tokens[p]) + (tokens[p][from] - amount) - tokens[p][from]
    BY <2>1, <2>2, <2>3, SumUpdate, WalletsFinite
  <2>5. SumFunction(tokens'[p]) <= SumFunction(tokens[p])
        /\ SumFunction(tokens[p]) \in Nat /\ SumFunction(tokens'[p]) \in Int
    BY <2>1, <2>3, <2>4, SumType, WalletsFinite
  <2>6. ASSUME NEW q \in Projects PROVE SupplyInv(q)'
    <3>1. CASE q = p
      <4>1. project'[p] = project[p] /\ project[p].tokens_sold \in Int
        BY <1>3, WidthAssumption DEF BurnTokens, Burned, Inv, TypeOK, ProjectType
      <4> QED BY <2>5, <3>1, <4>1 DEF SupplyInv, Inv
    <3>2. CASE q # p
      BY <1>3, <3>2, SupplyFrame DEF BurnTokens, Burned, Inv, TypeOK
    <3> QED BY <3>1, <3>2
  <2> QED BY <1>3, <2>6, PlainStep DEF BurnTokens, Burned
<1>4. ASSUME NEW from \in Senders, NEW to \in Accounts, NEW amount \in U64,
             SendUsdc(from, to, amount)
      PROVE  Inv'
  <2>1. from \in Accounts /\ amount \in Nat
    BY LedgerAssumption, ProjectAssumption, WidthAssumption
  <2> QED BY <1>4, <2>1, PlainStep, MovedBalance, SupplyFrame DEF SendUsdc, Inv
<1> QED BY <1>1, <1>2, <1>3, <1>4 DEF ExternalNext, HolderNext

LEMMA WithdrawProjectFundsInv ==
  ASSUME Inv, TypeOK', NEW p \in Projects, NEW a \in Accounts, NEW amount \in U64,
         WithdrawProjectFunds(p, a, amount)
  PROVE  Inv'
<1>1. p \in Accounts /\ amount \in Nat
  BY ProjectAssumption, WidthAssumption
<1> QED BY <1>1, PlainStep, MovedBalance, SupplyFrame DEF WithdrawProjectFunds, Inv

\* A transaction on project p leaves the facts about project q alone.
LEMMA OtherProject ==
  ASSUME Inv, NEW p \in Projects, NEW q \in Projects, q # p,
         project'[q] = project[q], position'[q] = position[q],
         tokens'[q] = tokens[q], usdc'[q] = usdc[q], UNCHANGED disbursed,
         platform'.admin = platform.admin,
         platform'.origination_fee_bps = platform.origination_fee_bps
  PROVE  SharesInv(q)' /\ VaultInv(q)' /\ SupplyInv(q)'
BY SharesFrame, VaultFrame, SupplyFrame DEF Inv

LEMMA CreateProjectInv ==
  ASSUME Inv, TypeOK', NEW p \in Projects, NEW m \in MrvProjects,
         NEW target \in Targets, CreateProject(p, m, target)
  PROVE  Inv'
<1>1. /\ platform'.admin = platform.admin
      /\ platform'.origination_fee_bps = platform.origination_fee_bps
  BY DEF CreateProject, Inv, TypeOK, PlatformType, NoPlatform
<1>2. ASSUME NEW q \in Projects, q # p
      PROVE  SharesInv(q)' /\ VaultInv(q)' /\ SupplyInv(q)'
  BY <1>1, <1>2, OtherProject DEF CreateProject, Inv, TypeOK
<1>3. /\ project'[p] = NewProject(m, target) /\ position'[p] = position[p]
      /\ tokens'[p] = tokens[p] /\ usdc'[p] = usdc[p]
      /\ disbursed'[p] = disbursed[p] /\ ~Exists(p)
      /\ target > 0 /\ target \in Nat
  BY ProjectAssumption, WidthAssumption DEF CreateProject, Inv, TypeOK
<1>4. /\ project[p].tokens_sold = 0 /\ project[p].total_distributed = 0
      /\ project[p].cumulative_usdc_per_token = 0
      /\ project[p].origination_fee_collected = 0
  <2>1. /\ project[p].tokens_sold <= project[p].target_amount
        /\ project[p].target_amount = 0 /\ Raising(p)
    BY <1>3 DEF Inv, SharesInv, LifeCycle, Raising, Exists
  <2>2. project[p].tokens_sold \in Nat
    BY WidthAssumption DEF Inv, TypeOK, ProjectType
  <2> QED BY <2>1, <2>2 DEF Inv, SharesInv, LifeCycle
<1>5. Held(p)' = Held(p) /\ Claimed(p)' = Claimed(p)
  BY <1>3 DEF Held, Claimed
<1>6. LifeCycle(p)' /\ SoldOut(p)'
  BY <1>1, <1>3 DEF LifeCycle, SoldOut, Raising, Exists, NewProject, Initialized,
                    CreateProject
<1>7. AccumulatorBacked(p)'
  BY <1>3, <1>4, WidthAssumption DEF AccumulatorBacked, NewProject, Inv, SharesInv
<1>8. SharesInv(p)'
  BY <1>3, <1>4, <1>5, <1>6, <1>7 DEF SharesInv, NewProject, Inv
<1>9. VaultInv(p)' /\ SupplyInv(p)'
  BY <1>3, <1>4, <1>5 DEF VaultInv, SupplyInv, NewProject, Inv
<1> QED BY <1>2, <1>8, <1>9 DEF Inv

LEMMA CloseProjectInv ==
  ASSUME Inv, TypeOK', NEW p \in Projects, CloseProject(p)
  PROVE  Inv'
<1>1. ASSUME NEW q \in Projects, q # p
      PROVE  SharesInv(q)' /\ VaultInv(q)' /\ SupplyInv(q)'
  BY <1>1, OtherProject DEF CloseProject, Repayable, Inv, TypeOK
<1>2. project'[p] = [project[p] EXCEPT !.status = "Completed"]
  BY DEF CloseProject, Repayable, Inv, TypeOK
<1>3. /\ project'[p].status = "Completed"
      /\ project'[p].target_amount = project[p].target_amount
      /\ project'[p].tokens_sold = project[p].tokens_sold
      /\ project'[p].total_distributed = project[p].total_distributed
      /\ project'[p].cumulative_usdc_per_token = project[p].cumulative_usdc_per_token
      /\ project'[p].origination_fee_collected = project[p].origination_fee_collected
  BY <1>2 DEF Inv, TypeOK, ProjectType
<1>4. /\ UNCHANGED <<usdc, platform, position, tokens, disbursed>>
      /\ ~Raising(p) /\ Exists(p)
  BY DEF CloseProject, Repayable, Raising, Exists
<1>5. Held(p)' = Held(p) /\ Claimed(p)' = Claimed(p)
  BY <1>4 DEF Held, Claimed
<1>6. SoldOut(p)' /\ LifeCycle(p)'
  BY <1>3, <1>4 DEF Inv, SharesInv, SoldOut, LifeCycle, Raising, Exists,
                    Initialized, OriginationFee
<1>7. AccumulatorBacked(p)'
  BY <1>3, <1>4 DEF Inv, SharesInv, AccumulatorBacked
<1>8. SharesInv(p)' /\ VaultInv(p)' /\ SupplyInv(p)'
  BY <1>3, <1>4, <1>5, <1>6, <1>7 DEF Inv, SharesInv, VaultInv, SupplyInv
<1> QED BY <1>1, <1>8 DEF Inv

LEMMA ActivateProjectInv ==
  ASSUME Inv, TypeOK', NEW p \in Projects, ActivateProject(p)
  PROVE  Inv'
<1> DEFINE fee == OriginationFee(project[p].target_amount)
<1>1. fee \in Nat /\ project[p].target_amount \in Nat /\ p \in Accounts
  BY FeeAtMostTarget, WidthAssumption, ProjectAssumption DEF Inv, TypeOK, ProjectType
<1>2. platform.treasury \in Wallets
  BY DEF ActivateProject, FullySold, Inv, TypeOK, PlatformType, Initialized, NoPlatform
<1>3. /\ usdc'[p] = usdc[p] - fee
      /\ \A q \in Projects \ {p} : usdc'[q] = usdc[q]
  <2>1. CASE fee = 0 /\ UNCHANGED usdc
    BY <2>1, <1>1 DEF Inv, TypeOK
  <2>2. CASE Transfer(p, platform.treasury, fee)
    <3>1. platform.treasury \in Accounts /\ platform.treasury \notin Projects
          /\ Projects \subseteq Accounts
      BY <1>2, LedgerAssumption, ProjectAssumption
    <3> HIDE DEF fee
    <3> QED BY <1>1, <2>2, <3>1, TransferEffect DEF Inv, TypeOK
  <2> QED BY <2>1, <2>2 DEF ActivateProject, FullySold
<1>4. ASSUME NEW q \in Projects, q # p
      PROVE  SharesInv(q)' /\ VaultInv(q)' /\ SupplyInv(q)'
  BY <1>3, <1>4, OtherProject DEF ActivateProject, FullySold, Inv, TypeOK
<1>5. project'[p] = [project[p] EXCEPT !.status = "Active",
                                       !.origination_fee_collected = fee]
  BY DEF ActivateProject, FullySold, Inv, TypeOK
<1> HIDE DEF fee
<1>6. /\ project'[p].status = "Active"
      /\ project'[p].target_amount = project[p].target_amount
      /\ project'[p].tokens_sold = project[p].tokens_sold
      /\ project'[p].total_distributed = project[p].total_distributed
      /\ project'[p].cumulative_usdc_per_token = project[p].cumulative_usdc_per_token
      /\ project'[p].origination_fee_collected = fee
  BY <1>5 DEF Inv, TypeOK, ProjectType
<1>7. /\ UNCHANGED <<platform, position, tokens, disbursed>>
      /\ Raising(p) /\ Exists(p) /\ project[p].tokens_sold = project[p].target_amount
  BY DEF ActivateProject, FullySold, Raising, Exists
<1>8. Held(p)' = Held(p) /\ Claimed(p)' = Claimed(p)
  BY <1>7 DEF Held, Claimed
<1>9. OriginationFee(project[p].target_amount)' = fee
  BY <1>6, <1>7 DEF OriginationFee, fee
<1>10. SoldOut(p)' /\ LifeCycle(p)'
  BY <1>6, <1>7, <1>9 DEF Inv, SharesInv, SoldOut, LifeCycle, Raising, Exists, Initialized
<1>11. AccumulatorBacked(p)'
  BY <1>6, <1>7 DEF Inv, SharesInv, AccumulatorBacked
<1>12. VaultInv(p)'
  <2>1. project[p].origination_fee_collected = 0
    BY <1>7 DEF Inv, SharesInv, LifeCycle
  <2>2. usdc[p] \in Int /\ disbursed[p] \in Int
    BY <1>1 DEF Inv, TypeOK
  <2>3. SumFunction(Claimed(p)) \in Int
    <3>1. Claimed(p) \in [Wallets -> Nat]
      BY WidthAssumption DEF Claimed, Inv, TypeOK, PositionType
    <3> QED BY <3>1, SumType, WalletsFinite
  <2> QED BY <1>1, <1>3, <1>6, <1>7, <1>8, <2>1, <2>2, <2>3 DEF Inv, VaultInv
<1>13. SharesInv(p)' /\ SupplyInv(p)'
  BY <1>6, <1>7, <1>8, <1>10, <1>11 DEF Inv, SharesInv, SupplyInv
<1> QED BY <1>4, <1>12, <1>13 DEF Inv

LEMMA DistributeRepaymentInv ==
  ASSUME Inv, TypeOK', NEW p \in Projects, NEW amount \in U64,
         DistributeRepayment(p, amount)
  PROVE  Inv'
<1> DEFINE delta == DeltaPerToken(amount, project[p].tokens_sold)
<1>1. amount \in Nat /\ p \in Accounts /\ Precision \in Nat
  BY WidthAssumption, ProjectAssumption
<1>2. platform.admin \in Wallets
  BY DEF DistributeRepayment, Repayable, Inv, TypeOK, PlatformType, Initialized, NoPlatform
<1>3. /\ usdc'[p] = usdc[p] + amount
      /\ \A q \in Projects \ {p} : usdc'[q] = usdc[q]
  <2>1. platform.admin \in Accounts /\ platform.admin \notin Projects
        /\ Projects \subseteq Accounts
    BY <1>2, LedgerAssumption, ProjectAssumption
  <2> QED BY <1>1, <2>1, TransferEffect DEF DistributeRepayment, Repayable, Inv, TypeOK
<1>4. ASSUME NEW q \in Projects, q # p
      PROVE  SharesInv(q)' /\ VaultInv(q)' /\ SupplyInv(q)'
  BY <1>3, <1>4, OtherProject DEF DistributeRepayment, Repayable, Inv, TypeOK
<1>5. /\ project[p].tokens_sold \in Nat /\ project[p].tokens_sold > 0
      /\ project[p].total_distributed \in Nat
      /\ project[p].cumulative_usdc_per_token \in Nat
  BY WidthAssumption DEF DistributeRepayment, Repayable, Inv, TypeOK, ProjectType
<1>6. /\ delta \in Nat
      /\ (project[p].cumulative_usdc_per_token + delta) * project[p].tokens_sold
           <= Precision * (project[p].total_distributed + amount)
  BY <1>1, <1>5, BackedIncrement DEF DeltaPerToken, Inv, SharesInv, AccumulatorBacked
<1>7. project'[p] = [project[p] EXCEPT
        !.cumulative_usdc_per_token = @ + delta,
        !.total_distributed = @ + amount, !.status = "Repaying"]
  BY DEF DistributeRepayment, Repayable, AfterDistribution, Inv, TypeOK
<1> HIDE DEF delta
<1>8. /\ project'[p].status = "Repaying"
      /\ project'[p].target_amount = project[p].target_amount
      /\ project'[p].tokens_sold = project[p].tokens_sold
      /\ project'[p].total_distributed = project[p].total_distributed + amount
      /\ project'[p].cumulative_usdc_per_token
           = project[p].cumulative_usdc_per_token + delta
      /\ project'[p].origination_fee_collected = project[p].origination_fee_collected
  BY <1>7 DEF Inv, TypeOK, ProjectType
<1>9. /\ UNCHANGED <<platform, position, tokens, disbursed>>
      /\ ~Raising(p) /\ Exists(p)
  BY DEF DistributeRepayment, Repayable, Raising, Exists
<1>10. Held(p)' = Held(p) /\ Claimed(p)' = Claimed(p)
  BY <1>9 DEF Held, Claimed
<1>11. SoldOut(p)' /\ LifeCycle(p)'
  BY <1>8, <1>9 DEF Inv, SharesInv, SoldOut, LifeCycle, Raising, Exists,
                    Initialized, OriginationFee
<1>12. AccumulatorBacked(p)'
  <2>1. ASSUME NEW i \in Wallets
        PROVE  position[p][i].last_claimed_per_token \in Nat
    BY WidthAssumption DEF Inv, TypeOK, PositionType
  <2>2. \A i \in Wallets : position[p][i].last_claimed_per_token
          <= project[p].cumulative_usdc_per_token + delta
    BY <1>5, <1>6, <2>1 DEF Inv, SharesInv, AccumulatorBacked
  <2> QED BY <1>6, <1>8, <1>9, <2>2 DEF Inv, SharesInv, AccumulatorBacked
<1>13. VaultInv(p)'
  <2>1. usdc[p] \in Int /\ disbursed[p] \in Int
        /\ project[p].origination_fee_collected \in Int
    BY <1>1, WidthAssumption DEF Inv, TypeOK, ProjectType
  <2>2. SumFunction(Claimed(p)) \in Int
    <3>1. Claimed(p) \in [Wallets -> Nat]
      BY WidthAssumption DEF Claimed, Inv, TypeOK, PositionType
    <3> QED BY <3>1, SumType, WalletsFinite
  <2>3. /\ usdc'[p] = usdc[p] + amount /\ disbursed'[p] = disbursed[p]
        /\ SumFunction(Claimed(p))' = SumFunction(Claimed(p))
    BY <1>3, <1>9, <1>10
  <2>4. usdc[p] + disbursed[p] + project[p].origination_fee_collected
          + SumFunction(Claimed(p))
          = project[p].tokens_sold + project[p].total_distributed
    BY DEF Inv, VaultInv
  <2>5. usdc'[p] + disbursed'[p] + project'[p].origination_fee_collected
          + SumFunction(Claimed(p))'
          = project'[p].tokens_sold + project'[p].total_distributed
    <3> DEFINE claimed == SumFunction(Claimed(p))
               claimedNext == SumFunction(Claimed(p))'
    <3>1. claimed \in Int /\ claimedNext = claimed
      BY <2>2, <2>3
    <3>2. usdc[p] + disbursed[p] + project[p].origination_fee_collected + claimed
            = project[p].tokens_sold + project[p].total_distributed
      BY <2>4
    <3> HIDE DEF claimed, claimedNext
    <3>3. usdc'[p] + disbursed'[p] + project'[p].origination_fee_collected
            + claimedNext
            = project'[p].tokens_sold + project'[p].total_distributed
      BY <1>1, <1>5, <1>8, <2>1, <2>3, <3>1, <3>2
    <3> QED BY <3>3 DEF claimedNext
  <2> QED BY <2>5 DEF VaultInv
<1>14. SharesInv(p)' /\ SupplyInv(p)'
  BY <1>8, <1>9, <1>10, <1>11, <1>12 DEF Inv, SharesInv, SupplyInv
<1> QED BY <1>4, <1>13, <1>14 DEF Inv

\* Before the first repayment nobody has claimed or can claim anything.
LEMMA RaisingClaims ==
  ASSUME Inv, NEW p \in Projects, Raising(p), NEW i \in Wallets
  PROVE  position[p][i].last_claimed_per_token = 0 /\ position[p][i].total_claimed = 0
<1>1. /\ position[p][i].last_claimed_per_token \in Nat
      /\ position[p][i].total_claimed \in Nat
      /\ position[p][i].tokens_held \in Nat
      /\ Precision \in Nat /\ Precision > 0
  BY WidthAssumption DEF Inv, TypeOK, PositionType
<1>2. position[p][i].last_claimed_per_token <= 0
  BY DEF Inv, SharesInv, LifeCycle, AccumulatorBacked
<1>3. position[p][i].last_claimed_per_token = 0
  BY <1>1, <1>2
<1>4. Precision * position[p][i].total_claimed <= 0
  BY <1>1, <1>3 DEF Inv, SharesInv, AccumulatorBacked
<1>5. ASSUME NEW c \in Nat, NEW k \in Nat, k > 0, k * c <= 0 PROVE c = 0
  BY <1>5
<1> QED BY <1>1, <1>3, <1>4, <1>5

\* A purchase or a withdrawal while the project raises funds: one position
\* and tokens_sold change by the same amount, and so do the vault and the
\* investor's tokens.
LEMMA RaisingStep ==
  ASSUME Inv, TypeOK', NEW p \in Projects, NEW i \in Wallets, NEW change \in Int,
         NEW np \in PositionType, project[p].status = "Funding",
         position' = [position EXCEPT ![p][i] = np],
         np.tokens_held = position[p][i].tokens_held + change,
         np.last_claimed_per_token = 0, np.total_claimed = 0,
         project' = [project EXCEPT ![p].tokens_sold = @ + change],
         project[p].tokens_sold + change <= project[p].target_amount,
         tokens' = [tokens EXCEPT ![p][i] = @ + change],
         usdc'[p] = usdc[p] + change,
         \A q \in Projects \ {p} : usdc'[q] = usdc[q],
         UNCHANGED <<platform, disbursed>>
  PROVE  Inv'
<1>1. ASSUME NEW q \in Projects, q # p
      PROVE  SharesInv(q)' /\ VaultInv(q)' /\ SupplyInv(q)'
  BY <1>1, OtherProject DEF Inv, TypeOK
<1>2. /\ position[p] \in [Wallets -> PositionType]
      /\ position'[p] = [position[p] EXCEPT ![i] = np]
      /\ position[p][i].total_claimed = 0
  BY RaisingClaims DEF Inv, TypeOK, Raising
<1>3. /\ project'[p].status = project[p].status
      /\ project'[p].target_amount = project[p].target_amount
      /\ project'[p].tokens_sold = project[p].tokens_sold + change
      /\ project'[p].total_distributed = project[p].total_distributed
      /\ project'[p].cumulative_usdc_per_token = project[p].cumulative_usdc_per_token
      /\ project'[p].origination_fee_collected = project[p].origination_fee_collected
  BY DEF Inv, TypeOK, ProjectType
<1>4. /\ SumFunction(HeldOf(position'[p])) = SumFunction(HeldOf(position[p]))
           + np.tokens_held - position[p][i].tokens_held
      /\ SumFunction(ClaimedOf(position'[p])) = SumFunction(ClaimedOf(position[p]))
           + np.total_claimed - position[p][i].total_claimed
  BY <1>2, PositionUpdate
<1>5. /\ HeldOf(position[p]) = Held(p) /\ HeldOf(position'[p]) = Held(p)'
      /\ ClaimedOf(position[p]) = Claimed(p) /\ ClaimedOf(position'[p]) = Claimed(p)'
  BY DEF HeldOf, ClaimedOf, Held, Claimed
<1>6. /\ SumFunction(Held(p)) \in Int /\ SumFunction(Claimed(p)) \in Int
      /\ position[p][i].tokens_held \in Int
  <2>1. Held(p) \in [Wallets -> Nat] /\ Claimed(p) \in [Wallets -> Nat]
    BY <1>2, WidthAssumption DEF Held, Claimed, PositionType
  <2>2. position[p][i].tokens_held \in Int
    BY <1>2, WidthAssumption DEF PositionType
  <2> QED BY <2>1, <2>2, SumType, WalletsFinite
<1>7. /\ SumFunction(Held(p)') = SumFunction(Held(p)) + change
      /\ SumFunction(Claimed(p)') = SumFunction(Claimed(p))
  BY <1>2, <1>4, <1>5, <1>6
<1>8. /\ project[p].cumulative_usdc_per_token = 0
      /\ project[p].total_distributed = 0
      /\ project[p].tokens_sold \in Nat /\ Raising(p) /\ Raising(p)'
  BY <1>3, WidthAssumption DEF Inv, TypeOK, ProjectType, SharesInv, LifeCycle, Raising
<1>9. SoldOut(p)' /\ LifeCycle(p)'
  BY <1>3, <1>8 DEF Inv, SharesInv, SoldOut, LifeCycle, Raising, Exists, Initialized
<1>10. AccumulatorBacked(p)'
  <2>1. ASSUME NEW j \in Wallets
        PROVE  /\ position'[p][j].last_claimed_per_token = 0
               /\ position'[p][j].total_claimed = 0
               /\ position'[p][j].tokens_held \in Nat
    <3>1. position'[p][j] \in PositionType
      BY DEF TypeOK
    <3>2. CASE j = i
      BY <1>2, <3>1, <3>2, WidthAssumption DEF PositionType
    <3>3. CASE j # i
      <4>1. position'[p][j] = position[p][j]
        BY <1>2, <3>3
      <4> QED BY <1>8, <3>1, <4>1, RaisingClaims, WidthAssumption DEF PositionType
    <3> QED BY <3>2, <3>3
  <2>2. project'[p].tokens_sold \in Nat
    BY WidthAssumption DEF TypeOK, ProjectType
  <2> QED BY <1>3, <1>8, <2>1, <2>2, WidthAssumption DEF AccumulatorBacked
<1>11. SharesInv(p)'
  BY <1>3, <1>7, <1>9, <1>10 DEF Inv, SharesInv
<1>12. VaultInv(p)'
  <2>1. /\ usdc[p] \in Int /\ disbursed[p] \in Int
        /\ project[p].origination_fee_collected \in Int
    BY WidthAssumption, ProjectAssumption DEF Inv, TypeOK, ProjectType
  <2> QED BY <1>3, <1>6, <1>7, <1>8, <2>1 DEF Inv, VaultInv
<1>13. SupplyInv(p)'
  <2>1. /\ tokens[p] \in [Wallets -> Nat] /\ tokens[p][i] + change \in Nat
        /\ tokens'[p] = [tokens[p] EXCEPT ![i] = tokens[p][i] + change]
    BY DEF Inv, TypeOK
  <2>2. SumFunction(tokens'[p]) =
          SumFunction(tokens[p]) + (tokens[p][i] + change) - tokens[p][i]
    BY <2>1, SumUpdate, WalletsFinite
  <2>3. SumFunction(tokens[p]) \in Int /\ tokens[p][i] \in Int
    BY <2>1, SumType, WalletsFinite
  <2> QED BY <1>3, <1>8, <2>2, <2>3 DEF Inv, SupplyInv
<1> QED BY <1>1, <1>11, <1>12, <1>13 DEF Inv

LEMMA BuyProjectTokensInv ==
  ASSUME Inv, TypeOK', NEW p \in Projects, NEW i \in Investors, NEW amount \in U64,
         BuyProjectTokens(p, i, amount)
  PROVE  Inv'
<1> DEFINE np == AfterBuy(position[p][i], i, project[p].cumulative_usdc_per_token,
                          amount)
<1>1. /\ i \in Wallets /\ i \in Accounts /\ i \notin Projects
      /\ p \in Accounts /\ Projects \subseteq Accounts /\ amount \in Nat
  BY LedgerAssumption, ProjectAssumption, WidthAssumption
<1>2. project[p].status = "Funding" /\ Raising(p)
  BY DEF BuyProjectTokens, Raising
<1>3. /\ position[p][i].last_claimed_per_token = 0
      /\ position[p][i].total_claimed = 0
      /\ project[p].cumulative_usdc_per_token = 0
      /\ position[p][i] \in PositionType
      /\ project[p].cumulative_usdc_per_token \in U128
  BY <1>1, <1>2, RaisingClaims DEF Inv, TypeOK, ProjectType, SharesInv, LifeCycle
<1>4. np \in PositionType
  BY <1>1, <1>3, AfterBuyType DEF BuyProjectTokens
<1>5. /\ np.tokens_held = position[p][i].tokens_held + amount
      /\ np.last_claimed_per_token = 0 /\ np.total_claimed = 0
  <2>1. CASE position[p][i].owner = NoKey
    BY <1>3, <2>1 DEF AfterBuy, Opened, PositionType
  <2>2. CASE position[p][i].owner # NoKey
    BY <1>3, <2>2 DEF AfterBuy, Opened, PositionType
  <2> QED BY <2>1, <2>2
<1>6. position' = [position EXCEPT ![p][i] = np]
  BY <1>1 DEF BuyProjectTokens, Inv, TypeOK
<1> HIDE DEF np
<1>7. /\ usdc'[p] = usdc[p] + amount
      /\ \A q \in Projects \ {p} : usdc'[q] = usdc[q]
  BY <1>1, TransferEffect DEF BuyProjectTokens, Inv, TypeOK
<1>8. project[p].tokens_sold + amount <= project[p].target_amount
  BY <1>1, WidthAssumption DEF BuyProjectTokens, Inv, TypeOK, ProjectType
<1>9. /\ project' = [project EXCEPT ![p].tokens_sold = @ + amount]
      /\ tokens' = [tokens EXCEPT ![p][i] = @ + amount]
      /\ UNCHANGED <<platform, disbursed>> /\ amount \in Int
  BY <1>1 DEF BuyProjectTokens
<1> QED BY <1>1, <1>2, <1>4, <1>5, <1>6, <1>7, <1>8, <1>9, RaisingStep

LEMMA WithdrawInvestmentInv ==
  ASSUME Inv, TypeOK', NEW p \in Projects, NEW i \in Investors,
         WithdrawInvestment(p, i)
  PROVE  Inv'
<1> DEFINE np == [position[p][i] EXCEPT !.tokens_held = 0]
           held == position[p][i].tokens_held
           change == 0 - held
<1>1. /\ i \in Wallets /\ i \in Accounts /\ i \notin Projects
      /\ p \in Accounts /\ Projects \subseteq Accounts
  BY LedgerAssumption, ProjectAssumption
<1>2. project[p].status = "Funding" /\ Raising(p)
  BY DEF WithdrawInvestment, Refundable, Burned, Raising, Inv, SharesInv, LifeCycle
<1>3. /\ position[p][i].last_claimed_per_token = 0
      /\ position[p][i].total_claimed = 0
      /\ position[p][i] \in PositionType
      /\ held \in Nat /\ change \in Int
  BY <1>1, <1>2, RaisingClaims, WidthAssumption DEF Inv, TypeOK, PositionType
<1>4. /\ np \in PositionType /\ np.tokens_held = held + change
      /\ np.last_claimed_per_token = 0 /\ np.total_claimed = 0
  BY <1>3, WidthAssumption DEF PositionType
<1>5. position' = [position EXCEPT ![p][i] = np]
  BY <1>1 DEF WithdrawInvestment, Refundable, Burned, Inv, TypeOK
<1>6. /\ usdc'[p] = usdc[p] - held
      /\ \A q \in Projects \ {p} : usdc'[q] = usdc[q]
  BY <1>1, <1>3, TransferEffect DEF WithdrawInvestment, Refundable, Burned, Inv, TypeOK
<1>7. /\ project' = [project EXCEPT ![p].tokens_sold = @ - held]
      /\ tokens' = [tokens EXCEPT ![p][i] = @ - held]
      /\ UNCHANGED <<platform, disbursed>>
  BY DEF WithdrawInvestment, Refundable, Burned
<1>8. /\ project[p].tokens_sold \in Nat /\ tokens[p][i] \in Nat /\ usdc[p] \in Nat
      /\ project[p].tokens_sold <= project[p].target_amount
      /\ project[p].target_amount \in Nat
  BY <1>1, WidthAssumption DEF Inv, TypeOK, ProjectType, SharesInv, LifeCycle
<1> HIDE DEF np, held
<1>9. /\ project[p].tokens_sold - held = project[p].tokens_sold + change
      /\ tokens[p][i] - held = tokens[p][i] + change
      /\ usdc[p] - held = usdc[p] + change
      /\ project[p].tokens_sold + change <= project[p].target_amount
  BY <1>3, <1>8
<1>10. /\ project' = [project EXCEPT ![p].tokens_sold = @ + change]
       /\ tokens' = [tokens EXCEPT ![p][i] = @ + change]
       /\ usdc'[p] = usdc[p] + change
  BY <1>6, <1>7, <1>9
<1> HIDE DEF change
<1> QED BY <1>1, <1>2, <1>3, <1>4, <1>5, <1>6, <1>7, <1>9, <1>10, RaisingStep DEF held

LEMMA EntitlementBacked ==
  ASSUME Inv, NEW p \in Projects, NEW i \in Wallets
  PROVE  /\ OwedScaled(position[p][i], project[p].cumulative_usdc_per_token) \in Nat
         /\ Due(p, i) \in Nat /\ Entitlement(p, i) \in Nat
         /\ Precision * Entitlement(p, i)
              <= position[p][i].tokens_held * project[p].cumulative_usdc_per_token
<1>1. /\ position[p][i].tokens_held \in Nat
      /\ position[p][i].last_claimed_per_token \in Nat
      /\ position[p][i].total_claimed \in Nat
      /\ project[p].cumulative_usdc_per_token \in Nat
      /\ Precision \in Nat /\ Precision > 0
  BY WidthAssumption DEF Inv, TypeOK, PositionType, ProjectType
<1>2. /\ position[p][i].last_claimed_per_token <= project[p].cumulative_usdc_per_token
      /\ Precision * position[p][i].total_claimed
           <= position[p][i].tokens_held * position[p][i].last_claimed_per_token
  BY DEF Inv, SharesInv, AccumulatorBacked
<1> DEFINE held == position[p][i].tokens_held
           last == position[p][i].last_claimed_per_token
           claimed == position[p][i].total_claimed
           cum == project[p].cumulative_usdc_per_token
<1>3. /\ OwedScaled(position[p][i], cum) = held * (cum - last)
      /\ Due(p, i) = (held * (cum - last)) \div Precision
      /\ Entitlement(p, i) = claimed + Due(p, i)
  BY DEF OwedScaled, Due, Owed, Entitlement
<1> HIDE DEF held, last, claimed, cum
<1>4. /\ held * (cum - last) \in Nat
      /\ (held * (cum - last)) \div Precision \in Nat
      /\ Precision * (claimed + (held * (cum - last)) \div Precision) <= held * cum
  BY <1>1, <1>2, OwedBacked DEF held, last, claimed, cum
<1>5. Entitlement(p, i) \in Nat
  BY <1>1, <1>3, <1>4 DEF claimed
<1> QED BY <1>3, <1>4, <1>5 DEF held, cum

LEMMA ClaimProjectReturnsInv ==
  ASSUME Inv, TypeOK', NEW p \in Projects, NEW i \in Investors,
         ClaimProjectReturns(p, i)
  PROVE  Inv'
<1> DEFINE cum == project[p].cumulative_usdc_per_token
           np == AfterClaim(position[p][i], cum)
<1>1. /\ i \in Wallets /\ i \in Accounts /\ i \notin Projects
      /\ p \in Accounts /\ Projects \subseteq Accounts
  BY LedgerAssumption, ProjectAssumption
<1>2. /\ Due(p, i) \in Nat
      /\ Precision * Entitlement(p, i) <= position[p][i].tokens_held * cum
  BY <1>1, EntitlementBacked
<1>3. /\ usdc'[p] = usdc[p] - Due(p, i)
      /\ \A q \in Projects \ {p} : usdc'[q] = usdc[q]
  BY <1>1, <1>2, TransferEffect DEF ClaimProjectReturns, Inv, TypeOK
<1>4. ASSUME NEW q \in Projects, q # p
      PROVE  SharesInv(q)' /\ VaultInv(q)' /\ SupplyInv(q)'
  BY <1>3, <1>4, OtherProject DEF ClaimProjectReturns, Inv, TypeOK
<1>5. /\ position[p] \in [Wallets -> PositionType]
      /\ position'[p] = [position[p] EXCEPT ![i] = np]
      /\ position'[p] \in [Wallets -> PositionType]
  BY <1>1 DEF ClaimProjectReturns, Inv, TypeOK
<1>6. np \in PositionType
  BY <1>1, <1>5
<1>7. /\ np.tokens_held = position[p][i].tokens_held
      /\ np.last_claimed_per_token = cum
      /\ np.total_claimed = Entitlement(p, i)
  BY <1>1, <1>5 DEF AfterClaim, PositionType, Entitlement, Due
<1> HIDE DEF np
<1>8. UNCHANGED <<platform, project, tokens, disbursed>>
  BY DEF ClaimProjectReturns
<1>9. /\ SumFunction(HeldOf(position'[p])) = SumFunction(HeldOf(position[p]))
           + np.tokens_held - position[p][i].tokens_held
      /\ SumFunction(ClaimedOf(position'[p])) = SumFunction(ClaimedOf(position[p]))
           + np.total_claimed - position[p][i].total_claimed
  BY <1>1, <1>5, <1>6, PositionUpdate
<1>10. /\ HeldOf(position[p]) = Held(p) /\ HeldOf(position'[p]) = Held(p)'
       /\ ClaimedOf(position[p]) = Claimed(p) /\ ClaimedOf(position'[p]) = Claimed(p)'
  BY DEF HeldOf, ClaimedOf, Held, Claimed
<1>11. /\ SumFunction(Held(p)) \in Int /\ SumFunction(Claimed(p)) \in Int
       /\ position[p][i].tokens_held \in Int /\ position[p][i].total_claimed \in Int
  <2>1. Held(p) \in [Wallets -> Nat] /\ Claimed(p) \in [Wallets -> Nat]
    BY <1>5, WidthAssumption DEF Held, Claimed, PositionType
  <2>2. position[p][i].tokens_held \in Int /\ position[p][i].total_claimed \in Int
    BY <1>1, <1>5, WidthAssumption DEF PositionType
  <2> QED BY <2>1, <2>2, SumType, WalletsFinite
<1>12. /\ SumFunction(Held(p)') = SumFunction(Held(p))
       /\ SumFunction(Claimed(p)') = SumFunction(Claimed(p)) + Due(p, i)
  BY <1>2, <1>7, <1>9, <1>10, <1>11 DEF Entitlement
<1>13. AccumulatorBacked(p)'
  <2>1. ASSUME NEW j \in Wallets
        PROVE  /\ position'[p][j].last_claimed_per_token <= cum
               /\ Precision * position'[p][j].total_claimed
                    <= position'[p][j].tokens_held * position'[p][j].last_claimed_per_token
    <3>1. CASE j = i
      <4>1. cum \in Int
        BY WidthAssumption DEF Inv, TypeOK, ProjectType
      <4>2. position'[p][j] = np
        BY <1>1, <1>5, <3>1
      <4> QED BY <1>2, <1>7, <4>1, <4>2
    <3>2. CASE j # i
      <4>1. position'[p][j] = position[p][j]
        BY <1>5, <3>2
      <4> QED BY <4>1 DEF Inv, SharesInv, AccumulatorBacked
    <3> QED BY <3>1, <3>2
  <2> QED BY <1>8, <2>1 DEF Inv, SharesInv, AccumulatorBacked
<1>14. SharesInv(p)'
  BY <1>8, <1>12, <1>13 DEF Inv, SharesInv, SoldOut, LifeCycle, Raising, Exists,
                            Initialized, OriginationFee
<1>15. VaultInv(p)'
  <2>1. /\ usdc[p] \in Int /\ disbursed[p] \in Int
        /\ project[p].origination_fee_collected \in Int
        /\ project[p].tokens_sold \in Int /\ project[p].total_distributed \in Int
    BY <1>1, WidthAssumption DEF Inv, TypeOK, ProjectType
  <2> QED BY <1>2, <1>3, <1>8, <1>11, <1>12, <2>1 DEF Inv, VaultInv
<1>16. SupplyInv(p)'
  BY <1>8, SupplyFrame DEF Inv
<1> QED BY <1>4, <1>14, <1>15, <1>16 DEF Inv

LEMMA StepInv == Inv /\ [Next]_vars => Inv'
<1> SUFFICES ASSUME Inv, [Next]_vars PROVE Inv'
  OBVIOUS
<1>1. TypeOK'
  BY StepType DEF Inv
<1>2. CASE AdminNext
  BY <1>1, <1>2, DeployInv, CreateProjectInv, ActivateProjectInv, CloseProjectInv,
     DistributeRepaymentInv, WithdrawProjectFundsInv DEF AdminNext
<1>3. CASE InvestorNext
  BY <1>1, <1>3, BuyProjectTokensInv, WithdrawInvestmentInv,
     ClaimProjectReturnsInv DEF InvestorNext
<1>4. CASE ExternalNext
  BY <1>1, <1>4, ExternalInv
<1>5. CASE UNCHANGED vars
  BY <1>1, <1>5, PlainStep, SupplyFrame DEF vars, Inv
<1> QED BY <1>2, <1>3, <1>4, <1>5 DEF Next

LEMMA InvInvariant == Spec => []Inv
BY InitInv, StepInv, PTL DEF Spec

\* In every reachable state the books of every project balance: tokens_sold
\* is the sum of the positions and covers the circulating supply, the vault
\* is accounted for to the last unit, an activated project was sold out, and
\* claims are backed by the accumulator, which is backed by repayments.
THEOREM AccountingInvariant == Spec => []Accounting
<1>1. Inv => Accounting
  BY InvIsAccounting
<1> QED BY <1>1, InvInvariant, PTL

\* The divisor of every distribution is what the positions hold, through any
\* interleaving of purchases, top-ups and withdrawals, and however they race
\* for the last tokens it stays within the target.
THEOREM HeldIsSoldTheorem == Spec => []HeldIsSold
<1>1. Accounting => HeldIsSold
  BY DEF Accounting
<1> QED BY <1>1, AccountingInvariant, PTL

\* However holders send and burn their tokens, no more of them circulate than
\* the program counts as sold.
THEOREM SupplyWithinSoldTheorem == Spec => []SupplyWithinSold
<1>1. Accounting => SupplyWithinSold
  BY DEF Accounting
<1> QED BY <1>1, AccountingInvariant, PTL

\* A project that left Funding was sold out exactly and paid its fee.
THEOREM ActivatedSoldOutTheorem == Spec => []ActivatedSoldOut
<1>1. Accounting => ActivatedSoldOut
  BY DEF Accounting
<1> QED BY <1>1, AccountingInvariant, PTL

\* Every USDC that entered a project's vault is there, or left as the fee, a
\* claim or a disbursement.
THEOREM VaultAccountedTheorem == Spec => []VaultAccounted
<1>1. Accounting => VaultAccounted
  BY DEF Accounting
<1> QED BY <1>1, AccountingInvariant, PTL
=============================================================================
