------------------------- MODULE ProjectSafetyProofs -------------------------
(***************************************************************************)
(* What follows from the accounting invariant: no one is paid more than    *)
(* was distributed, arithmetic never blocks a claim, vaults are solvent.   *)
(***************************************************************************)
EXTENDS ProjectProofs

USE DEF U64, U128

\* The types of everything the arithmetic below is about.
LEMMA ProjectNumbers ==
  ASSUME Inv, NEW p \in Projects
  PROVE  /\ project[p].tokens_sold \in Nat
         /\ project[p].total_distributed \in Nat
         /\ project[p].total_distributed <= MaxU64
         /\ project[p].cumulative_usdc_per_token \in Nat
         /\ Precision \in Nat /\ Precision > 0 /\ Precision <= MaxU64
         /\ MaxU64 \in Nat /\ MaxU128 = (MaxU64 + 1) * (MaxU64 + 1) - 1
         /\ Held(p) \in [Wallets -> Nat] /\ Claimed(p) \in [Wallets -> Nat]
         /\ \A i \in Wallets : /\ position[p][i].tokens_held \in Nat
                               /\ position[p][i].total_claimed \in Nat
<1>1. project[p] \in ProjectType /\ position[p] \in [Wallets -> PositionType]
  BY DEF Inv, TypeOK
<1>2. /\ project[p].tokens_sold \in Nat
      /\ project[p].total_distributed \in Nat
      /\ project[p].total_distributed <= MaxU64
      /\ project[p].cumulative_usdc_per_token \in Nat
  BY <1>1, WidthAssumption DEF ProjectType
<1>3. /\ Precision \in Nat /\ Precision > 0 /\ Precision <= MaxU64
      /\ MaxU64 \in Nat /\ MaxU128 = (MaxU64 + 1) * (MaxU64 + 1) - 1
  BY WidthAssumption
<1>4. \A i \in Wallets : /\ position[p][i].tokens_held \in Nat
                         /\ position[p][i].total_claimed \in Nat
  BY <1>1, WidthAssumption DEF PositionType
<1>5. Held(p) \in [Wallets -> Nat] /\ Claimed(p) \in [Wallets -> Nat]
  BY <1>4 DEF Held, Claimed
<1> QED BY <1>2, <1>3, <1>4, <1>5

\* No position holds more than was sold.
LEMMA HeldAtMostSold ==
  ASSUME Inv, NEW p \in Projects, NEW i \in Wallets
  PROVE  position[p][i].tokens_held <= project[p].tokens_sold
<1>1. Held(p)[i] <= SumFunction(Held(p))
  BY ProjectNumbers, SumMember, WalletsFinite
<1> QED BY <1>1 DEF Held, Inv, SharesInv

LEMMA EntitlementsBacked ==
  ASSUME Inv, NEW p \in Projects
  PROVE  /\ Entitlements(p) \in [Wallets -> Nat]
         /\ SumFunction(Entitlements(p)) <= project[p].total_distributed
<1> DEFINE cum == project[p].cumulative_usdc_per_token
<1>1. Entitlements(p) \in [Wallets -> Nat]
  BY EntitlementBacked DEF Entitlements
<1>2. ASSUME NEW i \in Wallets
      PROVE  Precision * Entitlements(p)[i] <= cum * Held(p)[i]
  <2>1. Entitlements(p)[i] = Entitlement(p, i)
        /\ Held(p)[i] = position[p][i].tokens_held
    BY DEF Entitlements, Held
  <2>2. Precision * Entitlement(p, i) <= position[p][i].tokens_held * cum
    BY EntitlementBacked
  <2>3. position[p][i].tokens_held * cum = cum * position[p][i].tokens_held
    BY ProjectNumbers
  <2> QED BY <2>1, <2>2, <2>3
<1>3. Precision * SumFunction(Entitlements(p)) <= cum * SumFunction(Held(p))
  BY <1>1, <1>2, ProjectNumbers, SumScaledLeq, WalletsFinite
<1>4. cum * SumFunction(Held(p)) <= Precision * project[p].total_distributed
  BY DEF Inv, SharesInv, AccumulatorBacked
<1>5. SumFunction(Entitlements(p)) \in Nat
  BY <1>1, SumType, WalletsFinite
<1>6. SumFunction(Held(p)) \in Nat
  BY ProjectNumbers, SumType, WalletsFinite
<1> HIDE DEF cum
<1>7. cum \in Nat /\ Precision \in Nat /\ Precision > 0
      /\ project[p].total_distributed \in Nat
  BY ProjectNumbers DEF cum
<1>8. Precision * SumFunction(Entitlements(p)) <= Precision * project[p].total_distributed
  <2>1. /\ Precision * SumFunction(Entitlements(p)) \in Int
        /\ cum * SumFunction(Held(p)) \in Int
        /\ Precision * project[p].total_distributed \in Int
    BY <1>5, <1>6, <1>7
  <2> QED BY <1>3, <1>4, <2>1
<1> QED BY <1>1, <1>5, <1>7, <1>8, CancelScale

\* What the holders of a project claimed and can claim never exceeds what was
\* distributed to it, whatever the rounding, for any number of holders.
THEOREM WithinDistributionsTheorem == Spec => []WithinDistributions
<1>1. Inv => WithinDistributions
  BY EntitlementsBacked DEF WithinDistributions
<1> QED BY <1>1, InvInvariant, PTL

LEMMA ProRataArithmetic ==
  ASSUME NEW P \in Nat, P > 0, NEW e \in Nat, NEW sold \in Nat, NEW held \in Nat,
         NEW cum \in Nat, NEW total \in Nat,
         P * e <= held * cum, cum * sold <= P * total
  PROVE  e * sold <= held * total
<1>1. (P * e) * sold <= (held * cum) * sold
  BY Scale
<1>2. (cum * sold) * held <= (P * total) * held
  BY Scale
<1>3. (P * e) * sold = P * (e * sold) /\ (held * cum) * sold = (cum * sold) * held
      /\ (P * total) * held = P * (held * total)
  OBVIOUS
<1>4. /\ P * (e * sold) \in Int /\ (cum * sold) * held \in Int
      /\ P * (held * total) \in Int
  OBVIOUS
<1>5. P * (e * sold) <= P * (held * total)
  BY <1>1, <1>2, <1>3, <1>4
<1>6. e * sold \in Int /\ held * total \in Int
  OBVIOUS
<1> QED BY <1>5, <1>6, CancelScale

LEMMA ProRataHolds == Inv => ProRata
<1> SUFFICES ASSUME Inv, NEW p \in Projects, NEW i \in Wallets
             PROVE  Entitlement(p, i) * project[p].tokens_sold
                      <= position[p][i].tokens_held * project[p].total_distributed
  BY DEF ProRata
<1> DEFINE e == Entitlement(p, i)
           sold == project[p].tokens_sold
           held == position[p][i].tokens_held
           cum == project[p].cumulative_usdc_per_token
           total == project[p].total_distributed
<1>1. /\ e \in Nat /\ sold \in Nat /\ held \in Nat /\ cum \in Nat /\ total \in Nat
      /\ Precision \in Nat /\ Precision > 0
  BY ProjectNumbers, EntitlementBacked
<1>2. Precision * e <= held * cum
  BY EntitlementBacked
<1>3. cum * sold <= Precision * total
  BY DEF Inv, SharesInv, AccumulatorBacked
<1> HIDE DEF e, sold, held, cum, total
<1>4. e * sold <= held * total
  BY <1>1, <1>2, <1>3, ProRataArithmetic
<1> QED BY <1>4 DEF e, sold, held, total

\* No holder is ever entitled to more than its tokens' part of the total.
THEOREM ProRataTheorem == Spec => []ProRata
BY ProRataHolds, InvInvariant, PTL

(***************************************************************************)
(* Widths                                                                  *)
(***************************************************************************)
LEMMA ProductFits ==
  ASSUME NEW M \in Nat, NEW a \in Nat, NEW b \in Nat, a <= M, b <= M
  PROVE  a * b <= (M + 1) * (M + 1) - 1
<1>1. a * b <= M * b
  BY Scale
<1>2. b * M <= M * M
  BY Scale
<1>3. b * M = M * b /\ (M + 1) * (M + 1) - 1 = M * M + 2 * M
  OBVIOUS
<1>4. a * b \in Int /\ M * b \in Int /\ M * M \in Nat
  OBVIOUS
<1> QED BY <1>1, <1>2, <1>3, <1>4

LEMMA ClaimAlwaysFits ==
  ASSUME Inv, NEW p \in Projects, NEW i \in Wallets
  PROVE  ClaimFits(position[p][i], project[p].cumulative_usdc_per_token)
<1> DEFINE held == position[p][i].tokens_held
           last == position[p][i].last_claimed_per_token
           cum == project[p].cumulative_usdc_per_token
           sold == project[p].tokens_sold
           total == project[p].total_distributed
<1>1. /\ held \in Nat /\ cum \in Nat /\ sold \in Nat /\ total \in Nat /\ total <= MaxU64
      /\ Precision \in Nat /\ Precision <= MaxU64 /\ MaxU64 \in Nat
      /\ MaxU128 = (MaxU64 + 1) * (MaxU64 + 1) - 1
  BY ProjectNumbers
<1>2. last \in Nat /\ last <= cum
  BY WidthAssumption DEF Inv, TypeOK, PositionType, SharesInv, AccumulatorBacked
<1>3. held <= sold
  BY HeldAtMostSold
<1>4. cum * sold <= Precision * total
  BY DEF Inv, SharesInv, AccumulatorBacked
<1>5. OwedScaled(position[p][i], cum) = held * (cum - last)
  BY DEF OwedScaled
<1>6. /\ Due(p, i) \in Nat
      /\ Owed(position[p][i], cum) = Due(p, i)
      /\ Entitlement(p, i) = position[p][i].total_claimed + Due(p, i)
      /\ position[p][i].total_claimed \in Nat
  BY EntitlementBacked, ProjectNumbers DEF Due, Entitlement
<1>7. Entitlement(p, i) <= total
  <2>1. Entitlements(p)[i] <= SumFunction(Entitlements(p))
    BY EntitlementsBacked, SumMember, WalletsFinite
  <2>2. SumFunction(Entitlements(p)) <= total
    BY EntitlementsBacked
  <2>3. Entitlements(p)[i] = Entitlement(p, i)
    BY DEF Entitlements
  <2>4. Entitlement(p, i) \in Int /\ SumFunction(Entitlements(p)) \in Int
    BY EntitlementBacked, EntitlementsBacked, SumType, WalletsFinite
  <2> HIDE DEF total
  <2> QED BY <1>1, <2>1, <2>2, <2>3, <2>4
<1> HIDE DEF held, last, cum, sold, total
<1>8. held * (cum - last) \in Nat /\ held * (cum - last) <= MaxU128
  <2>1. (cum - last) * held <= cum * held
    BY <1>1, <1>2, Scale
  <2>2. held * cum <= sold * cum
    BY <1>1, <1>3, Scale
  <2>3. Precision * total <= MaxU128
    BY <1>1, ProductFits
  <2>4. /\ (cum - last) * held = held * (cum - last) /\ cum * held = held * cum
        /\ sold * cum = cum * sold
        /\ held * (cum - last) \in Nat
    BY <1>1, <1>2
  <2>5. held * cum \in Int /\ cum * sold \in Int /\ Precision * total \in Int
        /\ MaxU128 \in Int
    BY <1>1
  <2> QED BY <1>4, <2>1, <2>2, <2>3, <2>4, <2>5
<1>9. MaxU128 \in Nat
  BY <1>1, <1>8
<1>10. Due(p, i) \in U64 /\ position[p][i].total_claimed + Due(p, i) \in U64
  BY <1>1, <1>6, <1>7
<1>11. OwedScaled(position[p][i], cum) \in U128
  BY <1>5, <1>8, <1>9
<1>12. cum >= last
  BY <1>1, <1>2
<1> HIDE DEF U64, U128
<1> QED BY <1>6, <1>10, <1>11, <1>12 DEF ClaimFits, cum, last

LEMMA DistributionAlwaysFits ==
  ASSUME Inv, NEW p \in Projects, NEW amount \in U64, ~Raising(p),
         project[p].total_distributed + amount \in U64
  PROVE  DistributionFits(project[p], amount)
<1> DEFINE cum == project[p].cumulative_usdc_per_token
           sold == project[p].tokens_sold
           total == project[p].total_distributed
           delta == DeltaPerToken(amount, sold)
<1>1. /\ cum \in Nat /\ sold \in Nat /\ total \in Nat /\ amount \in Nat /\ amount <= MaxU64
      /\ total + amount <= MaxU64
      /\ Precision \in Nat /\ Precision <= MaxU64 /\ MaxU64 \in Nat
      /\ MaxU128 = (MaxU64 + 1) * (MaxU64 + 1) - 1
  BY ProjectNumbers
<1>2. sold > 0
  BY DEF Inv, SharesInv, SoldOut, LifeCycle, Raising, Exists
<1>3. cum * sold <= Precision * total
  BY DEF Inv, SharesInv, AccumulatorBacked
<1>4. /\ delta \in Nat
      /\ (cum + delta) * sold <= Precision * (total + amount)
  BY <1>1, <1>2, <1>3, BackedIncrement DEF DeltaPerToken
<1> HIDE DEF cum, sold, total, delta
<1>5. amount * Precision <= MaxU128 /\ Precision * (total + amount) <= MaxU128
  BY <1>1, ProductFits
<1>6. cum + delta <= (cum + delta) * sold
  <2>1. 1 * (cum + delta) <= sold * (cum + delta)
    BY <1>1, <1>2, <1>4, Scale
  <2> QED BY <1>1, <1>4, <2>1
<1>7. /\ amount * Precision \in Nat /\ Precision * (total + amount) \in Nat
      /\ (cum + delta) * sold \in Nat /\ cum + delta \in Nat /\ MaxU128 \in Int
  BY <1>1, <1>4
<1>8. amount * Precision \in U128 /\ cum + delta \in U128
  BY <1>4, <1>5, <1>6, <1>7
<1> QED BY <1>8 DEF DistributionFits, cum, sold, total, delta

\* A holder's claim never fails on checked arithmetic, and a repayment only
\* when the lifetime total would leave u64: the u128 products of the program
\* cannot overflow, for any target, any number of holders and any history.
THEOREM ArithmeticTheorem == Spec => []ArithmeticNeverBlocks
<1>1. Inv => ArithmeticNeverBlocks
  BY ClaimAlwaysFits, DistributionAlwaysFits DEF ArithmeticNeverBlocks
<1> QED BY <1>1, InvInvariant, PTL

(***************************************************************************)
(* Solvency                                                                *)
(***************************************************************************)
LEMMA DuesWithin ==
  ASSUME Inv, NEW p \in Projects
  PROVE  /\ SumFunction(Dues(p)) \in Nat /\ SumFunction(Claimed(p)) \in Nat
         /\ SumFunction(Claimed(p)) + SumFunction(Dues(p))
              <= project[p].total_distributed
<1>1. Dues(p) \in [Wallets -> Nat]
  BY EntitlementBacked DEF Dues
<1>2. Claimed(p) \in [Wallets -> Nat]
  BY ProjectNumbers
<1>3. \A i \in Wallets : Entitlements(p)[i] = Claimed(p)[i] + Dues(p)[i]
  BY DEF Entitlements, Entitlement, Claimed, Dues
<1>4. SumFunction(Entitlements(p)) = SumFunction(Claimed(p)) + SumFunction(Dues(p))
  BY <1>1, <1>2, <1>3, EntitlementsBacked, SumAdd, WalletsFinite
<1> QED BY <1>1, <1>2, <1>4, EntitlementsBacked, SumType, WalletsFinite

\* While the administrator has taken out no more than the net proceeds of the
\* sale, all refunds of a raising project and all claims are covered.
THEOREM SolventTheorem == Spec => []Solvent
<1>1. ASSUME Inv, NEW p \in Projects, project[p].status = "Funding", disbursed[p] <= 0
      PROVE  usdc[p] >= project[p].tokens_sold
  <2>1. \A i \in Wallets : Claimed(p)[i] = 0
    BY <1>1, RaisingClaims DEF Claimed, Raising
  <2>2. SumFunction(Claimed(p)) = 0
    BY <1>1, <2>1, ProjectNumbers, SumZero, WalletsFinite
  <2>3. project[p].total_distributed = 0 /\ project[p].origination_fee_collected = 0
    BY <1>1 DEF Inv, SharesInv, LifeCycle, Raising
  <2>4. usdc[p] + disbursed[p] + 0 + 0 = project[p].tokens_sold + 0
    BY <1>1, <2>2, <2>3 DEF Inv, VaultInv
  <2>5. usdc[p] \in Int /\ disbursed[p] \in Int /\ project[p].tokens_sold \in Int
    BY <1>1, ProjectNumbers, ProjectAssumption DEF Inv, TypeOK
  <2> QED BY <1>1, <2>4, <2>5
<1>2. ASSUME Inv, NEW p \in Projects,
             disbursed[p] <= project[p].tokens_sold
                               - project[p].origination_fee_collected
      PROVE  usdc[p] >= SumFunction(Dues(p))
  <2>1. usdc[p] + disbursed[p] + project[p].origination_fee_collected
          + SumFunction(Claimed(p))
          = project[p].tokens_sold + project[p].total_distributed
    BY <1>2 DEF Inv, VaultInv
  <2>2. /\ usdc[p] \in Int /\ disbursed[p] \in Int
        /\ project[p].tokens_sold \in Int /\ project[p].total_distributed \in Int
        /\ project[p].origination_fee_collected \in Int
    BY <1>2, ProjectNumbers, ProjectAssumption, WidthAssumption DEF Inv, TypeOK, ProjectType
  <2> QED BY <1>2, <2>1, <2>2, DuesWithin
<1>3. Inv => Solvent
  BY <1>1, <1>2 DEF Solvent
<1> QED BY <1>3, InvInvariant, PTL

(***************************************************************************)
(* What a step does to a bystander                                         *)
(***************************************************************************)
\* What i has in project p at the price it paid, and is owed.
Holding(p, i) == position[p][i].tokens_held + Due(p, i)

\* A step that touches at most one of i's holdings, and gives i no less than
\* it takes.
FairTo(i) ==
  \/ /\ \A p \in Projects : Holding(p, i)' = Holding(p, i)
     /\ usdc'[i] >= usdc[i]
  \/ \E p \in Projects :
       /\ \A q \in Projects \ {p} : Holding(q, i)' = Holding(q, i)
       /\ usdc'[i] + Holding(p, i)' >= usdc[i] + Holding(p, i)

LEMMA HoldingFrame ==
  ASSUME NEW p \in Projects, NEW i \in Wallets, position'[p][i] = position[p][i],
         project'[p].cumulative_usdc_per_token = project[p].cumulative_usdc_per_token
  PROVE  Holding(p, i)' = Holding(p, i)
BY DEF Holding, Due, Owed, OwedScaled

LEMMA HoldingNumbers ==
  ASSUME TypeOK, NEW p \in Projects, NEW i \in Wallets
  PROVE  /\ position[p][i] \in PositionType
         /\ position[p][i].tokens_held \in Nat
         /\ position[p][i].last_claimed_per_token \in Nat
         /\ project[p].cumulative_usdc_per_token \in Nat
         /\ usdc \in [Accounts -> Nat] /\ usdc[i] \in Nat
         /\ i \in Accounts /\ p \in Accounts /\ i \notin Projects
BY WidthAssumption, LedgerAssumption, ProjectAssumption
   DEF TypeOK, PositionType, ProjectType

LEMMA HoldingType ==
  ASSUME Inv, NEW p \in Projects, NEW i \in Wallets
  PROVE  Holding(p, i) \in Nat
BY HoldingNumbers, EntitlementBacked DEF Inv, Holding

\* Nothing is owed on a position at the accumulator, and on none before the
\* first repayment.
LEMMA NothingOwed ==
  ASSUME NEW h \in Nat, NEW cum \in Nat
  PROVE  (h * (cum - cum)) \div Precision = 0
<1>1. h * (cum - cum) = 0
  OBVIOUS
<1> QED BY <1>1, WidthAssumption

\* Handlers of the administrator, for everyone but the administrator.
LEMMA AdminFair ==
  ASSUME Inv, AdminNext, NEW i \in Wallets, i # platform.admin
  PROVE  FairTo(i)
<1>1. /\ usdc \in [Accounts -> Nat] /\ project \in [Projects -> ProjectType]
      /\ i \in Accounts /\ Projects \subseteq Accounts /\ i \notin Projects
      /\ usdc[i] \in Nat
  BY LedgerAssumption, ProjectAssumption DEF Inv, TypeOK
<1>2. ASSUME position' = position, usdc'[i] >= usdc[i],
             \A p \in Projects : project'[p].cumulative_usdc_per_token
                                   = project[p].cumulative_usdc_per_token
      PROVE  FairTo(i)
  BY <1>2, HoldingFrame DEF FairTo
<1>3. ASSUME NEW a \in Deployers, NEW t \in Treasuries, NEW bps \in FeeChoices,
             Deploy(a, t, bps)
      PROVE  FairTo(i)
  BY <1>1, <1>2, <1>3 DEF Deploy
<1>4. ASSUME NEW q \in Projects, NEW m \in MrvProjects, NEW target \in Targets,
             CreateProject(q, m, target)
      PROVE  FairTo(i)
  <2>1. project[q].cumulative_usdc_per_token = 0
    BY <1>4 DEF CreateProject, Exists, Raising, Inv, SharesInv, LifeCycle
  <2>2. \A p \in Projects : project'[p].cumulative_usdc_per_token
                              = project[p].cumulative_usdc_per_token
    BY <1>1, <1>4, <2>1 DEF CreateProject, NewProject
  <2> QED BY <1>1, <1>2, <1>4, <2>2 DEF CreateProject
<1>5. ASSUME NEW q \in Projects, ActivateProject(q)
      PROVE  FairTo(i)
  <2> DEFINE fee == OriginationFee(project[q].target_amount)
  <2>1. CASE UNCHANGED usdc
    BY <1>1, <1>2, <1>5, <2>1 DEF ActivateProject, ProjectType
  <2>2. CASE Transfer(q, platform.treasury, fee)
    <3>1. platform.treasury \in Wallets
      BY <1>5 DEF ActivateProject, Initialized, Inv, TypeOK, PlatformType, NoPlatform
    <3>2. fee \in Nat
      BY WidthAssumption, FeeAtMostTarget DEF Inv, TypeOK, ProjectType
    <3>3. usdc'[i] >= usdc[i]
      BY <1>1, <2>2, <3>1, <3>2, LedgerAssumption, TransferEffect
    <3> QED BY <1>1, <1>2, <1>5, <3>3 DEF ActivateProject, ProjectType
  <2> QED BY <1>5, <2>1, <2>2 DEF ActivateProject
<1>6. ASSUME NEW q \in Projects, NEW amount \in U64, DistributeRepayment(q, amount)
      PROVE  FairTo(i)
  <2> DEFINE cum == project[q].cumulative_usdc_per_token
             raise == DeltaPerToken(amount, project[q].tokens_sold)
             held == position[q][i].tokens_held
             last == position[q][i].last_claimed_per_token
  <2>1. /\ platform.admin \in Wallets /\ amount \in Nat
        /\ usdc'[i] = usdc[i]
    <3>1. platform.admin \in Wallets /\ amount \in Nat
      BY <1>6, WidthAssumption
         DEF DistributeRepayment, Initialized, Inv, TypeOK, PlatformType, NoPlatform
    <3> QED BY <1>1, <1>6, <3>1, LedgerAssumption, TransferEffect DEF DistributeRepayment
  <2>2. /\ project[q].tokens_sold \in Nat /\ project[q].tokens_sold > 0
        /\ Precision \in Nat /\ amount * Precision \in Nat
    BY <1>6, <2>1, WidthAssumption DEF DistributeRepayment, Inv, TypeOK, ProjectType
  <2>3. raise \in Nat
    BY <2>2, Division DEF DeltaPerToken
  <2>4. /\ project'[q].cumulative_usdc_per_token = cum + raise
        /\ \A p \in Projects \ {q} : project'[p] = project[p]
        /\ position' = position
    <3>1. AfterDistribution(project[q], amount) =
            [project[q] EXCEPT
               !.cumulative_usdc_per_token = cum + raise,
               !.total_distributed = project[q].total_distributed + amount]
      BY DEF AfterDistribution
    <3> HIDE DEF cum, raise
    <3> QED BY <1>1, <1>6, <3>1 DEF DistributeRepayment, ProjectType
  <2>5. /\ held \in Nat /\ last \in Nat /\ cum \in Nat /\ last <= cum
        /\ Precision \in Nat /\ Precision > 0
    BY HoldingNumbers, WidthAssumption DEF Inv, SharesInv, AccumulatorBacked
  <2>6. /\ Holding(q, i) = held + (held * (cum - last)) \div Precision
        /\ Holding(q, i)' = held + (held * ((cum + raise) - last)) \div Precision
    BY <2>4 DEF Holding, Due, Owed, OwedScaled
  <2>7. \A p \in Projects \ {q} : Holding(p, i)' = Holding(p, i)
    BY <2>4, HoldingFrame
  <2> HIDE DEF held, last, cum, raise
  <2>8. /\ held * raise \in Nat /\ held * (cum - last) \in Nat
        /\ held * ((cum + raise) - last) \in Nat
    BY <2>3, <2>5
  <2>9. /\ (held * raise) \div Precision \in Nat
        /\ (held * (cum - last)) \div Precision \in Nat
        /\ (held * ((cum + raise) - last)) \div Precision \in Nat
    BY <2>5, <2>8, Division
  <2>10. (held * ((cum + raise) - last)) \div Precision
           >= (held * (cum - last)) \div Precision + (held * raise) \div Precision
    BY <2>3, <2>5, OwedGrows
  <2>11. Holding(q, i)' >= Holding(q, i) /\ Holding(q, i) \in Nat /\ Holding(q, i)' \in Nat
    BY <2>5, <2>6, <2>9, <2>10
  <2> QED BY <1>1, <2>1, <2>7, <2>11 DEF FairTo
<1>7. ASSUME NEW q \in Projects, CloseProject(q)
      PROVE  FairTo(i)
  BY <1>1, <1>2, <1>7 DEF CloseProject, ProjectType
<1>8. ASSUME NEW q \in Projects, NEW a \in Accounts, NEW amount \in U64,
             WithdrawProjectFunds(q, a, amount)
      PROVE  FairTo(i)
  <2>1. amount \in Nat
    BY WidthAssumption
  <2>2. usdc'[i] >= usdc[i]
    BY <1>1, <1>8, <2>1, TransferEffect DEF WithdrawProjectFunds
  <2> QED BY <1>2, <1>8, <2>2 DEF WithdrawProjectFunds
<1> QED BY <1>3, <1>4, <1>5, <1>6, <1>7, <1>8 DEF AdminNext

\* Purchases, refunds and claims, for everyone: what leaves the wallet comes
\* into the position, and the other way round.
LEMMA InvestorFair ==
  ASSUME Inv, InvestorNext, NEW i \in Wallets
  PROVE  FairTo(i)
<1>1. PICK p \in Projects, j \in Investors :
        \/ \E amount \in U64 : BuyProjectTokens(p, j, amount)
        \/ WithdrawInvestment(p, j)
        \/ ClaimProjectReturns(p, j)
  BY DEF InvestorNext
<1> DEFINE cum == project[p].cumulative_usdc_per_token
           last == position[p][i].last_claimed_per_token
           held == position[p][i].tokens_held
<1>2. /\ usdc \in [Accounts -> Nat] /\ project \in [Projects -> ProjectType]
      /\ position \in [Projects -> [Wallets -> PositionType]]
      /\ j \in Wallets /\ j \in Accounts /\ p \in Accounts /\ j # p
      /\ i \in Accounts /\ i # p /\ usdc[i] \in Nat /\ usdc[p] \in Nat
  BY LedgerAssumption, ProjectAssumption DEF Inv, TypeOK
<1>3. /\ position[p][i] \in PositionType /\ held \in Nat /\ last \in Nat /\ cum \in Nat
      /\ Due(p, i) \in Nat
  BY HoldingNumbers, EntitlementBacked DEF Inv
<1>4. /\ \A q \in Projects : project'[q].cumulative_usdc_per_token
                               = project[q].cumulative_usdc_per_token
      /\ \A q \in Projects \ {p} : position'[q] = position[q]
      /\ \A k \in Wallets \ {j} : position'[p][k] = position[p][k]
  <2>1. CASE \E amount \in U64 : BuyProjectTokens(p, j, amount)
    BY <1>2, <2>1 DEF BuyProjectTokens, ProjectType
  <2>2. CASE WithdrawInvestment(p, j)
    BY <1>2, <2>2 DEF WithdrawInvestment, ProjectType
  <2>3. CASE ClaimProjectReturns(p, j)
    BY <1>2, <2>3 DEF ClaimProjectReturns
  <2> QED BY <1>1, <2>1, <2>2, <2>3
<1>5. \A q \in Projects \ {p} : Holding(q, i)' = Holding(q, i)
  BY <1>4, HoldingFrame
<1>6. CASE i # j
  <2>1. Holding(p, i)' = Holding(p, i)
    BY <1>4, <1>6, HoldingFrame
  <2>2. usdc'[i] >= usdc[i]
    <3>1. CASE \E amount \in U64 : BuyProjectTokens(p, j, amount)
      BY <1>2, <1>6, <3>1, WidthAssumption, TransferEffect DEF BuyProjectTokens
    <3>2. CASE WithdrawInvestment(p, j)
      <4>1. position[p][j].tokens_held \in Nat
        BY <1>2, HoldingNumbers DEF Inv
      <4> QED BY <1>2, <1>6, <3>2, <4>1, TransferEffect DEF WithdrawInvestment
    <3>3. CASE ClaimProjectReturns(p, j)
      <4>1. Due(p, j) \in Nat
        BY <1>2, EntitlementBacked
      <4> QED BY <1>2, <1>6, <3>3, <4>1, TransferEffect DEF ClaimProjectReturns
    <3> QED BY <1>1, <3>1, <3>2, <3>3
  <2> QED BY <1>5, <2>1, <2>2 DEF FairTo
<1>7. ASSUME project[p].status = "Funding"
      PROVE  /\ cum = 0 /\ last = 0 /\ Due(p, i) = 0
  <2>1. Raising(p)
    BY <1>7 DEF Raising
  <2>2. cum = 0 /\ last = 0
    BY <2>1, RaisingClaims DEF Inv, SharesInv, LifeCycle
  <2> HIDE DEF held
  <2>3. Due(p, i) = (held * (cum - last)) \div Precision
    BY DEF Due, Owed, OwedScaled, held
  <2> QED BY <1>3, <2>2, <2>3, NothingOwed
\* While cash becomes tokens or tokens cash nothing is owed.
<1>8. ASSUME NEW n \in Nat, position'[p][i].tokens_held = n,
             position'[p][i].last_claimed_per_token = 0,
             project[p].status = "Funding", usdc'[i] + n = usdc[i] + held
      PROVE  FairTo(i)
  <2>1. Holding(p, i) = held
    BY <1>3, <1>7, <1>8 DEF Holding
  <2>2. project'[p].cumulative_usdc_per_token = 0
    BY <1>4, <1>7, <1>8
  <2>3. Holding(p, i)' = n + (n * (0 - 0)) \div Precision
    BY <1>8, <2>2 DEF Holding, Due, Owed, OwedScaled
  <2>4. Holding(p, i)' = n
    BY <2>3, NothingOwed
  <2>5. usdc'[i] + Holding(p, i)' = usdc[i] + Holding(p, i) /\ usdc[i] + held \in Nat
    BY <1>2, <1>3, <1>8, <2>1, <2>4
  <2> HIDE DEF held
  <2> QED BY <1>5, <2>1, <2>5 DEF FairTo
<1>9. ASSUME i = j, NEW amount \in U64, BuyProjectTokens(p, j, amount)
      PROVE  FairTo(i)
  <2>1. /\ amount \in Nat /\ project[p].status = "Funding"
        /\ usdc'[i] = usdc[i] - amount
    BY <1>2, <1>9, WidthAssumption, TransferEffect DEF BuyProjectTokens
  <2>2. position'[p][i] = AfterBuy(position[p][i], i, cum, amount)
    BY <1>2, <1>9 DEF BuyProjectTokens
  <2>3. /\ position'[p][i].tokens_held = held + amount
        /\ position'[p][i].last_claimed_per_token = 0
    <3>1. CASE position[p][i].owner = NoKey
      BY <1>3, <1>7, <2>1, <2>2, <3>1 DEF AfterBuy, Opened, PositionType
    <3>2. CASE position[p][i].owner # NoKey
      BY <1>3, <1>7, <2>1, <2>2, <3>2 DEF AfterBuy, Opened, PositionType
    <3> QED BY <3>1, <3>2
  <2>4. held + amount \in Nat /\ usdc'[i] + (held + amount) = usdc[i] + held
    BY <1>2, <1>3, <2>1
  <2> HIDE DEF held
  <2> QED BY <1>8, <2>1, <2>3, <2>4
<1>10. ASSUME i = j, WithdrawInvestment(p, j)
       PROVE  FairTo(i)
  <2>1. project[p].status = "Funding"
    BY <1>10 DEF WithdrawInvestment, Refundable, Inv, SharesInv, LifeCycle
  <2>2. usdc'[i] = usdc[i] + held
    BY <1>2, <1>3, <1>10, TransferEffect DEF WithdrawInvestment
  <2>3. /\ position'[p][i].tokens_held = 0
        /\ position'[p][i].last_claimed_per_token = 0
    BY <1>2, <1>3, <1>7, <1>10, <2>1 DEF WithdrawInvestment, PositionType
  <2>4. usdc'[i] + 0 = usdc[i] + held
    BY <1>2, <1>3, <2>2
  <2> HIDE DEF held
  <2> QED BY <1>8, <2>1, <2>3, <2>4
<1>11. ASSUME i = j, ClaimProjectReturns(p, j)
       PROVE  FairTo(i)
  <2>1. usdc'[i] = usdc[i] + Due(p, i)
    BY <1>2, <1>3, <1>11, TransferEffect DEF ClaimProjectReturns
  <2>2. /\ position'[p][i].tokens_held = held
        /\ position'[p][i].last_claimed_per_token = cum
    BY <1>2, <1>3, <1>11 DEF ClaimProjectReturns, AfterClaim, PositionType
  <2>3. project'[p].cumulative_usdc_per_token = cum
    BY <1>4
  <2> HIDE DEF held, cum
  <2>4. Holding(p, i)' = held + (held * (cum - cum)) \div Precision
    BY <2>2, <2>3 DEF Holding, Due, Owed, OwedScaled
  <2>5. Holding(p, i)' = held
    BY <1>3, <2>4, NothingOwed
  <2>6. Holding(p, i) = held + Due(p, i)
    BY DEF Holding, held
  <2>7. usdc'[i] + Holding(p, i)' >= usdc[i] + Holding(p, i)
    BY <1>2, <1>3, <2>1, <2>5, <2>6
  <2> QED BY <1>5, <2>7 DEF FairTo
<1> QED BY <1>1, <1>6, <1>9, <1>10, <1>11
=============================================================================
