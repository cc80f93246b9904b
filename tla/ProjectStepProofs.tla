------------------------- MODULE ProjectStepProofs -------------------------
(***************************************************************************)
(* What a step of the project instructions may never do, and which step of *)
(* the abstract specifications it is: the action properties and the        *)
(* refinements, from the accounting invariant before the step.             *)
(***************************************************************************)
EXTENDS ProjectSafetyProofs

USE DEF U64, U128

\* Which parts of a project and its positions a transaction can touch: none,
\* only tokens_sold and positions of a project in Funding, only what a
\* handler of the administrator changes, or one position by a claim.
Untouched(p) == project'[p] = project[p] /\ position'[p] = position[p]

Trades(p) ==
  /\ project[p].status = "Funding" /\ project'[p].status = "Funding"
  /\ project'[p].cumulative_usdc_per_token = project[p].cumulative_usdc_per_token

Advances(p) ==
  /\ position'[p] = position[p]
  /\ project'[p].cumulative_usdc_per_token = project[p].cumulative_usdc_per_token
  /\ \/ project[p].status = "Absent" /\ project'[p].status = "Funding"
     \/ /\ project[p].status = "Funding" /\ project'[p].status = "Active"
        /\ project'[p].tokens_sold = project[p].tokens_sold
     \/ /\ project[p].status \in {"Active", "Repaying"}
        /\ project'[p].status = "Completed"
        /\ project'[p].tokens_sold = project[p].tokens_sold

Repays(p) ==
  /\ position'[p] = position[p]
  /\ project[p].status \in {"Active", "Repaying"} /\ project'[p].status = "Repaying"
  /\ project'[p].tokens_sold = project[p].tokens_sold
  /\ Raise(p) \in Nat

Claims(p, i) ==
  /\ project'[p] = project[p]
  /\ position'[p] = [position[p] EXCEPT
       ![i] = AfterClaim(@, project[p].cumulative_usdc_per_token)]

\* Every transaction does one of these to every project.
LEMMA StepShapes ==
  ASSUME Inv, [Next]_vars, NEW p \in Projects
  PROVE  \/ Untouched(p) \/ Trades(p) \/ Advances(p) \/ Repays(p)
         \/ \E i \in Investors : Claims(p, i)
<1>1. project \in [Projects -> ProjectType] /\ position \in [Projects -> [Wallets -> PositionType]]
      /\ Investors \subseteq Wallets
  BY ProjectAssumption DEF Inv, TypeOK
<1>2. ASSUME NEW a \in Deployers, NEW t \in Treasuries, NEW bps \in FeeChoices,
             Deploy(a, t, bps)
      PROVE  Untouched(p)
  BY <1>2 DEF Deploy, Untouched
<1>3. ASSUME NEW q \in Projects, NEW m \in MrvProjects, NEW target \in Targets,
             CreateProject(q, m, target)
      PROVE  Untouched(p) \/ Advances(p)
  <2>1. CASE q # p
    BY <1>1, <1>3, <2>1 DEF CreateProject, Untouched
  <2>2. CASE q = p
    <3>1. /\ project'[p] = NewProject(m, target) /\ position'[p] = position[p]
          /\ project[p].status = "Absent"
      BY <1>1, <1>3, <2>2 DEF CreateProject, Exists
    <3>2. project[p].cumulative_usdc_per_token = 0
      BY <3>1 DEF Inv, SharesInv, LifeCycle, Raising
    <3> QED BY <3>1, <3>2 DEF Advances, NewProject
  <2> QED BY <2>1, <2>2
<1>4. ASSUME NEW q \in Projects, ActivateProject(q)
      PROVE  Untouched(p) \/ Advances(p)
  <2>1. CASE q # p
    BY <1>1, <1>4, <2>1 DEF ActivateProject, FullySold, Untouched
  <2>2. CASE q = p
    <3> DEFINE fee == OriginationFee(project[p].target_amount)
    <3> HIDE DEF fee
    <3>1. /\ position'[p] = position[p] /\ project[p].status = "Funding"
          /\ project'[p] = [project[p] EXCEPT !.status = "Active",
                                              !.origination_fee_collected = fee]
      BY <1>1, <1>4, <2>2 DEF ActivateProject, FullySold, fee
    <3> QED BY <1>1, <3>1 DEF Advances, ProjectType
  <2> QED BY <2>1, <2>2
<1>5. ASSUME NEW q \in Projects, NEW amount \in U64, DistributeRepayment(q, amount)
      PROVE  Untouched(p) \/ Repays(p)
  <2>1. CASE q # p
    BY <1>1, <1>5, <2>1 DEF DistributeRepayment, Repayable, Untouched
  <2>2. CASE q = p
    <3> DEFINE delta == DeltaPerToken(amount, project[p].tokens_sold)
    <3>1. /\ project[p].tokens_sold \in Nat /\ project[p].tokens_sold > 0
          /\ project[p].cumulative_usdc_per_token \in Nat
          /\ amount * Precision \in Nat
      BY <1>1, <1>5, <2>2, WidthAssumption DEF DistributeRepayment, Repayable, ProjectType
    <3>2. delta \in Nat
      BY <3>1, Division DEF DeltaPerToken
    <3>3. /\ position'[p] = position[p] /\ project[p].status \in {"Active", "Repaying"}
          /\ project'[p] = [project[p] EXCEPT
               !.cumulative_usdc_per_token = @ + delta,
               !.total_distributed = @ + amount, !.status = "Repaying"]
      BY <1>1, <1>5, <2>2 DEF DistributeRepayment, Repayable, AfterDistribution
    <3> HIDE DEF delta
    <3> QED BY <1>1, <3>1, <3>2, <3>3 DEF Repays, Raise, ProjectType
  <2> QED BY <2>1, <2>2
<1>6. ASSUME NEW q \in Projects, CloseProject(q)
      PROVE  Untouched(p) \/ Advances(p)
  <2>1. CASE q # p
    BY <1>1, <1>6, <2>1 DEF CloseProject, Repayable, Untouched
  <2>2. CASE q = p
    <3>1. /\ position'[p] = position[p] /\ project[p].status \in {"Active", "Repaying"}
          /\ project'[p] = [project[p] EXCEPT !.status = "Completed"]
      BY <1>1, <1>6, <2>2 DEF CloseProject, Repayable
    <3> QED BY <1>1, <3>1 DEF Advances, ProjectType
  <2> QED BY <2>1, <2>2
<1>7. ASSUME NEW q \in Projects, NEW a \in Accounts, NEW amount \in U64,
             WithdrawProjectFunds(q, a, amount)
      PROVE  Untouched(p)
  BY <1>7 DEF WithdrawProjectFunds, Untouched
<1>8. ASSUME NEW q \in Projects, NEW i \in Investors, NEW amount \in U64,
             BuyProjectTokens(q, i, amount)
      PROVE  Untouched(p) \/ Trades(p)
  <2>1. CASE q # p
    BY <1>1, <1>8, <2>1 DEF BuyProjectTokens, Untouched
  <2>2. CASE q = p
    <3>1. /\ project[p].status = "Funding"
          /\ project'[p] = [project[p] EXCEPT !.tokens_sold = @ + amount]
      BY <1>1, <1>8, <2>2 DEF BuyProjectTokens
    <3> QED BY <1>1, <3>1 DEF Trades, ProjectType
  <2> QED BY <2>1, <2>2
<1>9. ASSUME NEW q \in Projects, NEW i \in Investors, WithdrawInvestment(q, i)
      PROVE  Untouched(p) \/ Trades(p)
  <2>1. CASE q # p
    BY <1>1, <1>9, <2>1 DEF WithdrawInvestment, Refundable, Burned, Untouched
  <2>2. CASE q = p
    <3>1. /\ project[p].status = "Funding"
          /\ project'[p] = [project[p] EXCEPT !.tokens_sold = @ - position[p][i].tokens_held]
      BY <1>1, <1>9, <2>2 DEF WithdrawInvestment, Refundable, Burned, Inv, SharesInv, LifeCycle
    <3> QED BY <1>1, <3>1 DEF Trades, ProjectType
  <2> QED BY <2>1, <2>2
<1>10. ASSUME NEW q \in Projects, NEW i \in Investors, ClaimProjectReturns(q, i)
       PROVE  Untouched(p) \/ Claims(p, i)
  BY <1>1, <1>10 DEF ClaimProjectReturns, Untouched, Claims
<1>11. ASSUME ExternalNext PROVE Untouched(p)
  BY <1>11 DEF ExternalNext, HolderNext, BaselineSubmitted, SendTokens, BurnTokens, Burned, SendUsdc, Untouched
<1>12. ASSUME UNCHANGED vars PROVE Untouched(p)
  BY <1>12 DEF vars, Untouched
<1> QED BY <1>2, <1>3, <1>4, <1>5, <1>6, <1>7, <1>8, <1>9, <1>10, <1>11, <1>12
        DEF Next, AdminNext, InvestorNext

LEMMA SharesFrozenStep ==
  ASSUME Inv, [Next]_vars, NEW p \in Projects
  PROVE  KeepsShares(p)
<1>1. project[p].status \in Statuses \cup {"Absent"} /\ position[p] \in [Wallets -> PositionType]
  BY DEF Inv, TypeOK, ProjectType
<1>2. \A s \in Statuses \cup {"Absent"} : StatusRank(s) \in Nat
  BY DEF Statuses, StatusRank
<1>3. ASSUME position'[p] = position[p] PROVE Held(p)' = Held(p)
  BY <1>3 DEF Held
<1>4. CASE Untouched(p)
  BY <1>1, <1>2, <1>3, <1>4 DEF Untouched, KeepsShares
<1>5. CASE Trades(p)
  BY <1>5 DEF Trades, KeepsShares, Raising, StatusRank
<1>6. CASE Advances(p)
  BY <1>3, <1>6 DEF Advances, KeepsShares, Raising, StatusRank
<1>7. CASE Repays(p)
  BY <1>3, <1>7 DEF Repays, KeepsShares, Raising, StatusRank
<1>8. ASSUME NEW i \in Investors, Claims(p, i) PROVE KeepsShares(p)
  <2>1. position'[p] \in [Wallets -> PositionType]
    BY StepInv DEF Inv, TypeOK
  <2>2. \A j \in Wallets : position'[p][j].tokens_held = position[p][j].tokens_held
    BY <1>1, <1>8, <2>1 DEF Claims, AfterClaim, PositionType
  <2>3. Held(p)' = Held(p)
    BY <2>2 DEF Held
  <2> QED BY <1>1, <1>2, <1>8, <2>3 DEF Claims, KeepsShares
<1> QED BY <1>4, <1>5, <1>6, <1>7, <1>8, StepShapes

\* No transaction takes a project back in its life cycle or, once it is
\* activated, changes what any holder's part of its repayments is.
THEOREM SharesFrozenTheorem == Spec => SharesFrozen
<1>1. Inv /\ [Next]_vars => [\A p \in Projects : KeepsShares(p)]_vars
  BY SharesFrozenStep
<1> QED BY <1>1, InvInvariant, PTL DEF Spec, SharesFrozen

(***************************************************************************)
(* Entitlements                                                            *)
(***************************************************************************)
\* A position that claimed nothing yet, of an issuer that paid nothing yet.
LEMMA NothingClaimed ==
  ASSUME NEW claimed \in Nat, NEW last \in Nat, NEW held \in Nat, NEW P \in Nat, P > 0,
         last <= 0, P * claimed <= held * last
  PROVE  claimed = 0
<1>1. last = 0 /\ P * claimed <= 0
  OBVIOUS
<1>2. ASSUME claimed >= 1 PROVE FALSE
  <2>1. P * claimed >= P
    BY <1>2
  <2> QED BY <1>1, <2>1
<1> QED BY <1>2

LEMMA EntitlementGrowsStep ==
  ASSUME Inv, [Next]_vars, NEW p \in Projects, NEW i \in Wallets
  PROVE  GrowsEntitlement(p, i)
<1> DEFINE held == position[p][i].tokens_held
           last == position[p][i].last_claimed_per_token
           claimed == position[p][i].total_claimed
           cum == project[p].cumulative_usdc_per_token
<1>1. /\ held \in Nat /\ last \in Nat /\ claimed \in Nat /\ cum \in Nat
      /\ Precision \in Nat /\ Precision > 0 /\ last <= cum
      /\ position[p] \in [Wallets -> PositionType]
  BY WidthAssumption DEF Inv, TypeOK, PositionType, ProjectType, SharesInv, AccumulatorBacked
<1>2. Entitlement(p, i) \in Nat /\ Due(p, i) \in Nat
  BY EntitlementBacked
<1>3. /\ Due(p, i) = (held * (cum - last)) \div Precision
      /\ Entitlement(p, i) = claimed + Due(p, i)
  BY DEF Due, Owed, OwedScaled, Entitlement
<1>4. Entitlement(p, i)' =
        claimed' + (held' * (cum' - last')) \div Precision
  BY DEF Due, Owed, OwedScaled, Entitlement
<1>5. Raise(p) = cum' - cum
  BY DEF Raise
<1>6. ASSUME cum' = cum PROVE (held * Raise(p)) \div Precision = 0
  <2>1. Raise(p) = 0 /\ held * 0 = 0 /\ 0 \div Precision = 0
    BY <1>1, <1>5, <1>6
  <2> QED BY <2>1
<1>7. ASSUME cum' = cum, held' = held, last' = last, claimed' = claimed
      PROVE  GrowsEntitlement(p, i)
  <2>1. Entitlement(p, i)' = Entitlement(p, i)
    BY <1>3, <1>4, <1>7
  <2> QED BY <1>2, <1>6, <1>7, <2>1 DEF GrowsEntitlement
<1>8. CASE Untouched(p)
  BY <1>7, <1>8 DEF Untouched
<1>9. CASE Advances(p)
  BY <1>7, <1>9 DEF Advances
<1>10. CASE Trades(p)
  <2>1. Inv'
    BY StepInv
  <2>2. /\ held' \in Nat /\ last' \in Nat /\ claimed' \in Nat
        /\ last' <= cum' /\ Precision * claimed' <= held' * last'
    BY <2>1, WidthAssumption
       DEF Inv, TypeOK, PositionType, SharesInv, AccumulatorBacked
  <2>3. cum = 0 /\ cum' = 0 /\ last = 0 /\ claimed = 0
    <3>1. cum = 0
      BY <1>10 DEF Trades, Inv, SharesInv, LifeCycle, Raising
    <3> QED BY <1>1, <1>10, <3>1, RaisingClaims DEF Trades, Raising
  <2>4. claimed' = 0 /\ last' = 0
    <3>1. last' <= 0
      BY <2>2, <2>3
    <3>2. claimed' = 0
      BY <1>1, <2>2, <3>1, NothingClaimed
    <3> QED BY <2>2, <3>1, <3>2
  <2>5. /\ held * (cum - last) = 0 /\ held' * (cum' - last') = 0
        /\ 0 \div Precision = 0
    <3>1. \A h \in Nat : h * (0 - 0) = 0
      OBVIOUS
    <3>2. 0 \div Precision = 0
      BY <1>1
    <3> QED BY <1>1, <2>2, <2>3, <2>4, <3>1, <3>2
  <2>6. Entitlement(p, i) = 0 /\ Entitlement(p, i)' = 0
    BY <1>3, <1>4, <2>3, <2>4, <2>5
  <2> QED BY <1>6, <2>3, <2>6 DEF GrowsEntitlement, held
<1>11. CASE Repays(p)
  <2>1. held' = held /\ last' = last /\ claimed' = claimed
    BY <1>11 DEF Repays
  <2> DEFINE raise == Raise(p)
  <2>2. raise \in Nat
    BY <1>11 DEF Repays
  <2>3. cum' \in Int
    BY StepInv, WidthAssumption DEF Inv, TypeOK, ProjectType
  <2>4. cum' = cum + raise
    BY <1>1, <1>5, <2>3
  <2> HIDE DEF held, last, claimed, cum, raise
  <2>5. (held * ((cum + raise) - last)) \div Precision
          >= (held * (cum - last)) \div Precision + (held * raise) \div Precision
    BY <1>1, <2>2, OwedGrows
  <2>6. /\ (held * ((cum + raise) - last)) \div Precision \in Int
        /\ (held * raise) \div Precision \in Int
    <3>1. held * ((cum + raise) - last) \in Int /\ held * raise \in Int
      BY <1>1, <2>2
    <3> QED BY <1>1, <3>1
  <2>7. Entitlement(p, i)' = claimed + (held * ((cum + raise) - last)) \div Precision
    BY <1>4, <2>1, <2>4
  <2>8. Entitlement(p, i)' >= Entitlement(p, i) + (held * raise) \div Precision
    BY <1>1, <1>2, <1>3, <2>5, <2>6, <2>7
  <2> QED BY <2>8 DEF GrowsEntitlement, held, raise
<1>12. ASSUME NEW j \in Investors, Claims(p, j) PROVE GrowsEntitlement(p, i)
  <2>1. CASE j # i
    <3>1. position'[p][i] = position[p][i] /\ cum' = cum
      BY <1>1, <1>12, <2>1 DEF Claims
    <3> QED BY <1>7, <3>1
  <2>2. CASE j = i
    <3>1. position'[p][i] = AfterClaim(position[p][i], cum) /\ cum' = cum
      BY <1>1, <1>12, <2>2 DEF Claims
    <3>2. position[p][i] \in PositionType
      BY <1>1
    <3>3. held' = held /\ last' = cum /\ claimed' = claimed + Due(p, i)
      BY <3>1, <3>2 DEF AfterClaim, PositionType, Due
    <3> HIDE DEF held, last, claimed, cum
    <3>4. held * (cum - cum) = 0 /\ 0 \div Precision = 0
      BY <1>1
    <3>5. Entitlement(p, i)' = Entitlement(p, i)
      BY <1>1, <1>2, <1>3, <1>4, <3>1, <3>3, <3>4
    <3> QED BY <1>2, <1>6, <3>1, <3>5 DEF GrowsEntitlement, held
  <2> QED BY <2>1, <2>2
<1> QED BY <1>8, <1>9, <1>10, <1>11, <1>12, StepShapes

\* What a holder has been paid and can still claim never shrinks, and every
\* repayment adds its tokens' part of it.
THEOREM EntitlementsGrowTheorem == Spec => EntitlementsGrow
<1>1. Inv /\ [Next]_vars => [\A p \in Projects, i \in Wallets : GrowsEntitlement(p, i)]_vars
  BY EntitlementGrowsStep
<1> QED BY <1>1, InvInvariant, PTL DEF Spec, EntitlementsGrow
(***************************************************************************)
(* The steps, as the abstract specifications see them                      *)
(***************************************************************************)
\* Transactions that move no position, accumulator or seal.
Quiet ==
  /\ position' = position
  /\ \A p \in Projects :
       /\ project'[p].cumulative_usdc_per_token = project[p].cumulative_usdc_per_token
       /\ project'[p].total_distributed = project[p].total_distributed
       /\ Raising(p)' = Raising(p)

\* i buys into p or gives its tokens back: a project in Funding, one
\* position, and neither the accumulators nor what was claimed.
Subscribes(p, i) ==
  /\ project[p].status = "Funding"
  /\ \A q \in Projects :
       /\ project'[q].status = project[q].status
       /\ project'[q].cumulative_usdc_per_token = project[q].cumulative_usdc_per_token
       /\ project'[q].total_distributed = project[q].total_distributed
  /\ \A q \in Projects, j \in Wallets : ~(q = p /\ j = i) => position'[q][j] = position[q][j]
  /\ position'[p][i].tokens_held \in Nat
  /\ position'[p][i].last_claimed_per_token = 0
  /\ position'[p][i].total_claimed = position[p][i].total_claimed

LEMMA SubscribesAgain ==
  ASSUME Inv, NEW p \in Projects, NEW i \in Wallets, NEW np, NEW sold,
         project[p].status = "Funding",
         project' = [project EXCEPT ![p].tokens_sold = sold],
         position' = [position EXCEPT ![p][i] = np],
         np.tokens_held \in Nat,
         np.total_claimed = position[p][i].total_claimed, Inv'
  PROVE  Subscribes(p, i)
<1>1. /\ project \in [Projects -> ProjectType]
      /\ position \in [Projects -> [Wallets -> PositionType]]
  BY DEF Inv, TypeOK
<1>2. \A q \in Projects :
        /\ project'[q].status = project[q].status
        /\ project'[q].cumulative_usdc_per_token = project[q].cumulative_usdc_per_token
        /\ project'[q].total_distributed = project[q].total_distributed
  BY <1>1 DEF ProjectType
<1>3. /\ position'[p][i] = np
      /\ \A q \in Projects, j \in Wallets : ~(q = p /\ j = i) => position'[q][j] = position[q][j]
  BY <1>1
<1>4. position'[p][i].last_claimed_per_token \in Nat
  BY WidthAssumption DEF Inv, TypeOK, PositionType
<1>5. position'[p][i].last_claimed_per_token <= project'[p].cumulative_usdc_per_token
  BY DEF Inv, SharesInv, AccumulatorBacked
<1>6. project[p].cumulative_usdc_per_token = 0
  BY DEF Inv, SharesInv, LifeCycle, Raising
<1>7. position'[p][i].last_claimed_per_token = 0
  BY <1>2, <1>4, <1>5, <1>6
<1> QED BY <1>2, <1>3, <1>7 DEF Subscribes

LEMMA BuySubscribes ==
  ASSUME Inv, Inv', NEW p \in Projects, NEW i \in Investors, NEW amount \in U64,
         BuyProjectTokens(p, i, amount)
  PROVE  Subscribes(p, i)
<1> DEFINE cum == project[p].cumulative_usdc_per_token
           np == AfterBuy(position[p][i], i, cum, amount)
           sold == project[p].tokens_sold + amount
<1>1. /\ i \in Wallets /\ position[p][i] \in PositionType /\ amount \in Nat
      /\ position[p][i].tokens_held \in Nat
  BY ProjectAssumption, WidthAssumption DEF Inv, TypeOK, PositionType
<1>2. /\ project[p].status = "Funding"
      /\ project' = [project EXCEPT ![p].tokens_sold = sold]
      /\ position' = [position EXCEPT ![p][i] = np]
  BY DEF BuyProjectTokens
<1>3. position[p][i].total_claimed = 0
  BY <1>1, <1>2, RaisingClaims DEF Raising
<1> HIDE DEF sold, cum
<1>4. /\ np.tokens_held = position[p][i].tokens_held + amount
      /\ np.total_claimed = position[p][i].total_claimed
  BY <1>1, <1>3 DEF AfterBuy, Opened, PositionType
<1> HIDE DEF np
<1>5. np.tokens_held \in Nat
  BY <1>1, <1>4
<1> QED BY <1>1, <1>2, <1>4, <1>5, SubscribesAgain

LEMMA WithdrawSubscribes ==
  ASSUME Inv, Inv', NEW p \in Projects, NEW i \in Investors, WithdrawInvestment(p, i)
  PROVE  Subscribes(p, i)
<1> DEFINE np == [position[p][i] EXCEPT !.tokens_held = 0]
           sold == project[p].tokens_sold - position[p][i].tokens_held
<1>1. i \in Wallets /\ position[p][i] \in PositionType
  BY ProjectAssumption DEF Inv, TypeOK
<1>2. /\ project[p].status = "Funding"
      /\ project' = [project EXCEPT ![p].tokens_sold = sold]
  BY DEF WithdrawInvestment, Refundable, Inv, SharesInv, LifeCycle
<1>3. position' = [position EXCEPT ![p][i] = np]
  BY DEF WithdrawInvestment
<1>4. np.tokens_held \in Nat /\ np.total_claimed = position[p][i].total_claimed
  BY <1>1 DEF PositionType
<1> HIDE DEF np, sold
<1> QED BY <1>1, <1>2, <1>3, <1>4, SubscribesAgain

LEMMA StepKinds ==
  ASSUME Inv, [Next]_vars
  PROVE  \/ Quiet
         \/ \E p \in Projects : ActivateProject(p)
         \/ \E p \in Projects, amount \in U64 : DistributeRepayment(p, amount)
         \/ \E p \in Projects, i \in Wallets : Subscribes(p, i)
         \/ \E p \in Projects, i \in Investors : ClaimProjectReturns(p, i)
<1>1. /\ project \in [Projects -> ProjectType] /\ Inv' /\ Investors \subseteq Wallets
  BY ProjectAssumption, StepInv DEF Inv, TypeOK
<1>2. ASSUME UNCHANGED <<project, position>> PROVE Quiet
  BY <1>2 DEF Quiet, Raising
<1>3. ASSUME NEW a \in Deployers, NEW t \in Treasuries, NEW bps \in FeeChoices,
             Deploy(a, t, bps)
      PROVE  Quiet
  BY <1>2, <1>3 DEF Deploy
<1>4. ASSUME NEW q \in Projects, NEW m \in MrvProjects, NEW target \in Targets,
             CreateProject(q, m, target)
      PROVE  Quiet
  <2>1. /\ project[q].cumulative_usdc_per_token = 0 /\ project[q].total_distributed = 0
        /\ Raising(q) /\ position' = position
    BY <1>4 DEF CreateProject, Exists, Raising, Inv, SharesInv, LifeCycle
  <2>2. /\ project'[q] = NewProject(m, target)
        /\ \A p \in Projects \ {q} : project'[p] = project[p]
    BY <1>1, <1>4 DEF CreateProject
  <2>3. /\ project'[q].cumulative_usdc_per_token = 0 /\ project'[q].total_distributed = 0
        /\ Raising(q)'
    BY <2>2 DEF NewProject, Raising
  <2>4. \A p \in Projects \ {q} : Raising(p)' = Raising(p)
    BY <2>2 DEF Raising
  <2>5. Raising(q)' = Raising(q)
    BY <2>1, <2>3
  <2> QED BY <2>1, <2>2, <2>3, <2>4, <2>5 DEF Quiet
<1>5. ASSUME NEW q \in Projects, CloseProject(q) PROVE Quiet
  <2>1. /\ ~Raising(q) /\ position' = position
        /\ project' = [project EXCEPT ![q].status = "Completed"]
    BY <1>5 DEF CloseProject, Repayable, Raising
  <2>2. \A p \in Projects :
          /\ project'[p].cumulative_usdc_per_token = project[p].cumulative_usdc_per_token
          /\ project'[p].total_distributed = project[p].total_distributed
    BY <1>1, <2>1 DEF ProjectType
  <2>3. project'[q].status = "Completed" /\ \A p \in Projects \ {q} : project'[p] = project[p]
    BY <1>1, <2>1 DEF ProjectType
  <2>4. ~Raising(q)' /\ \A p \in Projects \ {q} : Raising(p)' = Raising(p)
    BY <2>3 DEF Raising
  <2>5. Raising(q)' = Raising(q)
    BY <2>1, <2>4 DEF Raising
  <2> QED BY <2>1, <2>2, <2>4, <2>5 DEF Quiet
<1>6. ASSUME NEW q \in Projects, NEW a \in Accounts, NEW amount \in U64,
             WithdrawProjectFunds(q, a, amount)
      PROVE  Quiet
  BY <1>2, <1>6 DEF WithdrawProjectFunds
<1>7. ASSUME ExternalNext PROVE Quiet
  BY <1>2, <1>7 DEF ExternalNext, HolderNext, BaselineSubmitted, SendTokens,
                    BurnTokens, Burned, SendUsdc
<1>8. ASSUME UNCHANGED vars PROVE Quiet
  BY <1>2, <1>8 DEF vars
<1>9. ASSUME NEW q \in Projects, NEW i \in Investors, NEW amount \in U64,
             BuyProjectTokens(q, i, amount)
      PROVE  Subscribes(q, i)
  BY <1>1, <1>9, BuySubscribes
<1>10. ASSUME NEW q \in Projects, NEW i \in Investors, WithdrawInvestment(q, i)
       PROVE  Subscribes(q, i)
  BY <1>1, <1>10, WithdrawSubscribes
<1> QED BY <1>1, <1>3, <1>4, <1>5, <1>6, <1>7, <1>8, <1>9, <1>10
        DEF Next, AdminNext, InvestorNext
(***************************************************************************)
(* What both abstract specifications keep                                  *)
(***************************************************************************)
Shares    == [p \in Projects |-> Held(p)]
Open      == [p \in Projects |-> Raising(p)]
Credits   == [p \in Projects |-> [i \in Wallets |->
               OwedScaled(position[p][i], project[p].cumulative_usdc_per_token)]]
Deposited == [p \in Projects |-> project[p].total_distributed]
Paid      == [p \in Projects |-> Claimed(p)]

LEMMA ShareDomains ==
  /\ Shares = [p \in Projects |-> [i \in Wallets |-> Shares[p][i]]]
  /\ Credits = [p \in Projects |-> [i \in Wallets |-> Credits[p][i]]]
  /\ Paid = [p \in Projects |-> [i \in Wallets |-> Paid[p][i]]]
  /\ Shares' = [p \in Projects |-> [i \in Wallets |-> Shares'[p][i]]]
  /\ Credits' = [p \in Projects |-> [i \in Wallets |-> Credits'[p][i]]]
  /\ Paid' = [p \in Projects |-> [i \in Wallets |-> Paid'[p][i]]]
BY DEF Shares, Credits, Paid, Held, Claimed

LEMMA SamePositions ==
  ASSUME position' = position
  PROVE  Shares' = Shares /\ Paid' = Paid
BY DEF Shares, Paid, Held, Claimed

LEMMA QuietRefines ==
  ASSUME Quiet
  PROVE  UNCHANGED <<Shares, Open, Credits, Deposited, Paid>>
<1>1. /\ position' = position
      /\ \A p \in Projects :
           /\ project'[p].cumulative_usdc_per_token = project[p].cumulative_usdc_per_token
           /\ project'[p].total_distributed = project[p].total_distributed
           /\ Raising(p)' = Raising(p)
  BY DEF Quiet
<1>2. Open' = Open /\ Deposited' = Deposited
  BY <1>1 DEF Open, Deposited
<1>3. Credits' = Credits
  BY <1>1 DEF Credits
<1> QED BY <1>1, <1>2, <1>3, SamePositions

\* Activation seals the shares.
LEMMA ActivateEffect ==
  ASSUME Inv, NEW p \in Projects, ActivateProject(p)
  PROVE  /\ Open' = [Open EXCEPT ![p] = FALSE]
         /\ UNCHANGED <<Shares, Credits, Deposited, Paid>>
<1> DEFINE fee == OriginationFee(project[p].target_amount)
<1> HIDE DEF fee
<1>1. /\ project \in [Projects -> ProjectType] /\ position' = position
      /\ project' = [project EXCEPT ![p] =
           [project[p] EXCEPT !.status = "Active", !.origination_fee_collected = fee]]
  BY DEF Inv, TypeOK, ActivateProject, FullySold, fee
<1>2. /\ project'[p].status = "Active"
      /\ \A q \in Projects \ {p} : project'[q].status = project[q].status
  BY <1>1 DEF ProjectType
<1>3. \A q \in Projects :
        /\ project'[q].cumulative_usdc_per_token = project[q].cumulative_usdc_per_token
        /\ project'[q].total_distributed = project[q].total_distributed
  BY <1>1 DEF ProjectType
<1>4. Open' = [Open EXCEPT ![p] = FALSE]
  <2>1. \A q \in Projects \ {p} : Raising(q)' = Raising(q)
    BY <1>2 DEF Raising
  <2>2. ~Raising(p)'
    BY <1>2 DEF Raising
  <2>3. Open' = [q \in Projects |-> Raising(q)']
    BY DEF Open
  <2>4. Raising(p)' = FALSE
    BY <2>2 DEF Raising
  <2> QED BY <2>1, <2>3, <2>4 DEF Open
<1>5. Deposited' = Deposited
  BY <1>3 DEF Deposited
<1>6. Credits' = Credits
  BY <1>1, <1>3 DEF Credits
<1> QED BY <1>1, <1>4, <1>5, <1>6, SamePositions

\* A repayment deposits, and its credits are the same for every token.
LEMMA RepayEffect ==
  ASSUME Inv, NEW p \in Projects, NEW amount \in U64, DistributeRepayment(p, amount),
         NEW delta, delta = (amount * Precision) \div SumFunction(Shares[p])
  PROVE  /\ ~Open[p] /\ SumFunction(Shares[p]) > 0
         /\ amount \in Nat /\ amount > 0 /\ Deposited[p] \in Nat
         /\ Deposited' = [Deposited EXCEPT ![p] = Deposited[p] + amount]
         /\ Credits' = [Credits EXCEPT ![p] =
              [i \in Wallets |-> Credits[p][i] + Shares[p][i] * delta]]
         /\ UNCHANGED <<Shares, Open, Paid>>
<1> DEFINE sold == project[p].tokens_sold
           cum == project[p].cumulative_usdc_per_token
<1>1. /\ project \in [Projects -> ProjectType] /\ position' = position
      /\ project[p].status \in {"Active", "Repaying"} /\ sold > 0 /\ amount > 0
      /\ project' = [project EXCEPT ![p] =
           [AfterDistribution(project[p], amount) EXCEPT !.status = "Repaying"]]
  BY DEF Inv, TypeOK, DistributeRepayment, Repayable
<1>2. /\ sold = SumFunction(Shares[p]) /\ sold \in Nat /\ cum \in Nat
      /\ project[p].total_distributed \in Nat
      /\ amount \in Nat /\ Precision \in Nat
  BY ProjectNumbers, WidthAssumption DEF Inv, SharesInv, Shares
<1>3. delta = DeltaPerToken(amount, sold) /\ delta \in Nat
  <2>1. amount * Precision \in Nat
    BY <1>2
  <2>2. delta = (amount * Precision) \div sold
    BY <1>2
  <2> HIDE DEF sold
  <2> QED BY <1>1, <1>2, <2>1, <2>2, Division DEF DeltaPerToken
<1>4. project'[p] = [project[p] EXCEPT !.cumulative_usdc_per_token = cum + delta,
        !.total_distributed = project[p].total_distributed + amount, !.status = "Repaying"]
  BY <1>1, <1>3 DEF AfterDistribution
<1>5. /\ project'[p].status = "Repaying"
      /\ project'[p].cumulative_usdc_per_token = cum + delta
      /\ project'[p].total_distributed = project[p].total_distributed + amount
      /\ \A q \in Projects \ {p} : project'[q] = project[q]
  BY <1>1, <1>4 DEF ProjectType
<1>6. Deposited' = [Deposited EXCEPT ![p] = Deposited[p] + amount]
  BY <1>5 DEF Deposited
<1>7. Open' = Open /\ ~Open[p]
  <2>1. Raising(p)' = FALSE /\ Raising(p) = FALSE
    BY <1>1, <1>5 DEF Raising
  <2>2. \A q \in Projects \ {p} : Raising(q)' = Raising(q)
    BY <1>5 DEF Raising
  <2>3. \A q \in Projects : Raising(q)' = Raising(q)
    BY <2>1, <2>2
  <2> QED BY <2>1, <2>3 DEF Open
<1>8. ASSUME NEW i \in Wallets
      PROVE  OwedScaled(position'[p][i], cum + delta)
               = Credits[p][i] + Shares[p][i] * delta
  <2> DEFINE held == position[p][i].tokens_held
             last == position[p][i].last_claimed_per_token
  <2>1. held \in Nat /\ last \in Nat
    BY WidthAssumption DEF Inv, TypeOK, PositionType
  <2>2. /\ Credits[p][i] = held * (cum - last) /\ Shares[p][i] = held
        /\ OwedScaled(position'[p][i], cum + delta) = held * ((cum + delta) - last)
    BY <1>1 DEF Credits, Shares, Held, OwedScaled
  <2> HIDE DEF held, last, cum
  <2>3. held * ((cum + delta) - last) = held * (cum - last) + held * delta
    BY <1>2, <1>3, <2>1
  <2> QED BY <2>2, <2>3
<1>9. Credits' = [Credits EXCEPT ![p] =
                   [i \in Wallets |-> Credits[p][i] + Shares[p][i] * delta]]
  <2>1. Credits'[p] = [i \in Wallets |-> OwedScaled(position'[p][i], cum + delta)]
    BY <1>5 DEF Credits
  <2>2. Credits'[p] = [i \in Wallets |-> Credits[p][i] + Shares[p][i] * delta]
    BY <1>8, <2>1
  <2>3. \A q \in Projects \ {p} : Credits'[q] = Credits[q]
    BY <1>1, <1>5 DEF Credits
  <2> QED BY <2>2, <2>3 DEF Credits
<1>10. Deposited[p] \in Nat /\ SumFunction(Shares[p]) > 0
  BY <1>1, <1>2 DEF Deposited
<1> QED BY <1>1, <1>2, <1>6, <1>7, <1>9, <1>10, SamePositions

\* While a project raises nothing is credited, so a purchase or a refund
\* changes the shares of one holder and no credit.
LEMMA SubscribeEffect ==
  ASSUME Inv, Inv', NEW p \in Projects, NEW i \in Wallets, Subscribes(p, i)
  PROVE  /\ Open[p] /\ Shares[p][i] \in Nat /\ Shares'[p][i] \in Nat
         /\ Shares' = [Shares EXCEPT ![p][i] = Shares'[p][i]]
         /\ Credits[p][i] = 0 /\ Credits'[p][i] = 0
         /\ Credits' = [Credits EXCEPT ![p][i] = Credits'[p][i]]
         /\ UNCHANGED <<Open, Deposited, Paid>>
<1>1. /\ project[p].status = "Funding"
      /\ \A q \in Projects :
           /\ project'[q].status = project[q].status
           /\ project'[q].cumulative_usdc_per_token = project[q].cumulative_usdc_per_token
           /\ project'[q].total_distributed = project[q].total_distributed
      /\ \A q \in Projects, j \in Wallets :
           ~(q = p /\ j = i) => position'[q][j] = position[q][j]
      /\ position'[p][i].tokens_held \in Nat
      /\ position'[p][i].last_claimed_per_token = 0
      /\ position'[p][i].total_claimed = position[p][i].total_claimed
  BY DEF Subscribes
<1>2. project[p].cumulative_usdc_per_token = 0 /\ Raising(p)
  BY <1>1 DEF Inv, SharesInv, LifeCycle, Raising
<1>3. position[p][i].tokens_held \in Nat /\ position[p][i].last_claimed_per_token = 0
  BY <1>2, ProjectNumbers, RaisingClaims
<1>4. Open[p] /\ Open' = Open
  <2>1. \A q \in Projects : Raising(q)' = Raising(q)
    BY <1>1 DEF Raising
  <2> QED BY <1>2, <2>1 DEF Open
<1>5. Deposited' = Deposited
  BY <1>1 DEF Deposited
<1>6. Paid' = Paid
  <2>1. \A q \in Projects, j \in Wallets :
          position'[q][j].total_claimed = position[q][j].total_claimed
    BY <1>1
  <2> QED BY <2>1 DEF Paid, Claimed
<1>7. /\ Shares[p][i] \in Nat /\ Shares'[p][i] \in Nat
      /\ Shares' = [Shares EXCEPT ![p][i] = Shares'[p][i]]
  <2>1. Shares[p][i] \in Nat /\ Shares'[p][i] \in Nat
    BY <1>1, <1>3 DEF Shares, Held
  <2>2. \A q \in Projects, j \in Wallets : ~(q = p /\ j = i) => Shares'[q][j] = Shares[q][j]
    BY <1>1 DEF Shares, Held
  <2> QED BY <2>1, <2>2, ShareDomains, NestedUpdate
<1>8. /\ Credits[p][i] = 0 /\ Credits'[p][i] = 0
      /\ Credits' = [Credits EXCEPT ![p][i] = Credits'[p][i]]
  <2>1. \A h \in Nat : h * (0 - 0) = 0
    OBVIOUS
  <2>2. /\ Credits[p][i] = position[p][i].tokens_held * (0 - 0)
        /\ Credits'[p][i] = position'[p][i].tokens_held * (0 - 0)
    BY <1>1, <1>2, <1>3 DEF Credits, OwedScaled
  <2>3. Credits[p][i] = 0 /\ Credits'[p][i] = 0
    BY <1>1, <1>3, <2>1, <2>2
  <2>4. \A q \in Projects, j \in Wallets : ~(q = p /\ j = i) => Credits'[q][j] = Credits[q][j]
    BY <1>1 DEF Credits
  <2> QED BY <2>3, <2>4, ShareDomains, NestedUpdate
<1> QED BY <1>4, <1>5, <1>6, <1>7, <1>8

\* A claim pays the whole USDC of the credit; no more than the holder's part.
LEMMA PayEffect ==
  ASSUME Inv, NEW p \in Projects, NEW i \in Investors, ClaimProjectReturns(p, i)
  PROVE  /\ i \in Wallets /\ ~Open[p] /\ Credits[p][i] >= Precision
         /\ Paid[p][i] \in Nat /\ Due(p, i) \in Nat /\ Due(p, i) > 0
         /\ Due(p, i) = Credits[p][i] \div Precision
         /\ Paid' = [Paid EXCEPT ![p][i] = Paid[p][i] + Due(p, i)]
         /\ (Paid[p][i] + Due(p, i)) * SumFunction(Shares[p])
              <= Shares[p][i] * Deposited[p]
         /\ Credits' = [Credits EXCEPT ![p][i] = 0]
         /\ UNCHANGED <<Shares, Open, Deposited>>
<1> DEFINE pos == position[p][i]
           cum == project[p].cumulative_usdc_per_token
           held == pos.tokens_held
           last == pos.last_claimed_per_token
           np == AfterClaim(pos, cum)
<1>1. /\ i \in Wallets /\ position \in [Projects -> [Wallets -> PositionType]]
      /\ pos \in PositionType
      /\ held \in Nat /\ last \in Nat /\ cum \in Nat /\ pos.total_claimed \in Nat
      /\ Precision \in Nat /\ Precision > 0 /\ last <= cum
  BY ProjectAssumption, WidthAssumption
     DEF Inv, TypeOK, PositionType, ProjectType, SharesInv, AccumulatorBacked
<1>2. /\ project' = project /\ position' = [position EXCEPT ![p][i] = np]
      /\ Due(p, i) > 0
  BY DEF ClaimProjectReturns
<1>3. /\ Due(p, i) = (held * (cum - last)) \div Precision
      /\ Credits[p][i] = held * (cum - last) /\ Due(p, i) \in Nat
  BY <1>1, EntitlementBacked DEF Due, Owed, OwedScaled, Credits
<1>4. ~Raising(p)
  <2> SUFFICES ASSUME Raising(p) PROVE FALSE
    OBVIOUS
  <2>1. cum = 0 /\ last = 0
    BY <1>1, RaisingClaims DEF Inv, SharesInv, LifeCycle
  <2>2. held * (0 - 0) = 0 /\ 0 \div Precision = 0
    BY <1>1
  <2>3. Due(p, i) = (held * (0 - 0)) \div Precision
    BY <1>3, <2>1
  <2> HIDE DEF held
  <2> QED BY <1>2, <2>2, <2>3
<1>5. Credits[p][i] >= Precision
  <2> HIDE DEF held, cum, last, pos
  <2>1. held * (cum - last) \in Nat
    BY <1>1
  <2>2. Precision * Due(p, i) <= held * (cum - last)
    BY <1>1, <1>3, <2>1, Division
  <2>3. Precision * Due(p, i) >= Precision /\ Precision * Due(p, i) \in Nat
    BY <1>1, <1>2, <1>3
  <2> QED BY <1>1, <1>3, <2>1, <2>2, <2>3
<1>6. /\ np.tokens_held = held /\ np.last_claimed_per_token = cum
      /\ np.total_claimed = pos.total_claimed + Due(p, i)
  BY <1>1 DEF AfterClaim, PositionType, Due
<1> HIDE DEF np
<1>7. /\ position'[p][i] = np
      /\ \A q \in Projects, j \in Wallets : ~(q = p /\ j = i) => position'[q][j] = position[q][j]
  BY <1>1, <1>2
<1>8. Open' = Open /\ Deposited' = Deposited /\ ~Open[p]
  BY <1>2, <1>4 DEF Open, Deposited, Raising
<1>9. Shares' = Shares
  <2>1. \A q \in Projects, j \in Wallets : position'[q][j].tokens_held = position[q][j].tokens_held
    BY <1>6, <1>7
  <2> QED BY <2>1 DEF Shares, Held
<1>10. /\ Paid[p][i] \in Nat
       /\ Paid' = [Paid EXCEPT ![p][i] = Paid[p][i] + Due(p, i)]
  <2>1. \A q \in Projects, j \in Wallets : ~(q = p /\ j = i) => Paid'[q][j] = Paid[q][j]
    BY <1>7 DEF Paid, Claimed
  <2>2. Paid[p][i] = pos.total_claimed /\ Paid'[p][i] = Paid[p][i] + Due(p, i)
    BY <1>1, <1>6, <1>7 DEF Paid, Claimed
  <2> HIDE DEF pos
  <2> QED BY <1>1, <2>1, <2>2, ShareDomains, NestedUpdate
<1>11. Credits' = [Credits EXCEPT ![p][i] = 0]
  <2>1. Credits'[p][i] = np.tokens_held * (cum - np.last_claimed_per_token)
    BY <1>1, <1>2, <1>7 DEF Credits, OwedScaled
  <2>2. held * (cum - cum) = 0
    BY <1>1
  <2>3. Credits'[p][i] = 0
    BY <1>6, <2>1, <2>2
  <2>4. \A q \in Projects, j \in Wallets : ~(q = p /\ j = i) => Credits'[q][j] = Credits[q][j]
    BY <1>2, <1>7 DEF Credits
  <2> QED BY <1>1, <2>3, <2>4, ShareDomains, NestedUpdate
<1>12. (Paid[p][i] + Due(p, i)) * SumFunction(Shares[p]) <= Shares[p][i] * Deposited[p]
  <2>1. Entitlement(p, i) * project[p].tokens_sold <= held * project[p].total_distributed
    BY <1>1, ProRataHolds DEF ProRata
  <2>2. project[p].tokens_sold = SumFunction(Shares[p])
    BY DEF Inv, SharesInv, Shares
  <2>3. /\ Entitlement(p, i) = Paid[p][i] + Due(p, i)
        /\ held = Shares[p][i] /\ project[p].total_distributed = Deposited[p]
    BY <1>1 DEF Entitlement, Paid, Claimed, Shares, Held, Deposited
  <2> HIDE DEF held
  <2> QED BY <2>1, <2>2, <2>3
<1> HIDE DEF pos, cum, held, last
<1> QED BY <1>1, <1>2, <1>3, <1>4, <1>5, <1>8, <1>9, <1>10, <1>11, <1>12
(***************************************************************************)
(* The refinements                                                         *)
(***************************************************************************)
\* The totals of the abstract specifications are those of the program.
LEMMA SameSum ==
  ASSUME NEW f
  PROVE  /\ Share!SumFunction(f) = SumFunction(f)
         /\ Dividends!SumFunction(f) = SumFunction(f)
BY DEF Share!SumFunction, Share!SumFunctionOnSet, Share!FoldFunctionOnSet,
       Share!MapThenFoldSet, Dividends!SumFunction, Dividends!SumFunctionOnSet,
       Dividends!FoldFunctionOnSet, Dividends!MapThenFoldSet,
       SumFunction, SumFunctionOnSet, FoldFunctionOnSet, MapThenFoldSet

LEMMA InitRefines == Init => Share!Init /\ Dividends!Init
<1> SUFFICES ASSUME Init PROVE Share!Init /\ Dividends!Init
  OBVIOUS
<1>1. \A p \in Projects :
        /\ project[p].total_distributed = 0
        /\ project[p].cumulative_usdc_per_token = 0
        /\ Raising(p) = TRUE
        /\ \A i \in Wallets : /\ position[p][i].tokens_held = 0
                              /\ position[p][i].total_claimed = 0
                              /\ position[p][i].last_claimed_per_token = 0
  BY DEF Init, NoProject, NoPosition, Raising
<1>2. \A p \in Projects, i \in Wallets :
        OwedScaled(position[p][i], project[p].cumulative_usdc_per_token) = 0
  BY <1>1 DEF OwedScaled
<1>3. Share!Init
  BY <1>1 DEF Share!Init, Held, Claimed
<1>4. Dividends!Init
  BY <1>1, <1>2 DEF Dividends!Init, Held, Claimed
<1> QED BY <1>3, <1>4

\* Projects are revenue shares: what holders are paid is their part of what
\* was deposited, and nothing changes the parts once they are sealed.
THEOREM IsRevenueShareTheorem == Spec => IsRevenueShare
<1>1. Inv /\ [Next]_vars => [Share!Next]_Share!shareVars
  <2> SUFFICES ASSUME Inv, [Next]_vars PROVE [Share!Next]_Share!shareVars
    OBVIOUS
  <2>1. Inv' /\ Investors \subseteq Wallets
    BY StepInv, ProjectAssumption
  <2>2. CASE Quiet
    BY <2>2, QuietRefines DEF Share!shareVars, Shares, Open, Deposited, Paid
  <2>3. ASSUME NEW p \in Projects, ActivateProject(p) PROVE Share!Next
    <3>1. Share!Seal(p)
      BY <2>3, ActivateEffect DEF Share!Seal, Shares, Open, Deposited, Paid
    <3> QED BY <3>1 DEF Share!Next
  <2>4. ASSUME NEW p \in Projects, NEW amount \in U64, DistributeRepayment(p, amount)
        PROVE  Share!Next
    <3>1. /\ ~Open[p] /\ amount \in Nat /\ amount > 0 /\ Deposited[p] \in Nat
          /\ Deposited' = [Deposited EXCEPT ![p] = Deposited[p] + amount]
          /\ UNCHANGED <<Shares, Open, Paid>>
      BY <2>4, RepayEffect
    <3>2. Deposited'[p] = Deposited[p] + amount
      BY <3>1 DEF Deposited
    <3>3. Deposited[p] + amount \in Nat /\ Deposited[p] + amount > Deposited[p]
      BY <3>1
    <3>4. Deposited' = [Deposited EXCEPT ![p] = Deposited'[p]]
      BY <3>1, <3>2, Zenon
    <3>5. Deposited'[p] \in Nat /\ Deposited'[p] > Deposited[p]
      BY <3>2, <3>3, Zenon
    <3>6. Share!Deposit(p)
      BY <3>1, <3>4, <3>5 DEF Share!Deposit, Shares, Open, Deposited, Paid
    <3> QED BY <3>6 DEF Share!Next
  <2>5. ASSUME NEW p \in Projects, NEW i \in Wallets, Subscribes(p, i)
        PROVE  Share!Next
    <3>1. Share!Subscribe(p, i)
      BY <2>1, <2>5, SubscribeEffect
         DEF Share!Subscribe, Shares, Open, Deposited, Paid
    <3> QED BY <3>1 DEF Share!Next
  <2>6. ASSUME NEW p \in Projects, NEW i \in Investors, ClaimProjectReturns(p, i)
        PROVE  Share!Next
    <3>1. /\ i \in Wallets /\ ~Open[p] /\ Paid[p][i] \in Nat
          /\ Due(p, i) \in Nat /\ Due(p, i) > 0
          /\ Paid' = [Paid EXCEPT ![p][i] = Paid[p][i] + Due(p, i)]
          /\ (Paid[p][i] + Due(p, i)) * SumFunction(Shares[p])
               <= Shares[p][i] * Deposited[p]
          /\ UNCHANGED <<Shares, Open, Deposited>>
      BY <2>6, PayEffect
    <3>2. Paid'[p][i] = Paid[p][i] + Due(p, i)
      BY <3>1, ShareDomains
    <3>3. Paid[p][i] + Due(p, i) \in Nat /\ Paid[p][i] + Due(p, i) > Paid[p][i]
      BY <3>1
    <3>4. Paid' = [Paid EXCEPT ![p][i] = Paid'[p][i]]
      BY <3>1, <3>2, Zenon
    <3>5. Paid'[p][i] \in Nat /\ Paid'[p][i] > Paid[p][i]
      BY <3>2, <3>3, Zenon
    <3>6. Paid'[p][i] * Share!SumFunction(Shares[p]) <= Shares[p][i] * Deposited[p]
      BY <3>1, <3>2, SameSum
    <3>7. Share!Pay(p, i)
      BY <3>1, <3>4, <3>5, <3>6 DEF Share!Pay, Shares, Open, Deposited, Paid
    <3> QED BY <3>1, <3>7 DEF Share!Next
  <2> QED BY <2>2, <2>3, <2>4, <2>5, <2>6, StepKinds
<1> QED BY <1>1, InitRefines, InvInvariant, PTL DEF Spec, IsRevenueShare, Share!Spec

\* The accumulator of a project and the snapshots are worth what pushing
\* every repayment to all holders at once would be.
THEOREM IsEagerDividendsTheorem == Spec => IsEagerDividends
<1>1. Inv /\ [Next]_vars => [Dividends!Next]_Dividends!dividendVars
  <2> SUFFICES ASSUME Inv, [Next]_vars PROVE [Dividends!Next]_Dividends!dividendVars
    OBVIOUS
  <2>1. Inv' /\ Investors \subseteq Wallets
    BY StepInv, ProjectAssumption
  <2>2. CASE Quiet
    BY <2>2, QuietRefines DEF Dividends!dividendVars, Shares, Credits, Deposited, Paid
  <2>3. ASSUME NEW p \in Projects, ActivateProject(p)
        PROVE  UNCHANGED Dividends!dividendVars
    BY <2>3, ActivateEffect DEF Dividends!dividendVars, Shares, Credits, Deposited, Paid
  <2>4. ASSUME NEW p \in Projects, NEW amount \in U64, DistributeRepayment(p, amount)
        PROVE  Dividends!Next
    <3> DEFINE delta == (amount * Precision) \div SumFunction(Shares[p])
    <3>1. /\ SumFunction(Shares[p]) > 0
          /\ amount \in Nat /\ amount > 0 /\ Deposited[p] \in Nat
          /\ Deposited' = [Deposited EXCEPT ![p] = Deposited[p] + amount]
          /\ Credits' = [Credits EXCEPT ![p] =
               [i \in Wallets |-> Credits[p][i] + Shares[p][i] * delta]]
          /\ UNCHANGED <<Shares, Paid>>
      BY <2>4, RepayEffect
    <3>2. Deposited'[p] = Deposited[p] + amount
      BY <3>1 DEF Deposited
    <3>3. Deposited'[p] - Deposited[p] = amount
      BY <3>1, <3>2
    <3>4. /\ Dividends!SumFunction(Shares[p]) > 0 /\ Deposited'[p] - Deposited[p] > 0
          /\ Deposited' = [Deposited EXCEPT ![p] =
               Deposited[p] + (Deposited'[p] - Deposited[p])]
      BY <3>1, <3>3, SameSum
    <3>5. delta = ((Deposited'[p] - Deposited[p]) * Precision)
                    \div Dividends!SumFunction(Shares[p])
      BY <3>3, SameSum
    <3> HIDE DEF delta
    <3>6. Credits' = [Credits EXCEPT ![p] =
            [i \in Wallets |-> Credits[p][i] + Shares[p][i]
               * (((Deposited'[p] - Deposited[p]) * Precision)
                    \div Dividends!SumFunction(Shares[p]))]]
      BY <3>1, <3>5
    <3>7. Dividends!Deposit(p)
      BY <3>1, <3>4, <3>6 DEF Dividends!Deposit, Shares, Credits, Deposited, Paid
    <3> QED BY <3>7 DEF Dividends!Next
  <2>5. ASSUME NEW p \in Projects, NEW i \in Wallets, Subscribes(p, i)
        PROVE  Dividends!Next
    <3>1. /\ Shares[p][i] \in Nat /\ Shares'[p][i] \in Nat
          /\ Shares' = [Shares EXCEPT ![p][i] = Shares'[p][i]]
          /\ Credits[p][i] = 0 /\ Credits'[p][i] = 0
          /\ Credits' = [Credits EXCEPT ![p][i] = Credits'[p][i]]
          /\ UNCHANGED <<Deposited, Paid>>
      BY <2>1, <2>5, SubscribeEffect
    <3>2. 0 * Shares[p][i] = 0 * Shares'[p][i] /\ (Shares[p][i] = 0 \/ Shares[p][i] > 0)
      BY <3>1
    <3>3. \/ Shares[p][i] = 0 /\ Credits'[p][i] = 0
          \/ Shares[p][i] > 0 /\ Credits'[p][i] * Shares[p][i] = Credits[p][i] * Shares'[p][i]
      BY <3>1, <3>2
    <3>4. Dividends!Trade(p, i)
      BY <3>1, <3>3 DEF Dividends!Trade, Shares, Credits, Deposited, Paid
    <3> QED BY <3>4 DEF Dividends!Next
  <2>6. ASSUME NEW p \in Projects, NEW i \in Investors, ClaimProjectReturns(p, i)
        PROVE  Dividends!Next
    <3>1. /\ i \in Wallets /\ Credits[p][i] >= Precision
          /\ Due(p, i) = Credits[p][i] \div Precision
          /\ Paid' = [Paid EXCEPT ![p][i] = Paid[p][i] + Due(p, i)]
          /\ Credits' = [Credits EXCEPT ![p][i] = 0]
          /\ UNCHANGED <<Shares, Deposited>>
      BY <2>6, PayEffect
    <3>2. Paid' = [Paid EXCEPT ![p][i] = Paid[p][i] + Credits[p][i] \div Precision]
      BY <3>1
    <3>3. Dividends!Pay(p, i)
      BY <3>1, <3>2 DEF Dividends!Pay, Shares, Credits, Deposited, Paid
    <3> QED BY <3>1, <3>3 DEF Dividends!Next
  <2> QED BY <2>2, <2>3, <2>4, <2>5, <2>6, StepKinds
<1> QED BY <1>1, InitRefines, InvInvariant, PTL DEF Spec, IsEagerDividends, Dividends!Spec
=============================================================================
