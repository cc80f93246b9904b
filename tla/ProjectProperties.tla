-------------------------- MODULE ProjectProperties --------------------------
(***************************************************************************)
(* What the project instructions must guarantee.                           *)
(***************************************************************************)
EXTENDS Project

(***************************************************************************)
(* Totals                                                                  *)
(***************************************************************************)
Held(p)    == [i \in Wallets |-> position[p][i].tokens_held]
Claimed(p) == [i \in Wallets |-> position[p][i].total_claimed]

\* Everything investor i has had or could have out of p's repayments.
Entitlement(p, i) == position[p][i].total_claimed + Due(p, i)
Entitlements(p)   == [i \in Wallets |-> Entitlement(p, i)]
Dues(p)           == [i \in Wallets |-> Due(p, i)]

Raising(p) == project[p].status \in {"Absent", "Funding"}

(***************************************************************************)
(* Safety                                                                  *)
(***************************************************************************)
\* Every account field keeps its Rust type, and no balance is negative.
TypeOK ==
  /\ usdc \in [Accounts -> Nat]
  /\ platform \in PlatformType
  /\ project \in [Projects -> ProjectType]
  /\ position \in [Projects -> [Wallets -> PositionType]]
  /\ tokens \in [Projects -> [Wallets -> Nat]]
  /\ baselined \subseteq MrvProjects
  /\ disbursed \in [Projects -> Int]

\* tokens_sold, the divisor of every distribution, is the number of tokens
\* the positions hold, through purchases, top-ups and withdrawals; and it
\* never passes the target, however buyers race for the last tokens.
HeldIsSold == \A p \in Projects :
  /\ project[p].tokens_sold = SumFunction(Held(p))
  /\ project[p].tokens_sold <= project[p].target_amount

\* No more SPL tokens circulate than the program counts as sold, although
\* holders move and burn them without the program: a refund always takes
\* its tokens out of circulation.
SupplyWithinSold == \A p \in Projects :
  SumFunction(tokens[p]) <= project[p].tokens_sold

\* A project that left Funding was sold out exactly, and paid the fee of its
\* whole target.
ActivatedSoldOut == \A p \in Projects :
  ~Raising(p) =>
    /\ project[p].tokens_sold = project[p].target_amount
    /\ project[p].origination_fee_collected =
         OriginationFee(project[p].target_amount)

\* All that holders claimed and may still claim was distributed: the
\* rounding of the accumulator and of each claim never adds up to more.
WithinDistributions == \A p \in Projects :
  SumFunction(Entitlements(p)) <= project[p].total_distributed

\* No holder gets more than its pro-rata part of the distributions, however
\* it splits its claims and whatever the others do.
ProRata == \A p \in Projects, i \in Wallets :
  Entitlement(p, i) * project[p].tokens_sold
    <= position[p][i].tokens_held * project[p].total_distributed

\* Every USDC of a vault is accounted for: sales and repayments came in;
\* the fee, the claims and the administrator's disbursements went out.
VaultAccounted == \A p \in Projects :
  usdc[p] + disbursed[p] + project[p].origination_fee_collected
          + SumFunction(Claimed(p))
    = project[p].tokens_sold + project[p].total_distributed

\* As long as the administrator took out no more than the net proceeds of
\* the sale, the vault covers all refunds of a project in Funding and the
\* claims of all holders at once.
Solvent == \A p \in Projects :
  /\ project[p].status = "Funding" /\ disbursed[p] <= 0 =>
       usdc[p] >= project[p].tokens_sold
  /\ disbursed[p] <= project[p].tokens_sold
                       - project[p].origination_fee_collected =>
       usdc[p] >= SumFunction(Dues(p))

\* The checked arithmetic never stands between a holder and its claim, nor
\* between the administrator and a repayment whose lifetime total fits.
ArithmeticNeverBlocks == \A p \in Projects :
  /\ \A i \in Wallets : ClaimFits(position[p][i], project[p].cumulative_usdc_per_token)
  /\ \A amount \in U64 :
       /\ ~Raising(p)
       /\ project[p].total_distributed + amount \in U64
       => DistributionFits(project[p], amount)

(***************************************************************************)
(* The inductive invariant the safety properties follow from               *)
(***************************************************************************)
\* The accumulator is worth no more than what was distributed, and each
\* claim history is worth no more than the accumulator at its last claim.
\* While tokens are still sold and withdrawn the accumulator is zero, so
\* positions may change without owing anything.
AccumulatorBacked(p) ==
  /\ project[p].cumulative_usdc_per_token * project[p].tokens_sold
       <= Precision * project[p].total_distributed
  /\ \A i \in Wallets :
       /\ position[p][i].last_claimed_per_token
            <= project[p].cumulative_usdc_per_token
       /\ Precision * position[p][i].total_claimed
            <= position[p][i].tokens_held * position[p][i].last_claimed_per_token

LifeCycle(p) ==
  /\ project[p].status # "Cancelled"
  /\ project[p].tokens_sold <= project[p].target_amount
  /\ Exists(p) => Initialized /\ project[p].target_amount > 0
  /\ ~Exists(p) => project[p].target_amount = 0
  /\ Raising(p) => /\ project[p].cumulative_usdc_per_token = 0
                   /\ project[p].total_distributed = 0
                   /\ project[p].origination_fee_collected = 0

\* Every state the project instructions reach satisfies these facts, and
\* they are what makes all the safety properties inductive.
Accounting ==
  /\ HeldIsSold
  /\ SupplyWithinSold
  /\ ActivatedSoldOut
  /\ VaultAccounted
  /\ \A p \in Projects : LifeCycle(p) /\ AccumulatorBacked(p)

(***************************************************************************)
(* What a step may never do                                                *)
(***************************************************************************)
StatusRank(s) ==
  CASE s = "Absent" -> 0 [] s = "Funding" -> 1 [] s = "Active" -> 2
    [] s = "Repaying" -> 3 [] s = "Completed" -> 4 [] s = "Cancelled" -> 4

KeepsShares(p) ==
  /\ StatusRank(project'[p].status) >= StatusRank(project[p].status)
  /\ ~Raising(p) => /\ Held(p)' = Held(p)
                    /\ project'[p].tokens_sold = project[p].tokens_sold

\* A project never goes back in its life cycle, and once it left Funding
\* nobody's share of its repayments changes.
SharesFrozen == [][\A p \in Projects : KeepsShares(p)]_vars

\* What the accumulator gained in this step.
Raise(p) == project'[p].cumulative_usdc_per_token
              - project[p].cumulative_usdc_per_token

GrowsEntitlement(p, i) ==
  Entitlement(p, i)' >=
    Entitlement(p, i) + (position[p][i].tokens_held * Raise(p)) \div Precision

\* A repayment raises what each holder is entitled to by its tokens' part,
\* rounded down, and nothing any signer does lowers it.
EntitlementsGrow == [][\A p \in Projects, i \in Wallets : GrowsEntitlement(p, i)]_vars

(***************************************************************************)
(* Refinement and liveness                                                 *)
(***************************************************************************)
Share == INSTANCE RevenueShare WITH
  Issuers   <- Projects,
  Holders   <- Wallets,
  shares    <- [p \in Projects |-> Held(p)],
  open      <- [p \in Projects |-> Raising(p)],
  deposited <- [p \in Projects |-> project[p].total_distributed],
  paid      <- [p \in Projects |-> Claimed(p)]

\* Projects are revenue shares: positions are the shares, activation seals
\* them, repayments are deposits and claims are payments.
IsRevenueShare == Share!Spec

Dividends == INSTANCE EagerDividends WITH
  Issuers   <- Projects,
  Holders   <- Wallets,
  Unit      <- Precision,
  shares    <- [p \in Projects |-> Held(p)],
  credit    <- [p \in Projects |-> [i \in Wallets |->
                 OwedScaled(position[p][i], project[p].cumulative_usdc_per_token)]],
  deposited <- [p \in Projects |-> project[p].total_distributed],
  paid      <- [p \in Projects |-> Claimed(p)]

\* The accumulator and the snapshots are worth exactly what crediting every
\* holder at each repayment would be, whoever claims when; a position that
\* was emptied by a withdrawal and bought into again owes nothing old.
IsEagerDividends == Dividends!Spec

\* Holders resubmit a claim until it goes through.
ClaimFairness == \A p \in Projects, i \in Investors :
  WF_vars(ClaimProjectReturns(p, i))

FairSpec == Spec /\ ClaimFairness

\* The claims that are owed and that the vault could pay.
Payable == {c \in Projects \X Investors :
              Due(c[1], c[2]) > 0 /\ usdc[c[1]] >= Due(c[1], c[2])}

\* What a holder is owed is eventually claimed, whatever state the project
\* is in, unless the vault is left without the money.
ClaimsGetPaid == \A c \in Projects \X Investors : c \in Payable ~> c \notin Payable

(***************************************************************************)
(* What the documents say                                                  *)
(***************************************************************************)
\* docs/ARCHITECTURE.md: "the admin cannot move vault funds".  Whatever
\* leaves a vault is the fee, a claim or a refund, so it changes the project
\* or a position.
AdminCannotMoveFunds == [][\A p \in Projects :
  usdc'[p] < usdc[p] => project'[p] # project[p] \/ position'[p] # position[p]]_vars

\* The scaled USDC of p's distributions that no holder can ever claim.
Dust(p) == Precision * project[p].total_distributed
  - SumFunction([i \in Wallets |->
      Precision * position[p][i].total_claimed
        + OwedScaled(position[p][i], project[p].cumulative_usdc_per_token)])

\* docs/ARCHITECTURE.md on rounding dust: "it simply raises the next round's
\* effective per-token rate".  A repayment that finds at least one scaled
\* unit of dust per token raises the rate by more than its own amount does.
DustRaisesNextRate == [][\A p \in Projects :
  LET amount == project'[p].total_distributed - project[p].total_distributed IN
  amount > 0 /\ Dust(p) >= project[p].tokens_sold
    => Raise(p) > DeltaPerToken(amount, project[p].tokens_sold)]_vars
=============================================================================
