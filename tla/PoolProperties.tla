--------------------------- MODULE PoolProperties ---------------------------
(***************************************************************************)
(* What the pool instructions guarantee, and what the repository's         *)
(* documents say of them that they do not.                                 *)
(***************************************************************************)
EXTENDS Pool

Staked(q)      == [i \in Wallets |-> stake[q][i].tokens_held]
PoolClaimed(q) == [i \in Wallets |-> stake[q][i].total_claimed]
PoolDues(q)    == [i \in Wallets |-> PoolDue(q, i)]

PoolEntitlement(q, i) == stake[q][i].total_claimed + PoolDue(q, i)

\* What a position took and can take, before the rounding of its next claim.
ScaledEntitlements(q) == [i \in Wallets |->
  Precision * stake[q][i].total_claimed
    + OwedScaled(stake[q][i], pool[q].cumulative_usdc_per_token)]

(***************************************************************************)
(* Safety                                                                  *)
(***************************************************************************)
\* Every account field keeps its Rust type, and no balance is negative.
PoolTypeOK ==
  /\ usdc \in [Accounts -> Nat]
  /\ platform \in PlatformType
  /\ pool \in [Pools -> PoolType]
  /\ stake \in [Pools -> [Wallets -> PositionType]]
  /\ links \in [Pools -> SUBSET PoolProjects]
  /\ created \subseteq PoolProjects
  /\ inherited \in [Pools -> Nat]

\* tokens_sold, the divisor of every distribution, is what the positions
\* hold, and concurrent purchases never sell more than the target.
StakesAreSold == \A q \in Pools :
  /\ pool[q].tokens_sold = SumFunction(Staked(q))
  /\ pool[q].tokens_sold <= pool[q].target_amount

\* Top-ups of positions with an unclaimed difference are the one way claims
\* can exceed distributions, and by exactly what the new tokens inherit.
OnlyTopUpsInherit == \A q \in Pools :
  SumFunction(ScaledEntitlements(q))
    <= Precision * pool[q].total_distributed + inherited[q]

\* Where every holder claims before it buys more, all can be paid at once
\* and the vault keeps the whole principal besides.
FairWithoutTopUps == \A q \in Pools :
  inherited[q] = 0 =>
    usdc[q] >= pool[q].tokens_sold + SumFunction(PoolDues(q))

\* A vault has all it ever received, except for what holders claimed.
PoolVaultAccounted == \A q \in Pools :
  usdc[q] + SumFunction(PoolClaimed(q))
    >= pool[q].tokens_sold + pool[q].total_distributed

\* The counter the cap is checked on is the number of links, all of them to
\* projects that exist.
LinksCounted == \A q \in Pools :
  /\ pool[q].underlying_project_count = Cardinality(links[q])
  /\ Cardinality(links[q]) <= MAX_POOL_PROJECTS_V1
  /\ links[q] \subseteq created

(***************************************************************************)
(* What a step may never do                                                *)
(***************************************************************************)
\* Principal is locked: a vault only pays a holder's claim, and then just
\* what that holder's position records.
OnlyClaimsLeaveVault == [][\A q \in Pools :
  usdc'[q] < usdc[q] =>
    \E i \in Wallets :
      /\ stake'[q][i].total_claimed - stake[q][i].total_claimed = usdc[q] - usdc'[q]
      /\ Staked(q)' = Staked(q)
      /\ \A j \in Wallets \ {i} : stake'[q][j] = stake[q][j]]_poolVars

\* Whatever the others do, what a holder took and can take never shrinks; a
\* distribution adds its tokens' part, and its own top-ups cost it nothing.
PoolEntitlementsGrow == [][\A q \in Pools, i \in Wallets :
  LET raise == pool'[q].cumulative_usdc_per_token - pool[q].cumulative_usdc_per_token
  IN  PoolEntitlement(q, i)' >=
        PoolEntitlement(q, i) + (stake[q][i].tokens_held * raise) \div Precision]_poolVars

(***************************************************************************)
(* Refinement                                                              *)
(***************************************************************************)
Dividends == INSTANCE EagerDividends WITH
  Issuers   <- Pools,
  Holders   <- Wallets,
  Unit      <- Precision,
  shares    <- [q \in Pools |-> Staked(q)],
  credit    <- [q \in Pools |-> [i \in Wallets |->
                 OwedScaled(stake[q][i], pool[q].cumulative_usdc_per_token)]],
  deposited <- [q \in Pools |-> pool[q].total_distributed],
  paid      <- [q \in Pools |-> PoolClaimed(q)]

\* The accumulator and the snapshots are worth exactly what crediting every
\* holder at each distribution would be, for sales, distributions and claims
\* in any order; newcomers get nothing of what came before them.
IsEagerDividends == Dividends!Spec

(***************************************************************************)
(* Liveness                                                                *)
(***************************************************************************)
\* Holders resubmit a claim until it goes through.
PoolFairSpec == Spec /\ \A q \in Pools, i \in PoolInvestors :
  WF_poolVars(ClaimPoolReturns(q, i))

PayableStakes == {c \in Pools \X PoolInvestors :
  /\ ClaimFits(stake[c[1]][c[2]], pool[c[1]].cumulative_usdc_per_token)
  /\ PoolDue(c[1], c[2]) > 0
  /\ usdc[c[1]] >= PoolDue(c[1], c[2])}

\* A claim the vault can pay is eventually paid, unless other claims or a
\* top-up of the holder put it out of the vault's reach first.
StakesGetPaid == \A c \in Pools \X PoolInvestors :
  c \in PayableStakes ~> c \notin PayableStakes

(***************************************************************************)
(* What the documents say                                                  *)
(***************************************************************************)
\* README.md: "sum(claims) <= total_distributed by construction".
ClaimsWithinDistributions == \A q \in Pools :
  SumFunction(PoolClaimed(q)) <= pool[q].total_distributed

\* docs/ARCHITECTURE.md on top-ups: "a mild boost to topped-up holders
\* rather than a loss".  A holder's own purchase never takes from it a claim
\* the vault could pay before it.
TopUpIsNoLoss == [][\A q \in Pools, i \in PoolInvestors :
  /\ <<q, i>> \in PayableStakes
  /\ stake'[q][i].tokens_held > stake[q][i].tokens_held
  => (<<q, i>> \in PayableStakes)']_poolVars
=============================================================================
