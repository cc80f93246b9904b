-------------------------------- MODULE Pool --------------------------------
(***************************************************************************)
(* The pool instructions: a diversified product with an accumulator of its *)
(* own.  Nothing moves a pool out of Funding, so sales, distributions and  *)
(* claims interleave for ever; nothing withdraws from a pool's vault       *)
(* except claims; and what the administrator distributes is not tied to    *)
(* what the linked projects repay.                                         *)
(*                                                                         *)
(* Pool tokens are minted 1:1 with tokens_held and read by no handler, so  *)
(* the positions stand for them.                                           *)
(***************************************************************************)
EXTENDS Ledger

CONSTANTS
  Pools,            \* pool ids; a pool stands for its USDC vault too
  PoolProjects,     \* the projects that may be linked to pools
  PoolInvestors,    \* the wallets that buy pool tokens
  PoolTargets,      \* the target amounts the administrator asks for
  Donors,           \* the accounts that send USDC outside these instructions
  MAX_POOL_PROJECTS_V1   \* 20

ASSUME PoolAssumption ==
  /\ Pools \subseteq Accounts
  /\ Pools \cap Wallets = {}
  /\ PoolInvestors \subseteq Wallets
  /\ Donors \subseteq Accounts \ Pools
  /\ PoolTargets \subseteq U64
  /\ MAX_POOL_PROJECTS_V1 \in Nat

VARIABLES
  pool,       \* the Pool accounts
  stake,      \* the InvestorPosition of every investor in every pool
  links,      \* the projects each pool has a PoolProjectLink to
  created,    \* the projects that exist (the project instructions add them)
  inherited   \* per pool, the scaled USDC that top-ups made claimable out of
              \* distributions that came before them (not in the code: a
              \* ledger for the properties only)

poolVars == <<usdc, platform, pool, stake, links, created, inherited>>

NoPool ==
  [status |-> "Absent", target_amount |-> 0, tokens_sold |-> 0,
   total_distributed |-> 0, cumulative_usdc_per_token |-> 0,
   underlying_project_count |-> 0]

PoolType ==
  [status : {"Absent", "Funding"}, target_amount : U64, tokens_sold : U64,
   total_distributed : U64, cumulative_usdc_per_token : U128,
   underlying_project_count : 0 .. MAX_POOL_PROJECTS_V1]

PoolExists(q) == pool[q].status # "Absent"

Init ==
  /\ usdc = InitialUsdc
  /\ platform = NoPlatform
  /\ pool = [q \in Pools |-> NoPool]
  /\ stake = [q \in Pools |-> [i \in Wallets |-> NoPosition]]
  /\ links = [q \in Pools |-> {}]
  /\ created = {}
  /\ inherited = [q \in Pools |-> 0]

(***************************************************************************)
(* Administration                                                          *)
(***************************************************************************)
Deploy(admin, treasury, bps) ==
  /\ InitializePlatform(admin, treasury, bps)
  /\ UNCHANGED <<usdc, pool, stake, links, created, inherited>>

\* Variant: an existing pool is created over.
CreatePoolAgain(q, target) ==
  /\ Initialized
  /\ target > 0
  /\ pool' = [pool EXCEPT ![q] =
       [NoPool EXCEPT !.status = "Funding", !.target_amount = target]]
  /\ platform' = [platform EXCEPT !.pool_count = SaturatingSucc(@)]
  /\ UNCHANGED <<usdc, stake, links, created, inherited>>

\* Variant: the pool is counted as a project.
CreatePoolCountingProject(q, target) ==
  /\ Initialized
  /\ ~PoolExists(q)
  /\ target > 0
  /\ pool' = [pool EXCEPT ![q] =
       [NoPool EXCEPT !.status = "Funding", !.target_amount = target]]
  /\ platform' = [platform EXCEPT !.project_count = SaturatingSucc(@)]
  /\ UNCHANGED <<usdc, stake, links, created, inherited>>

CreatePool(q, target) ==
  /\ Initialized
  /\ ~PoolExists(q)
  /\ target > 0
  /\ pool' = [pool EXCEPT ![q] =
       [NoPool EXCEPT !.status = "Funding", !.target_amount = target]]
  /\ platform' = [platform EXCEPT !.pool_count = SaturatingSucc(@)]
  /\ UNCHANGED <<usdc, stake, links, created, inherited>>

\* Variant: the cap is passed by one.
AddProjectPastCap(q, p) ==
  /\ Initialized
  /\ PoolExists(q)
  /\ p \in created \ links[q]
  /\ pool[q].underlying_project_count <= MAX_POOL_PROJECTS_V1
  /\ links' = [links EXCEPT ![q] = @ \cup {p}]
  /\ pool' = [pool EXCEPT ![q].underlying_project_count = @ + 1]
  /\ UNCHANGED <<usdc, platform, stake, created, inherited>>

\* The link account is created, once per pool and project; the project's
\* status does not matter, and it may be linked to other pools.
AddProjectToPool(q, p) ==
  /\ Initialized
  /\ PoolExists(q)
  /\ p \in created \ links[q]
  /\ pool[q].underlying_project_count < MAX_POOL_PROJECTS_V1
  /\ links' = [links EXCEPT ![q] = @ \cup {p}]
  /\ pool' = [pool EXCEPT ![q].underlying_project_count = @ + 1]
  /\ UNCHANGED <<usdc, platform, stake, created, inherited>>

\* Variant: the returns are credited but never transferred.
DistributeUnfunded(q, amount) ==
  /\ Initialized
  /\ PoolExists(q)
  /\ amount > 0
  /\ pool[q].tokens_sold > 0
  /\ DistributionFits(pool[q], amount)
  /\ pool' = [pool EXCEPT ![q] = AfterDistribution(@, amount)]
  /\ UNCHANGED <<usdc, platform, stake, links, created, inherited>>

\* No status is checked.
DistributePoolReturns(q, amount) ==
  /\ Initialized
  /\ PoolExists(q)
  /\ amount > 0
  /\ pool[q].tokens_sold > 0
  /\ Transfer(platform.admin, q, amount)
  /\ DistributionFits(pool[q], amount)
  /\ pool' = [pool EXCEPT ![q] = AfterDistribution(@, amount)]
  /\ UNCHANGED <<platform, stake, links, created, inherited>>

(***************************************************************************)
(* Investors                                                               *)
(***************************************************************************)
\* What amount more tokens add to the claim of a position that is open: the
\* distributions since its last claim, which they did not take part in.
Inheritance(q, i, amount) ==
  IF stake[q][i].owner = NoKey THEN 0
  ELSE amount * (pool[q].cumulative_usdc_per_token
                   - stake[q][i].last_claimed_per_token)

\* Variant: the purchase does not stop at the target.
FitsAnything(q, amount) == pool[q].status = "Funding"

\* The pool still sells, and amount is within what it has left to sell.
FitsTarget(q, amount) ==
  /\ pool[q].status = "Funding"
  /\ pool[q].tokens_sold <= pool[q].target_amount
  /\ amount <= pool[q].target_amount - pool[q].tokens_sold

BuyPoolTokens(q, i, amount) ==
  /\ amount > 0
  /\ FitsTarget(q, amount)
  /\ Transfer(i, q, amount)
  /\ stake[q][i].tokens_held + amount \in U64
  /\ stake' = [stake EXCEPT ![q][i] =
       AfterBuy(@, i, pool[q].cumulative_usdc_per_token, amount)]
  /\ pool[q].tokens_sold + amount \in U64
  /\ pool' = [pool EXCEPT ![q].tokens_sold = @ + amount]
  /\ inherited' = [inherited EXCEPT ![q] = @ + Inheritance(q, i, amount)]
  /\ UNCHANGED <<platform, links, created>>

\* What investor i could claim from pool q now, if the vault has it.
PoolDue(q, i) == Owed(stake[q][i], pool[q].cumulative_usdc_per_token)

\* Variant: only a pool that is sold out pays.
ClaimWhenSoldOut(q, i) ==
  LET cumulative == pool[q].cumulative_usdc_per_token IN
  /\ stake[q][i].owner = i
  /\ pool[q].tokens_sold = pool[q].target_amount
  /\ ClaimFits(stake[q][i], cumulative)
  /\ PoolDue(q, i) > 0
  /\ Transfer(q, i, PoolDue(q, i))
  /\ stake' = [stake EXCEPT ![q][i] = AfterClaim(@, cumulative)]
  /\ UNCHANGED <<platform, pool, links, created, inherited>>

\* Variant: the vault of the claim is not tied to the pool.
ClaimFromAnyVault(q, i) ==
  LET cumulative == pool[q].cumulative_usdc_per_token IN
  /\ stake[q][i].owner = i
  /\ ClaimFits(stake[q][i], cumulative)
  /\ PoolDue(q, i) > 0
  /\ \E from \in Accounts \ Wallets : Transfer(from, i, PoolDue(q, i))
  /\ stake' = [stake EXCEPT ![q][i] = AfterClaim(@, cumulative)]
  /\ UNCHANGED <<platform, pool, links, created, inherited>>

ClaimPoolReturns(q, i) ==
  LET cumulative == pool[q].cumulative_usdc_per_token IN
  /\ stake[q][i].owner = i
  /\ ClaimFits(stake[q][i], cumulative)
  /\ PoolDue(q, i) > 0
  /\ usdc[q] >= PoolDue(q, i)
  /\ Transfer(q, i, PoolDue(q, i))
  /\ stake' = [stake EXCEPT ![q][i] = AfterClaim(@, cumulative)]
  /\ UNCHANGED <<platform, pool, links, created, inherited>>

(***************************************************************************)
(* Outside the pool instructions                                           *)
(***************************************************************************)
\* A create_project, of which pools only see that the account is there.
ProjectCreated(p) ==
  /\ p \notin created
  /\ created' = created \cup {p}
  /\ UNCHANGED <<usdc, platform, pool, stake, links, inherited>>

\* USDC sent with the token program, to a wallet or to a vault.
Donate(from, to, amount) ==
  /\ amount > 0
  /\ to \in Pools => PoolExists(to)
  /\ Transfer(from, to, amount)
  /\ UNCHANGED <<platform, pool, stake, links, created, inherited>>

(***************************************************************************)
(* The specification                                                       *)
(***************************************************************************)
PoolAdminNext ==
  \/ \E a \in Deployers, t \in Treasuries, bps \in FeeChoices : Deploy(a, t, bps)
  \/ \E q \in Pools :
       \/ \E target \in PoolTargets : CreatePool(q, target)
       \/ \E p \in PoolProjects : AddProjectToPool(q, p)
       \/ \E amount \in U64 : DistributePoolReturns(q, amount)

PoolInvestorNext ==
  \E q \in Pools, i \in PoolInvestors :
    \/ \E amount \in U64 : BuyPoolTokens(q, i, amount)
    \/ ClaimPoolReturns(q, i)

OutsideNext ==
  \/ \E p \in PoolProjects : ProjectCreated(p)
  \/ \E from \in Donors, to \in Accounts, amount \in U64 : Donate(from, to, amount)

Next == PoolAdminNext \/ PoolInvestorNext \/ OutsideNext

Spec == Init /\ [][Next]_poolVars
=============================================================================
