----------------------------- MODULE PoolProofs -----------------------------
(***************************************************************************)
(* Proofs about the pool instructions, for every set of wallets, pools and *)
(* projects, every width and every PRECISION.                              *)
(***************************************************************************)
EXTENDS PoolProperties, LedgerProofs

USE DEF U64, U128

(***************************************************************************)
(* The inductive invariant, pool by pool                                   *)
(***************************************************************************)
\* A position that nobody opened is empty, one that somebody opened is not,
\* and none is ahead of the accumulator; the rest is what the properties say
\* of one pool.
Opening(q) ==
  /\ ~PoolExists(q) => pool[q] = NoPool
  /\ \A i \in Wallets :
       /\ stake[q][i].owner = NoKey => stake[q][i] = NoPosition
       /\ stake[q][i].owner # NoKey => stake[q][i].tokens_held > 0
       /\ stake[q][i].last_claimed_per_token <= pool[q].cumulative_usdc_per_token

Sold(q) ==
  /\ pool[q].tokens_sold = SumFunction(Staked(q))
  /\ pool[q].tokens_sold <= pool[q].target_amount

Backed(q) ==
  SumFunction(ScaledEntitlements(q))
    <= Precision * pool[q].total_distributed + inherited[q]

Vault(q) ==
  usdc[q] + SumFunction(PoolClaimed(q))
    >= pool[q].tokens_sold + pool[q].total_distributed

Linked(q) ==
  /\ IsFiniteSet(links[q])
  /\ pool[q].underlying_project_count = Cardinality(links[q])
  /\ links[q] \subseteq created

Facts(q) == Opening(q) /\ Sold(q) /\ Backed(q) /\ Vault(q) /\ Linked(q)

Inv == PoolTypeOK /\ \A q \in Pools : Facts(q)

\* The numbers of one pool.
LEMMA PoolNumbers ==
  ASSUME PoolTypeOK, NEW q \in Pools
  PROVE  /\ q \in Accounts /\ q \notin Wallets
         /\ usdc[q] \in Nat /\ inherited[q] \in Nat
         /\ pool[q].target_amount \in Nat
         /\ pool[q].tokens_sold \in Nat
         /\ pool[q].total_distributed \in Nat
         /\ pool[q].cumulative_usdc_per_token \in Nat
         /\ Precision \in Nat /\ Precision > 0
         /\ stake[q] \in [Wallets -> PositionType]
         /\ \A i \in Wallets : /\ stake[q][i].tokens_held \in Nat
                               /\ stake[q][i].last_claimed_per_token \in Nat
                               /\ stake[q][i].total_claimed \in Nat
<1>1. q \in Accounts /\ q \notin Wallets
  BY PoolAssumption
<1>2. Precision \in Nat /\ Precision > 0 /\ U64 \subseteq Nat /\ U128 \subseteq Nat
  BY WidthAssumption
<1> HIDE DEF U64, U128
<1>3. pool[q] \in PoolType /\ stake[q] \in [Wallets -> PositionType]
      /\ usdc[q] \in Nat /\ inherited[q] \in Nat
  BY <1>1 DEF PoolTypeOK
<1> QED BY <1>1, <1>2, <1>3 DEF PoolType, PositionType

\* What holders took and can take, as a function of their positions.
EntitledOf(f, cum) == [i \in Wallets |->
  Precision * f[i].total_claimed + OwedScaled(f[i], cum)]

LEMMA Totals ==
  ASSUME NEW q \in Pools
  PROVE  /\ Staked(q) = HeldOf(stake[q])
         /\ PoolClaimed(q) = ClaimedOf(stake[q])
         /\ ScaledEntitlements(q)
              = EntitledOf(stake[q], pool[q].cumulative_usdc_per_token)
         /\ Staked(q)' = HeldOf(stake'[q])
         /\ PoolClaimed(q)' = ClaimedOf(stake'[q])
         /\ ScaledEntitlements(q)'
              = EntitledOf(stake'[q], pool'[q].cumulative_usdc_per_token)
BY DEF Staked, PoolClaimed, ScaledEntitlements, HeldOf, ClaimedOf, EntitledOf

\* The totals of a pool are naturals.
LEMMA PoolSums ==
  ASSUME Inv, NEW q \in Pools
  PROVE  /\ Staked(q) \in [Wallets -> Nat] /\ PoolClaimed(q) \in [Wallets -> Nat]
         /\ ScaledEntitlements(q) \in [Wallets -> Nat]
         /\ SumFunction(Staked(q)) \in Nat /\ SumFunction(PoolClaimed(q)) \in Nat
         /\ SumFunction(ScaledEntitlements(q)) \in Nat
<1>1. Staked(q) \in [Wallets -> Nat] /\ PoolClaimed(q) \in [Wallets -> Nat]
  BY PoolNumbers DEF Inv, Staked, PoolClaimed
<1>2. ASSUME NEW i \in Wallets
      PROVE  Precision * stake[q][i].total_claimed
               + OwedScaled(stake[q][i], pool[q].cumulative_usdc_per_token) \in Nat
  <2> DEFINE held == stake[q][i].tokens_held
             last == stake[q][i].last_claimed_per_token
             claimed == stake[q][i].total_claimed
             cum == pool[q].cumulative_usdc_per_token
  <2>1. /\ held \in Nat /\ last \in Nat /\ claimed \in Nat /\ cum \in Nat
        /\ last <= cum /\ Precision \in Nat
    BY PoolNumbers DEF Inv, Facts, Opening
  <2> HIDE DEF held, last, claimed, cum
  <2>2. Precision * claimed \in Nat /\ held * (cum - last) \in Nat
    BY <2>1
  <2>3. Precision * claimed + held * (cum - last) \in Nat
    BY <2>2
  <2> QED BY <2>3 DEF OwedScaled, held, last, claimed, cum
<1>3. ScaledEntitlements(q) \in [Wallets -> Nat]
  BY <1>2 DEF ScaledEntitlements
<1> QED BY <1>1, <1>3, SumType, WalletsFinite

\* The entitlements after one position changed.
LEMMA EntitledUpdate ==
  ASSUME NEW f, NEW cum, NEW i \in Wallets, NEW np, NEW g,
         g = [f EXCEPT ![i] = np], DOMAIN f = Wallets,
         EntitledOf(f, cum) \in [Wallets -> Nat],
         Precision * np.total_claimed + OwedScaled(np, cum) \in Nat
  PROVE  SumFunction(EntitledOf(g, cum)) =
           SumFunction(EntitledOf(f, cum))
             + (Precision * np.total_claimed + OwedScaled(np, cum))
             - (Precision * f[i].total_claimed + OwedScaled(f[i], cum))
<1> DEFINE v == Precision * np.total_claimed + OwedScaled(np, cum)
<1>1. EntitledOf(g, cum) = [EntitledOf(f, cum) EXCEPT ![i] = v]
  BY DEF EntitledOf
<1>2. EntitledOf(f, cum)[i] = Precision * f[i].total_claimed + OwedScaled(f[i], cum)
  BY DEF EntitledOf
<1>3. v \in Nat
  OBVIOUS
<1> HIDE DEF v
<1>4. SumFunction([EntitledOf(f, cum) EXCEPT ![i] = v])
        = SumFunction(EntitledOf(f, cum)) + v - EntitledOf(f, cum)[i]
  BY <1>3, SumUpdate, WalletsFinite
<1> QED BY <1>1, <1>2, <1>4 DEF v

\* What a step does not touch in a pool stays true of it; its vault may grow.
LEMMA PoolFrame ==
  ASSUME Inv, NEW q \in Pools, pool'[q] = pool[q], stake'[q] = stake[q],
         links'[q] = links[q], inherited'[q] = inherited[q],
         created \subseteq created', usdc'[q] >= usdc[q], usdc'[q] \in Nat
  PROVE  Facts(q)'
<1>1. /\ Staked(q)' = Staked(q) /\ PoolClaimed(q)' = PoolClaimed(q)
      /\ ScaledEntitlements(q)' = ScaledEntitlements(q)
  BY Totals
<1>2. /\ usdc[q] \in Nat /\ pool[q].tokens_sold \in Nat
      /\ pool[q].total_distributed \in Nat /\ SumFunction(PoolClaimed(q)) \in Nat
  BY PoolNumbers, PoolSums DEF Inv
<1>3. Vault(q)'
  BY <1>1, <1>2 DEF Inv, Facts, Vault
<1>4. Opening(q)' /\ Sold(q)' /\ Backed(q)' /\ Linked(q)'
  BY <1>1 DEF Inv, Facts, Opening, Sold, Backed, Linked, PoolExists
<1> QED BY <1>3, <1>4 DEF Facts

LEMMA InitInv == Init => Inv
<1> SUFFICES ASSUME Init PROVE Inv
  OBVIOUS
<1>1. 0 \in U64 /\ 0 \in U128 /\ 0 \in Nat
  BY WidthAssumption
<1>2. PoolTypeOK
  <2>1. NoPool \in PoolType
    BY <1>1, PoolAssumption DEF NoPool, PoolType
  <2>2. NoPosition \in PositionType
    BY <1>1 DEF NoPosition, PositionType
  <2>3. usdc \in [Accounts -> Nat] /\ platform \in PlatformType
    BY LedgerAssumption DEF Init, PlatformType
  <2> QED BY <1>1, <2>1, <2>2, <2>3 DEF Init, PoolTypeOK
<1>3. ASSUME NEW q \in Pools PROVE Facts(q)
  <2>1. /\ pool[q] = NoPool /\ inherited[q] = 0 /\ links[q] = {} /\ created = {}
        /\ stake[q] = [i \in Wallets |-> NoPosition]
    BY DEF Init
  <2>2. usdc[q] \in Nat
    BY <1>2, PoolNumbers
  <2>3. SumFunction([i \in Wallets |-> 0]) = 0
    BY SumZero, WalletsFinite
  <2>4. Staked(q) = [i \in Wallets |-> 0] /\ PoolClaimed(q) = [i \in Wallets |-> 0]
    BY <2>1 DEF Staked, PoolClaimed, NoPosition
  <2>5. ScaledEntitlements(q) = [i \in Wallets |-> 0]
    BY <2>1, WidthAssumption DEF ScaledEntitlements, OwedScaled, NoPosition, NoPool
  <2>6. Opening(q)
    BY <2>1 DEF Opening, NoPool, NoPosition
  <2>7. Sold(q) /\ Backed(q) /\ Vault(q)
    BY <2>1, <2>2, <2>3, <2>4, <2>5, WidthAssumption DEF Sold, Backed, Vault, NoPool
  <2>8. Linked(q)
    BY <2>1, FS_EmptySet DEF Linked, NoPool
  <2> QED BY <2>6, <2>7, <2>8 DEF Facts
<1> QED BY <1>2, <1>3 DEF Inv

(***************************************************************************)
(* The administrator                                                       *)
(***************************************************************************)
LEMMA DeployInv ==
  ASSUME Inv, NEW a \in Deployers, NEW t \in Treasuries, NEW bps \in FeeChoices,
         Deploy(a, t, bps)
  PROVE  Inv'
<1>1. platform' \in PlatformType
  <2>1. a \in Wallets /\ t \in Wallets /\ 0 \in U64
    BY PlatformAssumption, WidthAssumption
  <2>2. bps \in 0 .. MAX_FEE_BPS
    BY PlatformAssumption DEF Deploy, InitializePlatform, MAX_FEE_BPS
  <2> QED BY <2>1, <2>2 DEF Deploy, InitializePlatform, PlatformType
<1>2. PoolTypeOK'
  BY <1>1 DEF Deploy, Inv, PoolTypeOK
<1>3. ASSUME NEW q \in Pools PROVE Facts(q)'
  BY PoolNumbers, PoolFrame DEF Deploy, Inv
<1> QED BY <1>2, <1>3 DEF Inv

\* A new pool differs from none only in its status and its target.
LEMMA CreatePoolInv ==
  ASSUME Inv, NEW q \in Pools, NEW target \in PoolTargets, CreatePool(q, target)
  PROVE  Inv'
<1> DEFINE new == [NoPool EXCEPT !.status = "Funding", !.target_amount = target]
<1>1. target \in U64 /\ target \in Nat
  BY PoolAssumption, WidthAssumption
<1>2. new \in PoolType
  <2>1. 0 \in U64 /\ 0 \in U128 /\ 0 \in 0 .. MAX_POOL_PROJECTS_V1
    BY PoolAssumption, WidthAssumption
  <2>2. NoPool \in PoolType
    BY <2>1 DEF NoPool, PoolType
  <2> QED BY <1>1, <2>2 DEF PoolType
<1>3. platform' \in PlatformType
  <2>1. platform \in [admin : Wallets, treasury : Wallets,
                      origination_fee_bps : 0 .. MAX_FEE_BPS,
                      project_count : U64, pool_count : U64]
    BY DEF CreatePool, Inv, PoolTypeOK, PlatformType, NoPlatform, Initialized
  <2>2. SaturatingSucc(platform.pool_count) \in U64
    BY <2>1, WidthAssumption DEF SaturatingSucc
  <2> QED BY <2>1, <2>2 DEF CreatePool, PlatformType
<1>4. pool' = [pool EXCEPT ![q] = new]
  BY DEF CreatePool
<1>5. PoolTypeOK'
  BY <1>2, <1>3, <1>4 DEF CreatePool, Inv, PoolTypeOK
<1>6. ASSUME NEW r \in Pools, r # q PROVE Facts(r)'
  BY <1>4, <1>6, PoolNumbers, PoolFrame DEF CreatePool, Inv, PoolTypeOK
<1>7. Facts(q)'
  <2>1. pool[q] = NoPool /\ pool'[q] = new
    BY <1>4 DEF CreatePool, Inv, PoolTypeOK, Facts, Opening
  <2>2. /\ new.tokens_sold = 0 /\ new.total_distributed = 0
        /\ new.cumulative_usdc_per_token = 0 /\ new.underlying_project_count = 0
        /\ new.target_amount = target /\ new.status = "Funding"
    BY DEF NoPool
  <2>3. /\ pool[q].tokens_sold = 0 /\ pool[q].total_distributed = 0
        /\ pool[q].cumulative_usdc_per_token = 0
        /\ pool[q].underlying_project_count = 0
    BY <2>1 DEF NoPool
  <2> HIDE DEF new
  <2>4. UNCHANGED <<usdc, stake, links, created, inherited>>
    BY DEF CreatePool
  <2>5. /\ Staked(q)' = Staked(q) /\ PoolClaimed(q)' = PoolClaimed(q)
        /\ ScaledEntitlements(q)' = ScaledEntitlements(q)
    BY <2>1, <2>2, <2>3, <2>4, Totals
  <2>6. Opening(q)' /\ Linked(q)' /\ Backed(q)' /\ Vault(q)'
    BY <2>1, <2>2, <2>3, <2>4, <2>5
       DEF Inv, Facts, Opening, Linked, Backed, Vault, PoolExists
  <2>7. Sold(q)'
    BY <1>1, <2>1, <2>2, <2>3, <2>5 DEF Inv, Facts, Sold
  <2> QED BY <2>6, <2>7 DEF Facts
<1> QED BY <1>5, <1>6, <1>7 DEF Inv

LEMMA AddProjectInv ==
  ASSUME Inv, NEW q \in Pools, NEW p \in PoolProjects, AddProjectToPool(q, p)
  PROVE  Inv'
<1> DEFINE count == pool[q].underlying_project_count + 1
<1>1. count \in 0 .. MAX_POOL_PROJECTS_V1
  BY PoolAssumption DEF AddProjectToPool, Inv, PoolTypeOK, PoolType
<1>2. pool' = [pool EXCEPT ![q].underlying_project_count = count]
  BY DEF AddProjectToPool
<1> HIDE DEF count
<1>3. PoolTypeOK'
  <2>1. pool' \in [Pools -> PoolType]
    BY <1>1, <1>2 DEF Inv, PoolTypeOK, PoolType
  <2>2. links' \in [Pools -> SUBSET PoolProjects]
    BY DEF AddProjectToPool, Inv, PoolTypeOK
  <2> QED BY <2>1, <2>2 DEF AddProjectToPool, Inv, PoolTypeOK
<1>4. ASSUME NEW r \in Pools, r # q PROVE Facts(r)'
  BY <1>2, <1>4, PoolNumbers, PoolFrame DEF AddProjectToPool, Inv, PoolTypeOK
<1>5. Facts(q)'
  <2>1. /\ pool'[q] = [pool[q] EXCEPT !.underlying_project_count = count]
        /\ pool[q] \in PoolType
        /\ UNCHANGED <<usdc, stake, created, inherited>>
    BY <1>2 DEF AddProjectToPool, Inv, PoolTypeOK, PoolExists, NoPool
  <2>2. /\ pool'[q].status = pool[q].status
        /\ pool'[q].target_amount = pool[q].target_amount
        /\ pool'[q].tokens_sold = pool[q].tokens_sold
        /\ pool'[q].total_distributed = pool[q].total_distributed
        /\ pool'[q].cumulative_usdc_per_token = pool[q].cumulative_usdc_per_token
        /\ pool'[q].underlying_project_count = count
    BY <2>1 DEF PoolType
  <2>3. /\ Staked(q)' = Staked(q) /\ PoolClaimed(q)' = PoolClaimed(q)
        /\ ScaledEntitlements(q)' = ScaledEntitlements(q)
    BY <2>1, <2>2, Totals
  <2>4. Sold(q)' /\ Backed(q)' /\ Vault(q)'
    BY <2>1, <2>2, <2>3 DEF Inv, Facts, Sold, Backed, Vault
  <2>5. Opening(q)'
    BY <2>1, <2>2 DEF Inv, Facts, Opening, PoolExists, AddProjectToPool
  <2>6. Linked(q)'
    <3>1. links'[q] = links[q] \cup {p} /\ p \notin links[q] /\ p \in created
      BY DEF AddProjectToPool, Inv, PoolTypeOK
    <3>2. IsFiniteSet(links[q]) /\ links[q] \subseteq created
          /\ pool[q].underlying_project_count = Cardinality(links[q])
      BY DEF Inv, Facts, Linked
    <3>3. /\ IsFiniteSet(links[q] \cup {p})
          /\ Cardinality(links[q] \cup {p}) = Cardinality(links[q]) + 1
      BY <3>1, <3>2, FS_AddElement
    <3> QED BY <2>1, <2>2, <3>1, <3>2, <3>3 DEF Linked, count
  <2> QED BY <2>4, <2>5, <2>6 DEF Facts
<1> QED BY <1>3, <1>4, <1>5 DEF Inv

\* A distribution raises every entitlement by its tokens' part; all parts
\* together are at most what came in.
LEMMA DistributedParts ==
  ASSUME NEW held \in [Wallets -> Nat], NEW before \in [Wallets -> Nat],
         NEW after \in [Wallets -> Nat], NEW delta \in Nat,
         \A i \in Wallets : after[i] = before[i] + held[i] * delta
  PROVE  SumFunction(after) <= SumFunction(before) + delta * SumFunction(held)
<1> DEFINE part == [i \in Wallets |-> held[i] * delta]
<1>1. part \in [Wallets -> Nat]
  OBVIOUS
<1>2. \A i \in Wallets : after[i] = before[i] + part[i]
  OBVIOUS
<1>3. \A i \in Wallets : 1 * part[i] <= delta * held[i]
  OBVIOUS
<1> HIDE DEF part
<1>4. SumFunction(after) = SumFunction(before) + SumFunction(part)
  BY <1>1, <1>2, SumAdd, WalletsFinite
<1>5. 1 * SumFunction(part) <= delta * SumFunction(held)
  BY <1>1, <1>3, SumScaledLeq, WalletsFinite
<1>6. /\ SumFunction(part) \in Nat /\ SumFunction(before) \in Nat
      /\ delta * SumFunction(held) \in Nat
  <2>1. SumFunction(held) \in Nat
    BY SumType, WalletsFinite
  <2> QED BY <1>1, <2>1, SumType, WalletsFinite
<1> QED BY <1>4, <1>5, <1>6

\* What a distribution does, to this pool and to no other.
LEMMA DistributeEffect ==
  ASSUME Inv, NEW q \in Pools, NEW amount \in U64, DistributePoolReturns(q, amount),
         NEW delta, delta = DeltaPerToken(amount, pool[q].tokens_sold)
  PROVE  /\ pool[q].tokens_sold > 0 /\ amount \in Nat /\ amount > 0
         /\ delta \in Nat /\ pool[q].tokens_sold * delta <= amount * Precision
         /\ pool[q].cumulative_usdc_per_token + delta \in U128
         /\ pool[q].total_distributed + amount \in U64
         /\ pool'[q].cumulative_usdc_per_token = pool[q].cumulative_usdc_per_token + delta
         /\ pool'[q].total_distributed = pool[q].total_distributed + amount
         /\ \A r \in Pools \ {q} : pool'[r] = pool[r]
         /\ usdc' \in [Accounts -> Nat] /\ usdc'[q] = usdc[q] + amount
         /\ \A r \in Pools \ {q} : usdc'[r] = usdc[r]
         /\ UNCHANGED <<platform, stake, links, created, inherited>>
<1> DEFINE sold == pool[q].tokens_sold
<1>1. /\ sold \in Nat /\ sold > 0 /\ amount \in Nat /\ amount > 0
      /\ Precision \in Nat /\ amount * Precision \in Nat
  BY PoolNumbers, WidthAssumption DEF DistributePoolReturns, Inv
<1>2. delta \in Nat /\ sold * delta <= amount * Precision
  BY <1>1, Division DEF DeltaPerToken
<1>3. /\ pool[q].cumulative_usdc_per_token + delta \in U128
      /\ pool[q].total_distributed + amount \in U64
  BY DEF DistributePoolReturns, DistributionFits
<1>4. /\ pool'[q].cumulative_usdc_per_token = pool[q].cumulative_usdc_per_token + delta
      /\ pool'[q].total_distributed = pool[q].total_distributed + amount
      /\ \A r \in Pools \ {q} : pool'[r] = pool[r]
  BY DEF DistributePoolReturns, AfterDistribution, Inv, PoolTypeOK, PoolType
<1>5. /\ usdc' \in [Accounts -> Nat] /\ usdc'[q] = usdc[q] + amount
      /\ \A r \in Pools \ {q} : usdc'[r] = usdc[r]
  <2>1. /\ platform.admin \in Wallets /\ platform.admin \in Accounts
        /\ q \in Accounts /\ Pools \subseteq Accounts \ Wallets
    BY LedgerAssumption, PoolAssumption
       DEF DistributePoolReturns, Inv, PoolTypeOK, PlatformType, Initialized, NoPlatform
  <2>2. Transfer(platform.admin, q, amount) /\ usdc \in [Accounts -> Nat]
    BY DEF DistributePoolReturns, Inv, PoolTypeOK
  <2> QED BY <1>1, <2>1, <2>2, TransferType, TransferEffect
<1>6. UNCHANGED <<platform, stake, links, created, inherited>>
  BY DEF DistributePoolReturns
<1> HIDE DEF U64, U128
<1> QED BY <1>1, <1>2, <1>3, <1>4, <1>5, <1>6

LEMMA DistributeInv ==
  ASSUME Inv, NEW q \in Pools, NEW amount \in U64, DistributePoolReturns(q, amount)
  PROVE  Inv'
<1> DEFINE sold == pool[q].tokens_sold
           delta == DeltaPerToken(amount, sold)
           cum == pool[q].cumulative_usdc_per_token
           total == pool[q].total_distributed
<1>1. /\ sold \in Nat /\ sold > 0 /\ amount \in Nat /\ cum \in Nat /\ total \in Nat
      /\ Precision \in Nat /\ amount * Precision \in Nat
  BY PoolNumbers, WidthAssumption DEF DistributePoolReturns, Inv
<1>2. delta \in Nat /\ sold * delta <= amount * Precision
  BY DistributeEffect
<1>3. cum + delta \in U128 /\ total + amount \in U64
  BY DistributeEffect
<1>4. /\ pool' = [pool EXCEPT ![q] =
           [@ EXCEPT !.cumulative_usdc_per_token = cum + delta,
                     !.total_distributed = total + amount]]
      /\ pool[q] \in PoolType
  BY DEF DistributePoolReturns, AfterDistribution, Inv, PoolTypeOK
<1>5. /\ usdc' \in [Accounts -> Nat] /\ usdc'[q] = usdc[q] + amount
      /\ \A r \in Pools \ {q} : usdc'[r] = usdc[r]
  BY DistributeEffect
<1>6. UNCHANGED <<platform, stake, links, created, inherited>>
  BY DistributeEffect
<1> HIDE DEF sold, delta, cum, total
<1>7. PoolTypeOK'
  <2>1. pool' \in [Pools -> PoolType]
    BY <1>3, <1>4 DEF Inv, PoolTypeOK, PoolType
  <2> QED BY <1>5, <1>6, <2>1 DEF Inv, PoolTypeOK
<1>8. ASSUME NEW r \in Pools, r # q PROVE Facts(r)'
  <2>1. usdc'[r] = usdc[r] /\ usdc[r] \in Nat /\ pool'[r] = pool[r]
    BY <1>4, <1>5, <1>8, PoolNumbers DEF Inv, PoolTypeOK
  <2> QED BY <1>6, <2>1, PoolFrame
<1>9. Facts(q)'
  <2>1. /\ pool'[q].status = pool[q].status
        /\ pool'[q].target_amount = pool[q].target_amount
        /\ pool'[q].tokens_sold = sold
        /\ pool'[q].total_distributed = total + amount
        /\ pool'[q].cumulative_usdc_per_token = cum + delta
        /\ pool'[q].underlying_project_count = pool[q].underlying_project_count
    BY <1>4 DEF Inv, PoolTypeOK, PoolType, sold
  <2>2. Staked(q)' = Staked(q) /\ PoolClaimed(q)' = PoolClaimed(q)
    BY <1>6, Totals
  <2>3. Sold(q)' /\ Linked(q)'
    BY <1>6, <2>1, <2>2 DEF Inv, Facts, Sold, Linked, sold
  <2>4. Vault(q)'
    <3>1. /\ usdc[q] \in Nat /\ SumFunction(PoolClaimed(q)) \in Nat
          /\ usdc[q] + SumFunction(PoolClaimed(q)) >= sold + total
      BY PoolNumbers, PoolSums DEF Inv, Facts, Vault, sold, total
    <3> QED BY <1>1, <1>5, <2>1, <2>2, <3>1 DEF Vault
  <2>5. Opening(q)'
    <3>1. PoolExists(q) /\ PoolExists(q)'
      BY <2>1 DEF DistributePoolReturns, PoolExists
    <3>2. ASSUME NEW i \in Wallets
          PROVE  stake[q][i].last_claimed_per_token <= cum + delta
      <4>1. /\ stake[q][i].last_claimed_per_token \in Nat
            /\ stake[q][i].last_claimed_per_token <= cum
        BY PoolNumbers DEF Inv, Facts, Opening, cum
      <4> QED BY <1>1, <1>2, <4>1
    <3> QED BY <1>6, <2>1, <3>1, <3>2 DEF Inv, Facts, Opening
  <2>6. Backed(q)'
    <3> DEFINE before == ScaledEntitlements(q)
               after == EntitledOf(stake[q], cum + delta)
    <3>1. ASSUME NEW i \in Wallets
          PROVE  /\ after[i] = before[i] + Staked(q)[i] * delta
                 /\ after[i] \in Nat
      <4> DEFINE held == stake[q][i].tokens_held
                 last == stake[q][i].last_claimed_per_token
                 claimed == stake[q][i].total_claimed
      <4>1. held \in Nat /\ last \in Nat /\ claimed \in Nat
        BY PoolNumbers DEF Inv
      <4>2. /\ before[i] = Precision * claimed + held * (cum - last)
            /\ after[i] = Precision * claimed + held * ((cum + delta) - last)
            /\ Staked(q)[i] = held
        BY DEF ScaledEntitlements, EntitledOf, OwedScaled, Staked, cum
      <4>3. before[i] \in Nat
        BY PoolSums
      <4> HIDE DEF held, last, claimed, before, after
      <4>4. held * ((cum + delta) - last) = held * (cum - last) + held * delta
        BY <1>1, <1>2, <4>1
      <4>5. /\ Precision * claimed \in Int /\ held * (cum - last) \in Int
            /\ held * delta \in Nat
        BY <1>1, <1>2, <4>1
      <4> QED BY <4>2, <4>3, <4>4, <4>5
    <3>2. after \in [Wallets -> Nat]
      BY <3>1 DEF EntitledOf
    <3>3. before \in [Wallets -> Nat] /\ Staked(q) \in [Wallets -> Nat]
          /\ SumFunction(Staked(q)) = sold /\ SumFunction(before) \in Nat
      BY PoolSums DEF Inv, Facts, Sold, sold
    <3>4. ScaledEntitlements(q)' = after
      BY <1>6, <2>1, Totals
    <3>5. SumFunction(before) <= Precision * total + inherited[q]
      BY DEF Inv, Facts, Backed, total
    <3> HIDE DEF before, after
    <3>6. SumFunction(after) <= SumFunction(before) + delta * sold
      BY <1>2, <3>1, <3>2, <3>3, DistributedParts
    <3>7. /\ SumFunction(after) \in Nat /\ inherited[q] \in Nat
          /\ Precision * total \in Nat /\ delta * sold \in Nat /\ delta * sold = sold * delta
      BY <1>1, <1>2, <3>2, SumType, WalletsFinite, PoolNumbers DEF Inv
    <3>8. Precision * (total + amount) = Precision * total + amount * Precision
      BY <1>1
    <3>9. SumFunction(after) <= Precision * (total + amount) + inherited[q]
      BY <1>1, <1>2, <3>3, <3>5, <3>6, <3>7, <3>8
    <3> QED BY <1>6, <2>1, <3>4, <3>9 DEF Backed
  <2> QED BY <2>3, <2>4, <2>5, <2>6 DEF Facts
<1> QED BY <1>7, <1>8, <1>9 DEF Inv

(***************************************************************************)
(* Investors                                                               *)
(***************************************************************************)
\* What a purchase does to a position: tokens are added, and with them what
\* they inherit.
LEMMA Bought ==
  ASSUME Inv, NEW q \in Pools, NEW i \in Wallets, NEW amount \in Nat, NEW np, NEW cum,
         cum = pool[q].cumulative_usdc_per_token,
         np = AfterBuy(stake[q][i], i, cum, amount)
  PROVE  /\ np.owner # NoKey
         /\ np.tokens_held = stake[q][i].tokens_held + amount
         /\ np.last_claimed_per_token \in Nat /\ np.last_claimed_per_token <= cum
         /\ np.total_claimed = stake[q][i].total_claimed
         /\ Inheritance(q, i, amount) \in Nat
         /\ OwedScaled(np, cum) =
              OwedScaled(stake[q][i], cum) + Inheritance(q, i, amount)
<1> DEFINE pos == stake[q][i]
<1>1. /\ pos \in PositionType /\ i # NoKey /\ cum \in Nat
      /\ pos.tokens_held \in Nat /\ pos.last_claimed_per_token \in Nat
      /\ pos.last_claimed_per_token <= cum
      /\ pos.owner = NoKey => pos = NoPosition
  BY PoolNumbers, PlatformAssumption DEF Inv, Facts, Opening
<1>2. CASE pos.owner = NoKey
  <2>1. pos = NoPosition
    BY <1>1, <1>2
  <2>2. /\ pos.tokens_held = 0 /\ pos.total_claimed = 0
        /\ pos.last_claimed_per_token = 0 /\ Inheritance(q, i, amount) = 0
    BY <1>2, <2>1 DEF NoPosition, Inheritance
  <2> HIDE DEF pos
  <2>3. /\ np.owner = i /\ np.tokens_held = pos.tokens_held + amount
        /\ np.last_claimed_per_token = cum /\ np.total_claimed = 0
    BY <1>1, <1>2 DEF AfterBuy, Opened, PositionType, pos
  <2>4. OwedScaled(np, cum) = 0 /\ OwedScaled(pos, cum) = 0
    <3>1. amount * (cum - cum) = 0 /\ 0 * (cum - 0) = 0
      BY <1>1
    <3> QED BY <2>2, <2>3, <3>1 DEF OwedScaled
  <2> QED BY <1>1, <2>2, <2>3, <2>4 DEF pos
<1>3. CASE pos.owner # NoKey
  <2> DEFINE held == pos.tokens_held
             last == pos.last_claimed_per_token
  <2>1. Inheritance(q, i, amount) = amount * (cum - last)
    BY <1>3 DEF Inheritance
  <2>2. OwedScaled(pos, cum) = held * (cum - last)
    BY DEF OwedScaled
  <2> HIDE DEF pos
  <2>3. /\ np.owner = pos.owner /\ np.tokens_held = held + amount
        /\ np.last_claimed_per_token = last
        /\ np.total_claimed = pos.total_claimed
    BY <1>1, <1>3 DEF AfterBuy, Opened, PositionType, pos
  <2>4. OwedScaled(np, cum) = (held + amount) * (cum - last)
    BY <2>3 DEF OwedScaled
  <2>5. held \in Nat /\ last \in Nat /\ last <= cum
    BY <1>1
  <2> HIDE DEF held, last
  <2>6. /\ amount * (cum - last) \in Nat
        /\ (held + amount) * (cum - last) = held * (cum - last) + amount * (cum - last)
    BY <1>1, <2>5
  <2> QED BY <1>3, <2>1, <2>2, <2>3, <2>4, <2>5, <2>6 DEF pos, held, last
<1> QED BY <1>2, <1>3

LEMMA BuyEffect ==
  ASSUME Inv, NEW q \in Pools, NEW i \in PoolInvestors, NEW amount \in U64,
         BuyPoolTokens(q, i, amount), NEW np,
         np = AfterBuy(stake[q][i], i, pool[q].cumulative_usdc_per_token, amount)
  PROVE  /\ i \in Wallets /\ amount \in Nat /\ amount > 0 /\ np \in PositionType
         /\ usdc' \in [Accounts -> Nat] /\ usdc'[q] = usdc[q] + amount
         /\ \A r \in Pools \ {q} : usdc'[r] = usdc[r]
         /\ stake' = [stake EXCEPT ![q][i] = np]
         /\ pool' = [pool EXCEPT ![q].tokens_sold = pool[q].tokens_sold + amount]
<1>1. /\ i \in Wallets /\ i \in Accounts /\ q \in Accounts /\ q # i
      /\ amount \in Nat /\ amount > 0 /\ \A r \in Pools : r # i
  BY LedgerAssumption, PoolAssumption, WidthAssumption DEF BuyPoolTokens
<1>2. /\ usdc' \in [Accounts -> Nat] /\ usdc'[q] = usdc[q] + amount
      /\ \A r \in Pools \ {q} : usdc'[r] = usdc[r]
  <2>1. Transfer(i, q, amount) /\ usdc \in [Accounts -> Nat]
    BY DEF BuyPoolTokens, Inv, PoolTypeOK
  <2>2. \A r \in Pools \ {q} : r \in Accounts \ {i, q}
    BY <1>1, PoolAssumption
  <2> QED BY <1>1, <2>1, <2>2, TransferType, TransferEffect
<1>3. np \in PositionType
  <2>1. stake[q][i] \in PositionType /\ pool[q].cumulative_usdc_per_token \in U128
    BY <1>1 DEF Inv, PoolTypeOK, PoolType
  <2>2. stake[q][i].tokens_held + amount \in U64
    BY DEF BuyPoolTokens
  <2> QED BY <1>1, <2>1, <2>2, AfterBuyType
<1>4. /\ stake' = [stake EXCEPT ![q][i] = np]
      /\ pool' = [pool EXCEPT ![q].tokens_sold = pool[q].tokens_sold + amount]
  BY DEF BuyPoolTokens
<1> QED BY <1>1, <1>2, <1>3, <1>4

LEMMA BuyInv ==
  ASSUME Inv, NEW q \in Pools, NEW i \in PoolInvestors, NEW amount \in U64,
         BuyPoolTokens(q, i, amount)
  PROVE  Inv'
<1> DEFINE cum == pool[q].cumulative_usdc_per_token
           sold == pool[q].tokens_sold
           np == AfterBuy(stake[q][i], i, cum, amount)
           more == Inheritance(q, i, amount)
<1>1. i \in Wallets /\ amount \in Nat
  BY BuyEffect
<1>2. /\ usdc' \in [Accounts -> Nat] /\ usdc'[q] = usdc[q] + amount
      /\ \A r \in Pools \ {q} : usdc'[r] = usdc[r]
  BY BuyEffect
<1>3. np \in PositionType
  BY BuyEffect
<1>4. /\ np.owner # NoKey
      /\ np.tokens_held = stake[q][i].tokens_held + amount
      /\ np.last_claimed_per_token \in Nat /\ np.last_claimed_per_token <= cum
      /\ np.total_claimed = stake[q][i].total_claimed
      /\ more \in Nat
      /\ OwedScaled(np, cum) = OwedScaled(stake[q][i], cum) + more
  BY <1>1, Bought
<1>5. /\ stake' = [stake EXCEPT ![q][i] = np]
      /\ pool' = [pool EXCEPT ![q].tokens_sold = sold + amount]
      /\ inherited' = [inherited EXCEPT ![q] = @ + more]
      /\ UNCHANGED <<platform, links, created>>
      /\ sold + amount \in U64
  BY DEF BuyPoolTokens
<1>6. sold \in Nat /\ sold + amount <= pool[q].target_amount /\ pool[q].target_amount \in Nat
  <2>1. amount <= pool[q].target_amount - sold
    BY DEF BuyPoolTokens, FitsTarget
  <2> QED BY <1>1, <2>1, PoolNumbers DEF Inv
<1> HIDE DEF np, more, sold, cum
<1>7. /\ pool \in [Pools -> PoolType] /\ stake \in [Pools -> [Wallets -> PositionType]]
      /\ inherited \in [Pools -> Nat]
  BY DEF Inv, PoolTypeOK
<1>8. PoolTypeOK'
  <2>1. pool' \in [Pools -> PoolType]
    BY <1>5, <1>7 DEF PoolType
  <2>2. stake' \in [Pools -> [Wallets -> PositionType]]
    BY <1>1, <1>3, <1>5, <1>7
  <2>3. inherited' \in [Pools -> Nat]
    BY <1>4, <1>5, <1>7
  <2> QED BY <1>2, <1>5, <2>1, <2>2, <2>3 DEF Inv, PoolTypeOK
<1>9. ASSUME NEW r \in Pools, r # q PROVE Facts(r)'
  <2>1. usdc'[r] = usdc[r] /\ usdc[r] \in Nat /\ pool'[r] = pool[r]
        /\ stake'[r] = stake[r] /\ inherited'[r] = inherited[r]
    BY <1>2, <1>5, <1>7, <1>9, PoolNumbers DEF Inv
  <2> QED BY <1>5, <2>1, PoolFrame
<1>10. Facts(q)'
  <2>1. /\ pool'[q].status = pool[q].status
        /\ pool'[q].target_amount = pool[q].target_amount
        /\ pool'[q].tokens_sold = sold + amount
        /\ pool'[q].total_distributed = pool[q].total_distributed
        /\ pool'[q].cumulative_usdc_per_token = cum
        /\ pool'[q].underlying_project_count = pool[q].underlying_project_count
    BY <1>5, <1>7 DEF PoolType, cum
  <2>2. /\ stake'[q] = [stake[q] EXCEPT ![i] = np] /\ inherited'[q] = inherited[q] + more
        /\ stake[q] \in [Wallets -> PositionType]
    BY <1>5, <1>7
  <2>3. /\ SumFunction(Staked(q)) \in Nat /\ SumFunction(PoolClaimed(q)) \in Nat
        /\ SumFunction(ScaledEntitlements(q)) \in Nat
        /\ ScaledEntitlements(q) \in [Wallets -> Nat]
    BY PoolSums
  <2>4. /\ stake[q][i].tokens_held \in Nat /\ stake[q][i].total_claimed \in Nat
        /\ usdc[q] \in Nat /\ inherited[q] \in Nat /\ pool[q].total_distributed \in Nat
        /\ cum \in Nat /\ Precision \in Nat
    BY <1>1, PoolNumbers DEF Inv, cum
  <2>5. /\ SumFunction(Staked(q)') = SumFunction(Staked(q)) + amount
        /\ SumFunction(PoolClaimed(q)') = SumFunction(PoolClaimed(q))
    <3>1. /\ SumFunction(HeldOf(stake'[q])) = SumFunction(HeldOf(stake[q]))
               + np.tokens_held - stake[q][i].tokens_held
          /\ SumFunction(ClaimedOf(stake'[q])) = SumFunction(ClaimedOf(stake[q]))
               + np.total_claimed - stake[q][i].total_claimed
      BY <1>1, <1>3, <2>2, PositionUpdate
    <3>2. /\ SumFunction(Staked(q)') = SumFunction(Staked(q))
               + np.tokens_held - stake[q][i].tokens_held
          /\ SumFunction(PoolClaimed(q)') = SumFunction(PoolClaimed(q))
               + np.total_claimed - stake[q][i].total_claimed
      BY <3>1, Totals
    <3> QED BY <1>1, <1>4, <2>3, <2>4, <3>2
  <2>6. SumFunction(ScaledEntitlements(q)') = SumFunction(ScaledEntitlements(q)) + more
    <3> DEFINE old == Precision * stake[q][i].total_claimed + OwedScaled(stake[q][i], cum)
               new == Precision * np.total_claimed + OwedScaled(np, cum)
    <3>1. ScaledEntitlements(q) = EntitledOf(stake[q], cum)
          /\ ScaledEntitlements(q)' = EntitledOf(stake'[q], cum)
      BY <2>1, Totals DEF cum
    <3>2. old = ScaledEntitlements(q)[i] /\ old \in Nat
      BY <1>1, <2>3 DEF ScaledEntitlements, cum
    <3>3. Precision * stake[q][i].total_claimed \in Nat
      BY <2>4
    <3>4. OwedScaled(stake[q][i], cum) \in Int
      <4>1. stake[q][i].last_claimed_per_token \in Nat
        BY <1>1, PoolNumbers DEF Inv
      <4> QED BY <2>4, <4>1 DEF OwedScaled
    <3>5. new = old + more
      BY <1>4, <3>3, <3>4
    <3>6. new \in Nat
      BY <1>4, <3>2, <3>5
    <3>7. SumFunction(EntitledOf(stake'[q], cum))
            = SumFunction(EntitledOf(stake[q], cum)) + new - old
      BY <1>1, <2>2, <2>3, <3>1, <3>6, EntitledUpdate
    <3> HIDE DEF old, new
    <3> QED BY <1>4, <2>3, <3>1, <3>2, <3>5, <3>7
  <2>7. Opening(q)'
    <3>1. ASSUME NEW j \in Wallets
          PROVE  /\ stake'[q][j].owner = NoKey => stake'[q][j] = NoPosition
                 /\ stake'[q][j].owner # NoKey => stake'[q][j].tokens_held > 0
                 /\ stake'[q][j].last_claimed_per_token <= cum
      <4>1. CASE j = i
        <5>1. np.tokens_held > 0
          BY <1>1, <1>4, <2>4 DEF BuyPoolTokens
        <5> QED BY <1>1, <1>4, <2>2, <4>1, <5>1
      <4>2. CASE j # i
        BY <2>2, <4>2 DEF Inv, Facts, Opening, cum
      <4> QED BY <4>1, <4>2
    <3>2. PoolExists(q) /\ PoolExists(q)'
      BY <2>1 DEF BuyPoolTokens, FitsTarget, PoolExists
    <3> QED BY <2>1, <3>1, <3>2 DEF Opening
  <2>8. Sold(q)'
    BY <1>6, <2>1, <2>5 DEF Inv, Facts, Sold, sold
  <2>9. Backed(q)'
    <3>1. SumFunction(ScaledEntitlements(q))
            <= Precision * pool[q].total_distributed + inherited[q]
      BY DEF Inv, Facts, Backed
    <3>2. Precision * pool[q].total_distributed \in Nat
      BY <2>4
    <3> QED BY <1>4, <2>1, <2>2, <2>3, <2>4, <2>6, <3>1, <3>2 DEF Backed
  <2>10. Vault(q)'
    BY <1>1, <1>2, <1>6, <2>1, <2>3, <2>4, <2>5 DEF Inv, Facts, Vault, sold
  <2>11. Linked(q)'
    BY <1>5, <2>1 DEF Inv, Facts, Linked
  <2> QED BY <2>7, <2>8, <2>9, <2>10, <2>11 DEF Facts
<1> QED BY <1>8, <1>9, <1>10 DEF Inv

\* What a claim does to a position: it is paid its whole units and forgets
\* the rest.
LEMMA ClaimedPosition ==
  ASSUME Inv, NEW q \in Pools, NEW i \in Wallets, NEW np, NEW cum,
         cum = pool[q].cumulative_usdc_per_token,
         np = AfterClaim(stake[q][i], cum)
  PROVE  /\ PoolDue(q, i) \in Nat
         /\ OwedScaled(stake[q][i], cum) \in Nat
         /\ Precision * PoolDue(q, i) <= OwedScaled(stake[q][i], cum)
         /\ np.owner = stake[q][i].owner
         /\ np.tokens_held = stake[q][i].tokens_held
         /\ np.last_claimed_per_token = cum
         /\ np.total_claimed = stake[q][i].total_claimed + PoolDue(q, i)
         /\ OwedScaled(np, cum) = 0
<1> DEFINE pos == stake[q][i]
           held == pos.tokens_held
           last == pos.last_claimed_per_token
<1>1. /\ pos \in PositionType /\ cum \in Nat /\ held \in Nat /\ last \in Nat
      /\ last <= cum /\ Precision \in Nat /\ Precision > 0
  BY PoolNumbers DEF Inv, Facts, Opening
<1>2. OwedScaled(pos, cum) = held * (cum - last)
  BY DEF OwedScaled
<1>3. PoolDue(q, i) = OwedScaled(pos, cum) \div Precision
  BY DEF PoolDue, Owed
<1> HIDE DEF pos
<1>4. /\ np.owner = pos.owner /\ np.tokens_held = held
      /\ np.last_claimed_per_token = cum
      /\ np.total_claimed = pos.total_claimed + PoolDue(q, i)
  BY <1>1 DEF AfterClaim, PositionType, PoolDue, pos
<1> HIDE DEF held, last
<1>5. held * (cum - last) \in Nat /\ held * (cum - cum) = 0
  BY <1>1
<1>6. /\ PoolDue(q, i) \in Nat
      /\ Precision * PoolDue(q, i) <= OwedScaled(pos, cum)
  BY <1>1, <1>2, <1>3, <1>5, Division
<1>7. OwedScaled(np, cum) = 0
  BY <1>4, <1>5 DEF OwedScaled
<1> QED BY <1>2, <1>4, <1>5, <1>6, <1>7 DEF pos, held

LEMMA ClaimEffect ==
  ASSUME Inv, NEW q \in Pools, NEW i \in PoolInvestors, ClaimPoolReturns(q, i),
         NEW np, np = AfterClaim(stake[q][i], pool[q].cumulative_usdc_per_token)
  PROVE  /\ i \in Wallets /\ np \in PositionType
         /\ PoolDue(q, i) \in Nat /\ PoolDue(q, i) > 0
         /\ usdc' \in [Accounts -> Nat] /\ usdc'[q] = usdc[q] - PoolDue(q, i)
         /\ \A r \in Pools \ {q} : usdc'[r] = usdc[r]
         /\ stake' = [stake EXCEPT ![q][i] = np] /\ stake[q][i].owner = i
         /\ UNCHANGED <<platform, pool, links, created, inherited>>
<1> DEFINE cum == pool[q].cumulative_usdc_per_token
           due == PoolDue(q, i)
<1>1. /\ i \in Wallets /\ i \in Accounts /\ q \in Accounts /\ q # i
      /\ \A r \in Pools : r # i
  BY LedgerAssumption, PoolAssumption
<1>2. due \in Nat /\ due > 0
  BY <1>1, ClaimedPosition DEF ClaimPoolReturns
<1>3. /\ usdc' \in [Accounts -> Nat] /\ usdc'[q] = usdc[q] - due
      /\ \A r \in Pools \ {q} : usdc'[r] = usdc[r]
  <2>1. Transfer(q, i, due) /\ usdc \in [Accounts -> Nat]
    BY DEF ClaimPoolReturns, Inv, PoolTypeOK
  <2>2. \A r \in Pools \ {q} : r \in Accounts \ {q, i}
    BY <1>1, PoolAssumption
  <2> HIDE DEF due
  <2> QED BY <1>1, <1>2, <2>1, <2>2, TransferType, TransferEffect
<1>4. np \in PositionType
  <2>1. stake[q][i] \in PositionType /\ cum \in U128
    BY <1>1 DEF Inv, PoolTypeOK, PoolType
  <2>2. stake[q][i].total_claimed + Owed(stake[q][i], cum) \in U64
    BY DEF ClaimPoolReturns, ClaimFits
  <2> QED BY <2>1, <2>2 DEF AfterClaim, PositionType
<1>5. /\ stake' = [stake EXCEPT ![q][i] = np] /\ stake[q][i].owner = i
      /\ UNCHANGED <<platform, pool, links, created, inherited>>
  BY DEF ClaimPoolReturns
<1> QED BY <1>1, <1>2, <1>3, <1>4, <1>5

LEMMA ClaimInv ==
  ASSUME Inv, NEW q \in Pools, NEW i \in PoolInvestors, ClaimPoolReturns(q, i)
  PROVE  Inv'
<1> DEFINE cum == pool[q].cumulative_usdc_per_token
           np == AfterClaim(stake[q][i], cum)
           due == PoolDue(q, i)
<1>1. i \in Wallets
  BY PoolAssumption
<1>2. /\ due \in Nat /\ OwedScaled(stake[q][i], cum) \in Nat
      /\ Precision * due <= OwedScaled(stake[q][i], cum)
      /\ np.owner = stake[q][i].owner
      /\ np.tokens_held = stake[q][i].tokens_held
      /\ np.last_claimed_per_token = cum
      /\ np.total_claimed = stake[q][i].total_claimed + due
      /\ OwedScaled(np, cum) = 0
  BY <1>1, ClaimedPosition
<1>3. /\ usdc' \in [Accounts -> Nat] /\ usdc'[q] = usdc[q] - due
      /\ \A r \in Pools \ {q} : usdc'[r] = usdc[r]
  BY ClaimEffect
<1>4. np \in PositionType
  BY ClaimEffect
<1>5. /\ stake' = [stake EXCEPT ![q][i] = np] /\ stake[q][i].owner = i
      /\ UNCHANGED <<platform, pool, links, created, inherited>>
  BY ClaimEffect
<1> HIDE DEF np, cum, due
<1>6. stake \in [Pools -> [Wallets -> PositionType]]
  BY DEF Inv, PoolTypeOK
<1>7. PoolTypeOK'
  BY <1>1, <1>3, <1>4, <1>5, <1>6 DEF Inv, PoolTypeOK
<1>8. ASSUME NEW r \in Pools, r # q PROVE Facts(r)'
  <2>1. usdc'[r] = usdc[r] /\ usdc[r] \in Nat /\ stake'[r] = stake[r]
    BY <1>3, <1>5, <1>6, <1>8, PoolNumbers DEF Inv
  <2> QED BY <1>5, <2>1, PoolFrame
<1>9. Facts(q)'
  <2>1. /\ stake'[q] = [stake[q] EXCEPT ![i] = np]
        /\ stake[q] \in [Wallets -> PositionType] /\ pool'[q] = pool[q]
    BY <1>5, <1>6
  <2>2. /\ SumFunction(Staked(q)) \in Nat /\ SumFunction(PoolClaimed(q)) \in Nat
        /\ SumFunction(ScaledEntitlements(q)) \in Nat
        /\ ScaledEntitlements(q) \in [Wallets -> Nat]
    BY PoolSums
  <2>3. /\ stake[q][i].tokens_held \in Nat /\ stake[q][i].total_claimed \in Nat
        /\ usdc[q] \in Nat /\ inherited[q] \in Nat /\ pool[q].total_distributed \in Nat
        /\ pool[q].tokens_sold \in Nat /\ cum \in Nat /\ Precision \in Nat
    BY <1>1, PoolNumbers DEF Inv, cum
  <2>4. /\ SumFunction(Staked(q)') = SumFunction(Staked(q))
        /\ SumFunction(PoolClaimed(q)') = SumFunction(PoolClaimed(q)) + due
    <3>1. /\ SumFunction(HeldOf(stake'[q])) = SumFunction(HeldOf(stake[q]))
               + np.tokens_held - stake[q][i].tokens_held
          /\ SumFunction(ClaimedOf(stake'[q])) = SumFunction(ClaimedOf(stake[q]))
               + np.total_claimed - stake[q][i].total_claimed
      BY <1>1, <1>4, <2>1, PositionUpdate
    <3>2. /\ SumFunction(Staked(q)') = SumFunction(Staked(q))
               + np.tokens_held - stake[q][i].tokens_held
          /\ SumFunction(PoolClaimed(q)') = SumFunction(PoolClaimed(q))
               + np.total_claimed - stake[q][i].total_claimed
      BY <3>1, Totals
    <3> QED BY <1>2, <2>2, <2>3, <3>2
  <2>5. /\ SumFunction(ScaledEntitlements(q)') \in Int
        /\ SumFunction(ScaledEntitlements(q)') <= SumFunction(ScaledEntitlements(q))
    <3> DEFINE old == Precision * stake[q][i].total_claimed + OwedScaled(stake[q][i], cum)
               new == Precision * np.total_claimed + OwedScaled(np, cum)
    <3>1. ScaledEntitlements(q) = EntitledOf(stake[q], cum)
          /\ ScaledEntitlements(q)' = EntitledOf(stake'[q], cum)
      BY <2>1, Totals DEF cum
    <3>2. old = ScaledEntitlements(q)[i] /\ old \in Nat
      BY <1>1, <2>2 DEF ScaledEntitlements, cum
    <3>3. /\ Precision * stake[q][i].total_claimed \in Nat /\ Precision * due \in Nat
          /\ Precision * (stake[q][i].total_claimed + due)
               = Precision * stake[q][i].total_claimed + Precision * due
      BY <1>2, <2>3
    <3>4. new \in Nat /\ new <= old
      BY <1>2, <3>3
    <3>5. SumFunction(EntitledOf(stake'[q], cum))
            = SumFunction(EntitledOf(stake[q], cum)) + new - old
      BY <1>1, <2>1, <2>2, <3>1, <3>4, EntitledUpdate
    <3> HIDE DEF old, new
    <3> QED BY <2>2, <3>1, <3>2, <3>4, <3>5
  <2>6. Opening(q)'
    <3>1. ASSUME NEW j \in Wallets
          PROVE  /\ stake'[q][j].owner = NoKey => stake'[q][j] = NoPosition
                 /\ stake'[q][j].owner # NoKey => stake'[q][j].tokens_held > 0
                 /\ stake'[q][j].last_claimed_per_token <= cum
      <4>1. CASE j = i
        <5>1. stake'[q][j] = np /\ np.owner # NoKey
          BY <1>1, <1>2, <1>5, <2>1, <4>1, PlatformAssumption
        <5>2. np.tokens_held > 0
          BY <1>1, <1>2, <5>1 DEF Inv, Facts, Opening
        <5> QED BY <1>2, <2>3, <5>1, <5>2
      <4>2. CASE j # i
        BY <2>1, <4>2 DEF Inv, Facts, Opening, cum
      <4> QED BY <4>1, <4>2
    <3> QED BY <1>5, <2>1, <3>1 DEF Inv, Facts, Opening, PoolExists, cum
  <2>7. Sold(q)'
    BY <2>1, <2>4 DEF Inv, Facts, Sold
  <2>8. Backed(q)'
    <3>1. SumFunction(ScaledEntitlements(q))
            <= Precision * pool[q].total_distributed + inherited[q]
      BY DEF Inv, Facts, Backed
    <3>2. Precision * pool[q].total_distributed \in Nat
      BY <2>3
    <3> QED BY <1>5, <2>1, <2>2, <2>3, <2>5, <3>1, <3>2 DEF Backed
  <2>9. Vault(q)'
    BY <1>2, <1>3, <2>1, <2>2, <2>3, <2>4 DEF Inv, Facts, Vault
  <2>10. Linked(q)'
    BY <1>5 DEF Inv, Facts, Linked
  <2> QED BY <2>6, <2>7, <2>8, <2>9, <2>10 DEF Facts
<1> QED BY <1>7, <1>8, <1>9 DEF Inv

(***************************************************************************)
(* Everyone else                                                           *)
(***************************************************************************)
LEMMA ProjectCreatedInv ==
  ASSUME Inv, NEW p \in PoolProjects, ProjectCreated(p) PROVE Inv'
<1>1. PoolTypeOK'
  BY DEF ProjectCreated, Inv, PoolTypeOK
<1>2. ASSUME NEW q \in Pools PROVE Facts(q)'
  BY PoolNumbers, PoolFrame DEF ProjectCreated, Inv
<1> QED BY <1>1, <1>2 DEF Inv

\* A donation only adds to vaults: no vault is a donor.
LEMMA DonateInv ==
  ASSUME Inv, NEW from \in Donors, NEW to \in Accounts, NEW amount \in U64,
         Donate(from, to, amount)
  PROVE  Inv'
<1>1. /\ from \in Accounts /\ amount \in Nat /\ Pools \subseteq Accounts
      /\ \A q \in Pools : q # from
  BY PoolAssumption, WidthAssumption
<1>2. Transfer(from, to, amount) /\ usdc \in [Accounts -> Nat] /\ from # to
  BY DEF Donate, Transfer, Inv, PoolTypeOK
<1>3. /\ usdc' \in [Accounts -> Nat]
      /\ usdc'[to] = usdc[to] + amount
      /\ \A a \in Accounts \ {from, to} : usdc'[a] = usdc[a]
  BY <1>1, <1>2, TransferType, TransferEffect
<1>4. PoolTypeOK'
  BY <1>3 DEF Donate, Inv, PoolTypeOK
<1>5. ASSUME NEW q \in Pools PROVE Facts(q)'
  <2>1. usdc'[q] >= usdc[q] /\ usdc'[q] \in Nat
    BY <1>1, <1>2, <1>3
  <2> QED BY <2>1, PoolFrame DEF Donate
<1> QED BY <1>4, <1>5 DEF Inv

LEMMA StepInv == Inv /\ [Next]_poolVars => Inv'
<1> SUFFICES ASSUME Inv, [Next]_poolVars PROVE Inv'
  OBVIOUS
<1>1. CASE PoolAdminNext
  BY <1>1, DeployInv, CreatePoolInv, AddProjectInv, DistributeInv DEF PoolAdminNext
<1>2. CASE PoolInvestorNext
  BY <1>2, BuyInv, ClaimInv DEF PoolInvestorNext
<1>3. CASE OutsideNext
  BY <1>3, ProjectCreatedInv, DonateInv DEF OutsideNext
<1>4. CASE UNCHANGED poolVars
  <2>1. PoolTypeOK'
    BY <1>4 DEF poolVars, Inv, PoolTypeOK
  <2>2. ASSUME NEW q \in Pools PROVE Facts(q)'
    BY <1>4, PoolNumbers, PoolFrame DEF poolVars, Inv
  <2> QED BY <2>1, <2>2 DEF Inv
<1> QED BY <1>1, <1>2, <1>3, <1>4 DEF Next

LEMMA InvInvariant == Spec => []Inv
BY InitInv, StepInv, PTL DEF Spec

(***************************************************************************)
(* The safety properties                                                   *)
(***************************************************************************)
\* In every reachable state each field of every pool, position and balance
\* holds a value of its Rust type, and the cap on links is never passed.
THEOREM PoolTypeCorrect == Spec => []PoolTypeOK
<1>1. Inv => PoolTypeOK
  BY DEF Inv
<1> QED BY <1>1, InvInvariant, PTL

\* The divisor of every pool distribution is what the positions hold, and no
\* interleaving of purchases sells more than the target.
THEOREM StakesAreSoldTheorem == Spec => []StakesAreSold
<1>1. Inv => StakesAreSold
  BY DEF Inv, Facts, Sold, StakesAreSold
<1> QED BY <1>1, InvInvariant, PTL

\* Rounding never makes claims exceed distributions: only top-ups can, and
\* by what the new tokens inherit.
THEOREM OnlyTopUpsInheritTheorem == Spec => []OnlyTopUpsInherit
<1>1. Inv => OnlyTopUpsInherit
  BY DEF Inv, Facts, Backed, OnlyTopUpsInherit
<1> QED BY <1>1, InvInvariant, PTL

\* A pool's vault has all it received but what holders claimed.
THEOREM PoolVaultAccountedTheorem == Spec => []PoolVaultAccounted
<1>1. Inv => PoolVaultAccounted
  BY DEF Inv, Facts, Vault, PoolVaultAccounted
<1> QED BY <1>1, InvInvariant, PTL

\* The counter the cap is checked on counts the links, which all lead to
\* projects that exist.
THEOREM LinksCountedTheorem == Spec => []LinksCounted
<1>1. Inv => LinksCounted
  <2> SUFFICES ASSUME Inv, NEW q \in Pools
               PROVE  /\ pool[q].underlying_project_count = Cardinality(links[q])
                      /\ Cardinality(links[q]) <= MAX_POOL_PROJECTS_V1
                      /\ links[q] \subseteq created
    BY DEF LinksCounted
  <2>1. pool[q].underlying_project_count \in 0 .. MAX_POOL_PROJECTS_V1
    BY DEF Inv, PoolTypeOK, PoolType
  <2> QED BY <2>1 DEF Inv, Facts, Linked
<1> QED BY <1>1, InvInvariant, PTL

\* What a holder claimed and could claim at once, in whole units, is worth at
\* most its scaled entitlement.
LEMMA DueWithinEntitlement ==
  ASSUME Inv, NEW q \in Pools, NEW i \in Wallets
  PROVE  /\ PoolDue(q, i) \in Nat /\ PoolEntitlement(q, i) \in Nat
         /\ Precision * PoolEntitlement(q, i) <= ScaledEntitlements(q)[i]
<1> DEFINE cum == pool[q].cumulative_usdc_per_token
           claimed == stake[q][i].total_claimed
           scaled == OwedScaled(stake[q][i], cum)
<1>1. /\ PoolDue(q, i) \in Nat /\ scaled \in Nat
      /\ Precision * PoolDue(q, i) <= scaled
  BY ClaimedPosition
<1>2. claimed \in Nat /\ Precision \in Nat
  BY PoolNumbers DEF Inv
<1>3. /\ ScaledEntitlements(q)[i] = Precision * claimed + scaled
      /\ PoolEntitlement(q, i) = claimed + PoolDue(q, i)
  BY DEF ScaledEntitlements, PoolEntitlement
<1> HIDE DEF claimed, scaled
<1>4. /\ Precision * (claimed + PoolDue(q, i)) = Precision * claimed + Precision * PoolDue(q, i)
      /\ Precision * claimed \in Nat /\ Precision * PoolDue(q, i) \in Nat
  BY <1>1, <1>2
<1> QED BY <1>1, <1>2, <1>3, <1>4

\* Where no top-up inherited anything, the vault can pay all holders at once
\* and keeps the whole principal besides.
THEOREM FairWithoutTopUpsTheorem == Spec => []FairWithoutTopUps
<1>1. ASSUME Inv, NEW q \in Pools, inherited[q] = 0
      PROVE  usdc[q] >= pool[q].tokens_sold + SumFunction(PoolDues(q))
  <2> DEFINE entitlement == [i \in Wallets |-> PoolEntitlement(q, i)]
             total == pool[q].total_distributed
  <2>1. /\ PoolDues(q) \in [Wallets -> Nat] /\ entitlement \in [Wallets -> Nat]
        /\ \A i \in Wallets : Precision * entitlement[i] <= 1 * ScaledEntitlements(q)[i]
    <3>1. ASSUME NEW i \in Wallets
          PROVE  /\ PoolDue(q, i) \in Nat /\ PoolEntitlement(q, i) \in Nat
                 /\ Precision * PoolEntitlement(q, i) <= 1 * ScaledEntitlements(q)[i]
      <4>1. ScaledEntitlements(q)[i] \in Nat
        BY <1>1, PoolSums
      <4> QED BY <1>1, <4>1, DueWithinEntitlement
    <3> QED BY <3>1 DEF PoolDues
  <2>2. \A i \in Wallets : entitlement[i] = PoolClaimed(q)[i] + PoolDues(q)[i]
    BY DEF PoolEntitlement, PoolClaimed, PoolDues
  <2> HIDE DEF entitlement
  <2>3. /\ PoolClaimed(q) \in [Wallets -> Nat]
        /\ ScaledEntitlements(q) \in [Wallets -> Nat]
        /\ SumFunction(PoolClaimed(q)) \in Nat
        /\ SumFunction(ScaledEntitlements(q)) \in Nat
    BY <1>1, PoolSums
  <2>4. /\ Precision \in Nat /\ Precision > 0 /\ total \in Nat
        /\ usdc[q] \in Nat /\ pool[q].tokens_sold \in Nat
    BY <1>1, PoolNumbers DEF Inv
  <2>5. SumFunction(entitlement) = SumFunction(PoolClaimed(q)) + SumFunction(PoolDues(q))
    BY <2>1, <2>2, <2>3, SumAdd, WalletsFinite
  <2>6. Precision * SumFunction(entitlement) <= 1 * SumFunction(ScaledEntitlements(q))
    BY <2>1, <2>3, <2>4, SumScaledLeq, WalletsFinite
  <2>7. SumFunction(ScaledEntitlements(q)) <= Precision * total
    <3>1. SumFunction(ScaledEntitlements(q)) <= Precision * total + inherited[q]
      BY <1>1 DEF Inv, Facts, Backed
    <3>2. Precision * total \in Nat
      BY <2>4
    <3> QED BY <1>1, <3>1, <3>2
  <2>8. SumFunction(entitlement) \in Nat /\ SumFunction(PoolDues(q)) \in Nat
    BY <2>1, SumType, WalletsFinite
  <2>9. usdc[q] + SumFunction(PoolClaimed(q)) >= pool[q].tokens_sold + total
    BY <1>1 DEF Inv, Facts, Vault
  <2> HIDE DEF total
  <2>10. Precision * SumFunction(entitlement) <= Precision * total
    <3>1. Precision * SumFunction(entitlement) \in Int /\ Precision * total \in Int
      BY <2>4, <2>8
    <3> QED BY <2>3, <2>6, <2>7, <3>1
  <2>11. SumFunction(entitlement) <= total
    BY <2>4, <2>8, <2>10, CancelScale
  <2> QED BY <2>3, <2>4, <2>5, <2>8, <2>9, <2>11
<1>2. Inv => FairWithoutTopUps
  BY <1>1 DEF FairWithoutTopUps
<1> QED BY <1>2, InvInvariant, PTL

(***************************************************************************)
(* What a step may never do                                                *)
(***************************************************************************)
\* Steps that touch no position and no accumulator, and from no vault.
Quiet ==
  /\ stake' = stake
  /\ \A q \in Pools :
       /\ pool'[q].cumulative_usdc_per_token = pool[q].cumulative_usdc_per_token
       /\ pool'[q].total_distributed = pool[q].total_distributed
       /\ usdc'[q] >= usdc[q]

LEMMA StepKinds ==
  ASSUME Inv, [Next]_poolVars
  PROVE  \/ Quiet
         \/ \E q \in Pools, amount \in U64 : DistributePoolReturns(q, amount)
         \/ \E q \in Pools, i \in PoolInvestors, amount \in U64 : BuyPoolTokens(q, i, amount)
         \/ \E q \in Pools, i \in PoolInvestors : ClaimPoolReturns(q, i)
<1>1. ASSUME UNCHANGED <<usdc, pool, stake>> PROVE Quiet
  BY <1>1, PoolNumbers DEF Quiet, Inv
<1>2. ASSUME NEW a \in Deployers, NEW t \in Treasuries, NEW bps \in FeeChoices,
             Deploy(a, t, bps)
      PROVE  Quiet
  BY <1>1, <1>2 DEF Deploy
<1>3. ASSUME NEW q \in Pools, NEW target \in PoolTargets, CreatePool(q, target)
      PROVE  Quiet
  <2>1. /\ pool[q].cumulative_usdc_per_token = 0 /\ pool[q].total_distributed = 0
    BY <1>3 DEF CreatePool, Inv, Facts, Opening, NoPool
  <2>2. /\ pool'[q].cumulative_usdc_per_token = 0 /\ pool'[q].total_distributed = 0
        /\ \A r \in Pools \ {q} : pool'[r] = pool[r]
    BY <1>3 DEF CreatePool, Inv, PoolTypeOK, NoPool
  <2>3. stake' = stake /\ \A r \in Pools : usdc'[r] >= usdc[r]
    BY <1>3, PoolNumbers DEF CreatePool, Inv
  <2> QED BY <2>1, <2>2, <2>3 DEF Quiet
<1>4. ASSUME NEW q \in Pools, NEW p \in PoolProjects, AddProjectToPool(q, p)
      PROVE  Quiet
  <2>1. \A r \in Pools :
          /\ pool'[r].cumulative_usdc_per_token = pool[r].cumulative_usdc_per_token
          /\ pool'[r].total_distributed = pool[r].total_distributed
    BY <1>4 DEF AddProjectToPool, Inv, PoolTypeOK, PoolType
  <2>2. stake' = stake /\ \A r \in Pools : usdc'[r] >= usdc[r]
    BY <1>4, PoolNumbers DEF AddProjectToPool, Inv
  <2> QED BY <2>1, <2>2 DEF Quiet
<1>5. ASSUME NEW p \in PoolProjects, ProjectCreated(p) PROVE Quiet
  BY <1>1, <1>5 DEF ProjectCreated
<1>6. ASSUME NEW from \in Donors, NEW to \in Accounts, NEW amount \in U64,
             Donate(from, to, amount)
      PROVE  Quiet
  <2>1. /\ from \in Accounts /\ amount \in Nat /\ Pools \subseteq Accounts
        /\ \A q \in Pools : q # from
    BY PoolAssumption, WidthAssumption
  <2>2. Transfer(from, to, amount) /\ usdc \in [Accounts -> Nat]
    BY <1>6 DEF Donate, Inv, PoolTypeOK
  <2>3. ASSUME NEW q \in Pools PROVE usdc'[q] >= usdc[q]
    <3>1. usdc[q] \in Nat
      BY PoolNumbers DEF Inv
    <3>2. usdc'[q] = usdc[q] + amount \/ usdc'[q] = usdc[q]
      BY <2>1, <2>2, TransferEffect
    <3> QED BY <2>1, <3>1, <3>2
  <2> QED BY <1>6, <2>3 DEF Donate, Quiet
<1>7. CASE UNCHANGED poolVars
  BY <1>1, <1>7 DEF poolVars
<1> QED BY <1>2, <1>3, <1>4, <1>5, <1>6, <1>7
        DEF Next, PoolAdminNext, PoolInvestorNext, OutsideNext

\* Principal is locked: whoever acts, a vault only ever pays a claim, and
\* what it pays is what one position records.
THEOREM OnlyClaimsLeaveVaultTheorem == Spec => OnlyClaimsLeaveVault
<1> DEFINE Paid(q) ==
      usdc'[q] < usdc[q] =>
        \E i \in Wallets :
          /\ stake'[q][i].total_claimed - stake[q][i].total_claimed = usdc[q] - usdc'[q]
          /\ Staked(q)' = Staked(q)
          /\ \A j \in Wallets \ {i} : stake'[q][j] = stake[q][j]
<1>1. ASSUME Inv, [Next]_poolVars, NEW q \in Pools PROVE Paid(q)
  <2>1. usdc[q] \in Nat
    BY <1>1, PoolNumbers DEF Inv
  <2>2. CASE Quiet
    <3>1. Inv'
      BY <1>1, StepInv
    <3>2. usdc'[q] \in Nat
      BY <3>1, PoolAssumption DEF Inv, PoolTypeOK
    <3> QED BY <2>1, <2>2, <3>2 DEF Quiet
  <2>3. ASSUME NEW r \in Pools, NEW amount \in U64, DistributePoolReturns(r, amount)
        PROVE  Paid(q)
    <3>1. amount \in Nat /\ (usdc'[q] = usdc[q] + amount \/ usdc'[q] = usdc[q])
      BY <1>1, <2>3, DistributeEffect
    <3> QED BY <2>1, <3>1
  <2>4. ASSUME NEW r \in Pools, NEW i \in PoolInvestors, NEW amount \in U64,
               BuyPoolTokens(r, i, amount)
        PROVE  Paid(q)
    <3>1. amount \in Nat /\ (usdc'[q] = usdc[q] + amount \/ usdc'[q] = usdc[q])
      BY <1>1, <2>4, BuyEffect
    <3> QED BY <2>1, <3>1
  <2>5. ASSUME NEW r \in Pools, NEW i \in PoolInvestors, ClaimPoolReturns(r, i)
        PROVE  Paid(q)
    <3> DEFINE np == AfterClaim(stake[r][i], pool[r].cumulative_usdc_per_token)
    <3>1. /\ i \in Wallets /\ stake' = [stake EXCEPT ![r][i] = np]
          /\ PoolDue(r, i) \in Nat /\ usdc'[r] = usdc[r] - PoolDue(r, i)
          /\ \A s \in Pools \ {r} : usdc'[s] = usdc[s]
      BY <1>1, <2>5, ClaimEffect
    <3>2. /\ np.tokens_held = stake[r][i].tokens_held
          /\ np.total_claimed = stake[r][i].total_claimed + PoolDue(r, i)
      BY <1>1, <3>1, ClaimedPosition
    <3> HIDE DEF np
    <3>3. CASE q # r
      BY <2>1, <3>1, <3>3
    <3>4. CASE q = r
      <4>1. /\ stake'[q] = [stake[q] EXCEPT ![i] = np]
            /\ stake[q] \in [Wallets -> PositionType]
        BY <1>1, <3>1, <3>4 DEF Inv, PoolTypeOK
      <4>2. \A j \in Wallets : stake'[q][j].tokens_held = stake[q][j].tokens_held
        BY <3>1, <3>2, <3>4, <4>1
      <4>3. Staked(q)' = Staked(q)
        BY <4>2 DEF Staked
      <4>4. stake[q][i].total_claimed \in Nat
        BY <1>1, <3>1, PoolNumbers DEF Inv
      <4>5. stake'[q][i].total_claimed - stake[q][i].total_claimed = usdc[q] - usdc'[q]
        BY <2>1, <3>1, <3>2, <3>4, <4>1, <4>4
      <4>6. \A j \in Wallets \ {i} : stake'[q][j] = stake[q][j]
        BY <4>1
      <4> QED BY <3>1, <4>3, <4>5, <4>6
    <3> QED BY <3>3, <3>4
  <2> HIDE DEF Paid
  <2> QED BY <1>1, <2>2, <2>3, <2>4, <2>5, StepKinds
<1>2. Inv /\ [Next]_poolVars => [\A q \in Pools : Paid(q)]_poolVars
  BY <1>1
<1> QED BY <1>2, InvInvariant, PTL DEF Spec, OnlyClaimsLeaveVault

\* Raises(q, i) is what PoolEntitlementsGrow says of one position.
Raises(q, i) ==
  LET raise == pool'[q].cumulative_usdc_per_token - pool[q].cumulative_usdc_per_token
  IN  PoolEntitlement(q, i)' >=
        PoolEntitlement(q, i) + (stake[q][i].tokens_held * raise) \div Precision

\* Where the accumulator stays, the entitlement only has to stay too.
LEMMA RaisesNothing ==
  ASSUME Inv, NEW q \in Pools, NEW i \in Wallets,
         pool'[q].cumulative_usdc_per_token = pool[q].cumulative_usdc_per_token,
         PoolEntitlement(q, i)' >= PoolEntitlement(q, i)
  PROVE  Raises(q, i)
<1> DEFINE cum == pool[q].cumulative_usdc_per_token
           held == stake[q][i].tokens_held
<1>1. cum \in Nat /\ held \in Nat /\ Precision \in Nat /\ Precision > 0
  BY PoolNumbers DEF Inv
<1>2. PoolEntitlement(q, i) \in Nat
  BY DueWithinEntitlement
<1>3. (held * (cum - cum)) \div Precision = 0
  <2>1. held * (cum - cum) = 0 /\ 0 \div Precision = 0
    BY <1>1
  <2> QED BY <2>1
<1>4. PoolEntitlement(q, i)' >=
        PoolEntitlement(q, i) + (held * (cum - cum)) \div Precision
  BY <1>2, <1>3
<1> QED BY <1>4 DEF Raises

LEMMA RaisesUntouched ==
  ASSUME Inv, NEW q \in Pools, NEW i \in Wallets, stake'[q][i] = stake[q][i],
         pool'[q].cumulative_usdc_per_token = pool[q].cumulative_usdc_per_token
  PROVE  Raises(q, i)
<1>1. PoolEntitlement(q, i)' = PoolEntitlement(q, i)
  BY DEF PoolEntitlement, PoolDue, Owed, OwedScaled
<1>2. PoolEntitlement(q, i) \in Nat
  BY DueWithinEntitlement
<1> QED BY <1>1, <1>2, RaisesNothing

LEMMA DistributeRaises ==
  ASSUME Inv, NEW q \in Pools, NEW amount \in U64, DistributePoolReturns(q, amount),
         NEW i \in Wallets
  PROVE  Raises(q, i)
<1> DEFINE held == stake[q][i].tokens_held
           last == stake[q][i].last_claimed_per_token
           claimed == stake[q][i].total_claimed
           cum == pool[q].cumulative_usdc_per_token
           delta == DeltaPerToken(amount, pool[q].tokens_sold)
<1>1. /\ held \in Nat /\ last \in Nat /\ claimed \in Nat /\ cum \in Nat
      /\ Precision \in Nat /\ Precision > 0 /\ last <= cum
  BY PoolNumbers DEF Inv, Facts, Opening
<1>2. delta \in Nat /\ pool'[q].cumulative_usdc_per_token = cum + delta /\ stake' = stake
  BY DistributeEffect
<1> HIDE DEF delta
<1>3. /\ PoolEntitlement(q, i) = claimed + (held * (cum - last)) \div Precision
      /\ PoolEntitlement(q, i)' = claimed + (held * ((cum + delta) - last)) \div Precision
  BY <1>2 DEF PoolEntitlement, PoolDue, Owed, OwedScaled
<1>4. pool'[q].cumulative_usdc_per_token - pool[q].cumulative_usdc_per_token = delta
  BY <1>1, <1>2
<1> HIDE DEF held, last, claimed, cum
<1>5. (held * ((cum + delta) - last)) \div Precision
        >= (held * (cum - last)) \div Precision + (held * delta) \div Precision
  BY <1>1, <1>2, OwedGrows
<1>6. /\ (held * ((cum + delta) - last)) \div Precision \in Int
      /\ (held * (cum - last)) \div Precision \in Int
      /\ (held * delta) \div Precision \in Int
  <2>1. /\ held * ((cum + delta) - last) \in Int /\ held * (cum - last) \in Int
        /\ held * delta \in Int
    BY <1>1, <1>2
  <2> QED BY <1>1, <2>1
<1>7. PoolEntitlement(q, i)' >= PoolEntitlement(q, i) + (held * delta) \div Precision
  BY <1>1, <1>3, <1>5, <1>6
<1> QED BY <1>4, <1>7 DEF Raises, held

LEMMA BuyRaises ==
  ASSUME Inv, NEW q \in Pools, NEW i \in PoolInvestors, NEW amount \in U64,
         BuyPoolTokens(q, i, amount)
  PROVE  Raises(q, i)
<1> DEFINE cum == pool[q].cumulative_usdc_per_token
           np == AfterBuy(stake[q][i], i, cum, amount)
           more == Inheritance(q, i, amount)
           scaled == OwedScaled(stake[q][i], cum)
<1>1. /\ i \in Wallets /\ amount \in Nat
      /\ stake' = [stake EXCEPT ![q][i] = np]
      /\ pool' = [pool EXCEPT ![q].tokens_sold = pool[q].tokens_sold + amount]
  BY BuyEffect
<1>2. /\ np.total_claimed = stake[q][i].total_claimed
      /\ more \in Nat /\ OwedScaled(np, cum) = scaled + more
  BY <1>1, Bought
<1>3. /\ stake'[q][i] = np /\ pool'[q].cumulative_usdc_per_token = cum
  BY <1>1 DEF Inv, PoolTypeOK, PoolType
<1>4. /\ PoolEntitlement(q, i) = stake[q][i].total_claimed + scaled \div Precision
      /\ PoolEntitlement(q, i)' = np.total_claimed + OwedScaled(np, cum) \div Precision
  BY <1>3 DEF PoolEntitlement, PoolDue, Owed
<1>5. /\ scaled \in Nat /\ Precision \in Nat /\ Precision > 0
      /\ stake[q][i].total_claimed \in Nat
  BY <1>1, ClaimedPosition, PoolNumbers DEF Inv
<1> HIDE DEF np, more, scaled
<1>6. /\ (scaled + more) \div Precision >= scaled \div Precision + more \div Precision
      /\ scaled \div Precision \in Nat /\ more \div Precision \in Nat
      /\ (scaled + more) \div Precision \in Nat
  BY <1>2, <1>5, DivisionAdds, Division
<1>7. PoolEntitlement(q, i)' >= PoolEntitlement(q, i)
  BY <1>2, <1>4, <1>5, <1>6
<1> QED BY <1>1, <1>3, <1>7, RaisesNothing

LEMMA ClaimRaises ==
  ASSUME Inv, NEW q \in Pools, NEW i \in PoolInvestors, ClaimPoolReturns(q, i)
  PROVE  Raises(q, i)
<1> DEFINE cum == pool[q].cumulative_usdc_per_token
           np == AfterClaim(stake[q][i], cum)
<1>1. /\ i \in Wallets /\ stake' = [stake EXCEPT ![q][i] = np] /\ pool' = pool
  BY ClaimEffect
<1>2. /\ PoolDue(q, i) \in Nat /\ OwedScaled(np, cum) = 0
      /\ np.total_claimed = stake[q][i].total_claimed + PoolDue(q, i)
  BY <1>1, ClaimedPosition
<1>3. stake'[q][i] = np
  BY <1>1 DEF Inv, PoolTypeOK
<1>4. /\ PoolEntitlement(q, i) = stake[q][i].total_claimed + PoolDue(q, i)
      /\ PoolEntitlement(q, i)' = np.total_claimed + OwedScaled(np, cum) \div Precision
  BY <1>1, <1>3 DEF PoolEntitlement, PoolDue, Owed
<1>5. 0 \div Precision = 0 /\ stake[q][i].total_claimed \in Nat
  BY <1>1, PoolNumbers DEF Inv
<1> HIDE DEF np
<1>6. PoolEntitlement(q, i)' >= PoolEntitlement(q, i)
  BY <1>2, <1>4, <1>5
<1> QED BY <1>1, <1>6, RaisesNothing

\* What a holder took and can take never shrinks, whoever acts, and every
\* distribution adds its tokens' part.
THEOREM PoolEntitlementsGrowTheorem == Spec => PoolEntitlementsGrow
<1>1. ASSUME Inv, [Next]_poolVars, NEW q \in Pools, NEW i \in Wallets
      PROVE  Raises(q, i)
  <2>1. CASE Quiet
    BY <1>1, <2>1, RaisesUntouched DEF Quiet
  <2>2. ASSUME NEW r \in Pools, NEW amount \in U64, DistributePoolReturns(r, amount)
        PROVE  Raises(q, i)
    <3>1. CASE q = r
      BY <1>1, <2>2, <3>1, DistributeRaises
    <3>2. CASE q # r
      BY <1>1, <2>2, <3>2, DistributeEffect, RaisesUntouched
    <3> QED BY <3>1, <3>2
  <2>3. ASSUME NEW r \in Pools, NEW j \in PoolInvestors, NEW amount \in U64,
               BuyPoolTokens(r, j, amount)
        PROVE  Raises(q, i)
    <3>1. CASE q = r /\ i = j
      BY <1>1, <2>3, <3>1, BuyRaises
    <3>2. CASE ~(q = r /\ i = j)
      <4>1. stake'[q][i] = stake[q][i]
        BY <2>3, <3>2 DEF BuyPoolTokens
      <4>2. pool'[q].cumulative_usdc_per_token = pool[q].cumulative_usdc_per_token
        BY <1>1, <2>3 DEF BuyPoolTokens, Inv, PoolTypeOK, PoolType
      <4> QED BY <1>1, <4>1, <4>2, RaisesUntouched
    <3> QED BY <3>1, <3>2
  <2>4. ASSUME NEW r \in Pools, NEW j \in PoolInvestors, ClaimPoolReturns(r, j)
        PROVE  Raises(q, i)
    <3>1. CASE q = r /\ i = j
      BY <1>1, <2>4, <3>1, ClaimRaises
    <3>2. CASE ~(q = r /\ i = j)
      BY <1>1, <2>4, <3>2, RaisesUntouched DEF ClaimPoolReturns
    <3> QED BY <3>1, <3>2
  <2> QED BY <1>1, <2>1, <2>2, <2>3, <2>4, StepKinds
<1>2. Inv /\ [Next]_poolVars => [\A q \in Pools, i \in Wallets : Raises(q, i)]_poolVars
  BY <1>1
<1> QED BY <1>2, InvInvariant, PTL DEF Spec, PoolEntitlementsGrow, Raises

(***************************************************************************)
(* What a step does to a bystander                                         *)
(***************************************************************************)
\* What i has in pool q at the price it paid, and is owed.
PoolHolding(q, i) == stake[q][i].tokens_held + PoolDue(q, i)

\* A step that touches at most one of i's holdings, and gives i no less than
\* it takes.
PoolFairTo(i) ==
  \/ /\ \A q \in Pools : PoolHolding(q, i)' = PoolHolding(q, i)
     /\ usdc'[i] >= usdc[i]
  \/ \E q \in Pools :
       /\ \A r \in Pools \ {q} : PoolHolding(r, i)' = PoolHolding(r, i)
       /\ usdc'[i] + PoolHolding(q, i)' >= usdc[i] + PoolHolding(q, i)

LEMMA PoolHoldingFrame ==
  ASSUME NEW q \in Pools, NEW i \in Wallets, stake'[q][i] = stake[q][i],
         pool'[q].cumulative_usdc_per_token = pool[q].cumulative_usdc_per_token
  PROVE  PoolHolding(q, i)' = PoolHolding(q, i)
BY DEF PoolHolding, PoolDue, Owed, OwedScaled

LEMMA PoolHoldingType ==
  ASSUME Inv, NEW q \in Pools, NEW i \in Wallets
  PROVE  PoolHolding(q, i) \in Nat
BY DueWithinEntitlement, PoolNumbers DEF Inv, PoolHolding

\* A distribution adds to what it is distributed on.
LEMMA DistributeFair ==
  ASSUME Inv, NEW q \in Pools, NEW amount \in U64, DistributePoolReturns(q, amount),
         NEW i \in Wallets, i # platform.admin
  PROVE  PoolFairTo(i)
<1> DEFINE held == stake[q][i].tokens_held
           last == stake[q][i].last_claimed_per_token
           cum == pool[q].cumulative_usdc_per_token
           delta == DeltaPerToken(amount, pool[q].tokens_sold)
<1>1. /\ held \in Nat /\ last \in Nat /\ cum \in Nat
      /\ Precision \in Nat /\ Precision > 0 /\ last <= cum
  BY PoolNumbers DEF Inv, Facts, Opening
<1>2. /\ delta \in Nat /\ pool'[q].cumulative_usdc_per_token = cum + delta
      /\ stake' = stake /\ amount \in Nat
      /\ \A r \in Pools \ {q} : pool'[r] = pool[r]
  BY DistributeEffect
<1> HIDE DEF delta
<1>3. usdc'[i] = usdc[i] /\ usdc[i] \in Nat
  <2>1. /\ platform.admin \in Accounts /\ i \in Accounts /\ q \in Accounts /\ i # q
        /\ usdc \in [Accounts -> Nat]
    BY LedgerAssumption, PoolAssumption
       DEF DistributePoolReturns, Inv, PoolTypeOK, PlatformType, Initialized, NoPlatform
  <2> QED BY <1>2, <2>1, TransferEffect DEF DistributePoolReturns
<1>4. \A r \in Pools \ {q} : PoolHolding(r, i)' = PoolHolding(r, i)
  BY <1>2, PoolHoldingFrame
<1>5. /\ PoolHolding(q, i) = held + (held * (cum - last)) \div Precision
      /\ PoolHolding(q, i)' = held + (held * ((cum + delta) - last)) \div Precision
  BY <1>2 DEF PoolHolding, PoolDue, Owed, OwedScaled
<1> HIDE DEF held, last, cum
<1>6. (held * ((cum + delta) - last)) \div Precision
        >= (held * (cum - last)) \div Precision + (held * delta) \div Precision
  BY <1>1, <1>2, OwedGrows
<1>7. /\ (held * ((cum + delta) - last)) \div Precision \in Nat
      /\ (held * (cum - last)) \div Precision \in Nat
      /\ (held * delta) \div Precision \in Nat
  <2>1. /\ held * ((cum + delta) - last) \in Nat /\ held * (cum - last) \in Nat
        /\ held * delta \in Nat
    BY <1>1, <1>2
  <2> QED BY <1>1, <2>1, Division
<1>8. usdc'[i] + PoolHolding(q, i)' >= usdc[i] + PoolHolding(q, i)
  BY <1>1, <1>3, <1>5, <1>6, <1>7
<1> QED BY <1>4, <1>8 DEF PoolFairTo

\* A purchase exchanges cash for as many tokens; a top-up can only add to what
\* is owed.
LEMMA BuyFair ==
  ASSUME Inv, NEW q \in Pools, NEW j \in PoolInvestors, NEW amount \in U64,
         BuyPoolTokens(q, j, amount), NEW i \in Wallets
  PROVE  PoolFairTo(i)
<1> DEFINE cum == pool[q].cumulative_usdc_per_token
           np == AfterBuy(stake[q][j], j, cum, amount)
           more == Inheritance(q, j, amount)
           scaled == OwedScaled(stake[q][j], cum)
           held == stake[q][j].tokens_held
<1>1. /\ j \in Wallets /\ amount \in Nat
      /\ stake' = [stake EXCEPT ![q][j] = np]
      /\ pool' = [pool EXCEPT ![q].tokens_sold = pool[q].tokens_sold + amount]
  BY BuyEffect
<1>2. /\ \A r \in Pools : pool'[r].cumulative_usdc_per_token
                            = pool[r].cumulative_usdc_per_token
      /\ \A r \in Pools, k \in Wallets : ~(r = q /\ k = j) => stake'[r][k] = stake[r][k]
      /\ stake'[q][j] = np
  BY <1>1 DEF Inv, PoolTypeOK, PoolType
<1>3. \A r \in Pools : ~(r = q /\ i = j) => PoolHolding(r, i)' = PoolHolding(r, i)
  BY <1>2, PoolHoldingFrame
<1>4. /\ Transfer(j, q, amount) /\ usdc \in [Accounts -> Nat]
      /\ j \in Accounts /\ q \in Accounts /\ i \in Accounts /\ i # q
      /\ usdc[i] \in Nat /\ usdc[j] \in Nat
  BY <1>1, LedgerAssumption, PoolAssumption DEF BuyPoolTokens, Inv, PoolTypeOK
<1>5. CASE i # j
  <2>1. usdc'[i] = usdc[i]
    BY <1>1, <1>4, <1>5, TransferEffect
  <2> QED BY <1>3, <1>4, <1>5, <2>1 DEF PoolFairTo
<1>6. CASE i = j
  <2>1. usdc'[j] = usdc[j] - amount
    BY <1>1, <1>4, TransferEffect
  <2>2. /\ np.tokens_held = held + amount
        /\ more \in Nat /\ OwedScaled(np, cum) = scaled + more
    BY <1>1, Bought
  <2>3. /\ scaled \in Nat /\ held \in Nat /\ Precision \in Nat /\ Precision > 0
    BY <1>1, ClaimedPosition, PoolNumbers DEF Inv
  <2>4. /\ PoolHolding(q, j) = held + scaled \div Precision
        /\ PoolHolding(q, j)' = np.tokens_held + OwedScaled(np, cum) \div Precision
    BY <1>2 DEF PoolHolding, PoolDue, Owed
  <2> HIDE DEF np, more, scaled, held
  <2>5. /\ (scaled + more) \div Precision >= scaled \div Precision + more \div Precision
        /\ scaled \div Precision \in Nat /\ more \div Precision \in Nat
        /\ (scaled + more) \div Precision \in Nat
    BY <2>2, <2>3, DivisionAdds, Division
  <2>6. usdc'[j] + PoolHolding(q, j)' >= usdc[j] + PoolHolding(q, j)
    BY <1>1, <1>4, <2>1, <2>2, <2>3, <2>4, <2>5
  <2> QED BY <1>3, <1>6, <2>6 DEF PoolFairTo
<1> QED BY <1>5, <1>6

\* A claim exchanges what is owed for cash.
LEMMA ClaimFair ==
  ASSUME Inv, NEW q \in Pools, NEW j \in PoolInvestors, ClaimPoolReturns(q, j),
         NEW i \in Wallets
  PROVE  PoolFairTo(i)
<1> DEFINE cum == pool[q].cumulative_usdc_per_token
           np == AfterClaim(stake[q][j], cum)
           held == stake[q][j].tokens_held
<1>1. /\ j \in Wallets /\ stake' = [stake EXCEPT ![q][j] = np] /\ pool' = pool
  BY ClaimEffect
<1>2. /\ PoolDue(q, j) \in Nat /\ OwedScaled(np, cum) = 0
      /\ np.tokens_held = held
  BY <1>1, ClaimedPosition
<1>3. /\ \A r \in Pools, k \in Wallets : ~(r = q /\ k = j) => stake'[r][k] = stake[r][k]
      /\ stake'[q][j] = np
  BY <1>1 DEF Inv, PoolTypeOK
<1>4. \A r \in Pools : ~(r = q /\ i = j) => PoolHolding(r, i)' = PoolHolding(r, i)
  BY <1>1, <1>3, PoolHoldingFrame
<1>5. /\ Transfer(q, j, PoolDue(q, j)) /\ usdc \in [Accounts -> Nat]
      /\ j \in Accounts /\ q \in Accounts /\ i \in Accounts /\ i # q /\ j # q
      /\ usdc[i] \in Nat /\ usdc[j] \in Nat
  BY <1>1, LedgerAssumption, PoolAssumption DEF ClaimPoolReturns, Inv, PoolTypeOK
<1>6. CASE i # j
  <2>1. usdc'[i] = usdc[i]
    BY <1>2, <1>5, <1>6, TransferEffect
  <2> QED BY <1>4, <1>5, <1>6, <2>1 DEF PoolFairTo
<1>7. CASE i = j
  <2>1. usdc'[j] = usdc[j] + PoolDue(q, j)
    BY <1>2, <1>5, TransferEffect
  <2>2. held \in Nat /\ 0 \div Precision = 0
    BY <1>1, PoolNumbers DEF Inv
  <2>3. /\ PoolHolding(q, j) = held + PoolDue(q, j)
        /\ PoolHolding(q, j)' = np.tokens_held + OwedScaled(np, cum) \div Precision
    BY <1>1, <1>3 DEF PoolHolding, PoolDue, Owed
  <2> HIDE DEF np, held
  <2>4. usdc'[j] + PoolHolding(q, j)' >= usdc[j] + PoolHolding(q, j)
    BY <1>2, <1>5, <2>1, <2>2, <2>3
  <2> QED BY <1>4, <1>7, <2>4 DEF PoolFairTo
<1> QED BY <1>6, <1>7

\* The pool instructions leave everyone, but an administrator who pays in,
\* with no less.
LEMMA PoolStepFair ==
  ASSUME Inv, PoolAdminNext \/ PoolInvestorNext, NEW i \in Wallets, i # platform.admin
  PROVE  PoolFairTo(i)
<1>1. ASSUME usdc' = usdc, stake' = stake,
             \A q \in Pools : pool'[q].cumulative_usdc_per_token
                                = pool[q].cumulative_usdc_per_token
      PROVE  PoolFairTo(i)
  <2>1. usdc[i] \in Nat
    BY LedgerAssumption DEF Inv, PoolTypeOK
  <2> QED BY <1>1, <2>1, PoolHoldingFrame DEF PoolFairTo
<1>2. ASSUME NEW a \in Deployers, NEW t \in Treasuries, NEW bps \in FeeChoices,
             Deploy(a, t, bps)
      PROVE  PoolFairTo(i)
  BY <1>1, <1>2 DEF Deploy
<1>3. ASSUME NEW q \in Pools, NEW target \in PoolTargets, CreatePool(q, target)
      PROVE  PoolFairTo(i)
  <2>1. pool[q] = NoPool
    BY <1>3 DEF CreatePool, Inv, Facts, Opening
  <2>2. \A r \in Pools : pool'[r].cumulative_usdc_per_token
                           = pool[r].cumulative_usdc_per_token
    BY <1>3, <2>1 DEF CreatePool, NoPool, Inv, PoolTypeOK
  <2> QED BY <1>1, <1>3, <2>2 DEF CreatePool
<1>4. ASSUME NEW q \in Pools, NEW p \in PoolProjects, AddProjectToPool(q, p)
      PROVE  PoolFairTo(i)
  BY <1>1, <1>4 DEF AddProjectToPool, Inv, PoolTypeOK, PoolType
<1>5. CASE PoolAdminNext
  BY <1>2, <1>3, <1>4, <1>5, DistributeFair DEF PoolAdminNext
<1>6. CASE PoolInvestorNext
  BY <1>6, BuyFair, ClaimFair DEF PoolInvestorNext
<1> QED BY <1>5, <1>6

(***************************************************************************)
(* The pools implement EagerDividends                                      *)
(***************************************************************************)
\* What EagerDividends keeps, read off the positions and the accumulators.
Shares    == [q \in Pools |-> Staked(q)]
Credits   == [q \in Pools |-> [i \in Wallets |->
               OwedScaled(stake[q][i], pool[q].cumulative_usdc_per_token)]]
Deposited == [q \in Pools |-> pool[q].total_distributed]
Paid      == [q \in Pools |-> PoolClaimed(q)]

\* The totals of the abstract specification are those of the program.
LEMMA SameSum == ASSUME NEW f PROVE Dividends!SumFunction(f) = SumFunction(f)
BY DEF Dividends!SumFunction, Dividends!SumFunctionOnSet,
       Dividends!FoldFunctionOnSet, Dividends!MapThenFoldSet,
       SumFunction, SumFunctionOnSet, FoldFunctionOnSet, MapThenFoldSet

\* All four are functions of the pools, and of the holders.
LEMMA DividendDomains ==
  /\ Shares = [q \in Pools |-> [i \in Wallets |-> Shares[q][i]]]
  /\ Credits = [q \in Pools |-> [i \in Wallets |-> Credits[q][i]]]
  /\ Paid = [q \in Pools |-> [i \in Wallets |-> Paid[q][i]]]
  /\ Shares' = [q \in Pools |-> [i \in Wallets |-> Shares'[q][i]]]
  /\ Credits' = [q \in Pools |-> [i \in Wallets |-> Credits'[q][i]]]
  /\ Paid' = [q \in Pools |-> [i \in Wallets |-> Paid'[q][i]]]
BY DEF Shares, Credits, Paid, Staked, PoolClaimed

\* Shares and payments change with the positions alone.
LEMMA SameStakes ==
  ASSUME stake' = stake
  PROVE  Shares' = Shares /\ Paid' = Paid
BY DEF Shares, Paid, Staked, PoolClaimed

LEMMA QuietRefines ==
  ASSUME Quiet
  PROVE  UNCHANGED <<Shares, Credits, Deposited, Paid>>
<1>1. stake' = stake
  BY DEF Quiet
<1>2. Shares' = Shares /\ Paid' = Paid
  BY <1>1, SameStakes
<1>3. \A q \in Pools : /\ pool'[q].cumulative_usdc_per_token = pool[q].cumulative_usdc_per_token
                       /\ pool'[q].total_distributed = pool[q].total_distributed
  BY DEF Quiet
<1>4. Deposited' = Deposited
  BY <1>3 DEF Deposited
<1>5. Credits' = Credits
  BY <1>1, <1>3 DEF Credits, OwedScaled
<1> QED BY <1>2, <1>4, <1>5

\* A distribution credits every holder, and everyone with the same amount per
\* token.
LEMMA DistributeRefines ==
  ASSUME Inv, NEW q \in Pools, NEW amount \in U64, DistributePoolReturns(q, amount)
  PROVE  Dividends!Deposit(q)
<1> DEFINE sold == pool[q].tokens_sold
           cum == pool[q].cumulative_usdc_per_token
           delta == DeltaPerToken(amount, sold)
<1>1. /\ sold > 0 /\ amount \in Nat /\ amount > 0 /\ delta \in Nat
      /\ pool'[q].cumulative_usdc_per_token = cum + delta
      /\ pool'[q].total_distributed = pool[q].total_distributed + amount
      /\ \A r \in Pools \ {q} : pool'[r] = pool[r]
      /\ stake' = stake
  BY DistributeEffect
<1>2. sold = SumFunction(Shares[q]) /\ pool[q].total_distributed \in Nat /\ cum \in Nat
  BY PoolNumbers DEF Inv, Facts, Sold, Shares
<1>3. Shares' = Shares /\ Paid' = Paid
  BY <1>1, SameStakes
<1>4. Deposited' = [Deposited EXCEPT ![q] = Deposited[q] + amount]
  BY <1>1 DEF Deposited
<1>5. amount = Deposited'[q] - Deposited[q]
  BY <1>1, <1>2 DEF Deposited
<1>6. delta = ((Deposited'[q] - Deposited[q]) * Precision) \div Dividends!SumFunction(Shares[q])
  BY <1>2, <1>5, SameSum DEF DeltaPerToken
<1> HIDE DEF delta
<1>7. ASSUME NEW i \in Wallets
      PROVE  OwedScaled(stake'[q][i], cum + delta)
               = Credits[q][i] + Shares[q][i] * delta
  <2> DEFINE held == stake[q][i].tokens_held
             last == stake[q][i].last_claimed_per_token
  <2>1. held \in Nat /\ last \in Nat
    BY PoolNumbers DEF Inv
  <2>2. /\ Credits[q][i] = held * (cum - last) /\ Shares[q][i] = held
        /\ OwedScaled(stake'[q][i], cum + delta) = held * ((cum + delta) - last)
    BY <1>1 DEF Credits, Shares, Staked, OwedScaled
  <2> HIDE DEF held, last, cum
  <2>3. held * ((cum + delta) - last) = held * (cum - last) + held * delta
    BY <1>1, <1>2, <2>1
  <2> QED BY <2>2, <2>3
<1>8. Credits' = [Credits EXCEPT ![q] =
                   [i \in Wallets |-> Credits[q][i] + Shares[q][i] * delta]]
  <2>1. Credits'[q] = [i \in Wallets |-> Credits[q][i] + Shares[q][i] * delta]
    <3>1. Credits'[q] = [i \in Wallets |-> OwedScaled(stake'[q][i], cum + delta)]
      BY <1>1 DEF Credits
    <3> QED BY <1>7, <3>1
  <2>2. \A r \in Pools \ {q} : Credits'[r] = Credits[r]
    BY <1>1 DEF Credits
  <2> QED BY <2>1, <2>2 DEF Credits
<1>9. Dividends!SumFunction(Shares[q]) > 0 /\ Deposited'[q] - Deposited[q] > 0
  BY <1>1, <1>2, <1>5, SameSum
<1>10. Deposited' = [Deposited EXCEPT ![q] = Deposited[q] + (Deposited'[q] - Deposited[q])]
  BY <1>4, <1>5
<1>11. Credits' = [Credits EXCEPT ![q] = [i \in Wallets |-> Credits[q][i] + Shares[q][i]
         * (((Deposited'[q] - Deposited[q]) * Precision) \div Dividends!SumFunction(Shares[q]))]]
  BY <1>6, <1>8
<1> QED
  BY <1>3, <1>9, <1>10, <1>11
     DEF Dividends!Deposit, Shares, Credits, Deposited, Paid

\* A purchase changes one credit, as it changes the tokens it is for.
LEMMA BuyRefines ==
  ASSUME Inv, NEW q \in Pools, NEW i \in PoolInvestors, NEW amount \in U64,
         BuyPoolTokens(q, i, amount)
  PROVE  Dividends!Trade(q, i)
<1> DEFINE pos == stake[q][i]
           cum == pool[q].cumulative_usdc_per_token
           np == AfterBuy(pos, i, cum, amount)
           more == Inheritance(q, i, amount)
<1>1. /\ i \in Wallets /\ amount \in Nat /\ amount > 0
      /\ stake' = [stake EXCEPT ![q][i] = np]
      /\ pool' = [pool EXCEPT ![q].tokens_sold = pool[q].tokens_sold + amount]
  BY BuyEffect
<1>2. /\ np.tokens_held = pos.tokens_held + amount
      /\ np.total_claimed = pos.total_claimed
      /\ more \in Nat /\ OwedScaled(np, cum) = OwedScaled(pos, cum) + more
  BY <1>1, Bought
<1>3. /\ pos.tokens_held \in Nat /\ pos.last_claimed_per_token \in Nat /\ cum \in Nat
      /\ pos.owner = NoKey => pos = NoPosition
      /\ pos.owner # NoKey => pos.tokens_held > 0
  BY <1>1, PoolNumbers DEF Inv, Facts, Opening
<1>4. /\ stake \in [Pools -> [Wallets -> PositionType]]
      /\ \A r \in Pools :
           /\ pool'[r].cumulative_usdc_per_token = pool[r].cumulative_usdc_per_token
           /\ pool'[r].total_distributed = pool[r].total_distributed
  BY <1>1 DEF Inv, PoolTypeOK, PoolType
<1> HIDE DEF np
<1>5. /\ stake'[q][i] = np
      /\ \A r \in Pools, j \in Wallets : ~(r = q /\ j = i) => stake'[r][j] = stake[r][j]
  BY <1>1, <1>4
<1>6. Deposited' = Deposited
  BY <1>4 DEF Deposited
<1>7. Paid' = Paid
  <2>1. \A r \in Pools, j \in Wallets : stake'[r][j].total_claimed = stake[r][j].total_claimed
    BY <1>2, <1>5
  <2> QED BY <2>1 DEF Paid, PoolClaimed
<1>8. /\ Shares'[q][i] = pos.tokens_held + amount /\ Shares[q][i] = pos.tokens_held
      /\ Shares' = [Shares EXCEPT ![q][i] = Shares'[q][i]]
  <2>1. Shares'[q][i] = pos.tokens_held + amount /\ Shares[q][i] = pos.tokens_held
    BY <1>1, <1>2, <1>5 DEF Shares, Staked
  <2>2. \A r \in Pools, j \in Wallets : ~(r = q /\ j = i) => Shares'[r][j] = Shares[r][j]
    BY <1>5 DEF Shares, Staked
  <2> QED BY <1>1, <2>1, <2>2, DividendDomains, NestedUpdate
<1>9. /\ Credits'[q][i] = OwedScaled(pos, cum) + more /\ Credits[q][i] = OwedScaled(pos, cum)
      /\ Credits' = [Credits EXCEPT ![q][i] = Credits'[q][i]]
  <2>1. \A r \in Pools, j \in Wallets : Credits'[r][j] =
          OwedScaled(stake'[r][j], pool[r].cumulative_usdc_per_token)
    BY <1>4 DEF Credits
  <2>2. \A r \in Pools, j \in Wallets : ~(r = q /\ j = i) => Credits'[r][j] = Credits[r][j]
    BY <1>5, <2>1 DEF Credits
  <2>3. Credits'[q][i] = OwedScaled(pos, cum) + more /\ Credits[q][i] = OwedScaled(pos, cum)
    BY <1>1, <1>2, <1>5, <2>1 DEF Credits
  <2> QED BY <1>1, <2>2, <2>3, DividendDomains, NestedUpdate
<1>10. \/ Shares[q][i] = 0 /\ Credits'[q][i] = 0
       \/ Shares[q][i] > 0 /\ Credits'[q][i] * Shares[q][i] = Credits[q][i] * Shares'[q][i]
  <2>1. CASE pos.owner = NoKey
    <3>1. pos.tokens_held = 0 /\ more = 0 /\ pos.last_claimed_per_token = 0
      BY <1>3, <2>1 DEF NoPosition, Inheritance
    <3>2. OwedScaled(pos, cum) = 0
      BY <1>3, <3>1 DEF OwedScaled
    <3> QED BY <1>8, <1>9, <3>1, <3>2
  <2>2. CASE pos.owner # NoKey
    <3> DEFINE held == pos.tokens_held
               gap == cum - pos.last_claimed_per_token
    <3>1. more = amount * gap /\ OwedScaled(pos, cum) = held * gap
      BY <2>2 DEF Inheritance, OwedScaled
    <3>2. held \in Nat /\ held > 0 /\ gap \in Int
      BY <1>3, <2>2
    <3> HIDE DEF held, gap
    <3>3. (held * gap + amount * gap) * held = (held * gap) * (held + amount)
      <4>1. held * gap + amount * gap = (held + amount) * gap
        BY <1>1, <3>2
      <4>2. ((held + amount) * gap) * held = (held * gap) * (held + amount)
        BY <1>1, <3>2
      <4> QED BY <4>1, <4>2
    <3> QED BY <1>8, <1>9, <3>1, <3>2, <3>3 DEF held
  <2> QED BY <2>1, <2>2
<1>11. Shares'[q][i] \in Nat
  BY <1>1, <1>3, <1>8
<1> HIDE DEF pos, cum, more
<1> QED
  BY <1>6, <1>7, <1>8, <1>9, <1>10, <1>11
     DEF Dividends!Trade, Shares, Credits, Deposited, Paid

\* A claim pays the whole USDC of the credit and takes the rest away.
LEMMA ClaimRefines ==
  ASSUME Inv, NEW q \in Pools, NEW i \in PoolInvestors, ClaimPoolReturns(q, i)
  PROVE  Dividends!Pay(q, i)
<1> DEFINE pos == stake[q][i]
           cum == pool[q].cumulative_usdc_per_token
           np == AfterClaim(pos, cum)
<1>1. /\ i \in Wallets /\ PoolDue(q, i) \in Nat /\ PoolDue(q, i) > 0
      /\ stake' = [stake EXCEPT ![q][i] = np] /\ pool' = pool
  BY ClaimEffect
<1>2. /\ OwedScaled(pos, cum) \in Nat /\ OwedScaled(np, cum) = 0
      /\ Precision * PoolDue(q, i) <= OwedScaled(pos, cum)
      /\ np.tokens_held = pos.tokens_held
      /\ np.total_claimed = pos.total_claimed + PoolDue(q, i)
  BY <1>1, ClaimedPosition
<1>3. stake \in [Pools -> [Wallets -> PositionType]] /\ Precision \in Nat
  BY <1>1, WidthAssumption DEF Inv, PoolTypeOK
<1>4. PoolDue(q, i) = OwedScaled(pos, cum) \div Precision
  BY DEF PoolDue, Owed
<1> HIDE DEF np
<1>5. /\ stake'[q][i] = np
      /\ \A r \in Pools, j \in Wallets : ~(r = q /\ j = i) => stake'[r][j] = stake[r][j]
  BY <1>1, <1>3
<1>6. Deposited' = Deposited
  BY <1>1 DEF Deposited
<1>7. Shares' = Shares
  <2>1. \A r \in Pools, j \in Wallets : stake'[r][j].tokens_held = stake[r][j].tokens_held
    BY <1>2, <1>5
  <2> QED BY <2>1 DEF Shares, Staked
<1>8. /\ Credits[q][i] = OwedScaled(pos, cum)
      /\ Credits' = [Credits EXCEPT ![q][i] = 0]
  <2>1. \A r \in Pools, j \in Wallets : Credits'[r][j] =
          OwedScaled(stake'[r][j], pool[r].cumulative_usdc_per_token)
    BY <1>1 DEF Credits
  <2>2. \A r \in Pools, j \in Wallets : ~(r = q /\ j = i) => Credits'[r][j] = Credits[r][j]
    BY <1>5, <2>1 DEF Credits
  <2>3. Credits'[q][i] = 0 /\ Credits[q][i] = OwedScaled(pos, cum)
    BY <1>1, <1>2, <1>5, <2>1 DEF Credits
  <2> QED BY <1>1, <2>2, <2>3, DividendDomains, NestedUpdate
<1>9. Paid' = [Paid EXCEPT ![q][i] = Paid[q][i] + Credits[q][i] \div Precision]
  <2>1. \A r \in Pools, j \in Wallets : ~(r = q /\ j = i) => Paid'[r][j] = Paid[r][j]
    BY <1>5 DEF Paid, PoolClaimed
  <2>2. Paid'[q][i] = Paid[q][i] + Credits[q][i] \div Precision
    BY <1>1, <1>2, <1>4, <1>5, <1>8 DEF Paid, PoolClaimed
  <2> HIDE DEF pos, cum
  <2> QED BY <1>1, <2>1, <2>2, DividendDomains, NestedUpdate
<1>10. Credits[q][i] >= Precision
  <2>1. Precision * PoolDue(q, i) >= Precision
    BY <1>1, <1>3
  <2> HIDE DEF pos, cum
  <2>2. Precision * PoolDue(q, i) \in Nat
    BY <1>1, <1>3
  <2> QED BY <1>2, <1>3, <1>8, <2>1, <2>2
<1> HIDE DEF pos, cum
<1> QED
  BY <1>6, <1>7, <1>8, <1>9, <1>10
     DEF Dividends!Pay, Shares, Credits, Deposited, Paid

\* Sales, distributions and claims of pools, in any order, are worth what
\* pushing every distribution to all holders at once would be.
THEOREM IsEagerDividendsTheorem == Spec => IsEagerDividends
<1>1. Init => Dividends!Init
  <2> SUFFICES ASSUME Init PROVE Dividends!Init
    OBVIOUS
  <2>1. \A q \in Pools : /\ pool[q].total_distributed = 0
                         /\ pool[q].cumulative_usdc_per_token = 0
                         /\ \A i \in Wallets : /\ stake[q][i].tokens_held = 0
                                               /\ stake[q][i].total_claimed = 0
                                               /\ stake[q][i].last_claimed_per_token = 0
    BY DEF Init, NoPool, NoPosition
  <2>2. \A q \in Pools, i \in Wallets :
          OwedScaled(stake[q][i], pool[q].cumulative_usdc_per_token) = 0
    BY <2>1 DEF OwedScaled
  <2> QED BY <2>1, <2>2 DEF Dividends!Init, Staked, PoolClaimed
<1>2. Inv /\ [Next]_poolVars => [Dividends!Next]_Dividends!dividendVars
  <2> SUFFICES ASSUME Inv, [Next]_poolVars
               PROVE  [Dividends!Next]_Dividends!dividendVars
    OBVIOUS
  <2>1. CASE Quiet
    BY <2>1, QuietRefines DEF Dividends!dividendVars, Shares, Credits, Deposited, Paid
  <2>2. ASSUME NEW q \in Pools, NEW amount \in U64, DistributePoolReturns(q, amount)
        PROVE  Dividends!Next
    BY <2>2, DistributeRefines DEF Dividends!Next
  <2>3. ASSUME NEW q \in Pools, NEW i \in PoolInvestors, NEW amount \in U64,
               BuyPoolTokens(q, i, amount)
        PROVE  Dividends!Next
    BY <2>3, BuyRefines, BuyEffect DEF Dividends!Next
  <2>4. ASSUME NEW q \in Pools, NEW i \in PoolInvestors, ClaimPoolReturns(q, i)
        PROVE  Dividends!Next
    BY <2>4, ClaimRefines, ClaimEffect DEF Dividends!Next
  <2> QED BY <2>1, <2>2, <2>3, <2>4, StepKinds
<1> QED BY <1>1, <1>2, InvInvariant, PTL DEF Spec, IsEagerDividends, Dividends!Spec
=============================================================================
