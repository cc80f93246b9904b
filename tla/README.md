# Exira in TLA+

Exira (`src/programs/exira`) is a Solana program that finances energy-efficiency
retrofits: a *project* sells tokens for USDC, is activated when sold out, is repaid
through a pull-based dividend accumulator and is closed; a *pool* sells tokens of a
diversified product with an accumulator of its own; an *MRV registry* records the
baseline and the verifications auditors sign for each retrofit, and gates the creation
of projects. Wallets reach it through a web page (`app/app.js`). This directory holds the TLA+ model of the program, the TLC runs that
check it on small instances, and TLAPS proofs about it for every instance.

Everything the models say is translated from the handlers under
`programs/exira/src`; the documents under `docs/` are only a source of claims to check.

## 1. Inventory

### How the program runs

A transaction calls one handler. The runtime checks the account constraints, runs the
handler and commits all its writes or none, so a handler is one atomic action whose
checks (account constraints, `require!`, checked arithmetic, balances of the token
program) are its guards: an error after some writes leaves no trace. What remains hard
is the *order* of transactions: any number of signers submit them concurrently, nothing
orders them, and every handler sees whatever the previous ones left. On the chain there are
no timers, callbacks or messages.

In front of the chain there are: the page reads accounts, waits for a wallet and a network,
and then uses what it read; a transaction may be lost, land late, or land without the page
hearing of it, and users click again.

### Components

| Component | State | Operations | Modelled in |
|---|---|---|---|
| Accumulator (both layers) | `cumulative_usdc_per_token`, `total_distributed`, positions | distribute, buy-in, claim | `Accumulator`, `LedgerProofs` |
| Platform | the singleton `Platform` account | `initialize_platform`, counters | `Platform` |
| Projects | `Project`, `InvestorPosition`, vault, token mint | `create_project`, `buy_project_tokens`, `withdraw_investment`, `activate_project`, `distribute_repayment`, `claim_project_returns`, `close_project`, `withdraw_project_funds` | `Project` |
| Pools | `Pool`, `PoolProjectLink`, `InvestorPosition`, vault | `create_pool`, `add_project_to_pool`, `buy_pool_tokens`, `distribute_pool_returns`, `claim_pool_returns` | `Pool` |
| MRV registry | `MrvProject`, `Auditor`, `Baseline`, `Verification` | `register_mrv_project`, `add_auditor`, `submit_baseline`, `submit_verification`, `attest_verification` | `Mrv` |
| SPL token program (external) | token balances | transfer, mint, burn | `Ledger`, and `SendTokens`, `BurnTokens`, `SendUsdc`, `Donate` |
| Entry points (`lib.rs`): the whole program | all of the above | dispatch to every handler | `Exira` |
| Web client (`app/app.js`) | transactions in flight, the log | the buttons for creating, activating, repaying, buying, claiming and withdrawing | `WebClient` |
| Error codes; scripts, migrations, tests | none of their own | | not modelled |

### Interactions

* Every component reads `platform.admin`; projects and pools increment its counters and
  projects read its fee and treasury.
* `create_project` reads an MRV entry's `baseline_submitted`; `add_project_to_pool` reads
  that a project exists. Nothing else ties a pool to its projects: what the
  administrator distributes to a pool is not computed from repayments. But the destination of
  `withdraw_project_funds` is any USDC account, so a project's money can be put into a
  pool's vault, and the administrator can pay a pool's returns with what it took.
* All USDC moves through the token program. Wallets, project vaults and pool vaults are
  accounts of one ledger; holders can also call the token program directly, so a vault
  can receive USDC the program did not book, and project tokens can change hands or be
  burned while the positions, which the program pays by, do not follow.

### What is hard, and what correctness means

* **Projects.** Sales, refunds and the activation race for the last token; repayments,
  claims, closing and the administrator's withdrawals race for the vault. Correct: shares
  are fixed from activation on, no holder gets more than its pro-rata part, all claims
  together stay within what was distributed, the vault's books balance, the vault can pay
  unless the administrator took more than the net proceeds, checked arithmetic never
  locks a claim out, and a claim that can be paid is eventually paid.
* **Pools.** Nothing takes a pool out of `Funding`, so purchases interleave with
  distributions and claims for ever, and a top-up of an open position keeps its old
  snapshot. Correct: newcomers earn nothing from the past, nobody's entitlement shrinks,
  claims exceed distributions only by what top-ups inherited, and only claims leave the vault.
* **MRV registry.** Auditors choose indexes freely and concurrently. Correct: the record
  is append-only, status and flags follow it, the counter counts up to its `u8` limit, and
  no verification is locked out of its attestation.
* **The whole program.** Components share the platform account, the wallets and the
  token ledger. Correct: each behaves as its own specification says whatever the others do,
  behind every project and pool link there is a signed baseline, the counters count, and no
  step makes what a bystander owns worth less.
* **Web client.** The page disables no button while it waits, so calls overlap and retries race
  what they retry. Correct: what it fetched before an await still holds when
  the transaction executes, the mint it shows for a new project is the project's, and a holder
  that keeps clicking gets its claim through.

`PROJECT.json` lists the hazards one by one with the source line where each bites and
the properties that watch it.

## 2. Modules

| Module | What it is |
|---|---|
| `Accumulator` | Positions, distributions and claims as operators: `AfterBuy`, `DeltaPerToken`, `DistributionFits`, `AfterDistribution`, `Owed`, `ClaimFits`, `AfterClaim`. The widths `MaxU64`, `MaxU128` and `Precision` are constants; each `checked_*` and `try_from` is a guard. |
| `Platform` | The platform account and its wallets: `InitializePlatform`, `OriginationFee`. |
| `Ledger` | USDC balances and `Transfer`. |
| `Project` | The state and the eight project instructions, and what happens beside them: an auditor's baseline, holders using the token program directly, USDC sent from outside. |
| `ProjectProperties` | Invariants, step properties, the inductive strengthening, the refinement mappings, fairness, and the documents' claims. |
| `Pool`, `PoolProperties` | The same for the pool instructions. |
| `Mrv`, `MrvProperties` | The same for the registry. |
| `Exira`, `ExiraProperties` | The three components composed on one platform account, one set of wallets and one ledger, and what must hold across them. |
| `WebClient`, `WebClientProperties` | The page and the network over the project instructions. |
| `RevenueShare` | Abstract: what any issuer of fractional ownership promises. |
| `EagerDividends` | Abstract: dividends credited to every holder at the moment of the deposit. |
| `SignedRecord` | Abstract: an append-only record written by authorized signers. |
| `MCProject`, `MCPool`, `MCMrv`, `MCExira`, `MCWebClient` | Names, opening balances, periods and buttons for the TLC instances. |
| `LedgerProofs` | Lemmas all proofs share: totals (a point update changes `SumFunction` by the difference, monotonicity, scaling), rounding, transfers, and what one changed position does to the totals. |
| `ProjectProofs`, `ProjectSafetyProofs`, `ProjectStepProofs` | Proofs about projects: the inductive invariant; the safety properties; the step properties and the two refinements. |
| `PoolProofs`, `MrvProofs` | Proofs about pools and about the registry, their refinements included. |
| `ExiraProofs` | Proofs about the whole program: the components' specifications in it, and what holds across them. |
| `WebClientProofs` | Proofs about the page: what it fetched lasts, and it reaches no state the instructions do not. |

### Correspondence with the code

Account structs are records with the source's field names; an account that does not exist
yet is a record with status `"Absent"`. PDAs are modelled by what their seeds make
unique: `project[p]`, `position[p][i]`, `verification[m][k]`. A project or pool stands
for its own vault in the ledger, since the vault is its associated token account and
`has_one = usdc_vault` ties them. `init` is the guard that the account is absent;
`init_if_needed` on a position leaves it as it is when it has been opened, which is why
`Opened` tests the owner and a refunded position, still open with no tokens, keeps its
snapshot. `saturating_add(1)` is `SaturatingSucc` (and `Counted` for the `u8`).

Left out because no handler's behaviour depends on them: bumps, mints, ids, timestamps
and terms, names and other texts, the measured values of the registry, the performance
fee and the hurdle rate (stored, never read), events and logs. Pool tokens are minted and never
read or burned by the program, so `Pool` has no variable for them; project tokens are
burned by refunds, so `Project` has one.

Two variables are not in the code. They record history for the properties and no guard
reads them: `disbursed` (what the administrator took from each vault, less what came in
outside the program) and `inherited` (the scaled USDC top-ups made claimable out of
earlier distributions).

`Senders` (in `Project`) and `Donors` (in `Pool`) are the accounts from which USDC
reaches a vault by a plain transfer. In a component's own runs they are a few wallets; in the
composition the administrator is the one sender, and a component is shown to behave as its own
specification with *every* outside account among them.

`Exira` instantiates the components with what they leave open defined by the others:
`Baselined` (the entries whose flag `create_project` reads) replaces `baselined`, `Created`
replaces `created`. `IssueNext`, `FundNext` and `RegistryNext` are the instructions of each
component with the other components' accounts unchanged; `VaultsReceive` says that a
transfer into a pool finds the token account there.

`WebClient` has a slot per call of a user in flight. `Idle`: nothing; `Pending`: sent, the page
awaits `rpc()`; `Orphan`: sent, and the page has caught an error and forgotten it, while the
transaction may still land; `Landed`: executed, confirmation on its way. A fetch depends on the chain
alone, so a click and the answer to its fetch are one action (`Click`, `ClickCreate`), which
puts what was fetched into the call; everything that follows is another (`Land`, `Lose`,
`GiveUp`, `Report`, `MissConfirmation`). `Executes` runs the handler's action (`ExecutesCreate`,
`ExecutesBuy`, ...) under the account constraints that compare what the page put in (treasury, mint,
signer) with the chain. `Elsewhere` is any step of `Project` that another client sends beside the
page, such as the scripts or the token program's own tools.

An operator commented "Variant:" is the operator after it with one plausible mistake. No
specification uses them; each shows that a property notices its mistake.

## 3. Model-checking runs

Amounts range over all of `U64` in every run but `MCWebClient` (where users type 1), so
that nothing depends on chosen amounts: the guards bound them by balances and targets. The
bounds are the constants.

| Run | Instance | Checks |
|---|---|---|
| `MCProject` | 1 project, 2 investors, target 3, 50% fee, `MaxU64` 7, `Precision` 5, weakly fair claims | types, share accounting, rounding, width, frozen shares, growing entitlements, the inductive invariant, refinement of `RevenueShare` and of `EagerDividends`, `ClaimsGetPaid` |
| `MCProjectTokens` | 1 project, 2 investors of whom one is the administrator, and a holder that calls the token program | circulating supply, vault books, solvency |
| `MCTwoProjects` | 2 projects with targets 1 or 2 on one MRV entry, same wallets | no leak from one project's vault or shares into the other's; refinement of `RevenueShare` |
| `MCPool` | 1 pool, 3 holders, target 4, `Precision` 5, weakly fair claims | types, stakes, exact bound on inheritance, vault outflow, growth, refinement of `EagerDividends`, `StakesGetPaid` |
| `MCPoolVault` | 1 pool, 2 holders of whom one also donates, 2 projects, cap 1 | principal intact without top-ups, vault books, link cap |
| `MCMrv` | 2 retrofits, 2 auditors, `MaxU8` 2 (three indexes), weakly fair attestations | types, counter up to saturation, status, refinement of `SignedRecord`, `VerificationsGetAttested` |
| `MCExira` | 2 projects, 1 pool, 1 retrofit, a holder in both layers and one in the pool, an administrator who is also auditor and sender; target 1 each and 2 for the pool, 100% fee, `MaxU64` 3; the projects are symmetric | the chain from pool to baseline, the counters, `IsProjects`, `IsPools`, the worth of what a holder owns |
| `MCWebClient` | 1 project, 2 mints; the administrator with two creations in flight or one and another call, a holder with a purchase, claim or withdrawal and another claim or withdrawal | the page's knowledge at execution, `RetriedClaimsLand` |
| `MCProjectDocAdmin`, `MCProjectDocDust`, `MCPoolDocSum`, `MCPoolDocTopUp` | as above | statements of the documents that the code does not satisfy (section 6) |

**Why these bounds are enough.** The widths are small on purpose: with `MaxU64` from 2 to
9 the lifetime total `total_distributed` reaches its limit in a few repayments, so the
checked additions do fail in the explored states, and that guard is also what
makes the state space finite (money circulates from holder to vault to administrator without
bound, `total_distributed` only grows). `MaxU128` is derived from `MaxU64` as in the program:
the square of one more, less one. In the component runs `Precision` is 2 to 5 and never a multiple of all the
balances, so that increments and claims both round down, also to zero. A target of 3 or 4
over two or three holders has unequal shares and partial purchases. Two projects are
the smallest case in which one could pay from another's vault, and the two auditors and three
indexes are the smallest in which indexes are taken out of order, with gaps, by
different authors, past the counter's limit. The opening balances let a project be sold
out and repaid several times with what the administrator and holders recycle. `MCExira` has
two projects and a pool because the counters, the vaults and the link cap can each be confused between two
accounts of a kind or between the kinds; one holder's 2 USDC, with what it collects, buy into all of
them, and the other's buys the rest of the pool, so each is a bystander of the other; a fee of 100% lets the
administrator recycle a project's money into the pool or back. Nothing distinguishes the two projects, so
they are declared symmetric (the run checks invariants and step formulas only, for which that is
sound). With the second holder in the projects too the run would not end in minutes; for more
holders, and more of everything, there is `WorthNeverShrinksTheorem`. `MCPoolVault` has two holders so that a newcomer
buys between distributions and several claims are due at once. In `MCWebClient` two calls per user are the
least in which a retry overlaps with what it retries, and two mints the least in which two
creations differ; the network is asynchronous, so any delay is explored. The
safety properties, step properties and refinements of the components, of the composition and of the page
do not rest on these bounds: they are proved for all values (section 5). Liveness does.

`CHECK_DEADLOCK FALSE` is set in every run because the system really may stop: when all
projects are completed and claimed with nothing left in the vaults to withdraw, when a
lifetime total is at its limit and everything is claimed, when the indexes are used up.

**Fairness.** The runtime promises no order, and nobody is obliged to repay, buy or
activate: those actions have no fairness. `FairSpec` and `PoolFairSpec` assume only that a
holder whose claim stays possible resubmits it and is eventually included (weak fairness of each
`ClaimProjectReturns(p, i)`, `ClaimPoolReturns(q, i)`), and `MrvFairSpec` that auditors
come back to attest. Both are one signer repeating one transaction, which the code permits
at any time. The liveness properties are leads-to statements that the vault may also be emptied
by others, because the code permits that too.

`PageFairSpec` refines that assumption down to clicks and packets. Every call settles (weak
fairness of `Settle`: a transaction expires with its blockhash, and `rpc()` returns or
throws). A holder that can click "claim" again and again does (strong fairness of `ClickClaim`; the
slot is busy in between, so weak fairness would say nothing). The network may lose any transaction
but not all of them (strong fairness of `LandClaim`). A single click guarantees nothing.

## 4. Refinement

`RevenueShare` has no accumulator, no rounding, no widths and no money: shares are
subscribed while an issuer is open; sealing fixes them; deposits accumulate; a holder is
paid at most its share of what was deposited. `IsRevenueShare` maps positions to shares,
"absent or in Funding" to open, `total_distributed` to deposits and `total_claimed` to
payments. Runs `MCProject` and `MCTwoProjects` check that every project step is a step of it
or a stutter. A pool is not a revenue share: it stays open while it pays.

`EagerDividends` is the naive implementation that the accumulator replaces: a deposit
walks over all holders and credits each. Credits are in units of 1/`Precision` USDC; a payment
pays the whole units and forfeits the rest; when a holder's shares change its open credit changes
in proportion, so one with no shares starts with none. `IsEagerDividends` maps `OwedScaled`
(tokens times what the accumulator gained since the snapshot) to the credit. Runs `MCProject` and `MCPool`
show that the lazy computation is worth exactly the eager one for every holder after
every step, top-ups, refunds and newcomers included.

`SignedRecord` is a set of entries that only grows, each at a place of its own, by a signer
authorized before, the founding entry of a subject first, and attestations that only grow.
`IsSignedRecord` maps a baseline to the founding entry and verification `k` to place `k`.

`IsProjects` and `IsPools` are refinements too: `Exira` implements `Project` and `Pool`. In
the mapping the counter of the other component is hidden, and whatever reaches a vault from the other
side is a transfer from outside, of which the component's own specification has any number. So all
that is shown of a component alone holds in the whole program. The registry needs no such run:
nothing outside `RegistryNext` writes its accounts, and it reads no others but the platform's administrator
(`RegistryInvariant` in `ExiraProofs` is that argument).

## 5. Proofs

All proofs are checked by TLAPS with Z3, Zenon and LS4. They assume only the named
`ASSUME`s, for arbitrary values of the constants:

* `WidthAssumption`: `u128` holds the product of any two `u64`, and `PRECISION` is a positive `u64`;
* `LedgerAssumption`: finitely many accounts, vaults empty at first, and a USDC supply that
  fits in a `u64` (as any SPL mint's does);
* `PlatformAssumption`, `ProjectAssumption`, `PoolAssumption`, `MrvAssumption`, `WebClientAssumption`: which sets contain
  which; vaults are not wallets; and for the whole program `ExiraAssumption`: all of these, projects are
  not pools, and only wallets send USDC by themselves.

| Theorem | Module | States |
|---|---|---|
| `TypeCorrect` | `ProjectProofs` | `Spec => []TypeOK` |
| `AccountingInvariant` | `ProjectProofs` | `Spec => []Accounting`: the inductive invariant |
| `HeldIsSoldTheorem`, `SupplyWithinSoldTheorem`, `ActivatedSoldOutTheorem`, `VaultAccountedTheorem` | `ProjectProofs` | the books of a project: divisor and target, circulating supply, activation, vault |
| `WithinDistributionsTheorem` | `ProjectSafetyProofs` | all claims, made and possible, stay within what was distributed |
| `ProRataTheorem` | `ProjectSafetyProofs` | nobody gets more than its pro-rata part |
| `ArithmeticTheorem` | `ProjectSafetyProofs` | checked arithmetic never blocks a claim, nor a repayment whose total fits |
| `SolventTheorem` | `ProjectSafetyProofs` | the vault covers refunds, or all claims at once, while the administrator took at most the net proceeds |
| `SharesFrozenTheorem` | `ProjectStepProofs` | statuses never go back, shares never change after Funding |
| `EntitlementsGrowTheorem` | `ProjectStepProofs` | each repayment adds each holder's floor, no step takes from it |
| `IsRevenueShareTheorem`, `IsEagerDividendsTheorem` | `ProjectStepProofs` | projects implement `RevenueShare` and `EagerDividends` |
| `PoolTypeCorrect`, `StakesAreSoldTheorem`, `LinksCountedTheorem`, `PoolVaultAccountedTheorem` | `PoolProofs` | types and books of a pool |
| `OnlyTopUpsInheritTheorem` | `PoolProofs` | claims exceed distributions by no more than what top-ups inherited |
| `FairWithoutTopUpsTheorem` | `PoolProofs` | where nobody inherited, the vault covers the principal and all claims at once |
| `OnlyClaimsLeaveVaultTheorem`, `PoolEntitlementsGrowTheorem` | `PoolProofs` | what a step may never do to a vault, and to an entitlement |
| `IsEagerDividendsTheorem` | `PoolProofs` | pools implement `EagerDividends` |
| `MrvTypeCorrect`, `VerificationsCountedTheorem`, `RecordFollowsStatusTheorem` | `MrvProofs` | types, counter and status of the registry |
| `IsSignedRecordTheorem` | `MrvProofs` | the registry implements `SignedRecord` |
| `IsProjectsTheorem`, `IsPoolsTheorem` | `ExiraProofs` | the whole program implements `Project` and `Pool` |
| `ProjectsStaySolvent`, `PoolVaultsStayAccounted` | `ExiraProofs` | so `Solvent` and `PoolVaultAccounted` hold in it |
| `BackedByRecordTheorem` | `ExiraProofs` | a signed baseline stands behind every project and every pool link |
| `CountersCountTheorem` | `ExiraProofs` | the shared counters count projects and pools |
| `WorthNeverShrinksTheorem` | `ExiraProofs` | no step makes what a bystander has everywhere worth less |
| `PageKnowledgeTheorem` | `WebClientProofs` | what the page fetched is still right when its transaction lands, and the mint it shows is the project's |
| `PageIsProjectTheorem`, `PageStaysSolvent`, `PagePaysProRata` | `WebClientProofs` | the page over its network behaves as `Project`, so `Solvent` and `ProRata` hold through it |

**Projects.** None of the safety properties is inductive alone. `WithinDistributions`,
say, needs to know why the rounding cannot accumulate: the accumulator, multiplied by the tokens
it was divided by, is at most `Precision * total_distributed`, and each position's
`Precision * total_claimed` is at most `tokens_held * last_claimed_per_token`
(`AccumulatorBacked`). Both only survive because the divisor and the positions do
not move once the accumulator is positive. That holds because purchases and refunds require
Funding, in which the accumulator is still zero (`LifeCycle`), and because the divisor is the sum of the
positions (`HeldIsSold`). `Inv` conjoins these with `TypeOK`, split per project
(`SharesInv`, `VaultInv`, `SupplyInv`) so that a step on one project leaves the others by
one frame lemma (`OtherProject`). `StepInv` has one lemma per action; purchases and refunds
share `RaisingStep`. The safety theorems are arithmetic on `Inv`: `EntitlementBacked`
bounds one holder, the totals of `LedgerProofs` add the holders up. The step theorems reduce `Next` to a few shapes
(`StepShapes`, `StepKinds`) instead of repeating the case split.

**Pools.** The argument for projects fails: positions and the divisor move while the accumulator is
positive. What survives is the *sum* of scaled entitlements, `Precision * total_claimed` plus what
each position is owed unrounded: a distribution raises it by at most `Precision * amount`, because the
divisor is the sum of the positions; a claim does not raise it; a first purchase adds nothing,
because it takes the accumulator down; and a top-up adds exactly what `inherited` books
(`Backed`). To know which purchase is the first, the invariant has `Opening`: a position nobody opened
is empty, one somebody opened never is (there is no refund), and none is ahead of the
accumulator. `FairWithoutTopUps` then follows from `Backed` and `Vault` by rounding every holder down.

**Registry.** `RecordFollowsStatus` is not inductive: registering resets an entry's flag and counter,
which would discard a record of an entry not yet registered. `BlankUntilRegistered` says that there is
none. With the types and the two properties it is inductive.

**Refinements.** The maps of section 4 are proved action by action. For `RevenueShare`, the bound on a
payment is `ProRata` after the claim. For `EagerDividends`, a distribution credits
`tokens_held * DeltaPerToken`, which is what `OwedScaled` gains by distributing the product over
the sum, and a claim pays `OwedScaled \div Precision` and empties it; in a project a purchase or refund
changes shares while every credit is zero, in a pool a top-up scales the credit in proportion, which
needs `Opening`. For `SignedRecord`, entries are compared by place (`EntriesByPlace`):
different retrofits or indexes give different entries, so a submission adds one and leaves the rest.

**The whole program.** `ExiraProofs` instantiates the proofs of the components in the view each has of the
whole (`RegistryProofs`, `ProjectsProofs`, `PoolsProofs`) and discharges their assumptions from
`ExiraAssumption`. The registry comes first: no other instruction writes its accounts, and the shared
platform account keeps its type (`PlatformStep`). From it, `IsProjects`: each instruction of
a pool is a stutter or a transfer from outside to projects, and registering a retrofit lowers no flag, because of
`BlankUntilRegistered`. From both, `IsPools`: a project instruction that pays is a donation to pools if
anything, its amount a `u64` by the types of `Project`, its source never a pool's vault. Then
the invariants of all three components hold together (`WholeInvariant`), and every theorem about one
holds in the whole program; `ProjectsStaySolvent` and `PoolVaultsStayAccounted` draw two of them. `BackedByRecord` follows from `OnBaseline`
(a project refers to a retrofit with a baseline, for ever), from the registry's `RecordFollowsStatus` and
from the pools' `Linked`. `CountersCount` needs that nothing exists before the platform does
(`Counts`), since deploying it sets both counters to zero.

**A bystander's worth.** `WorthNeverShrinks` adds cash and holdings over all projects and pools, so it
is proved from what one step does to one holder. `FairTo(i)` (and `PoolFairTo(i)`) says that a step
touches at most one of `i`'s holdings and that its cash and this holding together do not shrink. The
components' proofs show it of each of their steps (`AdminFair`, `InvestorFair`, `PoolStepFair`): a purchase
or refund of a project moves cash one for one while nothing is owed (`LifeCycle`), a claim pays what it
takes off the debt, and a top-up of a pool never lowers the debt. `WorthStep` brings these into the whole program,
in each component's view of it, and `OneValue` turns one changed holding into the sum. The administrator
pays for distributions and senders give away, so they are excepted; everyone else is not, whether it acts or not.

**The page.** `PageKnowledgeHolds` needs, for a call in any phase, that what it fetched is still on the
chain when it executes. `PageInv` says so of every slot (`Sound`) and of every project (`Grounded`). It is
inductive because those facts last (`StepLasts`): a project, once there, stays; the treasury is written by
`initialize_platform` alone, which runs once; a mint is set when its project is created, which the
`init` constraint allows once, so of two overlapping creations only one lands, and only a landed one is
shown. A button sends what its handler takes, so each execution is a step of `Project` and
every other step of the page is none (`PageStepRefines`): what is proved of the project instructions holds however
calls are lost, late or repeated. In particular a claim that is clicked again after an error, while the first is still on
its way, pays nobody twice (`PagePaysProRata`); that it is paid at all is `RetriedClaimsLand`.

**Only model-checked.** Liveness: `ClaimsGetPaid`, `StakesGetPaid`, `VerificationsGetAttested` and
`RetriedClaimsLand`. It is beyond the prover: it would need `ENABLED` and leads-to chains over `\E`. Every
other property of a passing run is a theorem. The runs on statements of documents show
counterexamples, so there is nothing to prove.

## 6. Where documents and code differ

Each is a run whose one property states the document's claim and fails.

* `AdminCannotMoveFunds`: `docs/ARCHITECTURE.md` says the administrator cannot move vault
  funds; `withdraw_project_funds` takes any amount, in any status, to any USDC account.
  `Solvent` states what still holds, in terms of what was taken.
* `DustRaisesNextRate`: the same document says rounding dust raises the next round's rate;
  `distribute_repayment` divides the new amount only, so dust is never claimable.
* `ClaimsWithinDistributions`: `README.md` says the sum of claims stays within the distributions
  by construction; in a pool, a top-up inherits earlier distributions. `OnlyTopUpsInherit`
  states the exact bound, and for projects the claim is a theorem (`WithinDistributionsTheorem`).
* `TopUpIsNoLoss`: the document calls the inheritance a boost rather than a loss; it can
  make the claim larger than the vault, and a claim is paid whole or not at all.

## 7. Not modelled

* Of the page: connecting a wallet, airdrops and the two views, which send no instruction of the
  program; the registry's buttons, which fetch nothing and send what `Mrv` explores in
  any order; the wording of the log, but for the mint of a new project. Buttons have no amounts or
  nonces the chain could tell a retry by: a retried purchase or repayment that lands twice is two
  of them, and a late withdrawal refunds what the position then holds. Nothing in the
  repository promises otherwise.
* The scripts and migrations: straight-line orders of calls, among those explored. Tests
  were read as documentation; the interface description is generated.
* A vault's token account is made by `create_project` or `create_pool`, which fail if it is already
  there. The models let creations succeed whenever there is no such project or pool yet; a creation that
  never happens is among their behaviours, and no property says that one succeeds.
* The performance fee and the hurdle rate, bounded by `initialize_platform` and never read. The treasury
  is any account in the code; that it is a wallet rather than a vault (`Treasuries \subseteq Wallets`)
  is assumed of the deployment.
* Error codes: a failed transaction leaves no trace, whichever error it names.
* Delegation, freezing and closing of token accounts, and lamport balances and rent: nothing in
  the program depends on them beyond a transaction failing.
* `Cancelled`: no handler assigns it (`LifeCycle` says it is never reached); the refund
  guard that mentions it is modelled. Likewise the pool states after `Funding`.
* The MRV entry's existence in `Project` alone: a flag of an entry is raised by
  `BaselineSubmitted`, which stands for `submit_baseline`; likewise `ProjectCreated` in `Pool`.
  `Exira` has the real ones.

## 8. Plan

Done, in this order: the accumulator, the projects (first because all of the money logic is
in them), their proofs, the pools, the registry, the composition, the abstract specifications of
dividends and of the record, the page.

Then the proofs: projects, pools, the registry, the composition and the page, with the safety, step and
refinement properties of each.

Next: draw more of the components' theorems into `Exira` by name where a reader would look for them there
(`WithinDistributions`, `FairWithoutTopUps`, `VerificationsCounted`), in the way of `ProjectsStaySolvent`; and the
safety half of the liveness properties, that a claim that is possible stays so until it is paid or the
vault is emptied.
