------------------------------ MODULE Project ------------------------------
(***************************************************************************)
(* The project instructions: an MSME retrofit is funded by the sale of     *)
(* tokens at one USDC each, activated when it is sold out, repaid through  *)
(* the accumulator, and closed.                                            *)
(*                                                                         *)
(* A Solana transaction is atomic: a handler that returns an error after   *)
(* some of its writes leaves no trace.  Every handler is therefore one     *)
(* action, all its checks are guards, and transactions of different        *)
(* signers interleave in any order.  Holders also use the token program    *)
(* without this program knowing (the Send and Burn actions below).         *)
(***************************************************************************)
EXTENDS Ledger

CONSTANTS
  Projects,     \* project ids; a project stands for its USDC vault too
  MrvProjects,  \* the MRV registry's entries
  Investors,    \* the wallets that buy project tokens
  SplUsers,     \* the wallets that also send and burn project tokens themselves
  Senders,      \* the accounts that send USDC outside these instructions
  Targets       \* the target amounts the administrator asks for

ASSUME ProjectAssumption ==
  /\ Projects \subseteq Accounts
  /\ Projects \cap Wallets = {}
  /\ NoKey \notin MrvProjects
  /\ Investors \subseteq Wallets
  /\ SplUsers \subseteq Wallets
  /\ Senders \subseteq Accounts \ Projects
  /\ Targets \subseteq U64

VARIABLES
  project,    \* the Project accounts
  position,   \* the InvestorPosition of every investor in every project
  tokens,     \* SPL balances of each project's token mint
  baselined,  \* the MRV entries whose baseline_submitted is set
  disbursed   \* what the administrator took from each vault, less what was
              \* sent to it outside the program (not in the code: a ledger
              \* for the properties only)

vars == <<usdc, platform, project, position, tokens, baselined, disbursed>>

Statuses == {"Funding", "Active", "Repaying", "Completed", "Cancelled"}

\* No account at the project's address yet.
NoProject ==
  [status |-> "Absent", mrv_project |-> NoKey, target_amount |-> 0,
   tokens_sold |-> 0, total_distributed |-> 0,
   cumulative_usdc_per_token |-> 0, origination_fee_collected |-> 0]

NewProject(m, target) ==
  [status |-> "Funding", mrv_project |-> m, target_amount |-> target,
   tokens_sold |-> 0, total_distributed |-> 0,
   cumulative_usdc_per_token |-> 0, origination_fee_collected |-> 0]

ProjectType ==
  [status : Statuses \cup {"Absent"}, mrv_project : MrvProjects \cup {NoKey},
   target_amount : U64, tokens_sold : U64, total_distributed : U64,
   cumulative_usdc_per_token : U128, origination_fee_collected : U64]

Exists(p) == project[p].status # "Absent"

\* A USDC account that is there to receive a transfer.  A vault's comes with
\* its project: USDC sent to one that somebody else made beforehand is in the
\* vault of no project, since that creation then fails.
Receives(a) == a \in Projects => Exists(a)

\* The administrator's ledger after USDC moved between from and to outside
\* the purchase, repayment, fee, claim and refund flows.
Moved(from, to, amount) ==
  [q \in Projects |-> disbursed[q] + (IF q = from THEN amount ELSE 0)
                                   - (IF q = to THEN amount ELSE 0)]

Init ==
  /\ usdc = InitialUsdc
  /\ platform = NoPlatform
  /\ project = [p \in Projects |-> NoProject]
  /\ position = [p \in Projects |-> [i \in Wallets |-> NoPosition]]
  /\ tokens = [p \in Projects |-> [i \in Wallets |-> 0]]
  /\ baselined = {}
  /\ disbursed = [p \in Projects |-> 0]

(***************************************************************************)
(* Administration                                                          *)
(***************************************************************************)
Deploy(admin, treasury, bps) ==
  /\ InitializePlatform(admin, treasury, bps)
  /\ UNCHANGED <<usdc, project, position, tokens, baselined, disbursed>>

\* An auditor's submit_baseline, of which projects only see the flag.
BaselineSubmitted(m) ==
  /\ m \notin baselined
  /\ baselined' = baselined \cup {m}
  /\ UNCHANGED <<usdc, platform, project, position, tokens, disbursed>>

\* Variant: an existing project is created over.
CreateProjectAgain(p, m, target) ==
  /\ Initialized
  /\ m \in baselined
  /\ target > 0
  /\ project' = [project EXCEPT ![p] = NewProject(m, target)]
  /\ platform' = [platform EXCEPT !.project_count = SaturatingSucc(@)]
  /\ UNCHANGED <<usdc, position, tokens, baselined, disbursed>>

\* Variant: a retrofit without a baseline raises money.
CreateProjectUnverified(p, m, target) ==
  /\ Initialized
  /\ ~Exists(p)
  /\ target > 0
  /\ project' = [project EXCEPT ![p] = NewProject(m, target)]
  /\ platform' = [platform EXCEPT !.project_count = SaturatingSucc(@)]
  /\ UNCHANGED <<usdc, position, tokens, baselined, disbursed>>

\* Any MRV entry with a baseline will do, one that other projects refer to
\* included.  The term, refused outside 6 to 60 months, is read nowhere else
\* and left out.  The code creates the vault's token account here and fails
\* if it is already there; creation may always succeed in the model, which
\* has the behaviours in which it never does among its own.
CreateProject(p, m, target) ==
  /\ Initialized
  /\ m \in baselined
  /\ ~Exists(p)
  /\ target > 0
  /\ project' = [project EXCEPT ![p] = NewProject(m, target)]
  /\ platform' = [platform EXCEPT !.project_count = SaturatingSucc(@)]
  /\ UNCHANGED <<usdc, position, tokens, baselined, disbursed>>

\* Variant: the first sale is enough.
StartedToSell(p) == project[p].tokens_sold > 0

FullySold(p) == project[p].tokens_sold = project[p].target_amount

\* The fee leaves the vault in the same transaction; a vault that cannot
\* pay it keeps the project in Funding.
ActivateProject(p) ==
  LET fee == OriginationFee(project[p].target_amount) IN
  /\ Initialized
  /\ project[p].status = "Funding"
  /\ FullySold(p)
  /\ \/ fee > 0 /\ Transfer(p, platform.treasury, fee)
     \/ fee = 0 /\ UNCHANGED usdc
  /\ project' = [project EXCEPT ![p] =
       [@ EXCEPT !.status = "Active", !.origination_fee_collected = fee]]
  /\ UNCHANGED <<platform, position, tokens, baselined, disbursed>>

\* Variant: any project can be repaid.
RepayableAnytime(p) == Exists(p)

Repayable(p) == project[p].status \in {"Active", "Repaying"}

DistributeRepayment(p, amount) ==
  /\ Initialized
  /\ amount > 0
  /\ Repayable(p)
  /\ project[p].tokens_sold > 0
  /\ Transfer(platform.admin, p, amount)
  /\ DistributionFits(project[p], amount)
  /\ project' = [project EXCEPT ![p] =
       [AfterDistribution(@, amount) EXCEPT !.status = "Repaying"]]
  /\ UNCHANGED <<platform, position, tokens, baselined, disbursed>>

CloseProject(p) ==
  /\ Initialized
  /\ Repayable(p)
  /\ project' = [project EXCEPT ![p].status = "Completed"]
  /\ UNCHANGED <<usdc, platform, position, tokens, baselined, disbursed>>

\* Variant: the vault of the withdrawal is not tied to the project.
WithdrawFromAnyVault(p, destination, amount) ==
  /\ Initialized
  /\ Exists(p)
  /\ amount > 0
  /\ Receives(destination)
  /\ \E from \in Accounts \ Wallets :
       /\ Transfer(from, destination, amount)
       /\ disbursed' = Moved(from, destination, amount)
  /\ UNCHANGED <<platform, project, position, tokens, baselined>>

\* In any status, to any USDC account.
WithdrawProjectFunds(p, destination, amount) ==
  /\ Initialized
  /\ Exists(p)
  /\ amount > 0
  /\ Receives(destination)
  /\ Transfer(p, destination, amount)
  /\ disbursed' = Moved(p, destination, amount)
  /\ UNCHANGED <<platform, project, position, tokens, baselined>>

(***************************************************************************)
(* Investors                                                               *)
(***************************************************************************)
\* Variant: the vault of the purchase is not tied to the project.
BuyIntoAnyVault(p, i, amount) ==
  /\ amount > 0
  /\ project[p].status = "Funding"
  /\ amount <= project[p].target_amount - project[p].tokens_sold
  /\ \E q \in Projects : Transfer(i, q, amount)
  /\ tokens' = [tokens EXCEPT ![p][i] = @ + amount]
  /\ position' = [position EXCEPT ![p][i] =
       AfterBuy(@, i, project[p].cumulative_usdc_per_token, amount)]
  /\ project' = [project EXCEPT ![p].tokens_sold = @ + amount]
  /\ UNCHANGED <<platform, baselined, disbursed>>

BuyProjectTokens(p, i, amount) ==
  /\ amount > 0
  /\ project[p].status = "Funding"
  /\ project[p].tokens_sold <= project[p].target_amount
  /\ amount <= project[p].target_amount - project[p].tokens_sold
  /\ Transfer(i, p, amount)
  /\ tokens' = [tokens EXCEPT ![p][i] = @ + amount]
  /\ position[p][i].tokens_held + amount \in U64
  /\ position' = [position EXCEPT ![p][i] =
       AfterBuy(@, i, project[p].cumulative_usdc_per_token, amount)]
  /\ project[p].tokens_sold + amount \in U64
  /\ project' = [project EXCEPT ![p].tokens_sold = @ + amount]
  /\ UNCHANGED <<platform, baselined, disbursed>>

\* Variant: refunds in any status.
RefundableAnytime(p) == Exists(p)

Refundable(p) == project[p].status \in {"Funding", "Cancelled"}

\* Variant: a refund leaves the tokens in circulation.
NotBurned(p, i, amount) == tokens

Burned(p, i, amount) == [tokens EXCEPT ![p][i] = @ - amount]

\* The tokens are burned from the investor's account, so one who sent them
\* away cannot withdraw.  The position stays open with no tokens.
WithdrawInvestment(p, i) ==
  LET amount == position[p][i].tokens_held IN
  /\ position[p][i].owner = i
  /\ Refundable(p)
  /\ amount > 0
  /\ amount <= tokens[p][i]
  /\ tokens' = Burned(p, i, amount)
  /\ Transfer(p, i, amount)
  /\ position' = [position EXCEPT ![p][i].tokens_held = 0]
  /\ amount <= project[p].tokens_sold
  /\ project' = [project EXCEPT ![p].tokens_sold = @ - amount]
  /\ UNCHANGED <<platform, baselined, disbursed>>

\* What investor i could claim from project p now.
Due(p, i) == Owed(position[p][i], project[p].cumulative_usdc_per_token)

\* Variant: only a project in repayment pays.
ClaimWhileRepaying(p, i) ==
  LET cumulative == project[p].cumulative_usdc_per_token IN
  /\ position[p][i].owner = i
  /\ project[p].status = "Repaying"
  /\ Due(p, i) > 0
  /\ Transfer(p, i, Due(p, i))
  /\ position' = [position EXCEPT ![p][i] = AfterClaim(@, cumulative)]
  /\ UNCHANGED <<platform, project, tokens, baselined, disbursed>>

\* Variant: the vault of the claim is not tied to the project.
ClaimFromAnyVault(p, i) ==
  LET cumulative == project[p].cumulative_usdc_per_token IN
  /\ position[p][i].owner = i
  /\ Due(p, i) > 0
  /\ \E q \in Projects : Transfer(q, i, Due(p, i))
  /\ position' = [position EXCEPT ![p][i] = AfterClaim(@, cumulative)]
  /\ UNCHANGED <<platform, project, tokens, baselined, disbursed>>

\* No status is checked: a closed project still pays.
ClaimProjectReturns(p, i) ==
  LET cumulative == project[p].cumulative_usdc_per_token IN
  /\ position[p][i].owner = i
  /\ ClaimFits(position[p][i], cumulative)
  /\ Due(p, i) > 0
  /\ usdc[p] >= Due(p, i)
  /\ Transfer(p, i, Due(p, i))
  /\ position' = [position EXCEPT ![p][i] = AfterClaim(@, cumulative)]
  /\ UNCHANGED <<platform, project, tokens, baselined, disbursed>>

(***************************************************************************)
(* The token program, called directly by holders                           *)
(***************************************************************************)
SendTokens(p, from, to, amount) ==
  /\ from # to
  /\ amount > 0
  /\ amount <= tokens[p][from]
  /\ tokens' = [tokens EXCEPT ![p][from] = @ - amount, ![p][to] = @ + amount]
  /\ UNCHANGED <<usdc, platform, project, position, baselined, disbursed>>

BurnTokens(p, from, amount) ==
  /\ amount > 0
  /\ amount <= tokens[p][from]
  /\ tokens' = Burned(p, from, amount)
  /\ UNCHANGED <<usdc, platform, project, position, baselined, disbursed>>

SendUsdc(from, to, amount) ==
  /\ amount > 0
  /\ Receives(to)
  /\ Transfer(from, to, amount)
  /\ disbursed' = Moved(from, to, amount)
  /\ UNCHANGED <<platform, project, position, tokens, baselined>>

(***************************************************************************)
(* The specification                                                       *)
(***************************************************************************)
AdminNext ==
  \/ \E a \in Deployers, t \in Treasuries, bps \in FeeChoices : Deploy(a, t, bps)
  \/ \E p \in Projects :
       \/ \E m \in MrvProjects, target \in Targets : CreateProject(p, m, target)
       \/ ActivateProject(p)
       \/ \E amount \in U64 : DistributeRepayment(p, amount)
       \/ CloseProject(p)
       \/ \E a \in Accounts, amount \in U64 : WithdrawProjectFunds(p, a, amount)

InvestorNext ==
  \E p \in Projects, i \in Investors :
    \/ \E amount \in U64 : BuyProjectTokens(p, i, amount)
    \/ WithdrawInvestment(p, i)
    \/ ClaimProjectReturns(p, i)

HolderNext ==
  \/ \E p \in Projects, from \in SplUsers, amount \in U64 :
       \/ \E to \in Wallets : SendTokens(p, from, to, amount)
       \/ BurnTokens(p, from, amount)
  \/ \E from \in Senders, to \in Accounts, amount \in U64 :
       SendUsdc(from, to, amount)

ExternalNext == HolderNext \/ \E m \in MrvProjects : BaselineSubmitted(m)

Next == AdminNext \/ InvestorNext \/ ExternalNext

Spec == Init /\ [][Next]_vars
=============================================================================
