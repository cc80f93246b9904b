------------------------------ MODULE WebClient ------------------------------
(***************************************************************************)
(* The web page that wallets use (app/app.js), over the project            *)
(* instructions and a network that loses and delays.                       *)
(*                                                                         *)
(* A click reads the page's inputs, awaits a fetch of the accounts it      *)
(* needs, builds a transaction from what it fetched and awaits rpc(), which*)
(* has it signed, sends it and waits for its confirmation.  The page keeps *)
(* no state of its own and disables no button while it waits, so clicks of *)
(* one user overlap: double clicks, and retries of a call the page already *)
(* reported as failed while its transaction is still on its way.           *)
(*                                                                         *)
(* A fetch depends on nothing but the chain, so a click is one action at   *)
(* the moment its fetch is answered; a fetch that fails changes nothing.   *)
(* The registry's buttons fetch nothing and touch no money; what they do   *)
(* is in Mrv.                                                              *)
(***************************************************************************)
EXTENDS Project

CONSTANTS
  Slots,      \* <<user, n>>: the user's n-th call in flight (a bound)
  Buttons,    \* what is clicked for each slot
  Amounts,    \* what they type into the amount fields
  Mints       \* key pairs for new token mints

AdminOps    == {"create", "activate", "distribute"}
InvestorOps == {"buy", "claim", "withdraw"}

ASSUME WebClientAssumption ==
  /\ \A s \in Slots :
       /\ s[1] \in Wallets /\ Buttons[s] \subseteq AdminOps \cup InvestorOps
       /\ Buttons[s] \cap InvestorOps # {} => s[1] \in Investors
  /\ Amounts \subseteq U64
  /\ NoKey \notin Mints

VARIABLES
  mint,       \* token_mint of every project
  call,       \* the call in every slot
  reported    \* the mint the page showed for every project it created

pageVars == <<vars, mint, call, reported>>

NoCall ==
  [phase |-> "Idle", op |-> "none", project |-> NoKey, mrv_project |-> NoKey,
   amount |-> 0, mint |-> NoKey, treasury |-> NoKey]

\* Sent and not yet executed; "Orphan" after the page gave up on it.
InFlight(s) == call[s].phase \in {"Pending", "Orphan"}

\* Keypair.generate() returns a key that nobody has seen.
Fresh(k) ==
  /\ \A p \in Projects : k \notin {mint[p], reported[p]}
  /\ \A s \in Slots : k # call[s].mint

PageInit ==
  /\ Init
  /\ mint = [p \in Projects |-> NoKey]
  /\ call = [s \in Slots |-> NoCall]
  /\ reported = [p \in Projects |-> NoKey]

(***************************************************************************)
(* The page                                                                *)
(***************************************************************************)
ClickCreate(s, p, m, k, target) ==
  /\ call[s].phase = "Idle"
  /\ "create" \in Buttons[s]
  /\ Fresh(k)
  /\ call' = [call EXCEPT ![s] =
       [phase |-> "Pending", op |-> "create", project |-> p, mrv_project |-> m,
        amount |-> target, mint |-> k, treasury |-> NoKey]]
  /\ UNCHANGED <<vars, mint, reported>>

\* The accounts of the transaction are those fetched now.  Activation
\* fetches the platform's account and then the project's; the treasury, which
\* is all it takes from the first, never changes, so the second fetch decides.
Click(s, op, p, amount) ==
  /\ call[s].phase = "Idle"
  /\ op \in Buttons[s] \ {"create"}
  /\ Exists(p)
  /\ call' = [call EXCEPT ![s] =
       [phase |-> "Pending", op |-> op, project |-> p, mrv_project |-> NoKey,
        amount |-> amount, mint |-> mint[p],
        treasury |-> IF op = "activate" THEN platform.treasury ELSE NoKey]]
  /\ UNCHANGED <<vars, mint, reported>>

\* Variant: after an error the page is busy for good.
GiveUpForGood(s) ==
  /\ call[s].phase = "Pending"
  /\ call' = [call EXCEPT ![s].phase = "Stuck"]
  /\ UNCHANGED <<vars, mint, reported>>

\* rpc() throws without knowing: the page logs an error and forgets the call.
GiveUp(s) ==
  /\ call[s].phase = "Pending"
  /\ call' = [call EXCEPT ![s].phase = "Orphan"]
  /\ UNCHANGED <<vars, mint, reported>>

\* rpc() returns and the page logs the success, with the new mint if it
\* created one.
Report(s) ==
  /\ call[s].phase = "Landed"
  /\ reported' = IF call[s].op = "create"
                 THEN [reported EXCEPT ![call[s].project] = call[s].mint]
                 ELSE reported
  /\ call' = [call EXCEPT ![s] = NoCall]
  /\ UNCHANGED <<vars, mint>>

\* The transaction was executed, but its confirmation does not arrive.
MissConfirmation(s) ==
  /\ call[s].phase = "Landed"
  /\ call' = [call EXCEPT ![s] = NoCall]
  /\ UNCHANGED <<vars, mint, reported>>

(***************************************************************************)
(* The network and the chain                                               *)
(***************************************************************************)
\* The handler of a call, run by the signer with the accounts the page put
\* in.  A creation makes the mint that was signed for the project's.
ExecutesCreate(s) ==
  /\ call[s].op = "create"
  /\ s[1] = platform.admin
  /\ CreateProject(call[s].project, call[s].mrv_project, call[s].amount)
  /\ mint' = [mint EXCEPT ![call[s].project] = call[s].mint]

\* The treasury that was fetched must be the platform's.
ExecutesActivate(s) ==
  /\ call[s].op = "activate"
  /\ s[1] = platform.admin
  /\ call[s].treasury = platform.treasury
  /\ ActivateProject(call[s].project)

ExecutesDistribute(s) ==
  /\ call[s].op = "distribute"
  /\ s[1] = platform.admin
  /\ DistributeRepayment(call[s].project, call[s].amount)

\* What mints or burns must name the project's mint.
ExecutesBuy(s) ==
  /\ call[s].op = "buy"
  /\ call[s].mint = mint[call[s].project]
  /\ BuyProjectTokens(call[s].project, s[1], call[s].amount)

ExecutesWithdraw(s) ==
  /\ call[s].op = "withdraw"
  /\ call[s].mint = mint[call[s].project]
  /\ WithdrawInvestment(call[s].project, s[1])

ExecutesClaim(s) ==
  /\ call[s].op = "claim"
  /\ ClaimProjectReturns(call[s].project, s[1])

Executes(s) ==
  \/ ExecutesCreate(s)
  \/ /\ \/ ExecutesActivate(s) \/ ExecutesDistribute(s) \/ ExecutesBuy(s)
        \/ ExecutesWithdraw(s) \/ ExecutesClaim(s)
     /\ UNCHANGED mint

\* A transaction executes once, at any time before it expires.
Land(s) ==
  /\ InFlight(s)
  /\ Executes(s)
  /\ call' = [call EXCEPT ![s] =
       IF @.phase = "Pending" THEN [@ EXCEPT !.phase = "Landed"] ELSE NoCall]
  /\ UNCHANGED reported

\* Refused by the wallet or by a handler, lost, or expired: no trace but an
\* error on the page.
Lose(s) ==
  /\ InFlight(s)
  /\ call' = [call EXCEPT ![s] = NoCall]
  /\ UNCHANGED <<vars, mint, reported>>

\* Any instruction that another client sends (a script, the token program's
\* own tools), with or without a button on the page.  A project it creates
\* has a new mint of its own.
Elsewhere ==
  /\ Next
  /\ \/ /\ \A p \in Projects : Exists(p)' <=> Exists(p)
        /\ UNCHANGED mint
     \/ \E p \in Projects, k \in Mints :
          /\ ~Exists(p) /\ Exists(p)'
          /\ Fresh(k)
          /\ mint' = [mint EXCEPT ![p] = k]
  /\ UNCHANGED <<call, reported>>

(***************************************************************************)
(* The specification                                                       *)
(***************************************************************************)
ClickSome(s) ==
  \E p \in Projects :
    \/ \E m \in MrvProjects, k \in Mints, target \in Targets :
         ClickCreate(s, p, m, k, target)
    \/ \E op \in {"activate", "claim", "withdraw"} : Click(s, op, p, 0)
    \/ \E op \in {"distribute", "buy"}, amount \in Amounts : Click(s, op, p, amount)

Settle(s) == Report(s) \/ MissConfirmation(s) \/ Lose(s) \/ GiveUp(s)

PageNext ==
  \/ \E s \in Slots : ClickSome(s) \/ Land(s) \/ Settle(s)
  \/ Elsewhere

PageSpec == PageInit /\ [][PageNext]_pageVars

\* A holder that keeps asking for its claim.
ClickClaim(i, p) == \E s \in Slots : s[1] = i /\ Click(s, "claim", p, 0)

LandClaim(i, p) ==
  \E s \in Slots :
    /\ s[1] = i
    /\ call[s].op = "claim" /\ call[s].project = p
    /\ Land(s)

\* Calls settle one way or another; a holder that could click claim again
\* and again does; and the network, that may lose any of the transactions,
\* does not lose all of them.
PageFairSpec ==
  /\ PageSpec
  /\ \A s \in Slots : WF_pageVars(Settle(s))
  /\ \A i \in Investors, p \in Projects :
       SF_pageVars(ClickClaim(i, p)) /\ SF_pageVars(LandClaim(i, p))
=============================================================================
