---------------------------- MODULE WebClientProofs ----------------------------
(***************************************************************************)
(* Proofs about the web client: whatever the page and the network do, the  *)
(* project instructions behave as Project says, and what the page fetched  *)
(* before an await still holds when its transaction executes.              *)
(***************************************************************************)
EXTENDS WebClientProperties, ProjectSafetyProofs

USE DEF U64, U128

(***************************************************************************)
(* What never changes once it is there                                     *)
(***************************************************************************)
\* A project stays, the platform keeps its treasury, and a project only
\* comes to be on a platform that is there.
Lasts ==
  /\ \A p \in Projects : /\ Exists(p) => Exists(p)'
                         /\ Exists(p)' => Exists(p) \/ Initialized
  /\ Initialized => Initialized' /\ platform'.treasury = platform.treasury

LEMMA StepLasts ==
  ASSUME TypeOK, [Next]_vars
  PROVE  Lasts
<1>1. /\ project \in [Projects -> ProjectType]
      /\ platform \in PlatformType
      /\ Initialized => platform \in [admin : Wallets, treasury : Wallets,
                                      origination_fee_bps : 0 .. MAX_FEE_BPS,
                                      project_count : U64, pool_count : U64]
  BY DEF TypeOK, PlatformType, NoPlatform, Initialized
<1>2. ASSUME NEW a \in Deployers, NEW t \in Treasuries, NEW bps \in FeeChoices,
             Deploy(a, t, bps)
      PROVE  Lasts
  BY <1>2 DEF Deploy, InitializePlatform, Lasts, Exists
<1>3. ASSUME NEW q \in Projects, NEW m \in MrvProjects, NEW target \in Targets,
             CreateProject(q, m, target)
      PROVE  Lasts
  <2>1. \A p \in Projects : p # q => project'[p] = project[p]
    BY <1>1, <1>3 DEF CreateProject
  <2>2. project'[q].status = "Funding" /\ Initialized
    BY <1>1, <1>3 DEF CreateProject, NewProject
  <2>3. Initialized' /\ platform'.treasury = platform.treasury
    BY <1>1, <1>3, <2>2 DEF CreateProject, Initialized
  <2> QED BY <2>1, <2>2, <2>3 DEF Lasts, Exists
<1>4. ASSUME UNCHANGED platform,
             \A p \in Projects : Exists(p)' <=> Exists(p)
      PROVE  Lasts
  BY <1>4 DEF Lasts, Initialized
<1>5. ASSUME NEW q \in Projects, ActivateProject(q)
      PROVE  UNCHANGED platform /\ \A p \in Projects : Exists(p)' <=> Exists(p)
  BY <1>1, <1>5 DEF ActivateProject, Exists, ProjectType
<1>6. ASSUME NEW q \in Projects, NEW amount \in U64, DistributeRepayment(q, amount)
      PROVE  UNCHANGED platform /\ \A p \in Projects : Exists(p)' <=> Exists(p)
  <2>1. AfterDistribution(project[q], amount).status = project[q].status
        /\ "status" \in DOMAIN AfterDistribution(project[q], amount)
    BY <1>1 DEF AfterDistribution, ProjectType
  <2>2. project'[q].status = "Repaying" /\ project[q].status # "Absent"
    BY <1>1, <1>6, <2>1 DEF DistributeRepayment, Repayable
  <2>3. \A p \in Projects : p # q => project'[p] = project[p]
    BY <1>1, <1>6 DEF DistributeRepayment
  <2> QED BY <1>6, <2>2, <2>3 DEF DistributeRepayment, Exists
<1>7. ASSUME NEW q \in Projects, CloseProject(q)
      PROVE  UNCHANGED platform /\ \A p \in Projects : Exists(p)' <=> Exists(p)
  BY <1>1, <1>7 DEF CloseProject, Repayable, Exists, ProjectType
<1>8. ASSUME NEW q \in Projects, NEW i \in Investors, NEW amount \in U64,
             BuyProjectTokens(q, i, amount)
      PROVE  UNCHANGED platform /\ \A p \in Projects : Exists(p)' <=> Exists(p)
  BY <1>1, <1>8 DEF BuyProjectTokens, Exists, ProjectType
<1>9. ASSUME NEW q \in Projects, NEW i \in Investors, WithdrawInvestment(q, i)
      PROVE  UNCHANGED platform /\ \A p \in Projects : Exists(p)' <=> Exists(p)
  BY <1>1, <1>9 DEF WithdrawInvestment, Exists, ProjectType
<1>10. ASSUME UNCHANGED <<platform, project>>
       PROVE  UNCHANGED platform /\ \A p \in Projects : Exists(p)' <=> Exists(p)
  BY <1>10 DEF Exists
<1>11. CASE AdminNext
  <2>1. ASSUME NEW q \in Projects, NEW a \in Accounts, NEW amount \in U64,
               WithdrawProjectFunds(q, a, amount)
        PROVE  UNCHANGED <<platform, project>>
    BY <2>1 DEF WithdrawProjectFunds
  <2> QED BY <1>2, <1>3, <1>4, <1>5, <1>6, <1>7, <1>10, <1>11, <2>1 DEF AdminNext
<1>12. CASE InvestorNext
  <2>1. ASSUME NEW q \in Projects, NEW i \in Investors, ClaimProjectReturns(q, i)
        PROVE  UNCHANGED <<platform, project>>
    BY <2>1 DEF ClaimProjectReturns
  <2> QED BY <1>4, <1>8, <1>9, <1>10, <1>12, <2>1 DEF InvestorNext
<1>13. CASE ExternalNext
  BY <1>4, <1>10, <1>13
     DEF ExternalNext, HolderNext, SendTokens, BurnTokens, SendUsdc, BaselineSubmitted
<1>14. CASE UNCHANGED vars
  BY <1>4, <1>10, <1>14 DEF vars
<1> QED BY <1>11, <1>12, <1>13, <1>14 DEF Next

(***************************************************************************)
(* The inductive invariant                                                 *)
(***************************************************************************)
CallType ==
  [phase : {"Idle", "Pending", "Landed", "Orphan"},
   op : AdminOps \cup InvestorOps \cup {"none"},
   project : Projects \cup {NoKey}, mrv_project : MrvProjects \cup {NoKey},
   amount : U64, mint : Mints \cup {NoKey}, treasury : Wallets \cup {NoKey}]

PageType ==
  /\ mint \in [Projects -> Mints \cup {NoKey}]
  /\ call \in [Slots -> CallType]
  /\ reported \in [Projects -> Mints \cup {NoKey}]

\* A call carries what its button sends, and what it fetched is what is on
\* the chain; the mint of a creation is so once it has landed.
Sound(s) ==
  LET c == call[s]
      p == c.project
  IN
  /\ p \in Projects
  /\ c.op \in Buttons[s]
  /\ c.op = "create" =>
       /\ c.mrv_project \in MrvProjects /\ c.amount \in Targets
       /\ c.phase = "Landed" => Exists(p) /\ c.mint = mint[p]
  /\ c.op # "create" =>
       /\ Exists(p) /\ c.mint = mint[p]
       /\ c.op = "activate" => c.treasury = platform.treasury

\* A project is on a platform, and the page shows the mint of none before it
\* is there.
Grounded(p) ==
  /\ Exists(p) => Initialized
  /\ reported[p] \in {NoKey, mint[p]}
  /\ ~Exists(p) => reported[p] = NoKey

PageInv ==
  /\ TypeOK
  /\ PageType
  /\ \A s \in Slots : call[s].phase # "Idle" => Sound(s)
  /\ \A p \in Projects : Grounded(p)


LEMMA InitPage == PageInit => PageInv
<1> SUFFICES ASSUME PageInit PROVE PageInv
  OBVIOUS
<1>1. TypeOK
  BY InitType DEF PageInit
<1>2. PageType
  BY WidthAssumption DEF PageInit, PageType, CallType, NoCall
<1>3. \A p \in Projects : Grounded(p)
  BY DEF PageInit, Init, NoProject, Exists, Grounded
<1> QED BY <1>1, <1>2, <1>3 DEF PageInit, NoCall, PageInv

(***************************************************************************)
(* Every step of the page and the network is one of Project, or none       *)
(***************************************************************************)
\* A transaction executes a handler under arguments the handler may get.
LEMMA ExecutesSteps ==
  ASSUME PageInv, NEW s \in Slots, InFlight(s), Executes(s)
  PROVE  Next
<1> DEFINE c == call[s]
           p == c.project
<1>1. Sound(s) /\ c \in CallType
  BY DEF PageInv, InFlight, PageType
<1>2. p \in Projects /\ c.amount \in U64 /\ c.op \in Buttons[s]
  BY <1>1 DEF Sound, CallType
<1>3. CASE c.op = "create" /\ CreateProject(p, c.mrv_project, c.amount)
  <2>1. c.mrv_project \in MrvProjects /\ c.amount \in Targets
    BY <1>1, <1>3 DEF Sound
  <2> QED BY <1>2, <1>3, <2>1 DEF Next, AdminNext
<1>4. CASE ActivateProject(p) \/ DistributeRepayment(p, c.amount)
  BY <1>2, <1>4 DEF Next, AdminNext
<1>5. CASE /\ c.op \in InvestorOps
           /\ \/ BuyProjectTokens(p, s[1], c.amount)
              \/ WithdrawInvestment(p, s[1])
              \/ ClaimProjectReturns(p, s[1])
  <2>1. s[1] \in Investors
    BY <1>2, <1>5, WebClientAssumption
  <2> QED BY <1>2, <1>5, <2>1 DEF Next, InvestorNext
<1> QED
  BY <1>3, <1>4, <1>5
     DEF Executes, ExecutesCreate, ExecutesActivate, ExecutesDistribute, ExecutesBuy,
         ExecutesWithdraw, ExecutesClaim, InvestorOps

LEMMA PageStepRefines ==
  ASSUME PageInv, [PageNext]_pageVars
  PROVE  [Next]_vars
<1>1. ASSUME NEW s \in Slots, ClickSome(s) \/ Settle(s)
      PROVE  UNCHANGED vars
  BY <1>1 DEF ClickSome, ClickCreate, Click, Settle, Report, MissConfirmation,
              Lose, GiveUp
<1>2. ASSUME NEW s \in Slots, Land(s)
      PROVE  Next
  BY <1>2, ExecutesSteps DEF Land
<1>3. CASE Elsewhere
  BY <1>3 DEF Elsewhere
<1>4. CASE UNCHANGED pageVars
  BY <1>4 DEF pageVars
<1> QED BY <1>1, <1>2, <1>3, <1>4 DEF PageNext

(***************************************************************************)
(* The invariant is inductive                                              *)
(***************************************************************************)
MintsKept == \A p \in Projects : Exists(p) => mint'[p] = mint[p]

LEMMA StepMints ==
  ASSUME PageInv, [PageNext]_pageVars
  PROVE  MintsKept
<1>1. ASSUME NEW s \in Slots, Land(s)
      PROVE  MintsKept
  <2>1. CASE UNCHANGED mint
    BY <2>1 DEF MintsKept
  <2>2. CASE /\ CreateProject(call[s].project, call[s].mrv_project, call[s].amount)
             /\ mint' = [mint EXCEPT ![call[s].project] = call[s].mint]
    <3>1. mint \in [Projects -> Mints \cup {NoKey}]
      BY DEF PageInv, PageType
    <3> QED BY <2>2, <3>1 DEF CreateProject, MintsKept
  <2> QED BY <1>1, <2>1, <2>2 DEF Land, Executes, ExecutesCreate
<1>2. ASSUME NEW s \in Slots, ClickSome(s) \/ Settle(s)
      PROVE  MintsKept
  BY <1>2 DEF ClickSome, ClickCreate, Click, Settle, Report, MissConfirmation,
              Lose, GiveUp, MintsKept
<1>3. CASE Elsewhere
  <2>1. mint \in [Projects -> Mints \cup {NoKey}]
    BY DEF PageInv, PageType
  <2> QED BY <1>3, <2>1 DEF Elsewhere, MintsKept
<1> QED BY <1>1, <1>2, <1>3 DEF PageNext, pageVars, MintsKept

\* What a click puts into its slot, the fields all named.
Clicked(op, p, amount) ==
  [phase |-> "Pending", op |-> op, project |-> p, mrv_project |-> NoKey,
   amount |-> amount, mint |-> mint[p],
   treasury |-> IF op = "activate" THEN platform.treasury ELSE NoKey]

LEMMA StepPageType ==
  ASSUME PageInv, [PageNext]_pageVars
  PROVE  PageType'
<1>1. PageType
  BY DEF PageInv
<1>2. NoCall \in CallType
  BY WidthAssumption DEF NoCall, CallType
<1>3. ASSUME NEW s \in Slots, NEW p \in Projects, NEW m \in MrvProjects,
             NEW k \in Mints, NEW target \in Targets, ClickCreate(s, p, m, k, target)
      PROVE  PageType'
  BY <1>1, <1>3, ProjectAssumption DEF ClickCreate, PageType, CallType, AdminOps
<1>4. ASSUME NEW s \in Slots, NEW op \in AdminOps \cup InvestorOps,
             NEW p \in Projects, NEW amount \in U64, Click(s, op, p, amount)
      PROVE  PageType'
  <2>1. platform.treasury \in Wallets \cup {NoKey}
    BY DEF PageInv, TypeOK, PlatformType, NoPlatform
  <2>2. Clicked(op, p, amount) \in CallType
    BY <1>1, <2>1 DEF Clicked, PageType, CallType
  <2>3. call' = [call EXCEPT ![s] = Clicked(op, p, amount)]
    BY <1>4 DEF Click, Clicked
  <2> QED BY <1>1, <1>4, <2>2, <2>3 DEF Click, PageType
<1>5. ASSUME NEW s \in Slots, ClickSome(s)
      PROVE  PageType'
  BY <1>3, <1>4, <1>5, WebClientAssumption, WidthAssumption
     DEF ClickSome, AdminOps, InvestorOps
<1>6. ASSUME NEW s \in Slots, Land(s)
      PROVE  PageType'
  <2>1. call[s] \in CallType
    BY <1>1 DEF PageType
  <2>2. mint' \in [Projects -> Mints \cup {NoKey}]
    BY <1>1, <1>6, <2>1 DEF Land, Executes, ExecutesCreate, PageType, CallType
  <2>3. call' \in [Slots -> CallType]
    BY <1>1, <1>2, <1>6, <2>1 DEF Land, PageType, CallType
  <2> QED BY <1>1, <1>6, <2>2, <2>3 DEF Land, PageType
<1>7. ASSUME NEW s \in Slots, Settle(s)
      PROVE  PageType'
  <2>1. call[s] \in CallType
    BY <1>1 DEF PageType
  <2>2. CASE Report(s)
    BY <1>1, <1>2, <2>1, <2>2 DEF Report, PageType, CallType
  <2>3. CASE MissConfirmation(s) \/ Lose(s)
    BY <1>1, <1>2, <2>3 DEF MissConfirmation, Lose, PageType
  <2>4. CASE GiveUp(s)
    BY <1>1, <2>1, <2>4 DEF GiveUp, PageType, CallType
  <2> QED BY <1>7, <2>2, <2>3, <2>4 DEF Settle
<1>8. CASE Elsewhere
  BY <1>1, <1>8 DEF Elsewhere, PageType
<1> QED BY <1>1, <1>5, <1>6, <1>7, <1>8 DEF PageNext, pageVars, PageType


\* What a call carries and fetched stays right as long as its fields stay.
LEMMA SoundKept ==
  ASSUME PageInv, Lasts, MintsKept, NEW s \in Slots, Sound(s),
         /\ call'[s].op = call[s].op
         /\ call'[s].project = call[s].project
         /\ call'[s].mrv_project = call[s].mrv_project
         /\ call'[s].amount = call[s].amount
         /\ call'[s].mint = call[s].mint
         /\ call'[s].treasury = call[s].treasury,
         call[s].op = "create" /\ call'[s].phase = "Landed" =>
           /\ project'[call[s].project].status # "Absent"
           /\ call[s].mint = mint'[call[s].project]
  PROVE  Sound(s)'
<1> DEFINE p == call[s].project
<1>1. p \in Projects /\ call[s].op \in Buttons[s]
  BY DEF Sound
<1>2. ASSUME call[s].op # "create"
      PROVE  /\ project'[p].status # "Absent" /\ call[s].mint = mint'[p]
             /\ call[s].op = "activate" => call[s].treasury = platform'.treasury
  <2>1. Exists(p) /\ Initialized
    BY <1>1, <1>2 DEF Sound, PageInv, Grounded
  <2> QED BY <1>1, <1>2, <2>1 DEF Sound, Lasts, MintsKept, Exists
<1> QED BY <1>1, <1>2 DEF Sound, Exists

\* A call that has landed a creation keeps its project and its mint.
LEMMA LandedKept ==
  ASSUME PageInv, Lasts, MintsKept, NEW s \in Slots, Sound(s),
         call[s].op = "create", call[s].phase = "Landed"
  PROVE  /\ project'[call[s].project].status # "Absent"
         /\ call[s].mint = mint'[call[s].project]
BY DEF Sound, Lasts, MintsKept, Exists

LEMMA SameCall ==
  ASSUME PageInv, Lasts, MintsKept, NEW s \in Slots,
         call[s].phase # "Idle", call'[s] = call[s]
  PROVE  Sound(s)'
<1>1. Sound(s)
  BY DEF PageInv
<1> QED BY <1>1, SoundKept, LandedKept

LEMMA StepSound ==
  ASSUME PageInv, [PageNext]_pageVars, Lasts, MintsKept,
         NEW s \in Slots, call'[s].phase # "Idle"
  PROVE  Sound(s)'
<1>1. call \in [Slots -> CallType] /\ call[s] \in CallType
  BY DEF PageInv, PageType
<1>2. CASE call'[s] = call[s]
  BY <1>2, SameCall
<1>3. ASSUME NEW p \in Projects, NEW m \in MrvProjects, NEW k \in Mints,
             NEW target \in Targets, ClickCreate(s, p, m, k, target)
      PROVE  Sound(s)'
  <2>1. /\ call'[s].phase = "Pending" /\ call'[s].op = "create"
        /\ call'[s].project = p /\ call'[s].mrv_project = m
        /\ call'[s].amount = target
    BY <1>1, <1>3 DEF ClickCreate
  <2>2. "create" \in Buttons[s]
    BY <1>3 DEF ClickCreate
  <2> QED BY <2>1, <2>2 DEF Sound
<1>4. ASSUME NEW op, NEW p \in Projects, NEW amount, Click(s, op, p, amount)
      PROVE  Sound(s)'
  <2>1. call'[s] = Clicked(op, p, amount)
    BY <1>1, <1>4 DEF Click, Clicked
  <2>2. op \in Buttons[s] /\ op # "create" /\ Exists(p)
    BY <1>4 DEF Click
  <2>3. Exists(p)' /\ mint'[p] = mint[p] /\ platform'.treasury = platform.treasury
    BY <1>4, <2>2 DEF Click, vars, Exists
  <2>4. /\ call'[s].op = op /\ call'[s].project = p /\ call'[s].mint = mint[p]
        /\ op = "activate" => call'[s].treasury = platform.treasury
    BY <2>1 DEF Clicked
  <2> QED BY <2>2, <2>3, <2>4 DEF Sound
<1>5. CASE ClickSome(s)
  BY <1>3, <1>4, <1>5 DEF ClickSome
<1>6. CASE Settle(s)
  <2>1. CASE GiveUp(s)
    <3>1. Sound(s) /\ call'[s] = [call[s] EXCEPT !.phase = "Orphan"]
      BY <1>1, <2>1 DEF GiveUp, PageInv
    <3>2. /\ call'[s].phase = "Orphan" /\ call'[s].op = call[s].op
          /\ call'[s].project = call[s].project
          /\ call'[s].mrv_project = call[s].mrv_project
          /\ call'[s].amount = call[s].amount
          /\ call'[s].mint = call[s].mint /\ call'[s].treasury = call[s].treasury
      BY <1>1, <3>1 DEF CallType
    <3> QED BY <3>1, <3>2, SoundKept
  <2>2. CASE Report(s) \/ MissConfirmation(s) \/ Lose(s)
    BY <1>1, <2>2 DEF Report, MissConfirmation, Lose, NoCall
  <2> QED BY <1>6, <2>1, <2>2 DEF Settle
<1>7. CASE Land(s)
  <2>1. Sound(s) /\ call[s].phase # "Landed"
    BY <1>7 DEF Land, InFlight, PageInv
  <2>2. call'[s] = [call[s] EXCEPT !.phase = "Landed"]
    BY <1>1, <1>7 DEF Land, NoCall
  <2>3. /\ call'[s].op = call[s].op
        /\ call'[s].project = call[s].project
        /\ call'[s].mrv_project = call[s].mrv_project
        /\ call'[s].amount = call[s].amount
        /\ call'[s].mint = call[s].mint /\ call'[s].treasury = call[s].treasury
    BY <1>1, <2>2 DEF CallType
  <2>4. ASSUME call[s].op = "create"
        PROVE  /\ project'[call[s].project].status # "Absent"
               /\ call[s].mint = mint'[call[s].project]
    <3> DEFINE p == call[s].project
    <3>1. /\ CreateProject(p, call[s].mrv_project, call[s].amount)
          /\ mint' = [mint EXCEPT ![p] = call[s].mint]
      BY <1>7, <2>4 DEF Land, Executes, ExecutesCreate, ExecutesActivate,
                         ExecutesDistribute, ExecutesBuy, ExecutesWithdraw, ExecutesClaim
    <3>2. /\ p \in Projects /\ mint \in [Projects -> Mints \cup {NoKey}]
          /\ project \in [Projects -> ProjectType]
      BY <2>1 DEF Sound, PageInv, PageType, TypeOK
    <3> QED BY <3>1, <3>2 DEF CreateProject, NewProject
  <2> QED BY <2>1, <2>3, <2>4, SoundKept
<1>8. ASSUME NEW r \in Slots, r # s, ClickSome(r) \/ Land(r) \/ Settle(r)
      PROVE  call'[s] = call[s]
  BY <1>1, <1>8 DEF ClickSome, ClickCreate, Click, Land, Settle, Report,
                    MissConfirmation, Lose, GiveUp
<1>9. CASE Elsewhere \/ UNCHANGED pageVars
  BY <1>2, <1>9 DEF Elsewhere, pageVars
<1> QED BY <1>2, <1>5, <1>6, <1>7, <1>8, <1>9 DEF PageNext


LEMMA StepGrounded ==
  ASSUME PageInv, [PageNext]_pageVars, Lasts, MintsKept, NEW p \in Projects
  PROVE  Grounded(p)'
<1>1. Grounded(p) /\ reported \in [Projects -> Mints \cup {NoKey}]
  BY DEF PageInv, PageType
<1>2. (Exists(p) => Exists(p)') /\ (Exists(p)' => Initialized')
  BY <1>1 DEF Lasts, Grounded
<1>3. CASE reported'[p] = reported[p]
  BY <1>1, <1>2, <1>3 DEF Grounded, MintsKept
<1>4. ASSUME NEW s \in Slots, Report(s), reported'[p] # reported[p]
      PROVE  Grounded(p)'
  <2>1. /\ call[s].phase = "Landed" /\ call[s].op = "create"
        /\ call[s].project = p /\ reported'[p] = call[s].mint
    BY <1>1, <1>4 DEF Report
  <2>2. Exists(p) /\ reported'[p] = mint[p]
    BY <2>1 DEF PageInv, Sound
  <2> QED BY <1>2, <2>2 DEF Grounded, MintsKept
<1>5. ASSUME NEW s \in Slots, Settle(s)
      PROVE  Grounded(p)'
  BY <1>3, <1>4, <1>5 DEF Settle, MissConfirmation, Lose, GiveUp
<1>6. ASSUME NEW s \in Slots, ClickSome(s) \/ Land(s)
      PROVE  UNCHANGED reported
  BY <1>6 DEF ClickSome, ClickCreate, Click, Land
<1> QED BY <1>3, <1>5, <1>6 DEF PageNext, Elsewhere, pageVars

LEMMA StepPage == PageInv /\ [PageNext]_pageVars => PageInv'
<1> SUFFICES ASSUME PageInv, [PageNext]_pageVars PROVE PageInv'
  OBVIOUS
<1>1. [Next]_vars
  BY PageStepRefines
<1>2. TypeOK' /\ Lasts /\ MintsKept
  BY <1>1, StepType, StepLasts, StepMints DEF PageInv
<1>3. \A s \in Slots : call'[s].phase # "Idle" => Sound(s)'
  BY <1>2, StepSound
<1>4. \A p \in Projects : Grounded(p)'
  BY <1>2, StepGrounded
<1> QED BY <1>2, <1>3, <1>4, StepPageType DEF PageInv

LEMMA PageInvariant == PageSpec => []PageInv
BY InitPage, StepPage, PTL DEF PageSpec

(***************************************************************************)
(* The theorems                                                            *)
(***************************************************************************)
\* Whatever was fetched before an await (the project, its mint, the treasury)
\* still holds when the transaction executes, after any delay; and the mint
\* the page showed for a project is the project's, whatever creations were
\* retried and lost.
THEOREM PageKnowledgeTheorem == PageSpec => []PageKnowledgeHolds
<1>1. PageInv => PageKnowledgeHolds
  BY DEF PageInv, Sound, Grounded, PageKnowledgeHolds, InFlight
<1> QED BY <1>1, PageInvariant, PTL

\* The page and its network are one more environment of the program: through
\* it, the project instructions still behave as Project says.
THEOREM PageIsProjectTheorem == PageSpec => Spec
<1>1. PageInit => Init
  BY DEF PageInit
<1> QED BY <1>1, PageInvariant, PageStepRefines, PTL DEF PageSpec, Spec

\* So what is proved of the instructions holds of whoever clicks, however
\* calls overlap, are retried or get lost: the vault covers all refunds, or
\* all claims at once, while the administrator took at most the net proceeds.
THEOREM PageStaysSolvent == PageSpec => []Solvent
BY PageIsProjectTheorem, SolventTheorem, PTL

\* However often claims are clicked, retried after an error, overlap or land
\* late, no holder gets more than its pro-rata part out of them: what one of
\* them collected, another that lands after it does not find again.
THEOREM PagePaysProRata == PageSpec => []ProRata
BY PageIsProjectTheorem, ProRataTheorem, PTL
=============================================================================
