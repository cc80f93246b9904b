-------------------------------- MODULE Exira --------------------------------
(***************************************************************************)
(* The whole program: the project, pool and registry instructions on one   *)
(* platform account, one set of wallets and one USDC ledger.               *)
(*                                                                         *)
(* Three things tie the components together.  create_project reads the     *)
(* registry's baseline flag; add_project_to_pool reads that the project is *)
(* there; and USDC flows between all vaults through the wallets, and from  *)
(* a project's vault straight into a pool's when the administrator         *)
(* withdraws to it.  What a component alone leaves open (the baselines     *)
(* others submit, the projects others create, the USDC others send) is     *)
(* here exactly what the other components do.                              *)
(***************************************************************************)
EXTENDS Ledger

CONSTANTS
  Projects, Investors, SplUsers, Senders, Targets,        \* as in Project
  Pools, PoolInvestors, PoolTargets, MAX_POOL_PROJECTS_V1,  \* as in Pool
  Retrofits, AuditorWallets, Periods, MaxU8               \* as in Mrv

VARIABLES
  project, position, tokens, disbursed,   \* of Project
  pool, stake, links, inherited,          \* of Pool
  mrv, auditors, baseline, verification   \* of Mrv

issueVars    == <<project, position, tokens, disbursed>>
fundVars     == <<pool, stake, links, inherited>>
registryVars == <<mrv, auditors, baseline, verification>>

exiraVars == <<usdc, platform, issueVars, fundVars, registryVars>>

\* What create_project sees of the registry.
Baselined == {m \in Retrofits : mrv[m].baseline_submitted}

\* What add_project_to_pool sees of the projects.
Created == {p \in Projects : project[p].status # "Absent"}

Issue == INSTANCE Project WITH MrvProjects <- Retrofits, baselined <- Baselined

Fund == INSTANCE Pool WITH
  PoolProjects <- Projects, created <- Created, Donors <- {}

Registry == INSTANCE Mrv

ASSUME ExiraAssumption ==
  /\ Issue!ProjectAssumption
  /\ Fund!PoolAssumption
  /\ Registry!MrvAssumption
  /\ Projects \cap Pools = {}
  /\ Senders \subseteq Wallets

Init == Registry!Init /\ Issue!Init /\ Fund!Init

(***************************************************************************)
(* Next                                                                    *)
(***************************************************************************)
\* A transfer finds the token account it pays into: a vault is there from
\* the moment its project or its pool is (as Receives says in Project).
VaultsReceive == \A q \in Pools : usdc'[q] > usdc[q] => Fund!PoolExists(q)

\* The project instructions, and what holders do with USDC and project
\* tokens themselves.
IssueNext ==
  /\ UNCHANGED <<fundVars, registryVars>>
  /\ Issue!AdminNext \/ Issue!InvestorNext \/ Issue!HolderNext
  /\ VaultsReceive

\* USDC into or out of a pool is neither a sale nor a repayment of a project.
FundNext ==
  /\ UNCHANGED <<issueVars, registryVars>>
  /\ Fund!PoolAdminNext \/ Fund!PoolInvestorNext

RegistryNext ==
  /\ UNCHANGED <<usdc, issueVars, fundVars>>
  /\ Registry!Next

Next == IssueNext \/ FundNext \/ RegistryNext

Spec == Init /\ [][Next]_exiraVars
=============================================================================
