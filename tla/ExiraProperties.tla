--------------------------- MODULE ExiraProperties ---------------------------
(***************************************************************************)
(* What holds of the whole program: each component behaves as its own      *)
(* specification says, whatever the others do, and together they keep the  *)
(* chain from a pool to the registry and the worth of what holders own.    *)
(***************************************************************************)
EXTENDS Exira

(***************************************************************************)
(* Each component keeps its own promises                                   *)
(***************************************************************************)
\* To projects, everyone outside is a sender of USDC, and the pool counter
\* is somebody else's.
ProjectsView == INSTANCE Project WITH
  MrvProjects <- Retrofits,
  baselined   <- Baselined,
  platform    <- [platform EXCEPT !.pool_count = 0],
  Senders     <- Accounts \ Projects

\* To pools, everyone outside is a donor.
PoolsView == INSTANCE Pool WITH
  PoolProjects <- Projects,
  created      <- Created,
  platform     <- [platform EXCEPT !.project_count = 0],
  Donors       <- Accounts \ Pools

\* Whatever pools and the registry do, projects see nothing but baselines
\* submitted once and USDC sent from outside: all that is proved and checked
\* of the project instructions alone holds in the whole program.
IsProjects == ProjectsView!Spec

\* Whatever projects do, pools see nothing but projects created once and
\* donations: no project instruction takes from a pool's vault.
IsPools == PoolsView!Spec

(***************************************************************************)
(* Across the components                                                   *)
(***************************************************************************)
\* Behind every project that raised money, and so behind every project a
\* pool links to, stands a registered retrofit whose baseline an authorized
\* auditor signed.
BackedByRecord ==
  /\ \A p \in Created :
       LET m == project[p].mrv_project IN
       /\ Registry!Registered(m)
       /\ baseline[m] \in auditors
  /\ \A q \in Pools : links[q] \subseteq Created

\* The platform's counters tell how many projects and pools there are, each
\* its own, however their creations interleave, until the counter is full.
CountersCount ==
  LET UpToLimit(n) == IF n < MaxU64 THEN n ELSE MaxU64
  IN  /\ platform.project_count = UpToLimit(Cardinality(Created))
      /\ platform.pool_count =
           UpToLimit(Cardinality({q \in Pools : Fund!PoolExists(q)}))

\* What holder i has and is owed everywhere, at the price it paid.
Worth(i) ==
  usdc[i]
    + SumFunction([p \in Projects |-> position[p][i].tokens_held + Issue!Due(p, i)])
    + SumFunction([q \in Pools |-> stake[q][i].tokens_held + Fund!PoolDue(q, i)])

\* No step of anyone makes a holder's cash, tokens and claims worth less at
\* their nominal price, except an administrator's own distributions and what
\* a holder sends away itself.
WorthNeverShrinks == [][\A i \in Wallets \ (Senders \cup {platform.admin}) :
  Worth(i)' >= Worth(i)]_exiraVars
=============================================================================
