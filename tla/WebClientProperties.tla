------------------------- MODULE WebClientProperties -------------------------
(***************************************************************************)
(* What the page and its users can rely on although they act on what they  *)
(* read earlier, and retry what may already be done.                       *)
(***************************************************************************)
EXTENDS WebClient

\* The accounts fetched before an await are still the right ones when the
\* transaction executes, however late, and the mint the page showed for a
\* project it created is the project's: of overlapping and retried creations
\* only one ever takes effect.
PageKnowledgeHolds ==
  /\ \A s \in Slots : InFlight(s) /\ call[s].op # "create" =>
       /\ Exists(call[s].project)
       /\ call[s].mint = mint[call[s].project]
       /\ call[s].op = "activate" => call[s].treasury = platform.treasury
  /\ \A p \in Projects : reported[p] \in {NoKey, mint[p]}

PayableClaims == {c \in Projects \X Investors :
  /\ Due(c[1], c[2]) > 0
  /\ usdc[c[1]] >= Due(c[1], c[2])}

\* A holder that keeps clicking is paid what it is owed through a network
\* that loses transactions and confirmations, unless the vault is emptied.
RetriedClaimsLand == \A c \in Projects \X Investors :
  c \in PayableClaims ~> c \notin PayableClaims
=============================================================================
