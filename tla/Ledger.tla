------------------------------- MODULE Ledger -------------------------------
(***************************************************************************)
(* USDC balances, as the SPL token program keeps them.  An account is a    *)
(* wallet (its associated token account) or the vault of a project or a    *)
(* pool.  The token program is not part of this repository: what is        *)
(* modelled is what its `transfer` does for the handlers that call it and  *)
(* for holders who call it directly.                                       *)
(***************************************************************************)
EXTENDS Platform, FiniteSets, Functions

CONSTANTS
  Accounts,     \* every USDC account: wallets and vaults
  InitialUsdc   \* what the wallets hold before the program is deployed

\* The supply of USDC fits in a u64, as the supply of any SPL mint does.
ASSUME LedgerAssumption ==
  /\ IsFiniteSet(Accounts)
  /\ Wallets \subseteq Accounts
  /\ NoKey \notin Accounts
  /\ InitialUsdc \in [Accounts -> Nat]
  /\ \A a \in Accounts \ Wallets : InitialUsdc[a] = 0
  /\ SumFunction(InitialUsdc) <= MaxU64

\* An InvestorPosition account, of a project or a pool.
PositionType ==
  [owner : Wallets \cup {NoKey}, tokens_held : U64,
   last_claimed_per_token : U128, total_claimed : U64]

VARIABLE usdc   \* the balance of every account

\* token::transfer: fails when the source holds less than the amount.  From
\* an account to itself it changes nothing, and is left out.
Transfer(from, to, amount) ==
  /\ from # to
  /\ amount <= usdc[from]
  /\ usdc' = [usdc EXCEPT ![from] = @ - amount, ![to] = @ + amount]
=============================================================================
