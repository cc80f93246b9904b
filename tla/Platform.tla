------------------------------ MODULE Platform ------------------------------
(***************************************************************************)
(* The platform account: one per deployment, written once by               *)
(* initialize_platform and from then on changed only by the counters.      *)
(* Its administrator is the authority every admin handler checks.          *)
(***************************************************************************)
EXTENDS Accumulator

CONSTANTS
  Wallets,      \* the key holders, who sign transactions
  Deployers,    \* wallets that may be first to initialize the platform
  Treasuries,   \* treasuries they may name (the deployer itself is allowed)
  FeeChoices    \* origination fees they may ask for, in basis points

\* 100%, and the denominator of a fee in basis points.
MAX_FEE_BPS == 10000

\* The code takes any account for the treasury.  That it is a wallet, and not
\* the vault of a project or a pool, is assumed of the deployment.
ASSUME PlatformAssumption ==
  /\ NoKey \notin Wallets
  /\ Deployers \subseteq Wallets
  /\ Treasuries \subseteq Wallets
  /\ FeeChoices \subseteq Nat

VARIABLE platform

NoPlatform ==
  [admin |-> NoKey, treasury |-> NoKey, origination_fee_bps |-> 0,
   project_count |-> 0, pool_count |-> 0]

PlatformType ==
  {NoPlatform} \cup
  [admin : Wallets, treasury : Wallets, origination_fee_bps : 0 .. MAX_FEE_BPS,
   project_count : U64, pool_count : U64]

Initialized == platform.admin # NoKey

\* Whoever signs becomes the administrator; the account is created only once.
\* The performance fee and the hurdle rate are bounded likewise, stored and
\* never read: they are left out as if they always were within their bounds.
InitializePlatform(admin, treasury, bps) ==
  /\ ~Initialized
  /\ bps <= MAX_FEE_BPS
  /\ platform' = [admin |-> admin, treasury |-> treasury,
                  origination_fee_bps |-> bps,
                  project_count |-> 0, pool_count |-> 0]

OriginationFee(target) ==
  (target * platform.origination_fee_bps) \div MAX_FEE_BPS
=============================================================================
