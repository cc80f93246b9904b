---------------------------- MODULE Accumulator ----------------------------
(***************************************************************************)
(* The pull-based dividend accumulator shared by projects and pools.       *)
(*                                                                         *)
(* A project or a pool keeps cumulative_usdc_per_token, the USDC ever      *)
(* distributed per token, scaled by PRECISION.  A holder's position keeps  *)
(* the value of that accumulator at its last claim, and is owed the        *)
(* difference times the tokens it holds.  The program computes in u64 and  *)
(* u128 with checked operations: a result that does not fit makes the      *)
(* whole transaction fail, so the widths are guards of the handlers.       *)
(* The widths and PRECISION are parameters: the proofs are for every       *)
(* value, the model checker uses small ones.                               *)
(***************************************************************************)
EXTENDS Integers

CONSTANTS
  MaxU64,      \* 2^64 - 1
  MaxU128,     \* 2^128 - 1
  Precision,   \* PRECISION, 10^12
  NoKey        \* Pubkey::default()

\* u128 holds the product of any two u64, and PRECISION fits in a u64.
ASSUME WidthAssumption ==
  /\ MaxU64 \in Nat \ {0}
  /\ MaxU128 = (MaxU64 + 1) * (MaxU64 + 1) - 1
  /\ Precision \in 1 .. MaxU64

U64  == 0 .. MaxU64
U128 == 0 .. MaxU128

SaturatingSucc(n) == IF n < MaxU64 THEN n + 1 ELSE n

(***************************************************************************)
(* Positions                                                               *)
(***************************************************************************)
\* What init_if_needed leaves before the handler fills it: all zeroes.
NoPosition ==
  [owner |-> NoKey, tokens_held |-> 0, last_claimed_per_token |-> 0,
   total_claimed |-> 0]

\* Variant: the accumulator at the first purchase is not taken down.
OpenedAtZero(pos, investor, cumulative) == [pos EXCEPT !.owner = investor]

\* Variant: every purchase takes the accumulator down.
OpenedAgain(pos, investor, cumulative) ==
  [pos EXCEPT !.owner = investor, !.last_claimed_per_token = cumulative]

\* A first purchase opens the position at the current accumulator; a later
\* one finds an owner and keeps what the position says.
Opened(pos, investor, cumulative) ==
  IF pos.owner = NoKey
  THEN [pos EXCEPT !.owner = investor,
                   !.last_claimed_per_token = cumulative,
                   !.total_claimed = 0]
  ELSE pos

\* Variant: a top-up replaces the balance.
AfterBuyReplacing(pos, investor, cumulative, amount) ==
  [Opened(pos, investor, cumulative) EXCEPT !.tokens_held = amount]

AfterBuy(pos, investor, cumulative, amount) ==
  [Opened(pos, investor, cumulative) EXCEPT !.tokens_held = @ + amount]

(***************************************************************************)
(* Distribution                                                            *)
(***************************************************************************)
\* Variant: the increment is rounded up.
DeltaRoundedUp(amount, sold) == (amount * Precision + sold - 1) \div sold

DeltaPerToken(amount, sold) == (amount * Precision) \div sold

\* Variant: the lifetime total is not checked.
DistributionFitsUnchecked(issuer, amount) ==
  /\ amount * Precision \in U128
  /\ issuer.cumulative_usdc_per_token
       + DeltaPerToken(amount, issuer.tokens_sold) \in U128

\* The checked multiplication and additions of a distribution succeed.
DistributionFits(issuer, amount) ==
  /\ amount * Precision \in U128
  /\ issuer.cumulative_usdc_per_token
       + DeltaPerToken(amount, issuer.tokens_sold) \in U128
  /\ issuer.total_distributed + amount \in U64

\* Variant: the last increment replaces the accumulator.
AfterDistributionReplacing(issuer, amount) ==
  [issuer EXCEPT
     !.cumulative_usdc_per_token = DeltaPerToken(amount, issuer.tokens_sold),
     !.total_distributed = @ + amount]

AfterDistribution(issuer, amount) ==
  [issuer EXCEPT
     !.cumulative_usdc_per_token = @ + DeltaPerToken(amount, issuer.tokens_sold),
     !.total_distributed = @ + amount]

(***************************************************************************)
(* Claims                                                                  *)
(***************************************************************************)
OwedScaled(pos, cumulative) ==
  pos.tokens_held * (cumulative - pos.last_claimed_per_token)

Owed(pos, cumulative) == OwedScaled(pos, cumulative) \div Precision

\* The checked subtraction, multiplication, narrowing and addition of a
\* claim succeed.
ClaimFits(pos, cumulative) ==
  /\ cumulative >= pos.last_claimed_per_token
  /\ OwedScaled(pos, cumulative) \in U128
  /\ Owed(pos, cumulative) \in U64
  /\ pos.total_claimed + Owed(pos, cumulative) \in U64

\* Variant: the claim is not remembered by the snapshot.
AfterClaimNoSnapshot(pos, cumulative) ==
  [pos EXCEPT !.total_claimed = @ + Owed(pos, cumulative)]

\* Variant: the claim is not added to total_claimed.
AfterClaimUnrecorded(pos, cumulative) ==
  [pos EXCEPT !.last_claimed_per_token = cumulative]

AfterClaim(pos, cumulative) ==
  [pos EXCEPT !.last_claimed_per_token = cumulative,
              !.total_claimed = @ + Owed(pos, cumulative)]
=============================================================================
