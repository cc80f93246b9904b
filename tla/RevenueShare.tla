---------------------------- MODULE RevenueShare ----------------------------
(***************************************************************************)
(* What issuers of fractional ownership promise their holders, with no     *)
(* accumulator, no rounding and no widths.  Shares are subscribed and      *)
(* given back while the offer is open.  Sealing fixes them; from then on   *)
(* deposits are shared pro rata: what a holder has been paid is at most    *)
(* its share of what was deposited.                                        *)
(***************************************************************************)
EXTENDS Integers, Functions

CONSTANTS Issuers, Holders

VARIABLES
  shares,     \* shares of each holder, per issuer
  open,       \* whether an issuer takes subscriptions
  deposited,  \* everything an issuer deposited for its holders
  paid        \* what each holder was paid, per issuer

shareVars == <<shares, open, deposited, paid>>

Init ==
  /\ shares = [s \in Issuers |-> [h \in Holders |-> 0]]
  /\ open = [s \in Issuers |-> TRUE]
  /\ deposited = [s \in Issuers |-> 0]
  /\ paid = [s \in Issuers |-> [h \in Holders |-> 0]]

\* h takes or gives back shares.
Subscribe(s, h) ==
  /\ open[s]
  /\ shares'[s][h] \in Nat
  /\ shares' = [shares EXCEPT ![s][h] = shares'[s][h]]
  /\ UNCHANGED <<open, deposited, paid>>

Seal(s) ==
  /\ open' = [open EXCEPT ![s] = FALSE]
  /\ UNCHANGED <<shares, deposited, paid>>

Deposit(s) ==
  /\ ~open[s]
  /\ deposited'[s] \in Nat
  /\ deposited'[s] > deposited[s]
  /\ deposited' = [deposited EXCEPT ![s] = deposited'[s]]
  /\ UNCHANGED <<shares, open, paid>>

Pay(s, h) ==
  /\ ~open[s]
  /\ paid'[s][h] \in Nat
  /\ paid'[s][h] > paid[s][h]
  /\ paid'[s][h] * SumFunction(shares[s]) <= shares[s][h] * deposited[s]
  /\ paid' = [paid EXCEPT ![s][h] = paid'[s][h]]
  /\ UNCHANGED <<shares, open, deposited>>

Next == \E s \in Issuers :
  \/ Seal(s)
  \/ Deposit(s)
  \/ \E h \in Holders : Subscribe(s, h) \/ Pay(s, h)

Spec == Init /\ [][Next]_shareVars
=============================================================================
