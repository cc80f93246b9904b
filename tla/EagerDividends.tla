--------------------------- MODULE EagerDividends ---------------------------
(***************************************************************************)
(* Dividends as if they were pushed: a deposit walks over all holders and  *)
(* credits each of them at once, every share with the same amount rounded  *)
(* down.  No accumulator and no snapshots: what the program computes when  *)
(* a holder claims is here computed when the money arrives.  Credits are   *)
(* counted in units of 1/Unit USDC.                                        *)
(*                                                                         *)
(* A holder that changes its shares with a credit open sees the credit     *)
(* change with them, as if the new shares had been there since its last    *)
(* payment; a holder with no shares starts with none.                      *)
(***************************************************************************)
EXTENDS Integers, Functions

CONSTANTS Issuers, Holders, Unit

VARIABLES
  shares,     \* shares of each holder, per issuer
  credit,     \* what was credited to each holder since it was last paid
  deposited,  \* everything an issuer deposited for its holders
  paid        \* what each holder was paid, per issuer

dividendVars == <<shares, credit, deposited, paid>>

Init ==
  /\ shares = [s \in Issuers |-> [h \in Holders |-> 0]]
  /\ credit = [s \in Issuers |-> [h \in Holders |-> 0]]
  /\ deposited = [s \in Issuers |-> 0]
  /\ paid = [s \in Issuers |-> [h \in Holders |-> 0]]

\* The new credit is to the new shares what the old was to the old.
Trade(s, h) ==
  /\ shares'[s][h] \in Nat
  /\ shares' = [shares EXCEPT ![s][h] = shares'[s][h]]
  /\ credit' = [credit EXCEPT ![s][h] = credit'[s][h]]
  /\ \/ shares[s][h] = 0 /\ credit'[s][h] = 0
     \/ shares[s][h] > 0 /\ credit'[s][h] * shares[s][h]
                              = credit[s][h] * shares'[s][h]
  /\ UNCHANGED <<deposited, paid>>

Deposit(s) ==
  LET amount  == deposited'[s] - deposited[s]
      perShare == (amount * Unit) \div SumFunction(shares[s])
  IN  /\ SumFunction(shares[s]) > 0
      /\ amount > 0
      /\ deposited' = [deposited EXCEPT ![s] = @ + amount]
      /\ credit' = [credit EXCEPT ![s] =
           [h \in Holders |-> credit[s][h] + shares[s][h] * perShare]]
      /\ UNCHANGED <<shares, paid>>

\* All whole USDC of the credit are paid; the fraction is forfeited.
Pay(s, h) ==
  /\ credit[s][h] >= Unit
  /\ paid' = [paid EXCEPT ![s][h] = @ + credit[s][h] \div Unit]
  /\ credit' = [credit EXCEPT ![s][h] = 0]
  /\ UNCHANGED <<shares, deposited>>

Next == \E s \in Issuers :
  \/ Deposit(s)
  \/ \E h \in Holders : Trade(s, h) \/ Pay(s, h)

Spec == Init /\ [][Next]_dividendVars
=============================================================================
