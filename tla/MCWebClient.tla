----------------------------- MODULE MCWebClient -----------------------------
(* Instances of the web client for TLC. *)
EXTENDS WebClientProperties

CONSTANTS adm, ann, retrofit, solar, k1, k2

PageUsdc == [a \in Accounts |-> IF a = ann THEN 1 ELSE 0]

\* The administrator and a holder, each with a call and its retry.
TwoEach == {adm, ann} \X {1, 2}

\* Creations of the administrator overlap, and so do a holder's claims and
\* withdrawals with each other and with its purchases.
OwnButtons == [s \in TwoEach |->
  CASE s = <<adm, 1>> -> AdminOps
    [] s = <<adm, 2>> -> {"create"}
    [] s = <<ann, 1>> -> InvestorOps
    [] s = <<ann, 2>> -> {"claim", "withdraw"}]
=============================================================================
