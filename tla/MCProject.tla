------------------------------ MODULE MCProject ------------------------------
(* Instances of the project instructions for TLC. *)
EXTENDS ProjectProperties

CONSTANTS adm, ann, bob, retrofit, boiler, solar

\* What every account holds at the start: enough to sell a project out once
\* and to repay it, the administrator recycling what it takes from vaults.
Usdc(a) ==
  CASE a = adm -> 3 [] a = ann -> 2 [] a = bob -> 1 [] OTHER -> 0
TwoInvestorsUsdc == [a \in {adm, ann, bob, retrofit} |-> Usdc(a)]
OneInvestorUsdc == [a \in {adm, ann, retrofit} |-> Usdc(a)]
TwoProjectsUsdc == [a \in {adm, ann, retrofit, boiler} |-> Usdc(a)]
=============================================================================
