------------------------------- MODULE MCPool -------------------------------
(* Instances of the pool instructions for TLC. *)
EXTENDS PoolProperties

CONSTANTS adm, ann, bob, basket, retrofit, boiler

PoolUsdc == [a \in Accounts |->
  CASE a = adm -> 4 [] a = ann -> 3 [] a = bob -> 1 [] OTHER -> 0]
TopUpUsdc == [a \in Accounts |->
  CASE a = adm -> 2 [] a = ann -> 4 [] OTHER -> 0]
VaultUsdc == [a \in Accounts |->
  CASE a = adm -> 2 [] a = ann -> 4 [] a = bob -> 1 [] OTHER -> 0]
=============================================================================
