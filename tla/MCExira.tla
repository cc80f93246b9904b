------------------------------- MODULE MCExira -------------------------------
(* Instances of the whole program for TLC. *)
EXTENDS ExiraProperties, TLC

CONSTANTS adm, ann, bob, retrofit, boiler, basket, solar

ExiraUsdc == [a \in Accounts |-> CASE a = ann -> 2 [] a = bob -> 1 [] OTHER -> 0]

\* Nothing tells the two projects apart but their names.
Alike == Permutations({retrofit, boiler})

OnePeriod == {<<0, 1>>}
=============================================================================
