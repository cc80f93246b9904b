------------------------------- MODULE MCMrv -------------------------------
(* Instances of the MRV registry for TLC. *)
EXTENDS MrvProperties

CONSTANTS adm, eve, joe, solar, boiler

\* A period that is accepted and one that ends when it starts.
TwoPeriods == {<<0, 1>>, <<1, 1>>}
=============================================================================
