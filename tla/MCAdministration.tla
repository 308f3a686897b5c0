-------------------------- MODULE MCAdministration --------------------------
(* A small instance of the administration of the contracts for TLC. *)
EXTENDS Administration

\* Enough contracts for a full batch and a rest.
ThreeContracts == <<"activePool", "priceFeed", "troveManager">>
TwoUpgrades    == <<"troveManager", "priceFeed">>

=============================================================================
