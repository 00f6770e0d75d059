------------------------------ MODULE MCCockpit ------------------------------
(* A small instance of CockpitProperties for TLC. *)
EXTENDS CockpitProperties, TLC

(* The scripts are interchangeable, and no liveness is checked. *)
MCScripts == Permutations(Scripts)
==============================================================================
