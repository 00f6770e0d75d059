-------------------------------- MODULE MCBus --------------------------------
(* Small instances of BusProperties for TLC. *)
EXTENDS BusProperties, TLC

(* Threads are interchangeable; used where no liveness is checked. *)
MCThreads == Permutations(Threads)
==============================================================================
