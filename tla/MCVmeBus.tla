------------------------------ MODULE MCVmeBus ------------------------------
(***************************************************************************)
(* VmeBus for TLC.  Nothing in it counts, so that its behaviours of any    *)
(* length, with calls in any order, have finitely many states.             *)
(***************************************************************************)
EXTENDS VmeBus
=============================================================================
