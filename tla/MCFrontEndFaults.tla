-------------------------- MODULE MCFrontEndFaults --------------------------
(***************************************************************************)
(* FrontEndFaults for TLC.  Failures are not counted: any number of them   *)
(* comes in any order, up to the bound on triggers.                        *)
(***************************************************************************)
EXTENDS FrontEndFaults
=============================================================================
