---------------------------- MODULE MCFrontEnd ----------------------------
(***************************************************************************)
(* FrontEnd for TLC: two looks at busy 3 per poll_event, and as many       *)
(* triggers as the .cfg allows.                                            *)
(***************************************************************************)
EXTENDS FrontEnd
===========================================================================
