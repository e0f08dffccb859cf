---------------------------- MODULE FaultyLedger ----------------------------
(***************************************************************************)
(* RunLedger where accesses to the crate may fail.  A failure can unsettle *)
(* the books, with or without an event recorded on the way, and as long as *)
(* they are kept loosely events without a trigger may be recorded.  But    *)
(* nothing else is different: once balanced again, and until a failure or  *)
(* the end of the run, triggers and events take turns as they ever did.    *)
(***************************************************************************)
EXTENDS RunLedger

\* An event with no trigger of this run, from what failures have left.
RecordLoosely ==
  /\ books = "loose"
  /\ recorded' = recorded + 1
  /\ UNCHANGED <<books, accepted, lost>>

Slip ==
  /\ books = "strict"
  /\ books' = "loose"
  /\ recorded' \in {recorded, recorded + 1}
  /\ lost' = 0
  /\ UNCHANGED accepted

FaultyNext == Next \/ RecordLoosely \/ Slip

FaultySpec == Init /\ [][FaultyNext]_ledgerVars
=============================================================================
