----------------------------- MODULE RunLedger -----------------------------
(***************************************************************************)
(* What the event counter of a run promises, without crate or program: a   *)
(* count of the triggers accepted since the run began, a count of those    *)
(* recorded as events, and a balance between the two.                      *)
(*                                                                         *)
(* The books are kept loosely from the beginning of a run, when triggers   *)
(* may slip past the readout, until they are balanced once; from then on   *)
(* they are kept strictly: accepted triggers and recorded events take      *)
(* turns, and those lost before stay the only ones lost.                   *)
(***************************************************************************)
EXTENDS Integers

VARIABLES
  books,      \* "none", "loose" or "strict"
  accepted,   \* triggers accepted in this run
  recorded,   \* events recorded in this run
  lost        \* triggers that had no event when the books were balanced

ledgerVars == <<books, accepted, recorded, lost>>

Init ==
  /\ books = "none"
  /\ accepted = 0
  /\ recorded = 0
  /\ lost = 0

Begin ==
  /\ books # "strict"
  /\ books' = "loose"
  /\ accepted' = 0
  /\ recorded' = 0
  /\ lost' = 0

Accept ==
  /\ books # "none"
  /\ books = "strict" => accepted = recorded + lost
  /\ accepted' = accepted + 1
  /\ UNCHANGED <<books, recorded, lost>>

Record ==
  /\ books # "none"
  /\ recorded + lost < accepted
  /\ recorded' = recorded + 1
  /\ UNCHANGED <<books, accepted, lost>>

Balance ==
  /\ books = "loose"
  /\ books' = "strict"
  /\ lost' = accepted - recorded
  /\ UNCHANGED <<accepted, recorded>>

End ==
  /\ books = "strict"
  /\ books' = "loose"
  /\ lost' = 0
  /\ UNCHANGED <<accepted, recorded>>

Abandon ==
  /\ books' = "none"
  /\ accepted' = 0
  /\ recorded' = 0
  /\ lost' = 0

Next == Begin \/ Accept \/ Record \/ Balance \/ End \/ Abandon

Spec == Init /\ [][Next]_ledgerVars
=============================================================================
