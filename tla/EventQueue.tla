----------------------------- MODULE EventQueue -----------------------------
(***************************************************************************)
(* What a reader of the V1290N is promised, without words or loops: a      *)
(* queue of events, each read as one.  This is the V1290N as               *)
(* TriggerHardware and FrontEndFaults have it.                             *)
(***************************************************************************)
EXTENDS Integers, Sequences

Nothing == 0        \* a bank of no words
Unset   == -1       \* a bank that is not of one event

VARIABLES
  sent,     \* number of the latest event
  queue,    \* numbers of the events not yet read, oldest first
  bank,     \* the event the latest read has made, or Nothing, or Unset
  sure      \* no access has failed since the module was cleared

queueVars == <<sent, queue, bank, sure>>

Init ==
  /\ sent = 0
  /\ queue = <<>>
  /\ bank = Nothing
  /\ sure = TRUE

Match ==
  /\ sent' = sent + 1
  /\ queue' = Append(queue, sent')
  /\ UNCHANGED <<bank, sure>>

Take ==
  /\ queue # <<>>
  /\ bank' = Head(queue)
  /\ queue' = Tail(queue)
  /\ UNCHANGED <<sent, sure>>

Miss ==
  /\ queue = <<>>
  /\ bank' \in {Nothing, Unset}
  /\ UNCHANGED <<sent, queue, sure>>

\* An access fails, or one has failed and what it has left is read.
Garble ==
  /\ sure' = FALSE
  /\ \E n \in 0..Len(queue) : queue' = SubSeq(queue, n + 1, Len(queue))
  /\ bank' \in {bank, Nothing, Unset}
  /\ UNCHANGED sent

Clear ==
  /\ queue' = <<>>
  /\ sure' = TRUE
  /\ UNCHANGED <<sent, bank>>

Next == Match \/ Take \/ Miss \/ Garble \/ Clear

Spec == Init /\ [][Next]_queueVars
=============================================================================
