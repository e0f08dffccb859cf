--------------------------- MODULE FrontEndFaults ---------------------------
(***************************************************************************)
(* FrontEnd on a VME bus that fails.  mvme_write_value returns -1 for a    *)
(* write that has not reached its module, and no driver function looks at  *)
(* it; mvme_read_value returns a value nobody has written for a read that  *)
(* has failed, and says nothing.  So the front end goes on: a lost write   *)
(* is a step without its effect, a failed read a step with any answer.     *)
(*                                                                         *)
(* The program retries nothing and keeps no account of failures.  What it  *)
(* relies on is that every readout ends, and every run begins, with the    *)
(* same unconditional writes; what these repair is the question here.      *)
(***************************************************************************)
EXTENDS FrontEnd

CONSTANT MaxEvents    \* bound: failures come before the run has more events

ASSUME MaxEventsAssumption == MaxEvents \in Nat

\* History variable, no guard reads it: what the failures of this run (or,
\* before its first run, of this process) have left.
\*   "sound"     none has failed
\*   "failed"    one has
\*   "retrying"  one has, but none since poll_event has seen busy 3
\*   "resynced"  one has, but a whole readout has since been made without,
\*               and it has ended with busy 3 down
VARIABLE health

faultVars == <<vars, health>>

Healths == {"sound", "failed", "retrying", "resynced"}

\* Every variable keeps its type.
FaultTypeOK == TypeOK /\ health \in Healths

FaultInit == Init /\ health = "sound"

-----------------------------------------------------------------------------
\* A step of FrontEnd, its access made.
HealthAfter ==
  CASE pc' # pc /\ pc' \in {"bor_pulse1", "down"} -> "sound"
    [] pc = "poll" /\ pc' = "poll_clear" /\ health = "failed" -> "retrying"
    [] pc = "read_pulse1" /\ pc' = "idle" /\ health = "retrying" ->
         IF busy3 THEN "failed" ELSE "resynced"
    [] OTHER -> health

Succeeds == Next /\ health' = HealthAfter

\* An access has failed: the readout is not known to be in step any more.
Fails ==
  /\ health' = "failed"
  /\ synced' = FALSE
  /\ lost' = 0

\* The writes after which the program goes on with nothing else changed:
\* v006_clear, v1290_ModuleReset, rpv130_Pulse, ClearBusy3, SoftClear.
LostWrite ==
  /\ \/ Goto("init_clear", "init_reset")
     \/ Goto("init_reset", "idle")
     \/ Goto("bor_pulse1", "bor_pulse2")
     \/ Goto("poll_clear", "read_lam")
     \/ Goto("read_pulse2", "read_clear")
     \/ Goto("read_clear", "read_pulse1")
     \/ Goto("read_pulse1", "idle")
  /\ UNCHANGED <<hwVars, poll_i, run, evt_cnt, ev, begun, base>>
  /\ Fails

\* ClearBusy3, the Pulse on output 2 and the Pulse on output 1 that the
\* transition callbacks make: the run changes its state all the same.
BeginRunLost ==
  /\ run = "stopped"
  /\ Goto("idle", "bor_pulse1")
  /\ evt_cnt' = 0
  /\ begun' = TRUE
  /\ base' = trig
  /\ UNCHANGED <<hwVars, poll_i, run, ev>>
  /\ Fails

BorPulse2Lost ==
  /\ Goto("bor_pulse2", "idle")
  /\ run' = "running"
  /\ UNCHANGED <<hwVars, poll_i, evt_cnt, ev, begun, base>>
  /\ Fails

EndRunLost ==
  /\ pc = "idle"
  /\ run \in {"running", "paused"}
  /\ run' = "stopped"
  /\ UNCHANGED <<hwVars, pc, poll_i, evt_cnt, ev, begun, base>>
  /\ Fails

\* Busy 3 read as up or as down, whichever it is.
PollMisread ==
  /\ poll_i < PollCount
  /\ pc = "poll"
  /\ \/ pc' = "poll_clear" /\ poll_i' = poll_i
     \/ pc' = pc /\ poll_i' = poll_i + 1
  /\ UNCHANGED <<hwVars, run, evt_cnt, ev, begun, base>>
  /\ Fails

LamMisread ==
  /\ pc = "read_lam"
  /\ pc' \in {"read_adc0", "read_tdc"}
  /\ evt_cnt' = evt_cnt + 1
  /\ ev' = BlankEvent
  /\ UNCHANGED <<hwVars, poll_i, run, begun, base>>
  /\ Fails

\* v006_adc returns 0 or a pulse height of no trigger.
AdcMisread ==
  /\ \E w \in {Nothing, Unset} :
       \/ Goto("read_adc0", "read_adc1") /\ ev' = [ev EXCEPT !.pha0 = w]
       \/ Goto("read_adc1", "read_tdc") /\ ev' = [ev EXCEPT !.pha1 = w]
  /\ UNCHANGED <<hwVars, poll_i, run, evt_cnt, begun, base>>
  /\ Fails

\* v1290_IsDataReady or the loops of v1290_EventRead: V1290Event shows word
\* by word that any number of events can go with it.  What it leaves of the
\* last of them can garble the next read as well, if SoftClear fails, too.
TdcMisread ==
  /\ Goto("read_tdc", "read_pulse2")
  /\ \E n \in 0..matched : /\ tdc' = SubSeq(tdc, n + 1, Len(tdc))
                           /\ matched' = matched - n
  /\ \E bank \in {Nothing, Unset} : ev' = [ev EXCEPT !.tdc = bank]
  /\ UNCHANGED <<trig, ff, busy3, adc, lam>>
  /\ UNCHANGED <<poll_i, run, evt_cnt, begun, base>>
  /\ \/ Fails
     \/ health = "retrying" /\ UNCHANGED <<health, synced, lost>>

Fault ==
  /\ evt_cnt <= MaxEvents
  /\ \/ LostWrite \/ BeginRunLost \/ BorPulse2Lost \/ EndRunLost
     \/ PollMisread \/ LamMisread \/ AdcMisread \/ TdcMisread

FaultNext == Succeeds \/ Fault

FaultSpec == FaultInit /\ [][FaultNext]_faultVars

-----------------------------------------------------------------------------
(***************************************************************************)
(* Properties.                                                             *)
(***************************************************************************)

\* A begin_of_run whose accesses succeed makes up for every failure before
\* it, wherever these have left the flip flop, busy 3 and the data: until an
\* access of this run fails, all that holds of FrontEnd holds again.
RunRecovers ==
  health = "sound" =>
    /\ NoStuckVeto
    /\ NoSurplusEvents
    /\ SyncedEventsCoherent
    /\ SyncedReadoutIsDead
    /\ SyncedTriggersCounted

\* So does, but for the event counter, the first readout without a failure
\* that ends with busy 3 down: from then on no event mixes two triggers, no
\* trigger gets into a readout and the veto is not left behind.
ReadoutRecovers ==
  health = "resynced" =>
    /\ run # "stopped" => synced
    /\ NoStuckVeto
    /\ SyncedEventsCoherent
    /\ SyncedReadoutIsDead

\* And from any readout on that ends with busy 3 down, until an access fails,
\* no trigger goes without an event and no event without a trigger, whatever
\* the balance was and whatever failures have left in the modules.
ReadoutCounts ==
  synced =>
    trig - base = evt_cnt + lost + (IF ff /\ pc \notin Counted THEN 1 ELSE 0)

\* Being in step is lost to nothing but a failed access, the end of the run or
\* the end of the process: failures of the past do not come back.
SyncLostToFailures ==
  [][synced /\ Succeeds /\ run' # "stopped" /\ pc' # "down" => synced']_faultVars

\* The books of a run are kept even so, see FaultyLedger: what a failure does
\* to them lasts until a readout ends with busy 3 down, and is never more than
\* to unsettle them.
FaultLedger ==
  INSTANCE FaultyLedger WITH books <- Books, accepted <- Accepted,
                             recorded <- Recorded, lost <- Missing

FaultLedgerSpec == FaultLedger!FaultySpec

\* Of all the accesses that can fail, only the Pulse that lifts the veto can
\* stop the data taking: the one in begin_of_run, or the last of a readout.
OnlyPulse1Sticks ==
  [][NoStuckVeto /\ ~NoStuckVeto' =>
       /\ pc \in {"bor_pulse1", "read_pulse1"}
       /\ health' = "failed"]_faultVars

-----------------------------------------------------------------------------
(***************************************************************************)
(* What no failure disturbs, and the invariant behind the properties.       *)
(***************************************************************************)
StoppedInv == run = "stopped" \/ pc = "down" => ~synced /\ lost = 0

\* Where a readout has got back in step, so it is still.
ResyncedInv ==
  health = "resynced" =>
    /\ pc \in {"idle", "poll", "poll_clear"} \cup Reading
    /\ run # "stopped" => synced
    /\ SyncShape

FaultInv ==
  /\ FaultTypeOK
  /\ TdcInv
  /\ RunInv
  /\ StoppedInv
  /\ health = "sound" => IInv
  /\ health # "failed" => BaseInv
  /\ ResyncedInv
  /\ FlagShape
  /\ CountInv
=============================================================================
