------------------------------ MODULE FrontEnd ------------------------------
(***************************************************************************)
(* The MIDAS front end of src/frontend.cc, one step per VME access it      *)
(* makes, running against the crate of TriggerHardware.  The program has   *)
(* one thread: MIDAS calls poll_event, read_trigger_event and the run      *)
(* transition callbacks from its main loop ("idle"), never one inside      *)
(* another.  The crate moves between any two of its accesses.              *)
(***************************************************************************)
EXTENDS TriggerHardware

CONSTANT PollCount    \* the "count" MIDAS passes to poll_event

ASSUME PollCountAssumption == PollCount \in Nat

VARIABLES
  pc,         \* the access the program makes next
  poll_i,     \* the loop counter of poll_event
  run,        \* state of the run, kept by MIDAS outside the program
  evt_cnt,    \* events read since begin_of_run
  ev,         \* the event being read: two words of PHA, the TDC bank
  \* History variables: no guard reads them.
  begun,      \* this process has executed a begin_of_run
  base,       \* the value of trig when begin_of_run cleared busy 3
  synced,     \* a readout has ended with busy 3 down, in this run
  lost        \* triggers of this run without an event when that happened

histVars == <<begun, base, synced, lost>>
feVars   == <<pc, poll_i, run, evt_cnt, ev, begun, base, synced, lost>>
vars     == <<hwVars, feVars>>

\* The accesses of read_trigger_event after the one that counts the event
\* (the V006 LAM), and all those it makes.
Counted == {"read_adc0", "read_adc1", "read_tdc",
            "read_pulse2", "read_clear", "read_pulse1"}
Reading == Counted \cup {"read_lam"}

Labels == {"down", "init_clear", "init_reset", "idle",
           "bor_pulse1", "bor_pulse2", "poll", "poll_clear"} \cup Reading

RunStates == {"stopped", "running", "paused"}

\* bk_init32 starts an empty event on memory of an earlier one.
BlankEvent == [pha0 |-> Unset, pha1 |-> Unset, tdc |-> Nothing]

Words == Triggers \cup {Nothing, Unset}

\* Every variable keeps its type.
TypeOK ==
  /\ HwTypeOK
  /\ pc \in Labels
  /\ poll_i \in 0..PollCount
  /\ run \in RunStates
  /\ evt_cnt \in Nat
  /\ ev \in [pha0 : Words, pha1 : Words, tdc : Words]
  /\ begun \in BOOLEAN
  /\ base \in 0..MaxTrig
  /\ synced \in BOOLEAN
  /\ lost \in Int

Init ==
  /\ HwInit
  /\ pc = "down"
  /\ poll_i = 0
  /\ run = "stopped"
  /\ evt_cnt = 0
  /\ ev = BlankEvent
  /\ begun = FALSE
  /\ base = 0
  /\ synced = FALSE
  /\ lost = 0

Goto(from, to) == pc = from /\ pc' = to

-----------------------------------------------------------------------------
(***************************************************************************)
(* Start and end of the process.  killall (or a crash) can hit between any *)
(* two accesses; the crate and the state of the run survive it.            *)
(***************************************************************************)
StartProcess ==
  /\ Goto("down", "init_clear")
  /\ UNCHANGED <<hwVars, poll_i, run, evt_cnt, ev, histVars>>

InitClear ==
  /\ Goto("init_clear", "init_reset")
  /\ v006_clear
  /\ UNCHANGED <<trig, ff, busy3, tdc, matched>>
  /\ UNCHANGED <<poll_i, run, evt_cnt, ev, histVars>>

InitReset ==
  /\ Goto("init_reset", "idle")
  /\ v1290_ModuleReset
  /\ UNCHANGED <<trig, ff, busy3, adc, lam>>
  /\ UNCHANGED <<poll_i, run, evt_cnt, ev, histVars>>

Kill ==
  /\ pc # "down"
  /\ pc' = "down"
  /\ poll_i' = 0
  /\ evt_cnt' = 0
  /\ ev' = BlankEvent
  /\ begun' = FALSE
  /\ base' = 0
  /\ synced' = FALSE
  /\ lost' = 0
  /\ UNCHANGED <<hwVars, run>>

\* MIDAS changes the state of the run while the front end is not there.
RunControlWhileDown ==
  /\ pc = "down"
  /\ \/ run = "stopped" /\ run' = "running"
     \/ run = "running" /\ run' \in {"paused", "stopped"}
     \/ run = "paused"  /\ run' \in {"running", "stopped"}
  /\ UNCHANGED <<hwVars, pc, poll_i, evt_cnt, ev, histVars>>

-----------------------------------------------------------------------------
(***************************************************************************)
(* Transitions of the run.                                                 *)
(***************************************************************************)

\* Mutant of BeginRun: the ClearBusy3 call is gone.
BeginRunBusyKept ==
  /\ run = "stopped"
  /\ Goto("idle", "bor_pulse1")
  /\ evt_cnt' = 0
  /\ begun' = TRUE
  /\ base' = trig
  /\ UNCHANGED <<hwVars, poll_i, run, ev, synced, lost>>

\* evt_cnt = 0, ClearBusy1 (nothing reads busy 1) and ClearBusy3.
BeginRun ==
  /\ run = "stopped"
  /\ Goto("idle", "bor_pulse1")
  /\ evt_cnt' = 0
  /\ rpv130_ClearBusy3
  /\ begun' = TRUE
  /\ base' = trig
  /\ UNCHANGED <<trig, ff, adc, lam, tdc, matched>>
  /\ UNCHANGED <<poll_i, run, ev, synced, lost>>

BorPulse1 ==
  /\ Goto("bor_pulse1", "bor_pulse2")
  /\ rpv130_Pulse(1)
  /\ UNCHANGED <<trig, busy3, tdc, matched>>
  /\ UNCHANGED <<poll_i, run, evt_cnt, ev, histVars>>

\* Mutant of BorPulse2: busy 3 is cleared last, after the veto is lifted.
BorPulse2ClearsLate ==
  /\ Goto("bor_pulse2", "idle")
  /\ rpv130_Pulse(2)
  /\ rpv130_ClearBusy3
  /\ run' = "running"
  /\ UNCHANGED <<trig, tdc, matched>>
  /\ UNCHANGED <<poll_i, evt_cnt, ev, histVars>>

BorPulse2 ==
  /\ Goto("bor_pulse2", "idle")
  /\ rpv130_Pulse(2)
  /\ run' = "running"
  /\ UNCHANGED <<trig, busy3, tdc, matched>>
  /\ UNCHANGED <<poll_i, evt_cnt, ev, histVars>>

EndRun ==
  /\ pc = "idle"
  /\ run \in {"running", "paused"}
  /\ rpv130_Pulse(1)
  /\ run' = "stopped"
  /\ synced' = FALSE
  /\ lost' = 0
  /\ UNCHANGED <<trig, busy3, tdc, matched>>
  /\ UNCHANGED <<pc, poll_i, evt_cnt, ev, begun, base>>

PauseRun ==
  /\ pc = "idle"
  /\ run = "running"
  /\ run' = "paused"
  /\ UNCHANGED <<hwVars, pc, poll_i, evt_cnt, ev, histVars>>

ResumeRun ==
  /\ pc = "idle"
  /\ run = "paused"
  /\ run' = "running"
  /\ UNCHANGED <<hwVars, pc, poll_i, evt_cnt, ev, histVars>>

-----------------------------------------------------------------------------
(***************************************************************************)
(* poll_event(source, PollCount, FALSE), called while the run is running.  *)
(***************************************************************************)
StartPoll ==
  /\ run = "running"
  /\ Goto("idle", "poll")
  /\ poll_i' = 0
  /\ UNCHANGED <<hwVars, run, evt_cnt, ev, histVars>>

PollHit ==
  /\ poll_i < PollCount
  /\ rpv130_IsBusy3
  /\ Goto("poll", "poll_clear")
  /\ UNCHANGED <<hwVars, poll_i, run, evt_cnt, ev, histVars>>

\* Mutant of PollMiss: the looks are not counted.
PollMissUncounted ==
  /\ poll_i < PollCount
  /\ ~rpv130_IsBusy3
  /\ pc = "poll"
  /\ UNCHANGED vars

PollMiss ==
  /\ poll_i < PollCount
  /\ ~rpv130_IsBusy3
  /\ pc = "poll"
  /\ poll_i' = poll_i + 1
  /\ UNCHANGED <<hwVars, pc, run, evt_cnt, ev, histVars>>

PollEnd ==
  /\ poll_i = PollCount
  /\ Goto("poll", "idle")
  /\ UNCHANGED <<hwVars, poll_i, run, evt_cnt, ev, histVars>>

\* Mutant of PollClear: busy 3 stays latched.
PollClearNot ==
  /\ Goto("poll_clear", "read_lam")
  /\ UNCHANGED <<hwVars, poll_i, run, evt_cnt, ev, histVars>>

\* poll_event returns 1 and MIDAS calls read_trigger_event.
PollClear ==
  /\ Goto("poll_clear", "read_lam")
  /\ rpv130_ClearBusy3
  /\ UNCHANGED <<trig, ff, adc, lam, tdc, matched>>
  /\ UNCHANGED <<poll_i, run, evt_cnt, ev, histVars>>

-----------------------------------------------------------------------------
(***************************************************************************)
(* read_trigger_event.                                                     *)
(***************************************************************************)
\* Mutant of ReadLam: only an event with a pulse height is counted.
ReadLamCountsData ==
  /\ pc = "read_lam"
  /\ pc' = IF v006_readLAM THEN "read_adc0" ELSE "read_tdc"
  /\ evt_cnt' = IF v006_readLAM THEN evt_cnt + 1 ELSE evt_cnt
  /\ ev' = BlankEvent
  /\ UNCHANGED <<hwVars, poll_i, run, histVars>>

ReadLam ==
  /\ pc = "read_lam"
  /\ pc' = IF v006_readLAM THEN "read_adc0" ELSE "read_tdc"
  /\ evt_cnt' = evt_cnt + 1
  /\ ev' = BlankEvent
  /\ UNCHANGED <<hwVars, poll_i, run, histVars>>

ReadAdc0 ==
  /\ Goto("read_adc0", "read_adc1")
  /\ ev' = [ev EXCEPT !.pha0 = v006_adc]
  /\ UNCHANGED <<hwVars, poll_i, run, evt_cnt, histVars>>

ReadAdc1 ==
  /\ Goto("read_adc1", "read_tdc")
  /\ ev' = [ev EXCEPT !.pha1 = v006_adc]
  /\ UNCHANGED <<hwVars, poll_i, run, evt_cnt, histVars>>

\* Mutant of ReadTdc: an event without TDC data is given up at once.
ReadTdcGivesUp ==
  /\ pc = "read_tdc"
  /\ \/ /\ v1290_IsDataReady
        /\ pc' = "read_pulse2"
        /\ ev' = [ev EXCEPT !.tdc = Head(tdc)]
        /\ v1290_EventRead
     \/ /\ ~v1290_IsDataReady
        /\ pc' = "idle"
        /\ UNCHANGED <<ev, tdc, matched>>
  /\ UNCHANGED <<trig, ff, busy3, adc, lam>>
  /\ UNCHANGED <<poll_i, run, evt_cnt, histVars>>

\* Without data nbyte is never assigned, and bk_close makes the bank as long
\* as that happens to be: no words, or words nobody has written.
ReadTdc ==
  /\ Goto("read_tdc", "read_pulse2")
  /\ \/ /\ v1290_IsDataReady
        /\ ev' = [ev EXCEPT !.tdc = Head(tdc)]
        /\ v1290_EventRead
     \/ /\ ~v1290_IsDataReady
        /\ \E bank \in {Nothing, Unset} : ev' = [ev EXCEPT !.tdc = bank]
        /\ UNCHANGED <<tdc, matched>>
  /\ UNCHANGED <<trig, ff, busy3, adc, lam>>
  /\ UNCHANGED <<poll_i, run, evt_cnt, histVars>>

\* Mutant of ReadPulse2: the wrong output is pulsed.
ReadPulse2OnOutput1 ==
  /\ Goto("read_pulse2", "read_clear")
  /\ rpv130_Pulse(1)
  /\ UNCHANGED <<trig, busy3, tdc, matched>>
  /\ UNCHANGED <<poll_i, run, evt_cnt, ev, histVars>>

ReadPulse2 ==
  /\ Goto("read_pulse2", "read_clear")
  /\ rpv130_Pulse(2)
  /\ UNCHANGED <<trig, busy3, tdc, matched>>
  /\ UNCHANGED <<poll_i, run, evt_cnt, ev, histVars>>

\* Mutant of ReadClear: the SoftClear call is gone.
ReadClearNot ==
  /\ Goto("read_clear", "read_pulse1")
  /\ UNCHANGED <<hwVars, poll_i, run, evt_cnt, ev, histVars>>

ReadClear ==
  /\ Goto("read_clear", "read_pulse1")
  /\ v1290_SoftClear
  /\ UNCHANGED <<trig, ff, busy3, adc, lam>>
  /\ UNCHANGED <<poll_i, run, evt_cnt, ev, histVars>>

\* The veto is lifted and the event is returned to MIDAS.  If busy 3 is down
\* now, nothing is left of any earlier trigger: the readout is in step.
ReadPulse1 ==
  /\ Goto("read_pulse1", "idle")
  /\ rpv130_Pulse(1)
  /\ synced' = ~busy3
  /\ lost' = IF busy3 THEN 0
             ELSE IF synced THEN lost
             ELSE (trig - base) - evt_cnt
  /\ UNCHANGED <<trig, busy3, tdc, matched>>
  /\ UNCHANGED <<poll_i, run, evt_cnt, ev, begun, base>>

-----------------------------------------------------------------------------
Crate ==
  /\ Trigger \/ V006Converts \/ V1290Matches
  /\ UNCHANGED feVars

Operator == BeginRun \/ EndRun \/ PauseRun \/ ResumeRun \/ RunControlWhileDown

\* What the program does once it has been called.
Program ==
  \/ InitClear \/ InitReset
  \/ BorPulse1 \/ BorPulse2
  \/ StartPoll \/ PollHit \/ PollMiss \/ PollEnd \/ PollClear
  \/ ReadLam \/ ReadAdc0 \/ ReadAdc1 \/ ReadTdc
  \/ ReadPulse2 \/ ReadClear \/ ReadPulse1

Next == Crate \/ Operator \/ StartProcess \/ Kill \/ Program

Spec == Init /\ [][Next]_vars

\* A process that runs keeps running: nothing in it blocks, every call sleeps
\* for a bounded time at most.
FairSpec == Spec /\ WF_vars(Program)

-----------------------------------------------------------------------------
(***************************************************************************)
(* Properties.                                                             *)
(***************************************************************************)

\* The veto is never left behind: once a process has begun a run, a set flip
\* flop comes with a latched busy 3 that makes poll_event read the event, or
\* the program is on its way to reset it.  Otherwise no trigger would ever
\* pass again and poll_event would wait for one for ever.
NoStuckVeto ==
  begun /\ ff => busy3 \/ pc \in Reading \cup {"bor_pulse1"}

\* The event counter end_of_run reports never runs ahead of the triggers
\* accepted since begin_of_run: no trigger makes two events, none from before
\* the run is counted in it.
NoSurplusEvents ==
  begun => evt_cnt <= trig - base

\* Once in step, the banks of an event never mix two triggers: what
\* read_trigger_event reads is of the trigger that raised busy 3, or missing.
SyncedEventsCoherent ==
  synced /\ pc \in {"read_pulse2", "read_clear", "read_pulse1"} =>
    /\ ev.pha0 \in {trig, Unset}
    /\ ev.pha1 = ev.pha0
    /\ ev.tdc \in {trig, Nothing, Unset}

\* Once in step, the coincidence unit stays vetoed from the moment poll_event
\* sees busy 3 to the last access of read_trigger_event.
SyncedReadoutIsDead ==
  synced /\ pc \in Reading \cup {"poll_clear"} => ff

\* Once in step, every trigger becomes an event: the ones that have none are
\* those lost before, and the one the flip flop holds.
SyncedTriggersCounted ==
  synced =>
    trig - base = evt_cnt + lost + (IF ff /\ pc \notin Counted THEN 1 ELSE 0)

\* The readout, once in step, stays in step until the run ends or the process
\* dies, whatever the order of triggers, pauses and accesses.
SyncNeverLost ==
  [][synced /\ run' # "stopped" /\ pc' # "down" => synced']_vars

\* In a run this process has begun, the veto does not last: it is lifted,
\* unless the run is stopped or paused or the process dies.
VetoLifted ==
  (begun /\ ff /\ run = "running") ~> (~ff \/ run # "running" \/ ~begun)

\* The accesses of the program before the veto is lifted, at most, from each
\* place of a running run: the longest way is from a poll_event that had its
\* last look before the trigger came.
AccessesToLift ==
  CASE pc = "read_pulse1" -> 1 [] pc = "read_clear" -> 2 [] pc = "read_pulse2" -> 3
    [] pc = "read_tdc" -> 4 [] pc = "read_adc1" -> 5 [] pc = "read_adc0" -> 6
    [] pc = "read_lam" -> 7 [] pc = "poll_clear" -> 8
    [] pc = "poll" /\ poll_i < PollCount -> 9
    [] pc = "idle" -> 10
    [] OTHER -> 11

\* Why the veto is lifted: it lasts for eleven accesses at most, whatever the
\* detector, the modules and the readout before have done, as long as
\* poll_event looks at least once and the run goes on.
VetoAdvances ==
  [][begun /\ ff /\ run = "running" =>
       IF Program
       THEN ~ff' \/ AccessesToLift' < AccessesToLift
       ELSE UNCHANGED <<ff, AccessesToLift>> \/ run' # "running" \/ ~begun']_vars

\* The program always gets back to the main loop, which is where MIDAS can
\* deliver a transition of the run.
Responsive == []<>(pc \in {"idle", "down"})

\* What the run's books show, see RunLedger: the front end keeps them.
Books == IF ~begun THEN "none" ELSE IF synced THEN "strict" ELSE "loose"
Accepted == IF begun THEN trig - base ELSE 0
Recorded == IF begun THEN evt_cnt ELSE 0
Missing == IF begun THEN lost ELSE 0

Ledger ==
  INSTANCE RunLedger WITH books <- Books, accepted <- Accepted,
                          recorded <- Recorded, lost <- Missing

LedgerSpec == Ledger!Spec

-----------------------------------------------------------------------------
(***************************************************************************)
(* Two claims of the comments in src/frontend.cc that the code does not    *)
(* keep.                                                                   *)
(***************************************************************************)

\* "frontend_init: ... This routine should initialize the hardware."  Where
\* it returns into a run that is going on, no begin_of_run will come: a veto
\* that no latched busy 3 leads to the end of is not initialized hardware.
InitLiftsVeto ==
  [][pc = "init_reset" /\ pc' = "idle" /\ run = "running" =>
       (ff => busy3)']_vars

\* "Polling routine for events. Returns TRUE if event is available."  Where
\* it does in a run begun by this process, the V006 or the V1290N holds
\* something of a trigger, if only on its way.
PollReportsEvent ==
  [][begun /\ pc = "poll_clear" /\ pc' = "read_lam" =>
       adc # Nothing \/ tdc # <<>>]_vars

-----------------------------------------------------------------------------
(***************************************************************************)
(* The inductive invariant behind the properties.                          *)
(***************************************************************************)
B(P) == IF P THEN 1 ELSE 0

\* matched counts elements of tdc.
TdcInv == matched <= Len(tdc)

\* busy 3 is only lowered by the program, so it is still up where poll_event
\* is about to lower it.
PollInv == pc = "poll_clear" => busy3

\* MIDAS only polls and reads in a run that is running.
RunInv == pc \in Reading \cup {"poll", "poll_clear"} => run = "running"

\* Every event of the run, made or on its way, has a trigger of its own.
LedgerInv ==
  begun => /\ base <= trig
           /\ evt_cnt + B(busy3) + B(pc = "read_lam") <= trig - base

\* With busy 3 down no trigger has come since poll_event, so what the last
\* accesses of read_trigger_event have cleared is still clear.
ResetInv ==
  ~busy3 => /\ pc \in {"read_clear", "read_pulse1"} => adc = Nothing /\ ~lam
            /\ pc = "read_pulse1" => tdc = <<>> /\ matched = 0

\* In step, the flip flop, busy 3 and the program go together.
FlagShape ==
  synced => /\ run # "stopped"
            /\ pc \in {"idle", "poll", "poll_clear"} \cup Reading
            /\ ff => (busy3 <=> pc \in {"idle", "poll", "poll_clear"})
            /\ ~ff => pc \in {"idle", "poll"} /\ ~busy3

\* In step with no trigger held: all is clear.
SyncIdle ==
  /\ pc \in {"idle", "poll"}
  /\ ~busy3
  /\ adc = Nothing
  /\ ~lam
  /\ tdc = <<>>
  /\ matched = 0

\* In step with a trigger held: it is the only one anywhere.
SyncHeld ==
  /\ trig > 0
  /\ busy3 <=> pc \in {"idle", "poll", "poll_clear"}
  /\ IF pc \in {"read_clear", "read_pulse1"} THEN adc = Nothing /\ ~lam
                                             ELSE adc = trig
  /\ pc \in {"read_adc0", "read_adc1"} => lam
  /\ tdc = <<trig>> \/ tdc = <<>>
  /\ pc \notin {"read_pulse2", "read_clear", "read_pulse1"} => tdc # <<>>
  /\ pc = "read_pulse1" => tdc = <<>>

\* In step, the words of the event read so far.
SyncEvent ==
  /\ pc \in {"read_adc0", "read_adc1"} => ev.pha1 = Unset
  /\ pc = "read_adc0" => ev.pha0 = Unset
  /\ pc = "read_adc1" => ev.pha0 = trig
  /\ pc \in {"read_tdc", "read_pulse2", "read_clear", "read_pulse1"} =>
       ev.pha0 \in {trig, Unset} /\ ev.pha1 = ev.pha0
  /\ pc \in {"read_pulse2", "read_clear", "read_pulse1"} =>
       ev.tdc \in {trig, Nothing, Unset}

SyncShape ==
  synced => /\ run # "stopped"
            /\ pc \in {"idle", "poll", "poll_clear"} \cup Reading
            /\ IF ff THEN SyncHeld ELSE SyncIdle
            /\ SyncEvent

CountInv == IF synced THEN SyncedTriggersCounted ELSE lost = 0

\* What needs no history of the run.
BaseInv ==
  /\ TypeOK
  /\ TdcInv
  /\ PollInv
  /\ RunInv
  /\ NoStuckVeto
  /\ ResetInv

IInv ==
  /\ BaseInv
  /\ LedgerInv
  /\ SyncShape
  /\ CountInv
=============================================================================
