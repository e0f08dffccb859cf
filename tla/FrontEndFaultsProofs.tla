------------------------ MODULE FrontEndFaultsProofs ------------------------
(***************************************************************************)
(* Proofs about the front end on a bus that fails, for every number of     *)
(* triggers, looks and failures.  The steps whose access is made preserve  *)
(* the invariant of FrontEnd by the lemmas of FrontEndProofs; what is new  *)
(* is that begin_of_run, and the end of a clean readout, establish it from *)
(* the little that no failure disturbs.                                    *)
(***************************************************************************)
EXTENDS FrontEndFaults, FrontEndProofs

\* What the steps whose access is made keep, whatever failed before.
LEMMA WeakStep ==
  ASSUME TypeOK, TdcInv, RunInv, StoppedInv, Next
  PROVE  TypeOK' /\ TdcInv' /\ RunInv' /\ StoppedInv'
<1>1. TypeOK'
  BY TypeStep
<1>2. TdcInv'
  <2>1. CASE UNCHANGED <<tdc, matched>>
    BY <2>1 DEF TdcInv
  <2>2. CASE Trigger
    BY <2>2 DEF Trigger, TdcInv, TypeOK, HwTypeOK
  <2>3. CASE V1290Matches
    BY <2>3 DEF V1290Matches, TdcInv, TypeOK, HwTypeOK
  <2>4. CASE InitReset \/ ReadClear
    BY <2>4 DEF InitReset, ReadClear, v1290_ModuleReset, v1290_SoftClear, TdcInv
  <2>5. CASE ReadTdc
    <3>1. CASE v1290_IsDataReady /\ v1290_EventRead
      BY <3>1, DataReady DEF v1290_EventRead, TdcInv, TypeOK, HwTypeOK
    <3>2. CASE UNCHANGED <<tdc, matched>>
      BY <3>2 DEF TdcInv
    <3>3. QED
      BY <2>5, <3>1, <3>2 DEF ReadTdc
  <2>6. QED
    BY <2>1, <2>2, <2>3, <2>4, <2>5
    DEF Next, Crate, Operator, Program, V006Converts, BeginRun, EndRun,
        PauseRun, ResumeRun, RunControlWhileDown, StartProcess, Kill,
        InitClear, BorPulse1, BorPulse2, StartPoll, PollHit, PollMiss,
        PollEnd, PollClear, ReadLam, ReadAdc0, ReadAdc1, ReadPulse2,
        ReadPulse1, hwVars, feVars, histVars
<1>3. RunInv'
  BY DEF RunInv, Reading, Counted, Goto, Next, Crate, Operator, Program,
     BeginRun, EndRun, PauseRun, ResumeRun, RunControlWhileDown, StartProcess,
     Kill, InitClear, InitReset, BorPulse1, BorPulse2, StartPoll, PollHit,
     PollMiss, PollEnd, PollClear, ReadLam, ReadAdc0, ReadAdc1, ReadTdc,
     ReadPulse2, ReadClear, ReadPulse1, feVars, histVars
<1>4. StoppedInv'
  <2>1. CASE ReadPulse1
    BY <2>1 DEF ReadPulse1, StoppedInv, RunInv, Reading, Counted, Goto
  <2>2. CASE Kill \/ EndRun
    BY <2>2 DEF Kill, EndRun, StoppedInv
  <2>3. CASE ~Kill /\ ~EndRun /\ ~ReadPulse1
    <3>1. UNCHANGED <<synced, lost>>
      BY <2>3
      DEF Next, Crate, Operator, Program, BeginRun, PauseRun, ResumeRun,
          RunControlWhileDown, StartProcess, InitClear, InitReset, BorPulse1,
          BorPulse2, StartPoll, PollHit, PollMiss, PollEnd, PollClear,
          ReadLam, ReadAdc0, ReadAdc1, ReadTdc, ReadPulse2, ReadClear, feVars,
          histVars
    <3>2. pc' = "down" => pc = "down"
      BY <2>3
      DEF Goto, Next, Crate, Operator, Program, BeginRun, PauseRun, ResumeRun,
          RunControlWhileDown, StartProcess, InitClear, InitReset, BorPulse1,
          BorPulse2, StartPoll, PollHit, PollMiss, PollEnd, PollClear,
          ReadLam, ReadAdc0, ReadAdc1, ReadTdc, ReadPulse2, ReadClear, feVars
    <3>3. run' = "stopped" => run = "stopped" \/ pc = "down"
      BY <2>3
      DEF Goto, Next, Crate, Operator, Program, BeginRun, PauseRun, ResumeRun,
          RunControlWhileDown, StartProcess, InitClear, InitReset, BorPulse1,
          BorPulse2, StartPoll, PollHit, PollMiss, PollEnd, PollClear,
          ReadLam, ReadAdc0, ReadAdc1, ReadTdc, ReadPulse2, ReadClear, feVars
    <3>4. QED
      BY <3>1, <3>2, <3>3 DEF StoppedInv
  <2>4. QED
    BY <2>1, <2>2, <2>3
<1>5. QED
  BY <1>1, <1>2, <1>3, <1>4

\* A begin_of_run that is made establishes the invariant of FrontEnd.
LEMMA BeginRunRestores ==
  ASSUME TypeOK, TdcInv, RunInv, StoppedInv, BeginRun
  PROVE  IInv'
<1> USE DEF BeginRun, Goto, hwVars, histVars
<1>1. TypeOK' /\ TdcInv' /\ RunInv'
  BY WeakStep DEF Next, Operator
<1>2. PollInv' /\ NoStuckVeto' /\ ResetInv'
  BY DEF PollInv, NoStuckVeto, ResetInv, Reading, Counted
<1>3. LedgerInv'
  BY DEF LedgerInv, B, rpv130_ClearBusy3, TypeOK, HwTypeOK
<1>4. ~synced' /\ lost' = 0
  BY DEF StoppedInv
<1>5. QED
  BY <1>1, <1>2, <1>3, <1>4 DEF IInv, BaseInv, SyncShape, CountInv

\* So does the end of the process.
LEMMA KillRestores ==
  ASSUME TypeOK, TdcInv, RunInv, StoppedInv, Kill
  PROVE  IInv'
<1>1. TypeOK' /\ TdcInv' /\ RunInv'
  BY WeakStep DEF Next
<1>2. PollInv' /\ NoStuckVeto' /\ ResetInv' /\ LedgerInv'
  BY DEF Kill, PollInv, NoStuckVeto, ResetInv, LedgerInv
<1>3. ~synced' /\ lost' = 0
  BY DEF Kill
<1>4. QED
  BY <1>1, <1>2, <1>3 DEF IInv, BaseInv, SyncShape, CountInv

\* The part of it that a readout needs to get back in step is there as soon
\* as poll_event sees busy 3.
LEMMA PollHitRestores ==
  ASSUME TypeOK, TdcInv, RunInv, StoppedInv, PollHit
  PROVE  BaseInv'
<1>1. TypeOK' /\ TdcInv' /\ RunInv'
  BY WeakStep DEF Next, Program
<1>2. PollInv' /\ NoStuckVeto' /\ ResetInv'
  BY DEF PollHit, Goto, rpv130_IsBusy3, hwVars, PollInv, NoStuckVeto, ResetInv
<1>3. QED
  BY <1>1, <1>2 DEF BaseInv

-----------------------------------------------------------------------------
\* The read of the V1290N that goes wrong drops its oldest events.
LEMMA DropEvents ==
  ASSUME TypeOK, TdcInv, NEW n \in 0..matched,
         tdc' = SubSeq(tdc, n + 1, Len(tdc)),
         matched' = matched - n
  PROVE  tdc' \in Seq(Triggers) /\ matched' \in Nat /\ TdcInv'
<1>1. tdc \in Seq(Triggers) /\ matched \in Nat /\ matched <= Len(tdc)
  BY DEF TypeOK, HwTypeOK, TdcInv
<1>2. n + 1 \in 1..(Len(tdc) + 1)
  BY <1>1
<1>3. tdc' \in Seq(Triggers) /\ Len(tdc') = Len(tdc) - n
  BY <1>1, <1>2
<1>4. QED
  BY <1>1, <1>3 DEF TdcInv

\* What a failed access makes of the history variables.
LEMMA FailsTypes ==
  ASSUME Fails
  PROVE  health' \in Healths /\ synced' \in BOOLEAN /\ lost' \in Int
<1>1. synced' \in BOOLEAN
  BY Zenon DEF Fails
<1>2. health' \in Healths /\ lost' \in Int
  BY SMT DEF Fails, Healths
<1>3. QED
  BY <1>1, <1>2

\* A readout in step keeps its count whatever is left in the modules: the flip
\* flop, busy 3 and the program are enough to tell which triggers have events.
LEMMA CountStep ==
  ASSUME TypeOK, RunInv, StoppedInv, FlagShape, CountInv, Next
  PROVE  FlagShape' /\ CountInv'
<1> USE DEF Goto, Reading, Counted
<1> DEFINE Quiet == /\ UNCHANGED <<trig, ff, busy3, run, evt_cnt, base, synced, lost>>
                    /\ \/ pc' = pc
                       \/ pc \in {"down", "init_clear", "init_reset"}
                       \/ pc \in {"idle", "poll"} /\ pc' \in {"idle", "poll"}
                       \/ pc \in Reading /\ pc # "read_lam" /\ pc' \in Reading /\ pc' # "read_lam"
<1>1. CASE Quiet
  BY <1>1, Zenon DEF FlagShape, CountInv, SyncedTriggersCounted
<1>2. CASE Trigger /\ UNCHANGED feVars
  <2>1. CASE synced
    BY <1>2, <2>1 DEF Trigger, feVars, histVars, FlagShape, CountInv,
                      SyncedTriggersCounted, TypeOK, HwTypeOK
  <2>2. CASE ~synced
    BY <1>2, <2>2 DEF feVars, histVars, FlagShape, CountInv
  <2> QED  BY <2>1, <2>2
<1>3. CASE Kill \/ EndRun
  BY <1>3 DEF Kill, EndRun, FlagShape, CountInv
<1>4. CASE BeginRun
  <2>1. ~synced' /\ lost' = 0
    BY <1>4 DEF BeginRun, StoppedInv
  <2> QED  BY <2>1 DEF FlagShape, CountInv
<1>5. CASE RunControlWhileDown \/ BorPulse1 \/ BorPulse2
  <2>1. ~synced' /\ lost' = lost /\ ~synced
    BY <1>5 DEF RunControlWhileDown, BorPulse1, BorPulse2, FlagShape, histVars
  <2> QED  BY <2>1 DEF FlagShape, CountInv
<1>6. CASE PauseRun \/ ResumeRun
  BY <1>6 DEF PauseRun, ResumeRun, FlagShape, CountInv, SyncedTriggersCounted,
              hwVars, histVars
<1>7. CASE PollHit
  BY <1>7 DEF PollHit, FlagShape, CountInv, SyncedTriggersCounted, hwVars,
              histVars, rpv130_IsBusy3
<1>8. CASE PollClear
  BY <1>8 DEF PollClear, FlagShape, CountInv, SyncedTriggersCounted,
              histVars, rpv130_ClearBusy3
<1>9. CASE ReadLam
  <2>1. CASE synced
    BY <1>9, <2>1 DEF ReadLam, FlagShape, CountInv, SyncedTriggersCounted,
                      hwVars, histVars, TypeOK, HwTypeOK
  <2>2. CASE ~synced
    BY <1>9, <2>2 DEF ReadLam, histVars, FlagShape, CountInv
  <2> QED  BY <2>1, <2>2
<1>10. CASE ReadPulse1
  <2>1. pc = "read_pulse1" /\ pc' = "idle" /\ ~ff' /\ UNCHANGED <<trig, busy3, run, evt_cnt, base>>
    BY <1>10, PulseOutput1 DEF ReadPulse1
  <2>2. run = "running"
    BY <2>1 DEF RunInv
  <2>3. CASE busy3
    <3>1. ~synced' /\ lost' = 0
      BY <1>10, <2>3, Zenon DEF ReadPulse1
    <3> QED  BY <3>1 DEF FlagShape, CountInv
  <2>4. CASE ~busy3
    <3>1. FlagShape'
      BY <2>1, <2>2, <2>4 DEF FlagShape
    <3>2. synced' /\ lost' = IF synced THEN lost ELSE (trig - base) - evt_cnt
      BY <1>10, <2>4, Zenon DEF ReadPulse1
    <3>3. CASE synced
      <4>1. trig - base = evt_cnt + lost
        BY <2>1, <3>3 DEF CountInv, SyncedTriggersCounted, TypeOK, HwTypeOK
      <4> QED  BY <2>1, <3>1, <3>2, <3>3, <4>1 DEF CountInv, SyncedTriggersCounted, TypeOK
    <3>4. CASE ~synced
      <4>1. trig' - base' = evt_cnt' + lost'
        BY <2>1, <3>2, <3>4 DEF TypeOK, HwTypeOK
      <4>2. evt_cnt' + lost' + 0 = evt_cnt' + lost'
        BY <2>1, <3>2, <3>4 DEF TypeOK, HwTypeOK
      <4> QED  BY <2>1, <3>1, <3>2, <4>1, <4>2 DEF CountInv, SyncedTriggersCounted
    <3> QED  BY <3>3, <3>4
  <2> QED  BY <2>3, <2>4
<1>11. CASE \/ (V006Converts \/ V1290Matches) /\ UNCHANGED feVars
            \/ StartProcess \/ InitClear \/ InitReset \/ StartPoll \/ PollMiss \/ PollEnd
            \/ ReadAdc0 \/ ReadAdc1 \/ ReadTdc \/ ReadPulse2 \/ ReadClear
  <2>1. CASE (V006Converts \/ V1290Matches) /\ UNCHANGED feVars
    BY <1>1, <2>1 DEF V006Converts, V1290Matches, feVars, histVars
  <2>2. CASE StartProcess \/ InitClear \/ InitReset
    BY <1>1, <2>2 DEF StartProcess, InitClear, InitReset, hwVars, histVars
  <2>3. CASE StartPoll \/ PollMiss \/ PollEnd
    BY <1>1, <2>3 DEF StartPoll, PollMiss, PollEnd, hwVars, histVars
  <2>4. CASE ReadAdc0 \/ ReadAdc1 \/ ReadTdc \/ ReadClear
    BY <1>1, <2>4 DEF ReadAdc0, ReadAdc1, ReadTdc, ReadClear, hwVars, histVars
  <2>5. CASE ReadPulse2
    <3>1. ff' = ff
      BY <2>5, PulseOutput2 DEF ReadPulse2, TypeOK, HwTypeOK
    <3> QED  BY <1>1, <2>5, <3>1 DEF ReadPulse2, histVars
  <2> QED  BY ONLY <1>11, <2>1, <2>2, <2>3, <2>4, <2>5
<1> QED  BY <1>2, <1>3, <1>4, <1>5, <1>6, <1>7, <1>8, <1>9, <1>10, <1>11
         DEF Next, Crate, Operator, Program

\* What a failed access keeps.
LEMMA FaultKeeps ==
  ASSUME FaultTypeOK, TdcInv, RunInv, Fault
  PROVE  FaultTypeOK' /\ TdcInv' /\ RunInv'
<1>1. CASE TdcMisread
  <2>1. PICK n \in 0..matched : /\ tdc' = SubSeq(tdc, n + 1, Len(tdc))
                                /\ matched' = matched - n
    BY <1>1 DEF TdcMisread
  <2>2. tdc' \in Seq(Triggers) /\ matched' \in Nat /\ TdcInv'
    BY <2>1, DropEvents DEF FaultTypeOK
  <2>3. HwTypeOK'
    BY <1>1, <2>2 DEF TdcMisread, FaultTypeOK, TypeOK, HwTypeOK
  <2>4. ev' \in [pha0 : Words, pha1 : Words, tdc : Words]
    BY <1>1 DEF TdcMisread, Words, FaultTypeOK, TypeOK
  <2>5. RunInv' /\ pc' \in Labels
    BY <1>1 DEF TdcMisread, RunInv, Labels, Reading, Counted, Goto
  <2>6. health' \in Healths /\ synced' \in BOOLEAN /\ lost' \in Int
    <3>1. CASE Fails
      BY <3>1, FailsTypes
    <3>2. CASE UNCHANGED <<health, synced, lost>>
      BY <3>2 DEF FaultTypeOK, TypeOK
    <3>3. QED
      BY <1>1, <3>1, <3>2 DEF TdcMisread
  <2>7. /\ poll_i' \in 0..PollCount
        /\ run' \in RunStates
        /\ evt_cnt' \in Nat
        /\ begun' \in BOOLEAN
        /\ base' \in 0..MaxTrig
    BY <1>1 DEF TdcMisread, FaultTypeOK, TypeOK
  <2>8. QED
    BY <2>2, <2>3, <2>4, <2>5, <2>6, <2>7 DEF FaultTypeOK, TypeOK
<1>2. CASE ~TdcMisread
  <2> USE DEF Fault, LostWrite, BeginRunLost, BorPulse2Lost, EndRunLost,
              PollMisread, LamMisread, AdcMisread
  <2>1. Fails /\ UNCHANGED hwVars
    BY <1>2
  <2>2. HwTypeOK' /\ TdcInv'
    BY <2>1 DEF hwVars, HwTypeOK, TdcInv, FaultTypeOK, TypeOK
  <2>3. health' \in Healths /\ synced' \in BOOLEAN /\ lost' \in Int
    BY <2>1, FailsTypes
  <2>4. pc' \in Labels
    BY <1>2 DEF Goto, Labels, Reading, Counted, FaultTypeOK, TypeOK
  <2>5. run' \in RunStates
    BY <1>2 DEF RunStates, FaultTypeOK, TypeOK
  <2>6. poll_i' \in 0..PollCount
    BY <1>2, PollCountAssumption DEF FaultTypeOK, TypeOK
  <2>7. evt_cnt' \in Nat
    BY <1>2 DEF FaultTypeOK, TypeOK
  <2>8. begun' \in BOOLEAN
    BY <1>2 DEF FaultTypeOK, TypeOK
  <2>9. base' \in 0..MaxTrig
    BY <1>2 DEF FaultTypeOK, TypeOK, HwTypeOK
  <2>10. ev' \in [pha0 : Words, pha1 : Words, tdc : Words]
    BY <1>2 DEF BlankEvent, Words, FaultTypeOK, TypeOK
  <2>11. RunInv'
    BY <1>2 DEF RunInv, Goto, Reading, Counted
  <2>12. QED
    BY <2>2, <2>3, <2>4, <2>5, <2>6, <2>7, <2>8, <2>9, <2>10, <2>11
    DEF FaultTypeOK, TypeOK
<1>3. QED
  BY <1>1, <1>2

\* A failed access either leaves nothing to hold but that, or garbles the
\* V1290N bank of a readout that is being made without a failure.
LEMMA FaultStep ==
  ASSUME FaultInv, Fault
  PROVE  FaultInv'
<1>1. FaultTypeOK' /\ TdcInv' /\ RunInv'
  BY FaultKeeps DEF FaultInv
<1>2. StoppedInv'
  <2>1. CASE Fails
    BY <2>1 DEF Fails, StoppedInv
  <2>2. CASE TdcMisread /\ UNCHANGED <<health, synced, lost>>
    BY <2>2 DEF FaultInv, TdcMisread, Goto, StoppedInv
  <2>3. QED
    BY <2>1, <2>2 DEF Fault, LostWrite, BeginRunLost, BorPulse2Lost,
       EndRunLost, PollMisread, LamMisread, AdcMisread, TdcMisread
<1>3. CASE Fails
  BY <1>1, <1>2, <1>3 DEF Fails, FaultInv, ResyncedInv, FlagShape, CountInv
<1>4. CASE TdcMisread /\ health = "retrying" /\ UNCHANGED <<health, synced, lost>>
  <2>1. BaseInv'
    BY <1>1, <1>4
    DEF FaultInv, FaultTypeOK, BaseInv, TdcMisread, Goto, PollInv,
        NoStuckVeto, ResetInv, Reading, Counted
  <2>2. FlagShape' /\ CountInv'
    <3>1. /\ pc = "read_tdc" /\ pc' = "read_pulse2"
          /\ UNCHANGED <<trig, ff, busy3, run, evt_cnt, base, synced, lost>>
      BY <1>4 DEF TdcMisread, Goto
    <3>2. FlagShape /\ CountInv
      BY DEF FaultInv
    <3>3. QED
      BY <3>1, <3>2, Zenon DEF FlagShape, CountInv, SyncedTriggersCounted, Reading, Counted
  <2>3. QED
    BY <1>1, <1>2, <1>4, <2>1, <2>2 DEF FaultInv, ResyncedInv
<1>5. QED
  BY <1>3, <1>4 DEF Fault, LostWrite, BeginRunLost, BorPulse2Lost,
     EndRunLost, PollMisread, LamMisread, AdcMisread, TdcMisread

-----------------------------------------------------------------------------
\* A readout back in step leaves the main loop and the readout only by the
\* end of the process or a new run, and stays in step in this one.
LEMMA ResyncedStep ==
  ASSUME FaultInv, Next, health = "resynced",
         ~BeginRun, ~Kill
  PROVE  /\ pc' \in {"idle", "poll", "poll_clear"} \cup Reading
         /\ run' # "stopped" => synced'
         /\ SyncShape'
<1>1. BaseInv /\ SyncShape /\ TypeOK
  BY DEF FaultInv, FaultTypeOK, ResyncedInv
<1>2. SyncShape'
  BY <1>1, PartsStep
<1>3. pc \in {"idle", "poll", "poll_clear"} \cup Reading
  BY DEF FaultInv, ResyncedInv
<1>4. pc' \in {"idle", "poll", "poll_clear"} \cup Reading
  BY <1>3
  DEF Goto, Reading, Counted, Next, Crate, Operator, Program, EndRun,
      PauseRun, ResumeRun, RunControlWhileDown, StartProcess, InitClear,
      InitReset, BorPulse1, BorPulse2, StartPoll, PollHit, PollMiss, PollEnd,
      PollClear, ReadLam, ReadAdc0, ReadAdc1, ReadTdc, ReadPulse2, ReadClear,
      ReadPulse1, feVars
<1>5. ASSUME run' # "stopped" PROVE synced'
  <2>1. CASE ReadPulse1
    <3>1. run # "stopped"
      BY <1>5, <2>1 DEF ReadPulse1
    <3>2. synced /\ pc = "read_pulse1"
      BY <2>1, <3>1 DEF FaultInv, ResyncedInv, ReadPulse1, Goto
    <3>3. ~busy3
      BY <1>1, <3>2 DEF SyncShape, SyncHeld, SyncIdle
    <3>4. QED
      BY <2>1, <3>3, Zenon DEF ReadPulse1
  <2>2. CASE EndRun
    BY <1>5, <2>2 DEF EndRun
  <2>3. CASE ~ReadPulse1 /\ ~EndRun
    <3>1. synced' = synced
      BY <2>3
      DEF Next, Crate, Operator, Program, PauseRun, ResumeRun,
          RunControlWhileDown, StartProcess, InitClear, InitReset, BorPulse1,
          BorPulse2, StartPoll, PollHit, PollMiss, PollEnd, PollClear,
          ReadLam, ReadAdc0, ReadAdc1, ReadTdc, ReadPulse2, ReadClear, feVars,
          histVars
    <3>2. run # "stopped"
      BY <1>3, <1>5, <2>3
      DEF Goto, Reading, Counted, Next, Crate, Operator, Program, PauseRun,
          ResumeRun, RunControlWhileDown, StartProcess, InitClear, InitReset,
          BorPulse1, BorPulse2, StartPoll, PollHit, PollMiss, PollEnd,
          PollClear, ReadLam, ReadAdc0, ReadAdc1, ReadTdc, ReadPulse2,
          ReadClear, feVars
    <3>3. QED
      BY <3>1, <3>2 DEF FaultInv, ResyncedInv
  <2>4. QED
    BY <2>1, <2>2, <2>3
<1>6. QED
  BY <1>2, <1>4, <1>5

\* What the step of a clean access makes of the invariant.
LEMMA SucceedsStep ==
  ASSUME FaultInv, Succeeds
  PROVE  FaultInv'
<1> DEFINE Restarts == BeginRun \/ Kill
           Hit == health = "failed" /\ PollHit
           Ends == health = "retrying" /\ ReadPulse1 /\ ~busy3
<1>1. Next /\ health' = HealthAfter
  BY DEF Succeeds
<1>2. TypeOK' /\ TdcInv' /\ RunInv' /\ StoppedInv' /\ FlagShape' /\ CountInv'
  BY <1>1, WeakStep, CountStep DEF FaultInv, FaultTypeOK
<1>3. health' \in Healths
  BY <1>1 DEF HealthAfter, FaultInv, FaultTypeOK, Healths
<1>4. CASE Restarts
  <2>1. IInv'
    BY <1>4, BeginRunRestores, KillRestores DEF FaultInv, FaultTypeOK
  <2>2. health' = "sound"
    BY <1>1, <1>4 DEF HealthAfter, BeginRun, Kill, Goto
  <2>3. QED
    BY <1>2, <1>3, <2>1, <2>2 DEF FaultInv, FaultTypeOK, IInv, ResyncedInv
<1>5. CASE ~Restarts
  <2>1. /\ health' = "sound" => health = "sound"
        /\ health' = "retrying" => health = "retrying" \/ Hit
        /\ health' = "resynced" => health = "resynced" \/ Ends
    <3>1. ~(pc' # pc /\ pc' \in {"bor_pulse1", "down"})
      BY <1>1, <1>5
      DEF Goto, Next, Crate, Operator, Program, EndRun, PauseRun, ResumeRun,
          RunControlWhileDown, StartProcess, InitClear, InitReset, BorPulse1,
          BorPulse2, StartPoll, PollHit, PollMiss, PollEnd, PollClear,
          ReadLam, ReadAdc0, ReadAdc1, ReadTdc, ReadPulse2, ReadClear,
          ReadPulse1, feVars
    <3>2. pc = "poll" /\ pc' = "poll_clear" => PollHit
      BY <1>1, <1>5
      DEF Goto, Next, Crate, Operator, Program, EndRun, PauseRun, ResumeRun,
          RunControlWhileDown, StartProcess, InitClear, InitReset, BorPulse1,
          BorPulse2, StartPoll, PollMiss, PollEnd, PollClear,
          ReadLam, ReadAdc0, ReadAdc1, ReadTdc, ReadPulse2, ReadClear,
          ReadPulse1, feVars
    <3>3. pc = "read_pulse1" /\ pc' = "idle" => ReadPulse1
      BY <1>1, <1>5
      DEF Goto, Next, Crate, Operator, Program, EndRun, PauseRun, ResumeRun,
          RunControlWhileDown, StartProcess, InitClear, InitReset, BorPulse1,
          BorPulse2, StartPoll, PollHit, PollMiss, PollEnd, PollClear,
          ReadLam, ReadAdc0, ReadAdc1, ReadTdc, ReadPulse2, ReadClear,
          feVars
    <3>4. CASE pc = "poll" /\ pc' = "poll_clear" /\ health = "failed"
      BY <1>1, <3>1, <3>2, <3>4 DEF HealthAfter
    <3>5. CASE pc = "read_pulse1" /\ pc' = "idle" /\ health = "retrying"
      BY <1>1, <3>1, <3>3, <3>5 DEF HealthAfter
    <3>6. CASE /\ ~(pc = "poll" /\ pc' = "poll_clear" /\ health = "failed")
               /\ ~(pc = "read_pulse1" /\ pc' = "idle" /\ health = "retrying")
      BY <1>1, <3>1, <3>6 DEF HealthAfter
    <3>7. QED
      BY <3>4, <3>5, <3>6
  <2>2. health' = "sound" => IInv'
    BY <1>1, <2>1, InvStep DEF FaultInv
  <2>3. health' # "failed" => BaseInv'
    <3>1. health # "failed" => BaseInv'
      BY <1>1, PartsStep DEF FaultInv
    <3>2. Hit => BaseInv'
      BY PollHitRestores DEF FaultInv, FaultTypeOK
    <3>3. health' # "failed" => health # "failed" \/ Hit
      BY <1>3, <2>1 DEF Healths
    <3>4. QED
      BY <3>1, <3>2, <3>3
  <2>4. ResyncedInv'
    <3>1. CASE health = "resynced"
      BY <1>1, <1>5, <3>1, ResyncedStep DEF ResyncedInv
    <3>2. CASE Ends
      <4>1. SyncShape'
        BY <3>2, ReadoutEndsInStep DEF FaultInv
      <4>2. synced' /\ pc' = "idle"
        BY <3>2, Zenon DEF ReadPulse1, Goto
      <4>3. QED
        BY <4>1, <4>2 DEF ResyncedInv
    <3>3. CASE health # "resynced" /\ ~Ends
      BY <2>1, <3>3 DEF ResyncedInv
    <3>4. QED
      BY <3>1, <3>2, <3>3
  <2>5. QED
    BY <1>2, <1>3, <2>2, <2>3, <2>4 DEF FaultInv, FaultTypeOK
<1>6. QED
  BY <1>4, <1>5

-----------------------------------------------------------------------------
\* The invariant behind the recovery from failures holds in every state the
\* front end can reach on a bus that fails.
THEOREM FaultInvariance == FaultSpec => []FaultInv
<1>1. FaultInit => FaultInv
  <2>1. ASSUME FaultInit
        PROVE  IInv /\ FaultTypeOK /\ StoppedInv /\ ResyncedInv /\ FlagShape
    BY <2>1, InvInit
    DEF FaultInit, FaultTypeOK, Healths, IInv, BaseInv, StoppedInv,
        ResyncedInv, FlagShape, Init
  <2>2. QED
    BY <2>1 DEF FaultInv, IInv, BaseInv
<1>2. FaultInv /\ [FaultNext]_faultVars => FaultInv'
  <2>1. CASE FaultNext
    BY <2>1, SucceedsStep, FaultStep DEF FaultNext
  <2>2. CASE UNCHANGED faultVars
    <3>1. UNCHANGED vars /\ UNCHANGED health
      BY <2>2 DEF faultVars
    <3>2. ASSUME FaultInv PROVE FaultTypeOK' /\ TdcInv' /\ RunInv' /\ StoppedInv'
      <4>1. TypeOK'
        BY <3>1, <3>2, TypeStep DEF FaultInv, FaultTypeOK
      <4>2. TdcInv' /\ RunInv' /\ StoppedInv'
        BY <3>1, <3>2
        DEF FaultInv, TdcInv, RunInv, StoppedInv, vars, hwVars, feVars
      <4>3. QED
        BY <3>1, <3>2, <4>1, <4>2 DEF FaultInv, FaultTypeOK
    <3>3. ASSUME FaultInv, health = "sound" PROVE IInv'
      BY <3>1, <3>3, InvStep DEF FaultInv
    <3>4. ASSUME FaultInv, health # "failed" PROVE BaseInv'
      BY <3>1, <3>4, PartsStep DEF FaultInv
    <3>5. ASSUME FaultInv PROVE ResyncedInv'
      <4>1. CASE health = "resynced"
        <5>1. SyncShape'
          BY <3>1, <3>5, <4>1, PartsStep DEF FaultInv, ResyncedInv
        <5>2. QED
          BY <3>1, <3>5, <4>1, <5>1
          DEF FaultInv, ResyncedInv, vars, feVars
      <4>2. CASE health # "resynced"
        BY <3>1, <4>2 DEF ResyncedInv
      <4>3. QED
        BY <4>1, <4>2
    <3>6. ASSUME FaultInv PROVE FlagShape' /\ CountInv'
      BY <3>1, <3>6
      DEF FaultInv, FlagShape, CountInv, SyncedTriggersCounted, vars, hwVars,
          feVars, histVars
    <3>7. QED
      BY <3>1, <3>2, <3>3, <3>4, <3>5, <3>6 DEF FaultInv
  <2>3. QED
    BY <2>1, <2>2
<1>3. QED
  BY <1>1, <1>2, PTL DEF FaultSpec

\* Types are kept whatever fails.
THEOREM FaultTypeCorrect == FaultSpec => []FaultTypeOK
<1>1. FaultInv => FaultTypeOK
  BY DEF FaultInv
<1>2. QED
  BY <1>1, FaultInvariance, PTL

\* A begin_of_run that succeeds makes up for every failure before it.
THEOREM RunsRecover == FaultSpec => []RunRecovers
<1>1. FaultInv => RunRecovers
  <2>1. ASSUME IInv PROVE NoSurplusEvents
    BY <2>1 DEF IInv, BaseInv, TypeOK, HwTypeOK, LedgerInv, B, NoSurplusEvents
  <2>2. ASSUME IInv PROVE SyncedEventsCoherent
    BY <2>2 DEF IInv, SyncShape, SyncEvent, SyncedEventsCoherent
  <2>3. ASSUME IInv PROVE SyncedReadoutIsDead
    BY <2>3 DEF IInv, SyncShape, SyncIdle, SyncedReadoutIsDead, Reading, Counted
  <2>4. ASSUME IInv PROVE SyncedTriggersCounted
    BY <2>4 DEF IInv, CountInv, SyncedTriggersCounted
  <2>5. ASSUME IInv PROVE NoStuckVeto
    BY <2>5 DEF IInv, BaseInv
  <2>6. QED
    BY <2>1, <2>2, <2>3, <2>4, <2>5 DEF FaultInv, RunRecovers
<1>2. QED
  BY <1>1, FaultInvariance, PTL

\* So does, within a run, the first readout without a failure that ends with
\* busy 3 down.
THEOREM ReadoutsRecover == FaultSpec => []ReadoutRecovers
<1>1. FaultInv => ReadoutRecovers
  <2>1. ASSUME SyncShape PROVE SyncedEventsCoherent
    BY <2>1 DEF SyncShape, SyncEvent, SyncedEventsCoherent
  <2>2. ASSUME SyncShape PROVE SyncedReadoutIsDead
    BY <2>2 DEF SyncShape, SyncIdle, SyncedReadoutIsDead, Reading, Counted
  <2>3. ASSUME FaultInv, health = "resynced" PROVE NoStuckVeto
    BY <2>3 DEF FaultInv, BaseInv
  <2>4. QED
    BY <2>1, <2>2, <2>3 DEF FaultInv, ResyncedInv, ReadoutRecovers
<1>2. QED
  BY <1>1, FaultInvariance, PTL

\* From any readout that ends with busy 3 down until an access fails, every
\* trigger has its event, whatever the failures before it left.
THEOREM ReadoutsCount == FaultSpec => []ReadoutCounts
<1>1. FaultInv => ReadoutCounts
  BY DEF FaultInv, CountInv, SyncedTriggersCounted, ReadoutCounts
<1>2. QED
  BY <1>1, FaultInvariance, PTL

\* No access but a Pulse on output 1 can stop the data taking by failing.
THEOREM OnlyPulse1CanStick == FaultSpec => OnlyPulse1Sticks
<1> DEFINE Sticks == NoStuckVeto /\ ~NoStuckVeto' =>
                       /\ pc \in {"bor_pulse1", "read_pulse1"}
                       /\ health' = "failed"
<1>1. FaultInv /\ [FaultNext]_faultVars => [Sticks]_faultVars
  <2>1. ASSUME TypeOK, NoStuckVeto, Next PROVE NoStuckVeto'
    <3>1. CASE EndRun \/ BorPulse1 \/ ReadPulse1
      BY <3>1, PulseOutput1 DEF EndRun, BorPulse1, ReadPulse1, NoStuckVeto
    <3>2. CASE BorPulse2 \/ ReadPulse2
      <4>1. ff' = ff
        BY <2>1, <3>2, PulseOutput2 DEF BorPulse2, ReadPulse2, TypeOK, HwTypeOK
      <4>2. UNCHANGED <<busy3, begun>>
        BY <3>2 DEF BorPulse2, ReadPulse2, histVars
      <4>3. pc \in Reading \cup {"bor_pulse1"} => pc' \in Reading
        BY <3>2 DEF BorPulse2, ReadPulse2, Goto, Reading, Counted
      <4>4. QED
        BY <2>1, <4>1, <4>2, <4>3 DEF NoStuckVeto
    <3>3. CASE Trigger /\ UNCHANGED feVars
      BY <3>3 DEF Trigger, NoStuckVeto
    <3>4. CASE BeginRun \/ Kill \/ PollClear
      BY <3>4 DEF BeginRun, Kill, PollClear, Goto, NoStuckVeto, Reading
    <3>5. CASE ~(\/ EndRun \/ BorPulse1 \/ ReadPulse1 \/ BorPulse2
                 \/ ReadPulse2 \/ (Trigger /\ UNCHANGED feVars)
                 \/ BeginRun \/ Kill \/ PollClear)
      <4>1. UNCHANGED <<ff, busy3, begun>>
        BY <2>1, <3>5
        DEF Next, Crate, Operator, Program, V006Converts, V1290Matches,
            PauseRun, ResumeRun, RunControlWhileDown, StartProcess, InitClear,
            InitReset, StartPoll, PollHit, PollMiss, PollEnd, ReadLam,
            ReadAdc0, ReadAdc1, ReadTdc, ReadClear, hwVars, feVars, histVars
      <4>2. pc \in Reading \cup {"bor_pulse1"} => pc' \in Reading \cup {"bor_pulse1"}
        BY <2>1, <3>5
        DEF Reading, Counted, Goto, Next, Crate, Operator, Program, PauseRun,
            ResumeRun, RunControlWhileDown, StartProcess, InitClear,
            InitReset, StartPoll, PollHit, PollMiss, PollEnd, ReadLam,
            ReadAdc0, ReadAdc1, ReadTdc, ReadClear, feVars
      <4>3. QED
        BY <2>1, <4>1, <4>2 DEF NoStuckVeto
    <3>6. QED
      BY <3>1, <3>2, <3>3, <3>4, <3>5
  <2>2. ASSUME NoStuckVeto, Fault, ~NoStuckVeto'
        PROVE  pc \in {"bor_pulse1", "read_pulse1"} /\ health' = "failed"
    <3>1. CASE BeginRunLost \/ BorPulse2Lost \/ EndRunLost
      BY <2>2, <3>1
      DEF BeginRunLost, BorPulse2Lost, EndRunLost, Goto, hwVars, NoStuckVeto,
          Reading, Counted
    <3>2. CASE PollMisread \/ LamMisread \/ AdcMisread \/ TdcMisread
      BY <2>2, <3>2
      DEF PollMisread, LamMisread, AdcMisread, TdcMisread, Goto, hwVars,
          NoStuckVeto, Reading, Counted
    <3>3. CASE LostWrite
      BY <2>2, <3>3
      DEF LostWrite, Fails, Goto, hwVars, NoStuckVeto, Reading, Counted
    <3>4. QED
      BY <2>2, <3>1, <3>2, <3>3 DEF Fault
  <2>3. QED
    BY <2>1, <2>2 DEF FaultNext, Succeeds, FaultInv, FaultTypeOK
<1>2. QED
  BY <1>1, FaultInvariance, PTL DEF FaultSpec, OnlyPulse1Sticks

-----------------------------------------------------------------------------
(***************************************************************************)
(* The front end on a bus that fails implements FaultyLedger.              *)
(***************************************************************************)

\* What is a step of one ledger is one of the other.
LEMMA LedgerOfFaulty ==
  [Ledger!Next]_(Ledger!ledgerVars)
  => [FaultLedger!FaultyNext]_(FaultLedger!ledgerVars)
<1>1. Ledger!Next => FaultLedger!Next
  BY DEF Ledger!Next, Ledger!Begin, Ledger!Accept, Ledger!Record,
         Ledger!Balance, Ledger!End, Ledger!Abandon,
         FaultLedger!Next, FaultLedger!Begin, FaultLedger!Accept,
         FaultLedger!Record, FaultLedger!Balance, FaultLedger!End,
         FaultLedger!Abandon
<1>2. Ledger!Next => FaultLedger!FaultyNext
  BY <1>1 DEF FaultLedger!FaultyNext
<1>3. UNCHANGED Ledger!ledgerVars => UNCHANGED FaultLedger!ledgerVars
  BY DEF Ledger!ledgerVars, FaultLedger!ledgerVars
<1> QED BY <1>2, <1>3

\* A failed access unsettles books that were balanced, counts an event in
\* loosely kept ones, begins a run, or leaves the books alone.
LEMMA FaultBooks ==
  ASSUME FaultInv, Fault
  PROVE  [FaultLedger!FaultyNext]_(FaultLedger!ledgerVars)
<1> USE DEF Books, Accepted, Recorded, Missing
<1>1. /\ evt_cnt \in Int /\ trig \in Int /\ base \in Int /\ lost \in Int
      /\ begun \in BOOLEAN /\ synced \in BOOLEAN
  BY MaxTrigAssumption DEF FaultInv, FaultTypeOK, TypeOK, HwTypeOK
<1>2. ~synced => lost = 0
  BY DEF FaultInv, CountInv
<1>3. CASE TdcMisread /\ UNCHANGED <<health, synced, lost>>
  BY <1>3 DEF TdcMisread, FaultLedger!ledgerVars
<1>4. CASE Fails /\ BeginRunLost
  <2>1. ~synced
    BY <1>4 DEF BeginRunLost, FaultInv, FlagShape
  <2>2. FaultLedger!Begin
    BY <1>1, <1>4, <2>1 DEF BeginRunLost, Fails, hwVars, FaultLedger!Begin
  <2>3. QED
    BY <2>2 DEF FaultLedger!FaultyNext, FaultLedger!Next
<1>5. CASE Fails /\ ~BeginRunLost
  <2>1. /\ ~synced' /\ lost' = 0
        /\ UNCHANGED <<trig, begun, base>>
        /\ evt_cnt' \in {evt_cnt, evt_cnt + 1}
    BY <1>5
    DEF Fails, Fault, LostWrite, BorPulse2Lost, EndRunLost, PollMisread,
        LamMisread, AdcMisread, TdcMisread, hwVars
  <2>2. CASE ~begun
    BY <2>1, <2>2 DEF FaultLedger!ledgerVars
  <2>3. CASE begun /\ synced
    <3>1. FaultLedger!Slip
      BY <1>1, <2>1, <2>3 DEF FaultLedger!Slip
    <3>2. QED
      BY <3>1 DEF FaultLedger!FaultyNext
  <2>4. CASE begun /\ ~synced /\ evt_cnt' = evt_cnt + 1
    <3>1. FaultLedger!RecordLoosely
      BY <1>1, <1>2, <2>1, <2>4 DEF FaultLedger!RecordLoosely
    <3>2. QED
      BY <3>1 DEF FaultLedger!FaultyNext
  <2>5. CASE begun /\ ~synced /\ evt_cnt' = evt_cnt
    BY <1>2, <2>1, <2>5 DEF FaultLedger!ledgerVars
  <2>6. QED
    BY <2>1, <2>2, <2>3, <2>4, <2>5
<1>6. QED
  BY <1>3, <1>4, <1>5 DEF Fault, LostWrite, BeginRunLost, BorPulse2Lost,
     EndRunLost, PollMisread, LamMisread, AdcMisread, TdcMisread

\* Whatever fails, the books of a run are those of FaultyLedger: from the
\* readout that balances them to the next failure or the end of the run,
\* triggers and events take turns.
THEOREM FaultBooksKept == FaultSpec => FaultLedgerSpec
<1>1. FaultInit => FaultLedger!Init
  BY DEF FaultInit, Init, HwInit, FaultLedger!Init, Books, Accepted, Recorded,
         Missing
<1>2. ASSUME FaultInv, [FaultNext]_faultVars
      PROVE  [FaultLedger!FaultyNext]_(FaultLedger!ledgerVars)
  <2>1. TypeOK /\ FlagShape /\ CountInv
    BY <1>2 DEF FaultInv, FaultTypeOK
  <2>2. ASSUME [Next]_vars
        PROVE  [FaultLedger!FaultyNext]_(FaultLedger!ledgerVars)
    <3>1. CASE [Ledger!Next]_(Ledger!ledgerVars)
      BY <3>1, LedgerOfFaulty
    <3>2. CASE ReadLam /\ begun /\ ~synced
      <4>1. FaultLedger!RecordLoosely
        BY <2>1, <3>2
        DEF ReadLam, FaultLedger!RecordLoosely, Books, Accepted, Recorded,
            Missing, hwVars, histVars
      <4>2. QED
        BY <4>1 DEF FaultLedger!FaultyNext
    <3>3. QED
      BY <2>1, <2>2, <3>1, <3>2, LedgerStep
  <2>3. [FaultNext]_faultVars => [Next]_vars \/ Fault
    BY DEF FaultNext, Succeeds, faultVars
  <2>4. QED
    BY <1>2, <2>2, <2>3, FaultBooks
<1>3. FaultInv /\ [FaultNext]_faultVars
      => [FaultLedger!FaultyNext]_(FaultLedger!ledgerVars)
  BY <1>2
<1>4. QED
  BY <1>1, <1>3, FaultInvariance, PTL
  DEF FaultSpec, FaultLedgerSpec, FaultLedger!FaultySpec

\* A readout in step is not got out of it by anything that failures before it
\* have left: only a failed access, the end of the run or a kill does.
THEOREM SyncIsLostToFailures == FaultSpec => SyncLostToFailures
<1> DEFINE Kept == synced /\ Succeeds /\ run' # "stopped" /\ pc' # "down" => synced'
<1>1. ASSUME FaultInv, synced, Succeeds, run' # "stopped", pc' # "down"
      PROVE  synced'
  <2>1. CASE ReadPulse1
    <3>1. pc = "read_pulse1"
      BY <2>1 DEF ReadPulse1, Goto
    <3>2. ~busy3
      BY <1>1, <3>1 DEF FaultInv, FlagShape
    <3>3. QED
      BY <2>1, <3>2 DEF ReadPulse1
  <2>2. CASE EndRun \/ Kill
    BY <1>1, <2>2 DEF EndRun, Kill
  <2>3. CASE ~(ReadPulse1 \/ EndRun \/ Kill)
    BY <1>1, <2>3
    DEF Succeeds, Next, Crate, Operator, Program, feVars, histVars, BeginRun,
        PauseRun, ResumeRun, RunControlWhileDown, StartProcess, InitClear,
        InitReset, BorPulse1, BorPulse2, StartPoll, PollHit, PollMiss,
        PollEnd, PollClear, ReadLam, ReadAdc0, ReadAdc1, ReadTdc,
        ReadPulse2, ReadClear
  <2>4. QED
    BY <2>1, <2>2, <2>3
<1>2. FaultInv /\ [FaultNext]_faultVars => [Kept]_faultVars
  BY <1>1
<1>3. QED
  BY <1>2, FaultInvariance, PTL DEF FaultSpec, SyncLostToFailures
=============================================================================
