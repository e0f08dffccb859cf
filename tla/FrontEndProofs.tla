-------------------------- MODULE FrontEndProofs --------------------------
(***************************************************************************)
(* Proofs about the front end, for every number of triggers and every poll *)
(* count: IInv is an inductive invariant of Spec, the safety properties of *)
(* FrontEnd follow from it, and the books of a run (RunLedger) are kept.   *)
(***************************************************************************)
EXTENDS FrontEnd, TLAPS

\* What a pulse on output 1 (the flip flop) and on output 2 (the V006) does.
LEMMA PulseOutput1 ==
  ASSUME rpv130_Pulse(1)
  PROVE  ff' = FALSE /\ adc' = adc /\ lam' = lam
<1>1. ff' = FALSE
  BY Zenon DEF rpv130_Pulse
<1>2. adc' = adc /\ lam' = lam
  BY SMT DEF rpv130_Pulse
<1>3. QED
  BY <1>1, <1>2

\* A pulse on output 2 clears the V006 and leaves the flip flop.
LEMMA PulseOutput2 ==
  ASSUME ff \in BOOLEAN, rpv130_Pulse(2)
  PROVE  ff' = ff /\ adc' = Nothing /\ lam' = FALSE
  BY DEF rpv130_Pulse, v006_clear

\* Where the V1290N reports data, there is an oldest event to read.
LEMMA DataReady ==
  ASSUME TypeOK, TdcInv, v1290_IsDataReady
  PROVE  /\ Len(tdc) > 0
         /\ Head(tdc) \in Triggers
         /\ Tail(tdc) \in Seq(Triggers)
         /\ Len(Tail(tdc)) = Len(tdc) - 1
  BY DEF TypeOK, HwTypeOK, TdcInv, v1290_IsDataReady

-----------------------------------------------------------------------------
(***************************************************************************)
(* Types.  TdcInv is needed because an event is only read off a V1290N     *)
(* that has one.                                                           *)
(***************************************************************************)
LEMMA TypeInit ==
  ASSUME Init
  PROVE  TypeOK
<1> USE DEF Init, HwInit
<1>1. HwTypeOK
  <2>1. ff \in BOOLEAN /\ busy3 \in BOOLEAN /\ lam \in BOOLEAN
    OBVIOUS
  <2>2. /\ trig \in 0..MaxTrig
        /\ adc \in Triggers \cup {Nothing}
        /\ tdc \in Seq(Triggers)
        /\ matched \in Nat
    BY MaxTrigAssumption
  <2>3. QED
    BY <2>1, <2>2 DEF HwTypeOK
<1>2. pc \in Labels /\ run \in RunStates
  BY DEF Labels, RunStates
<1>3. /\ poll_i \in 0..PollCount
      /\ evt_cnt \in Nat
      /\ base \in 0..MaxTrig
      /\ lost \in Int
  BY MaxTrigAssumption, PollCountAssumption
<1>4. ev \in [pha0 : Words, pha1 : Words, tdc : Words]
  BY DEF BlankEvent, Words
<1>5. begun \in BOOLEAN /\ synced \in BOOLEAN
  OBVIOUS
<1>6. QED
  BY <1>1, <1>2, <1>3, <1>4, <1>5 DEF TypeOK

\* Every step keeps the types.
LEMMA TypeStep ==
  ASSUME TypeOK, TdcInv, [Next]_vars
  PROVE  TypeOK'
<1> USE MaxTrigAssumption, PollCountAssumption
<1> USE DEF TypeOK, HwTypeOK, Goto
<1>1. CASE Trigger /\ UNCHANGED feVars
  BY <1>1 DEF Trigger, feVars, Triggers, Nothing
<1>2. CASE V006Converts /\ UNCHANGED feVars
  BY <1>2 DEF V006Converts, feVars, Triggers, Nothing
<1>3. CASE V1290Matches /\ UNCHANGED feVars
  BY <1>3 DEF V1290Matches, feVars, Triggers, Nothing, TdcInv
<1>4. CASE BeginRun
  BY <1>4 DEF BeginRun, rpv130_ClearBusy3, Labels, RunStates, hwVars, histVars
<1>5. CASE EndRun
  <2>1. begun' \in BOOLEAN /\ synced' \in BOOLEAN
    BY <1>5 DEF EndRun
  <2>2. HwTypeOK'
    BY <1>5, PulseOutput1 DEF EndRun, hwVars, Triggers, Nothing
  <2>3. /\ pc' \in Labels
        /\ poll_i' \in 0..PollCount
        /\ run' \in RunStates
        /\ evt_cnt' \in Nat
        /\ ev' \in [pha0 : Words, pha1 : Words, tdc : Words]
        /\ base' \in 0..MaxTrig
        /\ lost' \in Int
    BY <1>5 DEF EndRun, Labels, RunStates, BlankEvent, Words
  <2>4. QED
    BY <2>1, <2>2, <2>3
<1>6. CASE PauseRun
  BY <1>6 DEF PauseRun, Labels, RunStates, hwVars, histVars
<1>7. CASE ResumeRun
  BY <1>7 DEF ResumeRun, Labels, RunStates, hwVars, histVars
<1>8. CASE RunControlWhileDown
  BY <1>8 DEF RunControlWhileDown, Labels, RunStates, hwVars, histVars
<1>9. CASE StartProcess
  BY <1>9 DEF StartProcess, Labels, RunStates, hwVars, histVars
<1>10. CASE Kill
  <2>1. begun' \in BOOLEAN /\ synced' \in BOOLEAN
    BY <1>10 DEF Kill
  <2>2. HwTypeOK'
    BY <1>10 DEF Kill, hwVars, Triggers, Nothing
  <2>3. /\ pc' \in Labels
        /\ poll_i' \in 0..PollCount
        /\ run' \in RunStates
        /\ evt_cnt' \in Nat
        /\ ev' \in [pha0 : Words, pha1 : Words, tdc : Words]
        /\ base' \in 0..MaxTrig
        /\ lost' \in Int
    BY <1>10 DEF Kill, Labels, RunStates, BlankEvent, Words
  <2>4. QED
    BY <2>1, <2>2, <2>3
<1>11. CASE InitClear
  BY <1>11
  DEF InitClear, v006_clear, Labels, Triggers, Nothing, RunStates, hwVars,
      histVars
<1>12. CASE InitReset
  BY <1>12
  DEF InitReset, v1290_ModuleReset, Labels, Triggers, Nothing, RunStates,
      hwVars, histVars
<1>13. CASE BorPulse1
  BY <1>13, PulseOutput1
  DEF BorPulse1, Labels, Triggers, Nothing, RunStates, hwVars, histVars
<1>14. CASE BorPulse2
  BY <1>14, PulseOutput2
  DEF BorPulse2, Labels, Triggers, Nothing, RunStates, hwVars, histVars
<1>15. CASE StartPoll
  BY <1>15 DEF StartPoll, Labels, RunStates, hwVars, histVars
<1>16. CASE PollHit
  BY <1>16 DEF PollHit, rpv130_IsBusy3, Labels, RunStates, hwVars, histVars
<1>17. CASE PollMiss
  BY <1>17 DEF PollMiss, rpv130_IsBusy3, Labels, RunStates, hwVars, histVars
<1>18. CASE PollEnd
  BY <1>18 DEF PollEnd, Labels, RunStates, hwVars, histVars
<1>19. CASE PollClear
  BY <1>19
  DEF PollClear, rpv130_ClearBusy3, Labels, Reading, Counted, Triggers,
      Nothing, RunStates, hwVars, histVars
<1>20. CASE ReadLam
  BY <1>20
  DEF ReadLam, v006_readLAM, BlankEvent, Labels, Reading, Counted, Words,
      RunStates, hwVars, histVars
<1>21. CASE ReadAdc0
  BY <1>21
  DEF ReadAdc0, v006_adc, Labels, Reading, Counted, Words, RunStates,
      hwVars, histVars
<1>22. CASE ReadAdc1
  BY <1>22
  DEF ReadAdc1, v006_adc, Labels, Reading, Counted, Words, RunStates,
      hwVars, histVars
<1>23. CASE ReadTdc
  <2>1. /\ pc' \in Labels
        /\ UNCHANGED <<trig, ff, busy3, adc, lam>>
        /\ UNCHANGED <<poll_i, run, evt_cnt, histVars>>
    BY <1>23 DEF ReadTdc, Labels, Reading, Counted
  <2>2. /\ tdc' \in Seq(Triggers)
        /\ matched' \in Nat
        /\ ev' \in [pha0 : Words, pha1 : Words, tdc : Words]
    <3>1. CASE v1290_IsDataReady
      <4>1. ev' = [ev EXCEPT !.tdc = Head(tdc)] /\ v1290_EventRead
        BY <1>23, <3>1 DEF ReadTdc
      <4>2. tdc' \in Seq(Triggers)
        BY <3>1, <4>1, DataReady DEF v1290_EventRead
      <4>3. matched' \in Nat
        BY <3>1, <4>1 DEF v1290_EventRead, v1290_IsDataReady
      <4>4. ev' \in [pha0 : Words, pha1 : Words, tdc : Words]
        <5>1. Head(tdc) \in Words
          BY <3>1, DataReady DEF Words
        <5>2. QED
          BY <4>1, <5>1
      <4>5. QED
        BY <4>2, <4>3, <4>4
    <3>2. CASE ~v1290_IsDataReady
      BY <1>23, <3>2 DEF ReadTdc, Words
    <3>3. QED
      BY <3>1, <3>2
  <2>3. QED
    BY <2>1, <2>2 DEF histVars
<1>24. CASE ReadPulse2
  BY <1>24, PulseOutput2
  DEF ReadPulse2, Labels, Reading, Counted, Triggers, Nothing, RunStates,
      hwVars, histVars
<1>25. CASE ReadClear
  BY <1>25
  DEF ReadClear, v1290_SoftClear, Labels, Reading, Counted, Triggers,
      Nothing, RunStates, hwVars, histVars
<1>26. CASE ReadPulse1
  BY <1>26, PulseOutput1
  DEF ReadPulse1, Labels, Reading, Counted, Triggers, Nothing, RunStates,
      hwVars, histVars
<1>27. CASE UNCHANGED vars
  BY <1>27 DEF vars, hwVars, feVars
<1>28. QED
  BY <1>1, <1>2, <1>3, <1>4, <1>5, <1>6, <1>7, <1>8, <1>9, <1>10, <1>11,
     <1>12, <1>13, <1>14, <1>15, <1>16, <1>17, <1>18, <1>19, <1>20, <1>21,
     <1>22, <1>23, <1>24, <1>25, <1>26, <1>27 DEF Next, Crate, Operator,
     Program

-----------------------------------------------------------------------------
(***************************************************************************)
(* The rest of the inductive invariant, from the types.                    *)
(***************************************************************************)
LEMMA InvInit ==
  ASSUME Init
  PROVE  IInv
<1> USE DEF Init, HwInit
<1>1. TypeOK
  BY TypeInit
<1>2. TdcInv /\ PollInv /\ RunInv /\ NoStuckVeto
  BY DEF TdcInv, PollInv, RunInv, NoStuckVeto, Reading, Counted
<1>3. LedgerInv /\ ResetInv /\ SyncShape /\ CountInv
  BY DEF LedgerInv, ResetInv, SyncShape, CountInv
<1>4. QED
  BY <1>1, <1>2, <1>3 DEF IInv, BaseInv

\* The last access of a readout finds the crate clear if busy 3 is down, by
\* what its accesses before have cleared: the readout is in step then.
LEMMA ReadoutEndsInStep ==
  ASSUME BaseInv, ReadPulse1
  PROVE  SyncShape'
<1> USE DEF BaseInv, ReadPulse1, Goto, histVars, hwVars
<1>1. CASE busy3
  BY <1>1 DEF SyncShape
<1>2. CASE ~busy3
  <2>1. SyncIdle' /\ SyncEvent'
    BY <1>2, PulseOutput1 DEF ResetInv, SyncIdle, SyncEvent
  <2>2. run # "stopped"
    BY DEF RunInv, Reading, Counted
  <2>3. QED
    BY <1>2, <2>1, <2>2, PulseOutput1 DEF SyncShape, Reading, Counted
<1>3. QED
  BY <1>1, <1>2

\* The parts of the invariant, step by step.  BaseInv needs none of the
\* others, the ledger needs only BaseInv, the count of a readout in step
\* needs its shape.
LEMMA PartsStep ==
  ASSUME BaseInv, [Next]_vars
  PROVE  /\ BaseInv'
         /\ LedgerInv => LedgerInv'
         /\ SyncShape => SyncShape'
         /\ SyncShape /\ CountInv => CountInv'
<1> USE DEF BaseInv, Goto
<1> USE DEF HwTypeOK, TypeOK
<1>1. TypeOK'
  BY TypeStep
<1>2. CASE Trigger /\ UNCHANGED feVars
  <2> USE DEF Trigger, feVars, histVars, hwVars
  <2>1. TdcInv' /\ PollInv' /\ RunInv' /\ NoStuckVeto'
    BY <1>2 DEF TdcInv, PollInv, RunInv, NoStuckVeto, Reading, Counted
  <2>2. (LedgerInv => LedgerInv') /\ ResetInv'
    BY <1>2 DEF LedgerInv, B, PollInv, ResetInv, Nothing
  <2>3. ASSUME SyncShape PROVE  SyncShape'
    <3>1. CASE synced
      <4>1. SyncIdle /\ SyncEvent
        BY <1>2, <2>3, <3>1 DEF SyncShape
      <4>2. tdc' = <<trig'>> /\ adc' = trig'
        BY <1>2, <4>1 DEF SyncIdle
      <4>3. SyncHeld'
        <5>1. busy3' <=> pc' \in {"idle", "poll", "poll_clear"}
          BY <1>2, <4>1 DEF SyncIdle
        <5>2. QED
          BY <1>2, <4>1, <4>2, <5>1 DEF SyncIdle, SyncHeld
      <4>4. SyncEvent'
        BY <1>2, <4>1 DEF SyncIdle, SyncEvent
      <4>5. QED
        BY <1>2, <2>3, <3>1, <4>3, <4>4 DEF SyncShape
    <3>2. CASE ~synced
      BY <1>2, <3>2 DEF SyncShape
    <3>3. QED
      BY <3>1, <3>2
  <2>4. ASSUME SyncShape, CountInv PROVE  CountInv'
    BY <1>2, <2>4
       DEF CountInv, SyncShape, SyncIdle, SyncedTriggersCounted, Counted
  <2>5. QED
    BY <1>1, <2>1, <2>2, <2>3, <2>4
<1>3. CASE V006Converts /\ UNCHANGED feVars
  <2> USE DEF V006Converts, feVars, histVars, hwVars
  <2>1. TdcInv' /\ PollInv' /\ RunInv' /\ NoStuckVeto'
    BY <1>3 DEF TdcInv, PollInv, RunInv, NoStuckVeto, Reading, Counted
  <2>2. (LedgerInv => LedgerInv') /\ ResetInv'
    BY <1>3 DEF LedgerInv, B, PollInv, ResetInv, Nothing
  <2>3. ASSUME SyncShape PROVE  SyncShape'
    BY <1>3, <2>3
       DEF SyncShape, SyncHeld, SyncIdle, SyncEvent,
           Reading, Counted, Nothing, Unset
  <2>4. ASSUME SyncShape, CountInv PROVE  CountInv'
    BY <1>3, <2>4
       DEF CountInv, SyncShape, SyncHeld, SyncIdle,
           SyncedTriggersCounted, Reading, Counted
  <2>5. QED
    BY <1>1, <2>1, <2>2, <2>3, <2>4
<1>4. CASE V1290Matches /\ UNCHANGED feVars
  <2> USE DEF V1290Matches, feVars, histVars, hwVars
  <2>1. TdcInv' /\ PollInv' /\ RunInv' /\ NoStuckVeto'
    BY <1>4 DEF TdcInv, PollInv, RunInv, NoStuckVeto, Reading, Counted
  <2>2. (LedgerInv => LedgerInv') /\ ResetInv'
    BY <1>4 DEF LedgerInv, B, PollInv, ResetInv, Nothing
  <2>3. ASSUME SyncShape PROVE  SyncShape'
    BY <1>4, <2>3
       DEF SyncShape, SyncHeld, SyncIdle, SyncEvent,
           Reading, Counted, Nothing, Unset, TdcInv
  <2>4. ASSUME SyncShape, CountInv PROVE  CountInv'
    BY <1>4, <2>4
       DEF CountInv, SyncShape, SyncHeld, SyncIdle,
           SyncedTriggersCounted, Reading, Counted
  <2>5. QED
    BY <1>1, <2>1, <2>2, <2>3, <2>4
<1>5. CASE BeginRun
  <2> USE DEF BeginRun, rpv130_ClearBusy3, histVars, hwVars
  <2>1. TdcInv' /\ PollInv' /\ RunInv' /\ NoStuckVeto'
    BY <1>5 DEF TdcInv, PollInv, RunInv, NoStuckVeto, Reading, Counted
  <2>2. (LedgerInv => LedgerInv') /\ ResetInv'
    BY <1>5 DEF LedgerInv, B, PollInv, ResetInv, Nothing
  <2>3. ASSUME SyncShape PROVE  SyncShape'
    BY <1>5, <2>3
       DEF SyncShape, SyncHeld, SyncIdle, SyncEvent,
           Reading, Counted, Nothing, Unset
  <2>4. ASSUME SyncShape, CountInv PROVE  CountInv'
    BY <1>5, <2>4
       DEF CountInv, SyncShape, SyncHeld, SyncIdle,
           SyncedTriggersCounted, Reading, Counted
  <2>5. QED
    BY <1>1, <2>1, <2>2, <2>3, <2>4
<1>6. CASE EndRun
  <2> USE DEF EndRun, histVars, hwVars
  <2>1. TdcInv' /\ PollInv' /\ RunInv' /\ NoStuckVeto'
    BY <1>6, PulseOutput1
    DEF TdcInv, PollInv, RunInv, NoStuckVeto, Reading, Counted
  <2>2. (LedgerInv => LedgerInv') /\ ResetInv'
    BY <1>6, PulseOutput1 DEF LedgerInv, B, PollInv, ResetInv, Nothing
  <2>3. ASSUME SyncShape PROVE  SyncShape'
    BY <1>6, PulseOutput1, <2>3
       DEF SyncShape, SyncHeld, SyncIdle, SyncEvent,
           Reading, Counted, Nothing, Unset
  <2>4. ASSUME SyncShape, CountInv PROVE  CountInv'
    BY <1>6, PulseOutput1, <2>4
       DEF CountInv, SyncShape, SyncHeld, SyncIdle,
           SyncedTriggersCounted, Reading, Counted
  <2>5. QED
    BY <1>1, <2>1, <2>2, <2>3, <2>4
<1>7. CASE PauseRun
  <2> USE DEF PauseRun, histVars, hwVars
  <2>1. TdcInv' /\ PollInv' /\ RunInv' /\ NoStuckVeto'
    BY <1>7 DEF TdcInv, PollInv, RunInv, NoStuckVeto, Reading, Counted
  <2>2. (LedgerInv => LedgerInv') /\ ResetInv'
    BY <1>7 DEF LedgerInv, B, PollInv, ResetInv, Nothing
  <2>3. ASSUME SyncShape PROVE  SyncShape'
    BY <1>7, <2>3
       DEF SyncShape, SyncHeld, SyncIdle, SyncEvent,
           Reading, Counted, Nothing, Unset
  <2>4. ASSUME SyncShape, CountInv PROVE  CountInv'
    BY <1>7, <2>4
       DEF CountInv, SyncShape, SyncHeld, SyncIdle,
           SyncedTriggersCounted, Reading, Counted
  <2>5. QED
    BY <1>1, <2>1, <2>2, <2>3, <2>4
<1>8. CASE ResumeRun
  <2> USE DEF ResumeRun, histVars, hwVars
  <2>1. TdcInv' /\ PollInv' /\ RunInv' /\ NoStuckVeto'
    BY <1>8 DEF TdcInv, PollInv, RunInv, NoStuckVeto, Reading, Counted
  <2>2. (LedgerInv => LedgerInv') /\ ResetInv'
    BY <1>8 DEF LedgerInv, B, PollInv, ResetInv, Nothing
  <2>3. ASSUME SyncShape PROVE  SyncShape'
    BY <1>8, <2>3
       DEF SyncShape, SyncHeld, SyncIdle, SyncEvent,
           Reading, Counted, Nothing, Unset
  <2>4. ASSUME SyncShape, CountInv PROVE  CountInv'
    BY <1>8, <2>4
       DEF CountInv, SyncShape, SyncHeld, SyncIdle,
           SyncedTriggersCounted, Reading, Counted
  <2>5. QED
    BY <1>1, <2>1, <2>2, <2>3, <2>4
<1>9. CASE RunControlWhileDown
  <2> USE DEF RunControlWhileDown, histVars, hwVars
  <2>1. TdcInv' /\ PollInv' /\ RunInv' /\ NoStuckVeto'
    BY <1>9 DEF TdcInv, PollInv, RunInv, NoStuckVeto, Reading, Counted
  <2>2. (LedgerInv => LedgerInv') /\ ResetInv'
    BY <1>9 DEF LedgerInv, B, PollInv, ResetInv, Nothing
  <2>3. ASSUME SyncShape PROVE  SyncShape'
    BY <1>9, <2>3
       DEF SyncShape, SyncHeld, SyncIdle, SyncEvent,
           Reading, Counted, Nothing, Unset
  <2>4. ASSUME SyncShape, CountInv PROVE  CountInv'
    BY <1>9, <2>4
       DEF CountInv, SyncShape, SyncHeld, SyncIdle,
           SyncedTriggersCounted, Reading, Counted
  <2>5. QED
    BY <1>1, <2>1, <2>2, <2>3, <2>4
<1>10. CASE StartProcess
  <2> USE DEF StartProcess, histVars, hwVars
  <2>1. TdcInv' /\ PollInv' /\ RunInv' /\ NoStuckVeto'
    BY <1>10 DEF TdcInv, PollInv, RunInv, NoStuckVeto, Reading, Counted
  <2>2. (LedgerInv => LedgerInv') /\ ResetInv'
    BY <1>10 DEF LedgerInv, B, PollInv, ResetInv, Nothing
  <2>3. ASSUME SyncShape PROVE  SyncShape'
    BY <1>10, <2>3
       DEF SyncShape, SyncHeld, SyncIdle, SyncEvent,
           Reading, Counted, Nothing, Unset
  <2>4. ASSUME SyncShape, CountInv PROVE  CountInv'
    BY <1>10, <2>4
       DEF CountInv, SyncShape, SyncHeld, SyncIdle,
           SyncedTriggersCounted, Reading, Counted
  <2>5. QED
    BY <1>1, <2>1, <2>2, <2>3, <2>4
<1>11. CASE Kill
  <2> USE DEF Kill, BlankEvent, histVars, hwVars
  <2>1. TdcInv' /\ PollInv' /\ RunInv' /\ NoStuckVeto'
    BY <1>11 DEF TdcInv, PollInv, RunInv, NoStuckVeto, Reading, Counted
  <2>2. (LedgerInv => LedgerInv') /\ ResetInv'
    BY <1>11 DEF LedgerInv, B, PollInv, ResetInv, Nothing
  <2>3. ASSUME SyncShape PROVE  SyncShape'
    BY <1>11, <2>3
       DEF SyncShape, SyncHeld, SyncIdle, SyncEvent,
           Reading, Counted, Nothing, Unset
  <2>4. ASSUME SyncShape, CountInv PROVE  CountInv'
    BY <1>11, <2>4
       DEF CountInv, SyncShape, SyncHeld, SyncIdle,
           SyncedTriggersCounted, Reading, Counted
  <2>5. QED
    BY <1>1, <2>1, <2>2, <2>3, <2>4
<1>12. CASE InitClear
  <2> USE DEF InitClear, v006_clear, histVars, hwVars
  <2>1. TdcInv' /\ PollInv' /\ RunInv' /\ NoStuckVeto'
    BY <1>12 DEF TdcInv, PollInv, RunInv, NoStuckVeto, Reading, Counted
  <2>2. (LedgerInv => LedgerInv') /\ ResetInv'
    BY <1>12 DEF LedgerInv, B, PollInv, ResetInv, Nothing
  <2>3. ASSUME SyncShape PROVE  SyncShape'
    BY <1>12, <2>3
       DEF SyncShape, SyncHeld, SyncIdle, SyncEvent,
           Reading, Counted, Nothing, Unset
  <2>4. ASSUME SyncShape, CountInv PROVE  CountInv'
    BY <1>12, <2>4
       DEF CountInv, SyncShape, SyncHeld, SyncIdle,
           SyncedTriggersCounted, Reading, Counted
  <2>5. QED
    BY <1>1, <2>1, <2>2, <2>3, <2>4
<1>13. CASE InitReset
  <2> USE DEF InitReset, v1290_ModuleReset, histVars, hwVars
  <2>1. TdcInv' /\ PollInv' /\ RunInv' /\ NoStuckVeto'
    BY <1>13 DEF TdcInv, PollInv, RunInv, NoStuckVeto, Reading, Counted
  <2>2. (LedgerInv => LedgerInv') /\ ResetInv'
    BY <1>13 DEF LedgerInv, B, PollInv, ResetInv, Nothing
  <2>3. ASSUME SyncShape PROVE  SyncShape'
    BY <1>13, <2>3
       DEF SyncShape, SyncHeld, SyncIdle, SyncEvent,
           Reading, Counted, Nothing, Unset
  <2>4. ASSUME SyncShape, CountInv PROVE  CountInv'
    BY <1>13, <2>4
       DEF CountInv, SyncShape, SyncHeld, SyncIdle,
           SyncedTriggersCounted, Reading, Counted
  <2>5. QED
    BY <1>1, <2>1, <2>2, <2>3, <2>4
<1>14. CASE BorPulse1
  <2> USE DEF BorPulse1, histVars, hwVars
  <2>1. TdcInv' /\ PollInv' /\ RunInv' /\ NoStuckVeto'
    BY <1>14, PulseOutput1
    DEF TdcInv, PollInv, RunInv, NoStuckVeto, Reading, Counted
  <2>2. (LedgerInv => LedgerInv') /\ ResetInv'
    BY <1>14, PulseOutput1 DEF LedgerInv, B, PollInv, ResetInv, Nothing
  <2>3. ASSUME SyncShape PROVE  SyncShape'
    BY <1>14, PulseOutput1, <2>3
       DEF SyncShape, SyncHeld, SyncIdle, SyncEvent,
           Reading, Counted, Nothing, Unset
  <2>4. ASSUME SyncShape, CountInv PROVE  CountInv'
    BY <1>14, PulseOutput1, <2>4
       DEF CountInv, SyncShape, SyncHeld, SyncIdle,
           SyncedTriggersCounted, Reading, Counted
  <2>5. QED
    BY <1>1, <2>1, <2>2, <2>3, <2>4
<1>15. CASE BorPulse2
  <2> USE DEF BorPulse2, histVars, hwVars
  <2>1. TdcInv' /\ PollInv' /\ RunInv' /\ NoStuckVeto'
    BY <1>15, PulseOutput2
    DEF TdcInv, PollInv, RunInv, NoStuckVeto, Reading, Counted
  <2>2. (LedgerInv => LedgerInv') /\ ResetInv'
    BY <1>15, PulseOutput2 DEF LedgerInv, B, PollInv, ResetInv, Nothing
  <2>3. ASSUME SyncShape PROVE  SyncShape'
    BY <1>15, PulseOutput2, <2>3
       DEF SyncShape, SyncHeld, SyncIdle, SyncEvent,
           Reading, Counted, Nothing, Unset
  <2>4. ASSUME SyncShape, CountInv PROVE  CountInv'
    BY <1>15, PulseOutput2, <2>4
       DEF CountInv, SyncShape, SyncHeld, SyncIdle,
           SyncedTriggersCounted, Reading, Counted
  <2>5. QED
    BY <1>1, <2>1, <2>2, <2>3, <2>4
<1>16. CASE StartPoll
  <2> USE DEF StartPoll, histVars, hwVars
  <2>1. TdcInv' /\ PollInv' /\ RunInv' /\ NoStuckVeto'
    BY <1>16 DEF TdcInv, PollInv, RunInv, NoStuckVeto, Reading, Counted
  <2>2. (LedgerInv => LedgerInv') /\ ResetInv'
    BY <1>16 DEF LedgerInv, B, PollInv, ResetInv, Nothing
  <2>3. ASSUME SyncShape PROVE  SyncShape'
    BY <1>16, <2>3
       DEF SyncShape, SyncHeld, SyncIdle, SyncEvent,
           Reading, Counted, Nothing, Unset
  <2>4. ASSUME SyncShape, CountInv PROVE  CountInv'
    BY <1>16, <2>4
       DEF CountInv, SyncShape, SyncHeld, SyncIdle,
           SyncedTriggersCounted, Reading, Counted
  <2>5. QED
    BY <1>1, <2>1, <2>2, <2>3, <2>4
<1>17. CASE PollHit
  <2> USE DEF PollHit, rpv130_IsBusy3, histVars, hwVars
  <2>1. TdcInv' /\ PollInv' /\ RunInv' /\ NoStuckVeto'
    BY <1>17 DEF TdcInv, PollInv, RunInv, NoStuckVeto, Reading, Counted
  <2>2. (LedgerInv => LedgerInv') /\ ResetInv'
    BY <1>17 DEF LedgerInv, B, PollInv, ResetInv, Nothing
  <2>3. ASSUME SyncShape PROVE  SyncShape'
    BY <1>17, <2>3
       DEF SyncShape, SyncHeld, SyncIdle, SyncEvent,
           Reading, Counted, Nothing, Unset
  <2>4. ASSUME SyncShape, CountInv PROVE  CountInv'
    BY <1>17, <2>4
       DEF CountInv, SyncShape, SyncHeld, SyncIdle,
           SyncedTriggersCounted, Reading, Counted
  <2>5. QED
    BY <1>1, <2>1, <2>2, <2>3, <2>4
<1>18. CASE PollMiss
  <2> USE DEF PollMiss, rpv130_IsBusy3, histVars, hwVars
  <2>1. TdcInv' /\ PollInv' /\ RunInv' /\ NoStuckVeto'
    BY <1>18 DEF TdcInv, PollInv, RunInv, NoStuckVeto, Reading, Counted
  <2>2. (LedgerInv => LedgerInv') /\ ResetInv'
    BY <1>18 DEF LedgerInv, B, PollInv, ResetInv, Nothing
  <2>3. ASSUME SyncShape PROVE  SyncShape'
    BY <1>18, <2>3
       DEF SyncShape, SyncHeld, SyncIdle, SyncEvent,
           Reading, Counted, Nothing, Unset
  <2>4. ASSUME SyncShape, CountInv PROVE  CountInv'
    BY <1>18, <2>4
       DEF CountInv, SyncShape, SyncHeld, SyncIdle,
           SyncedTriggersCounted, Reading, Counted
  <2>5. QED
    BY <1>1, <2>1, <2>2, <2>3, <2>4
<1>19. CASE PollEnd
  <2> USE DEF PollEnd, histVars, hwVars
  <2>1. TdcInv' /\ PollInv' /\ RunInv' /\ NoStuckVeto'
    BY <1>19 DEF TdcInv, PollInv, RunInv, NoStuckVeto, Reading, Counted
  <2>2. (LedgerInv => LedgerInv') /\ ResetInv'
    BY <1>19 DEF LedgerInv, B, PollInv, ResetInv, Nothing
  <2>3. ASSUME SyncShape PROVE  SyncShape'
    BY <1>19, <2>3
       DEF SyncShape, SyncHeld, SyncIdle, SyncEvent,
           Reading, Counted, Nothing, Unset
  <2>4. ASSUME SyncShape, CountInv PROVE  CountInv'
    BY <1>19, <2>4
       DEF CountInv, SyncShape, SyncHeld, SyncIdle,
           SyncedTriggersCounted, Reading, Counted
  <2>5. QED
    BY <1>1, <2>1, <2>2, <2>3, <2>4
<1>20. CASE PollClear
  <2> USE DEF PollClear, rpv130_ClearBusy3, histVars, hwVars
  <2>1. TdcInv' /\ PollInv' /\ RunInv' /\ NoStuckVeto'
    BY <1>20 DEF TdcInv, PollInv, RunInv, NoStuckVeto, Reading, Counted
  <2>2. (LedgerInv => LedgerInv') /\ ResetInv'
    BY <1>20 DEF LedgerInv, B, PollInv, ResetInv, Nothing
  <2>3. ASSUME SyncShape PROVE  SyncShape'
    <3>1. CASE synced
      <4>1. busy3
        BY <1>20 DEF PollInv
      <4>2. ff /\ SyncHeld
        BY <1>20, <2>3, <3>1, <4>1 DEF SyncShape, SyncIdle
      <4>3. busy3' <=> pc' \in {"idle", "poll", "poll_clear"}
        BY <1>20
      <4>4. SyncHeld'
        BY <1>20, <4>2, <4>3 DEF SyncHeld
      <4>5. SyncEvent'
        BY <1>20 DEF SyncEvent
      <4>6. QED
        BY <1>20, <2>3, <3>1, <4>2, <4>4, <4>5
        DEF SyncShape, Reading, Counted
    <3>2. CASE ~synced
      BY <1>20, <3>2 DEF SyncShape
    <3>3. QED
      BY <3>1, <3>2
  <2>4. ASSUME SyncShape, CountInv PROVE  CountInv'
    BY <1>20, <2>4 DEF CountInv, SyncedTriggersCounted, Counted
  <2>5. QED
    BY <1>1, <2>1, <2>2, <2>3, <2>4
<1>21. CASE ReadLam
  <2> USE DEF ReadLam, v006_readLAM, BlankEvent, histVars, hwVars
  <2>1. TdcInv' /\ PollInv' /\ RunInv' /\ NoStuckVeto'
    BY <1>21 DEF TdcInv, PollInv, RunInv, NoStuckVeto, Reading, Counted
  <2>2. (LedgerInv => LedgerInv') /\ ResetInv'
    BY <1>21 DEF LedgerInv, B, PollInv, ResetInv, Nothing
  <2>3. ASSUME SyncShape PROVE  SyncShape'
    BY <1>21, <2>3
       DEF SyncShape, SyncHeld, SyncIdle, SyncEvent,
           Reading, Counted, Nothing, Unset
  <2>4. ASSUME SyncShape, CountInv PROVE  CountInv'
    BY <1>21, <2>4
       DEF CountInv, SyncShape, SyncHeld, SyncIdle,
           SyncedTriggersCounted, Reading, Counted
  <2>5. QED
    BY <1>1, <2>1, <2>2, <2>3, <2>4
<1>22. CASE ReadAdc0
  <2> USE DEF ReadAdc0, v006_adc, histVars, hwVars
  <2>1. TdcInv' /\ PollInv' /\ RunInv' /\ NoStuckVeto'
    BY <1>22 DEF TdcInv, PollInv, RunInv, NoStuckVeto, Reading, Counted
  <2>2. (LedgerInv => LedgerInv') /\ ResetInv'
    BY <1>22 DEF LedgerInv, B, PollInv, ResetInv, Nothing
  <2>3. ASSUME SyncShape PROVE  SyncShape'
    BY <1>22, <2>3
       DEF SyncShape, SyncHeld, SyncIdle, SyncEvent,
           Reading, Counted, Nothing, Unset
  <2>4. ASSUME SyncShape, CountInv PROVE  CountInv'
    BY <1>22, <2>4
       DEF CountInv, SyncShape, SyncHeld, SyncIdle,
           SyncedTriggersCounted, Reading, Counted
  <2>5. QED
    BY <1>1, <2>1, <2>2, <2>3, <2>4
<1>23. CASE ReadAdc1
  <2> USE DEF ReadAdc1, v006_adc, histVars, hwVars
  <2>1. TdcInv' /\ PollInv' /\ RunInv' /\ NoStuckVeto'
    BY <1>23 DEF TdcInv, PollInv, RunInv, NoStuckVeto, Reading, Counted
  <2>2. (LedgerInv => LedgerInv') /\ ResetInv'
    BY <1>23 DEF LedgerInv, B, PollInv, ResetInv, Nothing
  <2>3. ASSUME SyncShape PROVE  SyncShape'
    BY <1>23, <2>3
       DEF SyncShape, SyncHeld, SyncIdle, SyncEvent,
           Reading, Counted, Nothing, Unset
  <2>4. ASSUME SyncShape, CountInv PROVE  CountInv'
    BY <1>23, <2>4
       DEF CountInv, SyncShape, SyncHeld, SyncIdle,
           SyncedTriggersCounted, Reading, Counted
  <2>5. QED
    BY <1>1, <2>1, <2>2, <2>3, <2>4
<1>24. CASE ReadTdc
  <2> USE DEF ReadTdc, v1290_IsDataReady, v1290_EventRead, histVars, hwVars
  <2>1. TdcInv' /\ PollInv' /\ RunInv' /\ NoStuckVeto'
    BY <1>24 DEF TdcInv, PollInv, RunInv, NoStuckVeto, Reading, Counted
  <2>2. (LedgerInv => LedgerInv') /\ ResetInv'
    BY <1>24 DEF LedgerInv, B, PollInv, ResetInv, Nothing
  <2>3. ASSUME SyncShape PROVE  SyncShape'
    <3>1. CASE synced
      <4>1. ff /\ SyncHeld /\ SyncEvent
        BY <1>24, <2>3, <3>1 DEF SyncShape, SyncIdle
      <4>2. SyncHeld'
        BY <1>24, <4>1 DEF SyncHeld
      <4>3. SyncEvent'
        BY <1>24, <4>1 DEF SyncHeld, SyncEvent, Nothing, Unset
      <4>4. QED
        BY <1>24, <2>3, <3>1, <4>1, <4>2, <4>3
        DEF SyncShape, Reading, Counted
    <3>2. CASE ~synced
      BY <1>24, <3>2 DEF SyncShape
    <3>3. QED
      BY <3>1, <3>2
  <2>4. ASSUME SyncShape, CountInv PROVE  CountInv'
    BY <1>24, <2>4 DEF CountInv, SyncedTriggersCounted, Counted
  <2>5. QED
    BY <1>1, <2>1, <2>2, <2>3, <2>4
<1>25. CASE ReadPulse2
  <2> USE DEF ReadPulse2, histVars, hwVars
  <2>1. TdcInv' /\ PollInv' /\ RunInv' /\ NoStuckVeto'
    BY <1>25, PulseOutput2
    DEF TdcInv, PollInv, RunInv, NoStuckVeto, Reading, Counted
  <2>2. (LedgerInv => LedgerInv') /\ ResetInv'
    BY <1>25, PulseOutput2 DEF LedgerInv, B, PollInv, ResetInv, Nothing
  <2>3. ASSUME SyncShape PROVE  SyncShape'
    BY <1>25, PulseOutput2, <2>3
       DEF SyncShape, SyncHeld, SyncIdle, SyncEvent,
           Reading, Counted, Nothing, Unset
  <2>4. ASSUME SyncShape, CountInv PROVE  CountInv'
    BY <1>25, PulseOutput2, <2>4
       DEF CountInv, SyncShape, SyncHeld, SyncIdle,
           SyncedTriggersCounted, Reading, Counted
  <2>5. QED
    BY <1>1, <2>1, <2>2, <2>3, <2>4
<1>26. CASE ReadClear
  <2> USE DEF ReadClear, v1290_SoftClear, histVars, hwVars
  <2>1. TdcInv' /\ PollInv' /\ RunInv' /\ NoStuckVeto'
    BY <1>26 DEF TdcInv, PollInv, RunInv, NoStuckVeto, Reading, Counted
  <2>2. (LedgerInv => LedgerInv') /\ ResetInv'
    BY <1>26 DEF LedgerInv, B, PollInv, ResetInv, Nothing
  <2>3. ASSUME SyncShape PROVE  SyncShape'
    BY <1>26, <2>3
       DEF SyncShape, SyncHeld, SyncIdle, SyncEvent,
           Reading, Counted, Nothing, Unset
  <2>4. ASSUME SyncShape, CountInv PROVE  CountInv'
    BY <1>26, <2>4
       DEF CountInv, SyncShape, SyncHeld, SyncIdle,
           SyncedTriggersCounted, Reading, Counted
  <2>5. QED
    BY <1>1, <2>1, <2>2, <2>3, <2>4
<1>27. CASE ReadPulse1
  <2> USE DEF ReadPulse1, histVars, hwVars
  <2>1. TdcInv' /\ PollInv' /\ RunInv' /\ NoStuckVeto'
    BY <1>27, PulseOutput1
    DEF TdcInv, PollInv, RunInv, NoStuckVeto, Reading, Counted
  <2>2. (LedgerInv => LedgerInv') /\ ResetInv'
    BY <1>27, PulseOutput1 DEF LedgerInv, B, PollInv, ResetInv, Nothing
  <2>3. SyncShape'
    BY <1>27, ReadoutEndsInStep
  <2>4. ASSUME SyncShape, CountInv PROVE  CountInv'
    <3>1. CASE busy3
      BY <1>27, <3>1 DEF CountInv
    <3>2. CASE ~busy3
      <4>1. trig - base = evt_cnt + lost'
        <5>1. CASE synced
          BY <1>27, <2>4, <3>2, <5>1
          DEF SyncShape, SyncIdle, CountInv, SyncedTriggersCounted, Counted
        <5>2. CASE ~synced
          BY <1>27, <3>2, <5>2
        <5>3. QED
          BY <5>1, <5>2
      <4>2. SyncedTriggersCounted'
        BY <1>27, <4>1, PulseOutput1 DEF SyncedTriggersCounted
      <4>3. QED
        BY <1>27, <3>2, <4>2 DEF CountInv
    <3>3. QED
      BY <3>1, <3>2
  <2>5. QED
    BY <1>1, <2>1, <2>2, <2>3, <2>4
<1>28. CASE UNCHANGED vars
  BY <1>1, <1>28 DEF vars, hwVars, feVars, TdcInv, PollInv, RunInv,
     NoStuckVeto, LedgerInv, ResetInv, SyncShape, CountInv, SyncHeld,
     SyncIdle, SyncEvent, SyncedTriggersCounted
<1>29. QED
  BY <1>2, <1>3, <1>4, <1>5, <1>6, <1>7, <1>8, <1>9, <1>10, <1>11, <1>12,
     <1>13, <1>14, <1>15, <1>16, <1>17, <1>18, <1>19, <1>20, <1>21, <1>22,
     <1>23, <1>24, <1>25, <1>26, <1>27, <1>28 DEF Next, Crate, Operator,
     Program

\* The invariant is inductive.
LEMMA InvStep ==
  ASSUME IInv, [Next]_vars
  PROVE  IInv'
  BY PartsStep DEF IInv

-----------------------------------------------------------------------------
(***************************************************************************)
(* Theorems.                                                               *)
(***************************************************************************)

\* The inductive invariant holds in every state the front end can reach.
THEOREM Invariance == Spec => []IInv
<1>1. Init => IInv
  BY InvInit
<1>2. IInv /\ [Next]_vars => IInv'
  BY InvStep
<1>3. QED
  BY <1>1, <1>2, PTL DEF Spec

\* Every variable keeps its type, whatever the order of triggers, accesses,
\* transitions of the run and kills of the process.
THEOREM TypeCorrect == Spec => []TypeOK
<1>1. IInv => TypeOK
  BY DEF IInv, BaseInv
<1>2. QED
  BY <1>1, Invariance, PTL

\* begin_of_run, end_of_run and read_trigger_event never leave a veto behind
\* that no latched busy 3 and no readout under way will lift.
THEOREM VetoNeverStuck == Spec => []NoStuckVeto
<1>1. IInv => NoStuckVeto
  BY DEF IInv, BaseInv
<1>2. QED
  BY <1>1, Invariance, PTL

\* The number of events end_of_run reports never exceeds the number of
\* triggers accepted since begin_of_run.
THEOREM EventsHaveTriggers == Spec => []NoSurplusEvents
<1>1. IInv => NoSurplusEvents
  <2>1. CASE begun
    BY <2>1, MaxTrigAssumption
    DEF IInv, BaseInv, TypeOK, HwTypeOK, LedgerInv, B, NoSurplusEvents
  <2>2. CASE ~begun
    BY <2>2 DEF NoSurplusEvents
  <2>3. QED
    BY <2>1, <2>2
<1>2. QED
  BY <1>1, Invariance, PTL

\* Once the readout is in step, read_trigger_event never puts words of two
\* triggers into one event.
THEOREM EventsCoherent == Spec => []SyncedEventsCoherent
<1>1. IInv => SyncedEventsCoherent
  BY DEF IInv, BaseInv, SyncShape, CountInv, SyncEvent, SyncedEventsCoherent
<1>2. QED
  BY <1>1, Invariance, PTL

\* Once the readout is in step, no trigger is accepted between the moment
\* poll_event sees busy 3 and the last access of read_trigger_event.
THEOREM ReadoutIsDead == Spec => []SyncedReadoutIsDead
<1>1. IInv => SyncedReadoutIsDead
  <2>1. SUFFICES ASSUME IInv, synced, pc \in Reading \cup {"poll_clear"}
                 PROVE  ff
    BY DEF SyncedReadoutIsDead
  <2>2. IF ff THEN SyncHeld ELSE SyncIdle
    BY <2>1 DEF IInv, BaseInv, SyncShape, CountInv
  <2>3. pc \notin {"idle", "poll"}
    BY <2>1 DEF Reading, Counted
  <2>4. QED
    BY <2>2, <2>3 DEF SyncIdle
<1>2. QED
  BY <1>1, Invariance, PTL

\* Once the readout is in step, evt_cnt counts every trigger but the one the
\* flip flop holds and those lost before.
THEOREM TriggersCounted == Spec => []SyncedTriggersCounted
<1>1. IInv => SyncedTriggersCounted
  BY DEF IInv, BaseInv, SyncShape, CountInv, SyncedTriggersCounted
<1>2. QED
  BY <1>1, Invariance, PTL

\* Once in step, the readout stays in step until the run ends or the process
\* dies: no order of triggers, pauses and accesses gets it out of step.
THEOREM SyncIsKept == Spec => SyncNeverLost
<1> DEFINE Kept == synced /\ run' # "stopped" /\ pc' # "down" => synced'
<1>1. ASSUME IInv, Next
      PROVE  Kept
  <2> SUFFICES ASSUME synced, run' # "stopped", pc' # "down"
               PROVE  synced'
    OBVIOUS
  <2>1. CASE ReadPulse1
    <3>1. pc = "read_pulse1"
      BY <2>1 DEF ReadPulse1, Goto
    <3>2. ~busy3
      BY <1>1, <3>1 DEF IInv, BaseInv, SyncShape, CountInv, SyncHeld, SyncIdle
    <3>3. QED
      BY <2>1, <3>2 DEF ReadPulse1
  <2>2. CASE EndRun
    BY <2>2 DEF EndRun
  <2>3. CASE Kill
    BY <2>3 DEF Kill
  <2>4. CASE ~(ReadPulse1 \/ EndRun \/ Kill)
    <3>1. synced' = synced
      BY <1>1, <2>4
      DEF Next, Crate, Operator, Program, feVars, histVars, BeginRun,
          PauseRun, ResumeRun, RunControlWhileDown, StartProcess, InitClear,
          InitReset, BorPulse1, BorPulse2, StartPoll, PollHit, PollMiss,
          PollEnd, PollClear, ReadLam, ReadAdc0, ReadAdc1, ReadTdc,
          ReadPulse2, ReadClear
    <3>2. QED
      BY <3>1
  <2>5. QED
    BY <2>1, <2>2, <2>3, <2>4
<1>2. IInv /\ [Next]_vars => [Kept]_vars
  BY <1>1
<1>3. QED
  BY <1>2, Invariance, PTL DEF Spec, SyncNeverLost

-----------------------------------------------------------------------------
(***************************************************************************)
(* The front end implements RunLedger.  Of its steps, Trigger maps to      *)
(* Accept, BeginRun to Begin, ReadLam to Record, ReadPulse1 to Balance,    *)
(* EndRun to End, Kill to Abandon, where this process has begun a run;     *)
(* the others leave the books alone.                                       *)
(***************************************************************************)
LEMMA BooksUnchanged ==
  ASSUME UNCHANGED <<trig, evt_cnt, histVars>>
  PROVE  UNCHANGED Ledger!ledgerVars
  BY DEF Ledger!ledgerVars, histVars, Books, Accepted, Recorded, Missing

\* Nor do they where no run has begun, before or after the step.
LEMMA BooksClosed ==
  ASSUME ~begun, ~begun'
  PROVE  UNCHANGED Ledger!ledgerVars
  BY DEF Ledger!ledgerVars, Books, Accepted, Recorded, Missing

\* What the crate looks like in step tells where the program is.
LEMMA ShapeFlags ==
  ASSUME SyncShape
  PROVE  FlagShape
  BY DEF SyncShape, SyncHeld, SyncIdle, FlagShape

\* In step, a trigger comes and an event is read when it is their turn.
LEMMA Turns ==
  ASSUME TypeOK, FlagShape, CountInv, synced
  PROVE  /\ ~ff => trig - base = evt_cnt + lost
         /\ pc = "read_lam" => trig - base = evt_cnt + lost + 1
<1>1. trig - base = evt_cnt + lost + (IF ff /\ pc \notin Counted THEN 1 ELSE 0)
  BY DEF CountInv, SyncedTriggersCounted
<1>2. pc = "read_lam" => ff /\ pc \notin Counted
  BY DEF FlagShape, Counted
<1>3. QED
  BY <1>1, <1>2 DEF TypeOK, HwTypeOK

\* Every step of the front end is one of the ledger, or none, or records an
\* event in loosely kept books.  Of the crate only the flip flop and busy 3
\* matter, so this is so whatever is left in its modules.
LEMMA LedgerStep ==
  ASSUME TypeOK, FlagShape, CountInv, [Next]_vars
  PROVE  \/ [Ledger!Next]_(Ledger!ledgerVars)
         \/ ReadLam /\ begun /\ ~synced
<1> USE DEF Books, Accepted, Recorded, Missing
<1>1. /\ evt_cnt \in Int /\ trig \in Int /\ base \in Int /\ lost \in Int
      /\ begun \in BOOLEAN /\ synced \in BOOLEAN
  BY MaxTrigAssumption DEF TypeOK, HwTypeOK
<1>2. CASE Trigger /\ UNCHANGED feVars
  <2>1. CASE begun
    <3>1. synced => trig - base = evt_cnt + lost
      BY <1>2, Turns DEF Trigger
    <3>2. Ledger!Accept
      BY <1>1, <1>2, <2>1, <3>1 DEF Ledger!Accept, Trigger, feVars
    <3>3. QED
      BY <3>2 DEF Ledger!Next
  <2>2. CASE ~begun
    BY <1>2, <2>2, BooksClosed DEF feVars
  <2>3. QED
    BY <2>1, <2>2
<1>3. CASE BeginRun
  <2>1. ~synced /\ lost = 0
    BY <1>3 DEF BeginRun, FlagShape, CountInv
  <2>2. Ledger!Begin
    BY <1>1, <1>3, <2>1 DEF BeginRun, Ledger!Begin
  <2>3. QED
    BY <2>2 DEF Ledger!Next
<1>4. CASE ReadLam
  <2>1. CASE begun /\ synced
    <3>1. evt_cnt + lost < trig - base
      BY <1>1, <1>4, <2>1, Turns DEF ReadLam
    <3>2. Ledger!Record
      BY <1>1, <1>4, <2>1, <3>1 DEF ReadLam, Ledger!Record, hwVars, histVars
    <3>3. QED
      BY <3>2 DEF Ledger!Next
  <2>2. CASE ~begun
    BY <1>4, <2>2, BooksClosed DEF ReadLam, histVars
  <2>3. QED
    BY <1>4, <2>1, <2>2
<1>5. CASE ReadPulse1
  <2>1. CASE ~begun
    BY <1>5, <2>1, BooksClosed DEF ReadPulse1
  <2>2. CASE begun /\ synced
    <3>1. ~busy3
      BY <1>5, <2>2 DEF FlagShape, ReadPulse1, Goto
    <3>2. QED
      BY <1>5, <2>2, <3>1 DEF ReadPulse1, Ledger!ledgerVars
  <2>3. CASE begun /\ ~synced /\ busy3
    BY <1>5, <2>3 DEF ReadPulse1, CountInv, Ledger!ledgerVars
  <2>4. CASE begun /\ ~synced /\ ~busy3
    <3>1. Ledger!Balance
      BY <1>1, <1>5, <2>4 DEF ReadPulse1, Ledger!Balance
    <3>2. QED
      BY <3>1 DEF Ledger!Next
  <2>5. QED
    BY <2>1, <2>2, <2>3, <2>4
<1>6. CASE EndRun
  <2>1. CASE ~begun
    BY <1>6, <2>1, BooksClosed DEF EndRun
  <2>2. CASE begun /\ synced
    <3>1. Ledger!End
      BY <1>1, <1>6, <2>2 DEF EndRun, Ledger!End
    <3>2. QED
      BY <3>1 DEF Ledger!Next
  <2>3. CASE begun /\ ~synced
    BY <1>6, <2>3 DEF EndRun, CountInv, Ledger!ledgerVars
  <2>4. QED
    BY <2>1, <2>2, <2>3
<1>7. CASE Kill
  <2>1. Ledger!Abandon
    BY <1>7 DEF Kill, Ledger!Abandon
  <2>2. QED
    BY <2>1 DEF Ledger!Next
<1>8. CASE ~(\/ Trigger /\ UNCHANGED feVars
             \/ BeginRun \/ ReadLam \/ ReadPulse1 \/ EndRun \/ Kill)
  <2>1. UNCHANGED <<trig, evt_cnt, histVars>>
    BY <1>8
    DEF Next, vars, Crate, Operator, Program, hwVars, feVars, histVars,
        V006Converts, V1290Matches, PauseRun, ResumeRun,
        RunControlWhileDown, StartProcess, InitClear, InitReset, BorPulse1,
        BorPulse2, StartPoll, PollHit, PollMiss, PollEnd, PollClear,
        ReadAdc0, ReadAdc1, ReadTdc, ReadPulse2, ReadClear
  <2>2. QED
    BY <2>1, BooksUnchanged
<1>9. CASE UNCHANGED vars
  BY <1>9, BooksUnchanged DEF vars, hwVars, feVars, histVars
<1>10. QED
  BY <1>2, <1>3, <1>4, <1>5, <1>6, <1>7, <1>8, <1>9
  DEF Next, Crate, Operator, Program

\* Where no access fails, even the events in loosely kept books have triggers.
LEMMA LooseRecord ==
  ASSUME IInv, ReadLam, begun, ~synced
  PROVE  Ledger!Record
<1>1. evt_cnt \in Int /\ trig \in Int /\ base \in Int
  BY MaxTrigAssumption DEF IInv, BaseInv, TypeOK, HwTypeOK
<1>2. lost = 0 /\ pc = "read_lam"
  BY DEF ReadLam, IInv, CountInv
<1>3. evt_cnt + lost < trig - base
  BY <1>1, <1>2 DEF IInv, LedgerInv, B
<1>4. QED
  BY <1>1, <1>3
  DEF ReadLam, Ledger!Record, Books, Accepted, Recorded, Missing, hwVars, histVars

\* Every behaviour of the front end keeps the books of RunLedger.
THEOREM BooksKept == Spec => LedgerSpec
<1>1. Init => Ledger!Init
  BY DEF Init, HwInit, Ledger!Init, Books, Accepted, Recorded, Missing
<1>2. IInv /\ [Next]_vars => [Ledger!Next]_(Ledger!ledgerVars)
  <2>1. IInv => TypeOK /\ FlagShape /\ CountInv
    BY ShapeFlags DEF IInv, BaseInv
  <2>2. IInv /\ ReadLam /\ begun /\ ~synced => Ledger!Next
    BY LooseRecord DEF Ledger!Next
  <2>3. QED
    BY <2>1, <2>2, LedgerStep
<1>3. QED
  BY <1>1, <1>2, Invariance, PTL DEF Spec, LedgerSpec, Ledger!Spec

-----------------------------------------------------------------------------
(***************************************************************************)
(* Why the veto is lifted.                                                 *)
(***************************************************************************)
\* A process that has begun a run is past frontend_init, and begin_of_run is
\* made where none is running.
PlaceInv ==
  /\ begun => pc \notin {"down", "init_clear", "init_reset"}
  /\ pc \in {"bor_pulse1", "bor_pulse2"} => run = "stopped"

\* It holds of every behaviour of the front end.
LEMMA Places == Spec => []PlaceInv
<1>1. Init => PlaceInv
  BY DEF Init, PlaceInv
<1>2. PlaceInv /\ [Next]_vars => PlaceInv'
  <2> SUFFICES ASSUME PlaceInv, [Next]_vars PROVE PlaceInv'
    OBVIOUS
  <2>1. CASE UNCHANGED vars
    BY <2>1 DEF PlaceInv, vars, feVars
  <2>2. CASE Crate
    BY <2>2 DEF PlaceInv, Crate, feVars
  <2>3. CASE Operator
    BY <2>3 DEF PlaceInv, Operator, BeginRun, EndRun, PauseRun, ResumeRun,
                RunControlWhileDown, histVars, Goto
  <2>4. CASE StartProcess \/ Kill
    BY <2>4 DEF PlaceInv, StartProcess, Kill, histVars, Goto
  <2>5. CASE InitClear \/ InitReset \/ BorPulse1 \/ BorPulse2
    BY <2>5 DEF PlaceInv, InitClear, InitReset, BorPulse1, BorPulse2, histVars, Goto
  <2>6. CASE StartPoll \/ PollHit \/ PollMiss \/ PollEnd \/ PollClear
    BY <2>6 DEF PlaceInv, StartPoll, PollHit, PollMiss, PollEnd, PollClear,
                histVars, Goto
  <2>7. CASE ReadLam \/ ReadAdc0 \/ ReadAdc1 \/ ReadTdc
    BY <2>7 DEF PlaceInv, ReadLam, ReadAdc0, ReadAdc1, ReadTdc, histVars, Goto
  <2>8. CASE ReadPulse2 \/ ReadClear \/ ReadPulse1
    BY <2>8 DEF PlaceInv, ReadPulse2, ReadClear, ReadPulse1, histVars, Goto
  <2> QED BY <2>1, <2>2, <2>3, <2>4, <2>5, <2>6, <2>7, <2>8 DEF Next, Program
<1> QED BY <1>1, <1>2, PTL DEF Spec

\* Where the flip flop is set in a running run, each access of the program is
\* one of at most eleven to the end of the veto.  That poll_event does not miss
\* the event is what NoStuckVeto is needed for.
THEOREM VetoIsLifted ==
  ASSUME PollCount > 0
  PROVE  Spec => VetoAdvances
<1> DEFINE Step ==
      begun /\ ff /\ run = "running" =>
        IF Program
        THEN ~ff' \/ AccessesToLift' < AccessesToLift
        ELSE UNCHANGED <<ff, AccessesToLift>> \/ run' # "running" \/ ~begun'
<1>1. ASSUME BaseInv, PlaceInv, Next, begun, ff, run = "running", Program
      PROVE  ~ff' \/ AccessesToLift' < AccessesToLift
  <2>1. pc \in {"idle", "poll", "poll_clear"} \cup Reading
    BY <1>1 DEF BaseInv, TypeOK, Labels, PlaceInv
  <2>2. pc \in {"idle", "poll", "poll_clear"} => busy3
    BY <1>1 DEF BaseInv, NoStuckVeto, Reading, Counted
  <2>3. CASE StartPoll \/ PollEnd
    BY <2>3, PollCountAssumption DEF StartPoll, PollEnd, Goto, AccessesToLift
  <2>4. CASE PollHit \/ PollClear
    BY <2>4 DEF PollHit, PollClear, Goto, AccessesToLift
  <2>5. ~PollMiss
    BY <2>2 DEF PollMiss, rpv130_IsBusy3
  <2>6. CASE ReadLam \/ ReadAdc0 \/ ReadAdc1 \/ ReadTdc
    BY <2>6 DEF ReadLam, ReadAdc0, ReadAdc1, ReadTdc, Goto, AccessesToLift
  <2>7. CASE ReadPulse2 \/ ReadClear
    BY <2>7 DEF ReadPulse2, ReadClear, Goto, AccessesToLift
  <2>8. CASE ReadPulse1
    BY <2>8 DEF ReadPulse1, rpv130_Pulse
  <2>9. ~InitClear /\ ~InitReset /\ ~BorPulse1 /\ ~BorPulse2
    BY <1>1 DEF PlaceInv, InitClear, InitReset, BorPulse1, BorPulse2, Goto
  <2> QED BY <1>1, <2>3, <2>4, <2>5, <2>6, <2>7, <2>8, <2>9 DEF Program
<1>2. ASSUME PlaceInv, Next, begun, ff, run = "running", ~Program
      PROVE  UNCHANGED <<ff, AccessesToLift>> \/ run' # "running" \/ ~begun'
  <2>1. CASE Crate
    BY <1>2, <2>1
    DEF Crate, Trigger, V006Converts, V1290Matches, feVars, AccessesToLift
  <2>2. CASE Operator
    BY <1>2, <2>2 DEF Operator, BeginRun, EndRun, PauseRun, ResumeRun,
                      RunControlWhileDown, PlaceInv
  <2>3. CASE StartProcess
    BY <1>2, <2>3 DEF StartProcess, PlaceInv, Goto
  <2>4. CASE Kill
    BY <2>4 DEF Kill
  <2> QED BY <1>2, <2>1, <2>2, <2>3, <2>4 DEF Next
<1>3. BaseInv /\ PlaceInv /\ [Next]_vars => [Step]_vars
  BY <1>1, <1>2
<1>4. IInv => BaseInv
  BY DEF IInv
<1> QED BY <1>3, <1>4, Invariance, Places, PTL DEF Spec, VetoAdvances
=============================================================================
