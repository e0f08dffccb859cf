-------------------------- MODULE TriggerHardware --------------------------
(***************************************************************************)
(* The crate the front end reads out, cabled as schematic/testdaq_v1.png   *)
(* shows, and the driver calls the front end makes on it.                  *)
(*                                                                         *)
(* A pulse of the NaI counter passes the coincidence unit unless the flip  *)
(* flop vetoes it.  A pulse that passes (a trigger) sets the flip flop,    *)
(* gates the V006 pulse-height ADC, latches "busy 3" of the RPV130 and     *)
(* triggers the V1290N TDC, all at once on the scale of a VME access.      *)
(* Output 1 of the RPV130 resets the flip flop, output 2 resets the V006.  *)
(*                                                                         *)
(* Data are abstracted to the number of the trigger they were taken from:  *)
(* 1, 2, 3 ... in the order the coincidence unit let them through.         *)
(***************************************************************************)
EXTENDS Integers, Sequences

CONSTANT MaxTrig    \* bound: triggers per behaviour

ASSUME MaxTrigAssumption == MaxTrig \in Nat

Nothing == 0        \* no trigger: an empty ADC, a bank of no words
Unset   == -1       \* words of an event nobody has written

Triggers == 1..MaxTrig

VARIABLES
  trig,     \* number of the latest trigger, 0 before the first
  ff,       \* the flip flop is set: the coincidence unit is vetoed
  busy3,    \* the RPV130 has latched its input (CSR 2, bit 7)
  adc,      \* trigger the V006 holds the pulse height of, or Nothing
  lam,      \* the V006 has finished converting it (bit 15 of a channel)
  tdc,      \* events of the V1290N, oldest first
  matched   \* how many of them have reached its output buffer

hwVars == <<trig, ff, busy3, adc, lam, tdc, matched>>

HwTypeOK ==
  /\ trig \in 0..MaxTrig
  /\ ff \in BOOLEAN
  /\ busy3 \in BOOLEAN
  /\ adc \in Triggers \cup {Nothing}
  /\ lam \in BOOLEAN
  /\ tdc \in Seq(Triggers)
  /\ matched \in Nat

HwInit ==
  /\ trig = 0
  /\ ff = FALSE
  /\ busy3 = FALSE
  /\ adc = Nothing
  /\ lam = FALSE
  /\ tdc = <<>>
  /\ matched = 0

-----------------------------------------------------------------------------
(***************************************************************************)
(* What the crate does by itself.  A second gate that reaches a V006 not   *)
(* reset since the first one replaces the held pulse height or leaves it:  *)
(* the code does not say, so both can happen.  Conversion in the V006 and  *)
(* trigger matching in the V1290N take their time, which is why the        *)
(* readout tests for data and has a "no data" branch for each.             *)
(***************************************************************************)
Trigger ==
  /\ ~ff
  /\ trig < MaxTrig
  /\ trig' = trig + 1
  /\ ff' = TRUE
  /\ busy3' = TRUE
  /\ \/ adc' = trig + 1
     \/ adc # Nothing /\ adc' = adc
  /\ tdc' = Append(tdc, trig + 1)
  /\ UNCHANGED <<lam, matched>>

V006Converts ==
  /\ adc # Nothing
  /\ ~lam
  /\ lam' = TRUE
  /\ UNCHANGED <<trig, ff, busy3, adc, tdc, matched>>

V1290Matches ==
  /\ matched < Len(tdc)
  /\ matched' = matched + 1
  /\ UNCHANGED <<trig, ff, busy3, adc, lam, tdc>>

-----------------------------------------------------------------------------
(***************************************************************************)
(* The driver calls.  A read is an expression, a write sets the primed     *)
(* variables of the module it addresses.                                   *)
(***************************************************************************)
rpv130_IsBusy3 == busy3

rpv130_ClearBusy3 == busy3' = FALSE

v006_clear ==
  /\ adc' = Nothing
  /\ lam' = FALSE

rpv130_Pulse(chn) ==
  /\ chn \in 1..8
  /\ ff' = (ff /\ chn # 1)
  /\ IF chn = 2 THEN v006_clear ELSE UNCHANGED <<adc, lam>>

v006_readLAM == lam

v006_adc == IF lam THEN adc ELSE Nothing

v1290_IsDataReady == matched > 0

v1290_EventRead ==
  /\ tdc' = Tail(tdc)
  /\ matched' = matched - 1

v1290_SoftClear ==
  /\ tdc' = <<>>
  /\ matched' = 0

v1290_ModuleReset ==
  /\ tdc' = <<>>
  /\ matched' = 0
=============================================================================
