---------------------------- MODULE MCV1290Micro ----------------------------
(***************************************************************************)
(* Clients of the V1290N micro controller for TLC: the set-up of           *)
(* frontend_init, the driver's test program, and calls of every kind in    *)
(* any order.                                                              *)
(***************************************************************************)
EXTENDS V1290Micro

AnyCall ==
  { v1290_TriggerMatchingSet, v1290_AcqModeRead,
    v1290_SetWindowOffset(-60000), v1290_TriggerConfRead,
    v1290_EnableChannel(0, TRUE), v1290_WriteEnablePattern(\h1100),
    v1290_ReadEnablePattern }

AnyThree == <<AnyCall, AnyCall, AnyCall>>

\* A pattern that, taken as a command, is v, and what may be asked after it.
PatternFirst(v) ==
  << {v1290_WriteEnablePattern(v)},
     {v1290_TriggerMatchingSet, v1290_AcqModeRead, v1290_SetWindowWidth(20000)},
     {v1290_ReadEnablePattern} >>

\* Both loaded configurations differ from what is asked for.
TwoModes == {[r \in Regs |-> IF r = "mode" THEN m ELSE 0] : m \in 0..1}

NoneOrTwo == {<<>>, <<0, 3>>}

\* \h0500 loads all settings, and \h3900 is opaque.
Clients   == {FrontendSetup, AnyThree, PatternFirst(\h0500), PatternFirst(\h3900)}
SetupOnly == {FrontendSetup}
TestOnly  == {TestProgram}
=============================================================================
