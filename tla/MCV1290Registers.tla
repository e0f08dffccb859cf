-------------------------- MODULE MCV1290Registers --------------------------
(***************************************************************************)
(* V1290Registers for TLC: all four bits clear, or all set, with nothing   *)
(* else or with everything else, so that a carry ends at any of them or    *)
(* leaves the register.                                                    *)
(***************************************************************************)
EXTENDS V1290Registers

AllFour == BusError + EmptyEvent + Compensation + EventFIFO
EndContents == {0, AllFour, B16 - 1 - AllFour, B16 - 1}
=============================================================================
