---------------------------- MODULE MCV1290Event ----------------------------
(***************************************************************************)
(* V1290Event for TLC: an event of no hits, one of a hit and the trigger   *)
(* time tag, one of a hit between the words of its TDC.                    *)
(***************************************************************************)
EXTENDS V1290Event

SomeEvents ==
  { <<Header, Trailer>>,
    <<Header, Measure, TimeTag, Trailer>>,
    <<Header, TdcHeader, Measure, TdcTrailer, Trailer>> }
=============================================================================
