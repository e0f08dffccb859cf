----------------------------- MODULE MCAnalyzer -----------------------------
(***************************************************************************)
(* Analyzer for TLC: banks with a hit in each channel, with two in one,    *)
(* with none in channel 0, with words of other types between them, and     *)
(* with one of a channel that is not connected; times below and above the  *)
(* 19 bits of the macro, and fields of all ones.                           *)
(***************************************************************************)
EXTENDS Analyzer

Hit(c, v) == Put(Measure, <<c, v, c % 2>>)
Head0 == Put(Header, <<1, 2>>)
Tail0 == Put(Trailer, <<0, 4, 2>>)

Late == 799999      \* 20 us

\* A word of each type, its fields at their upper ends.
AllFull ==
  [i \in 1..7 |->
     LET ty == <<Header, TdcHeader, Measure, TdcError, TdcTrailer, TimeTag,
                 Trailer>>[i]
     IN  Put(ty, [k \in 1..Len(Widths(ty)) |-> Widths(ty)[k] - 1])]

SomeBanks ==
  { <<Head0, Tail0>>,
    <<Hit(0, B19 - 1), Hit(1, 0), Hit(2, 40)>>,
    <<Head0, Hit(1, Late), Hit(0, Late - 40), Tail0>>,
    <<Hit(0, 400), Hit(2, Late), Hit(0, 1200)>>,
    <<Head0, Hit(2, 80), Hit(1, 80), Tail0>>,
    <<Hit(0, 800), Hit(31, B19), Hit(1, B19)>>,
    AllFull }
=============================================================================
