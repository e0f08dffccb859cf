----------------------------- MODULE V1290Words -----------------------------
(***************************************************************************)
(* The words of the V1290N's output buffer: what the macros of             *)
(* bit3_vme_drivers/v1290.h and v1290_Decode of v1290.c take out of them.  *)
(*                                                                         *)
(* A word of 32 bits is its type (bits 27 to 31) and its other 27 bits, so *)
(* that all numbers stay below 2^31.                                       *)
(***************************************************************************)
EXTENDS Integers, Sequences

\* The types of words.  Those of the TDCs come between a header and a trailer.
Measure    == 0
TdcHeader  == 1
TdcTrailer == 3
TdcError   == 4
Header     == 8
Trailer    == 16
TimeTag    == 17
Filler     == 24

Middle == {Measure, TdcHeader, TdcTrailer, TdcError}
WordTypes == Middle \cup {Header, Trailer, TimeTag, Filler}

\* 2^5, 2^12, 2^14, 2^16, 2^19, 2^21, 2^22, 2^24, 2^26 and 2^27
B5  == 32
B12 == 4096
B14 == 16384
B16 == 65536
B19 == 524288
B21 == 2097152
B22 == 4194304
B24 == 16777216
B26 == 67108864
B27 == 134217728

\* x & mask, where the mask has the bits from that of lo to that before hi.
Masked(x, lo, hi) == (x % hi) - (x % lo)

-----------------------------------------------------------------------------
(***************************************************************************)
(* What the module puts into a word, by its type.                          *)
(***************************************************************************)
Put(t, f) == [type |-> t, fields |-> f]

\* How many values each field of a word has, in the order v1290_Decode prints
\* them: a hit has channel, time in units of 25 ps and edge.
Widths(t) ==
  CASE t = Measure                   -> <<32, B21, 2>>
    [] t = Header                    -> <<B22, 32>>
    [] t \in {TdcHeader, TdcTrailer} -> <<4, B12, B12>>
    [] t = TdcError                  -> <<4, B14>>
    [] t = TimeTag                   -> <<B27>>
    [] t = Trailer                   -> <<8, B16, 32>>

IsPut(p) ==
  /\ p = Put(p.type, p.fields)
  /\ p.type \in WordTypes \ {Filler}
  /\ p.fields \in Seq(Int)
  /\ Len(p.fields) = Len(Widths(p.type))
  /\ \A i \in 1..Len(p.fields) : p.fields[i] \in 0..(Widths(p.type)[i] - 1)

Encode(p) ==
  LET f == p.fields
      rest == CASE p.type = Measure  -> f[1] * B21 + f[2] + f[3] * B26
                [] p.type = Header   -> f[1] * B5 + f[2]
                [] p.type = TdcError -> f[1] * B24 + f[2]
                [] p.type = TimeTag  -> f[1]
                [] p.type = Trailer  -> f[1] * B24 + f[2] * B5 + f[3]
                [] OTHER             -> f[1] * B24 + f[2] * B12 + f[3]
  IN  [type |-> p.type, rest |-> rest]

-----------------------------------------------------------------------------
(***************************************************************************)
(* What the code takes out of it.                                          *)
(***************************************************************************)
V1290_IS_TDC_MEASURE(w) == w.type = Measure

\* Mutant of V1290_GET_TDC_MSR_CHANNEL: shifted to where the mask begins.
ChannelFromMask(w) == Masked(w.rest, B19, B26) \div B19

V1290_GET_TDC_MSR_CHANNEL(w) == Masked(w.rest, B19, B26) \div B21

V1290_GET_TDC_MSR_MEASURE(w) == Masked(w.rest, 1, B19)

\* Mutant of HitTime: by the mask of the macro.
HitTimeShort(w) == Masked(w.rest, 1, B19)

\* V1290_DATA_MASK, v1290_Decode's own.
HitTime(w) == Masked(w.rest, 1, B21)

\* What v1290_Decode prints of a word, nothing of an unknown one.
v1290_Decode(w) ==
  CASE w.type = Measure ->
         << Masked(w.rest, B21, B26) \div B21, HitTime(w),
            Masked(w.rest, B26, B27) \div B26 >>
    [] w.type = Header ->
         << Masked(w.rest, B5, B27) \div B5, Masked(w.rest, 1, B5) >>
    [] w.type \in {TdcHeader, TdcTrailer} ->
         << Masked(w.rest, B24, B26) \div B24, Masked(w.rest, B12, B24) \div B12,
            Masked(w.rest, 1, B12) >>
    [] w.type = TimeTag ->
         << Masked(w.rest, 1, B27) >>
    [] w.type = Trailer ->
         << Masked(w.rest, B24, B27) \div B24, Masked(w.rest, B5, B21) \div B5,
            Masked(w.rest, 1, B5) >>
    [] w.type = TdcError ->
         << Masked(w.rest, B24, B26) \div B24, Masked(w.rest, 1, B14) >>
    [] OTHER -> <<>>
=============================================================================
