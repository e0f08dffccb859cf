-------------------------- MODULE V1290WordsProofs --------------------------
(***************************************************************************)
(* What v1290_Decode and the macros of v1290.h take out of the words of    *)
(* the V1290N, proved for every value of every field.                      *)
(***************************************************************************)
EXTENDS V1290Words, TLAPS

-----------------------------------------------------------------------------
(***************************************************************************)
(* The words, by their types: what lies between two bits of a sum of       *)
(* fields is the field put there.                                          *)
(***************************************************************************)
\* A hit: channel, time, edge, and what the macros of v1290.h take for the
\* first two.
LEMMA MeasureFields ==
  ASSUME NEW c \in Int, 0 <= c, c < 32,
         NEW v \in Int, 0 <= v, v < B21,
         NEW e \in Int, 0 <= e, e < 2
  PROVE  LET x == c * B21 + v + e * B26
         IN  /\ Masked(x, B21, B26) \div B21 = c
             /\ Masked(x, 1, B21) = v
             /\ Masked(x, B26, B27) \div B26 = e
             /\ Masked(x, B19, B26) \div B21 = c
             /\ Masked(x, 1, B19) = v % B19
<1> DEFINE x == c * B21 + v + e * B26
<1>1. Masked(x, B21, B26) \div B21 = c
  BY SMT DEF Masked, B19, B21, B26, B27
<1>2. Masked(x, 1, B21) = v
  BY SMT DEF Masked, B19, B21, B26, B27
<1>3. Masked(x, B26, B27) \div B26 = e
  BY SMT DEF Masked, B19, B21, B26, B27
<1>4. Masked(x, B19, B26) \div B21 = c
  BY SMT DEF Masked, B19, B21, B26, B27
<1>5. Masked(x, 1, B19) = v % B19
  BY SMT DEF Masked, B19, B21, B26, B27
<1> QED
  BY <1>1, <1>2, <1>3, <1>4, <1>5

\* A header: event count and address.
LEMMA HeaderFields ==
  ASSUME NEW n \in Int, 0 <= n, n < B22,
         NEW g \in Int, 0 <= g, g < 32
  PROVE  LET x == n * B5 + g
         IN  /\ Masked(x, B5, B27) \div B5 = n
             /\ Masked(x, 1, B5) = g
<1> DEFINE x == n * B5 + g
<1>1. Masked(x, B5, B27) \div B5 = n
  BY SMT DEF Masked, B5, B22, B27
<1>2. Masked(x, 1, B5) = g
  BY SMT DEF Masked, B5, B22, B27
<1> QED
  BY <1>1, <1>2

\* A trigger time tag, all of the 27 bits.
LEMMA TagField ==
  ASSUME NEW n \in Int, 0 <= n, n < B27
  PROVE  Masked(n, 1, B27) = n
BY SMT DEF Masked, B27

\* A header or trailer of a TDC: its number, the event, bunch or word count.
LEMMA TdcFields ==
  ASSUME NEW d \in Int, 0 <= d, d < 4,
         NEW i \in Int, 0 <= i, i < B12,
         NEW n \in Int, 0 <= n, n < B12
  PROVE  LET x == d * B24 + i * B12 + n
         IN  /\ Masked(x, B24, B26) \div B24 = d
             /\ Masked(x, B12, B24) \div B12 = i
             /\ Masked(x, 1, B12) = n
<1> DEFINE x == d * B24 + i * B12 + n
<1>1. Masked(x, B24, B26) \div B24 = d
  BY SMT DEF Masked, B12, B24, B26
<1>2. Masked(x, B12, B24) \div B12 = i
  BY SMT DEF Masked, B12, B24, B26
<1>3. Masked(x, 1, B12) = n
  BY SMT DEF Masked, B12, B24, B26
<1> QED
  BY <1>1, <1>2, <1>3

\* An error of a TDC: its number and the flags.
LEMMA ErrorFields ==
  ASSUME NEW d \in Int, 0 <= d, d < 4,
         NEW n \in Int, 0 <= n, n < B14
  PROVE  LET x == d * B24 + n
         IN  /\ Masked(x, B24, B26) \div B24 = d
             /\ Masked(x, 1, B14) = n
<1> DEFINE x == d * B24 + n
<1>1. Masked(x, B24, B26) \div B24 = d
  BY SMT DEF Masked, B14, B24, B26
<1>2. Masked(x, 1, B14) = n
  BY SMT DEF Masked, B14, B24, B26
<1> QED
  BY <1>1, <1>2

\* A trailer: status, word count and address.
LEMMA TrailerFields ==
  ASSUME NEW s \in Int, 0 <= s, s < 8,
         NEW n \in Int, 0 <= n, n < B16,
         NEW g \in Int, 0 <= g, g < 32
  PROVE  LET x == s * B24 + n * B5 + g
         IN  /\ Masked(x, B24, B27) \div B24 = s
             /\ Masked(x, B5, B21) \div B5 = n
             /\ Masked(x, 1, B5) = g
<1> DEFINE x == s * B24 + n * B5 + g
<1>1. Masked(x, B24, B27) \div B24 = s
  BY SMT DEF Masked, B5, B16, B21, B24, B27
<1>2. Masked(x, B5, B21) \div B5 = n
  BY SMT DEF Masked, B5, B16, B21, B24, B27
<1>3. Masked(x, 1, B5) = g
  BY SMT DEF Masked, B5, B16, B21, B24, B27
<1> QED
  BY <1>1, <1>2, <1>3

-----------------------------------------------------------------------------
(***************************************************************************)
(* Every word.                                                             *)
(***************************************************************************)
\* The fields of a word of type t, by their number and their ranges.
LEMMA FieldsOf ==
  ASSUME NEW p, IsPut(p), NEW i \in 1..Len(p.fields)
  PROVE  /\ p.fields[i] \in Int
         /\ 0 <= p.fields[i]
         /\ Widths(p.type)[i] \in Int => p.fields[i] < Widths(p.type)[i]
<1> DEFINE f == p.fields[i]
           n == Widths(p.type)[i]
<1>1. p.fields \in Seq(Int) /\ f \in 0..(n - 1)
  BY DEF IsPut
<1>2. f \in Int
  BY <1>1
<1> HIDE DEF f, n
<1>3. f \in 0..(n - 1) => 0 <= f /\ (n \in Int => f < n)
  BY <1>2
<1> QED
  BY <1>1, <1>2, <1>3 DEF f, n

\* Sequences as short as the fields of a word.
LEMMA ShortSequences ==
  ASSUME NEW s \in Seq(Int)
  PROVE  /\ Len(s) = 1 => s = <<s[1]>>
         /\ Len(s) = 2 => s = <<s[1], s[2]>>
         /\ Len(s) = 3 => s = <<s[1], s[2], s[3]>>
<1>1. ASSUME Len(s) = 1 PROVE s = <<s[1]>>
  BY <1>1
<1>2. ASSUME Len(s) = 2 PROVE s = <<s[1], s[2]>>
  BY <1>2
<1>3. ASSUME Len(s) = 3 PROVE s = <<s[1], s[2], s[3]>>
  BY <1>3
<1> QED
  BY <1>1, <1>2, <1>3

\* v1290_Decode takes a word apart into what it was put together from.
LEMMA DecodePut ==
  ASSUME NEW p, IsPut(p)
  PROVE  v1290_Decode(Encode(p)) = p.fields
<1> DEFINE f == p.fields
           w == Encode(p)
           T == p.type
<1>0. f \in Seq(Int) /\ Len(f) = Len(Widths(T)) /\ T \in WordTypes \ {Filler}
  BY DEF IsPut
<1>1. CASE p.type = Measure
  <2>1. Widths(T) = <<32, B21, 2>>
    BY <1>1 DEF Widths, Measure, TdcHeader, TdcTrailer, TdcError,
       Header, Trailer, TimeTag
  <2>2. Len(f) = 3 /\ 1 \in 1..Len(f) /\ 2 \in 1..Len(f) /\ 3 \in 1..Len(f)
    BY <1>0, <2>1
  <2>3. Widths(T)[1] = 32 /\ Widths(T)[2] = B21 /\ Widths(T)[3] = 2
    BY <2>1
  <2>4. 2 \in Int /\ 32 \in Int /\ B21 \in Int
    BY SMT DEF B21
  <2>5. /\ f[1] \in Int /\ 0 <= f[1] /\ f[1] < 32
        /\ f[2] \in Int /\ 0 <= f[2] /\ f[2] < B21
        /\ f[3] \in Int /\ 0 <= f[3] /\ f[3] < 2
    BY <2>2, <2>3, <2>4, FieldsOf
  <2>6. w.type = T /\ w.rest = f[1] * B21 + f[2] + f[3] * B26
    BY <1>1, SMT DEF Encode, Measure, TdcHeader, TdcTrailer, TdcError,
       Header, Trailer, TimeTag
  <2>7. v1290_Decode(w) =
          <<Masked(w.rest, B21, B26) \div B21,
            Masked(w.rest, 1, B21),
            Masked(w.rest, B26, B27) \div B26>>
    BY <1>1, <2>6 DEF v1290_Decode, HitTime, Measure, TdcHeader, TdcTrailer,
       TdcError, Header, Trailer, TimeTag
  <2>8. /\ Masked(w.rest, B21, B26) \div B21 = f[1]
        /\ Masked(w.rest, 1, B21) = f[2]
        /\ Masked(w.rest, B26, B27) \div B26 = f[3]
    BY <2>5, <2>6, MeasureFields
  <2> QED
    BY <1>0, <2>2, <2>7, <2>8, ShortSequences
<1>2. CASE p.type = Header
  <2>1. Widths(T) = <<B22, 32>>
    BY <1>2 DEF Widths, Measure, TdcHeader, TdcTrailer, TdcError,
       Header, Trailer, TimeTag
  <2>2. Len(f) = 2 /\ 1 \in 1..Len(f) /\ 2 \in 1..Len(f)
    BY <1>0, <2>1
  <2>3. Widths(T)[1] = B22 /\ Widths(T)[2] = 32
    BY <2>1
  <2>4. 32 \in Int /\ B22 \in Int
    BY SMT DEF B22
  <2>5. /\ f[1] \in Int /\ 0 <= f[1] /\ f[1] < B22
        /\ f[2] \in Int /\ 0 <= f[2] /\ f[2] < 32
    BY <2>2, <2>3, <2>4, FieldsOf
  <2>6. w.type = T /\ w.rest = f[1] * B5 + f[2]
    BY <1>2, SMT DEF Encode, Measure, TdcHeader, TdcTrailer, TdcError,
       Header, Trailer, TimeTag
  <2>7. v1290_Decode(w) =
          <<Masked(w.rest, B5, B27) \div B5,
            Masked(w.rest, 1, B5)>>
    BY <1>2, <2>6 DEF v1290_Decode, HitTime, Measure, TdcHeader, TdcTrailer,
       TdcError, Header, Trailer, TimeTag
  <2>8. /\ Masked(w.rest, B5, B27) \div B5 = f[1]
        /\ Masked(w.rest, 1, B5) = f[2]
    BY <2>5, <2>6, HeaderFields
  <2> QED
    BY <1>0, <2>2, <2>7, <2>8, ShortSequences
<1>3. CASE p.type \in {TdcHeader, TdcTrailer}
  <2>1. Widths(T) = <<4, B12, B12>>
    BY <1>3 DEF Widths, Measure, TdcHeader, TdcTrailer, TdcError,
       Header, Trailer, TimeTag
  <2>2. Len(f) = 3 /\ 1 \in 1..Len(f) /\ 2 \in 1..Len(f) /\ 3 \in 1..Len(f)
    BY <1>0, <2>1
  <2>3. Widths(T)[1] = 4 /\ Widths(T)[2] = B12 /\ Widths(T)[3] = B12
    BY <2>1
  <2>4. 4 \in Int /\ B12 \in Int
    BY SMT DEF B12
  <2>5. /\ f[1] \in Int /\ 0 <= f[1] /\ f[1] < 4
        /\ f[2] \in Int /\ 0 <= f[2] /\ f[2] < B12
        /\ f[3] \in Int /\ 0 <= f[3] /\ f[3] < B12
    BY <2>2, <2>3, <2>4, FieldsOf
  <2>6. w.type = T /\ w.rest = f[1] * B24 + f[2] * B12 + f[3]
    BY <1>3, SMT DEF Encode, Measure, TdcHeader, TdcTrailer, TdcError,
       Header, Trailer, TimeTag
  <2>7. v1290_Decode(w) =
          <<Masked(w.rest, B24, B26) \div B24,
            Masked(w.rest, B12, B24) \div B12,
            Masked(w.rest, 1, B12)>>
    BY <1>3, <2>6 DEF v1290_Decode, HitTime, Measure, TdcHeader, TdcTrailer,
       TdcError, Header, Trailer, TimeTag
  <2>8. /\ Masked(w.rest, B24, B26) \div B24 = f[1]
        /\ Masked(w.rest, B12, B24) \div B12 = f[2]
        /\ Masked(w.rest, 1, B12) = f[3]
    BY <2>5, <2>6, TdcFields
  <2> QED
    BY <1>0, <2>2, <2>7, <2>8, ShortSequences
<1>4. CASE p.type = TdcError
  <2>1. Widths(T) = <<4, B14>>
    BY <1>4 DEF Widths, Measure, TdcHeader, TdcTrailer, TdcError,
       Header, Trailer, TimeTag
  <2>2. Len(f) = 2 /\ 1 \in 1..Len(f) /\ 2 \in 1..Len(f)
    BY <1>0, <2>1
  <2>3. Widths(T)[1] = 4 /\ Widths(T)[2] = B14
    BY <2>1
  <2>4. 4 \in Int /\ B14 \in Int
    BY SMT DEF B14
  <2>5. /\ f[1] \in Int /\ 0 <= f[1] /\ f[1] < 4
        /\ f[2] \in Int /\ 0 <= f[2] /\ f[2] < B14
    BY <2>2, <2>3, <2>4, FieldsOf
  <2>6. w.type = T /\ w.rest = f[1] * B24 + f[2]
    BY <1>4, SMT DEF Encode, Measure, TdcHeader, TdcTrailer, TdcError,
       Header, Trailer, TimeTag
  <2>7. v1290_Decode(w) =
          <<Masked(w.rest, B24, B26) \div B24,
            Masked(w.rest, 1, B14)>>
    BY <1>4, <2>6 DEF v1290_Decode, HitTime, Measure, TdcHeader, TdcTrailer,
       TdcError, Header, Trailer, TimeTag
  <2>8. /\ Masked(w.rest, B24, B26) \div B24 = f[1]
        /\ Masked(w.rest, 1, B14) = f[2]
    BY <2>5, <2>6, ErrorFields
  <2> QED
    BY <1>0, <2>2, <2>7, <2>8, ShortSequences
<1>5. CASE p.type = TimeTag
  <2>1. Widths(T) = <<B27>>
    BY <1>5 DEF Widths, Measure, TdcHeader, TdcTrailer, TdcError,
       Header, Trailer, TimeTag
  <2>2. Len(f) = 1 /\ 1 \in 1..Len(f)
    BY <1>0, <2>1
  <2>3. Widths(T)[1] = B27
    BY <2>1
  <2>4. B27 \in Int
    BY SMT DEF B27
  <2>5. /\ f[1] \in Int /\ 0 <= f[1] /\ f[1] < B27
    BY <2>2, <2>3, <2>4, FieldsOf
  <2>6. w.type = T /\ w.rest = f[1]
    BY <1>5, SMT DEF Encode, Measure, TdcHeader, TdcTrailer, TdcError,
       Header, Trailer, TimeTag
  <2>7. v1290_Decode(w) =
          <<Masked(w.rest, 1, B27)>>
    BY <1>5, <2>6 DEF v1290_Decode, HitTime, Measure, TdcHeader, TdcTrailer,
       TdcError, Header, Trailer, TimeTag
  <2>8. /\ Masked(w.rest, 1, B27) = f[1]
    BY <2>5, <2>6, TagField
  <2> QED
    BY <1>0, <2>2, <2>7, <2>8, ShortSequences
<1>6. CASE p.type = Trailer
  <2>1. Widths(T) = <<8, B16, 32>>
    BY <1>6 DEF Widths, Measure, TdcHeader, TdcTrailer, TdcError,
       Header, Trailer, TimeTag
  <2>2. Len(f) = 3 /\ 1 \in 1..Len(f) /\ 2 \in 1..Len(f) /\ 3 \in 1..Len(f)
    BY <1>0, <2>1
  <2>3. Widths(T)[1] = 8 /\ Widths(T)[2] = B16 /\ Widths(T)[3] = 32
    BY <2>1
  <2>4. 32 \in Int /\ 8 \in Int /\ B16 \in Int
    BY SMT DEF B16
  <2>5. /\ f[1] \in Int /\ 0 <= f[1] /\ f[1] < 8
        /\ f[2] \in Int /\ 0 <= f[2] /\ f[2] < B16
        /\ f[3] \in Int /\ 0 <= f[3] /\ f[3] < 32
    BY <2>2, <2>3, <2>4, FieldsOf
  <2>6. w.type = T /\ w.rest = f[1] * B24 + f[2] * B5 + f[3]
    BY <1>6, SMT DEF Encode, Measure, TdcHeader, TdcTrailer, TdcError,
       Header, Trailer, TimeTag
  <2>7. v1290_Decode(w) =
          <<Masked(w.rest, B24, B27) \div B24,
            Masked(w.rest, B5, B21) \div B5,
            Masked(w.rest, 1, B5)>>
    BY <1>6, <2>6 DEF v1290_Decode, HitTime, Measure, TdcHeader, TdcTrailer,
       TdcError, Header, Trailer, TimeTag
  <2>8. /\ Masked(w.rest, B24, B27) \div B24 = f[1]
        /\ Masked(w.rest, B5, B21) \div B5 = f[2]
        /\ Masked(w.rest, 1, B5) = f[3]
    BY <2>5, <2>6, TrailerFields
  <2> QED
    BY <1>0, <2>2, <2>7, <2>8, ShortSequences
<1> QED
  BY <1>0, <1>1, <1>2, <1>3, <1>4, <1>5, <1>6 DEF WordTypes, Middle

\* The macros tell a hit from all other words, and its channel and time.
LEMMA MacrosPut ==
  ASSUME NEW p, IsPut(p)
  PROVE  LET w == Encode(p)
         IN  /\ V1290_IS_TDC_MEASURE(w) <=> p.type = Measure
             /\ p.type = Measure => V1290_GET_TDC_MSR_CHANNEL(w) = p.fields[1]
             /\ p.type = Measure =>
                  V1290_GET_TDC_MSR_MEASURE(w) = p.fields[2] % B19
<1> DEFINE f == p.fields
           w == Encode(p)
<1>1. w.type = p.type
  BY DEF Encode
<1>2. ASSUME p.type = Measure
      PROVE  /\ V1290_GET_TDC_MSR_CHANNEL(w) = f[1]
             /\ V1290_GET_TDC_MSR_MEASURE(w) = f[2] % B19
  <2>1. Widths(p.type) = <<32, B21, 2>>
    BY <1>2 DEF Widths, Measure, TdcHeader, TdcTrailer, TdcError, Header,
           Trailer, TimeTag
  <2>2. 1 \in 1..Len(f) /\ 2 \in 1..Len(f) /\ 3 \in 1..Len(f)
    BY <2>1 DEF IsPut
  <2>3. 2 \in Int /\ 32 \in Int /\ B21 \in Int
    BY SMT DEF B21
  <2>4. /\ Widths(p.type)[1] = 32
        /\ Widths(p.type)[2] = B21
        /\ Widths(p.type)[3] = 2
    BY <2>1
  <2>5. /\ f[1] \in Int /\ 0 <= f[1] /\ f[1] < 32
        /\ f[2] \in Int /\ 0 <= f[2] /\ f[2] < B21
        /\ f[3] \in Int /\ 0 <= f[3] /\ f[3] < 2
    BY <2>2, <2>3, <2>4, FieldsOf
  <2>6. w.rest = f[1] * B21 + f[2] + f[3] * B26
    BY <1>2, SMT DEF Encode, Measure, TdcHeader, TdcTrailer, TdcError, Header,
           Trailer, TimeTag
  <2> QED
    BY <2>5, <2>6, MeasureFields
       DEF V1290_GET_TDC_MSR_CHANNEL, V1290_GET_TDC_MSR_MEASURE
<1> QED
  BY <1>1, <1>2 DEF V1290_IS_TDC_MEASURE
=============================================================================
