--------------------------- MODULE AnalyzerProofs ---------------------------
(***************************************************************************)
(* Proofs about Analyzer, for every set of banks, every number of events   *)
(* and every size of the SYSTEM buffer.                                    *)
(***************************************************************************)
EXTENDS Analyzer, V1290WordsProofs, SequenceTheorems

-----------------------------------------------------------------------------
(***************************************************************************)
(* Banks and hits.                                                         *)
(***************************************************************************)
\* A bank has words the module can put out, or none.
LEMMA BankWords ==
  ASSUME NEW b \in Banks \cup {<<>>}
  PROVE  Len(b) \in Nat /\ \A i \in 1..Len(b) : IsPut(b[i])
<1>1. CASE b \in Banks
  BY <1>1, BanksAssumption
<1>2. CASE b = <<>>
  BY <1>2
<1> QED
  BY <1>1, <1>2

\* What the macros take out of a word, and that no time is as low as
\* fake_value.
LEMMA HitWord ==
  ASSUME NEW p, IsPut(p)
  PROVE  LET w == Encode(p)
         IN  /\ V1290_IS_TDC_MEASURE(w) <=> IsHit(p)
             /\ IsHit(p) =>
                  /\ V1290_GET_TDC_MSR_CHANNEL(w) = Channel(p)
                  /\ V1290_GET_TDC_MSR_MEASURE(w) = Time(p) % B19
                  /\ Time(p) \in Int /\ Time(p) % B19 \in Int
                  /\ Time(p) % B19 > fake_value
<1> DEFINE w == Encode(p)
<1>1. /\ V1290_IS_TDC_MEASURE(w) <=> IsHit(p)
      /\ IsHit(p) => V1290_GET_TDC_MSR_CHANNEL(w) = Channel(p)
      /\ IsHit(p) => V1290_GET_TDC_MSR_MEASURE(w) = Time(p) % B19
  BY MacrosPut DEF IsHit, Channel, Time
<1>2. ASSUME IsHit(p)
      PROVE  Time(p) \in Int
  <2>1. Len(Widths(p.type)) = 3
    BY <1>2 DEF IsHit, Widths, Measure, TdcHeader, TdcTrailer, TdcError, Header,
           Trailer, TimeTag
  <2>2. 2 \in 1..Len(p.fields)
    BY <2>1 DEF IsPut
  <2> QED
    BY <2>2, FieldsOf DEF Time
<1>3. ASSUME NEW v \in Int
      PROVE  v % B19 \in Int /\ v % B19 > fake_value
  BY SMT DEF B19, fake_value
<1> QED
  BY <1>1, <1>2, <1>3

\* The last hit of a channel is the one no other comes after.
LEMMA LastSeen ==
  ASSUME NEW b \in Banks \cup {<<>>}, NEW c \in Channels, NEW i \in 1..Len(b),
         HitOf(c, b[i]), \A j \in (i + 1)..Len(b) : ~HitOf(c, b[j])
  PROVE  c \in Seen(b) /\ Last(b, c) = Time(b[i])
<1>0. Len(b) \in Nat
  BY BankWords
<1>1. c \in Seen(b)
  BY DEF Seen
<1> DEFINE IsLast(k) == HitOf(c, b[k]) /\ \A j \in (k + 1)..Len(b) : ~HitOf(c, b[j])
<1>2. ASSUME NEW k \in 1..Len(b), IsLast(k)
      PROVE  k = i
  <2>1. ~(k < i)
    BY <1>0, <1>2
  <2>2. ~(i < k)
    BY <1>0, <1>2
  <2> QED
    BY <1>0, <2>1, <2>2
<1>3. IsLast(i)
  OBVIOUS
<1> HIDE DEF IsLast
<1>4. (CHOOSE k \in 1..Len(b) : IsLast(k)) = i
  BY <1>2, <1>3
<1>5. LastHit(b, c) = i
  BY <1>4 DEF LastHit, IsLast
<1> QED
  BY <1>1, <1>5 DEF Last

-----------------------------------------------------------------------------
(***************************************************************************)
(* Types.                                                                  *)
(***************************************************************************)
\* Appending keeps the latest events, Room of them.
LEMMA LatestEvents ==
  ASSUME NEW s \in Seq(Events), Len(s) <= Room, NEW e \in Events
  PROVE  LET r == Latest(Append(s, e))
         IN  /\ r \in Seq(Events)
             /\ Len(r) <= Room
             /\ Len(s) < Room => Len(r) = Len(s) + 1 /\ r = Append(s, e)
             /\ Len(s) = Room => Len(r) = Room /\ r = Tail(Append(s, e))
<1> DEFINE a == Append(s, e)
<1>1. a \in Seq(Events) /\ Len(a) = Len(s) + 1 /\ a # <<>> /\ Len(s) \in Nat
  BY AppendProperties
<1>2. Tail(a) \in Seq(Events) /\ Len(Tail(a)) = Len(a) - 1
  BY <1>1, HeadTailProperties
<1>3. Room \in Nat
  BY BoundsAssumption
<1> HIDE DEF a
<1>4. Latest(a) = IF Len(a) > Room THEN Tail(a) ELSE a
  BY DEF Latest
<1>5. CASE Len(s) < Room
  BY <1>1, <1>3, <1>4, <1>5 DEF a
<1>6. CASE Len(s) = Room
  BY <1>1, <1>2, <1>3, <1>4, <1>6 DEF a
<1> QED
  BY <1>1, <1>3, <1>5, <1>6

\* The event at the head of the buffer.
LEMMA HeadEvent ==
  ASSUME TypeOK, buffer # <<>>
  PROVE  /\ Head(buffer) \in Events /\ Head(buffer) = buffer[1]
         /\ Tail(buffer) \in Seq(Events) /\ Len(Tail(buffer)) = Len(buffer) - 1
         /\ Len(buffer) \in Nat \ {0}
         /\ \A i \in 1..Len(Tail(buffer)) : Tail(buffer)[i] = buffer[i + 1]
<1>1. buffer \in Seq(Events)
  BY DEF TypeOK
<1> QED
  BY <1>1, HeadTailProperties, EmptySeq

\* The initial states have the right types.
LEMMA TypeInit == Init => TypeOK
<1>1. ASSUME Init
      PROVE  TypeOK
  <2>1. buffer \in Seq(Events) /\ Len(buffer) <= Room
    BY <1>1, BoundsAssumption DEF Init
  <2>2. ib \in 0..Len(event.bank)
    BY <1>1 DEF Init, NoEvent
  <2>3. t \in [Channels -> Int]
    BY <1>1 DEF Init
  <2>4. sent \in 0..MaxSent
    BY <1>1, BoundsAssumption DEF Init
  <2>5. filled \subseteq Histograms \X Int /\ stray \in BOOLEAN /\ noisy \in BOOLEAN
    BY <1>1, Zenon DEF Init
  <2>6. pc \in Labels /\ event \in Events \cup {NoEvent}
    BY <1>1, Zenon DEF Init, Labels
  <2> QED
    BY <2>1, <2>2, <2>3, <2>4, <2>5, <2>6, Zenon DEF TypeOK
<1> QED
  BY <1>1

\* The word the loop of mhtdc_ana looks at.
LEMMA NextWord ==
  ASSUME TypeOK, ib < Len(event.bank)
  PROVE  /\ ib + 1 \in 1..Len(event.bank)
         /\ Len(event.bank) \in Nat
         /\ ib \in Nat
         /\ event # NoEvent
         /\ event.bank \in Banks \cup {<<>>}
         /\ IsPut(event.bank[ib + 1])
<1>1. event # NoEvent
  BY DEF TypeOK, NoEvent
<1>2. event \in Events
  BY <1>1 DEF TypeOK
<1>3. event.bank \in Banks \cup {<<>>}
  BY <1>2 DEF Events
<1> HIDE DEF TypeOK
<1>4. Len(event.bank) \in Nat /\ \A i \in 1..Len(event.bank) : IsPut(event.bank[i])
  BY <1>3, BankWords
<1>5. ib \in 0..Len(event.bank)
  BY DEF TypeOK
<1> QED
  BY <1>1, <1>3, <1>4, <1>5

\* What the loop does to t: the time of a hit takes the place of its channel.
LEMMA WordStep ==
  ASSUME TypeOK, Word
  PROVE  LET p == event.bank[ib + 1]
         IN  /\ ~IsHit(p) => t' = t /\ stray' = stray
             /\ IsHit(p) =>
                  /\ t' = [c \in Channels |->
                             IF c = Channel(p) THEN Time(p) % B19 ELSE t[c]]
                  /\ stray' = (stray \/ Channel(p) \notin Channels)
<1> DEFINE p == event.bank[ib + 1]
<1>1. IsPut(p)
  BY NextWord DEF Word
<1>2. pdata = Encode(p)
  BY DEF pdata
<1>3. CASE IsHit(p)
  <2>1. V1290_IS_TDC_MEASURE(pdata)
        /\ V1290_GET_TDC_MSR_CHANNEL(pdata) = Channel(p)
        /\ V1290_GET_TDC_MSR_MEASURE(pdata) = Time(p) % B19
    BY <1>1, <1>2, <1>3, HitWord
  <2> QED
    BY <1>3, <2>1, Zenon DEF Word
<1>4. CASE ~IsHit(p)
  <2>1. ~V1290_IS_TDC_MEASURE(pdata)
    BY <1>1, <1>2, <1>4, HitWord
  <2> QED
    BY <1>4, <2>1, Zenon DEF Word
<1> QED
  BY <1>3, <1>4, Zenon

\* Every step keeps the types.
LEMMA TypeStep ==
  ASSUME TypeOK, [Next]_vars
  PROVE  TypeOK'
<1>1. CASE Send
  <2>1. sent' \in 0..MaxSent /\ sent' \in 1..MaxSent
    BY <1>1, BoundsAssumption DEF TypeOK, Send
  <2>2. buffer' \in Seq(Events) /\ Len(buffer') <= Room
    <3>1. CASE pc = "down"
      BY <1>1, <3>1 DEF TypeOK, Send
    <3>2. CASE pc # "down"
      <4>1. PICK b \in Banks \cup {<<>>} :
              buffer' = Latest(Append(buffer, [num |-> sent', bank |-> b]))
        BY <1>1, <3>2 DEF Send
      <4>2. [num |-> sent', bank |-> b] \in Events
        BY <2>1 DEF Events
      <4>3. buffer \in Seq(Events) /\ Len(buffer) <= Room
        BY DEF TypeOK
      <4> QED
        BY <4>1, <4>2, <4>3, LatestEvents
    <3> QED
      BY <3>1, <3>2
  <2>3. UNCHANGED <<pc, event, ib, t, filled, stray, noisy>>
    BY <1>1 DEF Send
  <2> QED
    BY <2>1, <2>2, <2>3, Zenon DEF TypeOK
<1>2. CASE Start
  <2>1. pc' \in Labels /\ UNCHANGED <<sent, buffer, event, ib, t, filled, stray, noisy>>
    BY <1>2 DEF Start, Labels
  <2> QED
    BY <2>1, Zenon DEF TypeOK
<1>3. CASE ProcessEnds
  <2>1. buffer' \in Seq(Events) /\ Len(buffer') <= Room
    BY <1>3, BoundsAssumption DEF ProcessEnds
  <2>2. ib' \in 0..Len(event'.bank) /\ t' \in [Channels -> Int]
    BY <1>3 DEF ProcessEnds, NoEvent
  <2>3. pc' \in Labels /\ event' \in Events \cup {NoEvent}
        /\ filled' \subseteq Histograms \X Int /\ sent' = sent
        /\ stray' \in BOOLEAN /\ noisy' \in BOOLEAN
    BY <1>3, Zenon DEF ProcessEnds, Labels
  <2> QED
    BY <2>1, <2>2, <2>3, Zenon DEF TypeOK
<1>4. CASE Take
  <2>1. Head(buffer) \in Events /\ Tail(buffer) \in Seq(Events)
        /\ Len(Tail(buffer)) = Len(buffer) - 1 /\ Len(buffer) \in Nat
    BY <1>4, HeadEvent DEF Take
  <2>2. event' \in Events
    BY <1>4, <2>1 DEF Take
  <2>3. ib' \in 0..Len(event'.bank)
    <3>1. event'.bank \in Banks \cup {<<>>}
      BY <2>2 DEF Events
    <3>2. ib' = 0
      BY <1>4 DEF Take
    <3> QED
      BY <3>1, <3>2, BankWords
  <2>4. buffer' \in Seq(Events) /\ Len(buffer') <= Room
    BY <1>4, <2>1, BoundsAssumption DEF Take, TypeOK
  <2>5. noisy' \in BOOLEAN /\ filled' \subseteq Histograms \X Int /\ pc' \in Labels
    BY <1>4, Zenon DEF Take, Labels
  <2>6. UNCHANGED <<sent, t, stray>>
    BY <1>4 DEF Take
  <2> QED
    BY <2>2, <2>3, <2>4, <2>5, <2>6, Zenon DEF TypeOK
<1>5. CASE phadc_ana
  <2>1. event.num \in Int
    BY DEF TypeOK, Events, NoEvent
  <2>2. filled' \subseteq Histograms \X Int /\ pc' \in Labels
    BY <1>5, <2>1 DEF phadc_ana, Histograms, Labels
  <2>3. UNCHANGED <<sent, buffer, event, ib, t, stray, noisy>>
    BY <1>5 DEF phadc_ana
  <2> QED
    BY <2>2, <2>3, Zenon DEF TypeOK
<1>6. CASE mhtdc_ana
  <2>1. pc' \in Labels
    BY <1>6 DEF mhtdc_ana, Labels
  <2>2. t' \in [Channels -> Int]
    <3>1. fake_value \in Int
      BY SMT DEF fake_value
    <3> QED
      BY <1>6, <3>1, Zenon DEF mhtdc_ana, TypeOK
  <2>3. UNCHANGED <<sent, buffer, event, ib, filled, stray, noisy>>
    BY <1>6 DEF mhtdc_ana
  <2> QED
    BY <2>1, <2>2, <2>3, Zenon DEF TypeOK
<1>7. CASE Word
  <2> DEFINE p == event.bank[ib + 1]
  <2>1. ib' \in 0..Len(event'.bank)
    BY <1>7, NextWord DEF Word
  <2>2. IsPut(p)
    BY <1>7, NextWord DEF Word
  <2>3. t \in [Channels -> Int] /\ stray \in BOOLEAN
    BY DEF TypeOK
  <2>4. t' \in [Channels -> Int] /\ stray' \in BOOLEAN
    <3>1. CASE IsHit(p)
      BY <1>7, <2>2, <2>3, <3>1, WordStep, HitWord, Zenon
    <3>2. CASE ~IsHit(p)
      BY <1>7, <2>3, <3>2, WordStep, Zenon
    <3> QED
      BY <3>1, <3>2
  <2>5. UNCHANGED <<sent, buffer, pc, event, filled, noisy>>
    BY <1>7 DEF Word
  <2> QED
    BY <2>1, <2>4, <2>5, Zenon DEF TypeOK
<1>8. CASE EndOfWords
  <2>1. pc' \in Labels /\ UNCHANGED <<sent, buffer, event, ib, t, filled, stray, noisy>>
    BY <1>8 DEF EndOfWords, Labels
  <2> QED
    BY <2>1, Zenon DEF TypeOK
<1>9. CASE Fill
  <2>1. t[0] \in Int /\ t[1] \in Int /\ t[2] \in Int
    BY DEF TypeOK, Channels
  <2>2. t[1] - t[0] \in Int /\ t[2] - t[0] \in Int /\ t[2] - t[1] \in Int
    BY <2>1
  <2>3. filled' \subseteq Histograms \X Int
    <3> DEFINE pairs == { <<"tdc0", t[0]>>, <<"tdc1", t[1]>>, <<"tdiff1", t[1] - t[0]>>,
                          <<"tdc2", t[2]>>, <<"tdiff2", t[2] - t[0]>>,
                          <<"tdiff2-1", t[2] - t[1]>> }
    <3>1. pairs \subseteq Histograms \X Int
      BY <2>1, <2>2 DEF Histograms
    <3>2. filled' \subseteq filled \cup pairs
      BY <1>9 DEF Fill, If
    <3>3. filled \subseteq Histograms \X Int
      BY DEF TypeOK
    <3> QED
      BY <3>1, <3>2, <3>3, Zenon
  <2>4. pc' \in Labels /\ UNCHANGED <<sent, buffer, event, ib, t, stray, noisy>>
    BY <1>9 DEF Fill, Labels
  <2> QED
    BY <2>3, <2>4, Zenon DEF TypeOK
<1>10. CASE UNCHANGED vars
  BY <1>10 DEF vars, TypeOK
<1> QED
  BY <1>1, <1>2, <1>3, <1>4, <1>5, <1>6, <1>7, <1>8, <1>9, <1>10
     DEF Next, Analyze, Kill, Crash

-----------------------------------------------------------------------------
(***************************************************************************)
(* The loop of mhtdc_ana.                                                  *)
(***************************************************************************)
\* One more word keeps t up to date.
LEMMA LastStep ==
  ASSUME TypeOK, Word, NEW c \in Channels, LastOf(c)
  PROVE  LastOf(c)'
<1> DEFINE b == event.bank
           p == b[ib + 1]
<1>1. ib' = ib + 1 /\ event' = event
  BY DEF Word
<1>2. ib \in Nat /\ Len(b) \in Nat
  BY NextWord DEF Word
<1>3. c \in DOMAIN t /\ t \in [Channels -> Int]
  BY DEF TypeOK
<1>4. CASE HitOf(c, p)
  <2>1. t'[c] = Time(p) % B19
    BY <1>3, <1>4, WordStep DEF HitOf
  <2>2. ib + 1 \in 1..(ib + 1) /\ (ib + 1 + 1)..(ib + 1) = {}
    BY <1>2
  <2> QED
    BY <1>1, <1>4, <2>1, <2>2 DEF LastOf
<1>5. CASE ~HitOf(c, p)
  <2>1. t'[c] = t[c]
    <3>1. CASE IsHit(p)
      BY <1>3, <1>5, <3>1, WordStep DEF HitOf
    <3>2. CASE ~IsHit(p)
      BY <3>2, WordStep
    <3> QED
      BY <3>1, <3>2
  <2>2. CASE t[c] = fake_value /\ \A i \in 1..ib : ~HitOf(c, b[i])
    <3>1. \A i \in 1..(ib + 1) : ~HitOf(c, b[i])
      BY <1>2, <1>5, <2>2
    <3> QED
      BY <1>1, <2>1, <2>2, <3>1 DEF LastOf
  <2>3. CASE \E i \in 1..ib : /\ HitOf(c, b[i])
                              /\ t[c] = Time(b[i]) % B19
                              /\ \A j \in (i + 1)..ib : ~HitOf(c, b[j])
    <3>1. PICK i \in 1..ib : /\ HitOf(c, b[i])
                             /\ t[c] = Time(b[i]) % B19
                             /\ \A j \in (i + 1)..ib : ~HitOf(c, b[j])
      BY <2>3
    <3>2. i \in 1..(ib + 1) /\ \A j \in (i + 1)..(ib + 1) : ~HitOf(c, b[j])
      BY <1>2, <1>5, <3>1
    <3> QED
      BY <1>1, <2>1, <3>1, <3>2 DEF LastOf
  <2> QED
    BY <2>2, <2>3 DEF LastOf
<1> QED
  BY <1>4, <1>5

\* Every step keeps what the analyzer knows of the event it is at.
LEMMA LoopStep ==
  ASSUME TypeOK, LoopInv, [Next]_vars
  PROVE  LoopInv'
<1>1. CASE Send
  <2>1. UNCHANGED <<pc, event, ib, t>>
    BY <1>1 DEF Send
  <2> QED
    BY <2>1 DEF LoopInv, LastOf
<1>2. CASE Start
  BY <1>2 DEF LoopInv, Start, InEvent
<1>3. CASE ProcessEnds
  BY <1>3 DEF LoopInv, ProcessEnds, InEvent
<1>4. CASE Take
  <2>1. event' \in Events
    BY <1>4, HeadEvent DEF Take
  <2>2. \A e \in Events : e.num >= 1
    BY BoundsAssumption DEF Events
  <2>3. event' # NoEvent
    BY <2>1, <2>2 DEF NoEvent
  <2> QED
    BY <1>4, <2>3 DEF LoopInv, Take, InEvent
<1>5. CASE phadc_ana
  BY <1>5 DEF LoopInv, phadc_ana, InEvent
<1>6. CASE mhtdc_ana
  <2>1. event' = event /\ ib' = ib /\ ib = 0
    BY <1>6 DEF LoopInv, mhtdc_ana
  <2>2. CASE pc' = "idle"
    BY <2>2 DEF LoopInv, InEvent
  <2>3. CASE pc' = "words" /\ t' = [c \in Channels |-> fake_value]
    <3>1. \A c \in Channels : LastOf(c)'
      BY <2>1, <2>3 DEF LastOf
    <3> QED
      BY <1>6, <2>1, <2>3, <3>1 DEF LoopInv, InEvent, mhtdc_ana
  <2> QED
    BY <1>6, <2>2, <2>3 DEF mhtdc_ana
<1>7. CASE Word
  <2>1. pc = "words" /\ pc' = pc /\ event' = event
    BY <1>7 DEF Word
  <2>2. \A c \in Channels : LastOf(c)'
    BY <1>7, <2>1, LastStep DEF LoopInv
  <2> QED
    BY <2>1, <2>2 DEF LoopInv, InEvent
<1>8. CASE EndOfWords
  <2>1. /\ pc = "words" /\ pc' = "fill" /\ ib = Len(event.bank)
        /\ UNCHANGED <<event, ib, t>>
    BY <1>8 DEF EndOfWords
  <2> QED
    BY <2>1 DEF LoopInv, InEvent, LastOf
<1>9. CASE Fill
  BY <1>9 DEF LoopInv, Fill, InEvent
<1>10. CASE UNCHANGED vars
  BY <1>10 DEF LoopInv, vars, LastOf
<1> QED
  BY <1>1, <1>2, <1>3, <1>4, <1>5, <1>6, <1>7, <1>8, <1>9, <1>10
     DEF Next, Analyze, Kill, Crash

-----------------------------------------------------------------------------
(***************************************************************************)
(* The entries of an event.                                                *)
(***************************************************************************)
\* Where two times share all but their lower 19 bits, their difference is that
\* of these.
LEMMA SamePageDifference ==
  ASSUME NEW x \in Int, NEW y \in Int, x \div B19 = y \div B19
  PROVE  (x % B19) - (y % B19) = x - y
BY SMT DEF B19

\* At the end of the loop t shows the last hits of the whole bank.
LEMMA AllWordsSeen ==
  ASSUME TypeOK, LoopInv, pc = "fill", NEW c \in Channels
  PROVE  /\ Valid(c) <=> c \in Seen(event.bank)
         /\ Valid(c) => t[c] = Shown(event.bank, c)
         /\ Valid(c) => Last(event.bank, c) \in Int
<1> DEFINE b == event.bank
<1>1. event # NoEvent /\ LastOf(c) /\ ib = Len(b)
  BY DEF LoopInv, InEvent
<1>2. b \in Banks \cup {<<>>}
  <2>1. event \in Events
    BY <1>1 DEF TypeOK
  <2> QED
    BY <2>1 DEF Events
<1>3. CASE t[c] = fake_value /\ \A i \in 1..Len(b) : ~HitOf(c, b[i])
  <2>1. ~Valid(c)
    <3>1. fake_value \in Int
      BY SMT DEF fake_value
    <3> QED
      BY <1>3, <3>1 DEF Valid
  <2>2. c \notin Seen(b)
    BY <1>3 DEF Seen
  <2> QED
    BY <2>1, <2>2
<1>4. CASE \E i \in 1..Len(b) : /\ HitOf(c, b[i])
                                /\ t[c] = Time(b[i]) % B19
                                /\ \A j \in (i + 1)..Len(b) : ~HitOf(c, b[j])
  <2>1. PICK i \in 1..Len(b) : /\ HitOf(c, b[i])
                               /\ t[c] = Time(b[i]) % B19
                               /\ \A j \in (i + 1)..Len(b) : ~HitOf(c, b[j])
    BY <1>4
  <2>2. c \in Seen(b) /\ Last(b, c) = Time(b[i])
    BY <1>2, <2>1, LastSeen
  <2>3. IsPut(b[i])
    BY <1>2, BankWords
  <2>4. Valid(c) /\ Time(b[i]) \in Int
    BY <2>1, <2>3, HitWord DEF HitOf, Valid
  <2> QED
    BY <2>1, <2>2, <2>4 DEF Shown
<1> QED
  BY <1>1, <1>3, <1>4 DEF LastOf

\* The entries of a bank, histogram by histogram.
LEMMA EntriesOfBank ==
  ASSUME NEW b
  PROVE  TdcEntries(b) =
           If(0 \in Seen(b), {<<"tdc0", Shown(b, 0)>>})
           \cup If({0, 1} \subseteq Seen(b),
                   {<<"tdc1", Shown(b, 1)>>, <<"tdiff1", Shown(b, 1) - Shown(b, 0)>>})
           \cup If({0, 2} \subseteq Seen(b),
                   {<<"tdc2", Shown(b, 2)>>, <<"tdiff2", Shown(b, 2) - Shown(b, 0)>>})
           \cup If({0, 1, 2} \subseteq Seen(b),
                   {<<"tdiff2-1", Shown(b, 2) - Shown(b, 1)>>})
<1> DEFINE S == {x \in TdcHistograms : Needs(x) \subseteq Seen(b)}
<1>1. TdcHistograms = {"tdc0", "tdc1", "tdc2", "tdiff1", "tdiff2", "tdiff2-1"}
  BY DEF TdcHistograms, Histograms
<1>2. /\ Needs("tdc0") = {0} /\ Needs("tdc1") = {0, 1} /\ Needs("tdc2") = {0, 2}
      /\ Needs("tdiff1") = {0, 1} /\ Needs("tdiff2") = {0, 2}
      /\ Needs("tdiff2-1") = {0, 1, 2}
  BY DEF Needs
<1>3. /\ Value("tdc0", b) = Shown(b, 0)
      /\ Value("tdc1", b) = Shown(b, 1)
      /\ Value("tdc2", b) = Shown(b, 2)
      /\ Value("tdiff1", b) = Shown(b, 1) - Shown(b, 0)
      /\ Value("tdiff2", b) = Shown(b, 2) - Shown(b, 0)
      /\ Value("tdiff2-1", b) = Shown(b, 2) - Shown(b, 1)
  BY DEF Value
<1>4. TdcEntries(b) =
        UNION {If(Needs(h) \subseteq Seen(b), {<<h, Value(h, b)>>}) : h \in TdcHistograms}
  BY DEF TdcEntries, If
<1> QED
  BY <1>1, <1>2, <1>3, <1>4 DEF If

\* Fill makes the entries of the bank, their differences right where they can
\* be.
LEMMA FillStep ==
  ASSUME TypeOK, LoopInv, FilledInv, Fill
  PROVE  EntriesOfEvent' /\ DiffsTrue'
<1> DEFINE b == event.bank
<1>1. pc = "fill" /\ event' = event
  BY DEF Fill
<1>2. filled = PhaEntries
  BY <1>1 DEF FilledInv, InEvent
<1>3. /\ Valid(0) <=> 0 \in Seen(b)
      /\ Valid(1) <=> 1 \in Seen(b)
      /\ Valid(2) <=> 2 \in Seen(b)
      /\ Valid(0) => t[0] = Shown(b, 0)
      /\ Valid(1) => t[1] = Shown(b, 1)
      /\ Valid(2) => t[2] = Shown(b, 2)
      /\ \A c \in Channels \cap Seen(b) : Last(b, c) \in Int
  <2>1. 0 \in Channels /\ 1 \in Channels /\ 2 \in Channels
    BY DEF Channels
  <2> QED
    BY <1>1, <2>1, AllWordsSeen
<1> DEFINE new ==
       If(Valid(0), {<<"tdc0", t[0]>>})
       \cup If(Valid(0) /\ Valid(1), {<<"tdc1", t[1]>>, <<"tdiff1", t[1] - t[0]>>})
       \cup If(Valid(0) /\ Valid(2), {<<"tdc2", t[2]>>, <<"tdiff2", t[2] - t[0]>>})
       \cup If(Valid(0) /\ Valid(1) /\ Valid(2), {<<"tdiff2-1", t[2] - t[1]>>})
<1>4. filled' = filled \cup new
  BY DEF Fill
<1>5. new = TdcEntries(b)
  <2>1. If(Valid(0), {<<"tdc0", t[0]>>}) = If(0 \in Seen(b), {<<"tdc0", Shown(b, 0)>>})
    BY <1>3 DEF If
  <2>2. If(Valid(0) /\ Valid(1), {<<"tdc1", t[1]>>, <<"tdiff1", t[1] - t[0]>>})
          = If({0, 1} \subseteq Seen(b),
               {<<"tdc1", Shown(b, 1)>>, <<"tdiff1", Shown(b, 1) - Shown(b, 0)>>})
    BY <1>3 DEF If
  <2>3. If(Valid(0) /\ Valid(2), {<<"tdc2", t[2]>>, <<"tdiff2", t[2] - t[0]>>})
          = If({0, 2} \subseteq Seen(b),
               {<<"tdc2", Shown(b, 2)>>, <<"tdiff2", Shown(b, 2) - Shown(b, 0)>>})
    BY <1>3 DEF If
  <2>4. If(Valid(0) /\ Valid(1) /\ Valid(2), {<<"tdiff2-1", t[2] - t[1]>>})
          = If({0, 1, 2} \subseteq Seen(b), {<<"tdiff2-1", Shown(b, 2) - Shown(b, 1)>>})
    BY <1>3 DEF If
  <2> QED
    BY <2>1, <2>2, <2>3, <2>4, EntriesOfBank
<1>6. \A e \in PhaEntries : e[1] \notin TdcHistograms
  BY DEF PhaEntries, TdcHistograms
<1>7. \A e \in TdcEntries(b) : e[1] \in TdcHistograms
  BY DEF TdcEntries
<1> HIDE DEF new
<1>8. {e \in filled' : e[1] \in TdcHistograms} = TdcEntries(b)
  BY <1>2, <1>4, <1>5, <1>6, <1>7
<1>9. ASSUME NEW h, NEW c \in Channels, NEW d \in Channels,
             h \in TdcHistograms, Needs(h) \subseteq Seen(b) => {c, d} \subseteq Seen(b),
             Value(h, b) = Shown(b, c) - Shown(b, d),
             NEW e \in filled', e[1] = h, Last(b, c) \div B19 = Last(b, d) \div B19
      PROVE  e[2] = Last(b, c) - Last(b, d)
  <2>1. e \in TdcEntries(b)
    BY <1>8, <1>9
  <2>2. e = <<h, Value(h, b)>> /\ Needs(h) \subseteq Seen(b)
    BY <1>9, <2>1 DEF TdcEntries
  <2>3. Last(b, c) \in Int /\ Last(b, d) \in Int
    BY <1>3, <1>9, <2>2
  <2> QED
    BY <1>9, <2>2, <2>3, SamePageDifference DEF Shown
<1>10. DiffsTrue'
  <2>1. /\ Needs("tdiff1") = {0, 1} /\ Value("tdiff1", b) = Shown(b, 1) - Shown(b, 0)
        /\ Needs("tdiff2") = {0, 2} /\ Value("tdiff2", b) = Shown(b, 2) - Shown(b, 0)
        /\ Needs("tdiff2-1") = {0, 1, 2}
        /\ Value("tdiff2-1", b) = Shown(b, 2) - Shown(b, 1)
    BY DEF Needs, Value
  <2>2. /\ {"tdiff1", "tdiff2", "tdiff2-1"} \subseteq TdcHistograms
        /\ 0 \in Channels /\ 1 \in Channels /\ 2 \in Channels
    BY DEF TdcHistograms, Histograms, Channels
  <2>3. \A e \in filled' : e[1] = "tdiff1" /\ Last(b, 1) \div B19 = Last(b, 0) \div B19
                           => e[2] = Last(b, 1) - Last(b, 0)
    BY <1>9, <2>1, <2>2
  <2>4. \A e \in filled' : e[1] = "tdiff2" /\ Last(b, 2) \div B19 = Last(b, 0) \div B19
                           => e[2] = Last(b, 2) - Last(b, 0)
    BY <1>9, <2>1, <2>2
  <2>5. \A e \in filled' : e[1] = "tdiff2-1" /\ Last(b, 2) \div B19 = Last(b, 1) \div B19
                           => e[2] = Last(b, 2) - Last(b, 1)
    BY <1>9, <2>1, <2>2
  <2> QED
    BY <1>1, <2>3, <2>4, <2>5 DEF DiffsTrue
<1> QED
  BY <1>1, <1>8, <1>10 DEF EntriesOfEvent

\* Every step keeps the entries those of the event they were filled from.
LEMMA FilledStep ==
  ASSUME TypeOK, LoopInv, FilledInv, DownInv, [Next]_vars
  PROVE  FilledInv'
<1>1. CASE Send
  <2>1. UNCHANGED <<pc, event, filled>>
    BY <1>1 DEF Send
  <2> QED
    BY <2>1 DEF FilledInv, EntriesOfEvent, DiffsTrue, Analyzed, PhaEntries
<1>2. CASE Start
  <2>1. pc' = "idle" /\ event' = NoEvent
    BY <1>2 DEF Start, DownInv
  <2> QED
    BY <2>1 DEF FilledInv, EntriesOfEvent, DiffsTrue, Analyzed, InEvent
<1>3. CASE ProcessEnds
  BY <1>3 DEF FilledInv, EntriesOfEvent, DiffsTrue, Analyzed, InEvent, ProcessEnds
<1>4. CASE Take
  BY <1>4 DEF FilledInv, EntriesOfEvent, DiffsTrue, Analyzed, InEvent, Take
<1>5. CASE phadc_ana
  BY <1>5 DEF FilledInv, EntriesOfEvent, DiffsTrue, Analyzed, InEvent,
     phadc_ana, PhaEntries
<1>6. CASE mhtdc_ana
  <2>1. pc = "mhtdc_ana" /\ UNCHANGED <<event, filled>> /\ filled = PhaEntries
    BY <1>6 DEF mhtdc_ana, FilledInv, InEvent
  <2>2. CASE event.bank # <<>> /\ pc' = "words"
    BY <2>1, <2>2 DEF FilledInv, EntriesOfEvent, DiffsTrue, Analyzed, PhaEntries
  <2>3. CASE event.bank = <<>> /\ pc' = "idle"
    <3>1. Seen(event.bank) = {}
      BY <2>3 DEF Seen
    <3>2. TdcEntries(event.bank) = {}
      BY <3>1, EntriesOfBank DEF If
    <3>3. \A e \in PhaEntries : e[1] \notin TdcHistograms
      BY DEF PhaEntries, TdcHistograms
    <3>4. {e \in filled' : e[1] \in TdcHistograms} = TdcEntries(event'.bank)
      BY <2>1, <3>2, <3>3
    <3>5. DiffsTrue'
      BY <2>1 DEF DiffsTrue, PhaEntries
    <3> QED
      BY <2>3, <3>4, <3>5 DEF FilledInv, EntriesOfEvent, InEvent
  <2> QED
    BY <1>6, <2>2, <2>3 DEF mhtdc_ana
<1>7. CASE Word
  BY <1>7 DEF FilledInv, EntriesOfEvent, DiffsTrue, Analyzed, InEvent, Word, PhaEntries
<1>8. CASE EndOfWords
  BY <1>8 DEF FilledInv, EntriesOfEvent, DiffsTrue, Analyzed, InEvent,
     EndOfWords, PhaEntries
<1>9. CASE Fill
  <2>1. pc' = "idle"
    BY <1>9 DEF Fill
  <2> QED
    BY <1>9, <2>1, FillStep DEF FilledInv, InEvent
<1>10. CASE UNCHANGED vars
  BY <1>10 DEF FilledInv, EntriesOfEvent, DiffsTrue, Analyzed, PhaEntries, vars
<1> QED
  BY <1>1, <1>2, <1>3, <1>4, <1>5, <1>6, <1>7, <1>8, <1>9, <1>10
     DEF Next, Analyze, Kill, Crash

-----------------------------------------------------------------------------
(***************************************************************************)
(* Noise, and the process when it is down.                                 *)
(***************************************************************************)
LEMMA NoiseStep ==
  ASSUME TypeOK, NoiseInv, [Next]_vars
  PROVE  NoiseInv'
<1>1. CASE Send
  BY <1>1 DEF NoiseInv, OnlyNoiseStrays, Send
<1>2. CASE Start
  BY <1>2 DEF NoiseInv, OnlyNoiseStrays, Start
<1>3. CASE ProcessEnds
  BY <1>3 DEF NoiseInv, OnlyNoiseStrays, ProcessEnds, NoEvent, HasNoise
<1>4. CASE Take
  BY <1>4 DEF NoiseInv, OnlyNoiseStrays, Take
<1>5. CASE phadc_ana
  BY <1>5 DEF NoiseInv, OnlyNoiseStrays, phadc_ana
<1>6. CASE mhtdc_ana
  BY <1>6 DEF NoiseInv, OnlyNoiseStrays, mhtdc_ana
<1>7. CASE Word
  <2> DEFINE p == event.bank[ib + 1]
  <2>1. UNCHANGED <<event, noisy>> /\ ib + 1 \in 1..Len(event.bank)
    BY <1>7, NextWord DEF Word
  <2>2. CASE IsHit(p)
    <3>1. stray' = (stray \/ Channel(p) \notin Channels)
      BY <1>7, <2>2, WordStep
    <3>2. Channel(p) \notin Channels => HasNoise(event.bank)
      BY <2>1, <2>2 DEF HasNoise
    <3> QED
      BY <2>1, <3>1, <3>2 DEF NoiseInv, OnlyNoiseStrays
  <2>3. CASE ~IsHit(p)
    BY <1>7, <2>1, <2>3, WordStep DEF NoiseInv, OnlyNoiseStrays
  <2> QED
    BY <2>2, <2>3
<1>8. CASE EndOfWords
  BY <1>8 DEF NoiseInv, OnlyNoiseStrays, EndOfWords
<1>9. CASE Fill
  BY <1>9 DEF NoiseInv, OnlyNoiseStrays, Fill
<1>10. CASE UNCHANGED vars
  BY <1>10 DEF NoiseInv, OnlyNoiseStrays, vars
<1> QED
  BY <1>1, <1>2, <1>3, <1>4, <1>5, <1>6, <1>7, <1>8, <1>9, <1>10
     DEF Next, Analyze, Kill, Crash

\* Every step keeps a process that is down without an event.
LEMMA DownStep ==
  ASSUME DownInv, [Next]_vars
  PROVE  DownInv'
<1>1. CASE Send \/ UNCHANGED vars
  BY <1>1 DEF Send, vars, DownInv
<1>2. CASE ProcessEnds
  BY <1>2 DEF ProcessEnds, DownInv
<1>3. ASSUME pc' # "down"
      PROVE  DownInv'
  BY <1>3 DEF DownInv
<1>4. CASE Start \/ Take \/ phadc_ana \/ mhtdc_ana \/ Word \/ EndOfWords \/ Fill
  BY <1>3, <1>4 DEF Start, Take, phadc_ana, mhtdc_ana, Word, EndOfWords, Fill
<1> QED
  BY <1>1, <1>2, <1>4 DEF Next, Analyze, Kill, Crash

-----------------------------------------------------------------------------
(***************************************************************************)
(* The theorems.                                                           *)
(***************************************************************************)
LEMMA Initially == Init => IInv
<1>1. ASSUME Init
      PROVE  LoopInv /\ FilledInv /\ NoiseInv /\ DownInv
  <2>1. LoopInv /\ FilledInv
    BY <1>1 DEF Init, LoopInv, FilledInv, EntriesOfEvent, DiffsTrue, Analyzed,
       InEvent
  <2>2. NoiseInv
    BY <1>1 DEF Init, NoiseInv, OnlyNoiseStrays, NoEvent, HasNoise
  <2>3. DownInv
    BY <1>1 DEF Init, DownInv
  <2> QED
    BY <2>1, <2>2, <2>3
<1> QED
  BY <1>1, TypeInit DEF IInv

\* The invariant is inductive.
LEMMA Step ==
  ASSUME IInv, [Next]_vars
  PROVE  IInv'
BY TypeStep, LoopStep, FilledStep, NoiseStep, DownStep DEF IInv

\* IInv holds in every state, for every set of banks and size of the buffer.
THEOREM AnalyzerInvariance == Spec => []IInv
<1>1. IInv /\ [Next]_vars => IInv'
  BY Step
<1> QED
  BY Initially, <1>1, PTL DEF Spec

\* Every variable keeps its type, and the buffer its size.
THEOREM AnalyzerTypeCorrect == Spec => []TypeOK
BY AnalyzerInvariance, PTL DEF IInv

\* Each event makes the entries its own bank calls for and no others.
THEOREM EntriesAreOfEvent == Spec => []EntriesOfEvent
<1>1. IInv => EntriesOfEvent
  BY DEF IInv, FilledInv
<1> QED
  BY AnalyzerInvariance, <1>1, PTL

\* An event taken has a bank the module can have sent, or none.
LEMMA EventWords ==
  ASSUME TypeOK, NEW i \in 1..Len(event.bank)
  PROVE  IsPut(event.bank[i])
<1>1. event.bank \in Banks \cup {<<>>}
  BY DEF TypeOK, Events, NoEvent
<1> QED
  BY <1>1, BankWords

\* v1290_Decode prints what the module has put into a word, for all values of
\* the fields; the macros of v1290.h find the hits, their channels for all
\* times and edges, and their times modulo 2^19.
THEOREM WordsAreTold == Spec => []WordsTell
<1>1. TypeOK => DecodeTells
  BY EventWords, DecodePut DEF DecodeTells
<1>2. TypeOK => MacrosTell
  BY EventWords, HitWord DEF MacrosTell
<1> QED
  BY AnalyzerTypeCorrect, <1>1, <1>2, PTL DEF WordsTell

\* The differences are those of the measured times wherever 19 bits can tell.
THEOREM DifferencesAreTrue == Spec => []DiffsTrue
<1>1. IInv => DiffsTrue
  BY DEF IInv, FilledInv
<1> QED
  BY AnalyzerInvariance, <1>1, PTL

\* mhtdc_ana stores outside of t only for a channel above 2.
THEOREM StraysAreNoise == Spec => []OnlyNoiseStrays
<1>1. IInv => OnlyNoiseStrays
  BY DEF IInv, NoiseInv
<1> QED
  BY AnalyzerInvariance, <1>1, PTL
=============================================================================
