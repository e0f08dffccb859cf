------------------------------ MODULE Analyzer ------------------------------
(***************************************************************************)
(* The MIDAS analyzer of src/analyzer.cc with its two modules,             *)
(* src/phadc_ana.cc and src/mhtdc_ana.cc, fed by the SYSTEM buffer.        *)
(*                                                                         *)
(* MIDAS calls the modules for one event after the other: phadc_ana fills  *)
(* two histograms, mhtdc_ana keeps the time of the last hit of each of     *)
(* three channels in t and fills six.  All times are in units of 25 ps,    *)
(* and the conversion to float and bins is left out.  The analyzer asks    *)
(* with GET_NONBLOCKING: a full buffer loses its oldest event instead of   *)
(* holding up the front end.                                               *)
(***************************************************************************)
EXTENDS V1290Words

CONSTANTS
  Banks,        \* the TDC banks of events, as what the module put into words
  MaxSent,      \* bound: events per behaviour
  Room          \* events the SYSTEM buffer has room for

ASSUME BanksAssumption ==
  \A b \in Banks : /\ b \in Seq([type : WordTypes, fields : Seq(Int)])
                   /\ \A i \in 1..Len(b) : IsPut(b[i])

ASSUME BoundsAssumption == MaxSent \in Nat /\ Room \in Nat \ {0}

Channels == 0..2
Histograms == {"PHADC0", "PHADC1", "tdc0", "tdc1", "tdc2",
               "tdiff1", "tdiff2", "tdiff2-1"}

fake_value == -8000000      \* -200 us

VARIABLES
  sent,     \* number of the latest event of the front end
  buffer,   \* events the analyzer has not asked for, oldest first
  pc,       \* what the process does next
  event,    \* the event it has taken last
  ib,       \* the loop counter of mhtdc_ana
  t,        \* latest times of the channels
  filled,   \* entries this event has made: histogram and value
  stray,    \* mhtdc_ana has stored a time outside of t
  noisy     \* history: a hit of a channel without a place in t was taken

vars == <<sent, buffer, pc, event, ib, t, filled, stray, noisy>>

NoEvent == [num |-> 0, bank |-> <<>>]
Events  == [num : 1..MaxSent, bank : Banks \cup {<<>>}]

IsHit(p)   == p.type = Measure
Channel(p) == p.fields[1]
Time(p)    == p.fields[2]
HitOf(c, p) == IsHit(p) /\ Channel(p) = c

Labels == {"down", "idle", "phadc_ana", "mhtdc_ana", "words", "fill"}

\* Every variable keeps its type.
TypeOK ==
  /\ sent \in 0..MaxSent
  /\ buffer \in Seq(Events) /\ Len(buffer) <= Room
  /\ pc \in Labels
  /\ event \in Events \cup {NoEvent}
  /\ ib \in 0..Len(event.bank)
  /\ t \in [Channels -> Int]
  /\ filled \subseteq Histograms \X Int
  /\ stray \in BOOLEAN
  /\ noisy \in BOOLEAN

Init ==
  /\ sent = 0
  /\ buffer = <<>>
  /\ pc = "down"
  /\ event = NoEvent
  /\ ib = 0
  /\ t = [c \in Channels |-> 0]
  /\ filled = {}
  /\ stray = FALSE
  /\ noisy = FALSE

-----------------------------------------------------------------------------
(***************************************************************************)
(* The front end and the SYSTEM buffer.  The bank may be empty, or of      *)
(* words of another event, where the V1290N had no data in time.           *)
(***************************************************************************)
Latest(s) == IF Len(s) > Room THEN Tail(s) ELSE s

Send ==
  /\ sent < MaxSent
  /\ sent' = sent + 1
  /\ IF pc = "down" THEN buffer' = buffer
     ELSE \E b \in Banks \cup {<<>>} :
            buffer' = Latest(Append(buffer, [num |-> sent', bank |-> b]))
  /\ UNCHANGED <<pc, event, ib, t, filled, stray, noisy>>

-----------------------------------------------------------------------------
(***************************************************************************)
(* The process.                                                            *)
(***************************************************************************)
Start ==
  /\ pc = "down"
  /\ pc' = "idle"
  /\ UNCHANGED <<sent, buffer, event, ib, t, filled, stray, noisy>>

\* All it has is gone, and its request for events.
ProcessEnds ==
  /\ pc' = "down"
  /\ buffer' = <<>>
  /\ event' = NoEvent
  /\ ib' = 0
  /\ t' = [c \in Channels |-> 0]
  /\ filled' = {}
  /\ stray' = FALSE
  /\ noisy' = FALSE
  /\ UNCHANGED sent

\* killall, at any time.
Kill == pc # "down" /\ ProcessEnds

HasNoise(b) == \E i \in 1..Len(b) : IsHit(b[i]) /\ Channel(b[i]) \notin Channels

Take ==
  /\ pc = "idle"
  /\ buffer # <<>>
  /\ pc' = "phadc_ana"
  /\ event' = Head(buffer)
  /\ buffer' = Tail(buffer)
  /\ ib' = 0
  /\ filled' = {}
  /\ noisy' = (noisy \/ HasNoise(event'.bank))
  /\ UNCHANGED <<sent, t, stray>>

\* The front end makes a PHA bank of two words in every event, so that
\* phadc_ana finds it.
phadc_ana ==
  /\ pc = "phadc_ana"
  /\ pc' = "mhtdc_ana"
  /\ filled' = {<<"PHADC0", event.num>>, <<"PHADC1", event.num>>}
  /\ UNCHANGED <<sent, buffer, event, ib, t, stray, noisy>>

\* Mutant of mhtdc_ana: t keeps the times of the event before.
mhtdc_anaKeeps ==
  /\ pc = "mhtdc_ana"
  /\ pc' = (IF event.bank = <<>> THEN "idle" ELSE "words")
  /\ UNCHANGED <<sent, buffer, event, ib, t, filled, stray, noisy>>

\* Without words in the bank it returns, with them it forgets the times of
\* the event before.
mhtdc_ana ==
  /\ pc = "mhtdc_ana"
  /\ \/ event.bank = <<>> /\ pc' = "idle" /\ t' = t
     \/ event.bank # <<>> /\ pc' = "words" /\ t' = [c \in Channels |-> fake_value]
  /\ UNCHANGED <<sent, buffer, event, ib, filled, stray, noisy>>

pdata == Encode(event.bank[ib + 1])

\* Mutant of Word: only a hit is counted.
WordOfHit ==
  /\ pc = "words"
  /\ ib < Len(event.bank)
  /\ V1290_IS_TDC_MEASURE(pdata)
  /\ ib' = ib + 1
  /\ LET chn == V1290_GET_TDC_MSR_CHANNEL(pdata)
     IN  /\ t' = [c \in Channels |->
                    IF c = chn THEN V1290_GET_TDC_MSR_MEASURE(pdata) ELSE t[c]]
         /\ stray' = (stray \/ chn \notin Channels)
  /\ UNCHANGED <<sent, buffer, pc, event, filled, noisy>>

\* One turn of the loop.  A channel above 2 indexes memory outside of t.
Word ==
  /\ pc = "words"
  /\ ib < Len(event.bank)
  /\ ib' = ib + 1
  /\ \/ /\ V1290_IS_TDC_MEASURE(pdata)
        /\ LET chn == V1290_GET_TDC_MSR_CHANNEL(pdata)
           IN  /\ t' = [c \in Channels |->
                          IF c = chn THEN V1290_GET_TDC_MSR_MEASURE(pdata) ELSE t[c]]
               /\ stray' = (stray \/ chn \notin Channels)
     \/ /\ ~V1290_IS_TDC_MEASURE(pdata)
        /\ UNCHANGED <<t, stray>>
  /\ UNCHANGED <<sent, buffer, pc, event, filled, noisy>>

EndOfWords ==
  /\ pc = "words"
  /\ ib = Len(event.bank)
  /\ pc' = "fill"
  /\ UNCHANGED <<sent, buffer, event, ib, t, filled, stray, noisy>>

Valid(c) == t[c] > fake_value

If(cond, S) == IF cond THEN S ELSE {}

\* Mutant of Fill: the first difference is the other way round.
FillSwapped ==
  /\ pc = "fill"
  /\ pc' = "idle"
  /\ filled' = filled
       \cup If(Valid(0), {<<"tdc0", t[0]>>})
       \cup If(Valid(0) /\ Valid(1), {<<"tdc1", t[1]>>, <<"tdiff1", t[0] - t[1]>>})
  /\ UNCHANGED <<sent, buffer, event, ib, t, stray, noisy>>

Fill ==
  /\ pc = "fill"
  /\ pc' = "idle"
  /\ filled' = filled
       \cup If(Valid(0), {<<"tdc0", t[0]>>})
       \cup If(Valid(0) /\ Valid(1), {<<"tdc1", t[1]>>, <<"tdiff1", t[1] - t[0]>>})
       \cup If(Valid(0) /\ Valid(2), {<<"tdc2", t[2]>>, <<"tdiff2", t[2] - t[0]>>})
       \cup If(Valid(0) /\ Valid(1) /\ Valid(2), {<<"tdiff2-1", t[2] - t[1]>>})
  /\ UNCHANGED <<sent, buffer, event, ib, t, stray, noisy>>

\* A pointer to a histogram that a stray store has hit is used.
Crash == stray /\ pc \in {"phadc_ana", "fill"} /\ ProcessEnds

Analyze == Take \/ phadc_ana \/ mhtdc_ana \/ Word \/ EndOfWords \/ Fill

Next == Send \/ Start \/ Kill \/ Analyze \/ Crash

Spec == Init /\ [][Next]_vars

\* MIDAS keeps calling the modules while events come.
FairSpec == Spec /\ WF_vars(Analyze)

-----------------------------------------------------------------------------
(***************************************************************************)
(* What it promises.                                                       *)
(***************************************************************************)
\* The last hit of channel c in a bank, and its time as 19 bits show it.
LastHit(b, c) == CHOOSE i \in 1..Len(b) :
  HitOf(c, b[i]) /\ \A j \in (i + 1)..Len(b) : ~HitOf(c, b[j])
Last(b, c)  == Time(b[LastHit(b, c)])
Shown(b, c) == Last(b, c) % B19
Seen(b) == {c \in Channels : \E i \in 1..Len(b) : HitOf(c, b[i])}

\* The channels an entry needs hits of, and its value.
TdcHistograms == Histograms \ {"PHADC0", "PHADC1"}
Needs(h) == CASE h = "tdc0"               -> {0}
              [] h \in {"tdc1", "tdiff1"} -> {0, 1}
              [] h \in {"tdc2", "tdiff2"} -> {0, 2}
              [] h = "tdiff2-1"           -> {0, 1, 2}
Value(h, b) == CASE h = "tdc0"     -> Shown(b, 0)
                 [] h = "tdc1"     -> Shown(b, 1)
                 [] h = "tdc2"     -> Shown(b, 2)
                 [] h = "tdiff1"   -> Shown(b, 1) - Shown(b, 0)
                 [] h = "tdiff2"   -> Shown(b, 2) - Shown(b, 0)
                 [] h = "tdiff2-1" -> Shown(b, 2) - Shown(b, 1)
TdcEntries(b) ==
  {<<h, Value(h, b)>> : h \in {x \in TdcHistograms : Needs(x) \subseteq Seen(b)}}

Analyzed == pc = "idle" /\ event # NoEvent

\* An event makes exactly the entries its own bank calls for: the last hits of
\* the three channels, nothing without channel 0, nothing of another event.
EntriesOfEvent ==
  Analyzed => {e \in filled : e[1] \in TdcHistograms} = TdcEntries(event.bank)

\* v1290_Decode, which mhtdc_ana has a call of in a comment, prints what the
\* module has put into a word, whatever that is: no mask or shift cuts a field
\* off or lets a neighbour in.
DecodeTells ==
  \A i \in 1..Len(event.bank) :
    v1290_Decode(Encode(event.bank[i])) = event.bank[i].fields

\* The macros mhtdc_ana uses take a word for a hit exactly if it is one; they
\* give its channel whatever its time and edge are, although the mask of the
\* channel has two bits of the time, and of its time the lower 19 bits.
MacrosTell ==
  \A i \in 1..Len(event.bank) :
    LET p == event.bank[i]
        w == Encode(p)
    IN  /\ V1290_IS_TDC_MEASURE(w) <=> IsHit(p)
        /\ IsHit(p) => /\ V1290_GET_TDC_MSR_CHANNEL(w) = Channel(p)
                       /\ V1290_GET_TDC_MSR_MEASURE(w) = Time(p) % B19

\* So both places that take words apart agree with the module on every type of
\* word and on all fields, but for two bits of the time.
WordsTell == DecodeTells /\ MacrosTell

\* A difference is that of the times the TDC has measured where these differ
\* only in the 19 bits the macro looks at.
DiffsTrue ==
  Analyzed =>
    LET b == event.bank
        SamePage(c, d) == Last(b, c) \div B19 = Last(b, d) \div B19
        Right(h, c, d) == \A e \in filled :
          e[1] = h /\ SamePage(c, d) => e[2] = Last(b, c) - Last(b, d)
    IN  Right("tdiff1", 1, 0) /\ Right("tdiff2", 2, 0) /\ Right("tdiff2-1", 2, 1)

\* The times in the histograms are those the TDC has measured.  The histograms
\* reach to 20 us, the window of the TDC as well, and 19 bits to 13.1 us.
TimesTrue ==
  Analyzed =>
    \A e \in filled, c \in Channels :
      e[1] = <<"tdc0", "tdc1", "tdc2">>[c + 1] => e[2] = Last(event.bank, c)

\* No time is stored outside of t, and so the process does not end by itself,
\* unless a channel above 2 has had a hit.
OnlyNoiseStrays == stray => noisy

\* mhtdc_ana ends, whatever the bank is.
AnalysisEnds == (pc = "mhtdc_ana") ~> (pc \in {"idle", "down"})

-----------------------------------------------------------------------------
(***************************************************************************)
(* The inductive invariant.                                                *)
(***************************************************************************)
InEvent == {"phadc_ana", "mhtdc_ana", "words", "fill"}

\* t has the last hit of each channel among the first ib words.
LastOf(c) ==
  \/ t[c] = fake_value /\ \A i \in 1..ib : ~HitOf(c, event.bank[i])
  \/ \E i \in 1..ib : /\ HitOf(c, event.bank[i])
                      /\ t[c] = Time(event.bank[i]) % B19
                      /\ \A j \in (i + 1)..ib : ~HitOf(c, event.bank[j])

LoopInv ==
  /\ pc \in InEvent => event # NoEvent
  /\ pc \in {"words", "fill"} => \A c \in Channels : LastOf(c)
  /\ pc = "fill" => ib = Len(event.bank)
  /\ pc \in {"phadc_ana", "mhtdc_ana"} => ib = 0

PhaEntries == {<<"PHADC0", event.num>>, <<"PHADC1", event.num>>}

FilledInv ==
  /\ pc \in InEvent \ {"phadc_ana"} => filled = PhaEntries
  /\ EntriesOfEvent
  /\ DiffsTrue

NoiseInv == OnlyNoiseStrays /\ (HasNoise(event.bank) => noisy)

\* A process that is down has taken nothing.
DownInv == pc = "down" => event = NoEvent

IInv == TypeOK /\ LoopInv /\ FilledInv /\ NoiseInv /\ DownInv
=============================================================================
