-------------------------- MODULE V1290EventProofs --------------------------
(***************************************************************************)
(* Proofs about V1290Event, for every set of events that keep to           *)
(* EventsAssumption and any number of them and of failing accesses.        *)
(***************************************************************************)
EXTENDS V1290Event, SequenceTheorems, TLAPS

-----------------------------------------------------------------------------
(***************************************************************************)
(* Words and events.                                                       *)
(***************************************************************************)
\* The words of an event: the header first, an end mark last, and neither
\* between them, except for a time tag right before the trailer.
LEMMA EventWords ==
  ASSUME NEW e \in Events
  PROVE  /\ e \in Seq(WordTypes)
         /\ Len(e) \in Nat /\ Len(e) >= 2
         /\ e[1] = Header
         /\ e[Len(e)] = Trailer
         /\ \A i \in 2..Len(e) : e[i] \in Middle \cup {TimeTag, Trailer}
         /\ \A i \in 1..Len(e) : e[i] \in WordTypes
<1>1. /\ e \in Seq(WordTypes)
      /\ Len(e) >= 2
      /\ e[1] = Header
      /\ e[Len(e)] = Trailer
      /\ \A i \in 2..(Len(e) - 1) : e[i] \in Middle \/ (e[i] = TimeTag /\ i = Len(e) - 1)
  BY EventsAssumption
<1>2. Len(e) \in Nat
  BY <1>1
<1>3. ASSUME NEW i \in 2..Len(e)
      PROVE  e[i] \in Middle \cup {TimeTag, Trailer}
  <2>1. CASE i = Len(e)
    BY <1>1, <2>1
  <2>2. CASE i # Len(e)
    BY <1>1, <1>2, <2>2
  <2>. QED  BY <2>1, <2>2
<1>. QED  BY <1>1, <1>2, <1>3

\* What the masks of the two loops say of a word, by its type.
LEMMA Marks ==
  ASSUME NEW w \in Words
  PROVE  /\ MarksHeader(w) <=> w.type \in {Header, Filler}
         /\ MarksEnd(w) <=> w.type \notin Middle
<1>1. w.type \in {0, 1, 3, 4, 8, 16, 17, 24}
  BY DEF Words, WordTypes, Middle, Measure, TdcHeader, TdcTrailer, TdcError,
     Header, Trailer, TimeTag, Filler
<1>2. /\ 0 \div 8 = 0 /\ 1 \div 8 = 0 /\ 3 \div 8 = 0 /\ 4 \div 8 = 0
      /\ 8 \div 8 = 1 /\ 16 \div 8 = 2 /\ 17 \div 8 = 2 /\ 24 \div 8 = 3
      /\ 0 % 2 = 0 /\ 1 % 2 = 1 /\ 2 % 2 = 0 /\ 3 % 2 = 1
  OBVIOUS
<1>. QED
  BY <1>1, <1>2 DEF MarksHeader, MarksEnd, Middle, Measure, TdcHeader, TdcTrailer,
     TdcError, Header, Trailer, TimeTag, Filler

\* A word is a record of the set Words.
LEMMA WordIn ==
  ASSUME NEW t \in WordTypes, NEW n \in Sent \cup {Nothing, Unset}
  PROVE  /\ Word(t, n) \in Words
         /\ Word(t, n).type = t
         /\ Word(t, n).of = n
BY DEF Word, Words

\* An event with its number is a sequence of words that begins with its
\* header, and all of it is left before a word is taken.
LEMMA NumberedEvent ==
  ASSUME NEW e \in Events, NEW n \in Sent
  PROVE  /\ Numbered(e, n) \in Seq(Words)
         /\ Numbered(e, n)[1] = Word(Header, n)
         /\ RestOf(Numbered(e, n), e, n, 0)
         /\ RestOf(Tail(Numbered(e, n)), e, n, 1)
<1> DEFINE s == Numbered(e, n)
<1>1. \A i \in 1..Len(e) : Word(e[i], n) \in Words
  BY EventWords, WordIn
<1>2. s \in Seq(Words) /\ Len(s) = Len(e) /\ \A i \in 1..Len(e) : s[i] = Word(e[i], n)
  BY <1>1, EventWords DEF Numbered
<1>3. s[1] = Word(Header, n)
  BY <1>2, EventWords
<1>4. RestOf(s, e, n, 0)
  BY <1>2, EventWords DEF RestOf
<1>5. /\ Tail(s) \in Seq(Words) /\ Len(Tail(s)) = Len(e) - 1
      /\ \A i \in 1..(Len(e) - 1) : Tail(s)[i] = s[i + 1]
  BY <1>2, EventWords
<1>6. RestOf(Tail(s), e, n, 1)
  BY <1>2, <1>5, EventWords DEF RestOf
<1>. QED  BY <1>2, <1>3, <1>4, <1>6

\* Taking a word of an event leaves what is after it.
LEMMA TakeOne ==
  ASSUME NEW e \in Events, NEW n \in Sent, NEW k \in 1..(Len(e) - 1), NEW p,
         RestOf(p, e, n, k)
  PROVE  /\ p # <<>>
         /\ Head(p) = Word(e[k + 1], n)
         /\ k + 1 \in 2..Len(e)
         /\ Tail(p) \in Seq(Words)
         /\ k + 1 < Len(e) => RestOf(Tail(p), e, n, k + 1)
         /\ k + 1 = Len(e) => Tail(p) = <<>>
<1>1. Len(e) \in Nat /\ k \in Nat /\ k >= 1 /\ k <= Len(e) - 1
  BY EventWords
<1>2. p \in Seq(Words) /\ Len(p) = Len(e) - k /\ \A i \in 1..(Len(e) - k) : p[i] = Word(e[i + k], n)
  BY DEF RestOf
<1>3. p # <<>>
  BY <1>1, <1>2
<1>4. p[1] = Word(e[k + 1], n)
  BY <1>1, <1>2
<1>5. /\ Head(p) = p[1]
      /\ Tail(p) \in Seq(Words)
      /\ Len(Tail(p)) = Len(p) - 1
      /\ \A i \in 1..(Len(p) - 1) : Tail(p)[i] = p[i + 1]
  BY <1>2, <1>3
<1>6. ASSUME k + 1 < Len(e)
      PROVE  RestOf(Tail(p), e, n, k + 1)
  <2>1. ASSUME NEW i \in 1..(Len(e) - (k + 1))
        PROVE  Tail(p)[i] = Word(e[i + (k + 1)], n)
    <3>1. Tail(p)[i] = p[i + 1] /\ i + 1 \in 1..(Len(e) - k)
      BY <1>1, <1>2, <1>5
    <3>2. p[i + 1] = Word(e[(i + 1) + k], n)
      BY <1>2, <3>1
    <3>3. (i + 1) + k = i + (k + 1)
      BY <1>1
    <3>. QED  BY <3>1, <3>2, <3>3
  <2>2. Len(Tail(p)) = Len(e) - (k + 1)
    BY <1>1, <1>2, <1>5
  <2>. QED  BY <1>5, <2>1, <2>2 DEF RestOf
<1>7. ASSUME k + 1 = Len(e)
      PROVE  Tail(p) = <<>>
  <2>1. Len(Tail(p)) = 0
    <3>1. Len(p) = 1
      BY <1>1, <1>2, <1>7
    <3>2. Len(Tail(p)) = Len(p) - 1
      BY <1>5
    <3>. QED  BY <3>1, <3>2
  <2>2. \A seq \in Seq(Words) : seq # <<>> => Len(seq) \in Nat \ {0}
    BY EmptySeq
  <2>. QED  BY <1>5, <2>1, <2>2
<1>. QED  BY <1>1, <1>3, <1>4, <1>5, <1>6, <1>7

\* The oldest event not begun.
LEMMA OldestEvent ==
  ASSUME TypeOK, whole # <<>>
  PROVE  /\ Tail(whole) \in Seq(SentEvents)
         /\ \E e \in Events, n \in Sent :
              /\ Head(whole) = Numbered(e, n)
              /\ Head(whole)[1] = Word(Header, n)
              /\ RestOf(Tail(Head(whole)), e, n, 1)
<1>1. whole \in Seq(SentEvents)
  BY DEF TypeOK
<1>2. Head(whole) \in SentEvents /\ Tail(whole) \in Seq(SentEvents)
  BY <1>1, HeadTailProperties
<1>3. PICK e \in Events, n \in Sent : Head(whole) = Numbered(e, n)
  BY <1>2 DEF SentEvents
<1>. QED  BY <1>2, <1>3, NumberedEvent

\* What one word less leaves in the buffer.
LEMMA TakeWordStep ==
  ASSUME TypeOK, PartInv, TakeWord
  PROVE  /\ part' \in Seq(Words)
         /\ whole' \in Seq(SentEvents)
         /\ PartInv'
         /\ whole' = whole \/ (part = <<>> /\ whole # <<>> /\ whole' = Tail(whole))
<1>1. CASE part # <<>>
  <2>1. PICK e \in Events, n \in Sent : \E k \in 1..(Len(e) - 1) : RestOf(part, e, n, k)
    BY <1>1 DEF PartInv
  <2>2. PICK k \in 1..(Len(e) - 1) : RestOf(part, e, n, k)
    BY <2>1
  <2>3. part' = Tail(part) /\ whole' = whole
    BY <1>1 DEF TakeWord
  <2>4. /\ part' \in Seq(Words)
        /\ k + 1 \in 2..Len(e)
        /\ k + 1 < Len(e) => RestOf(part', e, n, k + 1)
        /\ k + 1 = Len(e) => part' = <<>>
    BY <2>2, <2>3, TakeOne
  <2>5. PartInv'
    <3>1. CASE k + 1 < Len(e)
      <4>1. k + 1 \in 1..(Len(e) - 1)
        BY <3>1, EventWords
      <4>. QED  BY <2>4, <3>1, <4>1 DEF PartInv
    <3>2. CASE k + 1 = Len(e)
      BY <2>4, <3>2 DEF PartInv
    <3>. QED  BY <2>4, <3>1, <3>2, EventWords
  <2>. QED  BY <2>3, <2>4, <2>5 DEF TypeOK
<1>2. CASE part = <<>> /\ whole # <<>>
  <2>1. part' = Tail(Head(whole)) /\ whole' = Tail(whole)
    BY <1>2 DEF TakeWord
  <2>2. PICK e \in Events, n \in Sent : RestOf(part', e, n, 1)
    BY <1>2, <2>1, OldestEvent
  <2>3. 1 \in 1..(Len(e) - 1)
    BY EventWords
  <2>4. PartInv'
    BY <2>2, <2>3 DEF PartInv
  <2>. QED  BY <1>2, <2>1, <2>2, <2>4, OldestEvent DEF RestOf
<1>3. CASE part = <<>> /\ whole = <<>>
  BY <1>3 DEF TakeWord, TypeOK, PartInv
<1>. QED  BY <1>1, <1>2, <1>3

\* The word a read gives: the next of the event begun, the header of the
\* oldest one, a filler word, or, if the read has failed, any.
Held   == UNCHANGED <<sent, fails, sure, hurt>>
Broken == sure' = FALSE /\ hurt' = TRUE /\ sent' = sent

\* One read, successful or not, keeps the event that is being read a part of
\* one that was sent, and the words already read in order.
LEMMA ReadWordStep ==
  ASSUME TypeOK, PartInv, NEW w \in Words, ReadWord(w)
  PROVE  /\ part' \in Seq(Words)
         /\ whole' \in Seq(SentEvents)
         /\ PartInv'
         /\ fails' \in 0..MaxFails /\ sure' \in BOOLEAN /\ hurt' \in BOOLEAN
         /\ whole' = whole \/ (part = <<>> /\ whole # <<>> /\ whole' = Tail(whole))
         /\ \/ /\ Held
               /\ part # <<>> /\ w = Head(part) /\ part' = Tail(part) /\ whole' = whole
            \/ /\ Held
               /\ part = <<>> /\ whole # <<>> /\ whole' = Tail(whole)
               /\ \E e \in Events, n \in Sent :
                    /\ Head(whole) = Numbered(e, n)
                    /\ w = Word(Header, n)
                    /\ RestOf(part', e, n, 1)
            \/ /\ Held
               /\ part = <<>> /\ whole = <<>> /\ w = Word(Filler, Nothing)
               /\ part' = <<>> /\ whole' = <<>>
            \/ Broken /\ w.of = Unset
<1>1. CASE Succeeds /\ w = NextWord /\ TakeWord
  <2>1. Held /\ fails' \in 0..MaxFails /\ sure' \in BOOLEAN /\ hurt' \in BOOLEAN
    BY <1>1 DEF Succeeds, Held, TypeOK
  <2>2. CASE part # <<>>
    BY <1>1, <2>1, <2>2, TakeWordStep DEF NextWord, TakeWord
  <2>3. CASE part = <<>> /\ whole # <<>>
    <3>1. w = Head(whole)[1] /\ part' = Tail(Head(whole)) /\ whole' = Tail(whole)
      BY <1>1, <2>3 DEF NextWord, TakeWord
    <3>2. \E e \in Events, n \in Sent :
            /\ Head(whole) = Numbered(e, n)
            /\ w = Word(Header, n)
            /\ RestOf(part', e, n, 1)
      BY <2>3, <3>1, OldestEvent
    <3>. QED  BY <1>1, <2>1, <2>3, <3>1, <3>2, TakeWordStep
  <2>4. CASE part = <<>> /\ whole = <<>>
    BY <1>1, <2>1, <2>4, TakeWordStep DEF NextWord, TakeWord
  <2>. QED  BY <2>2, <2>3, <2>4
<1>2. CASE /\ Fails
           /\ hurt' = TRUE
           /\ w \in {Word(t, Unset) : t \in {Measure, Header, Trailer}}
           /\ TakeWord \/ UNCHANGED <<part, whole>>
  <2>1. /\ part' \in Seq(Words)
        /\ whole' \in Seq(SentEvents)
        /\ PartInv'
        /\ whole' = whole \/ (part = <<>> /\ whole # <<>> /\ whole' = Tail(whole))
    <3>1. CASE TakeWord
      BY <3>1, TakeWordStep
    <3>2. CASE UNCHANGED <<part, whole>>
      BY <3>2 DEF TypeOK, PartInv
    <3>. QED  BY <1>2, <3>1, <3>2
  <2>2. fails' \in 0..MaxFails /\ sure' \in BOOLEAN /\ hurt' \in BOOLEAN /\ Broken
    <3>1. fails' \in 0..MaxFails
      BY <1>2, BoundsAssumption DEF Fails, TypeOK
    <3>2. Broken
      BY <1>2 DEF Fails, Broken
    <3>. QED  BY <3>1, <3>2, Zenon DEF Broken
  <2>3. w.of = Unset
    BY <1>2 DEF Word
  <2>. QED  BY <2>1, <2>2, <2>3
<1>. QED  BY <1>1, <1>2 DEF ReadWord

-----------------------------------------------------------------------------
(***************************************************************************)
(* Banks.                                                                  *)
(***************************************************************************)
\* What a bank is of is a number.
LEMMA BankOfType ==
  ASSUME NEW d \in Seq(Words), Len(d) >= 1
  PROVE  BankOf(d) \in Sent \cup {Nothing, Unset}
<1>1. d[1] \in Words
  BY LenProperties, ElementOfSeq
<1>2. d[1].of \in Sent \cup {Nothing, Unset}
  BY <1>1 DEF Words
<1>. QED  BY <1>2 DEF BankOf

\* A bank that is of no event, or a word that is of none, makes a bank of none.
LEMMA BankSpoilt ==
  ASSUME NEW d \in Seq(Words), Len(d) >= 1, NEW w \in Words,
         BankOf(d) = Unset \/ w.of = Unset
  PROVE  BankOf(Append(d, w)) = Unset
<1> DEFINE a == Append(d, w)
<1>1. /\ a \in Seq(Words) /\ Len(a) = Len(d) + 1 /\ Len(d) \in Nat
      /\ \A i \in 1..Len(d) : a[i] = d[i]
      /\ a[Len(d) + 1] = w
  BY AppendProperties, LenProperties
<1>2. a[1] = d[1]
  BY <1>1
<1>3. SUFFICES ASSUME a[1].type = Header, \A i \in 1..Len(a) : a[i].of = a[1].of
               PROVE  a[1].of = Unset
  BY DEF BankOf
<1>4. CASE w.of = Unset
  <2>1. Len(d) + 1 \in 1..Len(a)
    BY <1>1
  <2>. QED  BY <1>1, <1>3, <1>4, <2>1
<1>5. CASE BankOf(d) = Unset
  <2>1. d[1].type = Header /\ \A i \in 1..Len(d) : d[i].of = d[1].of
    <3>1. \A i \in 1..Len(d) : i \in 1..Len(a)
      BY <1>1
    <3>. QED  BY <1>1, <1>2, <1>3, <3>1
  <2>2. BankOf(d) = d[1].of
    BY <2>1 DEF BankOf
  <2>. QED  BY <1>2, <1>5, <2>2
<1>. QED  BY <1>4, <1>5

\* A bank of words of one event, the header first, is of that event.
LEMMA BankOfEvent ==
  ASSUME NEW d, Len(d) \in Nat, Len(d) >= 1, NEW n,
         d[1].type = Header, \A i \in 1..Len(d) : d[i].of = n
  PROVE  BankOf(d) = n
<1>1. d[1].of = n
  BY 1 \in 1..Len(d)
<1>. QED  BY <1>1 DEF BankOf

\* A bank of one word that is no event's header is of no event.
LEMMA BankOfOne ==
  ASSUME NEW w \in Words, w.type # Header \/ w.of = Unset
  PROVE  BankOf(<<w>>) = Unset
BY DEF BankOf

-----------------------------------------------------------------------------
(***************************************************************************)
(* The inductive invariant.                                                *)
(***************************************************************************)
\* It holds initially.
LEMMA EventInvInit == Init => EventInv
<1> SUFFICES ASSUME Init PROVE EventInv
  OBVIOUS
<1>1. TypeOK
  <2>1. <<>> \in Seq(Words) /\ <<>> \in Seq(SentEvents)
    BY EmptySeq
  <2>2. sent \in 0..MaxSent /\ fails \in 0..MaxFails /\ bank \in Sent \cup {Nothing, Unset}
    BY BoundsAssumption DEF Init
  <2>3. sure \in BOOLEAN /\ hurt \in BOOLEAN /\ pc \in Labels
    BY DEF Init, Labels
  <2>. QED  BY <2>1, <2>2, <2>3 DEF Init, TypeOK
<1>2. PartInv /\ AskInv /\ RestInv /\ DestInv
  BY DEF Init, PartInv, AskInv, RestInv, DestInv
<1>3. FitsEvent
  <2>1. PICK e \in Events : TRUE
    BY EventsAssumption
  <2>2. Len(dest) <= Len(e)
    BY EventWords DEF Init
  <2>. QED  BY <2>2 DEF FitsEvent
<1>. QED  BY <1>1, <1>2, <1>3 DEF EventInv

\* A readout takes the header, skips what is no header, or takes a filler
\* word for one.
LEMMA ReadHeaderStep ==
  ASSUME EventInv, ReadHeader
  PROVE  EventInv'
<1>. USE DEF EventInv
<1>1. PICK w \in Words :
        /\ ReadWord(w)
        /\ IF MarksHeader(w) THEN pc' = "rest" /\ dest' = <<w>>
                             ELSE UNCHANGED <<pc, dest>>
  BY DEF ReadHeader
<1>2. pc = "header" /\ UNCHANGED bank /\ dest = <<>> /\ sent' = sent
  BY <1>1, ReadWordStep DEF ReadHeader, DestInv, Held, Broken
<1>3. TypeOK'
  <2>1. dest' \in Seq(Words) /\ pc' \in Labels
    <3>1. <<w>> \in Seq(Words) /\ <<>> \in Seq(Words)
      BY EmptySeq
    <3>2. dest' \in {<<w>>, <<>>} /\ pc' \in {"rest", "header"}
      BY <1>1, <1>2
    <3>. QED  BY <3>1, <3>2 DEF Labels
  <2>2. sure' \in BOOLEAN /\ hurt' \in BOOLEAN
    BY <1>1, ReadWordStep, Zenon
  <2>. QED  BY <1>1, <1>2, <2>1, <2>2, ReadWordStep DEF TypeOK
<1>4. PartInv'
  BY <1>1, ReadWordStep
<1>5. CASE MarksHeader(w)
  <2>1. pc' = "rest" /\ dest' = <<w>> /\ Len(dest') = 1 /\ dest'[1] = w
    BY <1>1, <1>5
  <2>2. w.type \in {Header, Filler}
    BY <1>5, Marks
  <2>3. DestInv' /\ FitsEvent'
    <3>1. PICK e \in Events : TRUE
      BY EventsAssumption
    <3>2. Len(dest') <= Len(e)
      BY <2>1, EventWords
    <3>. QED  BY <2>1, <3>2 DEF DestInv, FitsEvent
  <2>4. CASE /\ Held
             /\ part # <<>> /\ w = Head(part) /\ part' = Tail(part) /\ whole' = whole
    <3>1. PICK e \in Events, n \in Sent : \E k \in 1..(Len(e) - 1) : RestOf(part, e, n, k)
      BY <2>4 DEF PartInv
    <3>2. PICK k \in 1..(Len(e) - 1) : RestOf(part, e, n, k)
      BY <3>1
    <3>3. w = Word(e[k + 1], n) /\ k + 1 \in 2..Len(e)
      BY <2>4, <3>2, TakeOne
    <3>4. w.type \in Middle \cup {TimeTag, Trailer}
      BY <3>3, EventWords DEF Word
    <3>5. FALSE
      BY <2>2, <3>4 DEF Middle, Measure, TdcHeader, TdcTrailer, TdcError, Header,
         Trailer, TimeTag, Filler
    <3>. QED  BY <3>5
  <2>5. CASE /\ Held
             /\ part = <<>> /\ whole # <<>> /\ whole' = Tail(whole)
             /\ \E e \in Events, n \in Sent :
                  /\ Head(whole) = Numbered(e, n)
                  /\ w = Word(Header, n)
                  /\ RestOf(part', e, n, 1)
    <3>1. PICK e \in Events, n \in Sent : w = Word(Header, n) /\ RestOf(part', e, n, 1)
      BY <2>5
    <3>2. dest'[1].type = Header /\ \A i \in 1..1 : dest'[i].of = n
      BY <2>1, <3>1 DEF Word
    <3>3. 1 \in 1..(Len(e) - 1)
      BY EventWords
    <3>4. RestInv'
      BY <2>1, <3>1, <3>2, <3>3 DEF RestInv
    <3>5. AskInv'
      BY <2>1, <2>5 DEF AskInv, Held
    <3>. QED  BY <1>3, <1>4, <2>3, <3>4, <3>5
  <2>6. CASE /\ Held
             /\ part = <<>> /\ whole = <<>> /\ w = Word(Filler, Nothing)
             /\ part' = <<>> /\ whole' = <<>>
    <3>1. ~sure /\ ~sure'
      BY <1>2, <2>6 DEF AskInv, Held
    <3>2. BankOf(dest') = Unset
      BY <2>1, <2>6, BankOfOne DEF Word, Filler, Header
    <3>3. RestInv'
      BY <2>1, <2>6, <3>1, <3>2 DEF RestInv
    <3>4. AskInv'
      BY <3>1 DEF AskInv
    <3>. QED  BY <1>3, <1>4, <2>3, <3>3, <3>4
  <2>7. CASE Broken /\ w.of = Unset
    <3>1. BankOf(dest') = Unset
      BY <2>1, <2>7, BankOfOne
    <3>2. RestInv' /\ AskInv'
      BY <2>1, <2>7, <3>1 DEF RestInv, AskInv, Broken
    <3>. QED  BY <1>3, <1>4, <2>3, <3>2
  <2>. QED  BY <1>1, <2>4, <2>5, <2>6, <2>7, ReadWordStep
<1>6. CASE ~MarksHeader(w)
  <2>1. pc' = "header" /\ dest' = <<>>
    BY <1>1, <1>2, <1>6
  <2>2. ~sure'
    <3>1. ASSUME Held, sure PROVE FALSE
      <4>1. part = <<>> /\ whole # <<>>
        BY <1>2, <3>1 DEF AskInv
      <4>2. PICK n \in Sent : w = Word(Header, n)
        BY <1>1, <3>1, <4>1, ReadWordStep DEF Held, Broken
      <4>3. w.type = Header
        BY <4>2 DEF Word
      <4>. QED  BY <1>6, <4>3, Marks
    <3>2. Held \/ sure' = FALSE
      BY <1>1, ReadWordStep DEF Broken
    <3>. QED  BY <3>1, <3>2 DEF Held
  <2>3. AskInv' /\ RestInv' /\ DestInv'
    BY <2>1, <2>2 DEF AskInv, RestInv, DestInv
  <2>4. FitsEvent'
    BY <2>1, EventsAssumption, EventWords DEF FitsEvent
  <2>. QED  BY <1>3, <1>4, <2>3, <2>4
<1>. QED  BY <1>5, <1>6

\* What the second loop stores: the next word of the event whose header the
\* first one has stored, or words a failure has brought about.
LEMMA ReadRestStep ==
  ASSUME EventInv, ReadRest
  PROVE  EventInv'
<1>. USE DEF EventInv
<1>1. PICK w \in Words :
        /\ ReadWord(w)
        /\ dest' = Append(dest, w)
        /\ IF MarksEnd(w) THEN pc' = "clear" /\ bank' = BankOf(dest')
                          ELSE UNCHANGED <<pc, bank>>
  BY DEF ReadRest
<1>2. pc = "rest" /\ sent' = sent /\ pc' \in {"rest", "clear"}
  BY <1>1, ReadWordStep DEF ReadRest, Held, Broken
<1>3. /\ dest \in Seq(Words) /\ Len(dest) \in Nat /\ Len(dest) >= 1
      /\ dest' \in Seq(Words)
      /\ Len(dest') = Len(dest) + 1
      /\ \A i \in 1..Len(dest) : dest'[i] = dest[i]
      /\ dest'[Len(dest) + 1] = w
  <2>1. dest \in Seq(Words) /\ Len(dest) \in Nat
    BY LenProperties DEF TypeOK
  <2>2. Len(dest) >= 1
    BY <1>2, <2>1 DEF RestInv
  <2>. QED  BY <1>1, <2>1, <2>2, AppendProperties
<1>4. TypeOK'
  <2>1. bank' \in Sent \cup {Nothing, Unset}
    <3>1. BankOf(dest') \in Sent \cup {Nothing, Unset}
      BY <1>3, BankOfType
    <3>2. bank' = BankOf(dest') \/ bank' = bank
      BY <1>1
    <3>. QED  BY <3>1, <3>2 DEF TypeOK
  <2>2. sure' \in BOOLEAN /\ hurt' \in BOOLEAN
    BY <1>1, ReadWordStep, Zenon
  <2>3. pc' \in Labels
    BY <1>2 DEF Labels
  <2>. QED  BY <1>1, <1>2, <1>3, <2>1, <2>2, <2>3, ReadWordStep DEF TypeOK
<1>5. PartInv' /\ DestInv'
  BY <1>1, <1>2, ReadWordStep DEF DestInv
<1>6. AskInv'
  <2>1. Held \/ sure' = FALSE
    BY <1>1, ReadWordStep DEF Broken
  <2>. QED  BY <1>2, <2>1 DEF AskInv, Held
<1>7. RestInv' /\ FitsEvent'
  <2>1. CASE Broken /\ w.of = Unset
    <3>1. BankOf(dest') = Unset
      BY <1>1, <1>3, <2>1, BankSpoilt
    <3>2. ~sure' /\ hurt' /\ Len(dest') >= 1
      BY <1>3, <2>1 DEF Broken
    <3>. QED  BY <3>1, <3>2 DEF RestInv, FitsEvent
  <2>2. CASE /\ ~(Broken /\ w.of = Unset)
             /\ \E e \in Events, n \in Sent : \E k \in 1..(Len(e) - 1) :
                  /\ RestOf(part, e, n, k)
                  /\ Len(dest) = k
                  /\ dest[1].type = Header
                  /\ \A i \in 1..k : dest[i].of = n
    <3>1. PICK e \in Events, n \in Sent : \E k \in 1..(Len(e) - 1) :
                  /\ RestOf(part, e, n, k)
                  /\ Len(dest) = k
                  /\ dest[1].type = Header
                  /\ \A i \in 1..k : dest[i].of = n
      BY <2>2
    <3>2. PICK k \in 1..(Len(e) - 1) :
                  /\ RestOf(part, e, n, k)
                  /\ Len(dest) = k
                  /\ dest[1].type = Header
                  /\ \A i \in 1..k : dest[i].of = n
      BY <3>1
    <3>3. /\ part # <<>>
          /\ Head(part) = Word(e[k + 1], n)
          /\ k + 1 \in 2..Len(e)
          /\ k + 1 < Len(e) => RestOf(Tail(part), e, n, k + 1)
      BY <3>2, TakeOne
    <3>4. w = Head(part) /\ part' = Tail(part)
      BY <1>1, <2>2, <3>3, ReadWordStep
    <3>5. w.type = e[k + 1] /\ w.of = n
      BY <3>3, <3>4 DEF Word
    <3>6. FitsEvent'
      <4>1. Len(dest') <= Len(e)
        BY <1>3, <3>2, <3>3, EventWords
      <4>. QED  BY <4>1 DEF FitsEvent
    <3>7. ASSUME pc' = "rest" PROVE k + 1 < Len(e)
      <4>1. w.type \in Middle
        BY <1>1, <3>7, Marks
      <4>2. Trailer \notin Middle
        BY DEF Trailer, Middle, Measure, TdcHeader, TdcTrailer, TdcError
      <4>3. k + 1 # Len(e)
        BY <3>5, <4>1, <4>2, EventWords
      <4>. QED  BY <3>3, <4>3, EventWords
    <3>8. RestInv'
      <4>1. SUFFICES ASSUME pc' = "rest" PROVE RestInv'
        BY DEF RestInv
      <4>2. RestOf(part', e, n, k + 1) /\ k + 1 \in 1..(Len(e) - 1)
        BY <3>3, <3>4, <3>7, <4>1, EventWords
      <4>3. Len(dest') = k + 1 /\ dest'[1].type = Header
        BY <1>3, <3>2
      <4>4. \A i \in 1..(k + 1) : dest'[i].of = n
        BY <1>3, <3>2, <3>5
      <4>. QED  BY <4>2, <4>3, <4>4 DEF RestInv
    <3>. QED  BY <3>6, <3>8
  <2>3. CASE /\ ~(Broken /\ w.of = Unset)
             /\ ~sure /\ Len(dest) >= 1 /\ BankOf(dest) = Unset
             /\ hurt \/ (Len(dest) = 1 /\ part = <<>>)
    <3>1. Held
      BY <1>1, <2>3, ReadWordStep
    <3>2. BankOf(dest') = Unset /\ ~sure'
      BY <1>1, <1>3, <2>3, <3>1, BankSpoilt DEF Held
    <3>3. CASE hurt
      <4>1. hurt'
        BY <3>1, <3>3 DEF Held
      <4>2. FitsEvent'
        BY <4>1 DEF FitsEvent
      <4>3. RestInv'
        BY <1>3, <3>2, <4>1 DEF RestInv
      <4>. QED  BY <4>2, <4>3
    <3>4. CASE Len(dest) = 1 /\ part = <<>>
      <4>1. w.type \in {Header, Filler}
        BY <1>1, <2>3, <3>4, ReadWordStep DEF Word
      <4>2. pc' = "clear"
        BY <1>1, <4>1, Marks DEF Middle, Measure, TdcHeader, TdcTrailer, TdcError,
           Header, Filler
      <4>3. PICK e \in Events : TRUE
        BY EventsAssumption
      <4>4. Len(dest') <= Len(e)
        BY <1>3, <3>4, EventWords
      <4>. QED  BY <4>2, <4>4 DEF RestInv, FitsEvent
    <3>. QED  BY <2>3, <3>3, <3>4
  <2>. QED  BY <1>2, <2>1, <2>2, <2>3 DEF RestInv
<1>. QED  BY <1>4, <1>5, <1>6, <1>7

\* Asking for data takes nothing out of the buffer.
LEMMA AskStep ==
  ASSUME EventInv, AskForData \/ AskAgain
  PROVE  EventInv'
<1>. USE DEF EventInv
<1>1. PICK b \in BOOLEAN :
        /\ IsDataReady(b)
        /\ b => pc' \in {"ready", "header"} /\ bank' = bank
        /\ ~b => pc' = "clear" /\ bank' \in {Nothing, Unset}
        /\ pc \in {"idle", "ready"} /\ dest' = dest
  <2>1. CASE AskForData
    <3>1. PICK b \in BOOLEAN :
            /\ IsDataReady(b)
            /\ IF b THEN pc' = "ready" /\ bank' = bank
                    ELSE pc' = "clear" /\ bank' \in {Nothing, Unset}
      BY <2>1 DEF AskForData
    <3>. QED  BY <2>1, <3>1 DEF AskForData
  <2>2. CASE AskAgain
    <3>1. PICK b \in BOOLEAN :
            /\ IsDataReady(b)
            /\ IF b THEN pc' = "header" /\ bank' = bank
                    ELSE pc' = "clear" /\ bank' = Nothing
      BY <2>2 DEF AskAgain
    <3>. QED  BY <2>2, <3>1 DEF AskAgain
  <2>. QED  BY <2>1, <2>2
<1>2. /\ part' = part /\ whole' = whole /\ sent' = sent /\ fails' \in 0..MaxFails
      /\ (Held /\ b = HasData) \/ sure' = FALSE
  <2>1. CASE Succeeds /\ b = HasData
    BY <1>1, <2>1 DEF IsDataReady, Succeeds, Held, TypeOK
  <2>2. CASE Fails /\ hurt' = TRUE /\ b \in BOOLEAN
    BY <1>1, <2>2, BoundsAssumption DEF IsDataReady, Fails, TypeOK
  <2>. QED  BY <1>1, <2>1, <2>2 DEF IsDataReady
<1>3. sure' \in BOOLEAN /\ hurt' \in BOOLEAN
  BY <1>1, Zenon DEF IsDataReady, Succeeds, Fails, TypeOK
<1>4. dest' = <<>> /\ dest = <<>>
  BY <1>1 DEF DestInv
<1>5. TypeOK'
  <2>1. bank' \in Sent \cup {Nothing, Unset} /\ pc' \in Labels
    BY <1>1 DEF TypeOK, Labels
  <2>. QED  BY <1>1, <1>2, <1>3, <2>1 DEF TypeOK
<1>6. PartInv'
  BY <1>2 DEF PartInv
<1>7. AskInv'
  <2>1. SUFFICES ASSUME sure' = TRUE PROVE AskInv'
    BY <1>3 DEF AskInv
  <2>2. Held /\ b = HasData
    BY <1>2, <2>1
  <2>3. sure /\ ~hurt' /\ part' = <<>>
    BY <1>1, <1>2, <2>1, <2>2 DEF AskInv, Held
  <2>4. b => whole' # <<>>
    BY <1>2, <2>2, <2>3 DEF HasData
  <2>. QED  BY <1>1, <2>3, <2>4 DEF AskInv
<1>8. RestInv' /\ DestInv'
  BY <1>1, <1>4 DEF RestInv, DestInv
<1>9. FitsEvent'
  BY <1>4, EventsAssumption, EventWords DEF FitsEvent
<1>. QED  BY <1>5, <1>6, <1>7, <1>8, <1>9

\* The clear at the end of a readout, or at the start of a process.
LEMMA ClearStep ==
  ASSUME EventInv, StartProcess \/ SoftClear
  PROVE  EventInv'
<1>. USE DEF EventInv
<1>1. ClearModule /\ pc' = "idle" /\ bank' = bank
  BY DEF StartProcess, SoftClear
<1>2. dest' = <<>>
  BY DEF StartProcess, SoftClear, DestInv
<1>3. /\ sent' = sent /\ fails' \in 0..MaxFails /\ hurt' = FALSE
      /\ \/ part' = <<>> /\ whole' = <<>> /\ sure' = TRUE
         \/ part' = part /\ whole' = whole /\ sure' = FALSE
  BY <1>1, BoundsAssumption DEF ClearModule, Fails, TypeOK
<1>4. TypeOK'
  <2>1. sure' \in BOOLEAN /\ hurt' \in BOOLEAN
    BY <1>3
  <2>2. <<>> \in Seq(Words) /\ <<>> \in Seq(SentEvents)
    BY EmptySeq
  <2>. QED  BY <1>1, <1>2, <1>3, <2>1, <2>2 DEF TypeOK, Labels
<1>5. PartInv'
  BY <1>3 DEF PartInv
<1>6. AskInv' /\ RestInv' /\ DestInv'
  BY <1>1, <1>2, <1>3 DEF AskInv, RestInv, DestInv
<1>7. FitsEvent'
  BY <1>2, EventsAssumption, EventWords DEF FitsEvent
<1>. QED  BY <1>4, <1>5, <1>6, <1>7

\* An event gets into the buffer behind those that are there.
LEMMA MatchStep ==
  ASSUME EventInv, Match
  PROVE  EventInv'
<1>. USE DEF EventInv
<1>1. PICK e \in Events : whole' = Append(whole, Numbered(e, sent'))
  BY DEF Match
<1>2. sent' \in 0..MaxSent /\ sent' \in Sent
  BY BoundsAssumption DEF Match, TypeOK, Sent
<1>3. whole' \in Seq(SentEvents) /\ whole' # <<>>
  <2>1. Numbered(e, sent') \in SentEvents
    BY <1>2 DEF SentEvents
  <2>. QED  BY <1>1, <2>1, AppendProperties DEF TypeOK
<1>4. UNCHANGED <<part, pc, dest, bank, fails, sure, hurt>>
  BY DEF Match
<1>5. TypeOK'
  <2>1. sure' \in BOOLEAN /\ hurt' \in BOOLEAN
    BY <1>4 DEF TypeOK
  <2>. QED  BY <1>2, <1>3, <1>4, <2>1 DEF TypeOK
<1>6. PartInv' /\ AskInv' /\ DestInv' /\ FitsEvent'
  BY <1>3, <1>4 DEF PartInv, AskInv, DestInv, FitsEvent
<1>7. RestInv'
  BY <1>4 DEF RestInv
<1>. QED  BY <1>5, <1>6, <1>7

\* The process ends, at any access.
LEMMA KillStep ==
  ASSUME EventInv, Kill
  PROVE  EventInv'
<1>. USE DEF EventInv
<1>1. /\ UNCHANGED <<sent, part, whole, fails>>
      /\ pc' = "down" /\ dest' = <<>> /\ bank' = Nothing
      /\ sure' = FALSE /\ hurt' = FALSE
  BY DEF Kill, moduleVars
<1>2. TypeOK'
  <2>1. sure' \in BOOLEAN /\ hurt' \in BOOLEAN /\ <<>> \in Seq(Words)
    BY <1>1, EmptySeq
  <2>. QED  BY <1>1, <2>1 DEF TypeOK, Labels
<1>3. PartInv' /\ AskInv' /\ RestInv' /\ DestInv'
  BY <1>1 DEF PartInv, AskInv, RestInv, DestInv
<1>4. FitsEvent'
  BY <1>1, EventsAssumption, EventWords DEF FitsEvent
<1>. QED  BY <1>2, <1>3, <1>4

\* Every step preserves the invariant.
LEMMA EventInvStep == EventInv /\ [Next]_vars => EventInv'
<1> SUFFICES ASSUME EventInv, [Next]_vars PROVE EventInv'
  OBVIOUS
<1>1. CASE Match
  BY <1>1, MatchStep
<1>2. CASE Kill
  BY <1>2, KillStep
<1>3. CASE StartProcess \/ SoftClear
  BY <1>3, ClearStep
<1>4. CASE AskForData \/ AskAgain
  BY <1>4, AskStep
<1>5. CASE ReadHeader
  BY <1>5, ReadHeaderStep
<1>6. CASE ReadRest
  BY <1>6, ReadRestStep
<1>7. CASE UNCHANGED vars
  BY <1>7 DEF vars, moduleVars, EventInv, TypeOK, PartInv, AskInv, RestInv, DestInv,
     FitsEvent
<1>. QED  BY <1>1, <1>2, <1>3, <1>4, <1>5, <1>6, <1>7 DEF Next, Program

\* The invariant holds whatever events come, reads fail or kills happen.
THEOREM EventInvariance == Spec => []EventInv
<1>1. Init => EventInv
  BY EventInvInit
<1>2. EventInv /\ [Next]_vars => EventInv'
  BY EventInvStep
<1>. QED  BY <1>1, <1>2, PTL DEF Spec

\* Every variable keeps its type, and every word counted is one read.
THEOREM EventTypeCorrect == Spec => []TypeOK
<1>1. EventInv => TypeOK
  BY DEF EventInv
<1>. QED  BY <1>1, EventInvariance, PTL

\* A readout without a failed read never stores more than an event's words.
THEOREM BankFitsEvent == Spec => []FitsEvent
<1>1. EventInv => FitsEvent
  BY DEF EventInv
<1>. QED  BY <1>1, EventInvariance, PTL

-----------------------------------------------------------------------------
(***************************************************************************)
(* V1290Event implements EventQueue.                                       *)
(***************************************************************************)
\* The numbers of events, one by one.
LEMMA NumbersOfEvents ==
  ASSUME NEW s \in Seq(SentEvents)
  PROVE  /\ Numbers(s) \in Seq(Sent)
         /\ Len(Numbers(s)) = Len(s)
         /\ \A i \in 1..Len(s) : Numbers(s)[i] = s[i][1].of
<1>1. ASSUME NEW i \in 1..Len(s)
      PROVE  s[i][1].of \in Sent
  <2>1. s[i] \in SentEvents
    BY ElementOfSeq
  <2>2. PICK e \in Events, n \in Sent : s[i] = Numbered(e, n)
    BY <2>1 DEF SentEvents
  <2>3. s[i][1] = Word(Header, n)
    BY <2>2, NumberedEvent
  <2>4. Word(Header, n).of = n
    BY DEF Word
  <2>. QED  BY <2>3, <2>4
<1>2. Len(s) \in Nat
  BY LenProperties
<1>. QED  BY <1>1, <1>2 DEF Numbers

\* The oldest event's number is the first.
LEMMA NumbersOfTail ==
  ASSUME NEW s \in Seq(SentEvents), s # <<>>
  PROVE  /\ Numbers(s) # <<>>
         /\ Head(Numbers(s)) = Head(s)[1].of
         /\ Numbers(Tail(s)) = Tail(Numbers(s))
<1>1. Len(s) \in Nat /\ Len(s) >= 1
  BY EmptySeq, LenProperties
<1>2. /\ Tail(s) \in Seq(SentEvents)
      /\ Len(Tail(s)) = Len(s) - 1
      /\ \A i \in 1..Len(Tail(s)) : Tail(s)[i] = s[i + 1]
  BY HeadTailProperties
<1>3. /\ Numbers(s) \in Seq(Sent) /\ Len(Numbers(s)) = Len(s)
      /\ \A i \in 1..Len(s) : Numbers(s)[i] = s[i][1].of
  BY NumbersOfEvents
<1>4. Numbers(s) # <<>>
  BY <1>1, <1>3
<1>5. Head(Numbers(s)) = Head(s)[1].of
  BY <1>1, <1>3, <1>4
<1>6. /\ Tail(Numbers(s)) \in Seq(Sent)
      /\ Len(Tail(Numbers(s))) = Len(s) - 1
      /\ \A i \in 1..Len(Tail(Numbers(s))) : Tail(Numbers(s))[i] = Numbers(s)[i + 1]
  BY <1>3, <1>4, HeadTailProperties
<1>7. /\ Numbers(Tail(s)) \in Seq(Sent)
      /\ Len(Numbers(Tail(s))) = Len(s) - 1
      /\ \A i \in 1..Len(Tail(s)) : Numbers(Tail(s))[i] = Tail(s)[i][1].of
  BY <1>2, NumbersOfEvents
<1>8. ASSUME NEW i \in 1..Len(Numbers(Tail(s)))
      PROVE  Numbers(Tail(s))[i] = Tail(Numbers(s))[i]
  <2>1. i \in 1..Len(Tail(s)) /\ i + 1 \in 1..Len(s) /\ i \in 1..Len(Tail(Numbers(s)))
    BY <1>1, <1>2, <1>6, <1>7
  <2>2. Numbers(Tail(s))[i] = s[i + 1][1].of
    BY <1>2, <1>7, <2>1
  <2>3. Tail(Numbers(s))[i] = s[i + 1][1].of
    BY <1>3, <1>6, <2>1
  <2>. QED  BY <2>2, <2>3
<1>9. Numbers(Tail(s)) = Tail(Numbers(s))
  BY <1>6, <1>7, <1>8, SeqEqual
<1>. QED  BY <1>4, <1>5, <1>9

\* A new event's number is the last.
LEMMA NumbersOfAppend ==
  ASSUME NEW s \in Seq(SentEvents), NEW x \in SentEvents
  PROVE  Numbers(Append(s, x)) = Append(Numbers(s), x[1].of)
<1> DEFINE a == Append(s, x)
<1>1. /\ a \in Seq(SentEvents) /\ Len(a) = Len(s) + 1 /\ Len(s) \in Nat
      /\ \A i \in 1..Len(s) : a[i] = s[i]
      /\ a[Len(s) + 1] = x
  BY AppendProperties, LenProperties
<1>2. /\ Numbers(s) \in Seq(Sent) /\ Len(Numbers(s)) = Len(s)
      /\ \A i \in 1..Len(s) : Numbers(s)[i] = s[i][1].of
  BY NumbersOfEvents
<1>3. /\ Numbers(a) \in Seq(Sent) /\ Len(Numbers(a)) = Len(a)
      /\ \A i \in 1..Len(a) : Numbers(a)[i] = a[i][1].of
  BY <1>1, NumbersOfEvents
<1>4. x[1].of \in Sent
  <2>1. PICK e \in Events, n \in Sent : x = Numbered(e, n)
    BY DEF SentEvents
  <2>2. x[1] = Word(Header, n) /\ Word(Header, n).of = n
    BY <2>1, NumberedEvent, WordIn DEF WordTypes
  <2>. QED  BY <2>2
<1> DEFINE b == Append(Numbers(s), x[1].of)
<1>5. /\ b \in Seq(Sent) /\ Len(b) = Len(s) + 1
      /\ \A i \in 1..Len(s) : b[i] = Numbers(s)[i]
      /\ b[Len(s) + 1] = x[1].of
  BY <1>2, <1>4, AppendProperties
<1>6. ASSUME NEW i \in 1..Len(a)
      PROVE  Numbers(a)[i] = b[i]
  <2>1. CASE i \in 1..Len(s)
    BY <1>1, <1>2, <1>3, <1>5, <2>1
  <2>2. CASE i = Len(s) + 1
    BY <1>1, <1>3, <1>5, <2>2
  <2>3. i \in 1..Len(s) \/ i = Len(s) + 1
    BY <1>1
  <2>. QED  BY <2>1, <2>2, <2>3
<1>. QED  BY <1>1, <1>3, <1>5, <1>6, SeqEqual

\* No events, no numbers.
LEMMA NumbersOfNone == Numbers(<<>>) = <<>>
<1>1. Numbers(<<>>) \in Seq(Sent) /\ Len(Numbers(<<>>)) = 0
  BY EmptySeq, NumbersOfEvents
<1>. QED  BY <1>1, EmptySeq

\* An event before others is the head of the sequence they make.
LEMMA EventBefore ==
  ASSUME NEW n \in Sent, NEW s \in Seq(Sent)
  PROVE  /\ <<n>> \o s \in Seq(Sent)
         /\ <<n>> \o s # <<>>
         /\ Head(<<n>> \o s) = n
         /\ Tail(<<n>> \o s) = s
<1> DEFINE c == <<n>> \o s
<1>1. <<n>> \in Seq(Sent) /\ Len(<<n>>) = 1 /\ <<n>>[1] = n
  OBVIOUS
<1>2. /\ c \in Seq(Sent) /\ Len(c) = 1 + Len(s) /\ Len(s) \in Nat
      /\ \A i \in 1..(1 + Len(s)) : c[i] = IF i <= 1 THEN <<n>>[i] ELSE s[i - 1]
  BY <1>1, ConcatProperties, LenProperties
<1>3. c # <<>> /\ Head(c) = n
  BY <1>1, <1>2
<1>4. /\ Tail(c) \in Seq(Sent) /\ Len(Tail(c)) = Len(s)
      /\ \A i \in 1..Len(Tail(c)) : Tail(c)[i] = c[i + 1]
  BY <1>2, <1>3, HeadTailProperties
<1>5. ASSUME NEW i \in 1..Len(s) PROVE Tail(c)[i] = s[i]
  <2>1. i + 1 \in 1..(1 + Len(s)) /\ ~(i + 1 <= 1) /\ (i + 1) - 1 = i
    BY <1>2
  <2>. QED  BY <1>2, <1>4, <2>1
<1>6. Tail(c) = s
  BY <1>4, <1>5, SeqEqual
<1>. QED  BY <1>2, <1>3, <1>6

\* A step after which something has failed may lose the first event.
LEMMA GarbleStep ==
  ASSUME sent' = sent, sure' = FALSE, bank' \in {bank, Nothing, Unset},
         Unread \in Seq(Sent),
         Unread' = Unread \/ (Unread # <<>> /\ Unread' = Tail(Unread))
  PROVE  Queue!Garble
<1>1. Len(Unread) \in Nat
  BY LenProperties
<1>2. CASE Unread' = Unread
  <2>1. Unread = SubSeq(Unread, 1, Len(Unread))
    <3> DEFINE b == SubSeq(Unread, 1, Len(Unread))
    <3>1. /\ b \in Seq(Sent) /\ Len(b) = Len(Unread)
          /\ \A i \in 1..Len(Unread) : b[i] = Unread[i]
      BY <1>1
    <3>. QED  BY <3>1, SeqEqual
  <2>2. 0 \in 0..Len(Unread) /\ 0 + 1 = 1
    BY <1>1
  <2>3. \E n \in 0..Len(Unread) : Unread' = SubSeq(Unread, n + 1, Len(Unread))
    BY <1>2, <2>1, <2>2
  <2>. QED  BY <2>3 DEF Queue!Garble, Queue!Nothing, Queue!Unset, Nothing, Unset
<1>3. CASE Unread # <<>> /\ Unread' = Tail(Unread)
  <2>1. Unread' = SubSeq(Unread, 2, Len(Unread))
    BY <1>3, TailIsSubSeq
  <2>2. 1 \in 0..Len(Unread) /\ 1 + 1 = 2
    BY <1>1, <1>3, EmptySeq
  <2>3. \E n \in 0..Len(Unread) : Unread' = SubSeq(Unread, n + 1, Len(Unread))
    BY <2>1, <2>2
  <2>. QED  BY <2>3 DEF Queue!Garble, Queue!Nothing, Queue!Unset, Nothing, Unset
<1>. QED  BY <1>2, <1>3

\* A sequence is its head before its tail.
LEMMA HeadBeforeTail ==
  ASSUME NEW s \in Seq(Sent), s # <<>>
  PROVE  Head(s) \in Sent /\ s = <<Head(s)>> \o Tail(s)
<1>1. Head(s) \in Sent /\ Tail(s) \in Seq(Sent) /\ Len(Tail(s)) = Len(s) - 1
      /\ \A i \in 1..Len(Tail(s)) : Tail(s)[i] = s[i + 1]
  BY HeadTailProperties
<1>2. Len(s) \in Nat /\ Len(s) >= 1 /\ Head(s) = s[1]
  BY EmptySeq, LenProperties
<1> DEFINE c == <<Head(s)>> \o Tail(s)
<1>3. <<Head(s)>> \in Seq(Sent) /\ Len(<<Head(s)>>) = 1 /\ <<Head(s)>>[1] = Head(s)
  BY <1>1
<1>4. /\ c \in Seq(Sent) /\ Len(c) = 1 + Len(Tail(s))
      /\ \A i \in 1..(1 + Len(Tail(s))) :
           c[i] = IF i <= 1 THEN <<Head(s)>>[i] ELSE Tail(s)[i - 1]
  BY <1>1, <1>3, ConcatProperties
<1>5. ASSUME NEW i \in 1..Len(s) PROVE s[i] = c[i]
  <2>1. CASE i = 1
    BY <1>1, <1>2, <1>3, <1>4, <2>1
  <2>2. CASE i > 1
    <3>1. i \in 1..(1 + Len(Tail(s))) /\ ~(i <= 1) /\ i - 1 \in 1..Len(Tail(s)) /\ (i - 1) + 1 = i
      BY <1>1, <1>2, <2>2
    <3>. QED  BY <1>1, <1>4, <3>1
  <2>. QED  BY <2>1, <2>2
<1>6. Len(c) = Len(s)
  BY <1>1, <1>2, <1>4
<1>. QED  BY <1>1, <1>4, <1>5, <1>6, SeqEqual

\* Where no event is being read, the events not begun are those not read.
LEMMA NoneBefore ==
  ASSUME NEW s \in Seq(SentEvents)
  PROVE  <<>> \o Numbers(s) = Numbers(s)
BY NumbersOfEvents, ConcatEmptySeq

\* What is not read, in a state of the invariant.
LEMMA UnreadParts ==
  ASSUME EventInv
  PROVE  /\ whole \in Seq(SentEvents)
         /\ Numbers(whole) \in Seq(Sent)
         /\ Unread \in Seq(Sent)
         /\ pc # "rest" => Unread = Numbers(whole)
         /\ pc = "rest" /\ BankOf(dest) = Unset => Unread = Numbers(whole)
         /\ \A n \in Sent : pc = "rest" /\ BankOf(dest) = n
                            => Unread = <<n>> \o Numbers(whole)
<1>1. whole \in Seq(SentEvents) /\ Numbers(whole) \in Seq(Sent)
  BY NumbersOfEvents DEF EventInv, TypeOK
<1>2. (pc # "rest" \/ BankOf(dest) = Unset) => Unread = Numbers(whole)
  BY <1>1, NoneBefore DEF Unread, Current
<1>3. ASSUME NEW n \in Sent, pc = "rest", BankOf(dest) = n
      PROVE  Unread = <<n>> \o Numbers(whole) /\ Unread \in Seq(Sent)
  <2>1. n # Unset /\ n # Nothing
    BY DEF Sent, Unset, Nothing
  <2>2. Unread = <<n>> \o Numbers(whole)
    BY <1>3, <2>1 DEF Unread, Current
  <2>. QED  BY <1>1, <2>2, EventBefore
<1>4. CASE pc = "rest"
  <2>1. BankOf(dest) = Unset \/ BankOf(dest) \in Sent
    <3>1. CASE \E e \in Events, n \in Sent : \E k \in 1..(Len(e) - 1) :
                 /\ Len(dest) = k
                 /\ dest[1].type = Header
                 /\ \A i \in 1..k : dest[i].of = n
      <4>1. PICK n \in Sent, k \in Nat \ {0} :
                 /\ Len(dest) = k
                 /\ dest[1].type = Header
                 /\ \A i \in 1..k : dest[i].of = n
        BY <3>1, EventWords
      <4>2. BankOf(dest) = n
        BY <4>1, BankOfEvent
      <4>. QED  BY <4>2
    <3>2. CASE BankOf(dest) = Unset
      BY <3>2
    <3>. QED  BY <1>4, <3>1, <3>2 DEF EventInv, RestInv
  <2>. QED  BY <1>1, <1>2, <1>3, <2>1
<1>. QED  BY <1>1, <1>2, <1>3, <1>4

\* Reading a header begins an event and takes none.
LEMMA ReadHeaderRefines ==
  ASSUME EventInv, ReadHeader
  PROVE  Queue!Garble \/ UNCHANGED Queue!queueVars
<1>1. PICK w \in Words :
        /\ ReadWord(w)
        /\ IF MarksHeader(w) THEN pc' = "rest" /\ dest' = <<w>>
                             ELSE UNCHANGED <<pc, dest>>
  BY DEF ReadHeader
<1>2. pc = "header" /\ bank' = bank /\ TypeOK /\ PartInv
  BY DEF ReadHeader, EventInv
<1>3. Unread = Numbers(whole) /\ Unread \in Seq(Sent) /\ whole \in Seq(SentEvents)
  BY <1>2, UnreadParts
<1>4. whole' \in Seq(SentEvents)
  BY <1>1, <1>2, ReadWordStep
<1>5. ASSUME w.type # Header \/ w.of = Unset
      PROVE  Unread' = Numbers(whole')
  <2>1. pc' # "rest" \/ BankOf(dest') = Unset
    BY <1>1, <1>2, <1>5, BankOfOne
  <2>2. Unread' = <<>> \o Numbers(whole')
    BY <2>1 DEF Unread, Current
  <2>. QED  BY <1>4, <2>2, NoneBefore
<1>6. CASE /\ Held
           /\ part # <<>> /\ w = Head(part) /\ part' = Tail(part) /\ whole' = whole
  <2>1. PICK e \in Events, n \in Sent : \E k \in 1..(Len(e) - 1) : RestOf(part, e, n, k)
    BY <1>2, <1>6 DEF PartInv
  <2>2. PICK k \in 1..(Len(e) - 1) : RestOf(part, e, n, k)
    BY <2>1
  <2>3. w = Word(e[k + 1], n) /\ k + 1 \in 2..Len(e)
    BY <1>6, <2>2, TakeOne
  <2>4. w.type # Header
    BY <2>3, EventWords DEF Word, Middle, Measure, TdcHeader, TdcTrailer, TdcError,
       Header, Trailer, TimeTag
  <2>5. Unread' = Unread
    BY <1>3, <1>5, <1>6, <2>4
  <2>. QED  BY <1>2, <1>6, <2>5 DEF Held, Queue!queueVars
<1>7. CASE /\ Held
           /\ part = <<>> /\ whole # <<>> /\ whole' = Tail(whole)
           /\ \E e \in Events, n \in Sent :
                /\ Head(whole) = Numbered(e, n)
                /\ w = Word(Header, n)
                /\ RestOf(part', e, n, 1)
  <2>1. PICK e \in Events, n \in Sent : Head(whole) = Numbered(e, n) /\ w = Word(Header, n)
    BY <1>7
  <2>2. w.type = Header /\ w.of = n
    BY <2>1 DEF Word
  <2>3. pc' = "rest" /\ dest' = <<w>>
    BY <1>1, <2>2, Marks
  <2>4. BankOf(dest') = n
    <3>1. Len(dest') = 1 /\ dest'[1] = w
      BY <2>3
    <3>2. \A i \in 1..Len(dest') : dest'[i].of = n
      BY <2>2, <3>1
    <3>3. dest'[1].type = Header /\ Len(dest') \in Nat /\ Len(dest') >= 1
      BY <2>2, <3>1
    <3>. QED  BY <3>2, <3>3, BankOfEvent
  <2>5. Unread' = <<n>> \o Numbers(Tail(whole))
    <3>1. n # Unset /\ n # Nothing
      BY DEF Sent, Unset, Nothing
    <3>. QED  BY <1>7, <2>3, <2>4, <3>1 DEF Unread, Current
  <2>6. Numbers(whole) # <<>> /\ Head(Numbers(whole)) = n
        /\ Numbers(Tail(whole)) = Tail(Numbers(whole))
    <3>1. Head(whole)[1] = Word(Header, n)
      BY <2>1, NumberedEvent
    <3>2. Head(whole)[1].of = n
      BY <3>1 DEF Word
    <3>. QED  BY <1>3, <1>7, <3>2, NumbersOfTail
  <2>7. Unread' = Unread
    BY <1>3, <2>5, <2>6, HeadBeforeTail
  <2>. QED  BY <1>2, <1>7, <2>7 DEF Held, Queue!queueVars
<1>8. CASE /\ Held
           /\ part = <<>> /\ whole = <<>> /\ w = Word(Filler, Nothing)
           /\ part' = <<>> /\ whole' = <<>>
  <2>1. w.type # Header
    BY <1>8 DEF Word, Filler, Header
  <2>2. Unread' = Unread
    BY <1>3, <1>5, <1>8, <2>1
  <2>. QED  BY <1>2, <1>8, <2>2 DEF Held, Queue!queueVars
<1>9. CASE Broken /\ w.of = Unset
  <2>1. Unread' = Numbers(whole')
    BY <1>5, <1>9
  <2>2. whole' = whole \/ (whole # <<>> /\ whole' = Tail(whole))
    BY <1>1, <1>2, ReadWordStep
  <2>3. Unread' = Unread \/ (Unread # <<>> /\ Unread' = Tail(Unread))
    BY <1>3, <2>1, <2>2, NumbersOfTail
  <2>4. bank' \in {bank, Nothing, Unset} /\ sent' = sent /\ sure' = FALSE
    BY <1>2, <1>9 DEF Broken
  <2>. QED  BY <1>3, <2>3, <2>4, GarbleStep
<1>. QED  BY <1>1, <1>2, <1>6, <1>7, <1>8, <1>9, ReadWordStep

\* Reading the rest ends with the event taken, the oldest not read.
LEMMA ReadRestRefines ==
  ASSUME EventInv, ReadRest
  PROVE  Queue!Take \/ Queue!Garble \/ UNCHANGED Queue!queueVars
<1>1. PICK w \in Words :
        /\ ReadWord(w)
        /\ dest' = Append(dest, w)
        /\ IF MarksEnd(w) THEN pc' = "clear" /\ bank' = BankOf(dest')
                          ELSE UNCHANGED <<pc, bank>>
  BY DEF ReadRest
<1>2. pc = "rest" /\ TypeOK /\ PartInv /\ pc' \in {"rest", "clear"}
  BY <1>1 DEF ReadRest, EventInv
<1>3. Numbers(whole) \in Seq(Sent) /\ Unread \in Seq(Sent) /\ whole \in Seq(SentEvents)
  BY UnreadParts
<1>4. whole' \in Seq(SentEvents)
  BY <1>1, <1>2, ReadWordStep
<1>5. dest \in Seq(Words) /\ Len(dest) \in Nat /\ Len(dest) >= 1
  <2>1. dest \in Seq(Words) /\ Len(dest) \in Nat
    BY <1>2, LenProperties DEF TypeOK
  <2>2. Len(dest) >= 1
    BY <1>2, <2>1 DEF EventInv, RestInv
  <2>. QED  BY <2>1, <2>2
<1>6. ASSUME BankOf(dest') = Unset
      PROVE  Unread' = Numbers(whole') /\ bank' \in {bank, Nothing, Unset}
  <2>1. Unread' = <<>> \o Numbers(whole')
    BY <1>6 DEF Unread, Current
  <2>. QED  BY <1>1, <1>4, <1>6, <2>1, NoneBefore
<1>7. whole' = whole \/ (part = <<>> /\ whole # <<>> /\ whole' = Tail(whole))
  BY <1>1, <1>2, ReadWordStep
<1>8. ASSUME sure' = FALSE, sent' = sent, BankOf(dest) = Unset
      PROVE  Queue!Garble
  <2>1. BankOf(dest') = Unset
    BY <1>1, <1>5, <1>8, BankSpoilt
  <2>2. Unread = Numbers(whole)
    BY <1>2, <1>8, UnreadParts
  <2>3. Unread' = Unread \/ (Unread # <<>> /\ Unread' = Tail(Unread))
    BY <1>3, <1>6, <1>7, <2>1, <2>2, NumbersOfTail
  <2>. QED  BY <1>3, <1>6, <1>8, <2>1, <2>3, GarbleStep
<1>9. Held \/ (Broken /\ w.of = Unset)
  BY <1>1, <1>2, ReadWordStep
<1>10. CASE \E e \in Events, n \in Sent : \E k \in 1..(Len(e) - 1) :
              /\ RestOf(part, e, n, k)
              /\ Len(dest) = k
              /\ dest[1].type = Header
              /\ \A i \in 1..k : dest[i].of = n
  <2>1. PICK e \in Events, n \in Sent : \E k \in 1..(Len(e) - 1) :
              /\ RestOf(part, e, n, k)
              /\ Len(dest) = k
              /\ dest[1].type = Header
              /\ \A i \in 1..k : dest[i].of = n
    BY <1>10
  <2>2. PICK k \in 1..(Len(e) - 1) :
              /\ RestOf(part, e, n, k)
              /\ Len(dest) = k
              /\ dest[1].type = Header
              /\ \A i \in 1..k : dest[i].of = n
    BY <2>1
  <2>3. part # <<>> /\ Head(part) = Word(e[k + 1], n)
    BY <2>2, TakeOne
  <2>4. Unread = <<n>> \o Numbers(whole)
    <3>1. BankOf(dest) = n
      BY <1>5, <2>2, BankOfEvent
    <3>. QED  BY <1>2, <3>1, UnreadParts
  <2>5. Unread # <<>> /\ Head(Unread) = n /\ Tail(Unread) = Numbers(whole)
    BY <1>3, <2>4, EventBefore
  <2>6. whole' = whole
    BY <1>7, <2>3
  <2>7. CASE Broken /\ w.of = Unset
    <3>1. BankOf(dest') = Unset
      BY <1>1, <1>5, <2>7, BankSpoilt
    <3>2. Unread' = Tail(Unread) /\ bank' \in {bank, Nothing, Unset}
      BY <1>6, <2>5, <2>6, <3>1
    <3>. QED  BY <1>3, <2>5, <2>7, <3>2, GarbleStep DEF Broken
  <2>8. CASE Held /\ ~(Broken /\ w.of = Unset)
    <3>1. w = Head(part)
      BY <1>1, <1>2, <2>3, <2>8, ReadWordStep
    <3>2. w.of = n
      BY <2>3, <3>1 DEF Word
    <3>3. BankOf(dest') = n
      <4>1. /\ Len(dest') = Len(dest) + 1
            /\ \A i \in 1..Len(dest) : dest'[i] = dest[i]
            /\ dest'[Len(dest) + 1] = w
        BY <1>1, <1>5, AppendProperties
      <4>2. dest'[1].type = Header /\ \A i \in 1..Len(dest') : dest'[i].of = n
        BY <1>5, <2>2, <3>2, <4>1
      <4>3. Len(dest') \in Nat /\ Len(dest') >= 1
        BY <1>5, <4>1
      <4>. QED  BY <4>2, <4>3, BankOfEvent
    <3>4. CASE MarksEnd(w)
      <4>1. pc' = "clear" /\ bank' = n
        BY <1>1, <3>3, <3>4
      <4>2. Unread' = Numbers(whole)
        <5>1. Unread' = <<>> \o Numbers(whole)
          BY <2>6, <4>1 DEF Unread, Current
        <5>. QED  BY <1>3, <5>1, NoneBefore
      <4>. QED  BY <2>5, <2>8, <4>1, <4>2 DEF Held, Queue!Take
    <3>5. CASE ~MarksEnd(w)
      <4>1. pc' = "rest" /\ bank' = bank
        BY <1>1, <1>2, <3>5
      <4>2. n # Unset /\ n # Nothing
        BY DEF Sent, Unset, Nothing
      <4>3. Unread' = Unread
        BY <2>4, <2>6, <3>3, <4>1, <4>2 DEF Unread, Current
      <4>. QED  BY <2>8, <4>1, <4>3 DEF Held, Queue!queueVars
    <3>. QED  BY <3>4, <3>5
  <2>. QED  BY <1>9, <2>7, <2>8
<1>11. CASE ~sure /\ BankOf(dest) = Unset
  <2>1. sure' = FALSE /\ sent' = sent
    BY <1>2, <1>9, <1>11 DEF Held, Broken, TypeOK
  <2>. QED  BY <1>8, <1>11, <2>1
<1>. QED  BY <1>2, <1>10, <1>11 DEF EventInv, RestInv

\* Asking for data makes a bank of no words only if there is no event.
LEMMA AskRefines ==
  ASSUME EventInv, AskForData \/ AskAgain
  PROVE  Queue!Miss \/ Queue!Garble \/ UNCHANGED Queue!queueVars
<1>1. PICK b \in BOOLEAN :
        /\ IsDataReady(b)
        /\ b => bank' = bank
        /\ ~b => bank' \in {Nothing, Unset}
        /\ pc \in {"idle", "ready"} /\ pc' # "rest"
  <2>1. CASE AskForData
    <3>1. PICK b \in BOOLEAN :
            /\ IsDataReady(b)
            /\ IF b THEN pc' = "ready" /\ bank' = bank
                    ELSE pc' = "clear" /\ bank' \in {Nothing, Unset}
      BY <2>1 DEF AskForData
    <3>. QED  BY <2>1, <3>1 DEF AskForData
  <2>2. CASE AskAgain
    <3>1. PICK b \in BOOLEAN :
            /\ IsDataReady(b)
            /\ IF b THEN pc' = "header" /\ bank' = bank
                    ELSE pc' = "clear" /\ bank' = Nothing
      BY <2>2 DEF AskAgain
    <3>. QED  BY <2>2, <3>1 DEF AskAgain
  <2>. QED  BY <2>1, <2>2
<1>2. whole' = whole
  BY <1>1 DEF IsDataReady
<1>3. Unread = Numbers(whole) /\ Unread \in Seq(Sent)
  BY <1>1, UnreadParts
<1>4. Unread' = Unread
  <2>1. Unread' = <<>> \o Numbers(whole)
    BY <1>1, <1>2 DEF Unread, Current
  <2>. QED  BY <1>3, <2>1, NoneBefore, UnreadParts
<1>5. CASE Succeeds /\ b = HasData
  <2>1. CASE b
    BY <1>1, <1>4, <1>5, <2>1 DEF Succeeds, Queue!queueVars
  <2>2. CASE ~b
    <3>1. whole = <<>>
      BY <1>5, <2>2 DEF HasData
    <3>2. Unread = <<>>
      BY <1>3, <3>1, NumbersOfNone
    <3>. QED  BY <1>1, <1>4, <1>5, <2>2, <3>2 DEF Succeeds, Queue!Miss, Queue!Nothing,
         Queue!Unset, Nothing, Unset
  <2>. QED  BY <2>1, <2>2
<1>6. CASE Fails /\ hurt' = TRUE /\ b \in BOOLEAN
  <2>1. sure' = FALSE /\ sent' = sent /\ bank' \in {bank, Nothing, Unset}
    BY <1>1, <1>6 DEF Fails
  <2>. QED  BY <1>3, <1>4, <2>1, GarbleStep
<1>. QED  BY <1>1, <1>5, <1>6 DEF IsDataReady

\* A clear that succeeds drops all events.
LEMMA ClearRefines ==
  ASSUME EventInv, StartProcess \/ SoftClear
  PROVE  Queue!Clear \/ Queue!Garble \/ UNCHANGED Queue!queueVars
<1>1. ClearModule /\ pc # "rest" /\ pc' = "idle" /\ bank' = bank
  BY DEF StartProcess, SoftClear
<1>2. Unread = Numbers(whole) /\ Unread \in Seq(Sent) /\ whole \in Seq(SentEvents)
  BY <1>1, UnreadParts
<1>3. Unread' = <<>> \o Numbers(whole')
  BY <1>1 DEF Unread, Current
<1>4. CASE part' = <<>> /\ whole' = <<>> /\ sure' = TRUE /\ UNCHANGED <<sent, fails>>
  <2>1. Unread' = <<>>
    BY <1>3, <1>4, NumbersOfNone
  <2>. QED  BY <1>1, <1>4, <2>1 DEF Queue!Clear
<1>5. CASE Fails /\ UNCHANGED <<part, whole>>
  <2>1. Unread' = Unread
    BY <1>2, <1>3, <1>5, NoneBefore
  <2>. QED  BY <1>1, <1>2, <1>5, <2>1, GarbleStep DEF Fails
<1>. QED  BY <1>1, <1>4, <1>5 DEF ClearModule

\* Trigger matching appends to the events not read.
LEMMA MatchRefines ==
  ASSUME EventInv, Match
  PROVE  Queue!Match
<1>1. PICK e \in Events : whole' = Append(whole, Numbered(e, sent'))
  BY DEF Match
<1>2. sent' = sent + 1 /\ UNCHANGED <<pc, dest, bank, sure>>
  BY DEF Match
<1>3. sent' \in Sent
  BY BoundsAssumption DEF Match, EventInv, TypeOK, Sent
<1>4. Numbered(e, sent') \in SentEvents /\ Numbered(e, sent')[1].of = sent'
  <2>1. Numbered(e, sent') \in SentEvents
    BY <1>3 DEF SentEvents
  <2>2. Numbered(e, sent')[1] = Word(Header, sent')
    BY <1>3, NumberedEvent
  <2>. QED  BY <2>1, <2>2 DEF Word
<1>5. whole \in Seq(SentEvents) /\ Numbers(whole) \in Seq(Sent) /\ Unread \in Seq(Sent)
  BY UnreadParts
<1>6. Numbers(whole') = Append(Numbers(whole), sent')
  BY <1>1, <1>4, <1>5, NumbersOfAppend
<1>7. Unread' = Append(Unread, sent')
  <2>1. Current' = Current
    BY <1>2 DEF Current
  <2>2. Numbers(whole') = Numbers(whole) \o <<sent'>>
    BY <1>3, <1>5, <1>6, AppendIsConcat
  <2>3. Current \in Seq(Sent)
    <3>1. Current = <<>> \/ Current = <<BankOf(dest)>>
      BY DEF Current
    <3>2. CASE Current = <<>>
      BY <3>2, EmptySeq
    <3>3. CASE Current = <<BankOf(dest)>> /\ Current # <<>>
      <4>1. pc = "rest" /\ BankOf(dest) # Unset /\ BankOf(dest) # Nothing
        BY <3>3 DEF Current
      <4>2. dest \in Seq(Words) /\ Len(dest) \in Nat
        BY LenProperties DEF EventInv, TypeOK
      <4>3. Len(dest) >= 1
        BY <4>1, <4>2 DEF EventInv, RestInv
      <4>4. BankOf(dest) \in Sent
        BY <4>1, <4>2, <4>3, BankOfType
      <4>. QED  BY <3>3, <4>4
    <3>. QED  BY <3>1, <3>2, <3>3
  <2>4. <<sent'>> \in Seq(Sent)
    BY <1>3
  <2>5. Current \o (Numbers(whole) \o <<sent'>>) = (Current \o Numbers(whole)) \o <<sent'>>
    BY <1>5, <2>3, <2>4, ConcatAssociative
  <2>6. Unread \o <<sent'>> = Append(Unread, sent')
    BY <1>3, <1>5, AppendIsConcat
  <2>. QED  BY <2>1, <2>2, <2>5, <2>6 DEF Unread
<1>. QED  BY <1>2, <1>7 DEF Queue!Match

\* The end of the process loses the event it was reading, if any.
LEMMA KillRefines ==
  ASSUME EventInv, Kill
  PROVE  Queue!Garble
<1>1. /\ UNCHANGED <<sent, whole>>
      /\ pc' = "down" /\ bank' = Nothing /\ sure' = FALSE
  BY DEF Kill, moduleVars
<1>2. Unread' = Numbers(whole)
  <2>1. Unread' = <<>> \o Numbers(whole)
    BY <1>1 DEF Unread, Current
  <2>. QED  BY <2>1, UnreadParts, NoneBefore
<1>3. Unread' = Unread \/ (Unread # <<>> /\ Unread' = Tail(Unread))
  <2>1. CASE Current = <<>>
    <3>1. Unread = <<>> \o Numbers(whole)
      BY <2>1 DEF Unread
    <3>. QED  BY <1>2, <3>1, UnreadParts, NoneBefore
  <2>2. CASE Current # <<>>
    <3>1. pc = "rest" /\ BankOf(dest) # Unset /\ BankOf(dest) # Nothing
      BY <2>2 DEF Current
    <3>2. dest \in Seq(Words) /\ Len(dest) \in Nat
      BY LenProperties DEF EventInv, TypeOK
    <3>3. Len(dest) >= 1
      BY <3>1, <3>2 DEF EventInv, RestInv
    <3>4. BankOf(dest) \in Sent
      BY <3>1, <3>2, <3>3, BankOfType
    <3>5. Unread = <<BankOf(dest)>> \o Numbers(whole)
      BY <3>1, <3>4, UnreadParts
    <3>. QED  BY <1>2, <3>4, <3>5, UnreadParts, EventBefore
  <2>. QED  BY <2>1, <2>2
<1>. QED  BY <1>1, <1>3, UnreadParts, GarbleStep

\* Every step is one of EventQueue, or none.
LEMMA QueueStep == EventInv /\ [Next]_vars => [Queue!Next]_(Queue!queueVars)
<1> SUFFICES ASSUME EventInv, [Next]_vars
             PROVE  Queue!Next \/ UNCHANGED Queue!queueVars
  OBVIOUS
<1>1. CASE Match
  BY <1>1, MatchRefines DEF Queue!Next
<1>2. CASE Kill
  BY <1>2, KillRefines DEF Queue!Next
<1>3. CASE StartProcess \/ SoftClear
  BY <1>3, ClearRefines DEF Queue!Next
<1>4. CASE AskForData \/ AskAgain
  BY <1>4, AskRefines DEF Queue!Next
<1>5. CASE ReadHeader
  BY <1>5, ReadHeaderRefines DEF Queue!Next
<1>6. CASE ReadRest
  BY <1>6, ReadRestRefines DEF Queue!Next
<1>7. CASE UNCHANGED vars
  BY <1>7 DEF vars, moduleVars, Queue!queueVars, Unread, Current
<1>. QED  BY <1>1, <1>2, <1>3, <1>4, <1>5, <1>6, <1>7 DEF Next, Program

\* v1290_EventRead, on a buffer of words that changes while it reads, reads as
\* if the V1290N were a queue of events.
THEOREM EventsReadWhole == Spec => ReadsWholeEvents
<1>1. Init => Queue!Init
  <2>1. ASSUME Init PROVE Unread = <<>>
    <3>1. Current = <<>> /\ whole = <<>>
      BY <2>1 DEF Init, Current
    <3>. QED  BY <3>1, NumbersOfNone, EmptySeq, ConcatEmptySeq DEF Unread
  <2>. QED  BY <2>1 DEF Init, Queue!Init, Nothing, Queue!Nothing
<1>2. EventInv /\ [Next]_vars => [Queue!Next]_(Queue!queueVars)
  BY QueueStep
<1>. QED  BY <1>1, <1>2, EventInvariance, PTL DEF Spec, ReadsWholeEvents, Queue!Spec

-----------------------------------------------------------------------------
(***************************************************************************)
(* Why readouts end.                                                       *)
(***************************************************************************)
\* A read that succeeds takes a word of the event that has been begun, or gives
\* one at which both loops stop.
LEMMA ReadAdvances ==
  ASSUME TypeOK, PartInv, NEW w \in Words, ReadWord(w)
  PROVE  \/ fails' > fails
         \/ fails' = fails /\ Len(part') < Len(part)
         \/ fails' = fails /\ w.type \in {Header, Filler}
<1>1. CASE Fails
  BY <1>1 DEF Fails, TypeOK
<1>2. CASE ~Fails
  <2>1. fails' = fails /\ w = NextWord /\ TakeWord
    BY <1>2 DEF ReadWord, Succeeds
  <2>2. CASE part # <<>>
    <3>1. part' = Tail(part)
      BY <2>1, <2>2 DEF TakeWord
    <3>2. Len(Tail(part)) < Len(part)
      BY <2>2, HeadTailProperties, LenProperties DEF TypeOK
    <3> QED BY <2>1, <3>1, <3>2
  <2>3. CASE part = <<>> /\ whole # <<>>
    <3>1. w = Head(whole)[1]
      BY <2>1, <2>3 DEF NextWord
    <3>2. PICK n \in Sent : Head(whole)[1] = Word(Header, n)
      BY <2>3, OldestEvent
    <3> QED BY <2>1, <3>1, <3>2 DEF Word
  <2>4. CASE part = <<>> /\ whole = <<>>
    BY <2>1, <2>4 DEF NextWord, Word
  <2> QED BY <2>2, <2>3, <2>4
<1> QED BY <1>1, <1>2

\* Where the steps of a readout lead.
LEMMA DistanceOf ==
  /\ pc = "ready"  => Distance = 4
  /\ pc = "header" => Distance = 3
  /\ pc = "rest"   => Distance = 2
  /\ pc = "clear"  => Distance = 1
  /\ pc = "idle"   => Distance = 0
  /\ pc' = "header" => Distance' = 3
  /\ pc' = "rest"   => Distance' = 2
  /\ pc' = "clear"  => Distance' = 1
  /\ pc' = "idle"   => Distance' = 0
BY DEF Distance

\* For every set of events: each access of a readout brings it nearer to its
\* end or takes a word of the one event that has been begun, unless it fails;
\* events that arrive meanwhile, in whatever number, do not keep it.
THEOREM ReadoutsAdvance == Spec => ReadoutAdvances
<1> DEFINE Step ==
      pc \notin {"idle", "down"} =>
        IF Program
        THEN \/ fails' > fails
             \/ fails' = fails /\ Distance' < Distance
             \/ fails' = fails /\ Distance' = Distance /\ Len(part') < Len(part)
        ELSE \/ pc' = "down"
             \/ UNCHANGED <<fails, Distance, part>>
<1>1. ASSUME EventInv, Next, pc \notin {"idle", "down"}, Program
      PROVE  \/ fails' > fails
             \/ fails' = fails /\ Distance' < Distance
             \/ fails' = fails /\ Distance' = Distance /\ Len(part') < Len(part)
  <2>1. TypeOK /\ PartInv /\ fails \in Int
    <3>1. fails \in 0..MaxFails
      BY <1>1 DEF EventInv, TypeOK
    <3> QED BY <1>1, <3>1 DEF EventInv
  <2>2. CASE AskAgain
    <3>1. fails' > fails \/ fails' = fails
      BY <2>1, <2>2 DEF AskAgain, IsDataReady, Succeeds, Fails
    <3>2. pc = "ready" /\ pc' \in {"header", "clear"}
      BY <2>2 DEF AskAgain
    <3> QED BY <3>1, <3>2, DistanceOf
  <2>3. CASE ReadHeader
    <3>1. PICK w \in Words :
            /\ ReadWord(w)
            /\ IF MarksHeader(w) THEN pc' = "rest" ELSE pc' = pc
      BY <2>3 DEF ReadHeader
    <3>2. pc = "header"
      BY <2>3 DEF ReadHeader
    <3>3. CASE MarksHeader(w)
      <4>1. fails' > fails \/ fails' = fails
        BY <2>1, <3>1, ReadAdvances
      <4> QED BY <3>1, <3>2, <3>3, <4>1, DistanceOf
    <3>4. CASE ~MarksHeader(w)
      <4>1. w.type \notin {Header, Filler}
        BY <3>4, Marks
      <4>2. Distance' = Distance
        BY <3>1, <3>4 DEF Distance
      <4> QED BY <3>1, <4>1, <4>2, <2>1, ReadAdvances
    <3> QED BY <3>3, <3>4
  <2>4. CASE ReadRest
    <3>1. PICK w \in Words :
            /\ ReadWord(w)
            /\ IF MarksEnd(w) THEN pc' = "clear" ELSE pc' = pc
      BY <2>4 DEF ReadRest
    <3>2. pc = "rest"
      BY <2>4 DEF ReadRest
    <3>3. CASE MarksEnd(w)
      <4>1. fails' > fails \/ fails' = fails
        BY <2>1, <3>1, ReadAdvances
      <4> QED BY <3>1, <3>2, <3>3, <4>1, DistanceOf
    <3>4. CASE ~MarksEnd(w)
      <4>1. w.type \notin {Header, Filler}
        BY <3>4, Marks DEF Middle, Header, Filler, Measure, TdcHeader, TdcTrailer, TdcError
      <4>2. Distance' = Distance
        BY <3>1, <3>4 DEF Distance
      <4> QED BY <3>1, <4>1, <4>2, <2>1, ReadAdvances
    <3> QED BY <3>3, <3>4
  <2>5. CASE SoftClear
    <3>1. fails' > fails \/ fails' = fails
      BY <2>1, <2>5 DEF SoftClear, ClearModule, Fails
    <3>2. pc = "clear" /\ pc' = "idle"
      BY <2>5 DEF SoftClear
    <3> QED BY <3>1, <3>2, DistanceOf
  <2>6. ~StartProcess /\ ~AskForData
    BY <1>1 DEF StartProcess, AskForData
  <2> QED BY <1>1, <2>2, <2>3, <2>4, <2>5, <2>6 DEF Program
<1>2. ASSUME EventInv, Next, ~Program
      PROVE  pc' = "down" \/ UNCHANGED <<fails, Distance, part>>
  <2>1. CASE Match
    BY <2>1 DEF Match, Distance
  <2>2. CASE Kill
    BY <2>2 DEF Kill
  <2> QED BY <1>2, <2>1, <2>2 DEF Next
<1>3. EventInv /\ [Next]_vars => [Step]_vars
  BY <1>1, <1>2
<1> QED BY <1>3, EventInvariance, PTL DEF Spec, ReadoutAdvances
=============================================================================
