----------------------------- MODULE V1290Event -----------------------------
(***************************************************************************)
(* The event readout of bit3_vme_drivers/v1290.c, one step per VME access, *)
(* as read_trigger_event of src/frontend.cc uses it: v1290_IsDataReady,    *)
(* v1290_EventRead (which asks again) and v1290_SoftClear.  The output     *)
(* buffer of the V1290N hands out one word per read; events get into it    *)
(* whole and at any time, and an empty buffer hands out filler words.      *)
(*                                                                         *)
(* The loops of v1290_EventRead know the beginning and the end of an event *)
(* by the two uppermost bits of a word.  A read that fails gives any word, *)
(* and may or may not have taken one out of the buffer.                    *)
(***************************************************************************)
EXTENDS V1290Words

CONSTANTS
  Events,       \* the events the TDC sends, as sequences of word types
  MaxSent,      \* bound: events per behaviour
  MaxFails      \* bound: accesses that fail

\* A header, then words of the TDCs, then the trailer, which the trigger time
\* tag precedes where it is enabled.
ASSUME EventsAssumption ==
  /\ Events # {}
  /\ \A e \in Events :
       /\ e \in Seq(WordTypes)
       /\ Len(e) >= 2
       /\ e[1] = Header
       /\ e[Len(e)] = Trailer
       /\ \A i \in 2..(Len(e) - 1) :
            e[i] \in Middle \/ (e[i] = TimeTag /\ i = Len(e) - 1)

ASSUME BoundsAssumption ==
  MaxSent \in Nat /\ MaxFails \in Nat

Nothing == 0        \* a bank of no words
Unset   == -1       \* a bank that is not of one event, a word of none

VARIABLES
  sent,     \* number of the latest event
  part,     \* words left of an event that has been begun
  whole,    \* events not begun, oldest first
  pc,       \* the access the program makes next
  dest,     \* the words v1290_EventRead has stored
  bank,     \* what the latest bank is of: an event, Nothing or Unset
  fails,    \* accesses that have failed
  \* History variables: no guard reads them.
  sure,     \* none has since the module was cleared
  hurt      \* one has in this readout

moduleVars == <<sent, part, whole>>
vars == <<moduleVars, pc, dest, bank, fails, sure, hurt>>

Sent  == 1..MaxSent
Words == [type : WordTypes, of : Sent \cup {Nothing, Unset}]
Word(t, n) == [type |-> t, of |-> n]

Labels == {"down", "idle", "ready", "header", "rest", "clear"}

Numbered(e, n) == [i \in 1..Len(e) |-> Word(e[i], n)]
SentEvents == {Numbered(e, n) : e \in Events, n \in Sent}

\* Every variable keeps its type; every word v1290_EventRead counts is one it
\* has read.
TypeOK ==
  /\ sent \in 0..MaxSent
  /\ part \in Seq(Words)
  /\ whole \in Seq(SentEvents)
  /\ pc \in Labels
  /\ dest \in Seq(Words)
  /\ bank \in Sent \cup {Nothing, Unset}
  /\ fails \in 0..MaxFails
  /\ sure \in BOOLEAN
  /\ hurt \in BOOLEAN

Init ==
  /\ sent = 0
  /\ part = <<>>
  /\ whole = <<>>
  /\ pc = "down"
  /\ dest = <<>>
  /\ bank = Nothing
  /\ fails = 0
  /\ sure = TRUE
  /\ hurt = FALSE

-----------------------------------------------------------------------------
(***************************************************************************)
(* The output buffer.                                                      *)
(***************************************************************************)
\* Trigger matching puts an event into it.
Match ==
  /\ sent < MaxSent
  /\ sent' = sent + 1
  /\ \E e \in Events : whole' = Append(whole, Numbered(e, sent'))
  /\ UNCHANGED <<part, pc, dest, bank, fails, sure, hurt>>

HasData == part # <<>> \/ whole # <<>>

NextWord ==
  IF part # <<>> THEN Head(part)
  ELSE IF whole # <<>> THEN Head(whole)[1]
  ELSE Word(Filler, Nothing)

TakeWord ==
  IF part # <<>> THEN part' = Tail(part) /\ whole' = whole
  ELSE IF whole # <<>> THEN part' = Tail(Head(whole)) /\ whole' = Tail(whole)
  ELSE UNCHANGED <<part, whole>>

-----------------------------------------------------------------------------
(***************************************************************************)
(* An access succeeds or fails.                                            *)
(***************************************************************************)
Succeeds == UNCHANGED <<sent, fails, sure, hurt>>

Fails ==
  /\ fails < MaxFails
  /\ fails' = fails + 1
  /\ sure' = FALSE
  /\ UNCHANGED sent

\* mvme_read_value(mvme, base): w is the word the program gets.
ReadWord(w) ==
  \/ Succeeds /\ w = NextWord /\ TakeWord
  \/ /\ Fails
     /\ hurt' = TRUE
     /\ w \in {Word(t, Unset) : t \in {Measure, Header, Trailer}}
     /\ TakeWord \/ UNCHANGED <<part, whole>>

\* v1290_IsDataReady: b is what it returns.
IsDataReady(b) ==
  /\ \/ Succeeds /\ b = HasData
     \/ Fails /\ hurt' = TRUE /\ b \in BOOLEAN
  /\ UNCHANGED <<part, whole>>

\* v1290_SoftClear and v1290_ModuleReset, with which a readout ends or a
\* process starts.
ClearModule ==
  /\ \/ part' = <<>> /\ whole' = <<>> /\ sure' = TRUE /\ UNCHANGED <<sent, fails>>
     \/ Fails /\ UNCHANGED <<part, whole>>
  /\ hurt' = FALSE

\* hdata & 0x40000000
MarksHeader(w) == (w.type \div 8) % 2 = 1

\* pdest[*nentry-1] & 0xc0000000
MarksEnd(w) == w.type \div 8 # 0

\* What the words of a bank are of.
BankOf(words) ==
  IF /\ words[1].type = Header
     /\ \A i \in 1..Len(words) : words[i].of = words[1].of
  THEN words[1].of ELSE Unset

-----------------------------------------------------------------------------
(***************************************************************************)
(* The program.                                                            *)
(***************************************************************************)
\* frontend_init resets the module.
StartProcess ==
  /\ pc = "down"
  /\ pc' = "idle"
  /\ ClearModule
  /\ UNCHANGED <<dest, bank>>

\* killall, or a crash, between any two accesses.
Kill ==
  /\ pc # "down"
  /\ pc' = "down"
  /\ dest' = <<>>
  /\ bank' = Nothing
  /\ sure' = FALSE
  /\ hurt' = FALSE
  /\ UNCHANGED <<moduleVars, fails>>

\* read_trigger_event asks for data; without any, it closes the bank at an
\* nbyte it has not assigned.
AskForData ==
  /\ pc = "idle"
  /\ \E b \in BOOLEAN :
       /\ IsDataReady(b)
       /\ IF b THEN pc' = "ready" /\ bank' = bank
               ELSE pc' = "clear" /\ bank' \in {Nothing, Unset}
  /\ UNCHANGED dest

\* v1290_EventRead asks again.
AskAgain ==
  /\ pc = "ready"
  /\ \E b \in BOOLEAN :
       /\ IsDataReady(b)
       /\ IF b THEN pc' = "header" /\ bank' = bank
               ELSE pc' = "clear" /\ bank' = Nothing
  /\ UNCHANGED dest

\* Mutant of ReadHeader: the header is told by its whole type.
ReadHeaderByType ==
  /\ pc = "header"
  /\ \E w \in Words :
       /\ ReadWord(w)
       /\ IF w.type = Header THEN pc' = "rest" /\ dest' = <<w>>
                             ELSE UNCHANGED <<pc, dest>>
  /\ UNCHANGED bank

\* The first loop of v1290_EventRead.
ReadHeader ==
  /\ pc = "header"
  /\ \E w \in Words :
       /\ ReadWord(w)
       /\ IF MarksHeader(w) THEN pc' = "rest" /\ dest' = <<w>>
                            ELSE UNCHANGED <<pc, dest>>
  /\ UNCHANGED bank

\* Mutant of ReadRest: only bit 31 ends an event.
ReadRestToBit31 ==
  /\ pc = "rest"
  /\ \E w \in Words :
       /\ ReadWord(w)
       /\ dest' = Append(dest, w)
       /\ IF w.type >= 16 THEN pc' = "clear" /\ bank' = BankOf(dest')
                          ELSE UNCHANGED <<pc, bank>>

\* The second loop of v1290_EventRead.
ReadRest ==
  /\ pc = "rest"
  /\ \E w \in Words :
       /\ ReadWord(w)
       /\ dest' = Append(dest, w)
       /\ IF MarksEnd(w) THEN pc' = "clear" /\ bank' = BankOf(dest')
                         ELSE UNCHANGED <<pc, bank>>

\* Mutant of SoftClear: the call is gone.
SoftClearNot ==
  /\ pc = "clear"
  /\ pc' = "idle"
  /\ dest' = <<>>
  /\ hurt' = FALSE
  /\ UNCHANGED <<moduleVars, bank, fails, sure>>

\* The event is done: the module is cleared.
SoftClear ==
  /\ pc = "clear"
  /\ pc' = "idle"
  /\ dest' = <<>>
  /\ ClearModule
  /\ UNCHANGED bank

Program ==
  \/ StartProcess \/ AskForData \/ AskAgain
  \/ ReadHeader \/ ReadRest \/ SoftClear

Next == Match \/ Kill \/ Program

Spec == Init /\ [][Next]_vars

\* A process that runs keeps running, and accesses do not fail for ever: the
\* failures are counted.
FairSpec == Spec /\ WF_vars(Program)

-----------------------------------------------------------------------------
(***************************************************************************)
(* Properties.                                                             *)
(***************************************************************************)
\* A readout without a failed read stores no more words than an event has,
\* whatever earlier readouts, or an earlier process, have left in the buffer
\* and whatever comes into it meanwhile.
FitsEvent == ~hurt => \E e \in Events : Len(dest) <= Len(e)

\* v1290_EventRead ends, even when it has been told that there are data and
\* there is no event: the filler words of an empty buffer end both loops.
ReadoutEnds == []<>(pc \in {"idle", "down"})

\* How far a readout is from its end, by the access it makes next.
Distance ==
  CASE pc = "ready" -> 4 [] pc = "header" -> 3 [] pc = "rest" -> 2
    [] pc = "clear" -> 1 [] OTHER -> 0

\* Why readouts end: every access brings one nearer to its end, or takes a word
\* of the event that has been begun, or is one of the failures; and events that
\* come meanwhile put nothing in its way, however many they are.
ReadoutAdvances ==
  [][pc \notin {"idle", "down"} =>
       IF Program
       THEN \/ fails' > fails
            \/ fails' = fails /\ Distance' < Distance
            \/ fails' = fails /\ Distance' = Distance /\ Len(part') < Len(part)
       ELSE \/ pc' = "down"
            \/ UNCHANGED <<fails, Distance, part>>]_vars

\* The event being read, if nothing but its words have been stored.
Current ==
  IF pc = "rest" /\ BankOf(dest) # Unset /\ BankOf(dest) # Nothing
  THEN <<BankOf(dest)>> ELSE <<>>

Numbers(s) == [i \in 1..Len(s) |-> s[i][1].of]

\* The events not read, oldest first.
Unread == Current \o Numbers(whole)

Queue == INSTANCE EventQueue WITH queue <- Unread

\* Since the module was cleared and no access has failed, each readout gives
\* the oldest event, all of it up to its first end mark, or nothing, and only
\* if there was none; after a failure events are lost, never mixed up with a
\* later one nor put out of order.
ReadsWholeEvents == Queue!Spec

-----------------------------------------------------------------------------
(***************************************************************************)
(* The inductive invariant.                                                *)
(***************************************************************************)
\* p is what is left of event n when k of its words, which are e, are taken.
RestOf(p, e, n, k) ==
  /\ p \in Seq(Words)
  /\ Len(p) = Len(e) - k
  /\ \A i \in 1..(Len(e) - k) : p[i] = Word(e[i + k], n)

\* An event that has been begun has lost its header.
PartInv ==
  part # <<>> =>
    \E e \in Events, n \in Sent : \E k \in 1..(Len(e) - 1) : RestOf(part, e, n, k)

\* As long as nothing has failed, a readout begins with a header, and
\* v1290_IsDataReady tells the truth until it has been read.
AskInv ==
  sure => /\ ~hurt
          /\ pc \in {"down", "idle", "ready", "header"} => part = <<>>
          /\ pc \in {"ready", "header"} => whole # <<>>

\* What has been stored and what is left make up an event; or something has
\* failed, and then only a failure in this very readout lets more than one
\* word be stored.
RestInv ==
  pc = "rest" =>
    \/ \E e \in Events, n \in Sent : \E k \in 1..(Len(e) - 1) :
         /\ RestOf(part, e, n, k)
         /\ Len(dest) = k
         /\ dest[1].type = Header
         /\ \A i \in 1..k : dest[i].of = n
    \/ /\ ~sure
       /\ Len(dest) >= 1
       /\ BankOf(dest) = Unset
       /\ hurt \/ (Len(dest) = 1 /\ part = <<>>)

\* A readout that has not stored the header has stored nothing.
DestInv == pc \notin {"rest", "clear"} => dest = <<>>

\* Why an event is read as one: the parts above and FitsEvent, which every
\* step preserves, failing accesses and kills included.
EventInv == TypeOK /\ PartInv /\ AskInv /\ RestInv /\ DestInv /\ FitsEvent
=============================================================================
