--------------------------- MODULE V1290Registers ---------------------------
(***************************************************************************)
(* The control register of the V1290N and its event FIFO, as the functions *)
(* of bit3_vme_drivers/v1290.c change and read them.                       *)
(*                                                                         *)
(* A function that enables something reads the register and writes it back *)
(* with a bit added to it; one that disables something masks the bit.      *)
(* Neither looks at whether its read or its write succeeds: a failed read  *)
(* returns what happens to be on the stack, a failed write changes nothing.*)
(* The functions may be called in any order.                               *)
(***************************************************************************)
EXTENDS Integers, Sequences

CONSTANTS
  Contents,  \* what the register may hold when the program finds it
  Garbage,   \* what a failed read may return
  MaxCalls,  \* bound on the calls of the enable functions
  MaxEvents, \* bound on the events that happen
  Lengths    \* how many words an event may have

B16 == 65536

ASSUME ContentsAssumption == Contents # {} /\ Contents \subseteq Int
                             /\ \A c \in Contents : 0 <= c /\ c < B16
ASSUME GarbageAssumption == Garbage \subseteq Int
                            /\ \A g \in Garbage : 0 <= g /\ g < B16
ASSUME MaxCallsAssumption == MaxCalls \in Nat
ASSUME MaxEventsAssumption == MaxEvents \in Nat
ASSUME LengthsAssumption == Lengths \subseteq Int
                            /\ \A n \in Lengths : 0 <= n /\ n < B16

VARIABLES
  reg,      \* the control register, 16 bits
  fifo,     \* the event FIFO
  calls,    \* calls of the enable functions so far
  happened, \* events so far
  dest,     \* what v1290_ReadEventFIFO has put into dest[0] and dest[1]
  \* History variables: no guard reads them.
  known,    \* what the calls whose accesses succeeded say of each bit
  entry     \* the entry of the FIFO that dest is about, or <<>>

vars == <<reg, fifo, calls, happened, dest, known, entry>>

-----------------------------------------------------------------------------
\* The bits v1290_ReadControlRegister shows.
BusError     == 1
EmptyEvent   == 8
Compensation == 32
EventFIFO    == 256

Bits == {BusError, EmptyEvent, Compensation, EventFIFO}
EnableBits == Bits \ {Compensation}

\* (r & bit) >> its number, for a single bit
On(r, bit) == (r \div bit) % 2 = 1

\* r & ~bit
Without(r, bit) == IF On(r, bit) THEN r - bit ELSE r

\* r + bit, as the 16 bits of a uint16_t
Plus(r, bit) == (r + bit) % B16

Knowledge == {"on", "off", "unknown"}
NothingKnown == [b \in Bits |-> "unknown"]
Shown(r) == [b \in Bits |-> IF On(r, b) THEN "on" ELSE "off"]

-----------------------------------------------------------------------------
Init ==
  /\ reg \in Contents
  /\ fifo = <<>>
  /\ calls = 0
  /\ happened = 0
  /\ dest = <<0, 0>>
  /\ known = NothingKnown
  /\ entry = <<>>

\* The module is switched off and on again.
PowerCycle ==
  /\ reg' \in Contents
  /\ fifo' = <<>>
  /\ known' = NothingKnown
  /\ UNCHANGED <<calls, happened, dest, entry>>

\* A trigger: the FIFO gets the number and the length of the event.
Event ==
  /\ happened < MaxEvents
  /\ happened' = happened + 1
  /\ IF On(reg, EventFIFO)
       THEN \E n \in Lengths : fifo' = Append(fifo, <<happened', n>>)
       ELSE fifo' = fifo
  /\ UNCHANGED <<reg, calls, dest, known, entry>>

-----------------------------------------------------------------------------
\* Adding a bit that was clear sets it.  One that was set is cleared instead,
\* and the carry may change any bit above it.
KnownEnabled(bit) ==
  [b \in Bits |->
     IF b # bit /\ (b < bit \/ known[bit] = "off") THEN known[b]
     ELSE IF b = bit /\ known[bit] = "off" THEN "on"
     ELSE "unknown"]

KnownDisabled(bit) == [known EXCEPT ![bit] = "off"]

\* Mutant of Written: the bit is subtracted again.
WrittenMinus(r, bit, en) == IF en THEN Plus(r, bit) ELSE (r - bit) % B16

\* What an enable function writes when it has read r.
Written(r, bit, en) == IF en THEN Plus(r, bit) ELSE Without(r, bit)

\* Both accesses succeed, only the write does, or nothing is written.
EnableGood(bit, en) ==
  /\ reg' = Written(reg, bit, en)
  /\ known' = IF en THEN KnownEnabled(bit) ELSE KnownDisabled(bit)

EnableMisread(bit, en) ==
  /\ \E g \in Garbage : reg' = Written(g, bit, en)
  /\ known' = IF en THEN NothingKnown ELSE [NothingKnown EXCEPT ![bit] = "off"]

EnableLost == UNCHANGED <<reg, known>>

Enable(bit, en) ==
  /\ calls < MaxCalls
  /\ calls' = calls + 1
  /\ EnableGood(bit, en) \/ EnableMisread(bit, en) \/ EnableLost
  /\ UNCHANGED <<fifo, happened, dest, entry>>

v1290_EnableBusError(en)   == Enable(BusError, en)
v1290_EnableEmptyEvent(en) == Enable(EmptyEvent, en)
v1290_EnableEventFIFO(en)  == Enable(EventFIFO, en)

\* It prints the bits.  This read and that of the FIFO succeed: when they fail,
\* nothing changes but what is printed or returned.
v1290_ReadControlRegister ==
  /\ known' = Shown(reg)
  /\ UNCHANGED <<reg, fifo, calls, happened, dest, entry>>

-----------------------------------------------------------------------------
\* The FIFO's word: the event's number above its length, 16 bits each.
FifoWord(e) == (e[1] % B16) * B16 + (e[2] % B16)

\* Mutant of FifoDest: the halves are swapped.
FifoDestSwapped(w) == << w % B16, (w \div B16) % B16 >>

\* reg&0xffff0000 and reg&0xffff, as uint16_t
FifoDest(w) == << ((w \div B16) * B16) % B16, w % B16 >>

v1290_ReadEventFIFO ==
  /\ fifo # <<>>
  /\ dest' = FifoDest(FifoWord(Head(fifo)))
  /\ entry' = Head(fifo)
  /\ fifo' = Tail(fifo)
  /\ UNCHANGED <<reg, calls, happened, known>>

-----------------------------------------------------------------------------
Next ==
  \/ PowerCycle
  \/ Event
  \/ \E en \in BOOLEAN : \/ v1290_EnableBusError(en)
                         \/ v1290_EnableEmptyEvent(en)
                         \/ v1290_EnableEventFIFO(en)
  \/ v1290_ReadControlRegister
  \/ v1290_ReadEventFIFO

Spec == Init /\ [][Next]_vars

-----------------------------------------------------------------------------
(***************************************************************************)
(* Properties.                                                             *)
(***************************************************************************)
\* Every variable keeps its type.
TypeOK ==
  /\ reg \in Int /\ 0 <= reg /\ reg < B16
  /\ fifo \in Seq(Nat \X Lengths)
  /\ calls \in Nat
  /\ happened \in Nat
  /\ dest \in Nat \X Nat
  /\ known \in [Bits -> Knowledge]
  /\ entry \in {<<>>} \cup (Nat \X Lengths)

\* How far the enable functions can be relied on: a bit that was off, or has
\* been disabled since anything went wrong, is on after it is enabled, and the
\* other three functions stay as they were.  Only enabling what is not known
\* to be off may change more, and nothing below its own bit.  Disabling always
\* helps, even after a misread register, so that disabling and then enabling
\* gets a function enabled whatever happened before.
KnownBits ==
  \A b \in Bits : /\ known[b] = "on" => On(reg, b)
                  /\ known[b] = "off" => ~On(reg, b)

\* Of the event v1290_ReadEventFIFO has read, the second value, dest[1] in the
\* code, is the number of words, which v1290_DataRead wants.
FifoTellsLength == entry # <<>> => dest[2] = entry[2]

-----------------------------------------------------------------------------
(***************************************************************************)
(* A claim of the source that it does not keep.                            *)
(***************************************************************************)
\* main prints the first value, dest[0] in the code, as "event cnt": it would
\* be the number of the event, as 16 bits.  But that half of the word is
\* masked and not shifted before it is cut to 16 bits.
FifoTellsNumber == entry # <<>> => dest[1] = entry[1] % B16

\* So main's claim is kept for an event whose number is a multiple of 65536
\* and for no other; the first event has number 1.
NumberLost ==
  entry # <<>> => (FifoTellsNumber <=> entry[1] % B16 = 0)
=============================================================================
