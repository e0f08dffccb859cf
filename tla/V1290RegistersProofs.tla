------------------------ MODULE V1290RegistersProofs ------------------------
(***************************************************************************)
(* What the enable functions of the control register can be relied on for, *)
(* proved for every content of the register, every result of a failed read *)
(* and every number of calls and events.                                   *)
(***************************************************************************)
EXTENDS V1290Registers, TLAPS

-----------------------------------------------------------------------------
(***************************************************************************)
(* Sums and masks of 16 bits.                                              *)
(***************************************************************************)
\* Adding a bit that is clear sets it and changes none of the others.
LEMMA PlusClearBit ==
  ASSUME NEW r \in Int, 0 <= r, r < B16,
         NEW bit \in EnableBits, ~On(r, bit),
         NEW b \in Bits
  PROVE  On(Plus(r, bit), b) <=> (b = bit \/ On(r, b))
<1> USE DEF On, Plus, B16, Bits, BusError, EmptyEvent, Compensation, EventFIFO
<1>1. CASE bit = BusError
  BY <1>1, SMT
<1>2. CASE bit = EmptyEvent
  BY <1>2, SMT
<1>3. CASE bit = EventFIFO
  BY <1>3, SMT
<1> QED
  BY <1>1, <1>2, <1>3 DEF EnableBits

\* Adding a bit, clear or not, changes none below it.
LEMMA PlusLowerBits ==
  ASSUME NEW r \in Int, 0 <= r, r < B16,
         NEW bit \in EnableBits,
         NEW b \in Bits, b < bit
  PROVE  On(Plus(r, bit), b) <=> On(r, b)
<1> USE DEF On, Plus, B16, Bits, BusError, EmptyEvent, Compensation, EventFIFO
<1>1. CASE bit = EmptyEvent /\ b = BusError
  BY <1>1, SMT
<1>2. CASE bit = EventFIFO /\ b = BusError
  BY <1>2, SMT
<1>3. CASE bit = EventFIFO /\ b = EmptyEvent
  BY <1>3, SMT
<1>4. CASE bit = EventFIFO /\ b = Compensation
  BY <1>4, SMT
<1> QED
  BY <1>1, <1>2, <1>3, <1>4, SMT DEF EnableBits

\* Masking a bit clears it and changes none of the others.
LEMMA WithoutBit ==
  ASSUME NEW r \in Int, 0 <= r, r < B16,
         NEW bit \in EnableBits,
         NEW b \in Bits
  PROVE  On(Without(r, bit), b) <=> (b # bit /\ On(r, b))
<1> USE DEF On, Without, B16, Bits, BusError, EmptyEvent, Compensation, EventFIFO
<1>1. CASE bit = BusError
  BY <1>1, SMT
<1>2. CASE bit = EmptyEvent
  BY <1>2, SMT
<1>3. CASE bit = EventFIFO
  BY <1>3, SMT
<1> QED
  BY <1>1, <1>2, <1>3 DEF EnableBits

\* What an enable function writes is a content of the register.
LEMMA WrittenType ==
  ASSUME NEW r \in Int, 0 <= r, r < B16,
         NEW bit \in EnableBits, NEW en \in BOOLEAN
  PROVE  /\ Written(r, bit, en) \in Int
         /\ 0 <= Written(r, bit, en)
         /\ Written(r, bit, en) < B16
<1> USE DEF On, Without, Plus, Written, B16
<1>1. CASE bit = 1
  BY <1>1, SMT
<1>2. CASE bit = 8
  BY <1>2, SMT
<1>3. CASE bit = 256
  BY <1>3, SMT
<1> QED
  BY <1>1, <1>2, <1>3, SMT
     DEF EnableBits, Bits, BusError, EmptyEvent, Compensation, EventFIFO

-----------------------------------------------------------------------------
(***************************************************************************)
(* The enable functions.                                                   *)
(***************************************************************************)
KnownType == known \in [Bits -> Knowledge]
RegType   == reg \in Int /\ 0 <= reg /\ reg < B16

\* A call whose accesses both succeed keeps what is known right.
LEMMA GoodKeepsKnown ==
  ASSUME RegType, KnownType, KnownBits,
         NEW bit \in EnableBits, NEW en \in BOOLEAN,
         EnableGood(bit, en)
  PROVE  KnownBits'
<1> SUFFICES ASSUME NEW b \in Bits
             PROVE  /\ known'[b] = "on" => On(reg', b)
                    /\ known'[b] = "off" => ~On(reg', b)
  BY DEF KnownBits
<1>1. bit \in Bits
  BY DEF EnableBits
<1>2. /\ known[b] = "on" => On(reg, b)
      /\ known[b] = "off" => ~On(reg, b)
      /\ known[bit] = "off" => ~On(reg, bit)
  BY <1>1 DEF KnownBits
<1>3. CASE en
  <2>1. /\ reg' = Plus(reg, bit)
        /\ known' = KnownEnabled(bit)
    BY <1>3 DEF EnableGood, Written
  <2>2. CASE known[bit] = "off"
    <3>1. On(reg', b) <=> (b = bit \/ On(reg, b))
      BY <2>1, <2>2, <1>2, PlusClearBit DEF RegType
    <3>2. known'[b] = IF b = bit THEN "on" ELSE known[b]
      BY <2>1, <2>2 DEF KnownEnabled
    <3> QED
      BY <3>1, <3>2, <1>2
  <2>3. CASE known[bit] # "off" /\ b < bit /\ b # bit
    <3>1. On(reg', b) <=> On(reg, b)
      BY <2>1, <2>3, PlusLowerBits DEF RegType
    <3>2. known'[b] = known[b]
      BY <2>1, <2>3 DEF KnownEnabled
    <3> QED
      BY <3>1, <3>2, <1>2
  <2>4. CASE known[bit] # "off" /\ ~(b < bit /\ b # bit)
    <3>1. known'[b] = "unknown"
      BY <2>1, <2>4 DEF KnownEnabled
    <3> QED
      BY <3>1
  <2> QED
    BY <2>2, <2>3, <2>4
<1>4. CASE ~en
  <2>1. /\ reg' = Without(reg, bit)
        /\ known' = KnownDisabled(bit)
    BY <1>4 DEF EnableGood, Written
  <2>2. On(reg', b) <=> (b # bit /\ On(reg, b))
    BY <2>1, WithoutBit DEF RegType
  <2>3. known'[b] = IF b = bit THEN "off" ELSE known[b]
    BY <2>1, <1>1 DEF KnownDisabled, KnownType
  <2> QED
    BY <2>2, <2>3, <1>2
<1> QED
  BY <1>3, <1>4

\* A call that misreads the register leaves one thing known at most: that
\* what it has disabled is off.
LEMMA MisreadKeepsKnown ==
  ASSUME NEW bit \in EnableBits, NEW en \in BOOLEAN,
         EnableMisread(bit, en)
  PROVE  KnownBits'
<1> SUFFICES ASSUME NEW b \in Bits
             PROVE  /\ known'[b] = "on" => On(reg', b)
                    /\ known'[b] = "off" => ~On(reg', b)
  BY DEF KnownBits
<1>1. CASE en
  <2>1. known'[b] = "unknown"
    BY <1>1 DEF EnableMisread, NothingKnown
  <2> QED
    BY <2>1
<1>2. CASE ~en
  <2>1. PICK g \in Garbage : reg' = Without(g, bit)
    BY <1>2 DEF EnableMisread, Written
  <2>2. g \in Int /\ 0 <= g /\ g < B16
    BY GarbageAssumption
  <2>3. On(reg', b) <=> (b # bit /\ On(g, b))
    BY <2>1, <2>2, WithoutBit
  <2>4. known'[b] = IF b = bit THEN "off" ELSE "unknown"
    BY <1>2 DEF EnableMisread, NothingKnown
  <2> QED
    BY <2>3, <2>4
<1> QED
  BY <1>1, <1>2

\* What an enable function makes of the register and of what is known of it.
LEMMA EnableTypes ==
  ASSUME RegType, KnownType,
         NEW bit \in EnableBits, NEW en \in BOOLEAN,
         Enable(bit, en)
  PROVE  RegType' /\ KnownType'
<1>1. bit \in Bits
  BY DEF EnableBits
<1>2. CASE EnableGood(bit, en)
  <2>1. reg' = Written(reg, bit, en)
    BY <1>2 DEF EnableGood
  <2>2. RegType'
    BY <2>1, WrittenType DEF RegType
  <2>3. KnownType'
    BY <1>2, <1>1
    DEF EnableGood, KnownEnabled, KnownDisabled, KnownType, Knowledge
  <2> QED
    BY <2>2, <2>3
<1>3. CASE EnableMisread(bit, en)
  <2>1. PICK g \in Garbage : reg' = Written(g, bit, en)
    BY <1>3 DEF EnableMisread
  <2>2. g \in Int /\ 0 <= g /\ g < B16
    BY GarbageAssumption
  <2>3. RegType'
    BY <2>1, <2>2, WrittenType DEF RegType
  <2>4. KnownType'
    BY <1>3, <1>1 DEF EnableMisread, NothingKnown, KnownType, Knowledge
  <2> QED
    BY <2>3, <2>4
<1>4. CASE EnableLost
  BY <1>4 DEF EnableLost, RegType, KnownType
<1> QED
  BY <1>2, <1>3, <1>4 DEF Enable

-----------------------------------------------------------------------------
(***************************************************************************)
(* The specification.                                                      *)
(***************************************************************************)
\* The values v1290_ReadEventFIFO returns are natural numbers.
LEMMA FifoDestType ==
  ASSUME NEW n \in Nat, NEW k \in Lengths
  PROVE  FifoDest(FifoWord(<<n, k>>)) \in Nat \X Nat
<1>1. k \in Int
  BY LengthsAssumption
<1> DEFINE w == (n % B16) * B16 + (k % B16)
           high == ((w \div B16) * B16) % B16
           low == w % B16
<1>2. w \in Int
  BY <1>1, SMT DEF B16
<1> HIDE DEF w
<1>3. high \in Nat
  BY <1>2, SMT DEF B16
<1>4. low \in Nat
  BY <1>2, SMT DEF B16
<1>5. FifoWord(<<n, k>>) = w
  BY DEF FifoWord, w
<1> HIDE DEF high, low
<1>6. <<high, low>> \in Nat \X Nat
  BY <1>3, <1>4
<1> QED
  BY <1>5, <1>6 DEF FifoDest, high, low

\* Of the number of an event nothing comes out, of its length all.
LEMMA FifoDestValue ==
  ASSUME NEW n \in Nat, NEW k \in Lengths
  PROVE  FifoDest(FifoWord(<<n, k>>)) = <<0, k>>
<1>1. k \in Int /\ 0 <= k /\ k < B16
  BY LengthsAssumption
<1> DEFINE a == n % B16
           w == a * B16 + (k % B16)
<1>2. a \in Int /\ k % B16 = k
  BY <1>1, SMT DEF B16
<1> HIDE DEF a
<1>3. w = a * B16 + k /\ w \in Int
  BY <1>1, <1>2, SMT DEF B16
<1> HIDE DEF w
<1>4. w % B16 = k
  BY <1>1, <1>2, <1>3, SMT DEF B16
<1>5. ((w \div B16) * B16) % B16 = 0
  BY <1>3, SMT DEF B16
<1>6. FifoWord(<<n, k>>) = w
  BY DEF FifoWord, w, a
<1> QED
  BY <1>4, <1>5, <1>6 DEF FifoDest

\* The initial states have the right types and know nothing.
LEMMA Initially == Init => TypeOK /\ KnownBits
<1> SUFFICES ASSUME Init PROVE TypeOK /\ KnownBits
  OBVIOUS
<1>1. reg \in Int /\ 0 <= reg /\ reg < B16
  BY ContentsAssumption DEF Init
<1>2. fifo \in Seq(Nat \X Lengths)
  BY DEF Init
<1>3. dest \in Nat \X Nat
  BY DEF Init
<1>4. known \in [Bits -> Knowledge]
  BY DEF Init, NothingKnown, Knowledge
<1>5. KnownBits
  BY DEF Init, NothingKnown, KnownBits
<1> QED
  BY <1>1, <1>2, <1>3, <1>4, <1>5 DEF Init, TypeOK

\* Every step keeps the types.
LEMMA TypeStep == TypeOK /\ [Next]_vars => TypeOK'
<1> SUFFICES ASSUME TypeOK, [Next]_vars PROVE TypeOK'
  OBVIOUS
<1>0. RegType /\ KnownType
  BY DEF TypeOK, RegType, KnownType
<1>1. CASE PowerCycle
  <2>1. reg' \in Int /\ 0 <= reg' /\ reg' < B16
    BY <1>1, ContentsAssumption DEF PowerCycle
  <2>2. known' \in [Bits -> Knowledge]
    BY <1>1 DEF PowerCycle, NothingKnown, Knowledge
  <2>3. fifo' \in Seq(Nat \X Lengths)
    BY <1>1 DEF PowerCycle
  <2> QED
    BY <1>1, <2>1, <2>2, <2>3 DEF PowerCycle, TypeOK
<1>2. CASE Event
  <2>1. happened' \in Nat
    BY <1>2 DEF Event, TypeOK
  <2>2. fifo' \in Seq(Nat \X Lengths)
    <3>1. CASE On(reg, EventFIFO)
      <4>1. PICK n \in Lengths : fifo' = Append(fifo, <<happened', n>>)
        BY <1>2, <3>1 DEF Event
      <4>2. <<happened', n>> \in Nat \X Lengths
        BY <2>1
      <4> QED
        BY <4>1, <4>2 DEF TypeOK
    <3>2. CASE ~On(reg, EventFIFO)
      BY <1>2, <3>2 DEF Event, TypeOK
    <3> QED
      BY <3>1, <3>2
  <2> QED
    BY <1>2, <2>1, <2>2 DEF Event, TypeOK
<1>3. ASSUME NEW bit \in EnableBits, NEW en \in BOOLEAN, Enable(bit, en)
      PROVE  TypeOK'
  <2>1. RegType' /\ KnownType'
    BY <1>0, <1>3, EnableTypes
  <2>3. calls' \in Nat
    BY <1>3 DEF Enable, TypeOK
  <2>4. UNCHANGED <<fifo, happened, dest, entry>>
    BY <1>3 DEF Enable
  <2> QED
    BY <2>1, <2>3, <2>4 DEF TypeOK, RegType, KnownType
<1>4. CASE v1290_ReadControlRegister
  <2>1. known' \in [Bits -> Knowledge]
    BY <1>4 DEF v1290_ReadControlRegister, Shown, Knowledge
  <2> QED
    BY <1>4, <2>1 DEF v1290_ReadControlRegister, TypeOK
<1>5. CASE v1290_ReadEventFIFO
  <2>1. Head(fifo) \in Nat \X Lengths /\ Tail(fifo) \in Seq(Nat \X Lengths)
    BY <1>5 DEF v1290_ReadEventFIFO, TypeOK
  <2>2. dest' \in Nat \X Nat
    <3>1. PICK n \in Nat, k \in Lengths : Head(fifo) = <<n, k>>
      BY <2>1
    <3> QED
      BY <1>5, <3>1, FifoDestType DEF v1290_ReadEventFIFO
  <2>3. fifo' \in Seq(Nat \X Lengths) /\ entry' \in Nat \X Lengths
    BY <1>5, <2>1 DEF v1290_ReadEventFIFO
  <2> QED
    BY <1>5, <2>2, <2>3 DEF v1290_ReadEventFIFO, TypeOK
<1>6. CASE UNCHANGED vars
  BY <1>6 DEF vars, TypeOK
<1>7. BusError \in EnableBits /\ EmptyEvent \in EnableBits /\ EventFIFO \in EnableBits
  BY DEF EnableBits, Bits, BusError, EmptyEvent, Compensation, EventFIFO
<1> QED
  BY <1>1, <1>2, <1>3, <1>4, <1>5, <1>6, <1>7
  DEF Next, v1290_EnableBusError, v1290_EnableEmptyEvent, v1290_EnableEventFIFO

\* Every step keeps what is known right.
LEMMA KnownStep == TypeOK /\ KnownBits /\ [Next]_vars => KnownBits'
<1> SUFFICES ASSUME TypeOK, KnownBits, [Next]_vars PROVE KnownBits'
  OBVIOUS
<1>0. RegType /\ KnownType
  BY DEF TypeOK, RegType, KnownType
<1>1. CASE PowerCycle
  BY <1>1 DEF PowerCycle, NothingKnown, KnownBits
<1>2. CASE Event
  BY <1>2 DEF Event, KnownBits
<1>3. ASSUME NEW bit \in EnableBits, NEW en \in BOOLEAN, Enable(bit, en)
      PROVE  KnownBits'
  <2>1. CASE EnableGood(bit, en)
    BY <1>0, <2>1, GoodKeepsKnown
  <2>2. CASE EnableMisread(bit, en)
    BY <2>2, MisreadKeepsKnown
  <2>3. CASE EnableLost
    BY <2>3 DEF EnableLost, KnownBits
  <2> QED
    BY <1>3, <2>1, <2>2, <2>3 DEF Enable
<1>4. CASE v1290_ReadControlRegister
  BY <1>4 DEF v1290_ReadControlRegister, Shown, KnownBits
<1>5. CASE v1290_ReadEventFIFO
  BY <1>5 DEF v1290_ReadEventFIFO, KnownBits
<1>6. CASE UNCHANGED vars
  BY <1>6 DEF vars, KnownBits
<1>7. BusError \in EnableBits /\ EmptyEvent \in EnableBits /\ EventFIFO \in EnableBits
  BY DEF EnableBits, Bits, BusError, EmptyEvent, Compensation, EventFIFO
<1> QED
  BY <1>1, <1>2, <1>3, <1>4, <1>5, <1>6, <1>7
  DEF Next, v1290_EnableBusError, v1290_EnableEmptyEvent, v1290_EnableEventFIFO

\* The control register, what is known of it and the event FIFO keep their
\* types.
THEOREM RegistersTypeCorrect == Spec => []TypeOK
<1>1. Init => TypeOK
  BY Initially
<1> QED
  BY <1>1, TypeStep, PTL DEF Spec

\* A function of the control register that was off, or has been disabled, is
\* on once it is enabled, and enabling and disabling it leaves the others
\* alone, for all contents of the register and all results of failed reads.
THEOREM EnablesKeepBits == Spec => []KnownBits
<1>1. Init => TypeOK /\ KnownBits
  BY Initially
<1>2. (TypeOK /\ KnownBits) /\ [Next]_vars => (TypeOK /\ KnownBits)'
  BY TypeStep, KnownStep
<1> QED
  BY <1>1, <1>2, PTL DEF Spec

-----------------------------------------------------------------------------
(***************************************************************************)
(* What v1290_ReadEventFIFO tells of an event: FifoTellsLength and more.   *)
(***************************************************************************)
\* Of an event of any number the FIFO's two values are 0 and the length.
FifoTold == entry # <<>> => entry \in Nat \X Lengths /\ dest = <<0, entry[2]>>

LEMMA FifoStep == TypeOK /\ FifoTold /\ [Next]_vars => FifoTold'
<1> SUFFICES ASSUME TypeOK, FifoTold, [Next]_vars PROVE FifoTold'
  OBVIOUS
<1>1. CASE v1290_ReadEventFIFO
  <2>1. Head(fifo) \in Nat \X Lengths
    BY <1>1 DEF v1290_ReadEventFIFO, TypeOK
  <2>2. PICK n \in Nat, k \in Lengths : Head(fifo) = <<n, k>>
    BY <2>1
  <2>3. dest' = <<0, k>>
    BY <1>1, <2>2, FifoDestValue DEF v1290_ReadEventFIFO
  <2>4. entry' = <<n, k>>
    BY <1>1, <2>2 DEF v1290_ReadEventFIFO
  <2> QED
    BY <2>3, <2>4 DEF FifoTold
<1>2. CASE UNCHANGED <<dest, entry>>
  BY <1>2 DEF FifoTold
<1> QED
  BY <1>1, <1>2 DEF Next, vars, PowerCycle, Event, Enable, v1290_EnableBusError,
     v1290_EnableEmptyEvent, v1290_EnableEventFIFO, v1290_ReadControlRegister

LEMMA FifoInvariance == Spec => []FifoTold
<1>1. Init => FifoTold
  BY DEF Init, FifoTold
<1> QED
  BY <1>1, FifoStep, RegistersTypeCorrect, PTL DEF Spec

\* v1290_ReadEventFIFO tells the length of every event, whatever its number.
THEOREM FifoLengthTold == Spec => []FifoTellsLength
<1>1. FifoTold => FifoTellsLength
  BY DEF FifoTold, FifoTellsLength
<1> QED
  BY FifoInvariance, <1>1, PTL

\* Its number, which main prints as "event cnt", it tells of an event whose
\* number is a multiple of 65536, and of no other: what main claims is wrong
\* for each of the first 65535 events.
THEOREM FifoNumberLost == Spec => []NumberLost
<1>1. FifoTold => NumberLost
  <2> SUFFICES ASSUME FifoTold, entry # <<>>
               PROVE  FifoTellsNumber <=> entry[1] % B16 = 0
    BY DEF NumberLost
  <2>1. dest[1] = 0
    BY DEF FifoTold
  <2> QED
    BY <2>1 DEF FifoTellsNumber
<1> QED
  BY FifoInvariance, <1>1, PTL
=============================================================================
