-------------------------- MODULE V1290MicroProofs --------------------------
(***************************************************************************)
(* Proofs about the dialogue with the V1290N, for every number of looks at *)
(* the handshake register and every client that keeps to CallOK, however   *)
(* many calls it makes: IInv is an inductive invariant of Spec, and what   *)
(* is set and what is read follow from it.                                 *)
(***************************************************************************)
EXTENDS V1290Micro, TLAPS

-----------------------------------------------------------------------------
(***************************************************************************)
(* Words and commands.                                                     *)
(***************************************************************************)

\* What a word is, as bounds: the provers are never shown all of them.
LEMMA InWord ==
  \A x \in Int : x \in Word <=> 0 <= x /\ x < 65536
<1>1. WordSize = 65536
  BY DEF WordSize
<1>2. \A x \in Int : x \in Word <=> 0 <= x /\ x < WordSize
  <2>1. \A n \in Int : \A x \in Int : x \in 0..(n - 1) <=> 0 <= x /\ x < n
    OBVIOUS
  <2>2. WordSize \in Int
    BY <1>1
  <2> QED BY <2>1, <2>2 DEF Word
<1> QED BY <1>1, <1>2

\* The opcodes that want an operand are words with object 0, and keep its
\* low bits in one setting.
LEMMA OperandFacts ==
  \A o \in Operands : /\ o.op \in Word
                      /\ Command(o.op) = o.op
                      /\ o.reg \in Regs
                      /\ o.mod \in 1..WordSize
<1> SUFFICES ASSUME NEW o \in Operands
             PROVE  /\ o.op \in Word
                    /\ Command(o.op) = o.op
                    /\ o.reg \in Regs
                    /\ o.mod \in 1..WordSize
  OBVIOUS
<1>1. o.mod \in {WordSize, 4, 8, 16}
  BY DEF Operands, Operand
<1>2. o.op \in {4096, 4352, 4608, 4864, 8704, 9216, 10240, 13056, 15104, 17408}
  BY DEF Operands, Operand, WordSize
<1>5. o.op \in Word
  BY <1>2, InWord
<1>6. o.mod \in 1..WordSize
  <2>1. WordSize \in Nat /\ 16 <= WordSize
    BY DEF WordSize
  <2> QED BY <1>1, <2>1
<1>3. Command(o.op) = o.op
  BY <1>2 DEF Command
<1>4. o.reg \in Regs
  BY DEF Operands, Operand, Regs
<1> QED BY <1>3, <1>4, <1>5, <1>6

\* An opcode wants one kind of operand.
LEMMA OperandUnique ==
  \A o, p \in Operands : o.op = p.op => o = p
BY DEF Operands, Operand

\* The opcodes that ask are words with object 0, for one to five settings.
LEMMA QuestionFacts ==
  \A q \in Questions : /\ q.op \in Word
                       /\ Command(q.op) = q.op
                       /\ Len(q.regs) \in 1..5
                       /\ \A k \in 1..Len(q.regs) : q.regs[k] \in Regs
<1> SUFFICES ASSUME NEW q \in Questions
             PROVE  /\ q.op \in Word
                    /\ Command(q.op) = q.op
                    /\ Len(q.regs) \in 1..5
                    /\ \A k \in 1..Len(q.regs) : q.regs[k] \in Regs
  OBVIOUS
<1>1. q.op \in {512, 5632, 8960, 9728, 10496, 12800, 13312, 15360, 17664}
  BY DEF Questions, Question
<1>2. q.op \in Word
  BY <1>1, InWord
<1>3. Command(q.op) = q.op
  BY <1>1 DEF Command
<1>4. Len(q.regs) \in 1..5
  BY DEF Questions, Question
<1>5. \A k \in 1..Len(q.regs) : q.regs[k] \in Regs
  BY DEF Questions, Question, Regs
<1> QED BY <1>2, <1>3, <1>4, <1>5

\* An opcode asks one thing.
LEMMA QuestionUnique ==
  \A q, p \in Questions : q.op = p.op => q = p
BY DEF Questions, Question

\* An opcode that wants an operand, or asks, sets nothing by itself.
LEMMA NoSetting ==
  ASSUME NEW w, IsOperand(w) \/ IsQuestion(w), NEW r
  PROVE  AfterCommand(r, w) = r
<1>1. ~ \E d \in Directs : d.op = Command(w)
  BY DEF IsOperand, IsQuestion, Operands, Operand, Questions, Question, Directs, Direct
<1>2. Command(w) \notin {\h4000, \h4100}
  BY DEF IsOperand, IsQuestion, Operands, Operand, Questions, Question
<1> QED BY <1>1, <1>2 DEF AfterCommand

\* An opcode that wants an operand asks nothing.
LEMMA OperandNoQuestion ==
  ASSUME NEW w, IsOperand(w)
  PROVE  ~IsQuestion(w)
BY DEF IsOperand, IsQuestion, Operands, Operand, Questions, Question

\* An opcode a function sends with an operand, or to ask, loads nothing, and
\* its effect is known.
LEMMA KnownCommand ==
  ASSUME NEW w, IsOperand(w) \/ IsQuestion(w)
  PROVE  ~IsLoad(w) /\ ~IsOpaque(w)
BY DEF IsOperand, IsQuestion, IsLoad, IsOpaque, Operands, Operand, Questions,
       Question, Loads, Opaque

\* Writing one bit of a number below 2km, the one that weighs k, leaves it
\* below 2km: the arithmetic behind v1290_EnableChannel.
LEMMA BitCarry ==
  ASSUME NEW p \in Nat, NEW k \in Nat, k > 0, NEW m \in Nat, p < 2 * k * m,
         NEW b \in 0..1
  PROVE  p + (b - ((p \div k) % 2)) * k \in 0..(2 * k * m - 1)
<1> DEFINE q == p \div k
           h == q \div 2
           r == q % 2
<1>1. q \in Nat /\ k * q <= p /\ p < k * q + k
  OBVIOUS
<1>2. h \in Nat /\ q = 2 * h + r /\ r \in 0..1
  BY <1>1
<1> HIDE DEF q, h, r
<1>3. k * q = 2 * (k * h) + k * r /\ k * r >= 0
  BY <1>2
<1>4. k * h <= k * m - k
  <2>1. h < m
    <3> SUFFICES ASSUME h >= m PROVE FALSE
      BY <1>2
    <3>1. k * h >= k * m
      BY <1>2
    <3> QED BY <3>1, <1>1, <1>3, <1>2
  <2>2. k * (h + 1) <= k * m
    BY <2>1, <1>2
  <2> QED BY <2>2, <1>2
<1>5. k * h \in Nat /\ k * m \in Nat
  BY <1>2
<1>6. CASE r = 0
  BY <1>1, <1>2, <1>3, <1>4, <1>5, <1>6 DEF q, r
<1>7. CASE r = 1
  BY <1>1, <1>2, <1>3, <1>4, <1>5, <1>7 DEF q, r
<1> QED BY <1>2, <1>6, <1>7

\* The enable pattern with one channel switched is a word.
LEMMA SetBitType ==
  ASSUME NEW p \in Word, NEW n \in 0..15, NEW b \in 0..1
  PROVE  SetBit(p, n, b) \in Word
<1> DEFINE k == Weight[n + 1]
<1>1. k \in Nat /\ k > 0 /\ \E m \in Nat : 2 * k * m = WordSize
  <2> DEFINE W == {1, 2, 4, 8, 16, 32, 64, 128, 256, 512, 1024, 2048, 4096, 8192,
                   16384, 32768}
  <2>1. k \in W
    BY DEF Weight
  <2>2. \A c \in W : \E m \in Nat : 2 * c * m = WordSize
    <3>1. /\ 2 * 1 * 32768 = 65536 /\ 2 * 2 * 16384 = 65536
          /\ 2 * 4 * 8192 = 65536  /\ 2 * 8 * 4096 = 65536
          /\ 2 * 16 * 2048 = 65536 /\ 2 * 32 * 1024 = 65536
          /\ 2 * 64 * 512 = 65536  /\ 2 * 128 * 256 = 65536
          /\ 2 * 256 * 128 = 65536 /\ 2 * 512 * 64 = 65536
          /\ 2 * 1024 * 32 = 65536 /\ 2 * 2048 * 16 = 65536
          /\ 2 * 4096 * 8 = 65536  /\ 2 * 8192 * 4 = 65536
          /\ 2 * 16384 * 2 = 65536 /\ 2 * 32768 * 1 = 65536
      OBVIOUS
    <3> QED BY <3>1 DEF WordSize
  <2>3. \A c \in W : c \in Nat /\ c > 0
    OBVIOUS
  <2> HIDE DEF k, W
  <2> QED BY <2>1, <2>2, <2>3
<1>2. PICK m \in Nat : 2 * k * m = WordSize
  BY <1>1
<1> HIDE DEF k
<1>3. p \in Nat /\ p < 2 * k * m
  <2>1. WordSize \in Nat
    BY DEF WordSize
  <2>2. p \in Nat /\ p < WordSize
    BY <2>1 DEF Word
  <2> QED BY <1>2, <2>2
<1>4. p + (b - ((p \div k) % 2)) * k \in 0..(2 * k * m - 1)
  BY <1>1, <1>2, <1>3, BitCarry
<1>5. p + (b - ((p \div k) % 2)) * k \in Word
  BY <1>2, <1>4 DEF Word
<1> QED BY <1>5 DEF SetBit, k

\* The settings stay words when a word is taken as a command.
LEMMA AfterCommandType ==
  ASSUME NEW r \in [Regs -> Word], NEW w \in Word
  PROVE  AfterCommand(r, w) \in [Regs -> Word]
<1>1. CASE \E d \in Directs : d.op = Command(w)
  <2> DEFINE d == CHOOSE d \in Directs : d.op = Command(w)
  <2>1. d \in Directs
    BY <1>1
  <2>2. \A e \in Directs : e.value \in Word
    <3>1. \A e \in Directs : e.value \in {0, 1, 65535}
      BY DEF Directs, Direct
    <3> QED BY <3>1, InWord
  <2>3. AfterCommand(r, w) = [r EXCEPT ![d.reg] = d.value]
    BY <1>1 DEF AfterCommand
  <2> HIDE DEF d
  <2> QED BY <2>1, <2>2, <2>3
<1>2. CASE ~ \E d \in Directs : d.op = Command(w)
  <2>1. w % 256 \in Nat
    BY DEF Word
  <2>2. "pattern" \in Regs
    BY DEF Regs
  <2>3. CASE Command(w) \in {\h4000, \h4100} /\ w % 256 < 16
    <3> DEFINE b == IF Command(w) = \h4000 THEN 1 ELSE 0
               x == SetBit(r["pattern"], w % 256, b)
    <3>1. w % 256 \in 0..15 /\ b \in 0..1
      BY <2>1, <2>3
    <3>2. x \in Word
      BY <3>1, <2>2, SetBitType
    <3>3. AfterCommand(r, w) = [r EXCEPT !["pattern"] = x]
      BY <1>2, <2>3 DEF AfterCommand
    <3> HIDE DEF x
    <3> QED BY <3>2, <3>3
  <2>4. CASE ~(Command(w) \in {\h4000, \h4100} /\ w % 256 < 16)
    BY <1>2, <2>4 DEF AfterCommand
  <2> QED BY <2>3, <2>4
<1> QED BY <1>1, <1>2

\* The settings stay words when a word is taken as an operand.
LEMMA AfterOperandType ==
  ASSUME NEW r \in [Regs -> Word], NEW o \in Operands, NEW w \in Word
  PROVE  AfterOperand(r, o, w) \in [Regs -> Word]
<1>1. o.mod \in 1..WordSize
  BY OperandFacts
<1>2. WordSize \in Nat
  BY DEF WordSize
<1>3. w % o.mod \in 0..(o.mod - 1)
  BY <1>1, <1>2 DEF Word
<1>4. w % o.mod \in Word
  BY <1>1, <1>2, <1>3 DEF Word
<1> QED BY <1>4 DEF AfterOperand

-----------------------------------------------------------------------------
(***************************************************************************)
(* Calls.                                                                  *)
(***************************************************************************)

\* A word is a possible answer, so is the -1 of v1290_MicroRead, and the
\* empty register is told from every word.
LEMMA WordFacts ==
  /\ WordSize \in Nat
  /\ WordSize > 0
  /\ \A x \in Word : x \in Int /\ x \in Failed..(WordSize - 1)
  /\ Failed \in Failed..(WordSize - 1)
  /\ None \notin Word
<1>1. WordSize \in Nat /\ WordSize > 0
  BY DEF WordSize
<1> QED BY <1>1 DEF Word, Failed, None

\* Awaiting no operand, or nobody knows what, is told from awaiting one.
LEMMA NoOperandIsNone ==
  NoOperand \notin Operands /\ Unknown \notin Operands /\ Unknown # NoOperand
<1>1. NoOperand.op = None /\ Unknown.op = None
  BY DEF NoOperand, Unknown, Operand
<1>2. \A o \in Operands : o.op # None
  BY OperandFacts, WordFacts
<1>3. NoOperand.reg = "none" /\ Unknown.reg = "unknown"
  BY DEF NoOperand, Unknown, Operand
<1> QED BY <1>1, <1>2, <1>3

\* The operand an opcode wants is the one there is.
LEMMA ChosenOperand ==
  \A w : \A o \in Operands :
    o.op = w => (CHOOSE p \in Operands : p.op = w) = o
BY OperandUnique

\* The question an opcode asks is the one there is.
LEMMA ChosenQuestion ==
  \A w : \A q \in Questions :
    q.op = w => (CHOOSE p \in Questions : p.op = w) = q
BY QuestionUnique

\* What the client's calls are: one or two words, up to five answers.
LEMMA MenuFacts ==
  \A c \in MenuCalls :
    /\ c \in Calls
    /\ CallOK(c)
    /\ Len(c.words) \in 1..2
    /\ \A k \in 1..Len(c.words) : c.words[k] \in Word
    /\ c.reads \in 0..5
<1> SUFFICES ASSUME NEW c \in MenuCalls
             PROVE  /\ c \in Calls
                    /\ CallOK(c)
                    /\ Len(c.words) \in 1..2
                    /\ \A k \in 1..Len(c.words) : c.words[k] \in Word
                    /\ c.reads \in 0..5
  OBVIOUS
<1>1. PICK m \in Menus : \E k \in 1..Len(m) : c \in m[k]
  BY DEF MenuCalls, CallsOf
<1>2. c \in Calls /\ CallOK(c)
  BY <1>1, MicroAssumption
<1>3. c.words \in Seq(Word) /\ c.reads \in 0..5
  BY <1>2 DEF Calls
<1>4. Len(c.words) \in 1..2
  BY <1>2 DEF CallOK
<1> QED BY <1>2, <1>3, <1>4

\* A call of two words asks for its operand to be set.
LEMMA WantedTwo ==
  ASSUME NEW c \in MenuCalls, Len(c.words) = 2, NEW r,
         NEW o \in Operands, o.op = c.words[1]
  PROVE  WantedAfter(r, c) = AfterOperand(r, o, c.words[2])
<1>1. (CHOOSE p \in Operands : p.op = c.words[1]) = o
  BY ChosenOperand
<1> QED BY <1>1 DEF WantedAfter

\* A call of one word asks for what its command sets, and is no opcode left
\* without its operand, nor one that loads settings.
LEMMA WantedOne ==
  ASSUME NEW c \in MenuCalls, Len(c.words) # 2, NEW r
  PROVE  /\ WantedAfter(r, c) = AfterCommand(r, c.words[1])
         /\ ~IsOperand(c.words[1]) /\ ~IsLoad(c.words[1]) /\ ~IsOpaque(c.words[1])
<1>1. CallOK(c)
  BY MenuFacts
<1>2. ~IsOperand(c.words[1]) /\ ~IsLoad(c.words[1]) /\ ~IsOpaque(c.words[1])
  BY <1>1 DEF CallOK
<1> QED BY <1>2 DEF WantedAfter

\* The settings asked for stay words.
LEMMA WantedType ==
  ASSUME NEW c \in MenuCalls, NEW r \in [Regs -> Word]
  PROVE  WantedAfter(r, c) \in [Regs -> Word]
<1>1. CallOK(c) /\ Len(c.words) \in 1..2 /\ \A k \in 1..Len(c.words) : c.words[k] \in Word
  BY MenuFacts
<1>2. CASE Len(c.words) = 2
  <2>1. PICK o \in Operands : o.op = c.words[1]
    BY <1>1, <1>2 DEF CallOK
  <2>2. c.words[2] \in Word
    BY <1>1, <1>2
  <2>3. WantedAfter(r, c) = AfterOperand(r, o, c.words[2])
    BY <1>2, <2>1, WantedTwo
  <2> QED BY <2>2, <2>3, AfterOperandType
<1>3. CASE Len(c.words) # 2
  <2>1. c.words[1] \in Word
    BY <1>1, <1>3
  <2>2. WantedAfter(r, c) = AfterCommand(r, c.words[1])
    BY <1>3, WantedOne
  <2> QED BY <2>1, <2>2, AfterCommandType
<1> QED BY <1>2, <1>3

\* A question is answered with as many words as it asks settings.
LEMMA ToldType ==
  ASSUME NEW q \in Questions, NEW r \in [Regs -> Word]
  PROVE  /\ AnswersTo(q, r) \in Seq(Word)
         /\ Len(AnswersTo(q, r)) = Len(q.regs)
         /\ Len(q.regs) \in 1..5
<1>1. Len(q.regs) \in 1..5 /\ \A k \in 1..Len(q.regs) : q.regs[k] \in Regs
  BY QuestionFacts
<1>2. \A k \in 1..Len(q.regs) : r[q.regs[k]] \in Word
  BY <1>1
<1> QED BY <1>1, <1>2 DEF AnswersTo

-----------------------------------------------------------------------------
(***************************************************************************)
(* The inductive invariant, one lemma for each of its parts.               *)
(***************************************************************************)

\* The inductive invariant holds once v1290_ModuleReset has returned.
LEMMA InvInit == Init => IInv
<1> SUFFICES ASSUME Init PROVE IInv
  OBVIOUS
<1> USE DEF Init
<1>1. regs \in [Regs -> Word]
  BY MicroAssumption
<1>2. TypeOK
  <2>1. Len(menu) \in Nat /\ WritePolls \in Nat /\ ReadPolls \in Nat
    BY MicroAssumption
  <2>2. i \in 1..5 /\ calls \in 0..Len(menu) /\ wlost \in 0..calls /\ rlost \in 0..calls
    BY <2>1
  <2>3. polls \in 0..(IF pc = "write" THEN WritePolls ELSE ReadPolls)
    BY <2>1
  <2>4. outbox \in Seq(Word) /\ answers \in Seq(Failed..(WordSize - 1))
    OBVIOUS
  <2> QED BY <1>1, <2>2, <2>3, <2>4 DEF TypeOK
<1>3. CursorInv
  BY DEF CursorInv
<1>4. StepInv
  BY DEF StepInv, Settled
<1>5. AnswerInv
  BY DEF AnswerInv, NoQuestion, NoCall
<1>6. InStepInv
  BY NoOperandIsNone DEF InStepInv
<1>7. HonestInv
  BY DEF HonestInv, Unanswered, NoCall
<1>8. SetupInv
  BY DEF SetupInv, SetupAsks
<1> QED BY <1>2, <1>3, <1>4, <1>5, <1>6, <1>7, <1>8 DEF IInv

\* Whatever is put out, what is there to be read are words.
LEMMA AnswerType ==
  ASSUME TypeOK, CursorInv, NEW s \in Seq(Word), Answer(s)
  PROVE  /\ outbox' \in Seq(Word)
         /\ ready' \in BOOLEAN
         /\ ready' => outbox' # <<>>
<1>1. outbox \in Seq(Word) /\ ready \in BOOLEAN /\ (ready => outbox # <<>>)
  BY DEF TypeOK, CursorInv
<1>2. CASE outbox' = outbox \o s /\ ready' = ready
  <2>1. outbox' \in Seq(Word) /\ Len(outbox') = Len(outbox) + Len(s)
    BY <1>1, <1>2
  <2>2. outbox # <<>> => Len(outbox) > 0
    BY <1>1
  <2>3. outbox # <<>> => Len(outbox') > 0
    BY <1>1, <2>1, <2>2
  <2>4. outbox # <<>> => outbox' # <<>>
    BY <2>3
  <2> QED BY <1>1, <1>2, <2>1, <2>4
<1>3. CASE outbox' = s /\ ready' = FALSE
  BY <1>3
<1> QED BY <1>2, <1>3 DEF Answer

\* No step breaks a type or loses the driver's place in its call.
LEMMA TypeStep == TypeOK /\ CursorInv /\ [Next]_vars => TypeOK' /\ CursorInv'
<1> SUFFICES ASSUME TypeOK, CursorInv, [Next]_vars
             PROVE  TypeOK' /\ CursorInv'
  OBVIOUS
<1>0. /\ WritePolls \in Nat
      /\ ReadPolls \in Nat
      /\ Len(menu) \in Nat
  BY MicroAssumption
<1>1. CASE UNCHANGED vars
  BY <1>1 DEF TypeOK, CursorInv, vars, microVars, driverVars, histVars
<1>2. CASE TakeOperand
  <2>1. awaited \in Operands /\ inbox \in Word
    BY <1>2 DEF TakeOperand, TypeOK
  <2>2. regs' \in [Regs -> Word]
    BY <1>2, <2>1, AfterOperandType DEF TakeOperand, TypeOK
  <2>3. TypeOK'
    BY <1>2, <2>2 DEF TakeOperand, TypeOK, driverVars, histVars
  <2>4. CursorInv'
    BY <1>2 DEF TakeOperand, CursorInv, driverVars, histVars
  <2> QED BY <2>3, <2>4
<1>3. CASE TakeCommand
  <2>1. inbox \in Word
    BY <1>3 DEF TakeCommand, TypeOK
  <2>2. regs' \in [Regs -> Word]
    <3>1. regs' \in Configs \/ regs' = AfterCommand(regs, inbox)
      BY <1>3 DEF TakeCommand
    <3> QED BY <2>1, <3>1, AfterCommandType, MicroAssumption DEF TypeOK
  <2>3. awaited' \in Operands \cup {NoOperand}
    BY <1>3 DEF TakeCommand
  <2>4. /\ outbox' \in Seq(Word)
        /\ ready' \in BOOLEAN
        /\ ready' => outbox' # <<>>
    <3>1. CASE ~IsQuestion(inbox)
      BY <1>3, <3>1 DEF TakeCommand, TypeOK, CursorInv
    <3>2. CASE IsQuestion(inbox)
      <4>1. PICK q \in Questions : Answer(AnswersTo(q, regs))
        BY <1>3, <3>2 DEF TakeCommand
      <4>2. AnswersTo(q, regs) \in Seq(Word)
        BY ToldType DEF TypeOK
      <4> QED BY <4>1, <4>2, AnswerType
    <3> QED BY <3>1, <3>2
  <2>5. TypeOK'
    BY <1>3, <2>2, <2>3, <2>4 DEF TakeCommand, TypeOK, driverVars, histVars
  <2>6. CursorInv'
    BY <1>3, <2>4 DEF TakeCommand, CursorInv, driverVars, histVars
  <2> QED BY <2>5, <2>6
<1>17. CASE TakeOpaque
  <2>1. regs' \in [Regs -> Word]
    BY <1>17, MicroAssumption DEF TakeOpaque, TypeOK
  <2>2. PICK s \in Replies : Answer(s)
    BY <1>17 DEF TakeOpaque
  <2>3. outbox' \in Seq(Word) /\ ready' \in BOOLEAN /\ (ready' => outbox' # <<>>)
    BY <2>2, AnswerType, MicroAssumption
  <2>4. TypeOK'
    BY <1>17, <2>1, <2>3 DEF TakeOpaque, TypeOK, driverVars, histVars
  <2>5. CursorInv'
    BY <1>17, <2>3 DEF TakeOpaque, CursorInv, driverVars, histVars
  <2> QED BY <2>4, <2>5
<1>4. CASE PutOut
  <2>1. TypeOK'
    BY <1>4 DEF PutOut, TypeOK, driverVars, histVars
  <2>2. CursorInv'
    BY <1>4 DEF PutOut, CursorInv, driverVars, histVars
  <2> QED BY <2>1, <2>2
<1>5. CASE Begin
  <2>1. calls + 1 \in 1..Len(menu) /\ calls \in Nat
    BY <1>0, <1>5 DEF Begin, TypeOK
  <2>2. call' \in MenuCalls /\ menu' \in Menus /\ menu' = menu
    <3>1. menu \in Menus /\ calls + 1 \in 1..Len(menu) /\ call' \in menu[calls + 1]
      BY <1>5, <2>1 DEF Begin, TypeOK
    <3> QED BY <1>5, <3>1 DEF Begin, MenuCalls, CallsOf
  <2>3. Len(call'.words) \in 1..2
    BY <2>2, MenuFacts
  <2>4. /\ calls' \in 0..Len(menu) /\ wlost' \in 0..calls' /\ rlost' \in 0..calls'
        /\ i' \in 1..5 /\ polls' \in 0..WritePolls /\ answers' \in Seq(Failed..(WordSize - 1))
    BY <1>0, <1>5, <2>1 DEF Begin, TypeOK, histVars
  <2>5. TypeOK'
    <3>1. /\ UNCHANGED <<inbox, awaited, outbox, ready, regs, wanted>>
          /\ pc' = "write" /\ calls' \in 0..Len(menu')
      BY <1>5, <2>2, <2>4 DEF Begin, microVars, histVars
    <3>2. /\ inbox' \in Word \/ inbox' = None
          /\ awaited' \in Operands \cup {NoOperand, Unknown}
          /\ outbox' \in Seq(Word)
          /\ ready' \in BOOLEAN
          /\ regs' \in [Regs -> Word] /\ wanted' \in [Regs -> Word]
      BY <3>1 DEF TypeOK
    <3>3. polls' \in 0..(IF pc' = "write" THEN WritePolls ELSE ReadPolls)
      BY <2>4, <3>1
    <3>4. wlost' \in 0..calls' /\ rlost' \in 0..calls' /\ i' \in 1..5
      BY <2>4
    <3>5. pc' \in {"idle", "write", "read"} /\ call' \in MenuCalls \cup {NoCall}
      BY <2>2, <3>1
    <3>6. answers' \in Seq(Failed..(WordSize - 1))
      BY <2>4
    <3> QED BY ONLY <2>2, <3>1, <3>2, <3>3, <3>4, <3>5, <3>6 DEF TypeOK
  <2>6. /\ pc' = "write" /\ calls' > 0 /\ i' \in 1..Len(call'.words)
        /\ answers' = <<>> /\ ready' = ready /\ outbox' = outbox
    <3>1. /\ pc' = "write" /\ calls' = calls + 1 /\ i' = 1
          /\ answers' = <<>> /\ ready' = ready /\ outbox' = outbox
      BY <1>5 DEF Begin, microVars
    <3>2. calls' > 0
      BY ONLY <2>1, <3>1
    <3>3. i' \in 1..Len(call'.words)
      <4>1. \A n \in 1..2 : 1 \in 1..n
        OBVIOUS
      <4> QED BY ONLY <2>3, <3>1, <4>1, Zenon
    <3> QED BY ONLY <3>1, <3>2, <3>3
  <2>7. CursorInv'
    <3>1. call' \in menu'[calls']
      BY <1>5, <2>2 DEF Begin
    <3> QED BY <2>2, <2>6, <3>1 DEF CursorInv
  <2> QED BY <2>5, <2>7
<1>6. ASSUME NextWord, pc = "write", menu' = menu, calls' = calls, call' = call,
             answers' = answers, outbox' = outbox, ready' = ready
      PROVE  /\ pc' \in {"idle", "write", "read"}
             /\ i' \in 1..5
             /\ polls' \in 0..(IF pc' = "write" THEN WritePolls ELSE ReadPolls)
             /\ wanted' \in [Regs -> Word]
             /\ CursorInv'
  <2>1. call \in MenuCalls /\ Len(call.words) \in 1..2 /\ call.reads \in 0..5
    BY <1>6, MenuFacts DEF CursorInv
  <2>2. WantedAfter(wanted, call) \in [Regs -> Word]
    BY <2>1, WantedType DEF TypeOK
  <2>3. CASE i < Len(call.words)
    <3>0. i \in 1..Len(call.words)
      BY <1>6 DEF CursorInv
    <3>6. i' = i + 1 /\ pc' = "write" /\ wanted' = wanted /\ polls' = 0
      BY <1>6, <2>3, Zenon DEF NextWord
    <3>7. i \in 1..2
      <4>1. \A n \in 1..2 : \A j \in 1..n : j \in 1..2
        OBVIOUS
      <4> QED BY <2>1, <3>0, <4>1
    <3>1. i \in 1..2 /\ i' = i + 1 /\ pc' = "write" /\ wanted' = wanted /\ polls' = 0
      BY <3>6, <3>7
    <3>5. i' \in 1..Len(call.words)
      BY <2>1, <2>3, <3>1
    <3>2. i' \in 1..Len(call'.words)
      BY <1>6, <3>5
    <3>3. CursorInv'
      BY <1>6, <2>1, <3>1, <3>2 DEF CursorInv
    <3>4. i' \in 1..5
      BY <3>1
    <3> QED BY <1>0, <3>1, <3>3, <3>4 DEF TypeOK
  <2>4. CASE ~(i < Len(call.words))
    <3>1. /\ i' = 1 /\ polls' = 0 /\ wanted' = WantedAfter(wanted, call)
          /\ pc' = IF call.reads > 0 THEN "read" ELSE "idle"
      BY <2>4, <1>6 DEF NextWord
    <3>2. pc' = "read" => i' \in 1..call'.reads /\ Len(answers') = i' - 1
      BY <1>6, <2>1, <3>1 DEF CursorInv
    <3>3. pc' \in {"idle", "read"}
      BY <3>1
    <3>4. CursorInv'
      BY <1>6, <3>2, <3>3 DEF CursorInv
    <3> QED BY <1>0, <2>2, <3>1, <3>3, <3>4
  <2> QED BY <2>3, <2>4
<1>7. ASSUME NEW a \in Failed..(WordSize - 1), NextAnswer(a), pc = "read",
             menu' = menu, calls' = calls, call' = call, ready' => outbox' # <<>>
      PROVE  /\ pc' \in {"idle", "write", "read"}
             /\ i' \in 1..5
             /\ polls' \in 0..(IF pc' = "write" THEN WritePolls ELSE ReadPolls)
             /\ answers' \in Seq(Failed..(WordSize - 1))
             /\ CursorInv'
  <2>1. call \in MenuCalls /\ call.reads \in 0..5 /\ i \in 1..call.reads /\ Len(answers) = i - 1
    BY <1>7, MenuFacts DEF CursorInv
  <2>2. answers' \in Seq(Failed..(WordSize - 1)) /\ Len(answers') = Len(answers) + 1
    BY <1>7 DEF NextAnswer, TypeOK
  <2>3. CASE i < call.reads
    <3>1. i' = i + 1 /\ pc' = "read" /\ polls' = 0
      BY <1>7, <2>3 DEF NextAnswer
    <3>2. i' \in 1..call'.reads /\ i' \in 1..5 /\ Len(answers') = i' - 1
      BY <1>7, <2>1, <2>2, <2>3, <3>1
    <3>3. CursorInv'
      BY <1>7, <2>1, <3>1, <3>2 DEF CursorInv
    <3> QED BY <1>0, <2>2, <3>1, <3>2, <3>3
  <2>4. CASE ~(i < call.reads)
    <3>1. i' = 1 /\ pc' = "idle" /\ polls' = 0
      BY <1>7, <2>4 DEF NextAnswer
    <3>2. CursorInv'
      BY <1>7, <3>1 DEF CursorInv
    <3> QED BY <1>0, <2>2, <3>1, <3>2
  <2> QED BY <2>3, <2>4
<1>8. CASE v1290_MicroWrite
  <2>1. call \in MenuCalls /\ i \in 1..Len(call.words)
    BY <1>8 DEF v1290_MicroWrite, CursorInv
  <2>2. call.words[i] \in Word
    BY <2>1, MenuFacts
  <2>3. /\ pc' \in {"idle", "write", "read"}
        /\ i' \in 1..5
        /\ polls' \in 0..(IF pc' = "write" THEN WritePolls ELSE ReadPolls)
        /\ wanted' \in [Regs -> Word]
        /\ CursorInv'
    BY <1>6, <1>8 DEF v1290_MicroWrite
  <2>4. TypeOK'
    BY <1>8, <2>2, <2>3 DEF v1290_MicroWrite, TypeOK
  <2> QED BY <2>3, <2>4
<1>9. CASE WriteWait
  <2>1. polls' \in 0..WritePolls /\ pc' = "write"
    BY <1>0, <1>9 DEF WriteWait, TypeOK
  <2>2. TypeOK'
    BY <1>9, <2>1 DEF WriteWait, TypeOK, microVars, histVars
  <2>3. CursorInv'
    BY <1>9 DEF WriteWait, CursorInv, microVars, histVars
  <2> QED BY <2>2, <2>3
<1>10. CASE WriteGiveUp
  <2>1. /\ pc' \in {"idle", "write", "read"}
        /\ i' \in 1..5
        /\ polls' \in 0..(IF pc' = "write" THEN WritePolls ELSE ReadPolls)
        /\ wanted' \in [Regs -> Word]
        /\ CursorInv'
    BY <1>6, <1>10 DEF WriteGiveUp, microVars
  <2>2. wlost' \in 0..calls'
    BY <1>10 DEF WriteGiveUp, TypeOK
  <2>3. TypeOK'
    BY <1>10, <2>1, <2>2 DEF WriteGiveUp, TypeOK, microVars
  <2> QED BY <2>1, <2>3
<1>11. CASE v1290_MicroRead
  <2>1. outbox # <<>> /\ outbox \in Seq(Word)
    BY <1>11 DEF v1290_MicroRead, RD_OK, CursorInv, TypeOK
  <2>2. Head(outbox) \in Word /\ Tail(outbox) \in Seq(Word)
    BY <2>1
  <2>3. Head(outbox) \in Failed..(WordSize - 1)
    BY <2>2, WordFacts
  <2>4. /\ pc' \in {"idle", "write", "read"}
        /\ i' \in 1..5
        /\ polls' \in 0..(IF pc' = "write" THEN WritePolls ELSE ReadPolls)
        /\ answers' \in Seq(Failed..(WordSize - 1))
        /\ CursorInv'
    BY <1>7, <1>11, <2>3 DEF v1290_MicroRead
  <2>5. TypeOK'
    BY <1>11, <2>2, <2>4 DEF v1290_MicroRead, TypeOK, histVars
  <2> QED BY <2>4, <2>5
<1>12. CASE ReadWait
  <2>1. polls' \in 0..ReadPolls /\ pc' = "read"
    BY <1>0, <1>12 DEF ReadWait, TypeOK
  <2>2. TypeOK'
    BY <1>12, <2>1 DEF ReadWait, TypeOK, microVars, histVars
  <2>3. CursorInv'
    BY <1>12 DEF ReadWait, CursorInv, microVars, histVars
  <2> QED BY <2>2, <2>3
<1>13. CASE ReadGiveUp
  <2>1. /\ pc' \in {"idle", "write", "read"}
        /\ i' \in 1..5
        /\ polls' \in 0..(IF pc' = "write" THEN WritePolls ELSE ReadPolls)
        /\ answers' \in Seq(Failed..(WordSize - 1))
        /\ CursorInv'
    BY <1>7, <1>13, WordFacts DEF ReadGiveUp, microVars, CursorInv
  <2>2. rlost' \in 0..calls'
    BY <1>13 DEF ReadGiveUp, TypeOK
  <2>3. TypeOK'
    BY <1>13, <2>1, <2>2 DEF ReadGiveUp, TypeOK, microVars
  <2> QED BY <2>1, <2>3
<1>14. CASE HandshakeMisread
  <2>1. /\ pc' = pc
        /\ polls' \in 0..(IF pc' = "write" THEN WritePolls ELSE ReadPolls)
    BY <1>0, <1>14 DEF HandshakeMisread, TypeOK
  <2>2. TypeOK'
    BY <1>14, <2>1 DEF HandshakeMisread, TypeOK, microVars, histVars
  <2>3. CursorInv'
    BY <1>14 DEF HandshakeMisread, CursorInv, microVars, histVars
  <2> QED BY <2>2, <2>3
<1>15. CASE WordLost
  <2>1. call.words[i] \in Word
    BY <1>15, MenuFacts DEF WordLost, CursorInv
  <2>2. inbox' \in Word \/ inbox' = None
    BY <1>15, <2>1 DEF WordLost, TypeOK
  <2>3. /\ pc' \in {"idle", "write", "read"}
        /\ i' \in 1..5
        /\ polls' \in 0..(IF pc' = "write" THEN WritePolls ELSE ReadPolls)
        /\ wanted' \in [Regs -> Word]
        /\ CursorInv'
    BY <1>6, <1>15 DEF WordLost
  <2>4. wlost' \in 0..calls'
    BY <1>15 DEF WordLost, TypeOK
  <2>5. TypeOK'
    BY <1>15, <2>2, <2>3, <2>4 DEF WordLost, TypeOK
  <2> QED BY <2>3, <2>5
<1>16. CASE AnswerMisread
  <2>1. PICK a \in Garbage : NextAnswer(a)
    BY <1>16 DEF AnswerMisread
  <2>2. a \in Failed..(WordSize - 1)
    BY MicroAssumption, WordFacts
  <2>3. outbox' \in Seq(Word) /\ ready' \in BOOLEAN /\ (ready' => outbox' # <<>>)
    <3>1. outbox \in Seq(Word) /\ ready \in BOOLEAN /\ (ready => outbox # <<>>)
      BY DEF TypeOK, CursorInv
    <3>2. \/ outbox # <<>> /\ outbox' = Tail(outbox) /\ ready' = FALSE
          \/ outbox' = outbox /\ ready' = ready
      BY <1>16 DEF AnswerMisread
    <3>3. outbox # <<>> => Tail(outbox) \in Seq(Word)
      BY <3>1
    <3>4. CASE outbox # <<>> /\ outbox' = Tail(outbox) /\ ready' = FALSE
      BY <3>3, <3>4
    <3>5. CASE outbox' = outbox /\ ready' = ready
      BY <3>1, <3>5
    <3> QED BY <3>2, <3>4, <3>5
  <2>4. /\ pc' \in {"idle", "write", "read"}
        /\ i' \in 1..5
        /\ polls' \in 0..(IF pc' = "write" THEN WritePolls ELSE ReadPolls)
        /\ answers' \in Seq(Failed..(WordSize - 1))
        /\ CursorInv'
    BY <1>7, <1>16, <2>1, <2>2, <2>3 DEF AnswerMisread
  <2>5. rlost' \in 0..calls'
    BY <1>16 DEF AnswerMisread, TypeOK
  <2>6. TypeOK'
    <3>1. UNCHANGED <<inbox, awaited, regs, menu, calls, call, wanted, wlost>>
      BY <1>16 DEF AnswerMisread
    <3> QED BY <2>3, <2>4, <2>5, <3>1 DEF TypeOK
  <2> QED BY <2>4, <2>6
<1> QED BY <1>1, <1>2, <1>3, <1>4, <1>5, <1>8, <1>9, <1>10, <1>11, <1>12, <1>13,
           <1>14, <1>15, <1>16, <1>17
        DEF Next, Micro, Driver, Fault

\* An opaque command is taken only where a word has been lost: it is then an
\* operand taken for a command.
LEMMA OpaqueAfterLoss ==
  ASSUME TypeOK, CursorInv, StepInv, TakeOpaque
  PROVE  wlost # 0
<1> SUFFICES ASSUME wlost = 0 PROVE FALSE
  OBVIOUS
<1>1. inbox # None /\ (awaited = Unknown \/ (awaited = NoOperand /\ IsOpaque(inbox)))
  BY DEF TakeOpaque
<1>2. CASE pc = "write" /\ i = 2
  <2>1. inbox = call.words[1] /\ awaited = NoOperand
    BY <1>1, <1>2 DEF StepInv, Halfway
  <2>2. call \in MenuCalls /\ 2 \in 1..Len(call.words)
    BY <1>2 DEF CursorInv
  <2>3. CallOK(call) /\ Len(call.words) \in 1..2
    BY <2>2, MenuFacts
  <2>4. Len(call.words) = 2
    <3>1. \A n \in 1..2 : 2 \in 1..n => n = 2
      OBVIOUS
    <3> QED BY <2>2, <2>3, <3>1
  <2>5. PICK o \in Operands : o.op = inbox
    BY <2>1, <2>3, <2>4 DEF CallOK
  <2>6. IsOperand(inbox)
    BY <2>5, OperandFacts DEF IsOperand
  <2> QED BY <1>1, <2>1, <2>6, KnownCommand, NoOperandIsNone
<1>3. CASE ~(pc = "write" /\ i = 2)
  BY <1>1, <1>3, NoOperandIsNone DEF StepInv, Settled
<1> QED BY <1>2, <1>3

\* No step lets a word be taken for what the driver did not mean it to be,
\* unless v1290_MicroWrite gives up or an access of it fails.
LEMMA SettingStep ==
  ASSUME TypeOK, CursorInv, StepInv, AnswerInv, [Next]_vars
  PROVE  StepInv'
<1> SUFFICES ASSUME wlost' = 0
             PROVE  IF pc' = "write" /\ i' = 2 THEN Halfway' ELSE Settled'
  BY DEF StepInv
<1>1. CASE UNCHANGED vars
  BY <1>1 DEF StepInv, Halfway, Settled, vars, microVars, driverVars, histVars
<1>2. CASE TakeOperand
  <2>1. wlost = 0 /\ inbox # None /\ awaited # NoOperand
    BY <1>2, NoOperandIsNone DEF TakeOperand, histVars
  <2>2. ~(pc = "write" /\ i = 2)
    BY <2>1 DEF StepInv, Halfway
  <2>3. AfterOperand(regs, awaited, inbox) = wanted
    BY <2>1, <2>2 DEF StepInv, Settled
  <2> QED BY <1>2, <2>2, <2>3 DEF TakeOperand, Settled, driverVars, histVars
<1>3. CASE TakeCommand
  <2>1. wlost = 0 /\ inbox # None /\ awaited = NoOperand /\ inbox' = None /\ pc' = pc /\ i' = i
    BY <1>3 DEF TakeCommand, driverVars, histVars
  <2>2. /\ ~IsLoad(inbox) => regs' = AfterCommand(regs, inbox)
        /\ wanted' = wanted /\ call' = call
    BY <1>3 DEF TakeCommand, driverVars, histVars
  <2>3. CASE pc = "write" /\ i = 2
    <3>1. regs = wanted /\ inbox = call.words[1]
      BY <2>1, <2>3 DEF StepInv, Halfway
    <3>2. PICK o \in Operands : o.op = inbox
      <4>1. call \in MenuCalls /\ 2 \in 1..Len(call.words)
        BY <2>3 DEF CursorInv
      <4>3. Len(call.words) \in 1..2
        BY <4>1, MenuFacts
      <4>2. Len(call.words) = 2
        BY <4>1, <4>3
      <4> QED BY <3>1, <4>1, <4>2, MenuFacts DEF CallOK
    <3>3. Command(inbox) = inbox /\ IsOperand(inbox)
      BY <3>2, OperandFacts DEF IsOperand
    <3>4. awaited' \in Operands /\ awaited'.op = call.words[1]
      BY <1>3, <3>1, <3>3 DEF TakeCommand
    <3>5. regs' = wanted'
      BY <2>2, <3>1, <3>3, NoSetting, KnownCommand
    <3> QED BY <2>1, <2>2, <2>3, <3>4, <3>5 DEF Halfway
  <2>4. CASE ~(pc = "write" /\ i = 2)
    <3>1. ~IsOperand(inbox) /\ ~IsLoad(inbox) /\ AfterCommand(regs, inbox) = wanted
      BY <2>1, <2>4 DEF StepInv, Settled
    <3>2. awaited' = NoOperand
      BY <1>3, <3>1 DEF TakeCommand
    <3> QED BY <2>1, <2>2, <2>4, <3>1, <3>2 DEF Settled
  <2> QED BY <2>3, <2>4
<1>16. CASE TakeOpaque
  BY <1>16, OpaqueAfterLoss DEF TakeOpaque, histVars
<1>4. CASE PutOut
  BY <1>4 DEF PutOut, StepInv, Halfway, Settled, driverVars, histVars
<1>5. CASE Begin
  <2>1. Settled
    BY <1>5 DEF Begin, StepInv, histVars
  <2>2. ~(pc' = "write" /\ i' = 2)
    BY <1>5 DEF Begin
  <2> QED BY <1>5, <2>1, <2>2 DEF Begin, Settled, microVars, histVars
<1>6. CASE v1290_MicroWrite
  <2>1. /\ pc = "write" /\ inbox = None /\ inbox' = call.words[i] /\ wlost = 0
        /\ awaited' = awaited /\ regs' = regs /\ call' = call
    BY <1>6 DEF v1290_MicroWrite, WR_OK
  <2>2. /\ call \in MenuCalls /\ i \in 1..Len(call.words) /\ Len(call.words) \in 1..2
        /\ \A k \in 1..Len(call.words) : call.words[k] \in Word
    BY <2>1, MenuFacts DEF CursorInv
  <2>3. inbox' # None
    BY <2>1, <2>2, WordFacts
  <2>4. regs = wanted
    BY <2>1 DEF StepInv, Settled, Halfway
  <2>5. CASE i < Len(call.words)
    <3>1. i = 1 /\ Len(call.words) = 2
      BY <2>2, <2>5
    <3>2. pc' = "write" /\ i' = 2 /\ wanted' = wanted
      BY <1>6, <2>5, <3>1 DEF v1290_MicroWrite, NextWord
    <3>3. awaited = NoOperand
      BY <2>1, <3>1 DEF StepInv, Settled
    <3> QED BY <2>1, <2>4, <3>1, <3>2, <3>3 DEF Halfway
  <2>6. CASE ~(i < Len(call.words))
    <3>1. pc' # "write" /\ wanted' = WantedAfter(wanted, call)
      BY <1>6, <2>6 DEF v1290_MicroWrite, NextWord
    <3>2. CASE i = 2
      <4>1. Len(call.words) = 2
        BY <2>2, <2>6, <3>2
      <4>2. awaited \in Operands /\ awaited.op = call.words[1]
        BY <2>1, <2>2, <2>3, <3>2, WordFacts DEF StepInv, Halfway
      <4>3. wanted' = AfterOperand(regs', awaited', inbox')
        BY <2>1, <2>2, <2>4, <3>1, <3>2, <4>1, <4>2, WantedTwo
      <4>4. awaited' \in Operands /\ awaited' # NoOperand
        BY <2>1, <4>2, NoOperandIsNone
      <4> QED BY <2>3, <3>1, <4>3, <4>4 DEF Settled
    <3>3. CASE i # 2
      <4>1. i = 1 /\ Len(call.words) # 2
        BY <2>2, <2>6, <3>3
      <4>2. awaited = NoOperand
        BY <2>1, <4>1 DEF StepInv, Settled
      <4>3. /\ wanted' = AfterCommand(regs', inbox')
            /\ ~IsOperand(inbox') /\ ~IsLoad(inbox') /\ ~IsOpaque(inbox')
        BY <2>1, <2>2, <2>4, <3>1, <4>1, WantedOne
      <4> QED BY <2>1, <2>3, <3>1, <4>2, <4>3 DEF Settled
    <3> QED BY <3>2, <3>3
  <2> QED BY <2>5, <2>6
<1>7. CASE WriteWait
  BY <1>7 DEF WriteWait, StepInv, Halfway, Settled, microVars, histVars
<1>8. CASE WriteGiveUp
  BY <1>8 DEF WriteGiveUp, CursorInv, TypeOK
<1>9. ASSUME pc = "read", pc' \in {"read", "idle"}, inbox' = inbox, awaited' = awaited,
             regs' = regs, wanted' = wanted, wlost' = wlost
      PROVE  IF pc' = "write" /\ i' = 2 THEN Halfway' ELSE Settled'
  BY <1>9 DEF StepInv, Settled
<1>10. CASE v1290_MicroRead
  BY <1>9, <1>10 DEF v1290_MicroRead, NextAnswer, histVars
<1>11. CASE ReadWait
  BY <1>9, <1>11 DEF ReadWait, microVars, histVars
<1>12. CASE ReadGiveUp
  BY <1>9, <1>12 DEF ReadGiveUp, NextAnswer, microVars
<1>13. CASE HandshakeMisread
  BY <1>13 DEF HandshakeMisread, StepInv, Halfway, Settled, microVars, histVars
<1>14. CASE WordLost
  BY <1>14 DEF WordLost, CursorInv, TypeOK
<1>15. CASE AnswerMisread
  BY <1>9, <1>15 DEF AnswerMisread, NextAnswer
<1> QED BY <1>1, <1>2, <1>3, <1>4, <1>5, <1>6, <1>7, <1>8, <1>10, <1>11, <1>12,
           <1>13, <1>14, <1>15, <1>16
        DEF Next, Micro, Driver, Fault

\* Once the micro controller takes a question, what it puts out is the
\* answers to that question.
LEMMA QuestionTaken ==
  ASSUME TypeOK, CursorInv, TakeCommand, pc = "read",
         inbox = call.words[1], outbox = <<>>, i = 1
  PROVE  Answering'
<1>0. inbox' = None /\ call' = call /\ answers' = answers
  BY DEF TakeCommand, driverVars
<1>2. /\ call \in MenuCalls /\ i \in 1..call.reads /\ Len(answers) = i - 1
      /\ CallOK(call) /\ call.reads \in 0..5
  BY MenuFacts DEF CursorInv
<1>3. Len(answers) = 0 /\ call.reads > 0
  BY <1>2
<1>4. PICK q \in Questions : q.op = call.words[1] /\ Len(q.regs) = call.reads
  BY <1>2, <1>3 DEF CallOK
<1>5. Command(inbox) = q.op /\ IsQuestion(inbox)
  BY <1>4, QuestionFacts DEF IsQuestion
<1> DEFINE told == AnswersTo(q, regs)
<1>6. outbox' = outbox \o told
  <2>1. PICK p \in Questions :
          p.op = Command(inbox) /\ Answer(AnswersTo(p, regs))
    BY <1>5 DEF TakeCommand
  <2>2. p = q
    BY <2>1, <1>5, QuestionUnique
  <2> QED BY <2>1, <2>2 DEF Answer
<1>7. told \in Seq(Word) /\ Len(told) = call.reads
  BY <1>4, ToldType DEF TypeOK
<1>8. outbox' = told
  <2> HIDE DEF told
  <2> QED BY <1>6, <1>7
<1>9. regs' = regs
  <2>1. regs' = AfterCommand(regs, inbox)
    BY <1>5, KnownCommand DEF TakeCommand
  <2> QED BY <1>5, <2>1, NoSetting
<1>10. Told(call)' = told
  <2>1. (CHOOSE p \in Questions : p.op = call.words[1]) = q
    BY <1>4, ChosenQuestion
  <2>2. Asked(call') = q
    BY <1>0, <2>1 DEF Asked
  <2> QED BY <1>9, <2>2 DEF Told
<1>11. Answering'
  <2> HIDE DEF told
  <2>1. Len(answers') + Len(outbox') = call'.reads
    BY <1>0, <1>2, <1>3, <1>7, <1>8
  <2>2. \A k \in 1..Len(answers') : answers'[k] = Told(call)'[k]
    BY <1>0, <1>3
  <2>3. \A k \in 1..Len(outbox') : outbox'[k] = Told(call)'[Len(answers') + k]
    BY <1>0, <1>3, <1>8, <1>10
  <2> QED BY <1>0, <2>1, <2>2, <2>3 DEF Answering
<1> QED BY <1>11

\* Each answer read is the next to the question, and with the last of them
\* the driver has read them all and none is left.
LEMMA AnswerRead ==
  ASSUME TypeOK, CursorInv, Answering, v1290_MicroRead
  PROVE  \/ pc' = "read" /\ Answering'
         \/ pc' = "idle" /\ inbox' = None /\ outbox' = <<>> /\ answers' = Told(call)'
<1>1. /\ pc = "read" /\ ready
      /\ outbox' = Tail(outbox) /\ answers' = Append(answers, Head(outbox))
      /\ inbox' = inbox /\ regs' = regs /\ call' = call /\ NextAnswer(Head(outbox))
  BY DEF v1290_MicroRead, RD_OK, NextAnswer, histVars
<1>2. /\ outbox \in Seq(Word) /\ outbox # <<>> /\ answers \in Seq(Failed..(WordSize - 1))
      /\ Len(outbox) \in Nat /\ Len(answers) \in Nat
  BY <1>1 DEF CursorInv, TypeOK
<1>3. /\ inbox = None
      /\ Len(answers) + Len(outbox) = call.reads
      /\ \A k \in 1..Len(answers) : answers[k] = Told(call)[k]
      /\ \A k \in 1..Len(outbox) : outbox[k] = Told(call)[Len(answers) + k]
  BY DEF Answering
<1>4. Told(call)' = Told(call)
  BY <1>1 DEF Told
<1>5. /\ Len(outbox) > 0 /\ Len(outbox') = Len(outbox) - 1
      /\ \A k \in 1..Len(outbox') : outbox'[k] = outbox[k + 1]
  BY <1>1, <1>2
<1>6. /\ Len(answers') = Len(answers) + 1
      /\ answers'[Len(answers) + 1] = outbox[1]
      /\ \A k \in 1..Len(answers) : answers'[k] = answers[k]
  <2>1. Head(outbox) = outbox[1]
    BY <1>2
  <2>2. Head(outbox) \in Failed..(WordSize - 1)
    BY <1>2, WordFacts
  <2> QED BY <1>1, <1>2, <2>1, <2>2
<1>7. \A k \in 1..Len(answers') : answers'[k] = Told(call)[k]
  <2> SUFFICES ASSUME NEW k \in 1..Len(answers') PROVE answers'[k] = Told(call)[k]
    OBVIOUS
  <2>1. CASE k = Len(answers) + 1
    <3>1. outbox[1] = Told(call)[Len(answers) + 1]
      <4>1. 1 \in 1..Len(outbox)
        BY <1>2, <1>5
      <4> QED BY <1>3, <4>1
    <3> QED BY <1>6, <2>1, <3>1
  <2>2. CASE k # Len(answers) + 1
    <3>1. k \in 1..Len(answers)
      BY <1>2, <1>6, <2>2
    <3> QED BY <1>3, <1>6, <3>1
  <2> QED BY <2>1, <2>2
<1>8. \A k \in 1..Len(outbox') : outbox'[k] = Told(call)[Len(answers') + k]
  <2> SUFFICES ASSUME NEW k \in 1..Len(outbox')
               PROVE  outbox'[k] = Told(call)[Len(answers') + k]
    OBVIOUS
  <2>1. k + 1 \in 1..Len(outbox) /\ Len(answers) + (k + 1) = Len(answers') + k
    <3>1. Len(outbox') = Len(outbox) - 1 /\ Len(answers') = Len(answers) + 1
      BY <1>5, <1>6
    <3>2. Len(outbox) \in Nat /\ Len(answers) \in Nat
      BY <1>2
    <3> QED BY ONLY <3>1, <3>2, k \in 1..Len(outbox')
  <2>2. outbox[k + 1] = Told(call)[Len(answers) + (k + 1)]
    BY <1>3, <2>1
  <2> QED BY <1>5, <2>1, <2>2
<1>9. Len(answers') + Len(outbox') = call'.reads
  BY <1>1, <1>2, <1>3, <1>5, <1>6
<1>10. call \in MenuCalls /\ i \in 1..call.reads /\ Len(answers) = i - 1
  BY <1>1 DEF CursorInv
<1>11. call.reads \in 0..5 /\ CallOK(call)
  BY <1>10, MenuFacts
<1>12. CASE i < call.reads
  <2>1. pc' = "read"
    BY <1>1, <1>12 DEF NextAnswer
  <2>2. Answering'
    BY <1>1, <1>3, <1>4, <1>7, <1>8, <1>9 DEF Answering
  <2> QED BY <2>1, <2>2
<1>13. CASE ~(i < call.reads)
  <2>1. pc' = "idle"
    BY <1>1, <1>13 DEF NextAnswer
  <2>2. Len(answers') = call.reads /\ Len(outbox) = 1
    <3>1. i = call.reads
      BY <1>10, <1>11, <1>13
    <3>2. Len(answers) + 1 = call.reads
      BY <1>2, <1>10, <1>11, <3>1
    <3>3. \A m, n \in Nat : m + n = m + 1 => n = 1
      OBVIOUS
    <3>4. Len(answers) + Len(outbox) = Len(answers) + 1
      BY <1>3, <3>2
    <3> QED BY <1>2, <1>6, <3>2, <3>3, <3>4
  <2>3. outbox' = <<>>
    BY <1>1, <1>2, <1>5, <2>2
  <2>4. PICK q \in Questions : q.op = call.words[1] /\ Len(q.regs) = call.reads
    <3>1. call.reads > 0
      BY <1>10, <1>11
    <3> QED BY <1>11, <3>1 DEF CallOK
  <2>5. Told(call) = AnswersTo(q, regs)
    <3>1. (CHOOSE p \in Questions : p.op = call.words[1]) = q
      BY <2>4, ChosenQuestion
    <3>2. Asked(call) = q
      BY <3>1 DEF Asked
    <3> QED BY <3>2 DEF Told
  <2>6. Told(call) \in Seq(Word) /\ Len(Told(call)) = call.reads
    BY <2>4, <2>5, ToldType DEF TypeOK
  <2>7. answers' \in Seq(Failed..(WordSize - 1))
    BY <1>1, <1>2, WordFacts
  <2>8. answers' = Told(call)
    BY <1>7, <2>2, <2>6, <2>7
  <2> QED BY <1>1, <1>3, <1>4, <2>1, <2>3, <2>8
<1> QED BY <1>12, <1>13

\* No step mixes the answers of two questions, or leaves one behind, unless
\* v1290_MicroWrite or v1290_MicroRead gives up or an access of theirs fails.
LEMMA AnswerStep ==
  ASSUME TypeOK, CursorInv, StepInv, AnswerInv, [Next]_vars
  PROVE  AnswerInv'
<1> SUFFICES ASSUME wlost' = 0, rlost' = 0
             PROVE  /\ pc' = "read" => OpenQuestion'
                    /\ pc' # "read" => NoQuestion'
                    /\ pc' = "idle" /\ call'.reads > 0 =>
                         inbox' = None /\ answers' = Told(call)'
  BY DEF AnswerInv
<1>0. ASSUME regs' = regs, call' = call, inbox' = inbox, awaited' = awaited,
             outbox' = outbox, i' = i, pc' = pc, answers' = answers,
             wlost' = wlost, rlost' = rlost
      PROVE  /\ pc' = "read" => OpenQuestion'
             /\ pc' # "read" => NoQuestion'
             /\ pc' = "idle" /\ call'.reads > 0 =>
                  inbox' = None /\ answers' = Told(call)'
  <2>1. Told(call)' = Told(call)
    BY <1>0 DEF Told, Asked
  <2>2. wlost = 0 /\ rlost = 0
    BY <1>0
  <2>3. OpenQuestion => OpenQuestion'
    BY <1>0, <2>1 DEF OpenQuestion, Answering
  <2>4. NoQuestion => NoQuestion'
    BY <1>0 DEF NoQuestion
  <2> QED BY <1>0, <2>1, <2>2, <2>3, <2>4 DEF AnswerInv
<1>1. CASE UNCHANGED vars
  <2>1. /\ regs' = regs /\ call' = call /\ inbox' = inbox /\ awaited' = awaited
        /\ outbox' = outbox /\ i' = i /\ pc' = pc /\ answers' = answers
        /\ wlost' = wlost /\ rlost' = rlost
    BY <1>1 DEF vars, microVars, driverVars, histVars
  <2> QED BY <1>0, <2>1
<1>2. CASE TakeOperand
  <2>1. wlost = 0 /\ rlost = 0 /\ inbox # None /\ awaited # NoOperand
    BY <1>2, NoOperandIsNone DEF TakeOperand, histVars
  <2>2. pc # "read"
    BY <2>1 DEF AnswerInv, OpenQuestion, Answering
  <2>3. NoQuestion /\ ~(pc = "idle" /\ call.reads > 0)
    BY <2>1, <2>2 DEF AnswerInv
  <2> QED BY <1>2, <2>2, <2>3 DEF TakeOperand, NoQuestion, driverVars
<1>3. CASE TakeCommand
  <2>1. /\ wlost = 0 /\ rlost = 0 /\ inbox # None /\ awaited = NoOperand /\ inbox' = None
        /\ pc' = pc /\ call' = call /\ answers' = answers
    BY <1>3 DEF TakeCommand, driverVars, histVars
  <2>2. CASE pc = "read"
    <3>1. inbox = call.words[1] /\ outbox = <<>> /\ i = 1
      BY <2>1, <2>2 DEF AnswerInv, OpenQuestion, Answering
    <3> QED BY <1>3, <2>1, <2>2, <3>1, QuestionTaken DEF OpenQuestion
  <2>3. CASE pc # "read"
    <3>1. NoQuestion /\ ~(pc = "idle" /\ call.reads > 0)
      BY <2>1, <2>3 DEF AnswerInv
    <3>2. outbox' = outbox
      BY <1>3, <2>1, <3>1 DEF TakeCommand, NoQuestion
    <3> QED BY <2>1, <2>3, <3>1, <3>2 DEF NoQuestion
  <2> QED BY <2>2, <2>3
<1>14. CASE TakeOpaque
  BY <1>14, OpaqueAfterLoss DEF TakeOpaque, histVars
<1>4. CASE PutOut
  BY <1>0, <1>4 DEF PutOut, driverVars, histVars
<1>5. CASE Begin
  <2>1. NoQuestion /\ pc' = "write"
    BY <1>5 DEF Begin, AnswerInv, histVars
  <2> QED BY <1>5, <2>1 DEF Begin, NoQuestion, microVars
<1>6. CASE v1290_MicroWrite
  <2>1. /\ pc = "write" /\ inbox = None /\ inbox' = call.words[i] /\ wlost = 0 /\ rlost = 0
        /\ awaited' = awaited /\ outbox' = outbox /\ call' = call /\ NextWord
    BY <1>6 DEF v1290_MicroWrite, WR_OK
  <2>2. call \in MenuCalls /\ i \in 1..Len(call.words)
    BY <2>1 DEF CursorInv
  <2>3. CallOK(call) /\ call.reads \in 0..5 /\ Len(call.words) \in 1..2
    BY <2>2, MenuFacts
  <2>4. NoQuestion
    BY <2>1 DEF AnswerInv
  <2>5. CASE i < Len(call.words)
    <3>1. i = 1 /\ Len(call.words) = 2
      <4>1. \A n \in 1..2 : \A j \in 1..n : j < n => j = 1 /\ n = 2
        OBVIOUS
      <4> QED BY <2>2, <2>3, <2>5, <4>1
    <3>2. pc' = "write"
      BY <2>1, <2>5 DEF NextWord
    <3>3. PICK o \in Operands : o.op = call.words[1]
      BY <2>3, <3>1 DEF CallOK
    <3>4. ~IsQuestion(inbox')
      BY <2>1, <3>1, <3>3, OperandFacts, OperandNoQuestion DEF IsOperand
    <3> QED BY <2>1, <2>4, <3>2, <3>4 DEF NoQuestion
  <2>6. CASE ~(i < Len(call.words))
    <3>1. pc' = (IF call.reads > 0 THEN "read" ELSE "idle") /\ i' = 1
      BY <2>1, <2>6 DEF NextWord
    <3>2. CASE call.reads > 0
      <4>1. Len(call.words) = 1
        BY <2>3, <3>2 DEF CallOK
      <4>2. i = 1
        BY <2>2, <4>1
      <4>3. awaited = NoOperand
        BY <2>1, <4>2 DEF StepInv, Settled
      <4> QED BY <2>1, <2>4, <3>1, <3>2, <4>2, <4>3 DEF OpenQuestion, Answering, NoQuestion
    <3>3. CASE ~(call.reads > 0)
      <4>1. pc' = "idle" /\ call.reads = 0
        BY <2>3, <3>1, <3>3
      <4>2. CASE Len(call.words) = 2
        <5>1. i = 2
          BY <2>2, <2>6, <4>2
        <5>2. \A k \in 1..Len(call.words) : call.words[k] # None
          BY <2>2, MenuFacts, WordFacts
        <5>3. call.words[1] # None
          BY <4>2, <5>2
        <5>4. awaited' # NoOperand
          BY <2>1, <5>1, <5>3, NoOperandIsNone DEF StepInv, Halfway
        <5> QED BY <2>1, <2>4, <3>3, <4>1, <5>4 DEF NoQuestion
      <4>3. CASE Len(call.words) # 2
        <5>1. i = 1
          BY <2>2, <2>3, <4>3
        <5>2. ~IsQuestion(call.words[1])
          BY <2>3, <4>1, <4>3 DEF CallOK
        <5> QED BY <2>1, <2>4, <3>3, <4>1, <5>1, <5>2 DEF NoQuestion
      <4> QED BY <4>2, <4>3
    <3> QED BY <3>2, <3>3
  <2> QED BY <2>5, <2>6
<1>7. CASE WriteWait
  BY <1>7 DEF WriteWait, AnswerInv, NoQuestion, microVars, histVars
<1>8. CASE WriteGiveUp
  BY <1>8 DEF WriteGiveUp, CursorInv, TypeOK
<1>9. CASE v1290_MicroRead
  <2>1. pc = "read" /\ wlost = 0 /\ rlost = 0 /\ outbox # <<>>
    BY <1>9 DEF v1290_MicroRead, RD_OK, CursorInv, histVars
  <2>2. Answering
    BY <2>1 DEF AnswerInv, OpenQuestion
  <2> QED BY <1>9, <2>2, AnswerRead DEF OpenQuestion, NoQuestion
<1>10. CASE ReadWait
  BY <1>0, <1>10 DEF ReadWait, microVars, histVars
<1>11. CASE ReadGiveUp \/ AnswerMisread
  BY <1>11 DEF ReadGiveUp, AnswerMisread, CursorInv, TypeOK
<1>12. CASE HandshakeMisread
  BY <1>0, <1>12 DEF HandshakeMisread, microVars, histVars
<1>13. CASE WordLost
  BY <1>13 DEF WordLost, CursorInv, TypeOK
<1> QED BY <1>1, <1>2, <1>3, <1>4, <1>5, <1>6, <1>7, <1>8, <1>9, <1>10, <1>11,
           <1>12, <1>13, <1>14
        DEF Next, Micro, Driver, Fault

-----------------------------------------------------------------------------
(***************************************************************************)
(* What a lost word does to a harmless client.                             *)
(***************************************************************************)

\* The last word of a call wants no operand, and neither does it ask, unless
\* the call reads answers.  No word of it is opaque.
LEMMA LastWord ==
  ASSUME NEW c \in MenuCalls, NEW m, Harmless(m), c \in CallsOf(m)
  PROVE  /\ ~IsOperand(c.words[Len(c.words)])
         /\ c.reads > 0 => Len(c.words) = 1
         /\ c.reads = 0 => ~IsQuestion(c.words[Len(c.words)])
         /\ \A k \in 1..Len(c.words) : ~IsOpaque(c.words[k])
<1>1. CallOK(c) /\ c.reads \in 0..5
  BY MenuFacts
<1>2. CASE Len(c.words) = 2
  <2>1. PICK o \in Operands : o.op = c.words[1]
    BY <1>1, <1>2 DEF CallOK
  <2>2. ~IsOpaque(c.words[1])
    BY <2>1, OperandFacts, KnownCommand DEF IsOperand
  <2>3. \A k \in 1..Len(c.words) : k = 1 \/ k = 2
    BY <1>2
  <2> QED BY <1>1, <1>2, <2>2, <2>3 DEF CallOK, Harmless
<1>3. CASE Len(c.words) # 2
  BY <1>1, <1>3 DEF CallOK
<1> QED BY <1>2, <1>3

\* A call in progress is one of the client's.
LEMMA CallOfMenu ==
  ASSUME TypeOK, CursorInv, pc # "idle"
  PROVE  call \in CallsOf(menu) /\ call \in MenuCalls /\ calls \in 1..Len(menu)
<1>1. calls > 0 /\ call \in menu[calls] /\ call \in MenuCalls
  BY DEF CursorInv
<1>2. calls \in 0..Len(menu) /\ Len(menu) \in Nat
  BY MicroAssumption DEF TypeOK
<1>3. calls \in 1..Len(menu)
  BY <1>1, <1>2
<1> QED BY <1>1, <1>3 DEF CallsOf

\* The word written last, by a step that goes on to the answers or back to
\* the caller, is the last of the call.
LEMMA LastWritten ==
  ASSUME TypeOK, CursorInv, pc = "write", NextWord, pc' # "write"
  PROVE  /\ i = Len(call.words)
         /\ i' = 1
         /\ pc' = IF call.reads > 0 THEN "read" ELSE "idle"
         /\ wanted' = WantedAfter(wanted, call)
<1>1. Len(call.words) \in 1..2 /\ i \in 1..Len(call.words)
  BY CallOfMenu, MenuFacts DEF CursorInv
<1>2. ~(i < Len(call.words))
  BY DEF NextWord
<1> QED BY <1>1, <1>2 DEF NextWord

\* A harmless client sends nothing opaque, and a call of it that has lost no
\* word leaves the micro controller in step, whatever words were lost before.
LEMMA InStepStep ==
  ASSUME TypeOK, CursorInv, InStepInv, [Next]_vars
  PROVE  InStepInv'
<1> DEFINE LastTold ==
             wlost < calls /\ pc # "write" =>
               IF inbox = None THEN awaited = NoOperand ELSE ~IsOperand(inbox)
<1> SUFFICES ASSUME Harmless(menu')
             PROVE  /\ awaited' # Unknown
                    /\ inbox' # None => ~IsOpaque(inbox')
                    /\ LastTold'
  BY DEF InStepInv, Harmless
<1>0. awaited # Unknown /\ (inbox # None => ~IsOpaque(inbox)) /\ LastTold /\ menu' = menu
  <2>1. menu' = menu
    BY DEF Next, Micro, Driver, Fault, TakeOperand, TakeCommand, TakeOpaque, PutOut,
           Begin, v1290_MicroWrite, WriteWait, WriteGiveUp, v1290_MicroRead, ReadWait,
           ReadGiveUp, HandshakeMisread, WordLost, AnswerMisread, vars, driverVars
  <2> QED BY <2>1 DEF InStepInv
<1>1. CASE UNCHANGED <<inbox, awaited, wlost, calls, pc>>
  BY <1>0, <1>1
<1>2. CASE TakeOperand
  BY <1>2, NoOperandIsNone DEF TakeOperand
<1>3. CASE TakeCommand
  <2>1. inbox # None /\ inbox' = None /\ UNCHANGED <<wlost, calls, pc>>
    BY <1>3 DEF TakeCommand, driverVars, histVars
  <2>2. awaited' \in Operands \cup {NoOperand} /\ (~IsOperand(inbox) => awaited' = NoOperand)
    BY <1>3 DEF TakeCommand
  <2> QED BY <1>0, <2>1, <2>2, NoOperandIsNone
<1>4. CASE TakeOpaque
  BY <1>0, <1>4 DEF TakeOpaque
<1>5. CASE Begin
  BY <1>0, <1>5 DEF Begin, microVars
<1>6. CASE v1290_MicroWrite \/ WriteGiveUp \/ WordLost
  <2>1. /\ pc = "write" /\ NextWord /\ call' = call /\ awaited' = awaited
        /\ inbox' = inbox \/ inbox' = call.words[i]
    BY <1>6 DEF v1290_MicroWrite, WriteGiveUp, WordLost, microVars
  <2>2. i \in 1..Len(call.words) /\ call \in MenuCalls /\ call \in CallsOf(menu)
    BY <2>1, CallOfMenu DEF CursorInv
  <2>3. ~IsOpaque(call.words[i])
    BY <1>0, <2>2, LastWord
  <2>4. CASE v1290_MicroWrite
    <3>1. inbox' = call.words[i] /\ inbox' # None
      BY <2>2, <2>4, MenuFacts, WordFacts DEF v1290_MicroWrite
    <3>2. pc' # "write" => ~IsOperand(inbox')
      BY <1>0, <2>1, <2>2, <3>1, LastWritten, LastWord
    <3> QED BY <1>0, <2>1, <2>3, <3>1, <3>2
  <2>5. CASE WriteGiveUp \/ WordLost
    <3>1. ~(wlost' < calls')
      BY <2>5 DEF WriteGiveUp, WordLost, TypeOK
    <3> QED BY <1>0, <2>1, <2>3, <3>1
  <2> QED BY <1>6, <2>4, <2>5
<1>7. CASE ReadGiveUp \/ v1290_MicroRead \/ AnswerMisread
  <2>1. UNCHANGED <<inbox, awaited, wlost, calls>> /\ pc = "read"
    BY <1>7 DEF ReadGiveUp, v1290_MicroRead, AnswerMisread, microVars, histVars
  <2> QED BY <1>0, <2>1
<1> HIDE DEF LastTold
<1> QED BY <1>1, <1>2, <1>3, <1>4, <1>5, <1>6, <1>7
        DEF Next, Micro, Driver, Fault, PutOut, WriteWait, ReadWait,
            HandshakeMisread, vars, microVars, driverVars, histVars

\* No step makes a harmless client read an answer to another question than
\* its own, unless a v1290_MicroRead gives up or an access of it fails.
LEMMA HonestStep ==
  ASSUME TypeOK, CursorInv, InStepInv, HonestInv, [Next]_vars
  PROVE  HonestInv'
<1> DEFINE Asking == inbox = call.words[1] /\ outbox = <<>> /\ i = 1
<1> SUFFICES ASSUME Harmless(menu'), rlost' = 0
             PROVE  /\ pc' = "read" => Asking' \/ Answering' \/ Unanswered'
                    /\ pc' # "read" => Unanswered'
                    /\ pc' = "idle" /\ call'.reads > 0 =>
                         inbox' = None /\ answers' = Told(call)'
  BY DEF HonestInv, Harmless
<1>1. CASE UNCHANGED <<inbox, outbox, regs, menu, pc, call, i, answers, rlost>>
  <2>1. Told(call)' = Told(call)
    BY <1>1 DEF Told
  <2> QED BY <1>1, <2>1 DEF HonestInv, Answering, Unanswered
<1>2. CASE TakeOperand
  <2>1. /\ inbox # None /\ inbox' = None
        /\ UNCHANGED <<outbox, menu, pc, call, i, answers, rlost>>
    BY <1>2 DEF TakeOperand, driverVars, histVars
  <2> QED BY <2>1 DEF HonestInv, Answering, Unanswered
<1>3. CASE TakeCommand
  <2>1. /\ inbox # None /\ inbox' = None
        /\ UNCHANGED <<menu, pc, call, i, answers, rlost>>
    BY <1>3 DEF TakeCommand, driverVars, histVars
  <2>2. CASE pc = "read" /\ Asking
    BY <1>3, <2>1, <2>2, QuestionTaken
  <2>3. CASE Unanswered
    <3>1. outbox' = <<>>
      BY <1>3, <2>1, <2>3 DEF TakeCommand, Unanswered
    <3> QED BY <2>1, <2>3, <3>1 DEF HonestInv, Answering, Unanswered
  <2> QED BY <2>1, <2>2, <2>3 DEF HonestInv, Answering
<1>10. CASE TakeOpaque
  BY <1>10 DEF TakeOpaque, InStepInv, driverVars
<1>4. CASE Begin
  <2>1. pc = "idle" /\ pc' = "write" /\ UNCHANGED <<inbox, outbox, menu, rlost>>
    BY <1>4 DEF Begin, microVars, histVars
  <2> QED BY <2>1 DEF HonestInv, Unanswered
<1>5. CASE v1290_MicroWrite \/ (WordLost /\ inbox' = call.words[i])
  <2>1. /\ pc = "write" /\ NextWord /\ inbox' = call.words[i]
        /\ UNCHANGED <<outbox, menu, call, rlost>>
    BY <1>5 DEF v1290_MicroWrite, WordLost
  <2>2. outbox' = <<>>
    BY <2>1 DEF HonestInv, Unanswered
  <2>3. call \in MenuCalls /\ call \in CallsOf(menu)
    BY <2>1, CallOfMenu
  <2>4. /\ i \in 1..Len(call.words) /\ Len(call.words) \in 1..2
        /\ CallOK(call) /\ call.reads \in 0..5
    BY <2>1, <2>3, MenuFacts DEF CursorInv
  <2>5. CASE pc' = "write"
    <3>1. i < Len(call.words)
      BY <2>1, <2>5 DEF NextWord
    <3>2. i = 1 /\ Len(call.words) = 2
      <4>1. \A m \in 1..2 : \A k \in 1..m : k < m => k = 1 /\ m = 2
        OBVIOUS
      <4> QED BY <2>4, <3>1, <4>1
    <3>3. PICK o \in Operands : o.op = call.words[1]
      BY <2>4, <3>2 DEF CallOK
    <3>4. IsOperand(call.words[1])
      BY <3>3, OperandFacts DEF IsOperand
    <3>5. ~IsQuestion(inbox')
      BY <2>1, <3>2, <3>4, OperandNoQuestion
    <3> QED BY <2>2, <2>5, <3>5 DEF Unanswered
  <2>6. CASE pc' # "write"
    <3>1. /\ i = Len(call.words) /\ i' = 1
          /\ pc' = IF call.reads > 0 THEN "read" ELSE "idle"
      BY <2>1, <2>6, LastWritten
    <3>2. CASE call.reads > 0
      <4>1. Len(call.words) = 1
        BY <2>1, <2>3, <3>2, LastWord
      <4> QED BY <2>1, <2>2, <3>1, <3>2, <4>1
    <3>3. CASE ~(call.reads > 0)
      <4>1. call.reads = 0
        BY <2>4, <3>3
      <4>2. ~IsQuestion(inbox')
        BY <2>1, <2>3, <3>1, <4>1, LastWord
      <4> QED BY <2>1, <2>2, <3>1, <3>3, <4>2 DEF Unanswered
    <3> QED BY <3>2, <3>3
  <2> QED BY <2>5, <2>6
<1>6. CASE WriteGiveUp \/ (WordLost /\ inbox' = inbox)
  <2>1. pc = "write" /\ NextWord /\ UNCHANGED <<inbox, outbox, menu, call, rlost>>
    BY <1>6 DEF WriteGiveUp, WordLost, microVars
  <2>2. Unanswered'
    BY <2>1 DEF HonestInv, Unanswered
  <2>3. pc' = "idle" => ~(call'.reads > 0)
    BY <2>1, LastWritten
  <2> QED BY <2>2, <2>3
<1>7. CASE v1290_MicroRead
  <2>1. pc = "read" /\ outbox # <<>> /\ UNCHANGED <<menu, rlost>>
    BY <1>7 DEF v1290_MicroRead, RD_OK, CursorInv, histVars
  <2>2. Answering
    BY <2>1 DEF HonestInv, Unanswered
  <2> QED BY <1>7, <2>2, AnswerRead DEF Unanswered
<1>8. CASE ReadGiveUp \/ AnswerMisread
  BY <1>8 DEF ReadGiveUp, AnswerMisread, CursorInv, TypeOK
<1>9. WordLost => inbox' = inbox \/ inbox' = call.words[i]
  BY DEF WordLost
<1> HIDE DEF Asking
<1> QED BY <1>1, <1>2, <1>3, <1>4, <1>5, <1>6, <1>7, <1>8, <1>9, <1>10
        DEF Next, Micro, Driver, Fault, PutOut, WriteWait, ReadWait, HandshakeMisread,
            vars, microVars, driverVars, histVars

-----------------------------------------------------------------------------
(***************************************************************************)
(* The set-up of frontend_init.                                            *)
(***************************************************************************)

\* An opcode that sets something by itself sets just that.
LEMMA DirectSets ==
  ASSUME NEW d \in Directs, NEW r
  PROVE  AfterCommand(r, d.op) = [r EXCEPT ![d.reg] = d.value]
<1>1. Command(d.op) = d.op
  <2>1. d.op \in {\h0000, \h0100, \h1400, \h1500, \h3000, \h3100, \h3500, \h3600,
                  \h3700, \h3800, \h4200, \h4300}
    BY DEF Directs, Direct
  <2> QED BY <2>1 DEF Command
<1>2. \A e \in Directs : e.op = d.op => e = d
  BY DEF Directs, Direct
<1>3. (CHOOSE e \in Directs : e.op = d.op) = d
  BY <1>2
<1>4. \E e \in Directs : e.op = Command(d.op)
  BY <1>1
<1>5. (CHOOSE e \in Directs : e.op = Command(d.op)) = d
  BY <1>1, <1>3
<1> DEFINE chosen == CHOOSE e \in Directs : e.op = Command(d.op)
<1>6. AfterCommand(r, d.op) = [r EXCEPT ![chosen.reg] = chosen.value]
  BY <1>4 DEF AfterCommand
<1>7. chosen = d
  BY <1>5
<1> HIDE DEF chosen
<1> QED BY <1>6, <1>7

\* So does a call of one such opcode, and a call of an opcode and its operand.
LEMMA WantedDirect ==
  ASSUME NEW d \in Directs, NEW c, c.words = <<d.op>>, NEW r
  PROVE  WantedAfter(r, c) = [r EXCEPT ![d.reg] = d.value]
<1>1. Len(c.words) # 2 /\ c.words[1] = d.op
  OBVIOUS
<1> QED BY <1>1, DirectSets DEF WantedAfter

LEMMA WantedOperand ==
  ASSUME NEW o \in Operands, NEW w, NEW c, c.words = <<o.op, w>>, NEW r
  PROVE  WantedAfter(r, c) = [r EXCEPT ![o.reg] = w % o.mod]
<1>1. Len(c.words) = 2 /\ c.words[1] = o.op /\ c.words[2] = w
  OBVIOUS
<1>2. (CHOOSE p \in Operands : p.op = o.op) = o
  BY ChosenOperand
<1> QED BY <1>1, <1>2 DEF WantedAfter, AfterOperand

\* The words of the set-up's two window settings: 20 us are 800 clock ticks,
\* and -20 us are -800 of them.
LEMMA WindowWords ==
  /\ v1290_SetWindowWidth(20000).words = <<\h1000, 800>>
  /\ v1290_SetWindowOffset(-20000).words = <<\h1100, UInt16(-800)>>
<1>1. Int16(20000) = 20000 /\ Int16(-20000) = -20000
  BY DEF Int16, UInt16, WordSize
<1>2. CDiv(20000, 25) = 800 /\ CDiv(-20000, 25) = -800
  BY DEF CDiv
<1>3. UInt16(800) = 800
  BY DEF UInt16, WordSize
<1> QED BY <1>1, <1>2, <1>3
        DEF v1290_SetWindowWidth, v1290_SetWindowOffset, v1290_WriteMicro, OneWord

\* The answers of the set-up's reads change nothing.
LEMMA ReadSetsNothing ==
  ASSUME NEW q \in Questions, NEW c, c.words = <<q.op>>, NEW r
  PROVE  WantedAfter(r, c) = r
<1>1. IsQuestion(q.op)
  BY QuestionFacts DEF IsQuestion
<1>2. AfterCommand(r, q.op) = r
  BY <1>1, NoSetting
<1> QED BY <1>2 DEF WantedAfter

\* Each call of the set-up sets what it asks for and leaves alone what those
\* before it have asked for.
LEMMA SetupCall ==
  ASSUME NEW n \in 1..9, NEW c \in FrontendSetup[n], NEW r \in [Regs -> Word],
         NEW a \in SetupAsks
  PROVE  /\ a.by = n => WantedAfter(r, c)[a.reg] = a.value
         /\ a.by < n => WantedAfter(r, c)[a.reg] = r[a.reg]
<1>1. /\ a.reg \in Regs
      /\ a.by \in 1..8
      /\ a.by = 1 => a.reg = "edge" /\ a.value = 1
      /\ a.by = 5 => a.reg = "mode" /\ a.value = 1
      /\ a.by = 6 => a.reg = "width" /\ a.value = 800
      /\ a.by = 7 => a.reg = "offset" /\ a.value = UInt16(-800)
      /\ a.by = 8 => a.reg = "sub" /\ a.value = 1
      /\ a.by \in {1, 5, 6, 7, 8}
  BY DEF SetupAsks, Regs
<1>2. CASE n = 1
  <2>1. c.words = <<\h2200, 1>>
    BY <1>2 DEF FrontendSetup, v1290_SetEdgeDetection, v1290_WriteMicro, OneWord
  <2>2. PICK o \in Operands : o.op = \h2200 /\ o.reg = "edge" /\ o.mod = 4
    BY DEF Operands, Operand
  <2>3. WantedAfter(r, c) = [r EXCEPT !["edge"] = 1]
    BY <2>1, <2>2, WantedOperand
  <2> QED BY <1>1, <1>2, <2>3
<1>3. CASE n \in {2, 3, 4, 9}
  <2>1. PICK q \in Questions : c.words = <<q.op>>
    BY <1>3 DEF FrontendSetup, v1290_ReadEdgeDetection, v1290_ReadEdgeResolution,
                v1290_ReadDeadtime, v1290_AcqModeRead, v1290_ReadMicro, OneWord,
                Questions, Question
  <2>2. WantedAfter(r, c) = r
    BY <2>1, ReadSetsNothing
  <2> QED BY <1>1, <1>3, <2>2
<1>4. CASE n = 5
  <2>1. c.words = <<\h0000>>
    BY <1>4 DEF FrontendSetup, v1290_TriggerMatchingSet, OneWord
  <2>2. PICK d \in Directs : d.op = \h0000 /\ d.reg = "mode" /\ d.value = 1
    BY DEF Directs, Direct
  <2>3. WantedAfter(r, c) = [r EXCEPT !["mode"] = 1]
    BY <2>1, <2>2, WantedDirect
  <2> QED BY <1>1, <1>4, <2>3
<1>5. CASE n = 6
  <2>1. c.words = <<\h1000, 800>>
    BY <1>5, WindowWords DEF FrontendSetup
  <2>2. PICK o \in Operands : o.op = \h1000 /\ o.reg = "width" /\ o.mod = 65536
    BY DEF Operands, Operand, WordSize
  <2>3. WantedAfter(r, c) = [r EXCEPT !["width"] = 800]
    BY <2>1, <2>2, WantedOperand
  <2> QED BY <1>1, <1>5, <2>3
<1>6. CASE n = 7
  <2>1. c.words = <<\h1100, UInt16(-800)>>
    BY <1>6, WindowWords DEF FrontendSetup
  <2>2. PICK o \in Operands : o.op = \h1100 /\ o.reg = "offset" /\ o.mod = 65536
    BY DEF Operands, Operand, WordSize
  <2>3. UInt16(-800) % 65536 = UInt16(-800)
    BY DEF UInt16, WordSize
  <2>4. WantedAfter(r, c) = [r EXCEPT !["offset"] = UInt16(-800)]
    BY <2>1, <2>2, <2>3, WantedOperand
  <2> QED BY <1>1, <1>6, <2>4
<1>7. CASE n = 8
  <2>1. c.words = <<\h1400>>
    BY <1>7 DEF FrontendSetup, v1290_EnableTriggerSubtraction, OneWord
  <2>2. PICK d \in Directs : d.op = \h1400 /\ d.reg = "sub" /\ d.value = 1
    BY DEF Directs, Direct
  <2>3. WantedAfter(r, c) = [r EXCEPT !["sub"] = 1]
    BY <2>1, <2>2, WantedDirect
  <2> QED BY <1>1, <1>7, <2>3
<1> QED BY <1>2, <1>3, <1>4, <1>5, <1>6, <1>7

\* What the set-up has asked for stays asked for.
LEMMA SetupStep ==
  ASSUME TypeOK, CursorInv, SetupInv, [Next]_vars
  PROVE  SetupInv'
<1> SUFFICES ASSUME menu' = FrontendSetup, NEW a \in SetupAsks,
                    a.by < calls' \/ (a.by = calls' /\ pc' # "write")
             PROVE  wanted'[a.reg] = a.value
  BY DEF SetupInv, SetupAsks
<1>0. a.by \in Nat /\ calls \in Nat
  <2>1. a.by \in {1, 5, 6, 7, 8}
    BY DEF SetupAsks
  <2> QED BY <2>1, MicroAssumption DEF TypeOK
<1>1. CASE UNCHANGED <<menu, calls, wanted>> /\ (pc' # "write" => pc # "write")
  BY <1>1 DEF SetupInv
<1>2. CASE Begin
  <2>1. pc = "idle" /\ calls' = calls + 1 /\ pc' = "write" /\ UNCHANGED <<menu, wanted>>
    BY <1>2 DEF Begin, histVars
  <2> QED BY <1>0, <2>1 DEF SetupInv
<1>3. CASE v1290_MicroWrite \/ WriteGiveUp \/ WordLost
  <2>1. pc = "write" /\ NextWord /\ UNCHANGED <<menu, calls, call>>
    BY <1>3 DEF v1290_MicroWrite, WriteGiveUp, WordLost
  <2>2. CASE pc' = "write"
    BY <1>1, <2>1, <2>2 DEF NextWord
  <2>3. CASE pc' # "write"
    <3>1. wanted' = WantedAfter(wanted, call)
      BY <2>1, <2>3, LastWritten
    <3>2. calls \in 1..9 /\ call \in FrontendSetup[calls]
      <4>1. calls \in 1..Len(menu) /\ call \in menu[calls]
        BY <2>1, CallOfMenu DEF CursorInv
      <4>2. Len(FrontendSetup) = 9
        BY DEF FrontendSetup
      <4> QED BY <2>1, <4>1, <4>2
    <3>3. wanted \in [Regs -> Word]
      BY DEF TypeOK
    <3>4. CASE a.by = calls
      BY <3>1, <3>2, <3>3, <3>4, SetupCall
    <3>5. CASE a.by < calls
      <4>1. wanted[a.reg] = a.value
        BY <2>1, <3>5 DEF SetupInv
      <4> QED BY <3>1, <3>2, <3>3, <3>5, <4>1, SetupCall
    <3> QED BY <2>1, <3>4, <3>5
  <2> QED BY <2>2, <2>3
<1> QED BY <1>1, <1>2, <1>3
        DEF Next, Micro, Driver, Fault, TakeOperand, TakeCommand, TakeOpaque, PutOut,
            WriteWait, ReadWait, v1290_MicroRead, NextAnswer, ReadGiveUp, HandshakeMisread,
            AnswerMisread, vars, microVars, driverVars, histVars

-----------------------------------------------------------------------------
(***************************************************************************)
(* The calls of v1290.h, whatever their arguments: they keep to CallOK,    *)
(* and the windows they ask for.                                           *)
(***************************************************************************)

\* A call of one opcode that wants no operand, asks nothing and loads nothing.
LEMMA OneWordOK ==
  ASSUME NEW op \in Word, ~IsOperand(op), ~IsQuestion(op), ~IsLoad(op), ~IsOpaque(op)
  PROVE  OneWord(op) \in Calls /\ CallOK(OneWord(op))
<1>1. OneWord(op).words = <<op>> /\ OneWord(op).reads = 0
  BY DEF OneWord
<1>2. CallOK(OneWord(op))
  BY <1>1 DEF CallOK
<1>3. 0 \in Word /\ 1 \in 1..WordSize
  BY WordFacts, InWord
<1> QED BY <1>2, <1>3 DEF OneWord, Calls

\* A call of an opcode and the operand it wants.
LEMMA WriteMicroOK ==
  ASSUME NEW o \in Operands, NEW data \in Word
  PROVE  v1290_WriteMicro(o.op, data) \in Calls /\ CallOK(v1290_WriteMicro(o.op, data))
<1>1. o.op \in Word
  BY OperandFacts
<1>2. v1290_WriteMicro(o.op, data) =
        [words |-> <<o.op, data>>, reads |-> 0, mod |-> 1, max |-> 0]
  BY DEF v1290_WriteMicro, OneWord
<1>3. CallOK(v1290_WriteMicro(o.op, data))
  BY <1>2 DEF CallOK
<1>4. 0 \in Word /\ 1 \in 1..WordSize
  BY WordFacts, InWord
<1> QED BY <1>1, <1>2, <1>3, <1>4 DEF Calls

\* A call that asks for one setting.
LEMMA ReadMicroOK ==
  ASSUME NEW q \in Questions, Len(q.regs) = 1, NEW mod \in 1..WordSize, NEW max \in Word
  PROVE  v1290_ReadMicro(q.op, mod, max) \in Calls /\ CallOK(v1290_ReadMicro(q.op, mod, max))
<1> DEFINE c == v1290_ReadMicro(q.op, mod, max)
<1>1. c.words = <<q.op>> /\ c.reads = 1
  BY DEF v1290_ReadMicro
<1>2. IsQuestion(q.op) /\ q.op \in Word
  BY QuestionFacts DEF IsQuestion
<1>3. ~IsOperand(q.op) /\ ~IsLoad(q.op) /\ ~IsOpaque(q.op)
  BY <1>2, OperandNoQuestion, KnownCommand
<1>4. CallOK(c)
  <2> HIDE DEF c
  <2> QED BY <1>1, <1>3 DEF CallOK
<1> QED BY <1>2, <1>4 DEF v1290_ReadMicro, Calls

\* What the two window settings set.
LEMMA WindowSet ==
  ASSUME NEW r \in [Regs -> Word]
  PROVE  \A x : /\ WantedAfter(r, v1290_WriteMicro(\h1000, x))["width"] = x % 65536
                /\ WantedAfter(r, v1290_WriteMicro(\h1100, x))["offset"] = x % 65536
<1> SUFFICES ASSUME NEW x
             PROVE  /\ WantedAfter(r, v1290_WriteMicro(\h1000, x))["width"] = x % 65536
                    /\ WantedAfter(r, v1290_WriteMicro(\h1100, x))["offset"] = x % 65536
  OBVIOUS
<1>1. \A op : v1290_WriteMicro(op, x).words = <<op, x>>
  BY DEF v1290_WriteMicro, OneWord
<1>2. PICK o \in Operands : o.op = \h1000 /\ o.reg = "width" /\ o.mod = 65536
  BY DEF Operands, Operand, WordSize
<1>3. PICK p \in Operands : p.op = \h1100 /\ p.reg = "offset" /\ p.mod = 65536
  BY DEF Operands, Operand, WordSize
<1>4. WantedAfter(r, v1290_WriteMicro(\h1000, x)) = [r EXCEPT !["width"] = x % 65536]
  BY <1>1, <1>2, WantedOperand
<1>5. WantedAfter(r, v1290_WriteMicro(\h1100, x)) = [r EXCEPT !["offset"] = x % 65536]
  BY <1>1, <1>3, WantedOperand
<1>6. "width" \in Regs /\ "offset" \in Regs
  BY DEF Regs
<1> QED BY <1>4, <1>5, <1>6

\* The opcodes that set something by themselves want no operand, ask nothing
\* and load nothing.
LEMMA PlainOpcodes ==
  \A op \in {\h0000, \h0100, \h1400, \h1500, \h3000, \h3100, \h3500, \h3600,
             \h3700, \h3800, \h4000, \h4100, \h4200, \h4300} :
    /\ op \in Word
    /\ ~IsOperand(op) /\ ~IsQuestion(op) /\ ~IsLoad(op) /\ ~IsOpaque(op)
<1> SUFFICES ASSUME NEW op \in {\h0000, \h0100, \h1400, \h1500, \h3000, \h3100,
                                \h3500, \h3600, \h3700, \h3800, \h4000, \h4100,
                                \h4200, \h4300}
             PROVE  /\ op \in Word
                    /\ ~IsOperand(op) /\ ~IsQuestion(op) /\ ~IsLoad(op) /\ ~IsOpaque(op)
  OBVIOUS
<1>1. op \in Word
  BY InWord
<1>2. Command(op) = op
  BY DEF Command
<1>3. ~IsOperand(op)
  BY <1>2 DEF IsOperand, Operands, Operand
<1>4. ~IsQuestion(op)
  BY <1>2 DEF IsQuestion, Questions, Question
<1>5. ~IsLoad(op) /\ ~IsOpaque(op)
  BY <1>2 DEF IsLoad, IsOpaque, Loads, Opaque
<1> QED BY <1>1, <1>3, <1>4, <1>5

\* Sixteen bits of a number are a word, and so is a 25th of them.
LEMMA WordOfInt ==
  ASSUME NEW x \in Int
  PROVE  UInt16(x) \in Word /\ UInt16(x) \div 25 \in Word
<1>1. UInt16(x) \in Int /\ 0 <= UInt16(x) /\ UInt16(x) < 65536
  BY SMT DEF UInt16, WordSize
<1>2. ASSUME NEW y \in Int, 0 <= y, y < 65536
      PROVE  y \div 25 \in Int /\ 0 <= y \div 25 /\ y \div 25 < 65536
  BY <1>2, SMT
<1> QED BY <1>1, <1>2, InWord, SMT

\* What the division of C does: it keeps the sign and truncates.
LEMMA TickOf ==
  ASSUME NEW x \in Int
  PROVE  LET t == CDiv(x, 25)
         IN  /\ t \in Int
             /\ x >= 0 => 0 <= t /\ t * 25 <= x /\ x < (t + 1) * 25
             /\ x < 0 => t <= 0 /\ t * 25 >= x /\ x > (t - 1) * 25
<1>1. ASSUME NEW y \in Int, 0 <= y
      PROVE  /\ y \div 25 \in Int /\ 0 <= y \div 25
             /\ (y \div 25) * 25 <= y /\ y < (y \div 25 + 1) * 25
  BY <1>1, SMT
<1>2. CASE x >= 0
  BY <1>1, <1>2 DEF CDiv
<1>3. CASE x < 0
  <2>1. -x \in Int /\ 0 <= -x
    BY <1>3
  <2>2. CDiv(x, 25) = -((-x) \div 25)
    BY <1>3 DEF CDiv
  <2> QED BY <1>1, <1>3, <2>1, <2>2
<1> QED BY <1>2, <1>3

\* What the casts to 16 bits leave alone, and what the signed one gets back.
LEMMA Int16Kept ==
  ASSUME NEW x \in Int, -32768 <= x, x < 32768
  PROVE  Int16(x) = x
  BY SMT DEF Int16, UInt16, WordSize

\* The unsigned cast keeps what 16 bits hold.
LEMMA UInt16Kept ==
  ASSUME NEW x \in Int, 0 <= x, x < 65536
  PROVE  UInt16(x) % 65536 = x
  BY SMT DEF UInt16, WordSize

\* The operand, read as a signed number, is what has been put into it.
LEMMA Int16Back ==
  ASSUME NEW x \in Int, -32768 <= x, x < 32768
  PROVE  Int16(UInt16(x) % 65536) = x
  BY SMT DEF Int16, UInt16, WordSize

\* The casts of the window settings give numbers.
LEMMA WindowOperand ==
  ASSUME NEW x \in Int
  PROVE  Int16(x) \in Int /\ CDiv(Int16(x), 25) \in Int
<1>1. Int16(x) \in Int
  BY SMT DEF Int16, UInt16, WordSize
<1> QED BY <1>1, SMT DEF CDiv

Signed32 == { x \in Int : -2147483648 <= x /\ x <= 2147483647 }
Unsigned32 == { x \in Int : 0 <= x /\ x <= 4294967295 }

PlainCalls ==
  { v1290_TriggerMatchingSet, v1290_ContinuosSet, v1290_EnableAllChannels,
    v1290_DisableAllChannels }

ReadCalls ==
  { v1290_AcqModeRead, v1290_ReadEdgeDetection, v1290_ReadEdgeResolution,
    v1290_ReadDeadtime, v1290_HeaderIsEnabled, v1290_ReadMaxHits,
    v1290_ReadFIFOSize, v1290_ReadEnablePattern }

SettingCalls(w) ==
  { v1290_SetEdgeDetection(w), v1290_SetEdgeResolution(w), v1290_SetDeadtime(w),
    v1290_SetMaxHits(w), v1290_SetFIFOSize(w), v1290_WriteEnablePattern(w) }

SwitchCalls(en) ==
  { v1290_EnableTriggerSubtraction(en), v1290_EnableHeader(en),
    v1290_EnableTDCErrorMark(en), v1290_EnableBypassTDC(en) }

\* Every call v1290.h declares, with every argument its type admits.
DriverCalls ==
  PlainCalls \cup ReadCalls \cup { v1290_TriggerConfRead }
  \cup { v1290_SetWindowWidth(width) : width \in Unsigned32 }
  \cup { v1290_SetWindowOffset(offset) : offset \in Signed32 }
  \cup { v1290_SetExtraMargin(margin) : margin \in Unsigned32 }
  \cup { v1290_SetRejectMargin(margin) : margin \in Unsigned32 }
  \cup (UNION { SettingCalls(w) : w \in Word })
  \cup (UNION { SwitchCalls(en) : en \in BOOLEAN })
  \cup { v1290_EnableChannel(chn, en) : chn \in Word, en \in BOOLEAN }

\* Every call v1290.h offers, with any argument, writes an opcode with the
\* operand it wants or without one, and reads out what it asks.  So what is
\* assumed of the clients holds of all that make these calls, in any order.
THEOREM DriverCallsOK == \A c \in DriverCalls : c \in Calls /\ CallOK(c)
<1> SUFFICES ASSUME NEW c \in DriverCalls PROVE c \in Calls /\ CallOK(c)
  OBVIOUS
<1>1. \/ c \in PlainCalls
      \/ c \in ReadCalls
      \/ c = v1290_TriggerConfRead
      \/ \E x \in Int : \/ c = v1290_SetWindowWidth(x)
                        \/ c = v1290_SetWindowOffset(x)
                        \/ c = v1290_SetExtraMargin(x)
                        \/ c = v1290_SetRejectMargin(x)
      \/ \E w \in Word : c \in SettingCalls(w)
      \/ \E en \in BOOLEAN : c \in SwitchCalls(en)
      \/ \E chn \in Word, en \in BOOLEAN : c = v1290_EnableChannel(chn, en)
  <2>1. Signed32 \subseteq Int /\ Unsigned32 \subseteq Int
    BY DEF Signed32, Unsigned32
  <2> QED BY <2>1 DEF DriverCalls
<1>2. CASE c \in PlainCalls
  BY <1>2, PlainOpcodes, OneWordOK
  DEF PlainCalls, v1290_TriggerMatchingSet, v1290_ContinuosSet, v1290_EnableAllChannels,
      v1290_DisableAllChannels
<1>3. CASE c \in ReadCalls
  <2>1. PICK op \in {\h0200, \h2300, \h2600, \h2900, \h3200, \h3400, \h3C00, \h4500},
             mod \in {2, 8, 16, WordSize}, max \in {1, 3, 7, 15, 65535} :
          c = v1290_ReadMicro(op, mod, max)
    BY <1>3 DEF ReadCalls, v1290_AcqModeRead, v1290_ReadEdgeDetection,
                v1290_ReadEdgeResolution,
                v1290_ReadDeadtime, v1290_HeaderIsEnabled, v1290_ReadMaxHits,
                v1290_ReadFIFOSize, v1290_ReadEnablePattern
  <2>2. PICK q \in Questions : q.op = op /\ Len(q.regs) = 1
    BY DEF Questions, Question
  <2>3. mod \in 1..WordSize
    BY DEF WordSize
  <2>4. max \in Word
    BY InWord
  <2> QED BY <2>1, <2>2, <2>3, <2>4, ReadMicroOK
<1>4. CASE c = v1290_TriggerConfRead
  <2>1. c.words = <<\h1600>> /\ c.reads = 5
    BY <1>4 DEF v1290_TriggerConfRead, OneWord
  <2>2. PICK q \in Questions : q.op = \h1600 /\ Len(q.regs) = 5
    BY DEF Questions, Question
  <2>3. IsQuestion(\h1600) /\ \h1600 \in Word
    BY <2>2, QuestionFacts DEF IsQuestion
  <2>4. ~IsOperand(\h1600) /\ ~IsLoad(\h1600) /\ ~IsOpaque(\h1600)
    BY <2>3, OperandNoQuestion, KnownCommand
  <2>5. CallOK(c)
    BY <2>1, <2>2, <2>4 DEF CallOK
  <2>6. WordSize \in 1..WordSize /\ 65535 \in Word
    BY WordFacts, InWord, SMT
  <2>7. OneWord(\h1600) \in Calls
    <3>1. 0 \in Word /\ 1 \in 1..WordSize
      BY WordFacts, InWord
    <3> QED BY <2>3, <3>1 DEF OneWord, Calls
  <2> DEFINE Asking(r, n, m, x) ==
               [r EXCEPT !.reads = n, !.mod = m, !.max = x]
  <2>8. ASSUME NEW r \in Calls, NEW n \in 0..5, NEW m \in 1..WordSize, NEW x \in Word
        PROVE  Asking(r, n, m, x) \in Calls
    <3>1. [r EXCEPT !.reads = n] \in Calls
      BY DEF Calls
    <3>2. \A u \in Calls : [u EXCEPT !.mod = m] \in Calls
      BY DEF Calls
    <3>3. \A u \in Calls : [u EXCEPT !.max = x] \in Calls
      BY DEF Calls
    <3> QED BY <3>1, <3>2, <3>3
  <2>9. c = Asking(OneWord(\h1600), 5, WordSize, 65535)
    BY <1>4, SMT DEF v1290_TriggerConfRead
  <2>10. 5 \in 0..5
    OBVIOUS
  <2> HIDE DEF Asking
  <2> QED BY <2>5, <2>6, <2>7, <2>8, <2>9, <2>10, SMT
<1>5. ASSUME NEW op \in {\h1000, \h1100, \h1200, \h1300, \h2200, \h2400, \h2800,
                         \h3300, \h3B00, \h4400},
             NEW data \in Word, c = v1290_WriteMicro(op, data)
      PROVE  c \in Calls /\ CallOK(c)
  <2>1. PICK o \in Operands : o.op = op
    BY DEF Operands, Operand
  <2> QED BY <1>5, <2>1, WriteMicroOK
<1>6. CASE \E x \in Int : c = v1290_SetWindowWidth(x)
  <2>1. PICK x \in Int : c = v1290_WriteMicro(\h1000, UInt16(CDiv(Int16(x), 25)))
    BY <1>6 DEF v1290_SetWindowWidth
  <2>2. UInt16(CDiv(Int16(x), 25)) \in Word
    BY WindowOperand, WordOfInt
  <2> QED BY <1>5, <2>1, <2>2
<1>7. CASE \E x \in Int : c = v1290_SetWindowOffset(x)
  <2>1. PICK x \in Int : c = v1290_SetWindowOffset(x)
    BY <1>7
  <2>2. PICK o \in Int : c = v1290_WriteMicro(\h1100, UInt16(CDiv(Int16(o), 25)))
    BY <2>1 DEF v1290_SetWindowOffset
  <2>3. UInt16(CDiv(Int16(o), 25)) \in Word
    BY WindowOperand, WordOfInt
  <2> QED BY <1>5, <2>2, <2>3
<1>8. CASE \E x \in Int : c = v1290_SetExtraMargin(x) \/ c = v1290_SetRejectMargin(x)
  <2>1. PICK x \in Int, op \in {\h1200, \h1300} : c = v1290_WriteMicro(op, UInt16(x) \div 25)
    BY <1>8 DEF v1290_SetExtraMargin, v1290_SetRejectMargin
  <2>2. UInt16(x) \div 25 \in Word
    BY WordOfInt
  <2> QED BY <1>5, <2>1, <2>2
<1>9. CASE \E w \in Word : c \in SettingCalls(w)
  <2>1. PICK w \in Word, op \in {\h2200, \h2400, \h2800, \h3300, \h3B00, \h4400} :
          c = v1290_WriteMicro(op, w)
    BY <1>9 DEF SettingCalls, v1290_SetEdgeDetection, v1290_SetEdgeResolution,
                v1290_SetDeadtime, v1290_SetMaxHits, v1290_SetFIFOSize, v1290_WriteEnablePattern
  <2> QED BY <1>5, <2>1
<1>10. CASE \/ \E en \in BOOLEAN : c \in SwitchCalls(en)
            \/ \E chn \in Word, en \in BOOLEAN : c = v1290_EnableChannel(chn, en)
  <2>1. PICK op \in {\h1400, \h1500, \h3000, \h3100, \h3500, \h3600, \h3700, \h3800,
                     \h4000, \h4100} :
          c = OneWord(op)
    BY <1>10 DEF SwitchCalls, v1290_EnableTriggerSubtraction, v1290_EnableHeader,
                 v1290_EnableTDCErrorMark, v1290_EnableBypassTDC, v1290_EnableChannel
  <2> QED BY <2>1, PlainOpcodes, OneWordOK
<1> QED BY <1>1, <1>2, <1>3, <1>4, <1>6, <1>7, <1>8, <1>9, <1>10

\* Where the cast of v1290_SetWindowWidth and of v1290_SetWindowOffset leaves
\* the time alone, the window asked for is the one wanted, to within a tick
\* of the clock, and no offset of more than 1000 ns is asked for.
THEOREM WindowsKept ==
  ASSUME NEW r \in [Regs -> Word]
  PROVE  /\ \A width \in Int : 0 <= width /\ width < 32768 =>
              LET w == WantedAfter(r, v1290_SetWindowWidth(width))["width"]
              IN  w * 25 <= width /\ width < (w + 1) * 25
         /\ \A offset \in Int : -32768 <= offset /\ offset <= 1000 =>
              LET o == Int16(WantedAfter(r, v1290_SetWindowOffset(offset))["offset"])
              IN  IF offset >= 0 THEN o * 25 <= offset /\ offset < (o + 1) * 25
                                 ELSE o * 25 >= offset /\ offset > (o - 1) * 25
         /\ \A offset \in Int : offset > 1000 =>
              Int16(WantedAfter(r, v1290_SetWindowOffset(offset))["offset"]) * 25 = 1000
<1>1. ASSUME NEW width \in Int, 0 <= width, width < 32768
      PROVE  LET w == WantedAfter(r, v1290_SetWindowWidth(width))["width"]
             IN  w * 25 <= width /\ width < (w + 1) * 25
  <2> DEFINE t == CDiv(width, 25)
  <2>1. t \in Int /\ 0 <= t /\ t * 25 <= width /\ width < (t + 1) * 25
    BY <1>1, TickOf
  <2>2. WantedAfter(r, v1290_SetWindowWidth(width))["width"] = UInt16(t) % 65536
    BY <1>1, Int16Kept, WindowSet DEF v1290_SetWindowWidth
  <2> HIDE DEF t
  <2>3. UInt16(t) % 65536 = t
    BY <1>1, <2>1, UInt16Kept
  <2> QED BY <2>1, <2>2, <2>3
<1>2. ASSUME NEW offset \in Int, -32768 <= offset, offset <= 1000
      PROVE  LET o == Int16(WantedAfter(r, v1290_SetWindowOffset(offset))["offset"])
             IN  IF offset >= 0 THEN o * 25 <= offset /\ offset < (o + 1) * 25
                                ELSE o * 25 >= offset /\ offset > (o - 1) * 25
  <2> DEFINE t == CDiv(offset, 25)
  <2>1. /\ t \in Int
        /\ IF offset >= 0 THEN 0 <= t /\ t * 25 <= offset /\ offset < (t + 1) * 25
                          ELSE t <= 0 /\ t * 25 >= offset /\ offset > (t - 1) * 25
    BY TickOf, SMT
  <2>2. v1290_SetWindowOffset(offset) = v1290_WriteMicro(\h1100, UInt16(t))
    BY <1>2, Int16Kept DEF v1290_SetWindowOffset
  <2> HIDE DEF t
  <2>3. -32768 <= t /\ t < 32768
    BY <1>2, <2>1, SMT
  <2>4. Int16(UInt16(t) % 65536) = t
    BY <2>1, <2>3, Int16Back
  <2> QED BY <2>1, <2>2, <2>4, WindowSet
<1>3. ASSUME NEW offset \in Int, offset > 1000
      PROVE  Int16(WantedAfter(r, v1290_SetWindowOffset(offset))["offset"]) * 25 = 1000
  <2>1. CDiv(Int16(1000), 25) = 40
    BY Int16Kept, SMT DEF CDiv
  <2>2. v1290_SetWindowOffset(offset) = v1290_WriteMicro(\h1100, UInt16(40))
    BY <1>3, <2>1 DEF v1290_SetWindowOffset
  <2>3. Int16(UInt16(40) % 65536) = 40
    BY Int16Back
  <2> QED BY <2>2, <2>3, WindowSet
<1> QED BY <1>1, <1>2, <1>3

\* Where it does not, the window is not the one wanted: no width from 32768 ns
\* on, up to 1.6 ms, comes out even to within a tick, and an offset of more
\* than 32768 ns before the trigger becomes one of 14 us or more after it.
THEOREM WindowsLost ==
  ASSUME NEW r \in [Regs -> Word]
  PROVE  /\ \A width \in Int : 32768 <= width /\ width <= 1600000 =>
              LET w == WantedAfter(r, v1290_SetWindowWidth(width))["width"]
              IN  width >= (w + 1) * 25 \/ w * 25 > width
         /\ \A offset \in Int : offset < -32768 =>
              Int16(WantedAfter(r, v1290_SetWindowOffset(offset))["offset"]) * 25 > 14000
<1>1. ASSUME NEW width \in Int, 32768 <= width, width <= 1600000
      PROVE  LET w == WantedAfter(r, v1290_SetWindowWidth(width))["width"]
             IN  width >= (w + 1) * 25 \/ w * 25 > width
  <2> DEFINE s == Int16(width)
             t == CDiv(s, 25)
  <2>1. s \in Int /\ -32768 <= s /\ s < 32768 /\ (s >= 0 => width >= s + 65536)
    BY <1>1, SMT DEF Int16, UInt16, WordSize
  <2> HIDE DEF s
  <2>2. t \in Int /\ -1311 < t /\ t < 1311 /\ (s >= 0 <=> t >= 0 /\ s >= 0)
        /\ (s >= 0 => t >= 0 /\ t * 25 <= s) /\ (s < 0 => t <= 0)
    BY <2>1, TickOf
  <2>3. WantedAfter(r, v1290_SetWindowWidth(width))["width"] = UInt16(t) % 65536
    BY WindowSet DEF v1290_SetWindowWidth, s
  <2> HIDE DEF t
  <2>4. UInt16(t) % 65536 = IF t >= 0 THEN t ELSE t + 65536
    BY <2>2, SMT DEF UInt16, WordSize
  <2> QED BY <1>1, <2>1, <2>2, <2>3, <2>4
<1>2. ASSUME NEW offset \in Int, offset < -32768
      PROVE  Int16(WantedAfter(r, v1290_SetWindowOffset(offset))["offset"]) * 25 > 14000
  <2> DEFINE o == IF offset < -51200 THEN -51200 ELSE offset
             s == Int16(o)
             t == CDiv(s, 25)
  <2>1. o \in Int /\ -51200 <= o /\ o < -32768
    BY <1>2
  <2>2. v1290_SetWindowOffset(offset) = v1290_WriteMicro(\h1100, UInt16(t))
    BY <1>2 DEF v1290_SetWindowOffset
  <2> HIDE DEF o
  <2>3. s \in Int /\ 14336 <= s /\ s < 32768
    BY <2>1, SMT DEF Int16, UInt16, WordSize
  <2> HIDE DEF s
  <2>4. t \in Int /\ 573 <= t /\ t < 1311
    BY <2>3, TickOf
  <2> HIDE DEF t
  <2>5. Int16(UInt16(t) % 65536) = t
    BY <2>4, Int16Back
  <2> QED BY <2>2, <2>4, <2>5, WindowSet
<1> QED BY <1>1, <1>2

\* The operands of the set-up of frontend_init are harmless commands.
THEOREM SetupHarmless == Harmless(FrontendSetup)
<1> SUFFICES ASSUME NEW c \in CallsOf(FrontendSetup), Len(c.words) = 2
             PROVE  /\ ~IsOperand(c.words[2])
                    /\ ~IsQuestion(c.words[2])
                    /\ ~IsOpaque(c.words[2])
  BY SMT DEF Harmless
<1>1. PICK n \in 1..9 : c \in FrontendSetup[n]
  <2>1. Len(FrontendSetup) = 9
    BY SMT DEF FrontendSetup
  <2> QED BY <2>1, SMT DEF CallsOf
<1>2. c.words[2] \in {1, 800, UInt16(-800)}
  <2>1. CASE n \in {1, 6, 7}
    BY <1>1, <2>1, WindowWords, SMT
    DEF FrontendSetup, v1290_SetEdgeDetection, v1290_WriteMicro, OneWord
  <2>2. CASE n \notin {1, 6, 7}
    <3>1. Len(c.words) = 1
      BY <1>1, <2>2, SMT
      DEF FrontendSetup, v1290_ReadEdgeDetection, v1290_ReadEdgeResolution,
          v1290_ReadDeadtime, v1290_TriggerMatchingSet,
          v1290_EnableTriggerSubtraction, v1290_AcqModeRead, v1290_ReadMicro, OneWord
    <3> QED BY <3>1, SMT
  <2> QED BY <2>1, <2>2, SMT
<1>3. Command(c.words[2]) \in {\h0000, \h0300, \hFC00}
  <2>1. UInt16(-800) = 64736
    <3>1. \A x, y \in Int : x = y - 65536 /\ 0 <= y /\ y < 65536 => UInt16(x) = y
      BY SMT DEF UInt16, WordSize
    <3> QED BY <3>1, SMT
  <2>2. Command(1) = \h0000 /\ Command(800) = \h0300 /\ Command(64736) = \hFC00
    BY SMT DEF Command
  <2> QED BY <1>2, <2>1, <2>2
<1>4. ~IsOperand(c.words[2])
  BY <1>3, SMT DEF IsOperand, Operands, Operand
<1>5. ~IsQuestion(c.words[2])
  BY <1>3, SMT DEF IsQuestion, Questions, Question
<1>6. ~IsOpaque(c.words[2])
  BY <1>3, SMT DEF IsOpaque, Opaque
<1> QED BY <1>4, <1>5, <1>6, SMT

-----------------------------------------------------------------------------
(***************************************************************************)
(* Theorems.                                                               *)
(***************************************************************************)

\* IInv holds in every state of every client's dialogue with the V1290N.
THEOREM Invariance == Spec => []IInv
<1>1. Init => IInv
  BY InvInit
<1>2. IInv /\ [Next]_vars => IInv'
  BY TypeStep, SettingStep, AnswerStep, InStepStep, HonestStep, SetupStep
  DEF IInv
<1> QED BY <1>1, <1>2, PTL DEF Spec

\* Every variable of the driver and the micro controller keeps its type.
THEOREM TypeCorrect == Spec => []TypeOK
<1>1. IInv => TypeOK
  BY DEF IInv
<1> QED BY <1>1, Invariance, PTL

\* Whatever calls of v1290.h are made, and however slow the micro controller:
\* between two calls, with no word on its way and none ever lost to the bound
\* of v1290_MicroWrite or to the bus, the TDC has the settings asked for, in their order.
THEOREM SettingsAreApplied == Spec => []SettingsApplied
<1>1. IInv => SettingsApplied
  BY DEF IInv, StepInv, Settled, SettingsApplied
<1> QED BY <1>1, Invariance, PTL

\* Where nothing has been lost to the bounds of v1290_MicroWrite and
\* v1290_MicroRead or to the bus, a call that asks returns the answers to its own question,
\* in their order, and leaves none for the next call to take for its own.
THEOREM AnswersAreTrue == Spec => []AnswersTrue
<1>1. IInv => AnswersTrue
  BY DEF IInv, AnswerInv, NoQuestion, AnswersTrue
<1> QED BY <1>1, Invariance, PTL

\* To a client none of whose operands is a command that v1290.h says, or does
\* not say, to want more or to answer, which frontend_init is, a word lost to
\* the bound of v1290_MicroWrite or to the bus does no lasting harm: the next
\* call that loses none gets the micro controller back in step.
THEOREM HarmlessGetInStep == Spec => []HarmlessInStep
<1>1. IInv => HarmlessInStep
  BY DEF IInv, InStepInv, HarmlessInStep
<1> QED BY <1>1, Invariance, PTL

\* An answer such a client gets is the answer to its question and true at the
\* time, words lost or not, even where a lost opcode has let its operand load
\* other settings, until a v1290_MicroRead gives up or an access of it fails.
THEOREM HarmlessAnswersAreTrue == Spec => []HarmlessAnswersTrue
<1>1. IInv => HarmlessAnswersTrue
  BY DEF IInv, HonestInv, HarmlessAnswersTrue
<1> QED BY <1>1, Invariance, PTL

\* If no word is lost, frontend_init leaves the TDC as the analysis needs it:
\* no call of its set-up undoes what another has set.
THEOREM SetupIsApplied == Spec => []SetupApplied
<1>1. IInv => SetupApplied
  <2> SUFFICES ASSUME IInv, menu = FrontendSetup, Done, inbox = None, wlost = 0
               PROVE  /\ regs["mode"] = 1
                      /\ regs["edge"] = 1
                      /\ regs["width"] * 25 = 20000
                      /\ Int16(regs["offset"]) * 25 = -20000
                      /\ regs["sub"] = 1
    BY DEF SetupApplied
  <2>1. calls = 9 /\ pc = "idle"
    BY DEF Done, FrontendSetup
  <2>2. regs = wanted
    BY <2>1 DEF IInv, StepInv, Settled
  <2>3. \A a \in SetupAsks : regs[a.reg] = a.value
    <3>1. \A a \in SetupAsks : a.by < 9
      BY DEF SetupAsks
    <3> QED BY <2>1, <2>2, <3>1 DEF IInv, SetupInv
  <2>4. /\ regs["mode"] = 1 /\ regs["edge"] = 1 /\ regs["width"] = 800
        /\ regs["offset"] = UInt16(-800) /\ regs["sub"] = 1
    BY <2>3 DEF SetupAsks
  <2>5. Int16(UInt16(-800)) = -800
    BY DEF Int16, UInt16, WordSize
  <2> QED BY <2>4, <2>5
<1> QED BY <1>1, Invariance, PTL

-----------------------------------------------------------------------------
(***************************************************************************)
(* Why calls end.                                                          *)
(***************************************************************************)
\* A word or an answer less is a whole bound of looks less.
LEMMA Times ==
  ASSUME NEW n \in Nat
  PROVE  /\ \A k \in 1..2 : /\ (2 - k) * n \in Nat
                            /\ (2 - k) * n <= n
                            /\ k < 2 => (2 - k) * n = (2 - (k + 1)) * n + n
         /\ \A k \in 1..5 : /\ (5 - k) * n \in Nat
                            /\ (5 - k) * n <= 4 * n
                            /\ k < 5 => (5 - k) * n = (5 - (k + 1)) * n + n
<1>1. \A k \in 1..2 : k = 1 \/ k = 2
  OBVIOUS
<1>2. \A k \in 1..5 : k = 1 \/ k = 2 \/ k = 3 \/ k = 4 \/ k = 5
  OBVIOUS
<1>3. ASSUME NEW k \in 1..2
      PROVE  /\ (2 - k) * n \in Nat
             /\ (2 - k) * n <= n
             /\ k < 2 => (2 - k) * n = (2 - (k + 1)) * n + n
  BY <1>1, SMT
<1>4. ASSUME NEW k \in 1..5
      PROVE  /\ (5 - k) * n \in Nat
             /\ (5 - k) * n <= 4 * n
             /\ k < 5 => (5 - k) * n = (5 - (k + 1)) * n + n
  <2>1. CASE k = 1 BY <2>1, SMT
  <2>2. CASE k = 2 BY <2>2, SMT
  <2>3. CASE k = 3 BY <2>3, SMT
  <2>4. CASE k = 4 BY <2>4, SMT
  <2>5. CASE k = 5 BY <2>5, SMT
  <2> QED BY <1>2, <2>1, <2>2, <2>3, <2>4, <2>5
<1> QED BY <1>3, <1>4

\* The looks that are left in each phase of a call.
LEMMA LooksOf ==
  ASSUME TypeOK, CursorInv
  PROVE  /\ pc = "idle" => LooksLeft = 0
         /\ pc = "write" =>
              /\ i \in 1..2
              /\ LooksLeft = (2 - i) * (WritePolls + 1) + (WritePolls - polls) + 1
                             + 5 * (ReadPolls + 1)
         /\ pc = "read" =>
              /\ i \in 1..5
              /\ LooksLeft = (5 - i) * (ReadPolls + 1) + (ReadPolls - polls) + 1
         /\ LooksLeft \in 0..MostLooks
         /\ pc = "read" => LooksLeft <= 5 * (ReadPolls + 1)
<1>1. WritePolls + 1 \in Nat /\ ReadPolls + 1 \in Nat
  BY MicroAssumption
<1>2. CASE pc = "idle"
  BY <1>1, <1>2 DEF LooksLeft, MostLooks
<1>3. CASE pc = "write"
  <2>1. i \in 1..2 /\ polls \in 0..WritePolls
    <3>1. i \in 1..Len(call.words) /\ Len(call.words) \in 1..2
      BY <1>3, MenuFacts DEF CursorInv
    <3>2. \A n \in 1..2 : \A k \in 1..n : k \in 1..2
      OBVIOUS
    <3>3. polls \in 0..WritePolls
      BY <1>3 DEF TypeOK
    <3> QED BY <3>1, <3>2, <3>3
  <2>2. LooksLeft = (2 - i) * (WritePolls + 1) + (WritePolls - polls) + 1
                    + 5 * (ReadPolls + 1)
    BY <1>3 DEF LooksLeft
  <2> DEFINE t == (2 - i) * (WritePolls + 1)
  <2>3. t \in Nat /\ t <= WritePolls + 1
    BY <1>1, <2>1, Times
  <2>4. LooksLeft = t + (WritePolls - polls) + 1 + 5 * (ReadPolls + 1)
    BY <2>2
  <2> HIDE DEF t
  <2>5. LooksLeft \in 0..MostLooks
    BY <1>1, <2>1, <2>3, <2>4, MicroAssumption DEF MostLooks
  <2> QED BY <1>3, <2>1, <2>2, <2>5
<1>4. CASE pc = "read"
  <2>1. i \in 1..5 /\ polls \in 0..ReadPolls
    BY <1>4 DEF TypeOK
  <2>2. LooksLeft = (5 - i) * (ReadPolls + 1) + (ReadPolls - polls) + 1
    BY <1>4 DEF LooksLeft
  <2> DEFINE t == (5 - i) * (ReadPolls + 1)
  <2>3. t \in Nat /\ t <= 4 * (ReadPolls + 1)
    BY <1>1, <2>1, Times
  <2>4. LooksLeft = t + (ReadPolls - polls) + 1
    BY <2>2
  <2> HIDE DEF t
  <2>5. LooksLeft \in 0..MostLooks /\ LooksLeft <= 5 * (ReadPolls + 1)
    BY <1>1, <2>1, <2>3, <2>4, MicroAssumption DEF MostLooks
  <2> QED BY <1>4, <2>1, <2>2, <2>5
<1> QED BY <1>2, <1>3, <1>4 DEF TypeOK

\* After a word has been written, or given up, fewer looks are left.
LEMMA WordAdvances ==
  ASSUME TypeOK, CursorInv, TypeOK', CursorInv', pc = "write", NextWord,
         UNCHANGED call
  PROVE  LooksLeft' < LooksLeft
<1> DEFINE W == WritePolls + 1
           R == 5 * (ReadPolls + 1)
<1>0. W \in Nat /\ R \in Nat /\ WritePolls = W - 1
  BY MicroAssumption
<1>1. i \in 1..2 /\ polls \in 0..WritePolls
      /\ LooksLeft = (2 - i) * W + (WritePolls - polls) + 1 + R
  BY LooksOf DEF TypeOK
<1>2. CASE i < Len(call.words)
  <2>1. pc' = "write" /\ i' = i + 1 /\ polls' = 0
    BY <1>2 DEF NextWord
  <2>2. i' \in 1..2 /\ LooksLeft' = (2 - i') * W + (WritePolls - 0) + 1 + R
    <3>1. i' \in 1..2
      BY <2>1, MenuFacts DEF CursorInv
    <3>2. LooksLeft' = (2 - i') * W + (WritePolls - polls') + 1 + R
      BY <2>1 DEF LooksLeft
    <3> QED BY <2>1, <3>1, <3>2
  <2>3. i < 2 /\ (2 - i) * W = (2 - (i + 1)) * W + W
    BY <1>0, <1>1, <2>1, <2>2, Times
  <2> DEFINE t == (2 - (i + 1)) * W
  <2>4. t \in Nat
    BY <1>0, <1>1, <2>1, <2>2, Times
  <2>5. LooksLeft' = t + WritePolls + 1 + R /\ (2 - i) * W = t + W
    BY <1>0, <2>1, <2>2, <2>3, MicroAssumption
  <2> DEFINE u == (2 - i) * W
  <2>6. LooksLeft = u + (WritePolls - polls) + 1 + R /\ u = t + W
    BY <1>1, <2>5
  <2> HIDE DEF t, u, W, R
  <2> QED BY <1>0, <1>1, <2>4, <2>5, <2>6
<1>3. CASE ~(i < Len(call.words))
  <2>1. pc' = "idle" \/ pc' = "read"
    BY <1>3 DEF NextWord
  <2>2. LooksLeft' \in Int /\ LooksLeft' <= R
    <3>1. CASE pc' = "idle"
      BY <1>0, <3>1 DEF LooksLeft
    <3>2. CASE pc' = "read"
      <4> DEFINE t == (5 - 1) * (ReadPolls + 1)
      <4>1. LooksLeft' = t + (ReadPolls - polls') + 1
        BY <1>3, <3>2 DEF NextWord, LooksLeft
      <4>2. polls' = 0 /\ t = 4 * (ReadPolls + 1)
        BY <1>3 DEF NextWord
      <4> HIDE DEF t
      <4> QED BY <4>1, <4>2, MicroAssumption
    <3> QED BY <2>1, <3>1, <3>2
  <2> DEFINE u == (2 - i) * W
  <2>3. u \in Nat /\ LooksLeft = u + (WritePolls - polls) + 1 + R
    BY <1>0, <1>1, Times
  <2> HIDE DEF u, W, R
  <2> QED BY <1>0, <1>1, <2>2, <2>3
<1> QED BY <1>2, <1>3

\* So are after an answer that has been read, or given up.
LEMMA AnswerAdvances ==
  ASSUME TypeOK, CursorInv, TypeOK', CursorInv', pc = "read",
         NEW a, NextAnswer(a), UNCHANGED call
  PROVE  LooksLeft' < LooksLeft
<1> DEFINE R == ReadPolls + 1
           u == (5 - i) * R
           t == (5 - (i + 1)) * R
<1>0. R \in Nat /\ ReadPolls = R - 1
  BY MicroAssumption
<1>1. i \in 1..5 /\ polls \in 0..ReadPolls /\ LooksLeft = u + (ReadPolls - polls) + 1
  BY LooksOf DEF TypeOK
<1>2. u \in Nat
  BY <1>0, <1>1, Times
<1>3. CASE i < call.reads
  <2>1. pc' = "read" /\ i' = i + 1 /\ polls' = 0
    BY <1>3 DEF NextAnswer
  <2>2. i' \in 1..5 /\ LooksLeft' = (5 - i') * R + (ReadPolls - 0) + 1
    BY <2>1 DEF LooksLeft, TypeOK
  <2>3. i < 5 /\ u = t + R
    BY <1>0, <1>1, <2>1, <2>2, Times
  <2>4. t \in Nat
    BY <1>0, <2>1, <2>2, Times
  <2>5. LooksLeft' = t + ReadPolls + 1
    BY <1>0, <2>1, <2>2
  <2> HIDE DEF t, u, R
  <2> QED BY <1>0, <1>1, <2>3, <2>4, <2>5
<1>4. CASE ~(i < call.reads)
  <2>1. LooksLeft' = 0
    BY <1>4 DEF NextAnswer, LooksLeft
  <2> HIDE DEF t, u, R
  <2> QED BY <1>0, <1>1, <1>2, <2>1
<1> QED BY <1>3, <1>4

\* Each look of the driver in a call leaves one less, whatever it sees and
\* whatever the micro controller does, and no call of any client takes more
\* than MostLooks of them: with a driver that keeps running, calls end.
THEOREM CallsDoAdvance == Spec => CallsAdvance
<1> DEFINE Step == IF Driver \/ Fault
                   THEN pc = "idle" \/ LooksLeft' < LooksLeft
                   ELSE LooksLeft' = LooksLeft
<1>1. TypeOK /\ CursorInv => LooksLeft \in 0..MostLooks
  BY LooksOf
<1>2. ASSUME TypeOK, CursorInv, TypeOK', CursorInv', [Next]_vars, ~(UNCHANGED vars)
      PROVE  Step
  <2>1. Micro => LooksLeft' = LooksLeft
    BY DEF Micro, TakeOperand, TakeCommand, TakeOpaque, PutOut, driverVars, LooksLeft
  <2>2. CASE Begin
    BY <2>2 DEF Begin, Driver
  <2>3. CASE v1290_MicroWrite \/ WriteGiveUp \/ WordLost
    <3>1. pc = "write" /\ NextWord /\ UNCHANGED call
      BY <2>3 DEF v1290_MicroWrite, WriteGiveUp, WordLost
    <3>2. LooksLeft' < LooksLeft
      BY <1>2, <3>1, WordAdvances
    <3> QED BY <2>3, <3>2 DEF Driver, Fault
  <2>4. CASE v1290_MicroRead \/ ReadGiveUp \/ AnswerMisread
    <3>1. pc = "read" /\ (\E a : NextAnswer(a)) /\ UNCHANGED call
      BY <2>4 DEF v1290_MicroRead, ReadGiveUp, AnswerMisread
    <3>2. LooksLeft' < LooksLeft
      BY <1>2, <3>1, AnswerAdvances
    <3> QED BY <2>4, <3>2 DEF Driver, Fault
  <2>5. CASE WriteWait \/ (HandshakeMisread /\ pc = "write")
    <3> DEFINE u == (2 - i) * (WritePolls + 1)
    <3>1. u \in Nat /\ polls \in 0..WritePolls
          /\ LooksLeft = u + (WritePolls - polls) + 1 + 5 * (ReadPolls + 1)
      <4>1. pc = "write" /\ i \in 1..2 /\ polls \in 0..WritePolls
        BY <1>2, <2>5, LooksOf DEF WriteWait, HandshakeMisread, TypeOK
      <4>2. u \in Nat
        BY <4>1, Times, MicroAssumption
      <4>3. LooksLeft = u + (WritePolls - polls) + 1 + 5 * (ReadPolls + 1)
        BY <4>1 DEF LooksLeft
      <4> QED BY <4>1, <4>2, <4>3
    <3>2. LooksLeft' = u + (WritePolls - (polls + 1)) + 1 + 5 * (ReadPolls + 1)
      BY <2>5 DEF WriteWait, HandshakeMisread, LooksLeft
    <3> HIDE DEF u
    <3>3. LooksLeft' < LooksLeft
      BY <3>1, <3>2, MicroAssumption
    <3> QED BY <2>5, <3>3 DEF Driver, Fault
  <2>6. CASE ReadWait \/ (HandshakeMisread /\ pc = "read")
    <3> DEFINE u == (5 - i) * (ReadPolls + 1)
    <3>1. u \in Nat /\ polls \in 0..ReadPolls
          /\ LooksLeft = u + (ReadPolls - polls) + 1
      <4>1. pc = "read" /\ i \in 1..5 /\ polls \in 0..ReadPolls
        BY <1>2, <2>6, LooksOf DEF ReadWait, HandshakeMisread, TypeOK
      <4>2. u \in Nat
        BY <4>1, Times, MicroAssumption
      <4>3. LooksLeft = u + (ReadPolls - polls) + 1
        BY <4>1 DEF LooksLeft
      <4> QED BY <4>1, <4>2, <4>3
    <3>2. LooksLeft' = u + (ReadPolls - (polls + 1)) + 1
      BY <2>6 DEF ReadWait, HandshakeMisread, LooksLeft
    <3> HIDE DEF u
    <3>3. LooksLeft' < LooksLeft
      BY <3>1, <3>2, MicroAssumption
    <3> QED BY <2>6, <3>3 DEF Driver, Fault
  <2>7. Driver \/ Fault =>
          \/ Begin
          \/ v1290_MicroWrite \/ WriteGiveUp \/ WordLost
          \/ v1290_MicroRead \/ ReadGiveUp \/ AnswerMisread
          \/ WriteWait \/ ReadWait
          \/ HandshakeMisread /\ pc \in {"write", "read"}
    BY DEF Driver, Fault, HandshakeMisread
  <2>8. ~(Driver \/ Fault) => Micro
    BY <1>2 DEF Next
  <2> HIDE DEF Step
  <2> QED BY <2>1, <2>2, <2>3, <2>4, <2>5, <2>6, <2>7, <2>8 DEF Step
<1>3. IInv /\ IInv' /\ [Next]_vars => [Step]_vars
  BY <1>2 DEF IInv
<1>4. IInv => LooksLeft \in 0..MostLooks
  BY <1>1 DEF IInv
<1> QED BY <1>3, <1>4, Invariance, PTL DEF Spec, CallsAdvance
=============================================================================
