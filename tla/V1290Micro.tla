----------------------------- MODULE V1290Micro -----------------------------
(***************************************************************************)
(* The dialogue of bit3_vme_drivers/v1290.c with the micro controller of   *)
(* the V1290N.  Settings are made and read with words written to and read  *)
(* from one register: an opcode, an operand for some opcodes, answers to   *)
(* others.  Before each word the driver looks at the handshake register a  *)
(* bounded number of times and then gives up; its callers go on as if it   *)
(* had not.                                                                *)
(*                                                                         *)
(* One step of the driver is one look at the handshake register, with the  *)
(* word it transfers when the micro controller is ready.  Any access may   *)
(* fail: nobody is told, and the driver goes on with what is on its stack. *)
(***************************************************************************)
EXTENDS Integers, Sequences

CONSTANTS
  WritePolls,   \* looks of v1290_MicroWrite before it gives up (1000)
  ReadPolls,    \* looks of v1290_MicroRead before it gives up (100)
  Menus,        \* the clients: m[i] is the set the i-th call of m is one of
  Garbage,      \* what a read of an answer may return when it has failed
  Configs,      \* the settings the module may load, its own or saved ones
  Replies       \* what a command the driver never sends may answer

None == -2      \* no word
Failed == -1    \* what v1290_MicroRead returns when it gives up

-----------------------------------------------------------------------------
(***************************************************************************)
(* Words and conversions.                                                  *)
(***************************************************************************)
WordSize == 65536
Word == 0..(WordSize - 1)

UInt16(x) == x % WordSize

Int16(x) == IF UInt16(x) < 32768 THEN UInt16(x) ELSE UInt16(x) - WordSize

\* Integer division of C, which truncates.
CDiv(x, y) == IF x >= 0 THEN x \div y ELSE -((-x) \div y)

-----------------------------------------------------------------------------
(***************************************************************************)
(* The commands v1290.h names.  The driver's functions send those that     *)
(* want an operand, of which the setting keeps the low bits; those that    *)
(* set something by themselves; and those that answer with settings.  The  *)
(* micro controller may take a lost opcode's operand for any of the others *)
(* too.  Which token it keeps, what it saves and what it loads when it is  *)
(* switched on (0x0300, 0x0400, 0x0600, 0x0800, 0x0900) is no setting of   *)
(* this model, and words that are no command of v1290.h are ignored.       *)
(***************************************************************************)
Operand(op, reg, mod) == [op |-> op, reg |-> reg, mod |-> mod]

Operands ==
  { Operand(\h1000, "width", WordSize),  Operand(\h1100, "offset", WordSize),
    Operand(\h1200, "margin", WordSize), Operand(\h1300, "reject", WordSize),
    Operand(\h2200, "edge", 4),       Operand(\h2400, "res", 4),
    Operand(\h2800, "dead", 4),       Operand(\h3300, "hits", 16),
    Operand(\h3B00, "fifo", 8),       Operand(\h4400, "pattern", WordSize) }

NoOperand == Operand(None, "none", 1)

Direct(op, reg, value) == [op |-> op, reg |-> reg, value |-> value]

Directs ==
  { Direct(\h0000, "mode", 1),   Direct(\h0100, "mode", 0),
    Direct(\h1400, "sub", 1),    Direct(\h1500, "sub", 0),
    Direct(\h3000, "header", 1), Direct(\h3100, "header", 0),
    Direct(\h3500, "mark", 1),   Direct(\h3600, "mark", 0),
    Direct(\h3700, "bypass", 1), Direct(\h3800, "bypass", 0),
    Direct(\h4200, "pattern", 65535), Direct(\h4300, "pattern", 0) }

Question(op, regs) == [op |-> op, regs |-> regs]

Questions ==
  { Question(\h0200, <<"mode">>),
    Question(\h1600, <<"width", "offset", "margin", "reject", "sub">>),
    Question(\h2300, <<"edge">>),   Question(\h2600, <<"res">>),
    Question(\h2900, <<"dead">>),   Question(\h3200, <<"header">>),
    Question(\h3400, <<"hits">>),   Question(\h3C00, <<"fifo">>),
    Question(\h4500, <<"pattern">>) }

\* Commands no function sends that replace all settings.
Loads == {\h0500, \h0700}

\* Commands no function sends, of which v1290.h does not say what words they
\* want, what they answer and what they set: any of it may happen.
Opaque ==
  { \h2500, \h3900, \h3A00, \h4600, \h4700,
    \h5000, \h5100, \h5200, \h5300, \h5400, \h5500, \h5600,
    \h6000, \h6100, \h6200,
    \h7000, \h7100, \h7200, \h7300, \h7400, \h7500, \h7600, \h7700,
    \hC000, \hC100, \hC200, \hC300, \hC400, \hC500, \hC600, \hC700, \hC800 }

\* What an opaque command awaits while it is not over.
Unknown == Operand(None, "unknown", 1)

Regs == { "mode", "width", "offset", "margin", "reject", "sub", "edge", "res",
          "dead", "header", "hits", "mark", "bypass", "fifo", "pattern" }

\* The command is the high byte of a word, its object (a channel) the low.
Command(w) == w - (w % 256)

\* The weights of bits 0 to 15.
Weight == << 1, 2, 4, 8, 16, 32, 64, 128, 256, 512, 1024, 2048, 4096, 8192,
             16384, 32768 >>

SetBit(p, n, b) ==
  p + (b - ((p \div Weight[n + 1]) % 2)) * Weight[n + 1]

\* The settings when a word has been taken as a command, or as an operand.
AfterCommand(r, w) ==
  IF \E d \in Directs : d.op = Command(w)
  THEN LET d == CHOOSE d \in Directs : d.op = Command(w)
       IN  [r EXCEPT ![d.reg] = d.value]
  ELSE IF Command(w) \in {\h4000, \h4100} /\ w % 256 < 16
  THEN [r EXCEPT !["pattern"] =
                   SetBit(@, w % 256, IF Command(w) = \h4000 THEN 1 ELSE 0)]
  ELSE r

AfterOperand(r, o, w) == [r EXCEPT ![o.reg] = w % o.mod]

\* The answers to a question.
AnswersTo(q, r) == [k \in 1..Len(q.regs) |-> r[q.regs[k]]]

-----------------------------------------------------------------------------
(***************************************************************************)
(* The calls of the driver: the words they write, the number of answers    *)
(* they read, and what they make of one answer: its low bits, or 100 when  *)
(* those are no valid setting.                                             *)
(***************************************************************************)
OneWord(op) == [words |-> <<op>>, reads |-> 0, mod |-> 1, max |-> 0]

v1290_WriteMicro(op, data) == [OneWord(op) EXCEPT !.words = <<op, data>>]

v1290_ReadMicro(op, mod, max) ==
  [words |-> <<op>>, reads |-> 1, mod |-> mod, max |-> max]

v1290_TriggerMatchingSet == OneWord(\h0000)
v1290_ContinuosSet == OneWord(\h0100)
v1290_AcqModeRead == v1290_ReadMicro(\h0200, 2, 1)

v1290_TriggerConfRead ==
  [OneWord(\h1600) EXCEPT !.reads = 5, !.mod = WordSize, !.max = 65535]

v1290_SetWindowWidth(width) ==
  v1290_WriteMicro(\h1000, UInt16(CDiv(Int16(width), 25)))

\* Mutant of v1290_SetWindowOffset: the limit is in clock ticks, not in ns.
SetWindowOffsetTicks(offset) ==
  LET o == IF offset < -2048 THEN -2048
           ELSE IF offset > 40 * 25 THEN 40 * 25 ELSE offset
  IN  v1290_WriteMicro(\h1100, UInt16(CDiv(Int16(o), 25)))

v1290_SetWindowOffset(offset) ==
  LET o == IF offset < -2048 * 25 THEN -2048 * 25
           ELSE IF offset > 40 * 25 THEN 40 * 25 ELSE offset
  IN  v1290_WriteMicro(\h1100, UInt16(CDiv(Int16(o), 25)))

v1290_SetExtraMargin(margin) == v1290_WriteMicro(\h1200, UInt16(margin) \div 25)
v1290_SetRejectMargin(margin) == v1290_WriteMicro(\h1300, UInt16(margin) \div 25)
v1290_EnableTriggerSubtraction(en) == OneWord(IF en THEN \h1400 ELSE \h1500)
v1290_SetEdgeDetection(edge) == v1290_WriteMicro(\h2200, edge)
v1290_ReadEdgeDetection == v1290_ReadMicro(\h2300, WordSize, 3)
v1290_SetEdgeResolution(res) == v1290_WriteMicro(\h2400, res)
v1290_ReadEdgeResolution == v1290_ReadMicro(\h2600, WordSize, 3)
v1290_SetDeadtime(deadtime) == v1290_WriteMicro(\h2800, deadtime)
v1290_ReadDeadtime == v1290_ReadMicro(\h2900, WordSize, 3)
v1290_EnableHeader(en) == OneWord(IF en THEN \h3000 ELSE \h3100)
v1290_HeaderIsEnabled == v1290_ReadMicro(\h3200, 2, 1)
v1290_SetMaxHits(max) == v1290_WriteMicro(\h3300, max)
v1290_ReadMaxHits == v1290_ReadMicro(\h3400, 16, 15)
v1290_EnableTDCErrorMark(en) == OneWord(IF en THEN \h3500 ELSE \h3600)
v1290_EnableBypassTDC(en) == OneWord(IF en THEN \h3700 ELSE \h3800)
v1290_SetFIFOSize(size) == v1290_WriteMicro(\h3B00, size)
v1290_ReadFIFOSize == v1290_ReadMicro(\h3C00, 8, 7)
\* The channel is added to the flag, which nothing reads any more, instead
\* of the opcode: the object of the command is always channel 0.
v1290_EnableChannel(chn, en) == OneWord(IF en THEN \h4000 ELSE \h4100)
v1290_EnableAllChannels == OneWord(\h4200)
v1290_DisableAllChannels == OneWord(\h4300)
v1290_WriteEnablePattern(pattern) == v1290_WriteMicro(\h4400, pattern)
v1290_ReadEnablePattern == v1290_ReadMicro(\h4500, WordSize, 65535)

Result(c, answer) ==
  LET low == UInt16(answer) % c.mod
  IN  IF low <= c.max THEN low ELSE 100

\* The set-up frontend_init makes, and the one of the driver's test program.
FrontendSetup ==
  << {v1290_SetEdgeDetection(1)}, {v1290_ReadEdgeDetection},
     {v1290_ReadEdgeResolution}, {v1290_ReadDeadtime},
     {v1290_TriggerMatchingSet}, {v1290_SetWindowWidth(20000)},
     {v1290_SetWindowOffset(-20000)}, {v1290_EnableTriggerSubtraction(TRUE)},
     {v1290_AcqModeRead} >>

TestProgram ==
  << {v1290_SetWindowWidth(40000)}, {v1290_SetWindowOffset(-10000)},
     {v1290_SetExtraMargin(100)}, {v1290_SetRejectMargin(100)},
     {v1290_TriggerConfRead} >>

-----------------------------------------------------------------------------
VARIABLES
  \* the micro controller
  inbox,      \* the word written to it and not yet taken, or None
  awaited,    \* what its next operand is for, NoOperand or Unknown
  outbox,     \* answers the driver has not read, oldest first
  ready,      \* the first of them can be read
  regs,       \* the settings
  \* the driver
  pc,         \* "idle", "write" or "read"
  menu,       \* the client the program is
  calls,      \* calls begun
  call,       \* the latest of them
  i,          \* the word it writes, or the answer it reads, next
  polls,      \* looks at the handshake register it has made for that one
  answers,    \* what v1290_MicroRead has returned in this call
  \* History variables: no guard reads them.
  wanted,     \* the settings asked for
  wlost,      \* the latest call in which v1290_MicroWrite has lost a word, or 0
  rlost       \* the latest call in which v1290_MicroRead has lost an answer, or 0

microVars  == <<inbox, awaited, outbox, ready, regs>>
driverVars == <<menu, pc, calls, call, i, polls, answers>>
histVars   == <<wanted, wlost, rlost>>
vars       == <<microVars, driverVars, histVars>>

NoCall == [words |-> <<None>>, reads |-> 0, mod |-> 1, max |-> 0]

CallsOf(m) == UNION {m[k] : k \in 1..Len(m)}

MenuCalls == UNION {CallsOf(m) : m \in Menus}

Calls ==
  [words : Seq(Word), reads : 0..5, mod : 1..WordSize, max : Word]

IsOperand(w)  == \E o \in Operands : o.op = Command(w)
IsQuestion(w) == \E q \in Questions : q.op = Command(w)
IsLoad(w)     == Command(w) \in Loads
IsOpaque(w)   == Command(w) \in Opaque

\* What every call above keeps to: an opcode that wants an operand comes with
\* one, a question is read out to its last answer, nothing else is read, and
\* nothing is loaded.
CallOK(c) ==
  \/ /\ Len(c.words) = 2
     /\ \E o \in Operands : o.op = c.words[1]
     /\ c.reads = 0
  \/ /\ Len(c.words) = 1
     /\ ~IsOperand(c.words[1]) /\ ~IsLoad(c.words[1]) /\ ~IsOpaque(c.words[1])
     /\ c.reads = 0 => ~IsQuestion(c.words[1])
     /\ c.reads > 0 => \E q \in Questions : /\ q.op = c.words[1]
                                            /\ Len(q.regs) = c.reads

ASSUME MicroAssumption ==
  /\ WritePolls \in Nat
  /\ ReadPolls \in Nat
  /\ \A m \in Menus : /\ m \in Seq(SUBSET Calls)
                      /\ \A k \in 1..Len(m) : \A c \in m[k] : CallOK(c)
  /\ Garbage \subseteq Word
  /\ Configs \subseteq [Regs -> Word]
  /\ Replies \subseteq Seq(Word)

\* Every variable keeps its type.
TypeOK ==
  /\ inbox \in Word \/ inbox = None
  /\ awaited \in Operands \cup {NoOperand, Unknown}
  /\ outbox \in Seq(Word)
  /\ ready \in BOOLEAN
  /\ regs \in [Regs -> Word]
  /\ pc \in {"idle", "write", "read"}
  /\ menu \in Menus
  /\ calls \in 0..Len(menu)
  /\ call \in MenuCalls \cup {NoCall}
  /\ i \in 1..5
  /\ polls \in 0..(IF pc = "write" THEN WritePolls ELSE ReadPolls)
  /\ answers \in Seq(Failed..(WordSize - 1))
  /\ wanted \in [Regs -> Word]
  /\ wlost \in 0..calls
  /\ rlost \in 0..calls

\* After v1290_ModuleReset.  Which settings that leaves is up to the module.
Init ==
  /\ inbox = None
  /\ awaited = NoOperand
  /\ outbox = <<>>
  /\ ready = FALSE
  /\ regs \in Configs
  /\ pc = "idle"
  /\ menu \in Menus
  /\ calls = 0
  /\ call = NoCall
  /\ i = 1
  /\ polls = 0
  /\ answers = <<>>
  /\ wanted = regs
  /\ wlost = 0
  /\ rlost = 0

-----------------------------------------------------------------------------
(***************************************************************************)
(* The micro controller, in its own time: it takes the word written to it, *)
(* as the operand it awaits or else as a command, and puts out the answers *)
(* one by one.  A question may or may not make it drop unread answers.     *)
(***************************************************************************)
Answer(s) ==
  \/ outbox' = outbox \o s /\ ready' = ready
  \/ outbox # <<>> /\ outbox' = s /\ ready' = FALSE

TakeOperand ==
  /\ inbox # None
  /\ awaited \in Operands
  /\ inbox' = None
  /\ awaited' = NoOperand
  /\ regs' = AfterOperand(regs, awaited, inbox)
  /\ UNCHANGED <<outbox, ready, driverVars, histVars>>

TakeCommand ==
  /\ inbox # None
  /\ awaited = NoOperand
  /\ ~IsOpaque(inbox)
  /\ inbox' = None
  /\ IF IsOperand(inbox)
     THEN awaited' \in {o \in Operands : o.op = Command(inbox)}
     ELSE awaited' = NoOperand
  /\ regs' \in IF IsLoad(inbox) THEN Configs ELSE {AfterCommand(regs, inbox)}
  /\ IF IsQuestion(inbox)
     THEN \E q \in Questions : q.op = Command(inbox) /\ Answer(AnswersTo(q, regs))
     ELSE UNCHANGED <<outbox, ready>>
  /\ UNCHANGED <<driverVars, histVars>>

\* The word is an opaque command, or one that such a command goes on with.
TakeOpaque ==
  /\ inbox # None
  /\ awaited = Unknown \/ (awaited = NoOperand /\ IsOpaque(inbox))
  /\ inbox' = None
  /\ awaited' \in {NoOperand, Unknown}
  /\ regs' \in {regs} \cup Configs
  /\ \E s \in Replies : Answer(s)
  /\ UNCHANGED <<driverVars, histVars>>

PutOut ==
  /\ outbox # <<>>
  /\ ~ready
  /\ ready' = TRUE
  /\ UNCHANGED <<inbox, awaited, outbox, regs, driverVars, histVars>>

\* The two bits of the handshake register.
WR_OK == inbox = None
RD_OK == ready

-----------------------------------------------------------------------------
(***************************************************************************)
(* The driver.                                                             *)
(***************************************************************************)
Begin ==
  /\ pc = "idle"
  /\ calls < Len(menu)
  /\ calls' = calls + 1
  /\ call' \in menu[calls + 1]
  /\ pc' = "write"
  /\ i' = 1
  /\ polls' = 0
  /\ answers' = <<>>
  /\ UNCHANGED <<microVars, menu, histVars>>

\* What a call has asked for by the time it returns.
WantedAfter(r, c) ==
  IF Len(c.words) = 2
  THEN AfterOperand(r, CHOOSE o \in Operands : o.op = c.words[1], c.words[2])
  ELSE AfterCommand(r, c.words[1])

\* Mutant of NextWord: the operand is never written.
NextWordOneShort ==
  /\ polls' = 0
  /\ pc' = IF call.reads > 0 THEN "read" ELSE "idle"
  /\ i' = 1
  /\ wanted' = WantedAfter(wanted, call)

\* On to the next word, then to the answers, then back to the caller, whether
\* v1290_MicroWrite has returned 1 or -1.
NextWord ==
  /\ polls' = 0
  /\ IF i < Len(call.words)
     THEN pc' = "write" /\ i' = i + 1 /\ wanted' = wanted
     ELSE /\ pc' = IF call.reads > 0 THEN "read" ELSE "idle"
          /\ i' = 1
          /\ wanted' = WantedAfter(wanted, call)

\* Mutant of NextAnswer: the last answer is not read.
NextAnswerOneShort(a) ==
  /\ answers' = Append(answers, a)
  /\ polls' = 0
  /\ IF i + 1 < call.reads THEN pc' = "read" /\ i' = i + 1
                           ELSE pc' = "idle" /\ i' = 1

NextAnswer(a) ==
  /\ answers' = Append(answers, a)
  /\ polls' = 0
  /\ IF i < call.reads THEN pc' = "read" /\ i' = i + 1
                       ELSE pc' = "idle" /\ i' = 1

\* Mutant of v1290_MicroWrite: the handshake register is not looked at.
MicroWriteBlind ==
  /\ pc = "write"
  /\ polls < WritePolls
  /\ inbox' = call.words[i]
  /\ NextWord
  /\ UNCHANGED <<awaited, outbox, ready, regs>>
  /\ UNCHANGED <<menu, calls, call, answers, wlost, rlost>>

v1290_MicroWrite ==
  /\ pc = "write"
  /\ polls < WritePolls
  /\ WR_OK
  /\ inbox' = call.words[i]
  /\ NextWord
  /\ UNCHANGED <<awaited, outbox, ready, regs>>
  /\ UNCHANGED <<menu, calls, call, answers, wlost, rlost>>

\* Mutant of WriteWait: looks are not counted.
WriteWaitUncounted ==
  /\ pc = "write"
  /\ polls < WritePolls
  /\ ~WR_OK
  /\ UNCHANGED vars

WriteWait ==
  /\ pc = "write"
  /\ polls < WritePolls
  /\ ~WR_OK
  /\ polls' = polls + 1
  /\ UNCHANGED <<microVars, pc, menu, calls, call, i, answers, histVars>>

WriteGiveUp ==
  /\ pc = "write"
  /\ polls = WritePolls
  /\ NextWord
  /\ wlost' = calls
  /\ UNCHANGED <<microVars, menu, calls, call, answers, rlost>>

\* Mutant of v1290_MicroRead: the handshake register is not looked at.
MicroReadBlind ==
  /\ pc = "read"
  /\ polls < ReadPolls
  /\ outbox' = IF RD_OK THEN Tail(outbox) ELSE outbox
  /\ ready' = FALSE
  /\ NextAnswer(IF RD_OK THEN Head(outbox) ELSE 0)
  /\ UNCHANGED <<inbox, awaited, regs, menu, calls, call, histVars>>

v1290_MicroRead ==
  /\ pc = "read"
  /\ polls < ReadPolls
  /\ RD_OK
  /\ outbox' = Tail(outbox)
  /\ ready' = FALSE
  /\ NextAnswer(Head(outbox))
  /\ UNCHANGED <<inbox, awaited, regs, menu, calls, call, histVars>>

ReadWait ==
  /\ pc = "read"
  /\ polls < ReadPolls
  /\ ~RD_OK
  /\ polls' = polls + 1
  /\ UNCHANGED <<microVars, pc, menu, calls, call, i, answers, histVars>>

ReadGiveUp ==
  /\ pc = "read"
  /\ polls = ReadPolls
  /\ NextAnswer(Failed)
  /\ rlost' = calls
  /\ UNCHANGED <<microVars, menu, calls, call, wanted, wlost>>

-----------------------------------------------------------------------------
(***************************************************************************)
(* Accesses that fail.                                                     *)
(***************************************************************************)
\* The handshake register is misread as not ready.
HandshakeMisread ==
  /\ \/ pc = "write" /\ polls < WritePolls
     \/ pc = "read" /\ polls < ReadPolls
  /\ polls' = polls + 1
  /\ UNCHANGED <<microVars, pc, menu, calls, call, i, answers, histVars>>

\* The word does not arrive, or arrives where the micro controller was not
\* ready for it and the handshake register was misread.
WordLost ==
  /\ pc = "write"
  /\ polls < WritePolls
  /\ inbox' \in {inbox, call.words[i]}
  /\ NextWord
  /\ wlost' = calls
  /\ UNCHANGED <<awaited, outbox, ready, regs>>
  /\ UNCHANGED <<menu, calls, call, answers, rlost>>

\* The answer is not what has been read, or there was none and the handshake
\* register was misread.  It may be gone from the module.
AnswerMisread ==
  /\ pc = "read"
  /\ polls < ReadPolls
  /\ \/ outbox # <<>> /\ outbox' = Tail(outbox) /\ ready' = FALSE
     \/ UNCHANGED <<outbox, ready>>
  /\ \E a \in Garbage : NextAnswer(a)
  /\ rlost' = calls
  /\ UNCHANGED <<inbox, awaited, regs, menu, calls, call, wanted, wlost>>

-----------------------------------------------------------------------------
Micro == TakeOperand \/ TakeCommand \/ TakeOpaque \/ PutOut

Driver ==
  \/ Begin
  \/ v1290_MicroWrite \/ WriteWait \/ WriteGiveUp
  \/ v1290_MicroRead \/ ReadWait \/ ReadGiveUp

Fault == HandshakeMisread \/ WordLost \/ AnswerMisread

Next == Micro \/ Driver \/ Fault

Spec == Init /\ [][Next]_vars

\* The driver keeps running; of the micro controller nothing is expected, nor
\* that accesses fail.
FairSpec == Spec /\ WF_vars(Driver)

-----------------------------------------------------------------------------
(***************************************************************************)
(* Properties.                                                             *)
(***************************************************************************)
Done == pc = "idle" /\ calls = Len(menu)

Asked(c) == CHOOSE q \in Questions : q.op = c.words[1]

Told(c) == AnswersTo(Asked(c), regs)

\* Where no v1290_MicroWrite has lost a word, by giving up or by a failed
\* access, the settings of the TDC are those the calls have asked for, in
\* their order, however late its answers are and whatever has been misread:
\* every word has been taken for what the driver meant it to be.
SettingsApplied ==
  pc = "idle" /\ inbox = None /\ wlost = 0 => regs = wanted

\* A lost word makes the next opcode an operand, and its operand a command.
\* A client is harmless if none of its operands, so taken, would be one that
\* wants an operand, asks a question or is opaque; the set-up of
\* frontend_init is.
Harmless(m) ==
  \A c \in CallsOf(m) :
    Len(c.words) = 2 => /\ ~IsOperand(c.words[2])
                        /\ ~IsQuestion(c.words[2])
                        /\ ~IsOpaque(c.words[2])

\* To a harmless client a lost word does no lasting harm: after a call that
\* has lost none, the micro controller awaits a command, and not an operand
\* the driver will never send.
HarmlessInStep ==
  Harmless(menu) /\ pc = "idle" /\ inbox = None /\ wlost < calls =>
    awaited = NoOperand

\* Where nothing has been lost, a call that asks reads the answers to its own
\* question, in their order, and leaves none behind for the next call.
AnswersTrue ==
  pc = "idle" /\ wlost = 0 /\ rlost = 0 =>
    /\ call.reads > 0 => answers = Told(call)
    /\ outbox = <<>>

\* For a harmless client it is enough that no v1290_MicroRead has lost one:
\* answers that came are true, even where words have been lost.
HarmlessAnswersTrue ==
  Harmless(menu) /\ pc = "idle" /\ rlost = 0 /\ call.reads > 0 =>
    answers = Told(call)

\* Where no v1290_MicroWrite has lost a word, frontend_init leaves the TDC in
\* trigger matching mode with a window of 20 us that begins 20 us before the
\* trigger, on trailing edges, with times counted from the trigger: no call
\* undoes another.
SetupApplied ==
  menu = FrontendSetup /\ Done /\ inbox = None /\ wlost = 0 =>
    /\ regs["mode"] = 1
    /\ regs["edge"] = 1
    /\ regs["width"] * 25 = 20000
    /\ Int16(regs["offset"]) * 25 = -20000
    /\ regs["sub"] = 1

\* The set-up, and every other client, ends whatever the micro controller
\* does, or does not do.
CallsEnd == <>Done

\* The looks at the handshake register, or giving up instead, that are left of
\* a call: as many as WritePolls and ReadPolls allow, for two words and five
\* answers.
LooksLeft ==
  CASE pc = "write" -> (2 - i) * (WritePolls + 1) + (WritePolls - polls) + 1
                       + 5 * (ReadPolls + 1)
    [] pc = "read"  -> (5 - i) * (ReadPolls + 1) + (ReadPolls - polls) + 1
    [] OTHER        -> 0

MostLooks == 2 * (WritePolls + 1) + 5 * (ReadPolls + 1)

\* Why calls end: each look of the driver is one less to come, whatever it
\* sees, the micro controller makes it no more, and no call has more than
\* MostLooks.
CallsAdvance ==
  /\ [](LooksLeft \in 0..MostLooks)
  /\ [][IF Driver \/ Fault
        THEN pc = "idle" \/ LooksLeft' < LooksLeft
        ELSE LooksLeft' = LooksLeft]_vars

-----------------------------------------------------------------------------
(***************************************************************************)
(* The inductive invariant behind SettingsApplied and AnswersTrue.         *)
(***************************************************************************)

\* Where the driver is in its call.
CursorInv ==
  /\ pc # "idle" => calls > 0 /\ call \in MenuCalls
  /\ pc = "write" => i \in 1..Len(call.words) /\ answers = <<>>
  /\ pc = "read" => i \in 1..call.reads /\ Len(answers) = i - 1
  /\ ready => outbox # <<>>
  /\ calls > 0 => call \in menu[calls]

\* Between two calls, and before the first word of one: the word on its way,
\* if there is one, makes the settings those asked for.
Settled ==
  IF inbox = None
  THEN awaited = NoOperand /\ regs = wanted
  ELSE IF awaited = NoOperand
       THEN /\ ~IsOperand(inbox) /\ ~IsLoad(inbox) /\ ~IsOpaque(inbox)
            /\ AfterCommand(regs, inbox) = wanted
       ELSE awaited \in Operands /\ AfterOperand(regs, awaited, inbox) = wanted

\* Between an opcode and its operand: the opcode is on its way or taken.
Halfway ==
  /\ regs = wanted
  /\ \/ inbox = call.words[1] /\ awaited = NoOperand
     \/ inbox = None /\ awaited \in Operands /\ awaited.op = call.words[1]

StepInv == wlost = 0 => IF pc = "write" /\ i = 2 THEN Halfway ELSE Settled

\* While no question is open, none is on its way and no answer is left.
NoQuestion ==
  /\ outbox = <<>>
  /\ inbox # None /\ awaited = NoOperand => ~IsQuestion(inbox)

\* What has been read and what is still to be read are the answers.
Answering ==
  /\ inbox = None
  /\ Len(answers) + Len(outbox) = call.reads
  /\ \A k \in 1..Len(answers) : answers[k] = Told(call)[k]
  /\ \A k \in 1..Len(outbox) : outbox[k] = Told(call)[Len(answers) + k]

\* While one is open, it is on its way or being answered.
OpenQuestion ==
  \/ inbox = call.words[1] /\ awaited = NoOperand /\ outbox = <<>> /\ i = 1
  \/ Answering

AnswerInv ==
  wlost = 0 /\ rlost = 0 =>
    /\ pc = "read" => OpenQuestion
    /\ pc # "read" => NoQuestion
    /\ pc = "idle" /\ call.reads > 0 => inbox = None /\ answers = Told(call)

\* To a harmless client nothing opaque happens.  With the last word of a call
\* written, it knows that none is on its way that wants another, and none has
\* been taken that does.
InStepInv ==
  Harmless(menu) =>
    /\ awaited # Unknown
    /\ inbox # None => ~IsOpaque(inbox)
    /\ wlost < calls /\ pc # "write" =>
         IF inbox = None THEN awaited = NoOperand ELSE ~IsOperand(inbox)

\* A question of a harmless client is on its way, or being answered, or has
\* been lost: then there is nothing to read, and v1290_MicroRead gives up.
Unanswered ==
  /\ outbox = <<>>
  /\ inbox # None => ~IsQuestion(inbox)

HonestInv ==
  Harmless(menu) /\ rlost = 0 =>
    /\ pc = "read" =>
         \/ inbox = call.words[1] /\ outbox = <<>> /\ i = 1
         \/ Answering
         \/ Unanswered
    /\ pc # "read" => Unanswered
    /\ pc = "idle" /\ call.reads > 0 => inbox = None /\ answers = Told(call)

\* What the set-up of frontend_init has asked for, and by which call.
SetupAsks ==
  { [reg |-> "edge",   by |-> 1, value |-> 1],
    [reg |-> "mode",   by |-> 5, value |-> 1],
    [reg |-> "width",  by |-> 6, value |-> 800],
    [reg |-> "offset", by |-> 7, value |-> UInt16(-800)],
    [reg |-> "sub",    by |-> 8, value |-> 1] }

SetupInv ==
  menu = FrontendSetup =>
    \A a \in SetupAsks :
      a.by < calls \/ (a.by = calls /\ pc # "write") =>
        wanted[a.reg] = a.value

IInv ==
  /\ TypeOK
  /\ CursorInv
  /\ StepInv
  /\ AnswerInv
  /\ InStepInv
  /\ HonestInv
  /\ SetupInv

-----------------------------------------------------------------------------
(***************************************************************************)
(* Two claims of the source that it does not keep.                         *)
(***************************************************************************)

\* "AcqMode: trigger matching." is what v1290_AcqModeRead prints, and 1 what
\* it returns, when the module is in that mode.
AcqModeTold ==
  pc = "idle" /\ call = v1290_AcqModeRead /\ Result(call, answers[1]) = 1 =>
    regs["mode"] = 1

\* "v1290_SetWindowWidth(myvme, V1290N_BASE, 40000)" of the test program sets
\* the window width that v1290_TriggerConfRead then prints, 40000 ns.
WindowAsAsked ==
  Done /\ wlost = 0 /\ rlost = 0 => answers[1] * 25 = 40000
=============================================================================
