------------------------------- MODULE VmeBus -------------------------------
(***************************************************************************)
(* The VME interface of bit3_vme_drivers/bt617.c and the way the drivers   *)
(* of the RPV130, the V006, the V005 and the V1290N use it.  They share one*)
(* MVME_INTERFACE, whose address modifier and data width the drivers set   *)
(* before they access their module, and one open device file, whose access *)
(* mode and transfer method follow by ioctl.  The result of these ioctls   *)
(* is never looked at.                                                     *)
(*                                                                         *)
(* A driver function is the sequence of calls it makes on the interface,   *)
(* one step each; how often the loops over a status register and over the  *)
(* words of an event turn is a parameter.  The functions are called in any *)
(* order.                                                                  *)
(* Data are left out: a failed read or write goes on as one that has not.  *)
(***************************************************************************)
EXTENDS Integers, Sequences

CONSTANTS
  EventWords,  \* the numbers of words v1290_EventRead may read, 0 without data
  MicroTurns   \* the numbers of accesses that may go into a word of the dialogue

ASSUME TurnsAssumption == EventWords \subseteq Nat /\ MicroTurns \subseteq Nat

VARIABLES
  \* the MVME_INTERFACE
  open,     \* mvme_open has returned
  am,       \* address modifier, "A16", "A24" or "A32"
  dmode,    \* data width in bytes, 2 or 4
  blt,      \* block transfers asked for
  \* the device file
  mode,     \* its access mode
  dma,      \* its transfer method is DMA, not PIO
  \* the program
  todo,     \* calls left of the driver function that runs, or <<>>
  cmodes,   \* data widths saved and not yet restored, latest first
  \* History variables: no guard reads them.
  stale,    \* the latest ioctl of the access mode has failed, in this function
  stuck     \* the latest ioctl of the transfer method has failed

ifVars   == <<open, am, dmode, blt>>
fileVars == <<mode, dma>>
histVars == <<stale, stuck>>
vars     == <<ifVars, fileVars, todo, cmodes, histVars>>

AMs == {"A16", "A24", "A32"}
D16 == 2
D32 == 4

AccessMode(a, d) ==
  [ am    |-> IF a \in {"A24", "A16"} THEN a ELSE "A32",
    dmode |-> IF d = D16 THEN D16 ELSE D32 ]

-----------------------------------------------------------------------------
(***************************************************************************)
(* Calls on the interface.  An access says which space and width its       *)
(* module has there, which is what the code around it relies on.           *)
(***************************************************************************)
Step(op, a, d, b) == [op |-> op, am |-> a, bytes |-> d, on |-> b]

SetAm(a)     == Step("set_am", a, D32, FALSE)
SetDmode(d)  == Step("set_dmode", "A32", d, FALSE)
SetBlt(b)    == Step("set_blt", "A32", D32, b)
Save         == Step("save", "A32", D32, FALSE)
Restore      == Step("restore", "A32", D32, FALSE)
Single(a, d) == Step("single", a, d, FALSE)
Block(a, d)  == Step("block", a, d, FALSE)

Ops == {"set_am", "set_dmode", "set_blt", "save", "restore", "single", "block"}
Steps == [op : Ops, am : AMs, bytes : {D16, D32}, on : BOOLEAN]

Times(n, s) == [k \in 1..n |-> s]

-----------------------------------------------------------------------------
(***************************************************************************)
(* The driver functions.                                                   *)
(***************************************************************************)
Rpv130(n) == <<SetDmode(D16), SetAm("A16")>> \o Times(n, Single("A16", D16))

rpv130_Clear == Rpv130(2)
rpv130_IsBusy == Rpv130(1)        \* IsBusy1, IsBusy2 and IsBusy3
rpv130_ClearBusy == Rpv130(1)     \* ClearBusy1, ClearBusy2 and ClearBusy3
rpv130_Pulse == Rpv130(1)         \* for a channel in 1..8

\* Mutant of v006_access: the address modifier is left as it is.
V006KeepsAm == <<SetDmode(D16), Single("A24", D16)>>

\* v006_clear, v006_readLAM and v006_adc; v005_clear and so on
v006_access == <<SetAm("A24"), SetDmode(D16), Single("A24", D16)>>
v005_access == <<SetAm("A24"), SetDmode(D16), Single("A24", D16)>>

\* Mutant of v1290_Read16: the data width is not restored.
Read16Keeps == <<Save, SetAm("A32"), SetDmode(D16), Single("A32", D16)>>

v1290_Read16 ==
  <<Save, SetAm("A32"), SetDmode(D16), Single("A32", D16), Restore>>
v1290_Read32 ==
  <<Save, SetAm("A32"), SetDmode(D32), Single("A32", D32), Restore>>
\* Mutant of v1290_Write16: the data width is restored without being saved.
Write16Unsaved ==
  <<SetAm("A32"), SetDmode(D16), Single("A32", D16), Restore>>

v1290_Write16 ==
  <<Save, SetAm("A32"), SetDmode(D16), Single("A32", D16), Restore>>

v1290_IsDataReady == v1290_Read16

\* The functions of the registers: most make one access, those that change
\* the control register two.
v1290_Command  == v1290_Write16   \* ModuleReset, SoftClear, EventReset, SoftTrigger
v1290_Status   == v1290_Read16    \* the control and status registers, EventStored,
                                  \* FWRev, ReadEventFIFOStatus
v1290_Level    == {v1290_Write16, v1290_Read16}  \* SetAlmostFullLevel, its reading
v1290_ReadEventCounter == v1290_Read32
v1290_ReadEventFIFO    == v1290_Read32
v1290_Enable   == v1290_Read16 \o v1290_Write16

\* n words of an event: none when no data are ready, at least two otherwise.
v1290_EventRead(n) ==
  <<SetAm("A32"), SetDmode(D32)>> \o v1290_IsDataReady
    \o Times(n, Single("A32", D32))

\* Mutant of v1290_DataRead: block transfer is not switched off again.
DataReadKeepsBlt ==
  <<SetAm("A32"), SetDmode(D32), SetBlt(TRUE), Block("A32", D32)>>

v1290_DataRead ==
  <<SetAm("A32"), SetDmode(D32), SetBlt(TRUE), Block("A32", D32), SetBlt(FALSE)>>

\* n looks at the handshake register and, unless it gives up, the word.
Micro(n) == <<SetAm("A32"), SetDmode(D16)>> \o Times(n, Single("A32", D16))

\* A call that writes some words and reads some answers.
Dialogue(words) == <<Save, SetDmode(D16)>> \o words \o <<Restore>>

v1290_ReadMicro(n)  == Dialogue(Micro(n) \o Micro(n))
v1290_WriteMicro(n) == Dialogue(Micro(n) \o Micro(n))
v1290_TriggerMatchingSet(n) == Dialogue(Micro(n))
v1290_TriggerConfRead(n) ==
  Dialogue(Micro(n) \o Micro(n) \o Micro(n) \o Micro(n) \o Micro(n) \o Micro(n))

Functions ==
  { rpv130_Clear, rpv130_IsBusy, rpv130_ClearBusy, rpv130_Pulse, v006_access,
    v005_access, v1290_IsDataReady, v1290_Command, v1290_Status,
    v1290_ReadEventCounter, v1290_ReadEventFIFO, v1290_Enable, v1290_DataRead }
  \cup v1290_Level
  \cup {v1290_EventRead(n) : n \in EventWords}
  \cup UNION { {v1290_ReadMicro(n), v1290_WriteMicro(n),
                v1290_TriggerMatchingSet(n), v1290_TriggerConfRead(n)} : n \in MicroTurns }

-----------------------------------------------------------------------------
\* Every variable keeps its type.
TypeOK ==
  /\ open \in BOOLEAN
  /\ am \in AMs
  /\ dmode \in {D16, D32}
  /\ blt \in BOOLEAN
  /\ mode \in [am : AMs, dmode : {D16, D32}]
  /\ dma \in BOOLEAN
  /\ todo \in Seq(Steps)
  /\ cmodes \in Seq({D16, D32})
  /\ stale \in BOOLEAN
  /\ stuck \in BOOLEAN

Init ==
  /\ open = FALSE
  /\ am = "A32"
  /\ dmode = D32
  /\ blt = FALSE
  /\ mode = AccessMode("A32", D32)
  /\ dma = FALSE
  /\ todo = <<>>
  /\ cmodes = <<>>
  /\ stale = FALSE
  /\ stuck = FALSE

\* The file is opened in A32 D32 and for programmed transfers, and set to the
\* same mode again.
mvme_open ==
  /\ ~open
  /\ open' = TRUE
  /\ am' = "A32"
  /\ dmode' = D32
  /\ blt' = FALSE
  /\ mode' = AccessMode("A32", D32)
  /\ dma' = FALSE
  /\ stuck' = FALSE
  /\ UNCHANGED <<todo, cmodes, stale>>

\* frontend_exit, or the end of the process: nothing of it is left.
mvme_close ==
  /\ open
  /\ open' = FALSE
  /\ todo' = <<>>
  /\ cmodes' = <<>>
  /\ stale' = FALSE
  /\ UNCHANGED <<am, dmode, blt, fileVars, stuck>>

CallFunction ==
  /\ open
  /\ todo = <<>>
  /\ todo' \in Functions
  /\ stale' = FALSE
  /\ UNCHANGED <<ifVars, fileVars, cmodes, stuck>>

-----------------------------------------------------------------------------
Does(op) == todo # <<>> /\ Head(todo).op = op /\ todo' = Tail(todo)

\* The ioctl that hands am and dmode on to the file, which may fail.
bt617_SetAccessMode(a, d) ==
  \/ mode' = AccessMode(a, d) /\ stale' = FALSE
  \/ mode' = mode /\ stale' = TRUE

mvme_set_am ==
  /\ Does("set_am")
  /\ am' = Head(todo).am
  /\ bt617_SetAccessMode(am', dmode)
  /\ UNCHANGED <<open, dmode, blt, dma, cmodes, stuck>>

mvme_set_dmode ==
  /\ Does("set_dmode")
  /\ dmode' = Head(todo).bytes
  /\ bt617_SetAccessMode(am, dmode')
  /\ UNCHANGED <<open, am, blt, dma, cmodes, stuck>>

\* mvme_get_dmode(mvme, &cmode) ... mvme_set_dmode(mvme, cmode)
mvme_get_dmode ==
  /\ Does("save")
  /\ cmodes' = <<dmode>> \o cmodes
  /\ UNCHANGED <<ifVars, fileVars, histVars>>

RestoreDmode ==
  /\ Does("restore")
  /\ dmode' = Head(cmodes)
  /\ cmodes' = Tail(cmodes)
  /\ bt617_SetAccessMode(am, dmode')
  /\ UNCHANGED <<open, am, blt, dma, stuck>>

mvme_set_blt ==
  /\ Does("set_blt")
  /\ blt' = Head(todo).on
  /\ \/ dma' = blt' /\ stuck' = FALSE
     \/ dma' = dma /\ stuck' = TRUE
  /\ UNCHANGED <<open, am, dmode, mode, cmodes, stale>>

\* mvme_read_value and mvme_write_value; mvme_read of a block.
Access ==
  /\ Does("single") \/ Does("block")
  /\ UNCHANGED <<ifVars, fileVars, cmodes, histVars>>

Next ==
  \/ mvme_open \/ mvme_close \/ CallFunction
  \/ mvme_set_am \/ mvme_set_dmode \/ mvme_get_dmode \/ RestoreDmode
  \/ mvme_set_blt \/ Access

Spec == Init /\ [][Next]_vars

-----------------------------------------------------------------------------
(***************************************************************************)
(* Properties.                                                             *)
(***************************************************************************)
Accessing == todo # <<>> /\ Head(todo).op \in {"single", "block"}

\* A module is only accessed in its own space and width, whichever modules
\* the functions before this one have accessed, unless the latest ioctl has
\* failed, and that in this very function: a failure of one function's ioctl
\* does not reach the accesses of the next.
AccessInMode ==
  Accessing /\ ~stale => mode = AccessMode(Head(todo).am, Head(todo).bytes)

\* mvme_read_value moves as many bytes as the code around it takes from its
\* result, whether ioctls fail or not: no bytes of "value" it has not read
\* get into a register value or an event word.  For the words of an event
\* this hangs on v1290_IsDataReady restoring the data width.
WholeWords ==
  Accessing /\ Head(todo).op = "single" => dmode = Head(todo).bytes

\* Single words are transferred by DMA only where the ioctl that should have
\* ended a block transfer has failed; then all later ones are, until the next
\* block transfer, or until the file is closed.
SinglesByPio ==
  Accessing /\ Head(todo).op = "single" /\ ~stuck => ~dma

-----------------------------------------------------------------------------
(***************************************************************************)
(* The inductive invariant.  q stands for todo, k for a place in it.       *)
(***************************************************************************)
IsAccess(s)   == s.op \in {"single", "block"}
SetsWidth(s)  == s.op \in {"set_dmode", "restore"}
MovesStack(s) == s.op \in {"save", "restore"}

\* The address modifier at q[k] will be a, if it is now am0.
AmAt(q, am0, k, a) ==
  \/ \E j \in 1..(k - 1) :
       /\ q[j].op = "set_am" /\ q[j].am = a
       /\ \A i \in (j + 1)..(k - 1) : q[i].op # "set_am"
  \/ am0 = a /\ \A i \in 1..(k - 1) : q[i].op # "set_am"

\* The data width at q[k] will be d, if it is now d0 and is not restored.
WidthHeld(q, d0, k, d) ==
  \/ \E j \in 1..(k - 1) :
       /\ q[j].op = "set_dmode" /\ q[j].bytes = d
       /\ \A i \in (j + 1)..(k - 1) : ~SetsWidth(q[i])
  \/ d0 = d /\ \A i \in 1..(k - 1) : ~SetsWidth(q[i])

\* The data width that q[k] restores will be d, if c0 are those saved now.
WidthSaved(q, d0, c0, k, d) ==
  \/ \E j \in 1..(k - 1) :
       /\ q[j].op = "save" /\ WidthHeld(q, d0, j, d)
       /\ \A i \in (j + 1)..(k - 1) : ~MovesStack(q[i])
  \/ /\ c0 # <<>> /\ Head(c0) = d
     /\ \A i \in 1..(k - 1) : ~MovesStack(q[i])

\* The data width at q[k] will be d, whether set or restored.
WidthAt(q, d0, c0, k, d) ==
  \/ WidthHeld(q, d0, k, d)
  \/ \E j \in 1..(k - 1) :
       /\ q[j].op = "restore" /\ WidthSaved(q, d0, c0, j, d)
       /\ \A i \in (j + 1)..(k - 1) : ~SetsWidth(q[i])

\* Every access will find the interface in its module's space and width.
AccessesSet(q, am0, d0, c0) ==
  \A k \in 1..Len(q) : IsAccess(q[k]) =>
    AmAt(q, am0, k, q[k].am) /\ WidthAt(q, d0, c0, k, q[k].bytes)

\* Every width to be restored is one that has been saved.
Paired(q, c0) ==
  \A k \in 1..Len(q) : q[k].op = "restore" =>
    \/ \E j \in 1..(k - 1) :
         q[j].op = "save" /\ \A i \in (j + 1)..(k - 1) : ~MovesStack(q[i])
    \/ c0 # <<>> /\ \A i \in 1..(k - 1) : ~MovesStack(q[i])

\* An ioctl of the access mode comes before every access.
ModeFirst(q) ==
  \A k \in 1..Len(q) : IsAccess(q[k]) =>
    \E j \in 1..(k - 1) : q[j].op = "set_am" \/ SetsWidth(q[j])

\* The file follows the interface, or will before it is used.
ModeInv == ModeFirst(todo) \/ (~stale => mode = AccessMode(am, dmode))

\* Block transfers are off, or will be before the function returns, and
\* until then it makes no single transfers.
BltOff(q, b) ==
  \/ ~b /\ \A k \in 1..Len(q) : q[k].op # "set_blt"
  \/ /\ q # <<>> /\ q[Len(q)].op = "set_blt" /\ ~q[Len(q)].on
     /\ \A k \in 1..Len(q) : q[k].op # "single"

\* What every step of the interface keeps: the calls a driver function has
\* left set up the accesses it has left.
BusInv ==
  /\ TypeOK
  /\ AccessesSet(todo, am, dmode, cmodes)
  /\ Paired(todo, cmodes)
  /\ ModeInv
  /\ IF open THEN BltOff(todo, blt) ELSE todo = <<>>
  /\ ~stuck => dma = blt
=============================================================================
