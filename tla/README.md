# TLA+ verification of gejp_daq

gejp_daq is the data acquisition of a test bench: a MIDAS front end reads a
V006 pulse-height ADC and a CAEN V1290N multi-hit TDC over a Bit3 VME bridge,
gated by trigger logic that a RPV130 I/O register acknowledges, and a MIDAS
analyzer fills histograms. This directory holds TLA+ modules that model it,
TLC configurations that check them, and proofs that TLAPS checks. Paths are
relative to the repository root.

1. [The system](#the-system)
2. [Modules](#modules)
3. [Front end and trigger logic](#front-end-and-trigger-logic)
4. [Readout on a failing bus](#readout-on-a-failing-bus)
5. [Events, words and registers of the V1290N](#events-words-and-registers-of-the-v1290n)
6. [Dialogue with the V1290N](#dialogue-with-the-v1290n)
7. [VME interface](#vme-interface)
8. [Analyzer](#analyzer)
9. [Runs, bounds and what they show](#runs-bounds-and-what-they-show)
10. [Proofs](#proofs)
11. [Not modelled, and plan](#not-modelled-and-plan)

## The system

| part | state | operations | who calls it |
|---|---|---|---|
| trigger logic (`schematic/testdaq_v1.png`) | flip flop (veto), RPV130 busy 3 latch, V006 value and LAM, V1290N event buffer | a NaI pulse, conversion, trigger matching | the detector |
| RPV130, V006, V1290N drivers (`bit3_vme_drivers/`) | none but the modules' registers | `rpv130_*`, `v006_*`, `v1290_*` | the front end |
| VME interface (`bt617.c`) | address modifier, data width, block-transfer mode, the device file's access mode | `mvme_set_am`, `mvme_set_dmode`, `mvme_set_blt`, `mvme_read*`, `mvme_write*` | the drivers |
| V1290N micro controller dialogue (`v1290.c`) | opcode or operand awaited, answers not yet read, the TDC's settings | `v1290_MicroWrite`, `v1290_MicroRead` and the calls built on them | `frontend_init` |
| V1290N event readout (`v1290.c`) | the words stored so far, the output buffer | `v1290_IsDataReady`, `v1290_EventRead`, `v1290_SoftClear`, `v1290_DataRead` | `read_trigger_event` |
| V1290N registers and words (`v1290.c`, `v1290.h`) | control register, event FIFO; the layout of a word | `v1290_Enable...`, `v1290_ReadEventFIFO`, `v1290_Decode`, `V1290_GET_...` | test programs, the analyzer |
| front end (`src/frontend.cc`) | `evt_cnt`, the poll counter, the event being built | `frontend_init`, the run transitions, `poll_event`, `read_trigger_event` | MIDAS's main loop |
| analyzer (`src/analyzer.cc`, `mhtdc_ana.cc`, `phadc_ana.cc`) | the times of an event, histograms; the SYSTEM buffer before it | `mhtdc_ana`, `phadc_ana` | MIDAS, per event |
| scripts (`start_daq.sh`, `kill_daq.sh`) | processes | start, `killall` | the operator |

What is hard about it: the front end is one thread, but the crate is not. The
NaI counter triggers between any two VME accesses, and the protocol that keeps
the next trigger out (a flip flop that only the last access of the readout
resets, a latch that `poll_event` clears before the readout begins) is spread
over four functions and two modules. The process can be killed between any two
accesses while the crate keeps its state. The micro controller of the V1290N
may answer late or not at all, and the driver ignores most of its own error
returns. All drivers share one VME interface whose mode each of them changes.
Any access may fail, and nobody is told: a lost write is a step without its
effect, a failed read gives a value nobody has written. Words are told apart
by bits, of which not every place in the code looks at the same ones. The
analyzer asks for events without holding up the front end, so it misses some.

What makes each part correct:

- *trigger logic and front end*: the veto is never left set with nothing to
  lift it; the words of an event are of one trigger; every accepted trigger
  becomes one event and no event is made of none; the main loop is always
  reached again, so that a run can be stopped.
- *V1290N dialogue*: every word is taken for what the driver meant, every
  answer is to the question last asked; the set-up of `frontend_init` ends, and
  leaves the TDC as asked; what lost words and late answers can break.
- *VME interface*: every module is accessed in its own address space and width
  whatever was accessed before; single words never move by DMA.
- *V1290N event readout*: each readout takes the words of one event, the
  oldest, and leaves the next whole; its loops end, and what they store fits.
- *V1290N registers and words*: decoding inverts what the module encodes;
  enabling one function leaves the others alone.
- *analyzer*: an event makes the entries of its own bank and no others; an
  index that leaves its array has a channel above 2, and nothing else, behind it.
- *any of them on a failing bus*: what a failure breaks is put right by the
  next run or by the next readout, or is named.

The hazards of the code, each at its line and with the properties that cover
it, are listed in `PROJECT.json`.

## Modules

| module | models | is used by |
|---|---|---|
| `TriggerHardware` | the crate the front end sees, and the driver calls on it | `FrontEnd` |
| `FrontEnd` | `src/frontend.cc`, running against that crate | `FrontEndFaults`, `MCFrontEnd`, `FrontEndProofs` |
| `RunLedger` | abstract: the books of a run | refined by `FrontEnd` |
| `FrontEndFaults` | the same when any access may fail | `MCFrontEndFaults`, `FrontEndFaultsProofs` |
| `FaultyLedger` | abstract: those books where a failure may unsettle them | refined by `FrontEndFaults` |
| `V1290Words` | the words of the output buffer: what the module puts in, what masks and shifts take out | `V1290Event`, `Analyzer`, `V1290WordsProofs` |
| `V1290Event` | the event readout, one step per access | `MCV1290Event`, `V1290EventProofs` |
| `EventQueue` | abstract: a queue of events, each read as one | refined by `V1290Event` |
| `Analyzer` | the SYSTEM buffer and the analyzer's modules | `MCAnalyzer`, `AnalyzerProofs` |
| `V1290Registers` | control register and event FIFO | `MCV1290Registers`, `V1290RegistersProofs` |
| `V1290Micro` | the driver's dialogue with the micro controller, and the micro controller | `MCV1290Micro`, `V1290MicroProofs` |
| `VmeBus` | `bt617.c` and its use by the four drivers | `MCVmeBus`, `VmeBusProofs` |
| `FrontEndProofs`, `FrontEndFaultsProofs`, `V1290EventProofs`, `V1290WordsProofs`, `AnalyzerProofs`, `V1290RegistersProofs`, `V1290MicroProofs`, `VmeBusProofs` | theorems; `V1290WordsProofs` holds the lemmas on words that `AnalyzerProofs` uses | |

`FrontEnd` is composed with `TriggerHardware` by extension: the crate's actions
and the program's steps interleave freely. It takes a VME access as atomic and
successful, the event readout as one step, and `frontend_init`'s set-up of the
TDC as done. What happens inside these three is what `VmeBus` and
`FrontEndFaults`, `V1290Event`, and `V1290Micro` are about. `EventQueue` is the
event buffer of `TriggerHardware` and `FrontEndFaults` seen from the word loops:
`Match` appends, a read takes the oldest event or nothing, a failed one loses
any number of them and gives a garbled bank.

Definitions that begin with "Mutant of" in their comment are plausible
mistakes, each of which makes one of the properties fail; no specification
uses them.

## Front end and trigger logic

One action is one VME access that reads or changes crate state, with the
program's code up to the next; the program is at `pc`.

| code | actions |
|---|---|
| `frontend_init` | `StartProcess`, `InitClear`, `InitReset` |
| `begin_of_run` | `BeginRun`, `BorPulse1`, `BorPulse2` |
| `end_of_run`, `pause_run`, `resume_run` | `EndRun`, `PauseRun`, `ResumeRun` |
| `poll_event` | `StartPoll`, `PollHit`, `PollMiss`, `PollEnd`, `PollClear` |
| `read_trigger_event` | `ReadLam`, `ReadAdc0`, `ReadAdc1`, `ReadTdc`, `ReadPulse2`, `ReadClear`, `ReadPulse1` |
| `kill_daq.sh`, a crash | `Kill` |
| other clients of MIDAS change the run | `RunControlWhileDown` |

Data are the number of the trigger they come from, which is what "of one
trigger" needs. Words the code leaves unwritten (`pdatad[0..1]` without a LAM,
the bank at `ptdc + nbyte` without an assigned `nbyte`) are `Unset`, and the
unassigned length is a choice between no words and such words.

External assumptions, from how the code uses what is not in the repository:

- MIDAS calls the functions of a front end from one loop and never one inside
  another; it polls only in a running run, and the state of the run is in its
  database, which survives the front end.
- A pulse that passes the coincidence unit sets the flip flop, gates the V006,
  latches busy 3 and triggers the V1290N at once, on the scale of a VME access.
- A second gate before the V006 was reset replaces the pulse height or leaves
  it; conversion and trigger matching take any time, or never end.
- The V1290N stores events in trigger matching mode from `v1290_ModuleReset`
  on; `v1290_SoftClear` and `v1290_ModuleReset` drop stored and pending events.
- Nothing reads busy 1, so `rpv130_ClearBusy1` is left out.

*In step.* `begin_of_run` clears busy 3 (line 163) before it resets the flip
flop and the V006, so a trigger in between makes the run begin with a readout
that overlaps the next trigger: such events may mix triggers, and one may be
lost. This heals: when a readout ends with busy 3 down nothing is left of any
earlier trigger, and `synced` (a history variable) records it. The strong
properties are stated from there on, and `SyncNeverLost` says that they last
to the end of the run. `NoStuckVeto` and `NoSurplusEvents` need no such
condition: they hold from the first step of `begin_of_run`.

`RunLedger` is what the event counter means without crate or program: accepted
and recorded triggers take turns once the books are balanced. `LedgerSpec` is
`FrontEnd`'s refinement of it.

*Fairness*: weak fairness of `Program`, the steps the process makes once it
has been called. It is one thread in which nothing blocks: the loops are
bounded and every wait is a `usleep`. Nothing is assumed of the detector, the
operator, the crate or the restart of a process. (MIDAS' loop is part of
`Program` through `StartPoll`: in a running run it keeps polling.)

## Readout on a failing bus

`mvme_write_value` returns -1 when a write has not reached its module, and no
driver function looks at it; `mvme_read_value` returns an uninitialized
variable when a read has failed. `FrontEndFaults` keeps every action of
`FrontEnd` for the accesses that succeed and gives each a twin for those that
fail: the same step of the program without the effect on the crate
(`LostWrite`, `BeginRunLost`, `BorPulse2Lost`, `EndRunLost`), or with any value
the read can return (`PollMisread`, `LamMisread`, `AdcMisread`, `TdcMisread`).
Failures are not counted. `health`, a history variable, says what the failures
of the run have left.

The code retries nothing. That it recovers all the same is due to the
unconditional writes every run begins and every readout ends with: one
`begin_of_run` without a failure restores everything (`RunRecovers`); one
readout without a failure that ends with busy 3 down restores everything but
the balance of the event counter (`ReadoutRecovers`). Counting gets right even
sooner: from any readout that ends with busy 3 down until the next access
fails, each trigger has its event, whatever the failures have left in the
modules (`ReadoutCounts`). What nothing restores within a run is the loss
of the write that lifts the veto (`OnlyPulse1Sticks`).

`FaultyLedger` puts this in terms of the books alone: it is `RunLedger` with two
more steps. A failure may unsettle balanced books, with or without an event on
the way (`Slip`), and books that are not balanced may get an event without a
trigger (`RecordLoosely`), from a busy 3 that a failed write has left or a LAM
read wrongly. Nothing else is different: once balanced, triggers and events
take turns until the next failure or the end of the run. `FaultLedgerSpec` is
this refinement. `SyncLostToFailures` says the same of being in step: no step
that succeeds ends it, so a failure does its harm at once or never.

## Events, words and registers of the V1290N

*Event readout.* In `V1290Event` one step is one access of `read_trigger_event`
to the V1290N: `AskForData`, `AskAgain` (`v1290_EventRead` asks a second time),
`ReadHeader` and `ReadRest`, the two loops of `v1290_EventRead`, and
`SoftClear`. The output buffer is external: trigger matching puts whole events
into it at any time, each read takes one word, and an empty buffer gives filler
words. A word is its type and the number of its event. The loops test bits of
the type: bit 30, which headers and fillers have, begins an event; bit 30 or
31, which these, the time tag and the trailer have, ends it. So where the
trigger time tag is enabled, a readout ends at it and leaves the trailer to
`v1290_SoftClear`. A failing read gives a word of any of three types, which are
all the loops tell apart, and may have taken one out of the buffer. A process
killed inside the loops leaves part of an event behind; `frontend_init` resets
the module.

`EventQueue` is what the caller relies on. The refinement maps the event whose
header has been stored, if only its words have, and the events not begun, to
the queue: `ReadsWholeEvents`. `hurt` and `sure` are history variables: an
access has failed in this readout, none has failed since the last clear.

*Fairness*: weak fairness of `Program`, once more one thread that blocks
nowhere. `ReadoutEnds` also rests on two facts of the module: its buffer hands
out fillers when it is empty, whose two uppermost bits are set, and events are
finite. Failures are counted in this model, so that they do not go on for ever.

*Words.* A word is its type and the integer of its other 27 bits. `Encode` puts
the fields the V1290N's formats have into it, and masks and shifts are written
as `\div` and `%`. `v1290_Decode` is all cases of the function. `Analyzer`
applies both to the words of its banks (`WordsTell`). The two places that read
a hit disagree on its time: `V1290_DATA_MASK` has 21 bits,
`V1290_TDC_MSR_MEASURE_MSK` 19.

*Registers.* `V1290Registers` has the enable functions of the control register,
with the arithmetic of the code, in any order, on a register of any content,
with reads that return what is on the stack and writes that are lost. `known`
is what a caller may conclude of each bit from the calls that succeeded. The
event FIFO gets one word per event while it is enabled, and
`v1290_ReadEventFIFO` takes it apart. The code's `dest[1]` (here `dest[2]`) is
the length of the event, `FifoTellsLength`. Its `dest[0]` is what `main` in
`v1290.c` prints as "event cnt" (714-715, 728-729, in `#if 0`), but the upper
half of the word is masked where it should be shifted, and always 0 is left:
`FifoTellsNumber` is `main`'s claim, which no run states, and the theorem
`FifoNumberLost` says that the code breaks it for every event whose number is not
a multiple of 65536. Enabling a function that
is on disables it, and may change the bits above it, since the enables add
their bit; `KnownBits` is what remains true. The commands, counters and the
other reads are one access each and are in `VmeBus`.

## Dialogue with the V1290N

One step of the driver is one look at the handshake register with the word it
moves when the module is ready; each call of `v1290.c` is a record
of the words it writes and the answers it reads, so that one set of actions
(`Begin`, `v1290_MicroWrite`, `WriteWait`, `WriteGiveUp`, `v1290_MicroRead`,
`ReadWait`, `ReadGiveUp`) stands for all. Conversions are what the code does
with integers of C: `(int16_t) width / 25` casts first, `-51200` is clamped
and then cast, a result is masked before it is compared. A loop that gives up
is followed by the next word, the next answer or the return to the caller, as
in the code, which ignores the -1.

The client is one of the constant `Menus`: the i-th call of `menu` is one of
`menu[i]`. The models give it the set-up of `frontend_init`, arbitrary calls and, in
`micro_test`, the driver's test program. `CallOK` is what the calls of `v1290.h` have in
common.

The micro controller is external: the high byte of a word is its command and
the low byte its object, an opcode that sets something with an operand takes
the next word for it, whatever it is, an opcode that asks is answered with the
settings of the moment. It takes and answers in its own time or never. A new
question may or may not make it drop the answers not yet read. After
`v1290_ModuleReset` no dialogue is open and the settings are any of `Configs`.

Since a lost opcode makes its operand a command, the model has all commands that
`v1290.h` names (75-155), not only those the functions send:

| commands | in the model |
|---|---|
| those the functions send | `Operands`, `Directs`, `Questions` and the two that set a bit of the pattern |
| load the default or the user configuration (`0x0500`, `0x0700`) | `Loads`: the settings become any of `Configs` |
| keep-token, save and autoload (`0x0300`, `0x0400`, `0x0600`, `0x0800`, `0x0900`) | no setting of the model |
| all others, from `0x2500` to `0xC800` | `Opaque`: what they want, answer and set is not said there, so any of it may happen (`TakeOpaque`): any number of words, any of `Replies`, any of `Configs` |

That words `v1290.h` has no command for are ignored is an assumption.

*Fairness*: weak fairness of `Driver` alone; nothing is expected of the module.

Any access may fail, and nobody is told: the handshake register is misread as
not ready (`HandshakeMisread`) or as ready, so that a word is written over one
not yet taken or is lost (`WordLost`), and the read of an answer returns what is
on the stack, one of `Garbage`, whether the answer is gone then or not
(`AnswerMisread`). `wlost` and `rlost` remember the latest call that lost a word
or an answer, to the bounds of the loops or to the bus.

The driver has no means to tell a late answer or a lost operand, so the
general properties are conditional on nothing having been lost. Less is needed of
a `Harmless` client, none of whose operands would ask something, want an
operand or be opaque if it were taken for an opcode; it may set or load
something. `HarmlessInStep` and `HarmlessAnswersTrue` hold of it where words have
been lost. `frontend_init` is one, and `SetupApplied` is what its nine calls leave behind.

## VME interface

A driver function is the sequence of calls it makes on the interface, loops
with any of the numbers of turns in `EventWords` and `MicroTurns`; after one
has returned any other may be called, for ever, and the file may be closed
and opened again. Any of the ioctls may fail, as the code allows by not
looking. Block transfers are made by `v1290_DataRead` alone, which nothing calls.
The file opens in A32, D32 and programmed transfers, as
`mvme_open` sets right after. An access carries the space and the width its
module has, and the properties compare these with the state of the file and of
the interface. What a failed transfer makes of a value is left to
`FrontEndFaults`, `V1290Event` and `V1290Registers`. `v005.c` has the functions
of `v006.c` for another module, and its values go nowhere in this repository;
its accesses are here.

## Analyzer

`Send` is the front end, which puts events into the SYSTEM buffer; a full
buffer loses its oldest event, as `GET_NONBLOCKING` in `analyzer.cc` lets it.
MIDAS takes an event (`Take`) and calls `phadc_ana`, then `mhtdc_ana`, which
returns on an empty bank, else resets `t`, makes one turn per word (`Word`) and
fills (`Fill`). Banks are words of `V1290Words`, the macros are those of
`v1290.h`. Times are in units of 25 ps, where the code scales and shifts them as
floats; an entry is a histogram with its value, and binning is left out. A
channel above 2, which the TDC has, stores a time outside of `t`: `stray`
remembers it, and after it the process may crash in any function that uses a
histogram. A killed analyzer loses its request and its place in the buffer.

*Fairness*: weak fairness of `Analyze`: MIDAS calls the modules while events
come.

## Runs, bounds and what they show

| run | cfg | about | bounds |
|---|---|---|---|
| `readout` | `MCFrontEnd.cfg` | safety, the refinement of `RunLedger` and that the veto is lifted and the main loop reached, with every interleaving of triggers, transitions, accesses and kills | 6 triggers, `count` 2 |
| `init`, `poll` | `MCFrontEndInit.cfg`, `...Poll` | two comments of `frontend.cc` the code does not keep | 4 triggers, `count` 2 |
| `micro` | `MCV1290Micro.cfg` | the nine calls of `frontend_init`, any three calls of seven kinds, two clients that begin with an operand that is a command, accesses that fail at any place and any number of times | two looks per word, misread answers are 0, two configurations, opaque commands answer nothing or two words |
| `micro_acqmode`, `micro_test` | `MCV1290MicroAcqMode.cfg`, `...Test` | two claims of `v1290.c` it does not keep | two looks per word |
| `vme_bus` | `MCVmeBus.cfg` | functions in any order | events of 0, 2 or 3 words, 1 or 2 accesses per word of the dialogue |
| `readout_faults` | `MCFrontEndFaults.cfg` | accesses that fail, at every place and any number of times | 3 triggers, `count` 1, failures while the run has at most 1 event |
| `event_read` | `MCV1290Event.cfg` | the word loops, their refinement of `EventQueue`, their end | 3 events of three shapes, 2 failures |
| `registers` | `MCV1290Registers.cfg` | enables and FIFO, with failing accesses | 4 calls, 1 event |
| `analyzer` | `MCAnalyzer.cfg` | events through a buffer that overflows, kills; every type of word | 4 events of seven banks and the empty one, room for 2 |
| `analyzer_times` | `MCAnalyzerTimes.cfg` | the times in the histograms | 1 event |

*Bounds.* `MaxTrig` is the only bound on the length of a front-end behaviour:
runs, polls, kills and restarts are not counted. Falling out of step takes two
triggers (one inside `begin_of_run`, one in the readout of the first), getting
back takes a third, the end of a run with an event unread a fourth, and two
more are left to go wrong after that. The proofs remove the bound. `PollCount`
2 lets the loop miss, then hit, or miss twice and end. Deadlock is checked: the
program and the operator can always move.

In the dialogue two looks are every outcome of a word: moved at once, moved
after a wait, or given up. Three calls are what one
needs to disturb a second and for a third to show it. The seven kinds hold one
call of each shape: set by opcode, set bit by bit, set with operand (clamped and
negative), asked with one, of one bit or sixteen, and with five answers, and an
operand, `0x1100`, that would itself be an opcode. The two other clients begin
with an operand that is a load (`0x0500`, which is harmless) or opaque (`0x3900`,
which is not), followed by a call that sets or asks, and by a question. The
two configurations both differ from what is asked for, so that a load shows. This is the
largest run, of 1.15 million states. The proofs remove these bounds. These
models end when their calls do, so their configurations switch the deadlock
check off. `VmeBus` counts nothing; its loops over a status register or over
the words of an event make a few turns, since a turn leaves the state of the
interface as it was.

`MaxEvents` of `FrontEndFaults` ends the failures, not the run: the triggers
that are left then show whether the readout has recovered. Three of them do:
one read wrongly, one read rightly, one to be counted after that. The two
failures of `event_read` are one that hurts a readout and a clear that gets
lost after it, so that the next readout begins on what is left; the third
event is the one that must not suffer. Its three shapes are an event of two
words, one that ends with the time tag, one of the words of a TDC. Four calls
of the enable functions are enough to make a bit unknown, to disable it, to
enable it and to enable another. In `analyzer` a buffer of two loses its first
event with the third; the fourth is then analyzed after the gap. One bank has a
word of each type with all fields at their upper ends. The proofs
remove all these bounds.

*What the passing runs show.* Where nothing is lost on the way, the readout
protocol is sound: no stuck veto, no mixed events, no lost or double counted
trigger once in step, which it stays. The TDC is set as asked, and what is read
back is true, unless the bounded loops give up or accesses fail; the set-up ends in any case. No
driver accesses its module in another one's mode unless the ioctl of that very
function failed. On a bus that fails the readout recovers by itself from all
but one failure, and the next run from that. `v1290_EventRead` reads whole
events, in order, and ends; without a failed read it never stores more words
than an event has. (With one, `max_event_size` of `frontend.cc` is no bound: a
missed end of an event lets the loop run on into the next.) `v1290_Decode` is
right for every word, and so are the macros but for two bits of the time. The
analyzer fills what the event's own bank calls for, and time differences are
right unless the two hits lie on either side of a multiple of 13.1 us.
Disabling a function of the control register always works, and enabling it
works after that.

*What the five others show.*

- `init`: `frontend.cc:103` says that `frontend_init` should initialize the
  hardware. It leaves the flip flop alone; a process
  killed inside a readout's or `begin_of_run`'s accesses and started again into
  a run that goes on can find it set with busy 3 down, and then waits for ever.
- `poll`: `frontend.cc:209` says that `poll_event` returns TRUE if an event is
  available. After the overlap described above it returns TRUE with nothing in
  either module.
- `micro_acqmode`: `v1290_AcqModeRead` masks the -1 of a read that gave up and
  reports trigger matching whatever the mode.
- `micro_test`: the test program asks for a window of 40000 ns, which the cast
  before the division makes negative.
- `analyzer_times`: `mhtdc_ana.cc:45` books times up to 20 us, the window the
  front end sets; from 13.1 us on they wrap.

## Proofs

All but one of the proof modules follow one argument: an inductive invariant,
which a TLC run checks on the small instance as well (`IInv`, `FaultInv`,
`EventInv`, `BusInv`, or the property itself), is shown to hold initially
and to be preserved by every action; the properties follow from it.

`FrontEndProofs`, for every `MaxTrig` and `PollCount` in `Nat`
(`MaxTrigAssumption`, `PollCountAssumption`): the type invariant, the five
safety invariants of `readout`, `SyncNeverLost` and the refinement
`LedgerSpec`, whose lemma `LedgerStep` asks no more of a state than that flip
flop, busy 3 and the program go together. No property is inductive alone. `NoStuckVeto` needs `PollInv`
(busy 3 is still up where `poll_event` is about to lower it). `NoSurplusEvents`
needs `LedgerInv`, which counts a latched busy 3 and an event not yet counted
as triggers spent. The properties of a readout in step need `SyncShape`: with
no trigger held the crate is clear, and a trigger held is the only one
anywhere, at each point of the readout; `CountInv`, the same for the event
counter; and `ResetInv`, by which a readout that ends with busy 3 down has seen
no trigger since its clears, so that getting into step establishes both.
`BaseInv` is what needs no history of the run, and is preserved on its own.

`FrontEndFaultsProofs`, for every `MaxTrig`, `PollCount` and `MaxEvents` in
`Nat`: `RunRecovers`, `ReadoutRecovers`, `ReadoutCounts`, `OnlyPulse1Sticks`,
`SyncLostToFailures` and the refinement `FaultLedgerSpec`, from `FaultInv`.
It says which of the parts above hold at which state of `health`: all of `IInv`
while the run has had no failure, `BaseInv` already while a readout is being
made without one, `SyncShape` after it. `CountInv` needs no `health`: while the
readout is in step, flip flop, busy 3 and program go together (`FlagShape`),
which is enough to tell the triggers that have events. The proofs of `FrontEnd`'s
steps are reused, not repeated. So is its refinement: a step that succeeds is one
of `RunLedger` unless a readout that is not in step counts an event
(`LedgerStep`, `LooseRecord`), and `FaultBooks` has the failing ones.

`V1290EventProofs`, for every set of events that begin with a header and end
with a trailer, every number of events and failures (`EventsAssumption`,
`BoundsAssumption`): the type invariant, `FitsEvent` and the refinement
`ReadsWholeEvents`, from `EventInv`. Its core is `RestInv`: inside the second
loop what has been stored and what is left make up one event, or an access has
failed; in the latter case more than one word gets stored only if one has in
this very readout, since what an earlier failure leaves behind is at most the
rest of one event. Without `PartInv`, by which a begun event has lost its
header, that rest could begin another.

`V1290WordsProofs` shows by arithmetic that each field comes out of a word as
it went in, one lemma per mask. `AnalyzerProofs`, for every set of banks of
words whose fields fit their widths (`BanksAssumption`), every `MaxSent` and
every `Room` above 0, concludes `WordsTell` from it, and shows the type
invariant, `EntriesOfEvent`, `DiffsTrue` and `OnlyNoiseStrays`.
The loop invariant `LastOf` says that `t` has the last hit of each channel
among the words passed; `DownInv` that a process begins without an event.

`V1290RegistersProofs`, for every content of the register and every value a
failed read may return that fit 16 bits: the type invariant, `KnownBits`,
`FifoTellsLength` and `FifoNumberLost`. It rests on what adding a clear bit does to the binary
digits of a number, which are lemmas for the four bits of the register.

`V1290MicroProofs`, for every `WritePolls` and `ReadPolls` in `Nat`, whatever
accesses fail and whatever words their `Garbage` is, and for every `Menus`, of any length, whose calls keep to `CallOK` (`MicroAssumption`): the
type invariant, `SettingsApplied`, `AnswersTrue`, `HarmlessInStep`,
`HarmlessAnswersTrue` and `SetupApplied`. `SettingsApplied` speaks
of the moments between calls only; `StepInv` adds what lies between: the word
on its way makes the settings those asked for, or, between an opcode and its
operand, the opcode is on its way or taken. `AnswerInv` adds that what has been
read and what is still in the module are together the answers to the question
asked, and that nothing is left where no question is open. `CursorInv` says
where the driver is in its call, without which neither word nor answer can be
named. That the enable pattern stays a 16-bit word when a bit of it is written
is an arithmetic lemma, `BitCarry`.

Of what survives lost words, `HarmlessInStep` needs `InStepInv`: to a harmless
client nothing opaque happens, and when it has written the last word of a call that lost none, no operand is awaited
and the word on its way wants none, whatever was lost before.
`HarmlessAnswersTrue` needs `HonestInv`: while the driver reads, its question is
on its way, or being answered, or has been lost and there is nothing to read;
while it does not, nothing asks. `SetupApplied` is about nine calls, but for any
bounds of the waits: `SetupInv` tells from which of them on which setting is the
one wanted.

`DriverCallsOK` discharges `MicroAssumption` for the driver as it is: every call
that `v1290.h` declares, with every argument of its C type, is one of `Calls` and
keeps to `CallOK`. `SetupHarmless` does the same for the premise of the harmless.
`WindowsKept` and `WindowsLost` say for every argument of the two window calls
what the cast to `int16_t` makes of it: below 32768 ns the window is the one
asked for to within a tick of 25 ns, from there to 1.6 ms it never is, and an offset below
-32768 ns, which the clamp at -51200 lets pass, ends up after the trigger.
`micro_test` is one instance of it.

`VmeBusProofs`, for every `EventWords` and `MicroTurns` (`TurnsAssumption`):
`AccessInMode`, `WholeWords` and `SinglesByPio`. `BusInv` looks ahead along the
calls a function has left: before each access the address modifier is set and
not set again, or has been set already; for the data width there is a third
way, to be restored to what it was when saved, which is how the words of
`v1290_EventRead` get theirs. That every function begins with this true, in
whatever state it finds the interface, is shown part by part: the parts are
`Fresh`, they set up all their accesses, and stay so one after the other.

Only model-checked: the liveness properties (`VetoLifted`, `Responsive`,
`CallsEnd`, `ReadoutEnds`, `AnalysisEnds`), which need fairness. What a proof
can say of three of them is that something runs out, which fairness then makes
run out, and that is a safety property, for every value of the constants:

- `VetoIsLifted`: while the run goes on, each access of the program brings a set
  flip flop nearer to its reset, from eleven accesses down (`AccessesToLift`,
  `VetoAdvances`), and nothing the crate does puts it off. `PollCount > 0` is
  needed: a `poll_event` that never looks never finds the event. It rests on
  `NoStuckVeto`, by which the look is not in vain, and on `PlaceInv`.
- `CallsDoAdvance`: a call leaves at most `MostLooks` looks at the handshake
  register, and each that is made is one less (`LooksLeft`, `CallsAdvance`),
  whatever the module answers or does not.
- `ReadoutsAdvance`: each access of a readout that does not fail either goes on
  to the next phase or takes a word of the event that has been begun
  (`Distance`, `ReadoutAdvances`). Events that arrive meanwhile are not in this
  measure: a readout ends however fast they come. That is `PartInv` once more,
  and the marks of headers and fillers.

## Not modelled, and plan

Not modelled: `odbsetup.cc` (writes constants to the database once), `setup.sh`
and the makefiles (they start and build the processes whose start and end the
models have), printing, binning and booking of histograms, the values that
functions nothing calls return (`v005_adc`, `v1290_IsFull` and the like), and
the `main` programs under `#ifdef`, except the calls of the one in `v1290.c`
that asks for the windows. `v1290_EnableChannel` sends the word the code sends,
which is for channel 0 whatever its argument; only `v1290_SetupReadout` calls it
(`frontend.cc:370` and 373), for channel 0, and nothing calls that. Of the V1290N's
control commands (`v1290_EventReset`, `v1290_SoftTrigger` and the like) only those
the front end makes have an effect in a model.

Planned: a composition of front end, SYSTEM buffer and analyzer, whose `Send` is the
front end's `ReadPulse1`: what the histograms owe to the triggers.
