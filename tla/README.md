# A verification project for UrJTAG

UrJTAG (`src/urjtag`) drives the JTAG port of a board through a cable: it finds
the parts on the chain, loads their instruction and data registers, reads and
writes memory through bus drivers, programs flash, and plays SVF and STAPL
files. This directory holds TLA+ models of its core, the TLC configurations
that check them, and proofs checked by TLAPS. `src/web` is the project's web
site, `src/urjtag` the program; paths below are relative to `src/urjtag`, and
those that begin with a file of its library to `src/urjtag/src`.

Contents: 1 the system, 2 the modules, 3 the runs, 4 bounds, 5 fairness,
6 proofs, 7 what is left out of the models, 8 disagreements between code and
documents, 9 plan.

To repeat a check: `tlc -config MCChain.cfg MCChain.tla`, `tlapm
CableQueueProofs.tla`. `PROJECT.json` lists the runs, which definition models
which lines, and the hazards of the code with the properties that watch them.

## 1. The system

The layers, from the user down:

    jtag command, scripts, Python bindings
      cmd/, global/parse.c     one command after another
      svf/, stapl/, flash/, pld/, bfin/   players and programmers
      bus/                     list of buses, the active one, 40 drivers
      tap/detect.c, discovery.c, part/    the parts of a chain
      tap/chain.c, tap.c, state.c         the chain and its TAP state
      tap/cable.c, cable/generic.c        the cable and its two queues
      tap/cable/*, parport/, usbconn/     drivers of cables
      (jim/                    a simulated target instead of hardware)

The program has one thread. What makes it hard is deferral (an activity is
queued in one place, carried out in another and its result fetched in a third),
copies of the hardware's state that have to follow it without ever being read
back, objects shared by global lists, hardware that works in its own time, and
errors that are reported but not looked at. The one asynchronous event is the
SIGALRM of the SVF player.

| Component | State | Operations | Interaction | Hard | Correct when |
|---|---|---|---|---|---|
| activity queue (`tap/cable.c:138-298`) | ring of items, next_item, next_free, num_items, max_items | add, get, purge; grows when full | two per cable: todo, done | wrap and growth at once | it is a first-in first-out queue |
| cable (`tap/cable.c`, `tap/cable/generic.c`) | the queues, the driver | immediate, deferred and late calls; flush one by one or combined into a transfer | chain.c and tap.c call it; it calls the driver | results handed over long after the call; combination; no memory; a flush within a flush | deferring cannot be observed |
| cable drivers (`tap/cable/*`, `tap/parport/`, `tap/usbconn/`) | noted levels of the lines; buffers of commands and answers, remembered TDO | clock, get_tdo, transfer, set_signal, flush | cable; port, USB device | lines that cannot be read back; answers that come later, several drivers' wirings | the chain sees what was asked, answers reach their activity |
| chain, TAP (`tap/chain.c`, `tap/tap.c`, `tap/state.c`) | chain->state | reset, clock, capture, shift, pod signals | every player and driver uses it | chain->state is a copy that has to follow every clock | the copy is right; registers are exchanged bit by bit |
| JIM (`jim/`, `tap/cable/jim.c`) | TAP state, registers in words | clock, TDO | a cable driver | shift across words, edges | it is a JTAG device |
| detection (`tap/detect.c`, `tap/discovery.c`) | chain->parts, main_part, total_instr_len | detect, addpart, search for lengths | uses the chain; buses point to its parts | contents of registers unknown; failures in the middle | the parts found are those of the board |
| sessions (`tap/cable.c:540-600`, `tap/chain.c:63-168`, `bus/buses.c`, `bindings/python`) | chains, cables, parts, list of buses, active bus | connect, disconnect, detect, addpart, initbus, bus, peek, quit | pointers across all of them | what a command frees, another list still points to | nothing freed is used, nothing is left behind |
| SVF (`svf/svf.c`) | end and run states, remembered TDI and MASK, timer | statements of the file | chain, SIGALRM | walks between states, memory over statements | every statement ends where it should; the verdict is true |
| STAPL (`stapl/`) | position in the file, symbols, stack, its own copy of the TAP state, pre- and postambles | statements, actions, procedures, data blocks, scans | chain through `jamjtag.c` and `stapl.c` | forward references found by reading ahead; ends told by stack pointers; data cut out of longer scans | a program does what it says; the copy is right |
| registers (`tap/register.c`) | bits | fill, shift, compare, convert | everywhere | lengths, numbers wider than a word | value and string agree |
| parts (`part/`) | instructions, data registers, signals, active instruction | built from a description | bus drivers, detect | pointers kept by drivers | tables and lengths agree |
| bus drivers (`bus/*.c`) | the boundary scan cells as the last access left them | prepare, read, read_next, write | parts, chain, memories of the board | chip selects and directions left by the access before | reads return what was written; nothing drives against a memory |
| flash (`flash/`) | flash driver, chips that are busy, status | flashmem, eraseflash, lockflash, unlockflash | bus | polling, operations refused or failing, erase before program | memory holds the file, nothing else is touched |
| PLD (`pld/`) | pld_driver | configure, reconfigure, status | chain | bit streams of other makers | the device starts |
| Blackfin (`bfin/`) | emulation state | register and memory access by scanned instructions | chain | polling | registers restored |
| BSDL (`bsdl/`) | parser | describe a part | part | text | tables agree with the file |
| commands (`cmd/`, `global/parse.c`, `apps/`) | none between commands | take arguments apart | library | none | arguments passed on |

`PROJECT.json` has the same list with what is modelled. Modelled in full: the
activity queue. Partly, with all of their control that the properties tell
apart: the cable, the chain and its TAP, sessions, JIM, SVF, detection,
registers, flash, STAPL, bus drivers, cable drivers, the Python bindings; their
notes say what is left out. Not modelled: parts, Blackfin, PLD, BSDL, commands,
data files.

## 2. The modules

| Module | Models | State and actions |
|---|---|---|
| `Fifo` | what users of a queue expect | the sequence of items; Put, Take, Purge |
| `CableQueue` | `tap/cable.c:138-298` | `data`, `max_items`, `num_items`, `next_item`, `next_free` as in struct URJ_CABLE_QUEUE_INFO; AddInPlace, AddResized, AddFails, Get, GetEmpty, Purge. A realloc that grows leaves `Garbage` in the new slots, then the three relocations of lines 160-222 |
| `TapState` | `tap/state.c`, `include/urjtag/tap_state.h` | pure: the tracked state as a function of TMS and TRST |
| `TapController` | external: IEEE 1149.1 | pure: the standard's transition table |
| `Line` | external: the board seen through a driver, as `generic.c` and `tap.c` use one; the drivers' own code is `Pods` and `UsbCable` | one controller, the cells between TDI and TDO, the signals driven high |
| `Activity` | the items of the queue, `generic.c:110-176` | pure: effect on the line and result of each activity |
| `EagerCable` | what `doc/UrJTAG.txt:1196-1242` promises of deferred calls | line, results, value returned; every activity at once |
| `Cable` | `tap/cable.c:301-497`, `tap/cable/generic.c:86-381` | `todo`, `done` as sequences (what `Fifo` allows), `room` = done.max_items, the call under way, set_signal calls nested in a flush. A call is Begin, one step per iteration of the flush loop, Finish |
| `CableDriver` | what `include/urjtag/cable.h` asks of a driver | the functions of `Line`, each at once |
| `Pods` | sixteen cables on a parallel port or GPIO lines | the levels of the port, what the driver noted of them (`p->signals`, `last_data`), TCK; one action per driver function, with the writes to the port in order. Each cable is a row: which bit each line has, which are inverted |
| `UsbCable` | `ft2232.c`, `usbblaster.c`, `cmd_xfer.c`, `usbconn/libftd2xx.c`, `libftdi.c` | the commands kept and sent, bytes to come, remembered TDO, queues; Defer, Late, Immediate and flush in both forms, Close and Init of fourteen adapters |
| `Chain` | `tap/chain.c:171-378`, `tap/tap.c` | `state` = chain->state; an operation puts the cable calls it consists of in `prog`, each of which is a step that may find no memory. The cable is `EagerCable` |
| `TapDevice` | external: a JTAG device, registers of bits | controller, registers, the selected one |
| `Jim` | `jim/jim_tap.c`, `jim/some_cpu.c`, `tap/cable/jim.c` | `tap_state`, `sreg` as arrays of words, `current_dr`, `tdo`; one action, a TCK pulse |
| `Detect` | `tap/discovery.c`, `tap/detect.c`, `tap/tap.c:46-78` | a board of devices, chain->parts, main_part, total_instr_len; Detect and its three stages, AddPart, ResetBypass, Connect |
| `Session` | `tap/cable.c:88-136, 540-600`, `tap/chain.c:40-168`, `bus/buses.c`, parts of `detect.c`, `bindings/python/chain.c` | objects and the pointers between them; one action per command |
| `Svf` | `svf/svf.c`, `svf/svf_bison.y` | `priv`, the statement's remaining work in `todo`, the timer; uses `Chain` as the player uses chain.c |
| `BusMemory` | what `doc/UrJTAG.txt:1387-1434` promises of a bus | contents, the location a read sequence points to, the last answer |
| `BusDrivers` | the access functions of some thirty drivers of `bus/` | pure: an access as a script, the signals set before each shift |
| `ParallelBus` | a bus driver with memories behind the pins | the cells, what was captured, memories; one action per access function of `bus/*.c` and its users |
| `FjMem` | `bus/fjmem.c`, and the core it talks to, `extra/fjmem/*.vhd` | the register of the core as a sequence of bits, what the driver learned of it (`desc`), the block and word addressed; Init with its queries, one action per access function |
| `Flash` | `flash/flash.c`, `intel.c`, `amd.c`, `amd_flash.c` | the command under way (`task`, `pc`), the call of program() and what is left of it, chips that are busy, refuse, fail or hang, or are in the unlock bypass; each command begins with the identification and resets of set_flash_driver (Begin); one action per wait or write sequence |
| `JamJtag` | `stapl/jamjtag.c`, the glue of `stapl.c` | urj_jam_jtag_state, stop states, pre- and postambles; scans and waits |
| `JamSymbols` | `stapl/jamsym.c`, `jamexp.c`, `jamarray.c` | pure: symbol tables, the values and bits of scalars, elements, arrays and their parts |
| `Jam` | `stapl/jamexec.c`, `jamstack.c`, urj_stapl_run | position, phase, current block and procedure, symbols with arrays, stack; one action per statement, frames for the loops that execute statements of their own |
| `MC...` | | constants for TLC; `MCDrivers` runs `Pods`, `UsbCable` and `Jim` beside one another, `MCParallelBus` `ParallelBus` and `FjMem` |
| `CableQueueProofs`, `CableProofs`, `ChainProofs`, `SessionProofs`, `SvfProofs`, `FlashProofs`, `BusProofs` | | theorems (section 6) |
| `LineProofs` | | the tracking theorem of state.c, and lemmas for `CableProofs`, `ChainProofs` and `SvfProofs`: what any number of clocks and bits does to line and tracked state, and sequences joined |

How they compose:

    CableQueue  ==> Fifo           (checked and proved)
    Cable       ==> EagerCable     (checked and proved; its queues are Fifo's sequences)
    UsbCable    ==> EagerCable     (checked; drivers with a flush of their own)
    Pods        ==> CableDriver    (checked; what Line's functions stand for)
    Chain uses EagerCable, Svf uses Chain, Jam uses JamJtag on Line,
    Detect uses what Chain shows:  registers and cells are exchanged
    Jim         ==> TapDevice      (checked)
    ParallelBus ==> BusMemory      (checked, and proved for buses that are not
                                    multiplexed), which is what Flash's bus is
    FjMem       ==> BusMemory      (checked)
    TapState     =  TapController  (proved, and watched by Chain!TapTracked)

So the SVF player is checked against the chain, the chain against the eager
cable, the real cable against the eager one and cable drivers against what the
cable asks of them, each with the interleavings it has. Definitions whose
comment says "A slip" are plausible mistakes: none is part of a specification;
each is substituted for the definition below it to see that a property notices.

`UsbCable` refines `EagerCable` for callers that do what the program does: a
signal is never deferred and is set outside Shift, for the lines the adapter
drives; transfers are asked for in Shift only, and an immediate one has its
answer kept; long clocks with TMS low are given where TMS low stays; a late call
asks for the oldest answer that is owed, or, when none is, for anything but a
signal; no transfer without an answer comes behind two samples of TDO; a cable
is closed with nothing owed and its signals high. The chain starts in Capture-DR
because the initialization leaves TMS high.

## 3. The runs

Runs that pass:

| Run | Question |
|---|---|
| `queue` | Is the ring a first-in first-out queue at every fill level and offset, through growth? IndicesAgree, NothingUnwritten, FifoSpec |
| `cable` | Can a caller or the hardware see that an activity was deferred? Immediate, deferred and late calls in any order, either flush algorithm, allocation failing anywhere. EagerSpec is the refinement; NothingLost says that results are dropped only by a late call that asks for the wrong one. No set_signal is deferred, and the results asked for fit the done queue, once it has grown |
| `flush_returns` | Does every call return although flushes nest through set_signal and results do not fit? CallsReturn |
| `chain` | Is chain->state right whenever no operation is under way (TapTracked)? Do exchanges swap registers and cells bit by bit (RegistersExchanged), end where the exit mode says (ExitReached) and leave no result behind (NothingLeftBehind)? Does a reset repair whatever was lost (ResetResynchronises)? |
| `drivers` | Does the chain see of a port's driver what a cable driver promises (PodsDriverSpec), of a USB adapter what calls carried out at once would do (UsbEagerSpec), and is JIM a JTAG device although its registers are words (JimDeviceSpec)? |
| `detect` | Are lengths and parts found those of the board whatever the registers held (LengthsFound, PartsFound), and are the devices in BYPASS when the program takes them to be (DetectedInBypass, ResetIntoBypass)? |
| `session` | Is nothing freed used or freed again (NothingFreedIsUsed), do the list of buses and the active bus stay consistent and usable (ActiveBusListed, ListedBusesUsable), and does no command leave a cable or parts list without an owner (CablesAndPartsOwned)? In the jtag command, and the parts of it that hold for Python scripts with two chains |
| `svf` | Does each statement end (StatementEnds), where it says (EndsWhereAsked), with the clocks of RUNTEST in the run state (RunsInRunState), from a chain whose state is not known, alarms coming at any moment? Are remembered TDI and MASK of the length of the scan (TypeOK), and is the message at the end true (VerdictTrue)? |
| `bus` | Do reads return what is stored where the access before pointed to, and do writes store their datum where they are told to and nowhere else (MemorySpec), and does no pin drive against a memory (NoContention), whatever access came before? Does fjmem find the register, fields and blocks of a core (LayoutFound), and are its reads and writes those of a memory (FjMemorySpec)? |
| `flash` | Did a command do what it says it did (ResultTrue), nothing outside its blocks (OnlyItsBlocks), does it succeed on chips without faults (FlawlessSucceeds), and does it end (CommandEnds)? |
| `jam` | Is the player's copy of the TAP state right (JamStateTrue), are calls, loops and values on the stack those under way (CallsOnStack), is data initialized before it is used (DataReady), does a program do what its tree of blocks means (SaysWhatItMeans), and do scans exchange the part of the registers they should (ScansExchange)? |

`svf_verdict` ends in a counterexample, where the code does something else than
it says (section 8, whose other rows are shown by configurations that are not
among the runs).

The definitions TypeOK of `CableQueue`, `Cable`, `Session`, `Jim`, `ParallelBus`,
`Flash`, `Detect` and `Chain` document the types of the variables and are not in
a run's list; those of `CableQueue`, `Session`, `Flash` and `Chain` are proved.

## 4. Bounds, and why they are enough

- `queue`: the initial size is 2 and a step 2 instead of 128, at most 10
  items. The array is relocated at sizes 2, 4, 6 and 8, with every offset: the
  cases tail moved, head copied, head split and nothing moved all occur, the
  last from size 4 on. The theorems hold for all sizes.
- `cable`: two activities and results under way (`MaxPending`), of six kinds,
  which is what combining, picking results apart, a flush that falls back in
  the middle and a late call for another kind take. done.max_items is 2, so
  that the done queue is filled but not overrun; with three results it is
  (section 8). The chain starts in Shift-DR, the only place where data move.
  Two cells, two bits per transfer: a result that is cut at the wrong place
  differs.
- `flush_returns`: done.max_items is 1, so that purges happen too.
- `chain`: three cells; registers of one to four bits, shorter and longer than
  their output register and than the cells; two parts, the first of one bit,
  for which tap.c transfers nothing; every exit mode. Resets interrupt any
  state. Unbounded otherwise.
- `drivers` (274 349 states): one cell. Of a port any contents at first, or
  those of one just opened. Commands of an adapter hold two bits instead of
  eight, in bytes of two and in TMS commands of two; a transfer is cut into
  chunks of one; the buffers hold four and two, so that they are filled in the
  middle of a transfer; two activities wait (`MaxPending`). All fourteen
  adapters set signals and clock; one of each kind scans. JIM's words have two
  bits: a register shorter than a word does not occur in some_cpu.c, one of
  exactly a word (as IDCODE), and one of two and a half words do.
- `detect`: identities of three bits and patterns of two instead of 32 and 8.
  The search for a length depends on one relation between pattern size and the
  limit, stated as `PatternAssumption`; the code's 8 and 1024 satisfy it, as
  2 and 9 do. Boards of one to three devices, with and without identification,
  described or not, exchanged in between; a limit below, at and above the
  length. `MaxParts` and `MaxTotal` end a series of addpart commands.
- `session` (13 398 states): one chain for the jtag command (it has one), two
  for scripts; three cables, of which two are alive at once and one is coming;
  two parts lists and three buses, so that the list shrinks from each end and in
  the middle. Objects of a kind are interchangeable: the actions compare them for
  equality only, so symmetry is sound; no liveness is checked there. The
  theorems hold for any number.
- `svf` (1 208 880 states): one cell, an instruction of two bits, data of one
  and two; from and to each stable state, through some unstable ones; RUNTEST
  with and without states and time, TRST. The theorems hold for any statements
  and any number of cells.
- `bus` (836 970 states): two banks of two words, so that an access may go to
  the location of the one before, beside it, or to another chip select; words
  of two values; all drivers but h7202, on boards that use one or both halves of
  the data lines. The theorems hold for any banks, words and data. For fjmem, a
  byte of one bit, two cores of two blocks (one and two bits wide, growing and
  shrinking, with a block field that is filled and one that is not), other parts
  with none or two bits in the chain, and addresses a little beyond the last
  block (`FjReach`).
- `flash` (966 905 states): a block of two words and one of one, read two words
  at a time, buffers of two; words of two bits, one of them DQ7, which the
  drivers look at; files shorter and longer than a block, from either word; two
  commands one after another; one poll before the AMD drivers give up, where a
  chip may be done before, at or after it. Intel's 16 bit driver also on a flash
  that does not begin at address 0 of the bus, where its lockflash may say that
  it failed; amd040 with and without the unlock bypass. The theorems hold for any geometry.
- `jam` (195 682 states): two cells, a stack of seven records, some 5 700
  programs: all sequences of three of seventeen statements that clock the chain;
  programs of two procedures and a data block in every order; bodies with jumps
  and mistakes, with arrays, their elements and parts, in both versions of the language.

`CHECK_DEADLOCK FALSE` is in the configurations of `Session`, which quits, of
`Detect`, which stops after a fault, and of `Flash`, whose number of commands is
limited; the others must never stop.

## 5. Fairness

The program is sequential: once a function is called it runs until it returns.
`WF_vars(CallStep)` in `Cable`, `WF_vars(Step)` in `Chain`,
`WF_vars(PlayerStep \/ ChainStep)` in `Svf` and `WF_vars(Step)` in `Flash` say
that and nothing more. Which call comes next, whether one comes, when memory is
short, whether an alarm comes: none of that is fair. So CallsReturn,
StatementEnds and CommandEnds are about loops and recursion ending. `Flash` has
one more: chips of Intel's kind end their operations, which their drivers wait
for without limit, and so do AMD's when they have no faults; AMD's drivers are
checked against chips that never end.

## 6. What is proved

Every theorem holds for all values of the constants that satisfy the
assumptions of its module, which TLC evaluates on each run. `PROJECT.json` lists
those a reader should know; the lemmas they rest on are named for what they say.

`CableQueueProofs`, for every `Initial`, `Grow` and `MaxItems` that satisfy
`QueueAssumption` (sizes and steps of at least one) and every set of items:

- `RingTyped`, `IndicesCorrect`, `QueueInitialised`: TypeOK, IndicesAgree and NothingUnwritten
  always hold. The inductive invariant is their conjunction, `IInv`: the indices
  decide which slots are in use, and a relocation keeps the items in use only
  because a full queue has `next_free = next_item` (lemma FullMeansFreeIsNext).
  The core is `RelocationKeepsOrder`: for each of the four cases of
  `cable.c:160-222`, the slot of the k-th item in the new array holds what the
  slot of the k-th item held in the old one. Each operation then has a lemma of
  its own on what it does to the items in use.
- `ImplementsFifo`: the ring is a first-in first-out queue. Mapped to the
  sequence `Contents`, an added item is appended, a taken one was the head, a
  purge empties it; the invariant makes each step of the ring a step of `Fifo`.
  `Cable` uses sequences for its queues on the strength of this theorem.

`LineProofs`: `TrackingIsIeee`, that state.c's function is the standard's for all
states and both levels of TMS, without which no tracking could be right, and
`FiveOnesReset`, that the clocks of urj_tap_reset take any controller to
Run-Test/Idle.

`CableProofs`, for chains of any number of cells, queues of any size and any
calls that satisfy `Callers`:

- `DeferringUnobservable`: `Cable` implements `EagerCable`. `ResultsKept`: NothingLost
  always holds. `CableInvariant` is the invariant both rest on.
- `Callers` is what the theorems ask of the program: it defers and fetches what
  `cable.h` offers, does not defer set_signal (nobody in the program does, and
  section 8 has what happens then), and has no more results under way than
  the done queue holds (section 8 has the purge otherwise).
- The refinement mapping carries out now what is left to do: the line and the
  results of `EagerCable` are those that the queue, run on the line there is,
  would lead to. A deferred call is then a step of `EagerCable` when it is
  queued, and every iteration of a flush is a stutter. Running one
  activity moves it from the queue to the line. Combining several into
  one transfer and picking its results apart is a stutter because of the lemma
  `Combines`: a transfer of the bits of several activities passes through the
  lines each of them would have left, and its output, cut at their lengths, is
  what each of them would have returned. A flush that falls back in the middle,
  or stops at an activity that cannot be combined, has done a prefix. What a
  `_late` call fetches is the oldest result, as results are stored in the order
  in which they were asked for.

`ChainProofs`, for every `Cells`, every set of clocks, pod settings and
exchanges that satisfies `ChainAssumption`, memory failing or not, and shifts
without a capture from Capture and Shift states only (`ShiftsOnlyWhileShifting`;
section 8 has the shift from Exit2 that the assumption leaves out):

- `StateTracked`: TapTracked always holds. `ResetWorks`: so does
  ResetResynchronises. `ExitsWhereAsked`: so does ExitReached.
- All follow from one inductive invariant, `ChainInv`. TapTracked says nothing
  while an operation is under way, so it is not inductive. What has to be known
  then is that no bit is transferred in a state that does not shift, where the
  controllers would move and the tracked state would not (deferring
  a transfer does not touch chain->state). `CallsLead` says it: the calls
  that are left form a path, from the tracked state to where the operation ends
  (`Goal`), with transfers in Shift-DR and Shift-IR only. `Tracked` has the one
  exception: after `urj_tap_state_reset` the two differ until the five clocks
  come, which are the next call (`Follows`, `Pending`). `ResetUnderWay` knows
  how far a reset is, because it must work when nothing is tracked.
- The lemmas on calls prove that each operation's calls form such a path, whatever
  the registers' number and lengths and however their bits are split between a
  transfer and clocks; `LineProofs`, that n clocks move the controllers and the
  tracked state alike (from `TrackingIsIeee`) and that a transfer of any length
  stays in its shift state. The induction over the number of clocks, bits and
  registers is over sets of natural numbers (lemma SetInduction, from the
  library's WFMin), which needs no operator as a parameter. The recursive
  functions of the model are replaced by "any function that satisfies this
  equation", shown to exist.
- `NothingLeft`: NothingLeftBehind always holds, without `ShiftsOnlyWhileShifting`
  and whichever calls are refused. While an operation is under way results do
  wait; `Balanced` says that those that wait and those that the calls left will
  add are at most as many as those calls fetch (`Fits`). A refused call adds
  none, and a `_late` call that finds no result of its kind gives all up, so
  both leave fewer. What `urj_tap_defer_shift_register` asks for and what
  `urj_tap_shift_register_output` fetches are counted by the same `Fetches`
  (lemmas ShiftFits and OutputFits), for each register of any exchange.

- `Exchanged`: RegistersExchanged always holds. `ChainTyped`: so does TypeOK,
  which says that no result is longer than the output register it is copied
  into (`cable.c:450-453` copies the length of the result).
- RegistersExchanged says nothing until the exchange is over. What holds until
  then, `ExchangeInv`, sees the exchange as one stream of bits: those the
  chain held, then those of the registers in order (`Stream`). The chain is a
  window on it, `Holds(line, Bits, p)`, p bits further on. The calls that are left lead
  from here to the end of the stream (`Runs`): each clock and each transfer in a
  shift state sends the bit of the stream that comes behind the window, none
  is sent elsewhere, and each deferred result is asked for when what it
  will hold is about to leave the window and is the next in the order in which
  the results are fetched (`TransferAsked`, `SampleAsked`). So the results that wait
  are, one for one, those the `_late` calls that are left expect, with the right
  bits (`Expected`, `RightBits`), and what was fetched has been written to
  its place (`Written`), where nothing but right bits is written over it.
- `ShiftRuns` and `ExchangeRuns` show that the calls of a register's shift and of
  an exchange do that, whatever is split how; `ChainInv` is
  needed for the state (that the bits shift when they should) and
  NothingLeftBehind for the beginning: an older result would be taken for the
  first of the exchange's own.

`SessionProofs`, for any number of chains, cables, parts lists and buses, for the
jtag command and for scripts, whatever fails:

- `SessionTyped`: every pointer is null or to an object of its kind.
- `OwnersKept`: CablesAndPartsOwned always holds. `ActiveBusIsListed`: as long as
  shrinking the list of buses finds memory (`ListShrinks`), ActiveBusListed does.
  `ListedBusesWork`: as long as a listed bus initializes (`BusesInitialize`),
  ListedBusesUsable does. `NothingFreedUsed`: with both, and a cable whose second
  queue is allocated (`QueuesPaired`), NothingFreedIsUsed does.
- The inductive invariant, `SessionInv`, is their conjunction with two facts
  none of them says: a bus is in the list once (`ListedOnce`), or freeing it
  would leave it listed, and a cable and its chain, a parts list and its chain
  point to each other (`Owned`). The hypotheses are in the invariant, as
  implications, so that it is one invariant for whatever fails. Each
  of the hypotheses is one of the failures of section 8: without it the property
  is false.

`SvfProofs`, for files of any statements, any number of cells, from any state of
the controllers, alarms at any moment:

- `SvfTyped`: TypeOK, which says that what a scan remembers has the length of the
  scan. `VerdictHolds`: VerdictTrue when the player stops at a mismatch;
  `svf_verdict` shows what happens when it does not.
- `EndsThere`: EndsWhereAsked, for behaviours in which TRST never holds the
  controllers in reset (`[]~HeldInReset(line)`), or (`EndsThereWithoutTrst`) for
  files that do not give TRST a level: the player sets the signal without
  telling chain.c (section 8). `RunsThere`: RunsInRunState, if no run state is
  RESET, which RUNTEST leaves with its first clock.
- The inductive invariant, `SvfInv`, says what is left of the statement (`todo`)
  is a path from where the controllers will be when the operation of the chain
  that is under way has ended to where the statement is to end, and at each
  entry of RUNTEST's clocks that the path is in the run state. `StateKnown` says
  that chain->state is known whenever the path needs it. What the chain does is
  taken from `ChainProofs` (`CP == INSTANCE ChainProofs`), whose assumptions the
  lemma `ChainAssumed` derives from those of `Svf`: this is where
  `ShiftsOnlyWhileShifting` is shown to be met by a caller.

`FlashProofs`, for chips of any erase regions, files and buffers of any length, any
number of commands (the assumptions of `Flash` ask for regions of at least one
block of at least one word, and words that have the bit DQ7):

- `FlashOnlyItsBlocks`: OnlyItsBlocks, without any hypothesis: whatever fails,
  hangs or is given up. `FlashTyped`: TypeOK.
- `FlashResultTrue` and `FlashFlawlessSucceeds`: ResultTrue and FlawlessSucceeds, where
  the write buffers of AMD's chips work (`Buffered \subseteq {TRUE}`); section 8
  has what happens when they do not. FlawlessSucceeds leaves out one command,
  lockflash of intel's 16 bit driver on a flash that does not begin at address 0 of the bus,
  which may fail for what it reads there (section 8). `FlashSettles`: a command goes on, and ends,
  with idle chips, if they tell refusals or cannot fail.
- The inductive invariants come in layers, each proved with those below it.
  `Shape` says how the variables belong together: that what is left of a call of
  program() lies in the file, in one block and in the flash; that the block
  waited for is the one counted. It is all that `Touching` (operations stay within
  the blocks named) needs. `Settled` says when chips may be at work; without it a
  poll could be answered by the end of another operation. `Agreed` (theorem
  `FlashAgrees`) says that chips without faults are in the unlock bypass when the amd040
  driver takes them to be: an erase of a chip left in it would not begin. On these
  stand `CountedErased` and `Verified` (the loops that got so far left behind what they
  went over), and `Flawless`: without faults nothing is refused
  (`NeverRefused`) and every word before the one reached has been written or
  is being written, every word behind it in an erased block is erased
  (`FileWritten`), so that no bit that is 0 is to become 1.
- `StatusSettles` and `StatusTells` are what the polls are trusted for: a poll
  says "done" only when all chips are idle, and "failed" only if there are
  faults. For the DQ7 poll of the buffer this needs that the word polled is the
  last one programmed.
- `BlockRest` is the geometry: find_block, for any list of regions, gives each
  word one block, blocks are numbered in the order of their words, and what it
  says is left of a block ends where the next number begins. The sums over regions
  are recursive functions, shown to exist like those of `ChainProofs`.
- The proof that polls settle failed at first: two cases of `Status` overlapped
  in the model, Intel's poll and the one after a buffer, and TLA+ leaves open
  which one applies. The cases exclude each other now.

`BusProofs`, for any banks, locations, boards and data, with each driver used with the
banks it can address (`Addressable`: one bank for the drivers that have one chip
select, and for pxa2x0, see section 8):

- `OneDrives`: NoContention always holds, for all drivers but h7202, which
  asserts its write enable together with the address.
- `AccessesTrue`: MemorySpec, for the drivers of `OneDrives` whose buses are not
  multiplexed, strapping pins having been captured (`Captured`: before that, a
  driver that reads the width from them does not know it).
- The access functions differ in what they set, in how many shifts and in when
  they capture; what is needed of them is their shape. `Starts`, `GoesOn`, `Ends` and `Writes`
  say it of one function: which of its shifts may select, enable,
  drive and capture what, with the location and datum it was given; `Fits`
  is all four for all locations, and a lemma for each driver shows that its scripts
  fit. `Resolved` puts the datum into the lines that exist and keeps the shape.
- The inductive invariant is `BusInv`. Between two accesses nothing drives
  against anything (`Quiet`), or, within a read sequence, the pins read the
  location the sequence points to (`Reads`): that is how an access may rely
  on what the one before left. Within an access `UnderWay` says which of the shapes
  the shifts that are left have, so that what the pins show now and what is
  still to be shifted make up the access. For a write, `Writing1` to `Writing3` say how far it is:
  what is on the pins before the strobe, that the datum is stored when the write enable is
  released, and that no other word is touched on the way, although pins may change in any order.
- Each shift then makes a step of `BusMemory` or a stutter (`Moved`): the last shift of
  a read captures what the pins show, which is the location asked for, the
  last of a write leaves the datum stored.

Model-checked only:

- Liveness (CallsReturn, StatementEnds, CommandEnds), which is out of this
  prover's reach.
- The refinements of `UsbCable` (commands cut in two at places that depend on
  the answers), `Pods` (bit arithmetic on the port's bytes), `Jim`, `FjMem`, and of
  `ParallelBus` for the two multiplexed buses.
- The invariants of `Detect` and `Jam`: not yet tried (section 9).

TLC evaluated the inductive invariants of `CableQueue`, `Cable`, `Session`, `Flash`,
`ParallelBus` and, but for the paths and StateKnown, of `Svf` on their configurations before they
were proved. `ChainInv` and `ExchangeInv` cannot be evaluated: a path ranges over sequences of
sets of states or of places.

## 7. What the models leave out

Within the modelled components:

- Messages, counting of bytes, text. Strings of parameters: `Connect` starts
  when they are found good.
- Buffers of transfers are owned by their items; freeing them is recorded as a
  fault where the queue is purged (`PurgeFaults`) and not followed elsewhere.
- `Line` takes the driver's functions as immediate, as `generic.c` does; that the
  drivers' code is so is checked of `Pods`. Drivers of USB adapters that keep a
  buffer of their own are `UsbCable`.
- `Cable`: what is written at the index -1 when the done queue cannot grow within a
  flush is recorded as a fault (`CombineOverflows`), not followed. A late call for
  a transfer with nothing in the done queue looks at that item too
  (`tap/cable.c:458`), which only decides whether it warns of a wrong kind and
  purges the empty queue.
- `Chain`, `Svf`: boards of one controller: several parts in one chain share TCK
  and TMS, so their controllers agree, and their registers are the cells.
- `Chain` replaces the cable by `EagerCable`, which `Cable` implements except
  for the cases of section 8 (set_signal deferred, done queue full).
- `Svf`: one part, memory is found. HIR, HDR, TIR and TDR are not implemented by
  the player, which warns and goes on; PIO and PIOMAP end the file; FREQUENCY
  sets the cable's frequency only. Where parameters are remembered before a
  statement is refused does not matter, as the file ends there.
- `Jim`: the flash memory behind the boundary scan cells answers anything.
- `Detect`: memory is found, descriptions are right, the bits captured by an
  instruction register are 01 and then all alike, except for the search of
  lengths, where they are anything. What the user sees is left out.
- `Session`: an object is allocated at an address nothing points to. If malloc
  reuses an address to which a stale pointer points, that pointer would seem to
  be good: the fault was reported before.
- `Pods`: delays, and reads of the port that fail (section 8).
- `UsbCable`: the device answers every byte it is asked for (short reads are left
  out), a full ring waits for the device; ice100, jlink, vsllink and xpc, whose
  drivers speak protocols of their own.
- `ParallelBus`: banks of memories that answer at once; drivers that use a debug
  unit instead of the boundary scan register.
- `FjMem`: a reset of the core by TRST, the parameter `len`, which spares the
  search for the length of the register, and a read sequence that goes on beyond
  the last block.
- `Flash`: what the detection of the chips finds out (its writes are in Begin), the
  byte order of words (flashmsbin), memory. A chip is one of each lane, all lanes
  hold the same file. Files and the blocks' addresses lie within the flash: beyond
  it find_block returns -1 and flashmem uses `erased[-1]` (`flash/flash.c:356, 368`).
  Nor do they begin before it, at a negative offset.
- `Jam`: values are integers, Booleans, and arrays of both, with constant arrays,
  elements and parts. Arrays have at least one element, and parts name their bounds
  the right way round. What reaches behind the elements of an array is not
  followed; the code refuses that in expressions and assignments, not in scans,
  comparisons, exports of parts and POP. Values of 32 bits hold any pointer that
  the code keeps in them, and integers do not overflow. Nested expressions, and with
  them what CIEL and FLOOR do to a quotient, root or logarithm, BOOL(), the hexadecimal
  and compressed notations of arrays, VECTOR and VMAP, the parser, notes and CRC,
  the lists of optional procedures, CALL of a data block, empty scans and a
  misplaced ENDDATA are left out.

Not modelled, and why:

- Parts (`part/`): tables built once from a description. Their use by bus
  drivers is in `ParallelBus`.
- PLD, Blackfin: command sequences of particular chips, whose other side would
  have to be invented.
- BSDL, SVF and command parsing, logging, option parsing, data files: their
  behaviour is in texts.

## 8. Disagreements between code and documents

The first column says how to see it: a configuration, or what to set in one of
the configurations here (with the property as INVARIANT if it is about a state,
as PROPERTY otherwise). The runs that pass leave these cases out, by an
assumption or a bound, or have them with a property that does not speak of
them. Where the case is a hazard in `PROJECT.json` that no property covers, or
one only in part, the note beside it says so.

| Configuration | Property violated | What happens |
|---|---|---|
| `MCSvf_verdict.cfg` (run `svf_verdict`) | VerdictTrue | Without "stop", "Scanned device output matched expected TDO values." (`svf/svf.c:1248`) follows any number of mismatches (`svf.c:486`) |
| `MCFlash.cfg`: Drivers = {"intel"}, AtZero = {FALSE}, Faults = {FALSE} | LockFailureTrue | After locking a block intel_flash_lock_block asks for its lock state at `adr + 0x02` and then reads address 0 or 1 of the bus (`flash/intel.c:319`): on a flash that begins elsewhere "locking block failed" (`intel.c:323`) is said of a block that is locked |
| `MCJam.cfg`: Programs <- MCCapture | ScansExchange | The comparison of a DRSCAN with CAPTURE begins at the first index of the captured part in the expected bits and in the mask too (`stapl/jamexec.c:3328`), which begin at indices of their own ("Mask the data and do the comparison", 3323) |
| `MCJam.cfg`: Programs <- MCExport | ExportTrue | EXPORT of a part moves a pointer to bytes by the index of a bit (`jamexec.c:3947`), so that the bits come from eight times as far ("Exports data outside the JAM interpreter", 3801) |
| `MCParallelBus_pxa2x0.cfg` | MemorySpec | The end of a read releases nCS[0] whatever was selected (`bus/pxa2x0.c:691`), so after a read through another chip select both memories answer, and the next read does not return the data of the location it addressed (`doc/UrJTAG.txt:1423`) |
| `MCParallelBus.cfg`: Buses = {"fjmem"}, Cores <- MCShadowed, FjReach = 1 | LayoutFound | The size of a block is compared by `(addr_width << ashift)` (`bus/fjmem.c:324`), which is not its size: a smaller block may be taken for the larger and get addresses of the other. `extra/fjmem/README:93`: a block is a "consecutive memory range" that "represents a single memory component in the system" |
| `MCParallelBus.cfg`: Buses = {"fjmem"}, FjCrossing = TRUE | FjMemorySpec | A read sequence that goes on in a block of another width takes the datum asked for before by the width of the next block (`doc/UrJTAG.txt:1423`) |
| `MCParallelBus.cfg`: Buses = {"fjmem"}, MaxRegLen = 9 | LayoutFound | With a register longer than FJMEM_MAX_REG_LEN less the other parts, a wrong length is found instead of none (`bus/fjmem.c:157-172`) |
| `MCFlash_buffer.cfg` | FlawlessSucceeds | AMD chips without the S29's write buffer: the fallback word by word (comment at `flash/amd.c:616`) starts after words were lost to the polls |
| `MCCable.cfg`: Deferrable <- MCSetSignal, Immediate <- MCNone, Drivers <- MCOneByOne, Grow = 2 | EagerSpec | A deferred set_signal is carried out by urj_tap_cable_set_signal, which first flushes what was queued behind it (`tap/cable/generic.c:119`); the mask it uses was never set (`tap/cable.c:374`). `doc/UrJTAG.txt:1282`: the activities are done "one after another". No caller in the program defers a signal |
| `MCCable_set_signal.cfg`: Deferrable <- MCThree, Immediate <- MCNone, Drivers <- MCOneByOne, DoneMax = 2, Grow = 2, MaxPending = 3 | NothingLost | With done.max_items results in store a flush gives up all of them (`generic.c:97-108`) although the queue could grow |
| `MCCable.cfg`: Drivers <- MCTransfer, DoneMax = 1 | NothingLost | The results of a combined transfer are added without a look at the room: when the queue is full and its reallocation fails, the index -1 is not noticed and they are written before the array (`generic.c:332, 351`; `cable.c:145`: "report failure") |
| `MCCable_set_signal.cfg`: Deferrable <- MCThree, Immediate <- MCNone, DoneMax = 2, Grow = 2 | TransferLateCountsItsBits | A late transfer returns the bits of the whole combined transfer (`generic.c:358`), not its own (`include/urjtag/cable.h:209`) |
| `MCChain.cfg` | DeferClockNotLost | A deferred clock that could not be queued is reported as done (`tap/chain.c:200`, `include/urjtag/chain.h:65`) |
| `MCChain.cfg`: ShiftFrom <- MCShiftFromExit2, MemoryFails = FALSE | TapTracked | A shift from Exit2, which the comment at `tap/tap.c:90` allows, loses a bit and the tracking |
| `MCSession.cfg`: Programs <- MCPython, Ports = {"port"}, PortsOf <- MCAllPorts, ConnectOutcomes <- MCOk | ConnectFails | A second connection to a parallel port follows a null pointer (`tap/parport/direct.c:229`; the same in ppdev.c and ppi.c) |
| `MCSession.cfg`: Programs <- MCJtag, ConnectOutcomes <- MCQueueFailures, PortsOf <- MCAllPorts | ConnectFails | When the second queue cannot be allocated, the first is freed twice (`tap/cable.c:97`, 115-124) |
| `MCSession.cfg`: Programs <- MCJtag, BusOutcomes <- MCAnyBus | InitBusFails | A bus that fails to initialize is freed and stays in the list (`bus/buses.c:205`) |
| `MCSession.cfg`: Programs <- MCJtag, ConnectOutcomes <- MCNoMemoryFailure, BusOutcomes <- MCOk | BusReachesCable | Connecting over a cable drops the active bus; when the new cable fails, peek and poke use the next bus, whose chain has no cable (`cmd/cmd_peekpoke.c:55`) |
| `MCDrivers.cfg`, the tracking of chain.c beside JIM's (`AsTapC` = FALSE) | FollowsTracking | JIM leaves Pause-IR with TMS low (`jim/jim_tap.c:48`) |
| `MCSvf.cfg`: Cells = 2, StartTaps <- MCIdle, Statements <- MCExit2 | StatementEnds | A walk to Exit2 from outside its branch never ends (`svf.c:162`) |
| the same, Statements <- MCTrstModes | AbsentRefused | TRST ABSENT after a scan is reported as an error and not refused (`svf.c:1038`) |
| the same, Statements <- MCTimed | RunTestRunsItsClocks | After the first alarm all later RUNTESTs with a maximum time give no clock (`svf.c:631, 760`) |
| the same, Statements <- MCTrst | EndsWhereAsked | TRST resets the controllers through the cable, chain->state keeps its value, and the next walk does not arrive (`svf.c:1055`, comment at 90) |
| RUNTEST with the run state RESET, which the grammar takes | RunsInRunState | The clocks are given with TMS low, so the first one leaves Test-Logic-Reset (`svf.c:718-765`). Theorem `RunsThere` excludes it by RunStatesStay |
| `MCDetect.cfg`: Boards <- MCOneBoard | AddPartWorks | addpart before any detect looks up the part named by main_part, which nobody set (`tap/chain.c:427`) |
| `MCDetect.cfg`: Boards <- MCOneBoard, Limits = {2}, Lengths = {3} | AddedInBypass | A search that finds nothing leaves the controllers shifting; addpart then loads other instructions than BYPASS (`tap/discovery.c:123`, `tap/detect.c:473`) |
| `MCDetect.cfg`: Boards <- MCMixed, OneShot = TRUE | PartsFound | With a cable that reads all identities at once, those behind a part without one are read a bit off (`detect.c:274`, comment at 299) |

Read in the code while modelling, and left out of the models or not contradicted by
any text, so that no run shows them:

- `stapl/jamexec.c`, `jamjtag.c`, `stapl.c`: a procedure passed by a search while
  another runs gets that one for its parent, and a later one of the same ACTION is
  out of scope (`jamexec.c:1604`); after EXIT the remaining procedures of the
  ACTION are still looked up and their data blocks run; a scan of no bits leaves the
  controllers in Shift while the copy says Pause; a WAIT with an end state of IDLE does
  not go there; TRST is not implemented (`jamexec.c:7281`); a stack of 128
  records can no longer be looked at or popped; FOR runs its body at least once;
  a MOD by zero is not caught; the text of an exit code is looked up without a
  check (`stapl.c:542, 546`); urj_stapl_run returns URJ_STATUS_OK whatever happened.
- Arrays in `stapl/jamexec.c`: POP into an element does not compare the index with the size
  (6361); the length of a scan is not compared with that of the data (3557); parts of one array
  that overlap are copied from the first bit on, over bits still to be read (5335); a Boolean array
  with values that is declared again, as in a loop, is refused as redefined (2608);
  pointers to arrays and uses lists are kept in values of 32 bits (6935, read back at 1919,
  2250 and 3166), which does not hold those of a 64 bit host.
- `flash/flash.c:356`: beyond the flash find_block returns -1, the index of a byte before `erased[]`.
- `tap/parport/ppdev.c:116`, `ppi.c:114`: the name of a port is compared by
  `strcmp (...) == 0`, but the one in use is disconnected through a pointer that is
  never set (above).
- Cable drivers on a port: ep9307's set_signal does not note TRST, so that the
  next clock raises it again; after `pod TCK=1` wiggler's get_tdo leaves its note of
  TCK high and the next set_signal clocks the chain; minimal's init uses bit numbers
  as masks; `((data >> TRST) && 1)` in five drivers looks at every bit above TRST;
  ts7800's get_tdo lowers nothing (`& ~(0 << TCK)`) against its comment at 236;
  generic_transfer stores the -1 of a failed read as TDO; set_frequency clocks the
  chain more than 2048 times without chain->state being told.
- USB adapters: with exactly max_items activities queued the `while (j != i)` of a
  flush sees an empty queue (`ft2232.c:2085`, `usbblaster.c:433`); a deferred set_signal falls through
  to get_signal; after initialization TMS is high, so that a transfer before any
  clock would move the controllers; set_signal is documented to return 0 or 1
  (`include/urjtag/cable.h:100`) and returns the signals before.

- `bus/fjmem.c:220-231`: a field that reaches the end of the register is read one
  byte beyond it, as the end is tested after the character; `fjmem.c:404`: a bus
  whose register length is not found is not freed.

## 9. Plan

Done: the queue, the cable, the chain, who owns what, JIM, SVF, detection, flash,
STAPL, bus drivers, cable drivers; the theorems of section 6.

Next, in the proofs:

1. `Jam`: JamStateTrue and CallsOnStack. `Detect`: ResetIntoBypass, PartsFound.
2. `ParallelBus`: the multiplexed buses. `FjMem`: LayoutFound.

And in the model:

1. `Part`: instructions and data registers; conversions of registers
   (`tap/register.c:190-330`); the discovery of instruction codes
   (`tap/discovery.c:139-320`) and the reading of IDCODE.
2. set_frequency and its interplay with the queue, the STAT polling of PLD, Blackfin's
   emulation commands.
