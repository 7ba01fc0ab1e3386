----------------------------- MODULE ParallelBus -----------------------------
(* A bus driver at work: its access functions (BusDrivers) shift the         *)
(* boundary scan register of a part in EXTEST, the pins of the part select   *)
(* and address memories on the board, and what these answer is captured by   *)
(* the next shift (urj_tap_chain_shift_data_registers, urj_part_set_signal,  *)
(* urj_part_get_signal).  Users are cmd/cmd_peekpoke.c, bus/readmem.c,       *)
(* bus/writemem.c and the flash drivers.                                     *)
EXTENDS BusDrivers

CONSTANTS
    Names,      \* the drivers considered
    Reach,      \* the banks used with each
    Crossing,   \* those with which a read sequence may leave a bank
    Boards,     \* the halves of the data lines that the memories of a board use
    Fresh,      \* what is written
    Captured    \* whether strapping pins have been captured before

Lines == {"low", "high"}

ASSUME BusAssumption ==
    /\ 0 \in Banks
    /\ Names \subseteq DOMAIN Drivers
    /\ \A n \in Names : Reach[n] \subseteq Banks
    /\ Crossing \subseteq Names
    /\ Boards \subseteq SUBSET Lines
    /\ Captured \in BOOLEAN

Nowhere == [bank |-> "nowhere"]

VARIABLES
    name,       \* the driver
    board,      \* the halves that its memories use
    seen,       \* what the strapping pins showed when last captured
    cells,      \* the levels the register puts out next: what set_signal set
    pins,       \* the levels it puts out
    latch,      \* the word held by the latch of a multiplexed bus
    got,        \* the data lines as last captured
    mem,        \* what the memories hold
    call,       \* the access function under way
    todo,       \* its shifts that are left
    addressed,  \* where the read sequence under way points to
    answer      \* what the last read function returned

vars == <<name, board, seen, cells, pins, latch, got, mem, call, todo, addressed, answer>>

Idle == [op |-> "idle"]

(* What a half of the data lines or of a location may hold: what it held at  *)
(* first (which differs from location to location), what was written, the    *)
(* zero the drivers assume where they have no line, or nobody knows what.    *)
Unknown == [is |-> "unknown"]
Zero == [is |-> "zero"]
Data == Address \cup Fresh \cup {Unknown, Zero}

Reachable == {a \in Address : a.bank \in Reach[name]}

-----------------------------------------------------------------------------
(* The board *)

Selected(p) == {b \in Banks : p.sel[b]}

(* The word the memories see. *)
Word(p, held) == IF name \in Muxed THEN held ELSE p.addr

(* The memories that drive the data lines. *)
Answering == IF pins.oe /\ ~pins.we THEN Selected(pins) ELSE {}

(* What is on a half of the data lines. *)
Level(h) ==
    IF pins.data[h] # Float
    THEN IF pins.data[h] = Shown \/ Answering # {} THEN Unknown ELSE pins.data[h]
    ELSE IF \E b \in Banks : Answering = {b}
         THEN LET b == CHOOSE b \in Banks : Answering = {b}
              IN mem[[bank |-> b, word |-> Word(pins, latch)]][h]
         ELSE Unknown

(* Pins change in no given order: a write enable that is asserted while the  *)
(* address changes may find the address there was.                           *)
WordsWritten(p, held) ==
    IF p.we THEN {{Word(p, held)}} \cup
                 (IF pins.we THEN {} ELSE {{Word(p, held), Word(pins, latch)}})
    ELSE {{}}

Stored(p, words) ==
    [a \in Address |-> IF a.bank \in Selected(p) /\ a.word \in words
                       THEN [h \in board |-> IF p.data[h] \in Fresh THEN p.data[h] ELSE Unknown]
                       ELSE mem[a]]

-----------------------------------------------------------------------------
(* The register *)

(* urj_part_set_signal: the other cells keep their levels. *)
Set(shift) == [Over(shift.lines, cells) EXCEPT
                   !.sel  = Over(shift.sel, cells.sel),
                   !.data = IF "data" \in DOMAIN shift.lines
                            THEN Over(shift.lines.data, cells.data)
                            ELSE cells.data]

(* What the function makes of the captured lines, width being the halves it  *)
(* uses.                                                                     *)
Result(levels, width) == [h \in board |-> IF h \in width THEN levels[h] ELSE Zero]

(* A shift: the register captures the pins, what was set moves in and is put *)
(* out.  The last shift of a function ends it.                               *)
Shift ==
    /\ todo # << >>
    /\ LET shift  == Head(todo)
           levels == [h \in board |-> Level(h)]
           out    == Set(shift)
           held   == IF out.ale THEN out.addr ELSE latch
           last   == Len(todo) = 1
           width  == IF name \in AsksAgain THEN Width(name, board, seen') ELSE call.width
       IN /\ cells' = out
          /\ pins' = out
          /\ latch' = held
          /\ \E words \in WordsWritten(out, held) : mem' = Stored(out, words)
          /\ got' = IF shift.capture THEN levels ELSE got
          /\ seen' = IF shift.capture THEN board ELSE seen
          /\ todo' = Tail(todo)
          /\ call' = IF last THEN Idle ELSE call
          /\ addressed' = IF last THEN call.then ELSE addressed
          /\ answer' = IF last /\ call.reads THEN Result(got', width) ELSE answer
          /\ UNCHANGED <<name, board>>

-----------------------------------------------------------------------------
(* The access functions *)

(* The data lines set are those of the width the driver finds. *)
Resolved(script, d) ==
    LET width == Width(name, board, seen)
        Lined(l) == IF "data" \in DOMAIN l
                     THEN [l EXCEPT !.data = [h \in width |-> IF @ = Given THEN d ELSE @]]
                     ELSE l
    IN [i \in DOMAIN script |-> [script[i] EXCEPT !.lines = Lined(@)]]

Begin(script, d, op, at, then) ==
    /\ call = Idle
    /\ todo' = Resolved(script, d)
    /\ call' = [op |-> op, reads |-> op \in {"read_next", "read_end"},
                width |-> Width(name, board, seen), at |-> at, datum |-> d, then |-> then]
    /\ UNCHANGED <<name, board, seen, cells, pins, latch, got, mem, addressed, answer>>

ReadStart(a) ==
    /\ addressed = Nowhere
    /\ Begin(Drivers[name].start[a], Zero, "read_start", a, a)

ReadNext(a) ==
    /\ addressed # Nowhere
    /\ a.bank = addressed.bank \/ name \in Crossing
    /\ Begin(Drivers[name].next[a], Zero, "read_next", a, a)

ReadEnd ==
    /\ addressed # Nowhere
    /\ Begin(Drivers[name].end, Zero, "read_end", addressed, Nowhere)

(* Nobody writes within a read sequence. *)
Write(a, d) ==
    /\ addressed = Nowhere
    /\ Begin(Drivers[name].write[a], d, "write", a, Nowhere)

-----------------------------------------------------------------------------
Init ==
    /\ name \in Names
    /\ board \in Boards
    /\ seen = IF Captured THEN board ELSE Unseen
    /\ cells = [sel |-> AllReleased, oe |-> FALSE, we |-> FALSE, ale |-> FALSE,
                addr |-> CHOOSE w \in Words : TRUE, data |-> [h \in Lines |-> Float]]
    /\ pins = cells
    /\ latch = cells.addr
    /\ got = [h \in board |-> Zero]
    /\ mem = [a \in Address |-> [h \in board |-> a]]
    /\ call = Idle
    /\ todo = << >>
    /\ addressed = Nowhere
    /\ answer = [h \in board |-> Zero]

Next ==
    \/ Shift
    \/ \E a \in Reachable : ReadStart(a) \/ ReadNext(a) \/ \E d \in Fresh : Write(a, d)
    \/ ReadEnd

Spec == Init /\ [][Next]_vars

-----------------------------------------------------------------------------
(* Properties *)

(* The types of the variables. *)
TypeOK ==
    /\ name \in Names
    /\ board \in Boards
    /\ seen \in Boards \cup {Unseen}
    /\ \A p \in {cells, pins} :
        /\ p.sel \in [Banks -> BOOLEAN]
        /\ p.addr \in Words
        /\ \A l \in {"oe", "we", "ale"} : p[l] \in BOOLEAN
        /\ p.data \in [Lines -> Fresh \cup {Float, Shown}]
    /\ latch \in Words
    /\ got \in [board -> Data]
    /\ mem \in [Address -> [board -> Data]]
    /\ call = Idle <=> todo = << >>
    /\ addressed \in Address \cup {Nowhere}
    /\ answer \in [board -> Data]

Memory == INSTANCE BusMemory WITH contents <- mem

(* Only a write writes, and where it is told to; when it ends its datum is   *)
(* there.                                                                    *)
Stores ==
    IF call.op = "write"
    THEN /\ \A a \in Address \ {call.at} : mem'[a] = mem[a]
         /\ call' = Idle => mem'[call.at] = [h \in board |-> call.datum]
    ELSE mem' = mem

(* The access functions keep what doc/UrJTAG.txt:1387-1434 says of a bus:    *)
(* each read returns what is stored where the one before pointed to, and a   *)
(* write stores its datum there and changes nothing else, whatever was done  *)
(* before and left on the pins.                                              *)
MemorySpec == Memory!Spec /\ [][Stores]_vars

(* The part and a memory, or two memories, never drive the same data line:   *)
(* an access function lets go of the lines before it enables an output, and  *)
(* disables it before it drives them again.  The drivers of multiplexed buses *)
(* do not: they enable it while the lines show the address.                  *)
NoContention ==
    name \notin Muxed =>
        /\ \A b, c \in Answering : b = c
        /\ Answering # {} => \A h \in board : pins.data[h] = Float
=============================================================================
