------------------------------ MODULE UsbCable ------------------------------
(***************************************************************************)
(* The cables on USB that keep a flush function of their own: those with   *)
(* an FT2232 (src/tap/cable/ft2232.c) and the USB-Blaster (usbblaster.c).  *)
(* A flush turns queued activities into commands (cmd_xfer.c), which go to *)
(* a buffer (src/tap/usbconn) and from there to the device; the bytes it   *)
(* answers come back in the order of the commands.  Clocks that do not     *)
(* fill a command may stay queued, and TDO is asked for only where the     *)
(* driver does not know it.                                                *)
(*                                                                         *)
(* A call is one step: the program does nothing else while it waits.       *)
(* Memory does not fail and the device gives the bytes it is asked for.    *)
(***************************************************************************)
EXTENDS Activity, Integers, SequencesExt

CONSTANTS
    Adapters,               \* the cables
    Deferrable,             \* the activities callers defer
    Immediate,              \* the activities callers ask for at once
    Kinds,                  \* the kinds of result callers fetch
    Asked(_),               \* those of the activities asked of an adapter
    StartTaps,              \* states the controller may be in at the start
    ByteBits, TmsBits,      \* bits of a data byte (8) and of a TMS command (7)
    Chunk,                  \* bytes of a USB-Blaster shift command (63)
    MaxSend, MaxMpsse, MaxRecv,     \* the limits of libftdx.h, in bytes
    Room,                   \* todo.max_items (128)
    MaxPending              \* bound: activities and results under way

UsbAssumption ==
    /\ {ByteBits, TmsBits, Chunk, MaxRecv} \subseteq Nat \ {0}
    /\ {MaxSend, MaxPending} \subseteq Nat
    /\ MaxMpsse - 4 \in Nat \ {0}
    /\ Room - MaxPending \in Nat

Amounts == {"OPTIONALLY", "TO_OUTPUT", "COMPLETELY"}

-----------------------------------------------------------------------------
(* The adapters.  The pins of the low byte are 0 to 7, of the high byte 8   *)
(* to 15.  bit: the pins of the signals; pins, dirs: those high and those   *)
(* driven by default; signals: params->signals after init; start: how init  *)
(* goes about it; done: the bytes done writes, with the pins it drives.     *)

Low == 0 .. 7
High == 8 .. 15

Tck == 0
Tdi == 1
Tms == 3
LeadPin == [TCK |-> Tck, TDI |-> Tdi, TMS |-> Tms]

Write(byte, pins, dirs) == [op |-> "port", byte |-> byte, pins |-> pins, dirs |-> dirs]

(* A byte with the output drivers of the cable disabled, then as inputs. *)
GivenUp(byte, pins, dirs) ==
    (IF dirs = {} THEN <<>> ELSE <<Write(byte, pins, dirs)>>) \o <<Write(byte, pins, {})>>

Ft2232(bit, pins, dirs, done) ==
    [name |-> "", bit |-> bit, pins |-> pins, dirs |-> dirs, signals |-> DOMAIN bit,
     start |-> "write", done |-> done]

GenericDone == GivenUp(Low, {}, {}) \o GivenUp(High, {}, {})

Generic == Ft2232(<<>>, {}, {}, GenericDone)

JtagKeyDone == GivenUp(Low, {4}, {4}) \o GivenUp(High, 8 .. 11, 8 .. 11)

JtagKey ==
    [Ft2232([TRST |-> 8, RESET |-> 9], {8, 9}, {4, 8, 9, 10, 11}, JtagKeyDone) EXCEPT
        !.start = "latch"]

ArmUsbOcdDone == GivenUp(Low, {4}, {4}) \o GivenUp(High, 8 .. 10, 8 .. 11)

ArmUsbOcd ==
    [Ft2232([TRST |-> 8, RESET |-> 9], {8, 9, 11}, {4, 8, 9, 10, 11}, ArmUsbOcdDone) EXCEPT
        !.start = "latch"]

GniceDone == GivenUp(Low, {}, {}) \o GivenUp(High, {9, 11}, {9, 11})

Gnice == Ft2232([TRST |-> 9], {9}, {9, 11}, GniceDone)

OocdLinksDone == GivenUp(Low, {}, {}) \o GivenUp(High, 8 .. 11, 8 .. 11)

OocdLinks ==
    [Ft2232([TRST |-> 9, RESET |-> 11], {9, 11}, 8 .. 11, OocdLinksDone) EXCEPT
        !.start = "latch"]

Turtelizer2Done == GivenUp(Low, {4}, {4}) \o GivenUp(High, {10, 11}, {10, 11})

Turtelizer2 == Ft2232([RESET |-> 6], {}, {4, 6, 10, 11}, Turtelizer2Done)

UsbJtagRs232Done == GivenUp(Low, {}, {}) \o GivenUp(High, 8 .. 11, 8 .. 11)

UsbJtagRs232 ==
    [Ft2232([TRST |-> 8, RESET |-> 9], {8, 9}, 8 .. 11, UsbJtagRs232Done) EXCEPT
        !.start = "latch"]

UsbToJtagIfDone == GivenUp(Low, {4, 6}, {}) \o GivenUp(High, {10, 11}, {10, 11})

UsbToJtagIf == Ft2232([TRST |-> 4, RESET |-> 6], {4, 6}, {4, 6, 7, 10, 11}, UsbToJtagIfDone)

SignalyzerDone == GivenUp(Low, {4, 5}, {}) \o GivenUp(High, {12, 13}, {12, 13})

Signalyzer == Ft2232([TRST |-> 4, RESET |-> 5], {4, 5}, {4, 5}, SignalyzerDone)

FlyswatterDone == GivenUp(Low, {6, 7}, {6, 7}) \o GivenUp(High, {11}, {})

Flyswatter == Ft2232([TRST |-> 4, RESET |-> 5], {4}, {4, 5, 6, 7, 11}, FlyswatterDone)

UsbScarab2Done == GivenUp(Low, {}, {}) \o GivenUp(High, {}, {})

UsbScarab2 ==
    [Ft2232([TRST |-> 8, RESET |-> 9], {8}, {8, 9, 11}, UsbScarab2Done) EXCEPT
        !.start = "ask_power"]

KtLinkDone == GivenUp(Low, {}, {}) \o GivenUp(High, {}, {})

KtLink ==
    [Ft2232([TRST |-> 8, RESET |-> 9], {3, 5, 8, 9}, {0, 1, 3, 5} \cup High, KtLinkDone) EXCEPT
        !.start = "write_later"]

MilkymistDone == GivenUp(Low, {}, {}) \o GivenUp(High, {}, {})

Milkymist ==
    [Ft2232(<<>>, {}, {}, MilkymistDone) EXCEPT
        !.start = "ask_power"]

UsbBlaster == [Ft2232(<<>>, {}, {}, <<>>) EXCEPT !.start = "blaster"]

Rows ==
    [generic |-> Generic, jtagkey |-> JtagKey, armusbocd |-> ArmUsbOcd, gnice |-> Gnice,
     oocdlinks |-> OocdLinks, turtelizer2 |-> Turtelizer2, usbjtagrs232 |-> UsbJtagRs232,
     usbtojtagif |-> UsbToJtagIf, signalyzer |-> Signalyzer, flyswatter |-> Flyswatter,
     usbscarab2 |-> UsbScarab2, ktlink |-> KtLink, milkymist |-> Milkymist,
     usbblaster |-> UsbBlaster]

-----------------------------------------------------------------------------
VARIABLES
    row,            \* the cable: its row of Rows
    open,           \* cable->driver->init succeeded and done was not called
    usb,            \* the device with its chain, the buffers, the parameters
    todo,           \* cable->todo: activities not carried out, oldest first
    done,           \* cable->done: results not fetched, oldest first
    ret             \* what the last call returned

vars == <<row, open, usb, todo, done, ret>>

(* line: the chain; tck, tms: levels the device holds; tdo: the level it    *)
(* sees; pins, dirs: its ports; out: bytes it answered that were not read;  *)
(* send, to_recv, recv: the buffers of the connection; cmds: params->       *)
(* cmd_root; signals, last_tdo_valid, last_tdo: the other parameters;       *)
(* waits: the call waits for bytes that do not come, or goes round for ever. *)
blaster == row.start = "blaster"

(* The pieces of a sequence, of n elements each but the last. *)
Pieces(seq, n) ==
    [i \in 1 .. (Len(seq) + n - 1) \div n |->
        SubSeq(seq, (i - 1) * n + 1, IF i * n < Len(seq) THEN i * n ELSE Len(seq))]

(* Op(x).  The value of x is computed once, which spares TLC work.          *)
With(x, Op(_)) == CHOOSE r \in {Op(v) : v \in {x}} : TRUE

-----------------------------------------------------------------------------
(* The device. *)

(* Signals that are not driven are pulled high. *)
HighSignals(pins, dirs) ==
    {s \in DOMAIN row.bit : row.bit[s] \notin dirs
                            \/ (row.bit[s] \in pins <=> row.bit[s] \in row.pins)}

(* Pulses, TCK low before and after; TDO is read before each. *)
Pulses(m, tms, tdi, read) ==
    LET after[i \in 0 .. Len(tdi)] ==
            IF i = 0 THEN m.line
            ELSE With(after[i - 1], LAMBDA line : Pulse(line, tms[i], tdi[i]))
        bits == [i \in DOMAIN tdi |-> Tdo(after[i - 1])]
        line == after[Len(tdi)]
    IN  [m EXCEPT !.line = line, !.tdo = Tdo(line), !.tck = 0, !.tms = tms[Len(tms)],
                  !.out = IF read THEN @ \o Pieces(bits, ByteBits) ELSE @]

(* The levels of TCK, TMS and TDI set one by one (USB-Blaster). *)
Levels(m, op) ==
    LET rises == op.tck = 1 /\ m.tck = 0
        tdo == IF op.tck = 0 /\ m.tck = 1 THEN Tdo(m.line) ELSE m.tdo
    IN  [m EXCEPT !.line = IF rises THEN Pulse(@, op.tms, op.tdi) ELSE @,
                  !.tck = op.tck, !.tms = op.tms, !.tdo = tdo,
                  !.out = IF op.read THEN Append(@, <<tdo>>) ELSE @]

Ports(m, op) ==
    LET pins == (m.pins \ op.byte) \cup op.pins
        dirs == (m.dirs \ op.byte) \cup op.dirs
    IN  [m EXCEPT !.pins = pins, !.dirs = dirs,
                  !.tms = IF Tms \notin op.byte THEN @ ELSE IF Tms \in op.pins THEN 1 ELSE 0,
                  !.line = DriverSetSignal(@, DOMAIN row.bit, HighSignals(pins, dirs))]

(* What the device does with a command. *)
Obeyed(m, op) ==
    CASE op.op = "tms"    -> Pulses(m, op.tms, [i \in DOMAIN op.tms |-> op.tdi], FALSE)
      [] op.op = "shift"  -> Pulses(m, [i \in DOMAIN op.in |-> m.tms], op.in, op.read)
      [] op.op = "levels" -> Levels(m, op)
      [] op.op = "port"   -> Ports(m, op)
      [] op.op = "get"    -> [m EXCEPT !.out = Append(@, <<m.tdo>>)]
      [] OTHER            -> m

(* The bytes of a command. *)
Size(op) ==
    CASE op.op = "shift"                    -> (IF blaster THEN 1 ELSE 3) + Len(op.in) \div ByteBits
      [] op.op \in {"levels", "get", "imm", "loopback"} -> 1
      [] OTHER                              -> 3


Bytes(ops) == FoldLeft(LAMBDA n, op : n + Size(op), 0, ops)

-----------------------------------------------------------------------------
(* The connection (libftdi.c; libftd2xx.c does the same). *)

(* What was sent is answered; as much as is owed is read, and the call      *)
(* waits until there is something.                                          *)
Received(m, n) ==
    IF m.to_recv > 0 /\ n = 0 THEN [m EXCEPT !.waits = TRUE]
    ELSE [m EXCEPT !.to_recv = @ - n, !.recv = @ \o SubSeq(m.out, 1, n),
                   !.out = SubSeq(@, n + 1, Len(@))]

Answered(m) == Received(m, IF m.to_recv < Len(m.out) THEN m.to_recv ELSE Len(m.out))

(* usbconn_ftdi_flush. *)
Flush(m) ==
    IF m.send = <<>> THEN m
    ELSE Answered([FoldLeft(Obeyed, m, m.send) EXCEPT !.send = <<>>])

(* usbconn_ftdi_write. *)
Full(m, cmd) ==
    \/ m.to_recv + cmd.recv > MaxRecv
    \/ Bytes(m.send) + Bytes(cmd.ops) > MaxSend /\ m.to_recv = 0

WriteConn(m, cmd) ==
    [IF Full(m, cmd) THEN Flush(m) ELSE m EXCEPT !.send = @ \o cmd.ops, !.to_recv = @ + cmd.recv]

(* usbconn_ftdi_read of one byte, after what was read before: those the     *)
(* connection holds come first, then those the device still has.            *)
Byte(m) ==
    CASE m.recv # <<>> -> Head(m.recv)
      [] m.recv = <<>> /\ m.out # <<>> -> Head(m.out)
      [] OTHER -> <<0>>

Taken(m) ==
    CASE m.recv # <<>> -> [m EXCEPT !.recv = Tail(@)]
      [] m.recv = <<>> /\ m.out # <<>> -> [m EXCEPT !.out = Tail(@)]
      [] OTHER -> [m EXCEPT !.waits = TRUE]

ReadAfter(r, m) == [usb |-> Taken(m), bytes |-> Append(r.bytes, Byte(m))]

(* usbconn_ftdi_connect. *)
Connected(m) == [m EXCEPT !.send = <<>>, !.to_recv = 0, !.recv = <<>>]

(* usbconn_ftdi_open: what the device had to say is gone. *)
Purged(m) == [m EXCEPT !.out = <<>>]

(* usbconn_ftdi_mpsse_open. *)
MpsseOpened(m) ==
    LET Command(op) == [recv |-> 0, ops |-> <<[op |-> op]>>]
    IN  Purged(Flush(FoldLeft(WriteConn, Purged(m), <<Command("divisor"), Command("loopback")>>)))

(* Bytes read: [usb, bytes]. *)
Read(m, n) ==
    FoldLeft(LAMBDA r, i : ReadAfter(r, Flush(r.usb)),
             [usb |-> m, bytes |-> <<>>], [i \in 1 .. n |-> i])

-----------------------------------------------------------------------------
(* Commands (cmd_xfer.c): what to send and how many bytes will come.        *)

Queue(m, recv, ops) == [m EXCEPT !.cmds = Append(@, [recv |-> recv, ops |-> ops])]

Answers(m) == \E i \in DOMAIN m.cmds : m.cmds[i].recv > 0

(* FT2232s answer at once when told to. *)
Imm(m) == IF Answers(m) /\ ~blaster THEN <<[recv |-> 0, ops |-> <<[op |-> "imm"]>>]>> ELSE <<>>

Written(m) == [FoldLeft(WriteConn, m, m.cmds \o Imm(m)) EXCEPT !.cmds = <<>>]

FlushIf(now, m) == IF now THEN Flush(m) ELSE m

(* urj_tap_cable_cx_xfer. *)
Xfer(m, how) == FlushIf(Answers(m) \/ how # "TO_OUTPUT", Written(m))

-----------------------------------------------------------------------------
(* The activities as commands: the _schedule and _finish functions. *)

(* What the FT2232 driver notes of the levels it leaves. *)
Noted(m, lead) == [m EXCEPT !.signals = (@ \cap Signals) \cup lead]

TmsCommand(bits, tdi) == [op |-> "tms", tms |-> bits, tdi |-> tdi]

Lead(tms, tdi) == (IF tms = 1 THEN {"TMS"} ELSE {}) \cup (IF tdi = 1 THEN {"TDI"} ELSE {})

(* ft2232_clock_schedule: as many TMS commands in one transfer as fit.      *)
ClockFt(m, act) ==
    LET bits == [i \in 1 .. act.n |-> act.tms]
        blocks == Pieces(Pieces(bits, TmsBits), (MaxMpsse - 4) \div 3 + 1)
        Add(q, i) ==
            Queue(IF i = 1 THEN q ELSE Xfer(q, "COMPLETELY"), 0,
                  [j \in DOMAIN blocks[i] |-> TmsCommand(blocks[i][j], act.tdi)])
    IN  Noted(FoldLeft(Add, m, [i \in DOMAIN blocks |-> i]), Lead(act.tms, act.tdi))

(* ft2232_clock_compact_schedule notes TMS as high if TDI is (ft2232.c:1590). *)
CompactFt(m, bits, tdi) ==
    Noted(Queue(m, 0, <<TmsCommand(bits, tdi)>>),
          Lead(IF bits[Len(bits)] = 1 \/ tdi = 1 THEN 1 ELSE 0, tdi))

Shift(in, keep) == [op |-> "shift", in |-> in, read |-> keep]

(* The bits of a transfer that fill bytes, and those left. *)
Whole(in) == SubSeq(in, 1, (Len(in) \div ByteBits) * ByteBits)
Rest(in) == SubSeq(in, (Len(in) \div ByteBits) * ByteBits + 1, Len(in))

(* ft2232_transfer_schedule.  A transfer that reads asks for TDO as well.   *)
TransferFt(m, act) ==
    LET most == IF act.keep /\ MaxRecv < MaxMpsse - 4 THEN MaxRecv ELSE MaxMpsse - 4
        rest == Rest(act.in)
        Add(q, bits) ==
            Queue(q, IF act.keep THEN (Len(bits) + ByteBits - 1) \div ByteBits ELSE 0,
                  <<Shift(bits, act.keep)>>)
        bytes == FoldLeft(Add, m, Pieces(Whole(act.in), most * ByteBits))
        all == IF rest = <<>> THEN bytes ELSE Add(bytes, rest)
    IN  [IF act.keep THEN Queue(all, 1, <<[op |-> "get"]>>) ELSE all EXCEPT
            !.last_tdo_valid = act.keep]

(* ft2232_get_tdo_finish. *)
Remember(r) == [r.usb EXCEPT !.last_tdo = r.bytes[1][1], !.last_tdo_valid = TRUE]

TdoFt(m) == Remember(Read(m, 1))

Forgets(m) == [m EXCEPT !.last_tdo_valid = FALSE]

(* ft2232_transfer_finish: [usb, bits]. *)
Shifted(r) == [usb |-> TdoFt(r.usb), bits |-> FlattenSeq(r.bytes)]

FinishFt(m, act) ==
    IF act.keep THEN Shifted(Read(m, (Len(act.in) + ByteBits - 1) \div ByteBits))
    ELSE [usb |-> Forgets(m), bits |-> <<>>]

(* ft2232_set_signal_schedule: both bytes are written, the signals that are *)
(* low by inverting their default.                                          *)
PinsFor(sigs) ==
    SymDiff(row.pins \cup {LeadPin[l] : l \in sigs \cap DOMAIN LeadPin},
            {row.bit[s] : s \in DOMAIN row.bit \ sigs})

PutSignals(m, sigs, pins) ==
    [m EXCEPT
        !.signals = sigs,
        !.cmds = @ \o <<[recv |-> 0, ops |-> <<Write(Low, pins \cap Low, (row.dirs \cap Low) \cup {Tck, Tdi, Tms})>>],
                        [recv |-> 0, ops |-> <<Write(High, pins \cap High, row.dirs \cap High)>>]>>]

SignalFt(m, mask, val) ==
    LET sigs == (m.signals \ mask) \cup (val \cap mask)
    IN  IF mask = {} THEN m ELSE PutSignals(m, sigs, PinsFor(sigs))

Level(tck, tms, tdi, keep) == [op |-> "levels", tck |-> tck, tms |-> tms, tdi |-> tdi, read |-> keep]

(* usbblaster_clock_schedule: whole bytes of clocks are shifted, the others *)
(* are given level by level.                                                *)
ClockBlaster(m, act) ==
    LET bytes == IF act.tms = 0 THEN act.n \div ByteBits ELSE 0
        tdi == [i \in 1 .. bytes * ByteBits |-> act.tdi]
        Fits(q, op) == Bytes(q.cmds[Len(q.cmds)].ops) + Size(op) <= MaxSend
        Push(q, op) == [q EXCEPT !.cmds[Len(q.cmds)].ops = Append(@, op)]
        Add(q, in) ==
            Push(IF Fits(q, Shift(in, FALSE)) THEN q ELSE Queue(Xfer(q, "COMPLETELY"), 0, <<>>),
                 Shift(in, FALSE))
        AddBit(q, i) ==
            Queue(q, 0, <<Level(0, act.tms, act.tdi, FALSE), Level(1, act.tms, act.tdi, FALSE)>>)
    IN  FoldLeft(AddBit, FoldLeft(Add, IF bytes = 0 THEN m ELSE Queue(m, 0, <<>>),
                                  Pieces(tdi, Chunk * ByteBits)),
                 [i \in 1 .. act.n - bytes * ByteBits |-> i])

(* usbblaster_transfer_schedule. *)
TransferBlaster(m, act) ==
    LET recv(n) == IF act.keep THEN n ELSE 0
        AddBytes(q, in) == Queue(q, recv(Len(in) \div ByteBits), <<Shift(in, act.keep)>>)
        AddBit(q, tdi) == Queue(q, recv(1), <<Level(0, 0, tdi, FALSE), Level(1, 0, tdi, act.keep)>>)
        low == Queue(m, 0, <<Level(0, 0, 0, FALSE)>>)
    IN  FoldLeft(AddBit, FoldLeft(AddBytes, low, Pieces(Whole(act.in), Chunk * ByteBits)), Rest(act.in))

(* usbblaster_transfer_finish: [usb, bits]. *)
FinishBlaster(m, act) ==
    LET ready == IF Whole(act.in) = <<>> THEN m ELSE Xfer(m, "COMPLETELY")
        Bits(r) == [usb |-> r.usb, bits |-> FlattenSeq(r.bytes)]
    IN  IF act.keep THEN Bits(Read(ready, Len(act.in) \div ByteBits + Len(Rest(act.in))))
        ELSE [usb |-> m, bits |-> <<>>]

(* usbblaster_get_tdo_schedule. *)
GetTdoBlaster(m) ==
    Queue(m, 1, <<Level(0, 0, 0, FALSE), Level(0, 0, 0, TRUE)>>)

-----------------------------------------------------------------------------
(* ft2232_flush: one pass over the queue.  s: the driver; bits, tdi: clocks *)
(* that do not fill a command yet; valid: TDO will be known.                *)

Emit(s) ==
    IF s.bits = <<>> THEN s ELSE [s EXCEPT !.usb = CompactFt(@, s.bits, s.tdi), !.bits = <<>>]

(* A slip: clocks are joined whatever their TDI. *)
JoinedAnyTdi(s, act) ==
    LET all == s.bits \o [i \in 1 .. act.n |-> act.tms]
        full == SubSeq(all, 1, (Len(all) \div TmsBits) * TmsBits)
        rest == SubSeq(all, Len(full) + 1, Len(all))
        sent == FoldLeft(LAMBDA m, bits : CompactFt(m, bits, act.tdi), s.usb, Pieces(full, TmsBits))
    IN  [usb |-> sent, bits |-> rest, tdi |-> act.tdi, valid |-> FALSE]

(* A clock joins those before it that have its TDI; full commands go.       *)
Joined(s, act) ==
    LET before == IF act.tdi = s.tdi THEN s ELSE Emit(s)
        all == before.bits \o [i \in 1 .. act.n |-> act.tms]
        full == SubSeq(all, 1, (Len(all) \div TmsBits) * TmsBits)
        rest == SubSeq(all, Len(full) + 1, Len(all))
        sent == FoldLeft(LAMBDA m, bits : CompactFt(m, bits, act.tdi), before.usb,
                         Pieces(full, TmsBits))
    IN  [usb |-> sent, bits |-> rest, tdi |-> act.tdi, valid |-> FALSE]

Scheduled(s, act) ==
    LET e == Emit(s)
    IN  CASE act.action = "COMPACT" ->
                [s EXCEPT !.bits = act.bits, !.tdi = act.tdi, !.valid = FALSE]
          [] act.action = "CLOCK" -> Joined(s, act)
          [] act.action = "GET_TDO" ->
                [e EXCEPT !.usb = IF s.valid THEN @ ELSE Queue(@, 1, <<[op |-> "get"]>>),
                          !.valid = TRUE]
          [] act.action = "SET_SIGNAL" ->
                [e EXCEPT !.usb = SignalFt(@, act.mask, act.val), !.valid = FALSE]
          [] act.action = "TRANSFER" ->
                [e EXCEPT !.usb = TransferFt(@, act), !.valid = act.keep]
          [] OTHER -> e

(* Its results.  f: the driver and the results; valid: TDO is known;        *)
(* signals: params->signals before the pass.  A deferred set_signal falls   *)
(* through to get_signal (ft2232.c:2126), with a signal nobody set.         *)

Finished(f, act) ==
    LET Got(kind, value) == [f EXCEPT !.done = Append(@, [kind |-> kind, value |-> value])]
        Known(m) == [Got("GET_TDO", m.last_tdo) EXCEPT !.usb = m, !.valid = m.last_tdo_valid]
        Out(x) == [IF act.keep THEN Got("TRANSFER", x.bits) ELSE f EXCEPT
                    !.usb = x.usb, !.valid = x.usb.last_tdo_valid]
    IN  CASE act.action \in {"CLOCK", "COMPACT"} ->
                [f EXCEPT !.usb.last_tdo_valid = FALSE, !.valid = FALSE]
          [] act.action = "GET_TDO" -> Known(IF f.valid THEN f.usb ELSE TdoFt(f.usb))
          [] act.action = "SET_SIGNAL" ->
                [f EXCEPT !.done = @ \o <<[kind |-> "SET_SIGNAL", value |-> f.signals],
                                          [kind |-> "unset", value |-> 0]>>]
          [] act.action = "GET_SIGNAL" -> Got(act.sig, IF act.sig \in f.signals THEN 1 ELSE 0)
          [] act.action = "TRANSFER" -> Out(FinishFt(f.usb, act))

(* The clocks left at the end stay in the queue, unless all is to go.  A    *)
(* pass over a full ring that keeps nothing finishes nothing: it is done    *)
(* again for ever (ft2232.c:2066).                                          *)
Passed ==
    FoldLeft(Scheduled, [usb |-> usb, bits |-> <<>>, tdi |-> 0, valid |-> usb.last_tdo_valid], todo)

Settled(sent, acts) ==
    FoldLeft(Finished, [usb |-> sent, done |-> done, valid |-> usb.last_tdo_valid,
                        signals |-> usb.signals], acts)

Left(f, kept) ==
    [usb |-> [f.usb EXCEPT !.waits = @ \/ (kept = <<>> /\ Len(todo) = Room)],
     done |-> f.done, todo |-> kept]

FlushPass(pass, how) ==
    IF pass.bits # <<>> /\ how # "COMPLETELY"
    THEN Left(Settled(Xfer(pass.usb, how), Front(todo)),
              <<[action |-> "COMPACT", bits |-> pass.bits, tdi |-> pass.tdi]>>)
    ELSE Left(Settled(Xfer(Emit(pass).usb, how), todo), <<>>)

FlushFt(how) == FlushPass(Passed, how)

(* usbblaster_flush. *)
ScheduledBlaster(m, act) ==
    CASE act.action = "CLOCK"    -> ClockBlaster(m, act)
      [] act.action = "GET_TDO"  -> GetTdoBlaster(m)
      [] act.action = "TRANSFER" -> TransferBlaster(m, act)
      [] OTHER                   -> m

FinishedBlaster(f, act) ==
    LET Done(kind, value, m) ==
            [usb |-> m, done |-> Append(f.done, [kind |-> kind, value |-> value])]
        Tdo1(r) == Done("GET_TDO", r.bytes[1][1], r.usb)
        Out(x) == Done("TRANSFER", x.bits, x.usb)
    IN  CASE act.action = "GET_TDO" -> Tdo1(Read(f.usb, 1))
          [] act.action = "GET_SIGNAL" -> Done(act.sig, IF act.sig = "TRST" THEN 1 ELSE -1, f.usb)
          [] act.action = "TRANSFER" /\ act.keep -> Out(FinishBlaster(f.usb, act))
          [] OTHER -> f

FlushBlaster(how) ==
    Left(FoldLeft(FinishedBlaster,
                  [usb |-> Xfer(FoldLeft(ScheduledBlaster, usb, todo), how), done |-> done], todo),
         <<>>)

(* driver->flush: [usb, todo, done]. *)
Flushed(how) ==
    LET same == [usb |-> usb, todo |-> todo, done |-> done]
    IN  CASE how = "OPTIONALLY" -> same
          [] how # "OPTIONALLY" /\ todo = <<>> -> [same EXCEPT !.usb = Xfer(@, how)]
          [] how = "TO_OUTPUT" /\ Len(todo) = 1 /\ todo[1].action = "COMPACT" -> same
          [] OTHER -> IF blaster THEN FlushBlaster(how) ELSE FlushFt(how)

-----------------------------------------------------------------------------
(* The immediate functions of the drivers: [usb, value]. *)

ScheduledFt(m, act) ==
    CASE act.action = "CLOCK"      -> ClockFt(m, act)
      [] act.action = "GET_TDO"    -> Queue(m, 1, <<[op |-> "get"]>>)
      [] act.action = "TRANSFER"   -> TransferFt(m, act)
      [] act.action = "SET_SIGNAL" -> SignalFt(m, act.mask, act.val)

Known(m) == [usb |-> m, value |-> <<"tdo", m.last_tdo>>]
Out(x) == [usb |-> x.usb, value |-> <<"bits", x.bits>>]

(* old: the signals before. *)
DriveFt(m, act, old) ==
    CASE act.action = "CLOCK"      -> [usb |-> Forgets(m), value |-> <<"void">>]
      [] act.action = "GET_TDO"    -> Known(TdoFt(m))
      [] act.action = "TRANSFER"   -> Out(FinishFt(m, act))
      [] act.action = "SET_SIGNAL" -> [usb |-> Forgets(m), value |-> <<"signals", old \cap Signals>>]

Level1(r) == [usb |-> r.usb, value |-> <<"tdo", r.bytes[1][1]>>]

DriveBlaster(m, act) ==
    CASE act.action = "CLOCK"      -> [usb |-> m, value |-> <<"void">>]
      [] act.action = "GET_TDO"    -> Level1(Read(m, 1))
      [] act.action = "TRANSFER"   -> Out(FinishBlaster(m, act))
      [] act.action = "SET_SIGNAL" -> [usb |-> m, value |-> <<"signals", 1>>]

Driven(m, act) ==
    IF blaster THEN DriveBlaster(Xfer(ScheduledBlaster(m, act), "COMPLETELY"), act)
    ELSE DriveFt(Xfer(ScheduledFt(m, act), "COMPLETELY"), act, m.signals)

-----------------------------------------------------------------------------
(* init and done of the drivers. *)

(* The default levels, TMS high with them (ft2232.c:367-385). *)
Defaults ==
    LET low == Write(Low, (row.pins \cap Low) \cup {Tms}, (row.dirs \cap Low) \cup {Tck, Tdi, Tms})
        high(dirs) == Write(High, row.pins \cap High, dirs)
    IN  <<low>> \o (IF row.start = "latch" THEN <<high({})>> ELSE <<>>) \o <<high(row.dirs \cap High)>>

(* ft2232_set_frequency_common. *)
Frequency(m) == Xfer(Queue(m, 0, <<[op |-> "divisor"]>>), "COMPLETELY")

(* KT-LINK's init leaves the writes among the commands (ft2232.c:967-1002). *)
OpenedWith(new, probe) ==
    CASE row.start = "blaster" ->
            Xfer(Queue(new, 0, <<Level(0, 0, 0, FALSE)>>), "COMPLETELY")
      [] row.start = "write_later" -> Queue(Frequency(probe), 0, Defaults)
      [] OTHER -> Frequency(Queue(IF row.start = "ask_power" THEN probe ELSE new, 0, Defaults))

Probed(m) == Read(Xfer(Queue(m, 1, <<[op |-> "get"]>>), "COMPLETELY"), 1).usb

Fresh(m) ==
    [(IF blaster THEN Purged(Connected(m)) ELSE MpsseOpened(Connected(m))) EXCEPT
        !.cmds = <<>>, !.signals = row.signals, !.last_tdo_valid = FALSE]

Opened(m) == OpenedWith(Fresh(m), Probed(Fresh(m)))

Closed(m) == IF blaster THEN m ELSE Xfer(Queue(m, 0, row.done), "COMPLETELY")

-----------------------------------------------------------------------------
Init ==
    /\ row \in {[Rows[a] EXCEPT !.name = a] : a \in Adapters}
    /\ open = FALSE
    /\ \E line \in {l \in Lines : l.tap \in StartTaps /\ l.high = row.signals
                                  /\ (l.wired <=> "TRST" \in DOMAIN row.bit)} :
        usb = [line |-> line, tck |-> 0, tms |-> 0, tdo |-> Tdo(line), pins |-> {}, dirs |-> {},
               out |-> <<>>, send |-> <<>>, to_recv |-> 0, recv |-> <<>>, cmds |-> <<>>,
               signals |-> {}, last_tdo_valid |-> FALSE, last_tdo |-> 0, waits |-> FALSE]
    /\ todo = <<>>
    /\ done = <<>>
    /\ ret = <<"void">>

(* The cable with all that was asked for carried out. *)
Drained ==
    LET Obey(m, op) == With(m, LAMBDA v : Obeyed(v, op))
        sent == FoldLeft(Obey, usb, usb.send \o FlattenSeq([i \in DOMAIN usb.cmds |-> usb.cmds[i].ops]))
        Carried(st, act) ==
            IF act.action = "COMPACT"
            THEN [st EXCEPT !.line = FoldLeft(LAMBDA l, tms : Pulse(l, tms, act.tdi), @, act.bits)]
            ELSE [line |-> Effect(act, st.line), results |-> st.results \o ResultOf(act, st.line)]
        Carry(st, act) == With(st, LAMBDA v : Carried(v, act))
    IN  FoldLeft(Carry, [line |-> sent.line, results |-> done], todo)

(* What callers mind: bits are transferred in Shift states only, the        *)
(* signals are set outside of them, and long clocks with TMS low are given  *)
(* where TMS low stays.                                                     *)
Sensible(act) ==
    \E tap \in {Drained.line.tap} :
        CASE act.action = "TRANSFER"   -> tap \in ShiftStates
          [] act.action = "SET_SIGNAL" -> tap \notin ShiftStates /\ act.mask \subseteq DOMAIN row.bit
          [] act.action = "CLOCK"      -> act.tms = 0 /\ act.n > 1 => IeeeNext(tap, 0) = tap
          [] OTHER                     -> TRUE

Pending(action) == Len(SelectSeq(todo, LAMBDA act : act.action = action))

Returns(m, value) == ret' = IF m.waits THEN <<"waits">> ELSE value

Ready == open /\ ~usb.waits

Connect ==
    /\ ~open
    /\ \/ /\ usb' = Opened(usb)
          /\ open' = TRUE
          /\ Returns(usb', <<"void">>)
       \/ /\ ret' = <<"fail">>
          /\ UNCHANGED <<usb, open>>
    /\ UNCHANGED <<row, todo, done>>

(* urj_tap_cable_done.  Results not fetched are lost, signals low go high,  *)
(* and init raises TMS: callers close with none, outside of Shift states.   *)
Close ==
    /\ Ready
    /\ Drained.results = <<>>
    /\ Drained.line.tap \notin ShiftStates
    /\ usb.line.high = row.signals
    /\ usb' = Closed(Flushed("COMPLETELY").usb)
    /\ todo' = <<>>
    /\ open' = FALSE
    /\ Returns(usb', <<"void">>)
    /\ UNCHANGED <<row, done>>

(* A byte that was never asked for is read for the second of two deferred   *)
(* get_tdos if a transfer without results is behind them and TDO was known  *)
(* (ft2232.c:2095): callers do not do that.                                 *)
Defer(act) ==
    /\ Ready
    /\ Len(todo) + Len(done) < MaxPending
    /\ act \in Asked(row.name)
    /\ Sensible(act)
    /\ act.action = "TRANSFER" /\ ~act.keep => Pending("GET_TDO") < 2
    /\ todo' = Append(todo, act)
    /\ ret' = <<"ok">>
    /\ UNCHANGED <<row, open, usb, done>>

Do(act) ==
    /\ Ready
    /\ act \in Asked(row.name)
    /\ Sensible(act)
    /\ \E f \in {Flushed("COMPLETELY")} : \E d \in {Driven(f.usb, act)} :
        /\ usb' = d.usb
        /\ todo' = f.todo
        /\ done' = f.done
        /\ Returns(d.usb, d.value)
    /\ UNCHANGED <<row, open>>

(* urj_tap_cable_transfer_late, get_tdo_late, get_signal_late, of the       *)
(* oldest result owed, or when none is and no clock is left.                *)
Late(kind) ==
    /\ Ready
    /\ \E owed \in {Drained.results} :
        \/ owed # <<>> /\ Head(owed).kind = kind
        \/ owed = <<>> /\ todo = <<>> /\ kind \notin Signals
    /\ \E f \in {Flushed("TO_OUTPUT")} :
        /\ todo' = f.todo
        /\ \/ /\ f.done # <<>> /\ Head(f.done).kind = kind
              /\ usb' = f.usb
              /\ done' = Tail(f.done)
              /\ Returns(usb', <<kind, Head(f.done).value>>)
           \/ /\ f.done = <<>> /\ kind = "GET_TDO"
              /\ \E d \in {Driven(f.usb, [action |-> "GET_TDO"])} :
                    /\ usb' = d.usb
                    /\ Returns(d.usb, <<kind, d.value[2]>>)
              /\ done' = <<>>
           \/ /\ f.done # <<>> \/ kind # "GET_TDO"
              /\ ~(f.done # <<>> /\ Head(f.done).kind = kind)
              /\ usb' = f.usb
              /\ done' = <<>>
              /\ Returns(usb', <<kind>>)
    /\ UNCHANGED <<row, open>>

FlushCable(how) ==
    /\ Ready
    /\ \E f \in {Flushed(how)} :
        /\ usb' = f.usb
        /\ todo' = f.todo
        /\ done' = f.done
        /\ Returns(f.usb, <<"void">>)
    /\ UNCHANGED <<row, open>>

(* urj_tap_cable_set_frequency, to another frequency. *)
SetFrequency ==
    /\ Ready
    /\ \E f \in {Flushed("COMPLETELY")} :
        /\ usb' = IF blaster THEN f.usb ELSE Frequency(f.usb)
        /\ todo' = f.todo
        /\ done' = f.done
        /\ Returns(usb', <<"void">>)
    /\ UNCHANGED <<row, open>>

Next ==
    \/ Connect
    \/ Close
    \/ \E act \in Deferrable : Defer(act)
    \/ \E act \in Immediate : Do(act)
    \/ \E kind \in Kinds : Late(kind)
    \/ \E how \in Amounts : FlushCable(how)
    \/ SetFrequency

Spec == Init /\ [][Next]_vars

-----------------------------------------------------------------------------
E == INSTANCE EagerCable WITH line <- Drained.line, results <- Drained.results

(* Deferral cannot be observed here either, though clocks stay behind in    *)
(* the queue, are joined over activities, TDO is remembered rather than     *)
(* asked for, and answers are read long after the commands they belong to:  *)
(* the chain sees the clocks asked for, and every byte that comes back is   *)
(* taken for the activity it answers (ft2232.c:1951-2197,                   *)
(* usbblaster.c:369-498, cmd_xfer.c:283-330, libftdi.c:66-268).             *)
UsbEagerSpec == E!Spec
=============================================================================
