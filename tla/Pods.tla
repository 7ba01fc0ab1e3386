-------------------------------- MODULE Pods --------------------------------
(***************************************************************************)
(* The cables whose lines are bits of a port: those on a parallel port     *)
(* (src/tap/cable over src/tap/parport) and those on the general purpose   *)
(* outputs of the computer itself.  A driver writes whole ports; the chain *)
(* sees the edges of the lines wired to their bits.                        *)
(*                                                                         *)
(* Writes do not fail here: the functions drop what they return.           *)
(***************************************************************************)
EXTENDS Line, Integers, FiniteSets

CONSTANTS
    Clocks,         \* the arguments [tms, tdi, n] of clock
    Inputs,         \* the TDI bits of transfers
    Settings,       \* the arguments [mask, val] of set_signal
    Unasked,        \* <<row, lines>>: no caller sets one of them
    StartTaps,      \* states the controller may be in at the start
    Contents(_),    \* what the data port may hold at the start, by driver
    Unreadable      \* drivers used on a port whose reads may fail

Lead == {"TCK", "TMS", "TDI"}

-----------------------------------------------------------------------------
(* The drivers.  bit: where the lines are on the data port; control: ...on  *)
(* the control port; inverted: lines that are low when their bit is 1;      *)
(* ones: bits always written as 1; settable: what set_signal accepts; way:  *)
(* how the functions write the port and what they note; start: what init    *)
(* does, with the signals it takes to be high.                              *)

Parallel(bit) ==
    [name |-> "", bit |-> bit, control |-> <<>>, inverted |-> {}, ones |-> {},
     settable |-> DOMAIN bit, way |-> "parallel", start |-> "ask_port", assumed |-> {"TRST"}]

Arcom == Parallel([TDI |-> 1, TCK |-> 0, TMS |-> 2, TRST |-> 3])

Ea253 == Parallel([TDI |-> 0, TCK |-> 1, TMS |-> 2, TRST |-> 4])

Ei012 == Parallel([TDI |-> 1, TCK |-> 0, TMS |-> 2, TRST |-> 4])

Lattice == Parallel([TDI |-> 0, TCK |-> 1, TMS |-> 2, TRST |-> 4])

Wiggler2 ==
    [Parallel([TDI |-> 3, TCK |-> 2, TMS |-> 1, TRST |-> 4]) EXCEPT !.ones = {5, 6, 7}]

Byteblaster ==
    [Parallel([TDI |-> 6, TCK |-> 0, TMS |-> 1]) EXCEPT !.start = "check_power"]

Dlc5 ==
    [Parallel([TDI |-> 0, TCK |-> 1, TMS |-> 2]) EXCEPT !.ones = {4}, !.start = "assume"]

Keithkoep ==
    [Parallel([TDI |-> 0, TCK |-> 1, TMS |-> 2]) EXCEPT
        !.control = [TRST |-> 0], !.settable = Lead \cup {"TRST"}, !.start = "set_control"]

(* RESET can be set and is not written anywhere. *)
Mpcbdm ==
    [Parallel([TDI |-> 1, TCK |-> 0, TMS |-> 2]) EXCEPT
        !.control = [TRST |-> 0], !.inverted = {"TRST"}, !.settable = Lead \cup Signals,
        !.start = "set_control", !.assumed = Signals]

Triton ==
    [Parallel([TDI |-> 1, TCK |-> 0, TMS |-> 2, TRST |-> 3, RESET |-> 4]) EXCEPT
        !.start = "set_data", !.assumed = Signals]

(* TRST can be set and has no line. *)
Minimal ==
    [Parallel([TDI |-> 3, TCK |-> 2, TMS |-> 1]) EXCEPT
        !.settable = Lead \cup {"TRST"}, !.start = "keep_others"]

(* WIGGLER and IGLOO, with the lines where the user says, inverted or not.  *)
Wiggler(inverted) ==
    [Parallel([TDI |-> 3, TCK |-> 2, TMS |-> 1, TRST |-> 4]) EXCEPT
        !.inverted = inverted, !.ones = {5, 6, 7}, !.way = "wiggler", !.start = "ask_trst"]

Gpio ==
    [Parallel([TDI |-> 0, TCK |-> 1, TMS |-> 2]) EXCEPT !.way = "gpio", !.start = "set_outputs"]

Ts7800 ==
    [Parallel([TDI |-> 2, TCK |-> 1, TMS |-> 5]) EXCEPT !.way = "ts7800", !.start = "assume"]

Ep9307 ==
    [Parallel([TDI |-> 6, TCK |-> 7, TMS |-> 5, TRST |-> 3]) EXCEPT
        !.way = "ep9307", !.start = "set_data"]

Drivers ==
    [arcom |-> Arcom, ea253 |-> Ea253, ei012 |-> Ei012, lattice |-> Lattice,
     wiggler2 |-> Wiggler2, byteblaster |-> Byteblaster, dlc5 |-> Dlc5,
     keithkoep |-> Keithkoep, mpcbdm |-> Mpcbdm, triton |-> Triton, minimal |-> Minimal,
     wiggler |-> Wiggler({}), wiggler_mapped |-> Wiggler({"TMS", "TRST"}),
     gpio |-> Gpio, ts7800 |-> Ts7800, ep9307 |-> Ep9307]

-----------------------------------------------------------------------------
VARIABLES
    row,            \* the driver of the cable: its row of Drivers
    open,           \* cable->driver->init succeeded and done was not called
    pod,            \* the port, the chain on it and what the driver noted
    fresh,          \* no call was made since init
    ret             \* what the last call returned

vars == <<row, open, pod, fresh, ret>>

(* data, control: the bits of the ports that are 1; line, tdo: the chain    *)
(* and the level it gives TDO; signals: PARAM_SIGNALS; unused: minimal's    *)
(* unused_bits; lastout: gpio's.                                            *)

(* The lines that are high. *)
High(p) ==
    {l \in DOMAIN row.bit : (row.bit[l] \in p.data) # (l \in row.inverted)}
    \cup {l \in DOMAIN row.control : (row.control[l] \in p.control) # (l \in row.inverted)}

(* The pod signals the cable drives. *)
Drives == Signals \cap (DOMAIN row.bit \cup DOMAIN row.control)

(* The ports take new contents.  The chain samples TMS and TDI when TCK     *)
(* rises; of those that change at that moment it sees the lines in `late'   *)
(* as they were.  TDO follows when TCK falls.                               *)
Put(p, data, control, late) ==
    LET to == [p EXCEPT !.data = data, !.control = control]
        was == High(p)
        is == High(to)
        seen == (is \ late) \cup (was \cap late)
        bit(l) == IF l \in seen THEN 1 ELSE 0
        set == DriverSetSignal(p.line, Drives, is)
        line == IF "TCK" \in is \ was THEN Pulse(set, bit("TMS"), bit("TDI")) ELSE set
    IN  [to EXCEPT !.line = line,
                   !.tdo = IF "TCK" \in was \ is THEN Tdo(line) ELSE @]

PutData(p, data, late) == Put(p, data, p.control, late)

(* The data that makes these lines high and the other ones low. *)
DataFor(p, lines) ==
    row.ones \cup p.unused
    \cup {row.bit[l] : l \in {k \in DOMAIN row.bit : (k \in lines) # (k \in row.inverted)}}

LeadOf(tms, tdi) ==
    (IF tms = 1 THEN {"TMS"} ELSE {}) \cup (IF tdi = 1 THEN {"TDI"} ELSE {})

-----------------------------------------------------------------------------
(* The driver functions. *)

(* What get_signal and set_signal say: gpio keeps the lines it set itself,  *)
(* ts7800 and ep9307 look at what they wrote last.                          *)
Noted(p) ==
    CASE row.way = "gpio"   -> (p.signals \ Lead) \cup p.lastout
      [] row.way = "ts7800" -> (p.signals \ Lead) \cup (High(p) \cap Lead)
      [] row.way = "ep9307" -> (p.signals \ (Lead \cup {"TRST"})) \cup High(p)
      [] OTHER              -> p.signals

(* One cycle of TCK: low with TMS and TDI, high, and low again for some.    *)
Cycle(p, tms, tdi, late) ==
    LET lines == LeadOf(tms, tdi) \cup (p.signals \cap Signals)
        low == IF row.way = "gpio"
               THEN PutData(PutData(p, DataFor(p, lines \cup (High(p) \cap {"TCK"})), late),
                            DataFor(p, lines), late)
               ELSE PutData(p, DataFor(p, lines), late)
        high == PutData(low, DataFor(p, lines \cup {"TCK"}), late)
    IN  IF row.way \in {"gpio", "ts7800"} THEN PutData(high, DataFor(p, lines), late) ELSE high

(* driver->clock. *)
ClockPod(p, tms, tdi, n, late) ==
    LET after[i \in 0 .. n] == IF i = 0 THEN p ELSE Cycle(after[i - 1], tms, tdi, late)
    IN  [after[n] EXCEPT
            !.signals = CASE row.way = "parallel" ->
                                (@ \ Lead) \cup LeadOf(tms, tdi) \cup {"TCK"}
                          [] row.way = "wiggler" ->
                                (@ \ {"TMS", "TDI"}) \cup LeadOf(tms, tdi)
                          [] OTHER -> @]

(* driver->get_tdo lowers TCK, all but ts7800 TMS and TDI with it, and reads *)
(* TDO.  WIGGLER writes 0 to TMS and TDI, whatever level that is.           *)
Settled(p, late) ==
    LET held == p.signals \cap Signals
    IN  CASE row.way = "parallel" ->
                [PutData(p, DataFor(p, held), late) EXCEPT !.signals = @ \ Lead]
          [] row.way = "wiggler" ->
                PutData(p, DataFor(p, held \cup ({"TMS", "TDI"} \cap row.inverted)), late)
          [] row.way = "ep9307" -> PutData(p, DataFor(p, held), late)
          [] row.way = "gpio" -> [PutData(p, DataFor(p, {}), late) EXCEPT !.lastout = @ \ Lead]
          [] OTHER -> p

(* minimal takes a status that cannot be read for data (minimal.c:123). *)
Status(p, fails) ==
    IF ~fails THEN p.tdo ELSE IF row.name = "minimal" THEN 1 ELSE -1

(* urj_tap_cable_generic_transfer. *)
TransferPod(p, in, late, fails) ==
    LET after[i \in 0 .. Len(in)] ==
            IF i = 0 THEN [pod |-> p, out |-> <<>>]
            ELSE LET s == Settled(after[i - 1].pod, late)
                 IN  [pod |-> ClockPod(s, 0, in[i], 1, late),
                      out |-> Append(after[i - 1].out, Status(s, fails))]
    IN  after[Len(in)]

(* A slip: the lines that are not set go low. *)
SetPodOthersLow(p, mask, val, late) ==
    LET lines == val \cap mask \cap row.settable
    IN  [PutData(p, DataFor(p, lines), late) EXCEPT !.signals = lines]

(* driver->set_signal.  The lines of the control port are written on their  *)
(* own, the data port only for the others.  gpio sets the lines it is asked *)
(* to set, TCK last.                                                        *)
SetPod(p, mask, val, late) ==
    LET m == mask \cap row.settable
        lines == (Noted(p) \ m) \cup (val \cap m)
        bits == {row.control[l] : l \in {k \in DOMAIN row.control :
                                            (k \in lines) # (k \in row.inverted)}}
        data == IF row.control = <<>> \/ m \ Signals # {}
                THEN PutData(p, DataFor(p, lines), late) ELSE p
        both == IF m \cap Signals # {} THEN Put(data, data.data, bits, late) ELSE data
        set(l, q) == IF l \in m
                     THEN PutData(q, DataFor(q, (High(q) \ {l}) \cup (val \cap {l})), late)
                     ELSE q
    IN  CASE row.way = "gpio" ->
                [set("TCK", set("TDI", set("TMS", p))) EXCEPT !.lastout = val \cap m]
          [] m = {} -> p
          [] row.way \in {"ts7800", "ep9307"} -> data
          [] OTHER -> [both EXCEPT !.signals = lines]

-----------------------------------------------------------------------------
(* driver->init. *)

(* The port reads back what it holds, or cannot be read; then TRST is set.  *)
(* All but WIGGLER take TRST to be high if its bit or one above it is       *)
(* (arcom.c:68); minimal takes bit 1 for TCK (minimal.c:79).                *)
OpenedReading(p, readable) ==
    LET trst == row.bit["TRST"]
        written == IF readable THEN p ELSE PutData(p, {trst} \cup row.ones, {})
        above == \E b \in p.data : b >= trst
        is == CASE row.start = "ask_trst" -> "TRST" \in High(written)
                [] readable -> above
                [] OTHER -> TRUE
    IN  [written EXCEPT !.signals = IF is THEN {"TRST"} ELSE {}]

OpenedKeeping(p) ==
    [p EXCEPT
        !.unused = p.data \ {row.bit[l] : l \in Lead},
        !.signals = {"TRST"} \cup (IF p.data \cap {0, 1} # {} THEN {"TDI"} ELSE {})
                    \cup (IF 1 \in p.data THEN {"TCK"} ELSE {})
                    \cup (IF 0 \in p.data THEN {"TMS"} ELSE {})]

(* The other ones say what is high, and may write it. *)
OpenedWriting(p) ==
    LET bits == {row.control[l] : l \in {k \in DOMAIN row.control :
                                            (k \in row.assumed) # (k \in row.inverted)}}
        written ==
            CASE row.start = "set_control" -> Put(p, p.data, bits, {})
              [] row.start = "set_data"    -> PutData(p, DataFor(p, row.assumed), {})
              [] row.start = "set_outputs" -> PutData(p, {}, {})
              [] row.start = "check_power" -> Put(PutData(p, {5}, {}), {}, {2, 3}, {})
              [] OTHER                     -> p
    IN  [written EXCEPT
            !.signals = row.assumed, !.lastout = {},
            !.unused = IF row.way = "ts7800" THEN p.data \ {row.bit[l] : l \in Lead} ELSE {}]

Opened(p, readable) ==
    CASE row.start \in {"ask_port", "ask_trst"} -> OpenedReading(p, readable)
      [] row.start = "keep_others" -> OpenedKeeping(p)
      [] OTHER -> OpenedWriting(p)

-----------------------------------------------------------------------------
Init ==
    /\ row \in {[Drivers[d] EXCEPT !.name = d] : d \in DOMAIN Drivers}
    /\ open = FALSE
    /\ \E data \in Contents(row.name), tap \in StartTaps :
        pod = LET p == [data |-> data, control |-> {}, tdo |-> 0, signals |-> {},
                        unused |-> {}, lastout |-> {},
                        line |-> [tap |-> tap, cells |-> [i \in 1 .. Cells |-> 0], high |-> Signals,
                                  wired |-> TRUE]]
              IN  [p EXCEPT !.line = DriverSetSignal(@, Drives, High(p)),
                            !.tdo = IF "TCK" \in High(p) THEN @ ELSE Tdo(p.line)]
    /\ fresh = TRUE
    /\ ret = <<"void">>

Fails == IF row.name \in Unreadable THEN BOOLEAN ELSE {FALSE}

(* Which lines that change with TCK are seen late. *)
Late == {{}, {"TMS", "TDI"}}

Open ==
    /\ ~open
    /\ \E fails \in Fails :
        IF fails /\ row.start \in {"keep_others", "check_power"}
        THEN /\ ret' = <<"fail">>
             /\ UNCHANGED <<open, pod>>
        ELSE /\ pod' = Opened(pod, ~fails)
             /\ open' = TRUE
             /\ ret' = <<"ok">>
    /\ fresh' = TRUE
    /\ UNCHANGED row

(* urj_tap_cable_done. *)
Done ==
    /\ open
    /\ open' = FALSE
    /\ ret' = <<"void">>
    /\ fresh' = TRUE
    /\ UNCHANGED <<row, pod>>

Clock(tms, tdi, n) ==
    /\ open
    /\ \E late \in Late : pod' = ClockPod(pod, tms, tdi, n, late)
    /\ ret' = <<"void">>
    /\ fresh' = FALSE
    /\ UNCHANGED <<row, open>>

GetTdo ==
    /\ open
    /\ \E fails \in Fails :
        /\ pod' = Settled(pod, {})
        /\ ret' = <<"tdo", Status(pod', fails)>>
    /\ fresh' = FALSE
    /\ UNCHANGED <<row, open>>

Transfer(in) ==
    /\ open
    /\ \E late \in Late, fails \in Fails :
        LET x == TransferPod(pod, in, late, fails)
        IN  /\ pod' = x.pod
            /\ ret' = <<"bits", x.out>>
    /\ fresh' = FALSE
    /\ UNCHANGED <<row, open>>

SetSignal(mask, val) ==
    /\ open
    /\ \E late \in Late : pod' = SetPod(pod, mask, val, late)
    /\ ret' = <<"signals", Noted(pod) \cap Drives>>
    /\ fresh' = (fresh /\ mask \cap (DOMAIN row.bit \cup Lead) = {})
    /\ UNCHANGED <<row, open>>

GetSignal(sig) ==
    /\ open
    /\ ret' = <<"signal", IF sig \in Noted(pod) THEN 1 ELSE 0>>
    /\ UNCHANGED <<row, open, pod, fresh>>

(* urj_tap_cable_generic_set_frequency finds out how long a clock takes by  *)
(* clocking: the chain is not told, and does not take note of it.           *)
SetFrequency(loops) ==
    /\ open
    /\ \E late \in Late : pod' = ClockPod(pod, 0, 0, loops, late)
    /\ ret' = <<"void">>
    /\ fresh' = FALSE
    /\ UNCHANGED <<row, open>>

Next ==
    \/ Open
    \/ Done
    \/ \E c \in Clocks : Clock(c.tms, c.tdi, c.n)
    \/ GetTdo
    \/ \E in \in Inputs : Transfer(in)
    \/ \E s \in Settings :
        /\ \A u \in Unasked : u[1] = row.name => s.mask \cap u[2] = {}
        /\ SetSignal(s.mask, s.val)
    \/ \E sig \in Signals : GetSignal(sig)
    \/ \E loops \in {c.n : c \in {d \in Clocks : d.tms = 0 /\ d.tdi = 0}} : SetFrequency(loops)

Spec == Init /\ [][Next]_vars

-----------------------------------------------------------------------------
C == INSTANCE CableDriver WITH
        line <- pod.line, lead <- High(pod) \cap Lead, drives <- Drives

(* Whatever the wiring, what the port held before and the order of the       *)
(* calls: each clock is one edge, with its TMS and TDI on the lines before   *)
(* it, TDO is read when it has followed, a signal stays as it was set        *)
(* through clocks and transfers, and set_signal clocks the chain only where  *)
(* it raises TCK: the operators of Line, by which the models of the chain,   *)
(* the queues and the players call the drivers (struct URJ_CABLE_DRIVER).    *)
DriverSpec == C!Spec
=============================================================================
