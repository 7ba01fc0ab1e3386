-------------------------------- MODULE Line --------------------------------
(***************************************************************************)
(* The hardware at the other end of the cable, as src/tap uses it: a scan  *)
(* chain seen through TCK, TMS, TDI, TDO and the pod's signals, and the    *)
(* immediate functions of a cable driver.  The chain is abstracted to one  *)
(* TAP controller and the cells between TDI and TDO.                       *)
(***************************************************************************)
EXTENDS TapController, Sequences

CONSTANT Cells          \* number of cells between TDI and TDO

ASSUME CellsAssumption == Cells \in Nat \ {0}

Signals == {"TRST", "RESET"}        \* URJ_POD_CS_TRST, URJ_POD_CS_RESET

(* tap: the controller; cells: what was shifted in, the next to come out   *)
(* first; high: the signals driven high; wired: the optional TRST pin is   *)
(* there, and holds the controller in Test-Logic-Reset while it is low.    *)
Lines ==
    [tap : TapStates, cells : [1 .. Cells -> Bit], high : SUBSET Signals,
     wired : BOOLEAN]

HeldInReset(line) == line.wired /\ "TRST" \notin line.high

(* One TCK pulse. *)
Pulse(line, tms, tdi) ==
    [line EXCEPT
        !.tap = IF HeldInReset(line) THEN "TEST_LOGIC_RESET"
                ELSE IeeeNext(@, tms),
        !.cells = IF line.tap \in ShiftStates THEN Append(Tail(@), tdi) ELSE @]

Tdo(line) == Head(line.cells)

(* driver->clock: n pulses. *)
DriverClock(line, tms, tdi, n) ==
    LET after[i \in 0 .. n] ==
            IF i = 0 THEN line ELSE Pulse(after[i - 1], tms, tdi)
    IN  after[n]

(* urj_tap_cable_generic_transfer: TDO is sampled before each pulse.       *)
DriverTransfer(line, in) ==
    LET after[i \in 0 .. Len(in)] ==
            IF i = 0 THEN line ELSE Pulse(after[i - 1], 0, in[i])
    IN  [line |-> after[Len(in)],
         out  |-> [i \in 1 .. Len(in) |-> Tdo(after[i - 1])]]

(* driver->set_signal. *)
DriverSetSignal(line, mask, val) ==
    LET set == [line EXCEPT !.high = (@ \ mask) \cup (val \cap mask)]
    IN  [set EXCEPT !.tap = IF HeldInReset(set) THEN "TEST_LOGIC_RESET" ELSE @]

(* driver->get_signal (urj_tap_cable_generic_get_signal). *)
DriverGetSignal(line, sig) == IF sig \in line.high THEN 1 ELSE 0
=============================================================================
