----------------------------- MODULE CableDriver -----------------------------
(***************************************************************************)
(* What src/tap relies on of the functions of a cable driver (struct       *)
(* URJ_CABLE_DRIVER, include/urjtag/cable.h): the operators of Line, each  *)
(* at once.  A driver may leave TCK high or low between calls; the chain   *)
(* is clocked by set_signal when, and only when, it asks for TCK to rise.  *)
(***************************************************************************)
EXTENDS Line, Integers

CONSTANTS
    Clocks,         \* the arguments [tms, tdi, n] of clock
    Inputs,         \* the TDI bits of transfers
    Settings        \* the arguments [mask, val] of set_signal

Lead == {"TCK", "TMS", "TDI"}

VARIABLES
    line,           \* the chain
    lead,           \* those of TCK, TMS and TDI that are high
    drives,         \* the pod signals the cable really drives
    fresh,          \* the cable is new, nothing is known of the chain
    ret             \* what the last call returned

vars == <<line, lead, drives, fresh, ret>>

Failed == -1

(* What a call makes of the chain.  A program that has just opened a cable  *)
(* knows nothing of it: the driver may yet give it an edge.                 *)
Becomes(next) == IF fresh THEN line' \in Lines ELSE line' = next

Clock(tms, tdi, n) ==
    /\ Becomes(DriverClock(line, tms, tdi, n))
    /\ lead' \in SUBSET Lead
    /\ "TMS" \in lead' <=> tms = 1
    /\ "TDI" \in lead' <=> tdi = 1
    /\ ret' = <<"void">>
    /\ fresh' = FALSE

(* TDO, or that it could not be read. *)
GetTdo ==
    /\ Becomes(line)
    /\ ret' \in {<<"tdo", Tdo(line')>>, <<"tdo", Failed>>}
    /\ lead' \in SUBSET (lead \cup {"TMS", "TDI"})
    /\ fresh' = FALSE

Transfer(in) ==
    /\ LET x == DriverTransfer(line, in)
       IN  /\ Becomes(x.line)
           /\ fresh \/ ret' \in {<<"bits", x.out>>, <<"bits", [i \in DOMAIN in |-> Failed]>>}
    /\ lead' \in SUBSET (Lead \ {"TMS"})
    /\ fresh' = FALSE

(* TMS and TDI that change with the edge of TCK are seen before or after.   *)
Clocked(mask, val) ==
    LET Seen(pin) ==
            {IF pin \in high THEN 1 ELSE 0 : high \in {lead, (lead \ mask) \cup (val \cap mask)}}
    IN  IF "TCK" \in (mask \cap val) \ lead
        THEN {Pulse(line, tms, tdi) : tms \in Seen("TMS"), tdi \in Seen("TDI")}
        ELSE {line}

SetSignal(mask, val) ==
    /\ \E l \in Clocked(mask, val) : Becomes(DriverSetSignal(l, mask \cap drives, val))
    /\ lead' \in SUBSET Lead
    /\ lead' \cap mask = val \cap mask \cap Lead
    /\ fresh \/ ret' = <<"signals", line.high \cap drives>>
    /\ fresh' \in {FALSE, fresh /\ mask \cap Lead = {}}

GetSignal(sig) ==
    /\ fresh \/ sig \notin drives \/ ret' = <<"signal", DriverGetSignal(line, sig)>>
    /\ UNCHANGED <<line, lead, fresh>>

(* init, which may move the lines. *)
Open ==
    /\ line' \in Lines
    /\ lead' \in SUBSET Lead
    /\ fresh' = TRUE

Init ==
    /\ line \in Lines
    /\ lead \in SUBSET Lead
    /\ drives \in SUBSET Signals
    /\ fresh = TRUE

Next ==
    /\ UNCHANGED drives
    /\ \/ \E c \in Clocks : Clock(c.tms, c.tdi, c.n)
       \/ GetTdo
       \/ \E in \in Inputs : Transfer(in)
       \/ \E s \in Settings : SetSignal(s.mask, s.val)
       \/ \E sig \in Signals : GetSignal(sig)
       \/ Open

Spec == Init /\ [][Next]_vars
=============================================================================
