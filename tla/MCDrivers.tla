------------------------------ MODULE MCDrivers ------------------------------
(* Three parts below the cable API, one of them at work in a behaviour:     *)
(* the drivers of cables on ports, those of cables on USB, and the target   *)
(* simulator.  They share nothing; the other two stay where they start.     *)
EXTENDS Line, Integers

VARIABLES
    part,                                           \* the part at work
    podRow, podOpen, pod, fresh, podRet,            \* Pods
    row, usbOpen, usb, todo, done, usbRet,          \* UsbCable
    tap_state, sreg, current_dr, tdo, driven        \* Jim

podVars == <<podRow, podOpen, pod, fresh, podRet>>
usbVars == <<row, usbOpen, usb, todo, done, usbRet>>
jimVars == <<tap_state, sreg, current_dr, tdo, driven>>
vars == <<part, podVars, usbVars, jimVars>>

-----------------------------------------------------------------------------
(* All port drivers, on a chain that is shifting, on ports that held        *)
(* nothing, everything, or the bits that mislead init.                      *)
MCClocks ==
    {[tms |-> 0, tdi |-> 0, n |-> 1], [tms |-> 0, tdi |-> 1, n |-> 2],
     [tms |-> 1, tdi |-> 0, n |-> 1], [tms |-> 1, tdi |-> 1, n |-> 1]}
MCInputs == {<<0, 1>>}

MCSettings ==
    {[mask |-> {"TRST"}, val |-> {}]}
    \cup {[mask |-> mask, val |-> val] : mask \in {Signals, {"TCK"}, {"TCK", "TMS"}},
                                        val \in {{}, Signals \cup {"TCK", "TMS"}}}

MCContents(d) == IF d = "ts7800" THEN {{}} ELSE {{}, 0 .. 7}
MCShift == {"SHIFT_DR"}
MCUnreadable == {"arcom", "wiggler", "wiggler2"}
MCUnasked ==
    {<<"ep9307", {"TRST"}>>, <<"wiggler", {"TCK"}>>, <<"wiggler_mapped", {"TCK"}>>,
     <<"ts7800", {"TCK"}>>}

P == INSTANCE Pods WITH
        row <- podRow, open <- podOpen, ret <- podRet, Clocks <- MCClocks, Inputs <- MCInputs,
        Settings <- MCSettings, Unasked <- MCUnasked, StartTaps <- MCShift,
        Contents <- MCContents, Unreadable <- MCUnreadable

-----------------------------------------------------------------------------
(* All USB cables: two of them scan, the others are there for their pins.   *)
(* Data bytes and TMS commands of two bits, so that three clocks fill one   *)
(* and a transfer of three bits leaves a rest.                              *)
Clk(tms, tdi, n) == [action |-> "CLOCK", tms |-> tms, tdi |-> tdi, n |-> n]
Transfer(in, keep) == [action |-> "TRANSFER", in |-> in, keep |-> keep]
GetTdo == [action |-> "GET_TDO"]
SetSig(mask, val) == [action |-> "SET_SIGNAL", mask |-> mask, val |-> val]
GetSig(sig) == [action |-> "GET_SIGNAL", sig |-> sig]

SignalsOf(a) ==
    CASE a \in {"generic", "milkymist"} -> {}
      [] a = "gnice"                    -> {"TRST"}
      [] a = "turtelizer2"              -> {"RESET"}
      [] OTHER                          -> Signals

MCScans ==
    {Clk(0, 1, 1), Clk(1, 0, 1), Transfer(<<1, 0, 1>>, TRUE), Transfer(<<0, 1>>, FALSE),
     GetTdo, Transfer(<<1, 0>>, TRUE)}

MCAsked(a) ==
    CASE a = "jtagkey"    -> MCScans
      [] a = "usbblaster" -> (MCScans \ {Transfer(<<0, 1>>, FALSE)}) \cup {Clk(0, 0, 3)}
      [] OTHER ->
            {SetSig({"TRST"}, {}), SetSig({"RESET"}, {}), SetSig(SignalsOf(a), SignalsOf(a))}
            \cup (CASE a = "gnice"      -> {Clk(1, 0, 1), GetSig("TRST")}
                    [] a = "flyswatter" -> {GetSig("RESET")}
                    [] a = "ktlink"     -> {Clk(1, 0, 1)}
                    [] OTHER            -> {})

MCAdapters ==
    {"generic", "jtagkey", "armusbocd", "gnice", "oocdlinks", "turtelizer2", "usbjtagrs232",
     "usbtojtagif", "signalyzer", "flyswatter", "usbscarab2", "ktlink", "milkymist",
     "usbblaster"}
MCDeferrable ==
    (MCScans \ {Transfer(<<1, 0>>, TRUE)})
    \cup {Clk(0, 0, 3), GetSig("TRST"), GetSig("RESET")}
MCImmediate ==
    {Transfer(<<1, 0>>, TRUE), SetSig({"TRST"}, {}), SetSig({"RESET"}, {})}
    \cup {SetSig(sigs, sigs) : sigs \in (SUBSET Signals) \ {{}}}
MCKinds == {"TRANSFER", "GET_TDO", "RESET", "TRST"}
MCCapture == {"CAPTURE_DR"}

U == INSTANCE UsbCable WITH
        open <- usbOpen, ret <- usbRet, Adapters <- MCAdapters,
        Deferrable <- MCDeferrable, Immediate <- MCImmediate, Kinds <- MCKinds,
        Asked <- MCAsked, StartTaps <- MCCapture, ByteBits <- 2, TmsBits <- 2, Chunk <- 1,
        MaxSend <- 4, MaxMpsse <- 6, MaxRecv <- 2, Room <- 128, MaxPending <- 2

-----------------------------------------------------------------------------
(* Jim with words of two bits: registers of one word, full, and of three,   *)
(* the last of them in use by half.                                         *)
MCLens == [n \in 0 .. 2 |-> <<2, 2, 5>>[n + 1]]

J == INSTANCE Jim WITH W <- 2, Lens <- MCLens, IdWord <- 3, Captures <- Bit, AsTapC <- TRUE

ASSUME PartsAssumption == U!UsbAssumption /\ J!JimAssumption

-----------------------------------------------------------------------------
Init ==
    /\ part \in {"ports", "usb", "jim"}
    /\ P!Init /\ U!Init /\ J!Init
    /\ part # "ports" => podRow.name = "minimal" /\ pod.data = {}
    /\ part # "usb" => row.name = "generic" /\ usb.line.cells = <<0>>

Next ==
    \/ part = "ports" /\ P!Next /\ UNCHANGED <<part, usbVars, jimVars>>
    \/ part = "usb" /\ U!Next /\ UNCHANGED <<part, podVars, jimVars>>
    \/ part = "jim" /\ J!Next /\ UNCHANGED <<part, podVars, usbVars>>

Spec == Init /\ [][Next]_vars

-----------------------------------------------------------------------------
(* P!DriverSpec, U!UsbEagerSpec and J!DeviceSpec, each looked at where its  *)
(* part is at work: elsewhere the part does not move.                       *)

(* However a cable is wired to a port, its driver drives the chain as the   *)
(* cable API says (src/tap/cable/*.c).                                      *)
PodsDriverSpec == P!C!Init /\ [][part = "ports" => P!C!Next]_(P!C!vars)

(* What the drivers of USB cables put off cannot be told from what is done  *)
(* at once (src/tap/cable/ft2232.c, usbblaster.c, cmd_xfer.c).              *)
UsbEagerSpec == U!E!Init /\ [][part = "usb" => U!E!Next]_(U!E!vars)

(* JIM is the device it simulates (src/jim).                                *)
JimDeviceSpec ==
    /\ J!Device!DeviceInit
    /\ [][part = "jim" => \E tms, tdi \in Bit : J!Device!Clock(tms, tdi)]_(J!Device!deviceVars)
=============================================================================
