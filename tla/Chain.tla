------------------------------- MODULE Chain -------------------------------
(***************************************************************************)
(* A chain: the TAP state UrJTAG keeps for it and the operations of        *)
(* src/tap/chain.c and src/tap/tap.c, which are sequences of cable calls.  *)
(* The cable is the one EagerCable promises.                               *)
(*                                                                         *)
(* A call of an operation sets `prog' to the cable calls it consists of;   *)
(* each is a step, and each deferred call may find no memory.  No          *)
(* operation looks at the result of a deferred call.                       *)
(***************************************************************************)
EXTENDS Activity, SequencesExt

CONSTANTS
    Clocks,         \* the [tms, tdi, n] callers clock the chain with
    PodSettings,    \* the [mask, val] callers set the pod's signals to
    Shifts,         \* the register exchanges callers ask for (below)
    ShiftFrom,      \* states from which callers shift without a capture
    StartTaps,      \* states the controller may be in at the start
    MemoryFails     \* TRUE: a deferred call may find no memory

(* An exchange is [path, regs, capture, exit]: regs is a sequence of       *)
(* [in, outlen], one register per part, the part next to TDO first;        *)
(* outlen is the length of the register that takes the output, or NoOut.   *)
NoOut == 0
ExitModes == {"SHIFT", "IDLE", "EXIT1", "UPDATE"}       \* chain.h:34-37

ASSUME ChainAssumption ==
    /\ MemoryFails \in BOOLEAN
    /\ Clocks \subseteq [tms : Bit, tdi : Bit, n : Nat]
    /\ PodSettings \subseteq [mask : SUBSET Signals, val : SUBSET Signals]
    /\ ShiftFrom \subseteq TapStates
    /\ StartTaps \subseteq TapStates
    /\ \A x \in Shifts :
        /\ x.path \in {"DR", "IR"}
        /\ x.capture \in BOOLEAN
        /\ x.exit \in ExitModes
        /\ x.regs \in Seq([in : Seq(Bit), outlen : Nat]) \ {<<>>}
        /\ \A i \in DOMAIN x.regs : x.regs[i].in # <<>>

VARIABLES
    line, results, ret,         \* the cable
    state,                      \* chain->state
    prog,                       \* the cable calls the operation has left
    outs,                       \* the output registers of the exchange
    last,                       \* the operation under way, or the last one
    lost                        \* a deferred call was refused since the last reset

chainVars == <<state, prog, outs, last, lost>>
vars == <<line, results, ret, chainVars>>

C == INSTANCE EagerCable WITH
        Deferrable <- {}, Immediate <- {}, Kinds <- {"TRANSFER", "GET_TDO"}

-----------------------------------------------------------------------------
(* The cable calls operations consist of. *)

ClockOp(tms, tdi, n) == [op |-> "clock", tms |-> tms, tdi |-> tdi, n |-> n]
DeferClockOp(tms, tdi, n) == [op |-> "defer_clock", tms |-> tms, tdi |-> tdi, n |-> n]
DeferOp(act) == [op |-> "defer", act |-> act]
SetSignalOp(mask, val) == [op |-> "set_signal", mask |-> mask, val |-> val]

(* A slip: four clocks do not leave a pause state for Test-Logic-Reset.     *)
ResetCallsFour ==
    <<[op |-> "state_reset"], ClockOp(1, 0, 4), ClockOp(0, 0, 1)>>

(* urj_tap_reset. *)
ResetCalls ==
    <<[op |-> "state_reset"], ClockOp(1, 0, 5), ClockOp(0, 0, 1)>>

(* urj_tap_trst_reset. *)
TrstResetCalls ==
    <<SetSignalOp({"TRST"}, {}), SetSignalOp({"TRST"}, {"TRST"})>> \o ResetCalls

(* urj_tap_capture_dr, urj_tap_capture_ir. *)
CaptureCalls(path) ==
    <<DeferClockOp(1, 0, IF path = "DR" THEN 1 ELSE 2), DeferClockOp(0, 0, 1)>>

(* The bits of a register that go through one transfer; those left are     *)
(* clocked one by one (tap.c:94-98, 132-136).                              *)
Transferred(reg, exit) ==
    LET most == Len(reg.in) - (IF exit = "SHIFT" THEN 0 ELSE 1)
    IN  IF reg.outlen # NoOut /\ reg.outlen < most THEN reg.outlen ELSE most

(* A slip: the last bit goes with the transfer, whatever follows.          *)
ShiftCallsAllBits(reg, exit) ==
    <<DeferOp([action |-> "TRANSFER", in |-> reg.in, keep |-> reg.outlen # NoOut])>>

(* urj_tap_defer_shift_register, after the clock that leaves a capture.    *)
ShiftCalls(reg, exit) ==
    LET n == Transferred(reg, exit)
        bit(i) ==
            (IF i <= reg.outlen THEN <<DeferOp([action |-> "GET_TDO"])>> ELSE <<>>)
            \o <<DeferClockOp(IF exit # "SHIFT" /\ i = Len(reg.in) THEN 1 ELSE 0,
                              reg.in[i], 1)>>
        bits[i \in n .. Len(reg.in)] == IF i = n THEN <<>> ELSE bits[i - 1] \o bit(i)
    IN  <<DeferOp([action |-> "TRANSFER", in |-> SubSeq(reg.in, 1, n),
                   keep |-> reg.outlen # NoOut])>>
        \o bits[Len(reg.in)]
        \o (CASE exit = "IDLE"   -> <<DeferClockOp(1, 0, 1), DeferClockOp(0, 0, 1)>>
              [] exit = "UPDATE" -> <<DeferClockOp(1, 0, 1)>>
              [] OTHER           -> <<>>)

(* A slip: the bits clocked one by one not fetched. *)
OutputCallsTransferOnly(reg, k, exit) ==
    IF reg.outlen = NoOut THEN <<>> ELSE <<[op |-> "transfer_late", reg |-> k]>>

(* urj_tap_shift_register_output of the k-th register. *)
OutputCalls(reg, k, exit) ==
    IF reg.outlen = NoOut THEN <<>>
    ELSE LET n == Transferred(reg, exit)
             upto == IF Len(reg.in) < reg.outlen THEN Len(reg.in) ELSE reg.outlen
         IN  <<[op |-> "transfer_late", reg |-> k]>>
             \o [i \in 1 .. upto - n |->
                    [op |-> "get_tdo_late", reg |-> k, at |-> n + i]]

(* The exit mode of the k-th register: only the last one leaves the shift  *)
(* state.                                                                  *)
ExitOf(x, k) == IF k = Len(x.regs) THEN x.exit ELSE "SHIFT"

(* urj_tap_chain_shift_instructions_mode and shift_data_registers_mode; of *)
(* a single register, urj_tap_shift_register.                              *)
ExchangeCalls(x) ==
    LET all == [k \in DOMAIN x.regs |->
                    [op |-> "defer_shift", reg |-> x.regs[k], exit |-> ExitOf(x, k)]]
        fetch[k \in 0 .. Len(x.regs)] ==
            IF k = 0 THEN <<>>
            ELSE fetch[k - 1] \o OutputCalls(x.regs[k], k, ExitOf(x, k))
    IN  (IF x.capture THEN CaptureCalls(x.path) ELSE <<>>)
        \o all \o fetch[Len(x.regs)]

(* urj_tap_reset_bypass, when the length of all instructions is known.     *)
BypassCalls ==
    LET ones == [in |-> [i \in 1 .. Cells |-> 1], outlen |-> NoOut]
    IN  ResetCalls \o CaptureCalls("IR")
        \o <<[op |-> "defer_shift", reg |-> ones, exit |-> "IDLE"]>>

-----------------------------------------------------------------------------
Init ==
    /\ line \in {l \in Lines :
                    /\ l.tap \in StartTaps
                    /\ HeldInReset(l) => l.tap = "TEST_LOGIC_RESET"}
    /\ results = <<>>
    /\ ret = <<"void">>
    /\ state = Unknown
    /\ prog = <<>>
    /\ outs = <<>>
    /\ last = [op |-> "none"]
    /\ lost = FALSE

(* An operation that takes no registers. *)
Start(op) ==
    /\ prog = <<>>
    /\ last' = [op |-> op]
    /\ outs' = <<>>
    /\ UNCHANGED <<line, results, ret, state, lost>>

TapReset == Start("reset") /\ prog' = ResetCalls

TrstReset == Start("reset") /\ prog' = TrstResetCalls

ResetBypass ==
    /\ Start("reset_bypass")
    /\ prog' \in {BypassCalls} \cup (IF MemoryFails THEN {ResetCalls} ELSE {})

ChainClock(c) == Start("clock") /\ prog' = <<ClockOp(c.tms, c.tdi, c.n)>>

ChainDeferClock(c) == Start("clock") /\ prog' = <<DeferClockOp(c.tms, c.tdi, c.n)>>

Capture(path) == Start("capture") /\ prog' = CaptureCalls(path)

(* urj_tap_chain_set_trst and urj_tap_chain_set_pod_signal. *)
SetPodSignal(p) == Start("signal") /\ prog' = <<SetSignalOp(p.mask, p.val)>>

(* The states the comments of tap.c:90, 163 and 176 name. *)
ReadyFor(x) ==
    IF x.capture
    THEN state \in {"RUN_TEST_IDLE", "UPDATE_DR", "UPDATE_IR"}
    ELSE state \in ShiftFrom

Exchange(x) ==
    /\ prog = <<>>
    /\ ReadyFor(x)
    /\ prog' = ExchangeCalls(x)
    /\ last' = [op |-> "exchange", x |-> x, cells |-> line.cells,
                tracked |-> state = line.tap /\ ~HeldInReset(line),
                path |-> IF x.capture THEN x.path
                         ELSE IF state \in {"CAPTURE_DR", "SHIFT_DR", "EXIT2_DR"}
                         THEN "DR" ELSE "IR"]
    /\ outs' = [k \in DOMAIN x.regs |-> [i \in 1 .. x.regs[k].outlen |-> 0]]
    /\ UNCHANGED <<line, results, ret, state, lost>>

-----------------------------------------------------------------------------
(* One call. *)

At(op) == prog # <<>> /\ Head(prog).op = op

Done == prog' = Tail(prog) /\ UNCHANGED <<last, lost>>

(* urj_tap_state_reset. *)
StateReset ==
    /\ At("state_reset")
    /\ state' = "TEST_LOGIC_RESET"
    /\ lost' = FALSE
    /\ prog' = Tail(prog)
    /\ UNCHANGED <<line, results, ret, outs, last>>

(* urj_tap_chain_clock. *)
CableClock ==
    /\ At("clock")
    /\ LET c == Head(prog)
       IN  /\ C!Do([action |-> "CLOCK", tms |-> c.tms, tdi |-> c.tdi, n |-> c.n])
           /\ state' = StateClocks(state, c.tms, c.n)
    /\ Done
    /\ UNCHANGED outs

(* urj_tap_chain_defer_clock: the state moves even when the cable refuses. *)
CableDeferClock ==
    /\ At("defer_clock")
    /\ LET c == Head(prog)
       IN  /\ C!Defer([action |-> "CLOCK", tms |-> c.tms, tdi |-> c.tdi, n |-> c.n])
           /\ state' = StateClocks(state, c.tms, c.n)
    /\ Done
    /\ UNCHANGED outs

CableDeferClockFails ==
    /\ MemoryFails
    /\ At("defer_clock")
    /\ C!Refuse
    /\ state' = StateClocks(state, Head(prog).tms, Head(prog).n)
    /\ lost' = TRUE
    /\ prog' = Tail(prog)
    /\ UNCHANGED <<outs, last>>

(* urj_tap_cable_defer_transfer, urj_tap_cable_defer_get_tdo. *)
CableDefer ==
    /\ At("defer")
    /\ C!Defer(Head(prog).act)
    /\ Done
    /\ UNCHANGED <<state, outs>>

CableDeferFails ==
    /\ MemoryFails
    /\ At("defer")
    /\ C!Refuse
    /\ lost' = TRUE
    /\ prog' = Tail(prog)
    /\ UNCHANGED <<state, outs, last>>

(* A slip: the clock that leaves a capture state forgotten.                *)
DeferShiftFromCapture ==
    /\ At("defer_shift")
    /\ prog' = ShiftCalls(Head(prog).reg, Head(prog).exit) \o Tail(prog)
    /\ UNCHANGED <<line, results, ret, state, outs, last, lost>>

(* urj_tap_defer_shift_register looks at the state when it is called. *)
DeferShift ==
    /\ At("defer_shift")
    /\ prog' =
        (IF "CAPTURE" \in Flags(state) THEN <<DeferClockOp(0, 0, 1)>> ELSE <<>>)
        \o ShiftCalls(Head(prog).reg, Head(prog).exit) \o Tail(prog)
    /\ UNCHANGED <<line, results, ret, state, outs, last, lost>>

(* The copy takes the length of the result (cable.c:450-453), not that of  *)
(* the register.                                                           *)
TransferLate ==
    /\ At("transfer_late")
    /\ LET k == Head(prog).reg
       IN  \/ /\ C!Fetch("TRANSFER")
              /\ LET bits == Head(results).value
                 IN  outs' = [outs EXCEPT ![k] = bits \o SubSeq(@, Len(bits) + 1, Len(@))]
           \/ C!FetchNone("TRANSFER") /\ UNCHANGED outs
    /\ Done
    /\ UNCHANGED state

GetTdoLate ==
    /\ At("get_tdo_late")
    /\ C!Fetch("GET_TDO") \/ C!FetchNone("GET_TDO")
    /\ outs' = [outs EXCEPT ![Head(prog).reg][Head(prog).at] = ret'[2]]
    /\ Done
    /\ UNCHANGED state

(* urj_tap_cable_set_signal returns the old signals. *)
SetSignal ==
    /\ At("set_signal")
    /\ LET set == Head(prog)
           new == (line.high \ set.mask) \cup (set.val \cap set.mask)
       IN  /\ C!Do([action |-> "SET_SIGNAL", mask |-> set.mask, val |-> set.val])
           /\ state' = StateSetTrst(state, "TRST" \in line.high, "TRST" \in new)
    /\ Done
    /\ UNCHANGED outs

Call ==
    \/ TapReset \/ TrstReset \/ ResetBypass
    \/ \E c \in Clocks : ChainClock(c) \/ ChainDeferClock(c)
    \/ \E path \in {"DR", "IR"} : Capture(path)
    \/ \E p \in PodSettings : SetPodSignal(p)
    \/ \E x \in Shifts : Exchange(x)

Step ==
    \/ StateReset
    \/ CableClock \/ CableDeferClock \/ CableDeferClockFails
    \/ CableDefer \/ CableDeferFails
    \/ DeferShift \/ TransferLate \/ GetTdoLate
    \/ SetSignal

Next == Call \/ Step

(* A call goes on to its end. *)
Spec == Init /\ [][Next]_vars /\ WF_vars(Step)

-----------------------------------------------------------------------------
Concat(ss) ==
    LET upto[i \in 0 .. Len(ss)] ==
            IF i = 0 THEN <<>> ELSE upto[i - 1] \o ss[i]
    IN  upto[Len(ss)]

(* Types; the output registers keep their lengths: no result copied into   *)
(* one is longer than it (tap.c:94-98, cable.c:450-453), as long as no     *)
(* call is refused.                                                        *)
TypeOK ==
    /\ line \in Lines
    /\ state \in TapStates \cup {Unknown}
    /\ \A i \in DOMAIN results : results[i].kind \in {"TRANSFER", "GET_TDO"}
    /\ ~lost => \A k \in DOMAIN outs : outs[k] \in [1 .. last.x.regs[k].outlen -> Bit]

(* chain->state is the state of the TAP controllers, or unknown, whenever  *)
(* no operation is under way, TRST is not low and no deferred call was     *)
(* refused since the last reset: the clocks that operations send are all   *)
(* accounted for, in state.c:97-205.                                       *)
TapTracked ==
    prog = <<>> /\ ~lost /\ line.wired /\ "TRST" \in line.high
        => state \in {Unknown, line.tap}

(* urj_tap_reset brings the chain and its state back together, wherever    *)
(* they were and whatever was lost before, with TRST connected or not.     *)
ResetResynchronises ==
    prog = <<>> /\ last.op = "reset" /\ ~HeldInReset(line)
        => state = line.tap /\ state = "RUN_TEST_IDLE"

(* An operation fetches or gives up all results of its deferred calls: the *)
(* next one never gets an older result for its own (tap.c:80-145).         *)
NothingLeftBehind == prog = <<>> => results = <<>>

(* After an exchange that began with a known state the parts hold the      *)
(* registers shifted in and the output registers what the parts held, bit  *)
(* by bit, however the bits were split between transfers and clocks        *)
(* (tap.c:80-153, chain.c:246-378).                                        *)
RegistersExchanged ==
    prog = <<>> /\ last.op = "exchange" /\ last.tracked /\ ~lost =>
        LET regs == last.x.regs
            in(k) == regs[k].in
            before(k) == Len(Concat([j \in 1 .. k - 1 |-> in(j)]))
            stream == last.cells \o Concat([k \in DOMAIN regs |-> in(k)])
            total == Len(stream) - Cells
        IN  /\ line.cells = SubSeq(stream, total + 1, total + Cells)
            /\ \A k \in DOMAIN regs :
                \A i \in 1 .. regs[k].outlen :
                    i <= Len(in(k)) => outs[k][i] = stream[before(k) + i]

Destination(path) ==
    IF path = "DR"
    THEN [SHIFT |-> "SHIFT_DR", IDLE |-> "RUN_TEST_IDLE",
          EXIT1 |-> "EXIT1_DR", UPDATE |-> "UPDATE_DR"]
    ELSE [SHIFT |-> "SHIFT_IR", IDLE |-> "RUN_TEST_IDLE",
          EXIT1 |-> "EXIT1_IR", UPDATE |-> "UPDATE_IR"]

(* Such an exchange leaves the controller where its exit mode says (chain.h:34-37, *)
(* the comments of tap.c:112-120).                                         *)
ExitReached ==
    prog = <<>> /\ last.op = "exchange" /\ last.tracked /\ ~lost =>
        line.tap = Destination(last.path)[last.x.exit]

(* urj_tap_chain_defer_clock, which reports success (chain.c:205), has had *)
(* the clock queued: "@return URJ_STATUS_OK on success; URJ_STATUS_FAIL on *)
(* error" (include/urjtag/chain.h:65).                                     *)
DeferClockNotLost ==
    [][At("defer_clock") =>
        line' = DriverClock(line, Head(prog).tms, Head(prog).tdi, Head(prog).n)]_vars
=============================================================================
