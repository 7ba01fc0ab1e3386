---------------------------- MODULE ChainProofs ----------------------------
(***************************************************************************)
(* src/tap/chain.c and tap.c, for chains of any length, exchanges of any   *)
(* registers and clocks of any number, with any of the deferred calls      *)
(* finding no memory: the TAP state is tracked, operations fetch what they *)
(* asked for, and exchanges swap registers and cells bit by bit.           *)
(*                                                                         *)
(* In three parts: which cable calls operations consist of, where these    *)
(* take the tracked state, and how many results they ask for and fetch;    *)
(* the tracking; the exchanges.                                            *)
(***************************************************************************)
EXTENDS Chain, LineProofs

-----------------------------------------------------------------------------
(* The cable calls there are. *)

Acts ==
    [action : {"TRANSFER"}, in : Seq(Bit), keep : BOOLEAN] \cup [action : {"GET_TDO"}]

ClockOps == [op : {"clock"}, tms : Bit, tdi : Bit, n : Nat]
DeferClockOps == [op : {"defer_clock"}, tms : Bit, tdi : Bit, n : Nat]
DeferOps == [op : {"defer"}, act : Acts]
Registers == [in : Seq(Bit) \ {<<>>}, outlen : Nat]
DeferShiftOps == [op : {"defer_shift"}, reg : Registers, exit : ExitModes]
LateOps ==
    [op : {"transfer_late"}, reg : Nat] \cup [op : {"get_tdo_late"}, reg : Nat, at : Nat]
SetSignalOps == [op : {"set_signal"}, mask : SUBSET Signals, val : SUBSET Signals]
StateResetOps == [op : {"state_reset"}]

(* Those of a shift, of an exchange, and all. *)
ShiftOps == DeferClockOps \cup DeferOps
ExchangeOps == ShiftOps \cup DeferShiftOps \cup LateOps
Ops == ExchangeOps \cup ClockOps \cup SetSignalOps \cup StateResetOps

(* The tracked state is in A; the call takes it into B, and transfers bits *)
(* only where controllers in that state shift.                             *)
ReadyToShift(path) ==
    IF path = "DR" THEN {"CAPTURE_DR", "SHIFT_DR"} ELSE {"CAPTURE_IR", "SHIFT_IR"}

Leads(A, op, B) ==
    CASE op.op \in {"clock", "defer_clock"} ->
            \A st \in A : StateClocks(st, op.tms, op.n) \in B
      [] op.op = "state_reset" -> "TEST_LOGIC_RESET" \in B
      [] op.op = "set_signal" -> A \cup {"TEST_LOGIC_RESET", Unknown} \subseteq B
      [] op.op = "defer" ->
            /\ A \subseteq B
            /\ op.act.action = "TRANSFER" /\ op.act.in # <<>> => A \subseteq ShiftStates
      [] op.op = "defer_shift" ->
            \E path \in {"DR", "IR"} :
                A \subseteq ReadyToShift(path) /\ Destination(path)[op.exit] \in B
      [] OTHER -> A \subseteq B

(* Calls that lead from A into B, one after another. *)
Path(A, s, B) ==
    \E tr \in [0 .. Len(s) -> SUBSET States] :
        /\ A \subseteq tr[0]
        /\ tr[Len(s)] \subseteq B
        /\ \A i \in 1 .. Len(s) : Leads(tr[i - 1], s[i], tr[i])

(* A call leads from a part of where it may begin to all of where it may   *)
(* end.                                                                    *)
LEMMA LeadsMonotone ==
    ASSUME NEW A, NEW B, NEW C1, NEW D, NEW op \in Ops,
           Leads(A, op, B), C1 \subseteq A, B \subseteq D
    PROVE  Leads(C1, op, D)
<1>1. CASE op.op \in {"clock", "defer_clock"}
  BY <1>1 DEF Leads
<1>2. CASE op.op = "state_reset"
  BY <1>2 DEF Leads
<1>3. CASE op.op = "set_signal"
  BY <1>3 DEF Leads
<1>4. CASE op.op = "defer"
  BY <1>4 DEF Leads
<1>5. CASE op.op = "defer_shift"
  BY <1>5 DEF Leads
<1>6. CASE op.op \in {"transfer_late", "get_tdo_late"}
  BY <1>6 DEF Leads
<1> QED
  BY <1>1, <1>2, <1>3, <1>4, <1>5, <1>6
     DEF Ops, ExchangeOps, ShiftOps, ClockOps, DeferClockOps, DeferOps, DeferShiftOps,
         LateOps, SetSignalOps, StateResetOps

(* No calls at all stay where they begin. *)
LEMMA PathEmpty ==
    ASSUME NEW A \in SUBSET States, NEW B, A \subseteq B
    PROVE  Path(A, <<>>, B)
<1> DEFINE tr == [i \in 0 .. 0 |-> A]
<1>1. /\ tr \in [0 .. Len(<<>>) -> SUBSET States]
      /\ A \subseteq tr[0] /\ tr[Len(<<>>)] \subseteq B
      /\ \A i \in 1 .. Len(<<>>) : Leads(tr[i - 1], <<>>[i], tr[i])
  OBVIOUS
<1> QED
  BY <1>1 DEF Path

(* One call is a path. *)
LEMMA PathOne ==
    ASSUME NEW A \in SUBSET States, NEW op \in Ops, NEW B \in SUBSET States, Leads(A, op, B)
    PROVE  Path(A, <<op>>, B)
<1> DEFINE tr == [i \in 0 .. 1 |-> IF i = 0 THEN A ELSE B]
<1>1. Len(<<op>>) = 1 /\ <<op>>[1] = op
  OBVIOUS
<1>2. /\ tr \in [0 .. 1 -> SUBSET States]
      /\ A \subseteq tr[0] /\ tr[1] \subseteq B
      /\ \A i \in 1 .. 1 : Leads(tr[i - 1], <<op>>[i], tr[i])
  BY <1>1
<1> QED
  BY <1>1, <1>2 DEF Path

(* Paths compose. *)
LEMMA PathConcat ==
    ASSUME NEW A, NEW B, NEW D, NEW s \in Seq(Ops), NEW t \in Seq(Ops),
           Path(A, s, B), Path(B, t, D)
    PROVE  Path(A, s \o t, D)
<1>1. PICK f \in [0 .. Len(s) -> SUBSET States] :
        /\ A \subseteq f[0] /\ f[Len(s)] \subseteq B
        /\ \A i \in 1 .. Len(s) : Leads(f[i - 1], s[i], f[i])
  BY DEF Path
<1>2. PICK g \in [0 .. Len(t) -> SUBSET States] :
        /\ B \subseteq g[0] /\ g[Len(t)] \subseteq D
        /\ \A i \in 1 .. Len(t) : Leads(g[i - 1], t[i], g[i])
  BY DEF Path
<1>3. /\ Len(s) \in Nat /\ Len(t) \in Nat
      /\ Len(s \o t) = Len(s) + Len(t)
      /\ \A i \in 1 .. Len(s) + Len(t) :
            (s \o t)[i] = IF i <= Len(s) THEN s[i] ELSE t[i - Len(s)]
  BY ConcatProperties, LenProperties
<1> DEFINE tr == [i \in 0 .. Len(s) + Len(t) |->
                    IF i < Len(s) THEN f[i] ELSE g[i - Len(s)]]
<1>4. tr \in [0 .. Len(s) + Len(t) -> SUBSET States]
  BY <1>3
<1>5. A \subseteq tr[0] /\ tr[Len(s) + Len(t)] \subseteq D
  BY <1>1, <1>2, <1>3
<1>6. ASSUME NEW i \in 1 .. Len(s) + Len(t) PROVE Leads(tr[i - 1], (s \o t)[i], tr[i])
  <2>1. CASE i < Len(s)
    <3>1. tr[i - 1] = f[i - 1] /\ tr[i] = f[i] /\ (s \o t)[i] = s[i]
      BY <1>3, <2>1
    <3> QED
      BY <1>1, <1>3, <2>1, <3>1
  <2>2. CASE i = Len(s)
    <3>1. Leads(f[i - 1], s[i], f[i]) /\ f[i] \subseteq g[0] /\ s[i] \in Ops
      BY <1>1, <1>2, <1>3, <2>2, ElementOfSeq
    <3>2. Leads(f[i - 1], s[i], g[0])
      BY <3>1, LeadsMonotone
    <3>3. tr[i - 1] = f[i - 1] /\ tr[i] = g[0] /\ (s \o t)[i] = s[i]
      BY <1>3, <2>2
    <3> QED
      BY <3>2, <3>3
  <2>3. CASE i > Len(s)
    <3> DEFINE j == i - Len(s)
    <3>1. j \in 1 .. Len(t)
      BY <1>3, <2>3
    <3>2. tr[i - 1] = g[j - 1] /\ tr[i] = g[j] /\ (s \o t)[i] = t[j]
      BY <1>3, <2>3
    <3> QED
      BY <1>2, <3>1, <3>2
  <2> QED
    BY <1>3, <2>1, <2>2, <2>3
<1> QED
  BY <1>3, <1>4, <1>5, <1>6 DEF Path

(* The first call of a path leads to where the rest begins. *)
LEMMA PathTail ==
    ASSUME NEW st \in States, NEW s \in Seq(Ops), s # <<>>, NEW B, Path({st}, s, B)
    PROVE  \E A \in SUBSET States : Leads({st}, Head(s), A) /\ Path(A, Tail(s), B)
<1>1. PICK tr \in [0 .. Len(s) -> SUBSET States] :
        /\ st \in tr[0] /\ tr[Len(s)] \subseteq B
        /\ \A i \in 1 .. Len(s) : Leads(tr[i - 1], s[i], tr[i])
  BY DEF Path
<1>2. /\ Len(s) \in Nat \ {0} /\ Head(s) = s[1] /\ s[1] \in Ops
      /\ Len(Tail(s)) = Len(s) - 1
      /\ \A i \in 1 .. Len(s) - 1 : Tail(s)[i] = s[i + 1]
  BY EmptySeq, HeadTailProperties, ElementOfSeq
<1>3. Leads({st}, Head(s), tr[1])
  BY <1>1, <1>2, LeadsMonotone
<1> DEFINE f == [i \in 0 .. Len(s) - 1 |-> tr[i + 1]]
<1>4. /\ f \in [0 .. Len(Tail(s)) -> SUBSET States]
      /\ tr[1] \subseteq f[0] /\ f[Len(Tail(s))] \subseteq B
      /\ \A i \in 1 .. Len(Tail(s)) : Leads(f[i - 1], Tail(s)[i], f[i])
  BY <1>1, <1>2
<1>5. Path(tr[1], Tail(s), B)
  BY <1>4 DEF Path
<1> QED
  BY <1>2, <1>3, <1>5

(* A path from some states is one from each of them. *)
LEMMA PathFrom ==
    ASSUME NEW A, NEW st \in A, NEW s, NEW B, Path(A, s, B)
    PROVE  Path({st}, s, B)
  BY DEF Path

-----------------------------------------------------------------------------
(* Clocks, one to five. *)

(* One clock is one move. *)
LEMMA OneClock ==
    ASSUME NEW st, NEW tms
    PROVE  StateClocks(st, tms, 1) = StateClock(st, tms)
<1>1. PICK f : Followed(f, st, tms, 1) /\ StateClocks(st, tms, 1) = f[1]
  BY StateClocksIs
<1>2. f[0] = st /\ f[1] = StateClock(f[0], tms)
  BY <1>1 DEF Followed
<1> QED
  BY <1>1, <1>2

(* Two clocks are two. *)
LEMMA TwoClocks ==
    ASSUME NEW st, NEW tms
    PROVE  StateClocks(st, tms, 2) = StateClock(StateClock(st, tms), tms)
<1>1. PICK f : Followed(f, st, tms, 2) /\ StateClocks(st, tms, 2) = f[2]
  BY StateClocksIs
<1>2. f[0] = st /\ f[1] = StateClock(f[0], tms) /\ f[2] = StateClock(f[1], tms)
  BY <1>1 DEF Followed
<1> QED
  BY <1>1, <1>2

(* Five clocks with TMS = 1 reset. *)
LEMMA FiveClocks ==
    ASSUME NEW st \in TapStates
    PROVE  StateClocks(st, 1, 5) = "TEST_LOGIC_RESET"
<1>1. PICK f : Followed(f, st, 1, 5) /\ StateClocks(st, 1, 5) = f[5]
  BY StateClocksIs
<1>2. /\ f[0] = st
      /\ f[1] = StateClock(f[0], 1) /\ f[2] = StateClock(f[1], 1)
      /\ f[3] = StateClock(f[2], 1) /\ f[4] = StateClock(f[3], 1)
      /\ f[5] = StateClock(f[4], 1)
  BY <1>1 DEF Followed
<1>3. \A t \in TapStates : StateClock(t, 1) = IeeeNext(t, 1) /\ IeeeNext(t, 1) \in TapStates
  <2>1. 1 \in Bit
    BY DEF Bit
  <2>2. \A t \in TapStates : IeeeNext(t, 1) \in TapStates
    BY DEF IeeeNext, Ieee, TapStates
  <2> QED
    BY <2>1, <2>2, TrackingIsIeee
<1>4. f[1] = IeeeNext(st, 1) /\ f[1] \in TapStates
  BY <1>2, <1>3
<1>5. f[2] = IeeeNext(f[1], 1) /\ f[2] \in TapStates
  BY <1>2, <1>3, <1>4
<1>6. f[3] = IeeeNext(f[2], 1) /\ f[3] \in TapStates
  BY <1>2, <1>3, <1>5
<1>7. f[4] = IeeeNext(f[3], 1) /\ f[4] \in TapStates
  BY <1>2, <1>3, <1>6
<1>8. f[5] = IeeeNext(f[4], 1)
  BY <1>2, <1>3, <1>7
<1>9. f[5] = FiveOnes(st)
  BY <1>4, <1>5, <1>6, <1>7, <1>8 DEF FiveOnes
<1> QED
  BY <1>1, <1>9, FiveOnesReset

(* The moves an exchange is made of. *)
ShiftState(path) == IF path = "DR" THEN "SHIFT_DR" ELSE "SHIFT_IR"
CaptureState(path) == IF path = "DR" THEN "CAPTURE_DR" ELSE "CAPTURE_IR"
Exit1State(path) == IF path = "DR" THEN "EXIT1_DR" ELSE "EXIT1_IR"
UpdateState(path) == IF path = "DR" THEN "UPDATE_DR" ELSE "UPDATE_IR"

(* From the capture of a register to Run-Test/Idle. *)
LEMMA Moves ==
    ASSUME NEW path \in {"DR", "IR"}
    PROVE  /\ StateClock(CaptureState(path), 0) = ShiftState(path)
           /\ StateClock(ShiftState(path), 0) = ShiftState(path)
           /\ StateClock(ShiftState(path), 1) = Exit1State(path)
           /\ StateClock(Exit1State(path), 1) = UpdateState(path)
           /\ StateClock(UpdateState(path), 0) = "RUN_TEST_IDLE"
  BY DEF StateClock, StateTms0, StateTms1, ShiftState, CaptureState, Exit1State, UpdateState,
         ShiftStates

(* From where an exchange begins to the capture of a register. *)
LEMMA MovesToCapture ==
    ASSUME NEW st \in {"RUN_TEST_IDLE", "UPDATE_DR", "UPDATE_IR"}
    PROVE  /\ StateClock(StateClock(st, 1), 0) = "CAPTURE_DR"
           /\ StateClock(StateClock(StateClock(st, 1), 1), 0) = "CAPTURE_IR"
<1>1. StateClock(st, 1) = "SELECT_DR_SCAN"
  BY DEF StateClock, StateTms1
<1>2. /\ StateClock("SELECT_DR_SCAN", 0) = "CAPTURE_DR"
      /\ StateClock("SELECT_DR_SCAN", 1) = "SELECT_IR_SCAN"
      /\ StateClock("SELECT_IR_SCAN", 0) = "CAPTURE_IR"
  BY DEF StateClock, StateTms0, StateTms1
<1> QED
  BY <1>1, <1>2

(* From Test-Logic-Reset to Run-Test/Idle. *)
LEMMA MovesAfterReset ==
    /\ StateClock("TEST_LOGIC_RESET", 0) = "RUN_TEST_IDLE"
    /\ "TEST_LOGIC_RESET" \in TapStates
  BY DEF StateClock, StateTms0, TapStates

-----------------------------------------------------------------------------
(* The calls of a shift. *)

(* How the sets of calls are nested. *)
LEMMA OpsInOps ==
    /\ ShiftOps \subseteq ExchangeOps
    /\ LateOps \subseteq ExchangeOps
    /\ DeferShiftOps \subseteq ExchangeOps
    /\ ExchangeOps \subseteq Ops
    /\ ShiftOps \subseteq Ops
    /\ DeferClockOps \subseteq ShiftOps
    /\ DeferOps \subseteq ShiftOps
  BY DEF Ops, ExchangeOps, ShiftOps

(* A transfer leaves the last bit of a register to a clock, unless the     *)
(* state stays.                                                            *)
LEMMA TransferredBound ==
    ASSUME NEW reg \in Registers, NEW exit \in ExitModes
    PROVE  /\ Transferred(reg, exit) \in 0 .. Len(reg.in)
           /\ exit # "SHIFT" => Transferred(reg, exit) < Len(reg.in)
<1>1. Len(reg.in) \in Nat \ {0} /\ reg.outlen \in Nat
  BY EmptySeq DEF Registers
<1>2. CASE exit = "SHIFT"
  BY <1>1, <1>2 DEF Transferred, NoOut
<1>3. CASE exit # "SHIFT"
  <2> DEFINE most == Len(reg.in) - 1
  <2>1. Transferred(reg, exit) = IF reg.outlen # NoOut /\ reg.outlen < most
                                 THEN reg.outlen ELSE most
    BY <1>3 DEF Transferred
  <2>2. most \in Nat /\ most < Len(reg.in)
    BY <1>1
  <2> QED
    BY <1>1, <2>1, <2>2
<1> QED
  BY <1>2, <1>3

BitCalls(reg, exit, i) ==
    (IF i <= reg.outlen THEN <<DeferOp([action |-> "GET_TDO"])>> ELSE <<>>)
    \o <<DeferClockOp(IF exit # "SHIFT" /\ i = Len(reg.in) THEN 1 ELSE 0, reg.in[i], 1)>>

LeaveCalls(exit) ==
    CASE exit = "IDLE"   -> <<DeferClockOp(1, 0, 1), DeferClockOp(0, 0, 1)>>
      [] exit = "UPDATE" -> <<DeferClockOp(1, 0, 1)>>
      [] OTHER           -> <<>>

TransferCall(reg, n) ==
    DeferOp([action |-> "TRANSFER", in |-> SubSeq(reg.in, 1, n), keep |-> reg.outlen # NoOut])

(* The calls for the bits of a register after the n-th. *)
Gathered(f, reg, exit, n, m) ==
    f = [i \in n .. m |-> IF i = n THEN <<>> ELSE f[i - 1] \o BitCalls(reg, exit, i)]

(* There is such a function for every number of bits ... *)
LEMMA GatheredExists ==
    ASSUME NEW reg, NEW exit, NEW n \in Nat, NEW m \in Nat, n <= m
    PROVE  \E f : Gathered(f, reg, exit, n, m)
<1> DEFINE S == {k \in Nat : \E f : Gathered(f, reg, exit, n, n + k)}
<1>1. 0 \in S
  <2> DEFINE f == [i \in n .. n |-> <<>>]
  <2>1. Gathered(f, reg, exit, n, n + 0)
    BY DEF Gathered
  <2> QED
    BY <2>1
<1>2. ASSUME NEW k \in Nat, k \in S PROVE k + 1 \in S
  <2>1. PICK f : Gathered(f, reg, exit, n, n + k)
    BY <1>2
  <2> DEFINE g == [i \in n .. n + (k + 1) |->
                    IF i = n + (k + 1) THEN f[n + k] \o BitCalls(reg, exit, i) ELSE f[i]]
  <2>2. ASSUME NEW i \in n .. n + (k + 1)
        PROVE  g[i] = IF i = n THEN <<>> ELSE g[i - 1] \o BitCalls(reg, exit, i)
    <3> DEFINE op(j) == BitCalls(reg, exit, j)
    <3>1. \A j \in n .. n + k : f[j] = IF j = n THEN <<>> ELSE f[j - 1] \o op(j)
      BY <2>1 DEF Gathered
    <3> HIDE DEF op
    <3>2. g[i] = IF i = n THEN <<>> ELSE g[i - 1] \o op(i)
      <4>1. CASE i = n + (k + 1)
        <5>1. /\ i - 1 = n + k /\ i - 1 \in n .. n + (k + 1) /\ i - 1 # n + (k + 1)
              /\ i # n /\ i \in n .. n + (k + 1)
          BY <4>1
        <5>2. g[n + k] = f[n + k]
          BY <5>1
        <5>3. g[i] = f[n + k] \o BitCalls(reg, exit, i)
          BY <4>1
        <5> QED
          BY <5>1, <5>2, <5>3 DEF op
      <4>2. CASE i # n + (k + 1)
        <5>1. i \in n .. n + k /\ g[i] = f[i]
          BY <4>2
        <5>2. i # n => g[i - 1] = f[i - 1]
          BY <4>2
        <5> QED
          BY <3>1, <5>1, <5>2
      <4> QED
        BY <4>1, <4>2
    <3> QED
      BY <3>2 DEF op
  <2>3. Gathered(g, reg, exit, n, n + (k + 1))
    <3> HIDE DEF g
    <3>1. g = [i \in n .. n + (k + 1) |-> g[i]]
      BY DEF g
    <3> QED
      BY <2>2, <3>1 DEF Gathered
  <2> HIDE DEF g
  <2> QED
    BY <2>3
<1>3. m - n \in S
  <2>1. m - n \in Nat
    OBVIOUS
  <2> HIDE DEF S
  <2> QED
    BY <1>1, <1>2, <2>1, SetInduction
<1> QED
  BY <1>3

(* ... and the calls of a shift are its, between a transfer and an exit. *)
LEMMA ShiftCallsAre ==
    ASSUME NEW reg \in Registers, NEW exit \in ExitModes
    PROVE  \E f : /\ Gathered(f, reg, exit, Transferred(reg, exit), Len(reg.in))
                  /\ ShiftCalls(reg, exit) =
                        <<TransferCall(reg, Transferred(reg, exit))>> \o f[Len(reg.in)]
                        \o LeaveCalls(exit)
<1> DEFINE n == Transferred(reg, exit)
<1> DEFINE g == CHOOSE f : Gathered(f, reg, exit, n, Len(reg.in))
<1>1. n \in Nat /\ Len(reg.in) \in Nat /\ n <= Len(reg.in)
  BY TransferredBound, LenProperties DEF Registers
<1>2. Gathered(g, reg, exit, n, Len(reg.in))
  BY <1>1, GatheredExists
<1>3. ShiftCalls(reg, exit) =
        <<TransferCall(reg, n)>> \o g[Len(reg.in)] \o LeaveCalls(exit)
  BY DEF ShiftCalls, Gathered, BitCalls, TransferCall, LeaveCalls
<1> QED
  BY <1>2, <1>3

(* The states named above are states; an exit mode names one of them. *)
LEMMA StatesAre ==
    ASSUME NEW path \in {"DR", "IR"}, NEW exit \in ExitModes
    PROVE  /\ ShiftState(path) \in States /\ Exit1State(path) \in States
           /\ UpdateState(path) \in States /\ CaptureState(path) \in States
           /\ "RUN_TEST_IDLE" \in States /\ "TEST_LOGIC_RESET" \in States
           /\ ShiftState(path) \in ShiftStates
           /\ Destination(path)[exit] \in States
           /\ Destination(path)["SHIFT"] = ShiftState(path)
           /\ Destination(path)["EXIT1"] = Exit1State(path)
           /\ Destination(path)["UPDATE"] = UpdateState(path)
           /\ Destination(path)["IDLE"] = "RUN_TEST_IDLE"
  BY DEF States, TapStates, ShiftState, Exit1State, UpdateState, CaptureState, Destination,
         ExitModes, ShiftStates

(* A deferred clock moves the tracked state. *)
LEMMA PathDeferClock ==
    ASSUME NEW st \in States, NEW tms \in Bit, NEW tdi \in Bit, NEW to \in States,
           to = StateClock(st, tms)
    PROVE  /\ <<DeferClockOp(tms, tdi, 1)>> \in Seq(ShiftOps)
           /\ Path({st}, <<DeferClockOp(tms, tdi, 1)>>, {to})
<1> DEFINE op == DeferClockOp(tms, tdi, 1)
<1>1. op \in DeferClockOps /\ op.op = "defer_clock" /\ op.tms = tms /\ op.n = 1
  BY DEF DeferClockOp, DeferClockOps
<1>2. StateClocks(st, tms, 1) = to
  BY OneClock
<1>3. Leads({st}, op, {to})
  BY <1>1, <1>2 DEF Leads
<1>4. op \in ShiftOps /\ op \in Ops
  BY <1>1, OpsInOps
<1> HIDE DEF op
<1>5. Path({st}, <<op>>, {to})
  BY <1>3, <1>4, PathOne
<1> QED
  BY <1>4, <1>5 DEF op

(* The calls for a bit stay in the shift state, for the last one they may  *)
(* leave it.                                                               *)
LEMMA BitCallsLead ==
    ASSUME NEW path \in {"DR", "IR"}, NEW reg \in Registers, NEW exit \in ExitModes,
           NEW i \in 1 .. Len(reg.in)
    PROVE  /\ BitCalls(reg, exit, i) \in Seq(ShiftOps)
           /\ Path({ShiftState(path)}, BitCalls(reg, exit, i),
                   {IF exit # "SHIFT" /\ i = Len(reg.in) THEN Exit1State(path)
                    ELSE ShiftState(path)})
<1> DEFINE st == ShiftState(path)
           tms == IF exit # "SHIFT" /\ i = Len(reg.in) THEN 1 ELSE 0
           to == IF exit # "SHIFT" /\ i = Len(reg.in) THEN Exit1State(path) ELSE st
           get == DeferOp([action |-> "GET_TDO"])
           first == IF i <= reg.outlen THEN <<get>> ELSE <<>>
           clock == DeferClockOp(tms, reg.in[i], 1)
<1>1. st \in States /\ to \in States /\ tms \in Bit /\ to = StateClock(st, tms)
  BY StatesAre, Moves DEF Bit
<1>2. reg.in[i] \in Bit
  BY ElementOfSeq DEF Registers
<1>3. <<clock>> \in Seq(ShiftOps) /\ Path({st}, <<clock>>, {to})
  BY <1>1, <1>2, PathDeferClock
<1>4. get \in DeferOps /\ get.op = "defer" /\ get.act.action = "GET_TDO"
  BY DEF DeferOp, DeferOps, Acts
<1>5. Leads({st}, get, {st})
  BY <1>4 DEF Leads
<1>6. first \in Seq(ShiftOps) /\ Path({st}, first, {st})
  <2> HIDE DEF get, st
  <2>1. Path({st}, <<get>>, {st}) /\ Path({st}, <<>>, {st})
    BY <1>1, <1>4, <1>5, OpsInOps, PathOne, PathEmpty
  <2>2. <<get>> \in Seq(ShiftOps) /\ <<>> \in Seq(ShiftOps)
    BY <1>4, OpsInOps
  <2> QED
    BY <2>1, <2>2
<1> HIDE DEF first, clock, st, to
<1>7. first \in Seq(Ops) /\ <<clock>> \in Seq(Ops)
  BY <1>3, <1>6, OpsInOps, SeqMonotonic
<1>8. Path({st}, first \o <<clock>>, {to})
  BY <1>3, <1>6, <1>7, PathConcat
<1>9. first \o <<clock>> \in Seq(ShiftOps)
  BY <1>3, <1>6, ConcatProperties
<1> QED
  BY <1>8, <1>9 DEF BitCalls, first, clock, st, to

(* So do the calls for all bits. *)
LEMMA BitsLead ==
    ASSUME NEW path \in {"DR", "IR"}, NEW reg \in Registers, NEW exit \in ExitModes,
           NEW f, Gathered(f, reg, exit, Transferred(reg, exit), Len(reg.in))
    PROVE  /\ f[Len(reg.in)] \in Seq(ShiftOps)
           /\ Path({ShiftState(path)}, f[Len(reg.in)],
                   {IF exit # "SHIFT" THEN Exit1State(path) ELSE ShiftState(path)})
<1> DEFINE n == Transferred(reg, exit)
           L == Len(reg.in)
           st == ShiftState(path)
           end == Exit1State(path)
           At1(i) == IF exit # "SHIFT" /\ i = L THEN end ELSE st
           op(i) == BitCalls(reg, exit, i)
           Good(i) == f[i] \in Seq(ShiftOps) /\ Path({st}, f[i], {At1(i)})
           S == {k \in Nat : n + k <= L => Good(n + k)}
<1>1. n \in Nat /\ L \in Nat /\ n <= L /\ (exit # "SHIFT" => n < L)
  BY TransferredBound, LenProperties DEF Registers
<1>2. \A i \in n .. L : f[i] = IF i = n THEN <<>> ELSE f[i - 1] \o op(i)
  BY DEF Gathered
<1>3. \A i \in 1 .. L : op(i) \in Seq(ShiftOps) /\ Path({st}, op(i), {At1(i)})
  BY BitCallsLead
<1>4. st \in States
  BY StatesAre
<1> HIDE DEF n, L, st, end, op
<1>5. 0 \in S
  <2>1. f[n] = <<>> /\ At1(n) = st
    BY <1>1, <1>2
  <2>2. <<>> \in Seq(ShiftOps) /\ Path({st}, <<>>, {st})
    BY <1>4, PathEmpty
  <2>3. n + 0 = n
    BY <1>1
  <2> QED
    BY <2>1, <2>2, <2>3
<1>6. ASSUME NEW k \in Nat, k \in S PROVE k + 1 \in S
  <2> SUFFICES ASSUME n + (k + 1) <= L PROVE Good(n + (k + 1))
    OBVIOUS
  <2> DEFINE j == n + k
  <2>1. j \in Nat /\ j + 1 = n + (k + 1) /\ j < L /\ j + 1 \in 1 .. L /\ j + 1 \in n .. L
    BY <1>1
  <2>2. Good(j)
    <3> HIDE DEF Good
    <3>1. n + k <= L => Good(n + k)
      BY <1>6
    <3> QED
      BY <1>1, <2>1, <3>1
  <2> HIDE DEF j
  <2>3. f[j + 1] = f[j] \o op(j + 1)
    <3>1. (j + 1) - 1 = j /\ j + 1 # n
      BY <1>1, <2>1 DEF j
    <3> QED
      BY <1>2, <2>1, <3>1
  <2>4. At1(j) = st
    BY <2>1
  <2>5. f[j] \in Seq(Ops) /\ op(j + 1) \in Seq(Ops)
    BY <1>3, <2>1, <2>2, OpsInOps, SeqMonotonic
  <2>6. Path({st}, f[j] \o op(j + 1), {At1(j + 1)})
    BY <1>3, <2>1, <2>2, <2>4, <2>5, PathConcat
  <2>7. f[j] \o op(j + 1) \in Seq(ShiftOps)
    BY <1>3, <2>1, <2>2, ConcatProperties
  <2> QED
    BY <2>1, <2>3, <2>6, <2>7
<1>7. L - n \in S
  <2> HIDE DEF S
  <2> QED
    BY <1>1, <1>5, <1>6, SetInduction
<1>8. Good(L)
  BY <1>1, <1>7
<1> QED
  BY <1>8 DEF L, st, end

(* The calls after the last bit lead where the exit mode says. *)
LEMMA LeaveCallsLead ==
    ASSUME NEW path \in {"DR", "IR"}, NEW exit \in ExitModes
    PROVE  /\ LeaveCalls(exit) \in Seq(ShiftOps)
           /\ Path({IF exit # "SHIFT" THEN Exit1State(path) ELSE ShiftState(path)},
                   LeaveCalls(exit), {Destination(path)[exit]})
<1> DEFINE up == DeferClockOp(1, 0, 1)
           idle == DeferClockOp(0, 0, 1)
           e == Exit1State(path)
           u == UpdateState(path)
           r == "RUN_TEST_IDLE"
<1>1. 0 \in Bit /\ 1 \in Bit
  BY DEF Bit
<1>2. e \in States /\ u \in States /\ r \in States /\ ShiftState(path) \in States
  BY StatesAre
<1>3. <<up>> \in Seq(ShiftOps) /\ Path({e}, <<up>>, {u})
  BY <1>1, <1>2, Moves, PathDeferClock
<1>4. <<idle>> \in Seq(ShiftOps) /\ Path({u}, <<idle>>, {r})
  BY <1>1, <1>2, Moves, PathDeferClock
<1>5. CASE exit = "IDLE"
  <2>1. LeaveCalls(exit) = <<up, idle>>
    BY <1>5 DEF LeaveCalls
  <2>2. <<up, idle>> = <<up>> \o <<idle>>
    OBVIOUS
  <2> HIDE DEF up, idle, e, u
  <2>3. <<up>> \in Seq(Ops) /\ <<idle>> \in Seq(Ops)
    BY <1>3, <1>4, OpsInOps, SeqMonotonic
  <2>4. Path({e}, <<up>> \o <<idle>>, {r})
    BY <1>3, <1>4, <2>3, PathConcat
  <2>5. <<up>> \o <<idle>> \in Seq(ShiftOps)
    BY <1>3, <1>4, ConcatProperties
  <2>6. Destination(path)[exit] = r
    BY <1>5, StatesAre
  <2> QED
    BY <1>5, <2>1, <2>2, <2>4, <2>5, <2>6 DEF e
<1>6. CASE exit = "UPDATE"
  <2>1. LeaveCalls(exit) = <<up>> /\ Destination(path)[exit] = u
    BY <1>6, StatesAre DEF LeaveCalls
  <2> QED
    BY <1>3, <1>6, <2>1
<1>7. CASE exit \in {"SHIFT", "EXIT1"}
  <2>1. LeaveCalls(exit) = <<>>
    BY <1>7 DEF LeaveCalls
  <2>2. Destination(path)[exit] =
            IF exit # "SHIFT" THEN Exit1State(path) ELSE ShiftState(path)
    BY <1>7, StatesAre
  <2>3. Destination(path)[exit] \in States
    BY StatesAre
  <2>4. Path({Destination(path)[exit]}, <<>>, {Destination(path)[exit]})
    BY <2>3, PathEmpty
  <2> QED
    BY <2>1, <2>2, <2>4
<1> QED
  BY <1>5, <1>6, <1>7 DEF ExitModes

(* A shift takes a controller that shifts to where its exit mode says, and *)
(* transfers only in between.                                              *)
LEMMA ShiftCallsLead ==
    ASSUME NEW path \in {"DR", "IR"}, NEW reg \in Registers, NEW exit \in ExitModes
    PROVE  /\ ShiftCalls(reg, exit) \in Seq(ShiftOps)
           /\ Path({ShiftState(path)}, ShiftCalls(reg, exit), {Destination(path)[exit]})
<1> DEFINE n == Transferred(reg, exit)
           st == ShiftState(path)
           mid == IF exit # "SHIFT" THEN Exit1State(path) ELSE st
           to == Destination(path)[exit]
           first == TransferCall(reg, n)
           last1 == LeaveCalls(exit)
<1>1. PICK f : /\ Gathered(f, reg, exit, n, Len(reg.in))
               /\ ShiftCalls(reg, exit) = <<first>> \o f[Len(reg.in)] \o last1
  BY ShiftCallsAre
<1>2. f[Len(reg.in)] \in Seq(ShiftOps) /\ Path({st}, f[Len(reg.in)], {mid})
  BY <1>1, BitsLead
<1>3. last1 \in Seq(ShiftOps) /\ Path({mid}, last1, {to})
  BY LeaveCallsLead
<1>4. first \in DeferOps
  <2>1. SubSeq(reg.in, 1, n) \in Seq(Bit)
    <3>1. n \in 0 .. Len(reg.in) /\ reg.in \in Seq(Bit) /\ Len(reg.in) \in Nat
      BY TransferredBound, LenProperties DEF Registers
    <3> HIDE DEF n
    <3>2. \A i \in 1 .. n : reg.in[i] \in Bit
      BY <3>1, ElementOfSeq
    <3> QED
      BY <3>1, <3>2, SubSeqProperties
  <2>2. (reg.outlen # NoOut) \in BOOLEAN
    OBVIOUS
  <2> QED
    BY <2>1, <2>2 DEF TransferCall, DeferOp, DeferOps, Acts
<1>5. Leads({st}, first, {st})
  <2>1. first.op = "defer" /\ st \in ShiftStates
    BY StatesAre DEF TransferCall, DeferOp
  <2> HIDE DEF first, st
  <2> QED
    BY <2>1 DEF Leads
<1>6. st \in States
  BY StatesAre
<1> HIDE DEF n, st, mid, to, first, last1
<1>7. <<first>> \in Seq(ShiftOps) /\ Path({st}, <<first>>, {st})
  BY <1>4, <1>5, <1>6, OpsInOps, PathOne
<1> DEFINE bits == f[Len(reg.in)]
<1> HIDE DEF bits
<1>8. bits \in Seq(ShiftOps) /\ Path({st}, bits, {mid})
  BY <1>2 DEF bits
<1>9. <<first>> \in Seq(Ops) /\ bits \in Seq(Ops) /\ last1 \in Seq(Ops)
  BY <1>3, <1>7, <1>8, OpsInOps, SeqMonotonic
<1>10. <<first>> \o bits \in Seq(Ops) /\ <<first>> \o bits \in Seq(ShiftOps)
  BY <1>7, <1>8, <1>9, ConcatProperties
<1>11. Path({st}, <<first>> \o bits, {mid})
  BY <1>7, <1>8, <1>9, PathConcat
<1>12. Path({st}, <<first>> \o bits \o last1, {to})
  BY <1>3, <1>9, <1>10, <1>11, PathConcat
<1>13. <<first>> \o bits \o last1 \in Seq(ShiftOps)
  BY <1>3, <1>10, ConcatProperties
<1> QED
  BY <1>1, <1>12, <1>13 DEF bits, st, to

(* urj_tap_defer_shift_register leads where the call of it should. *)
FullShift(st, reg, exit) ==
    (IF "CAPTURE" \in Flags(st) THEN <<DeferClockOp(0, 0, 1)>> ELSE <<>>)
    \o ShiftCalls(reg, exit)

(* A shift that begins in the capture state is clocked into the shift one. *)
LEMMA FullShiftLeads ==
    ASSUME NEW st \in States, NEW op \in DeferShiftOps, NEW A, Leads({st}, op, A)
    PROVE  /\ FullShift(st, op.reg, op.exit) \in Seq(ShiftOps)
           /\ Path({st}, FullShift(st, op.reg, op.exit), A)
<1>1. op.op = "defer_shift" /\ op.reg \in Registers /\ op.exit \in ExitModes
  BY DEF DeferShiftOps
<1>2. PICK path \in {"DR", "IR"} :
        {st} \subseteq ReadyToShift(path) /\ Destination(path)[op.exit] \in A
  BY <1>1 DEF Leads
<1> DEFINE calls == ShiftCalls(op.reg, op.exit)
           to == Destination(path)[op.exit]
           in == IF "CAPTURE" \in Flags(st) THEN <<DeferClockOp(0, 0, 1)>> ELSE <<>>
<1>3. calls \in Seq(ShiftOps) /\ Path({ShiftState(path)}, calls, {to})
  BY <1>1, ShiftCallsLead
<1>4. st \in {CaptureState(path), ShiftState(path)}
  BY <1>2 DEF ReadyToShift, CaptureState, ShiftState
<1>5. in \in Seq(ShiftOps) /\ Path({st}, in, {ShiftState(path)})
  <2>1. ShiftState(path) \in States /\ 0 \in Bit
    BY StatesAre DEF ExitModes, Bit
  <2>2. CASE st = CaptureState(path)
    <3>1. "CAPTURE" \in Flags(st)
      <4>1. st \in {"CAPTURE_DR", "CAPTURE_IR"}
        BY <2>2 DEF CaptureState
      <4>2. Flags("CAPTURE_DR") = {"SHIFT", "CAPTURE"} /\ Flags("CAPTURE_IR") = {"SHIFT", "CAPTURE"}
        BY DEF Flags, Unknown, ShiftStates
      <4> QED
        BY <4>1, <4>2
    <3>2. ShiftState(path) = StateClock(st, 0)
      BY <2>2, Moves
    <3> QED
      BY <2>1, <3>1, <3>2, PathDeferClock
  <2>3. CASE st = ShiftState(path)
    <3>1. "CAPTURE" \notin Flags(st)
      BY <2>3 DEF Flags, ShiftState, Unknown, ShiftStates
    <3>2. Path({st}, <<>>, {st})
      BY PathEmpty
    <3> QED
      BY <2>3, <3>1, <3>2
  <2> QED
    BY <1>4, <2>2, <2>3
<1> HIDE DEF calls, to, in
<1>6. in \in Seq(Ops) /\ calls \in Seq(Ops)
  BY <1>3, <1>5, OpsInOps, SeqMonotonic
<1>7. in \o calls \in Seq(ShiftOps) /\ Path({st}, in \o calls, {to})
  BY <1>3, <1>5, <1>6, PathConcat, ConcatProperties
<1>8. Path({st}, in \o calls, A)
  <2>1. {to} \subseteq A
    BY <1>2 DEF to
  <2> QED
    BY <1>7, <2>1 DEF Path
<1> QED
  BY <1>7, <1>8 DEF FullShift, calls, in

-----------------------------------------------------------------------------
(* The calls of an exchange. *)

(* Calls that leave the tracked state alone, or need not be known well. *)
LEMMA LateStays ==
    ASSUME NEW A \in SUBSET States, NEW s \in Seq(LateOps)
    PROVE  Path(A, s, A)
<1> DEFINE tr == [i \in 0 .. Len(s) |-> A]
<1>1. Len(s) \in Nat
  BY LenProperties
<1>2. \A i \in 1 .. Len(s) : Leads(A, s[i], A)
  BY ElementOfSeq DEF LateOps, Leads
<1>3. /\ tr \in [0 .. Len(s) -> SUBSET States]
      /\ A \subseteq tr[0] /\ tr[Len(s)] \subseteq A
      /\ \A i \in 1 .. Len(s) : Leads(tr[i - 1], s[i], tr[i])
  BY <1>1, <1>2
<1> QED
  BY <1>3 DEF Path

FreeOps == ClockOps \cup DeferClockOps \cup SetSignalOps \cup StateResetOps

(* Clocks, signals and resets of the state are possible in every state. *)
LEMMA FreePath ==
    ASSUME NEW s \in Seq(FreeOps)
    PROVE  Path(States, s, States)
<1> DEFINE tr == [i \in 0 .. Len(s) |-> States]
<1>1. Len(s) \in Nat
  BY LenProperties
<1>2. "TEST_LOGIC_RESET" \in States /\ Unknown \in States
  BY DEF States, TapStates
<1>3. ASSUME NEW i \in 1 .. Len(s) PROVE Leads(States, s[i], States)
  <2>1. s[i] \in FreeOps
    BY ElementOfSeq
  <2>2. CASE s[i] \in ClockOps \cup DeferClockOps
    <3>1. /\ s[i].op \in {"clock", "defer_clock"} /\ s[i].tms \in Bit /\ s[i].n \in Nat
      BY <2>2 DEF ClockOps, DeferClockOps
    <3>2. \A st \in States : StateClocks(st, s[i].tms, s[i].n) \in States
      BY <3>1, StateClocksType
    <3> QED
      BY <3>1, <3>2 DEF Leads
  <2>3. CASE s[i] \in SetSignalOps
    BY <1>2, <2>3 DEF SetSignalOps, Leads
  <2>4. CASE s[i] \in StateResetOps
    BY <1>2, <2>4 DEF StateResetOps, Leads
  <2> QED
    BY <2>1, <2>2, <2>3, <2>4 DEF FreeOps
<1>4. /\ tr \in [0 .. Len(s) -> SUBSET States]
      /\ States \subseteq tr[0] /\ tr[Len(s)] \subseteq States
      /\ \A i \in 1 .. Len(s) : Leads(tr[i - 1], s[i], tr[i])
  BY <1>1, <1>3
<1> QED
  BY <1>4 DEF Path

(* A pair of calls is two sequences of one. *)
LEMMA PairIsConcat ==
    ASSUME NEW S, NEW a \in S, NEW b \in S
    PROVE  <<a>> \in Seq(S) /\ <<b>> \in Seq(S) /\ <<a, b>> = <<a>> \o <<b>>
<1>1. <<a>> \in Seq(S) /\ <<b>> \in Seq(S) /\ <<a, b>> \in Seq(S)
  OBVIOUS
<1>2. Len(<<a>>) = 1 /\ Len(<<b>>) = 1 /\ Len(<<a, b>>) = 2
  OBVIOUS
<1>3. <<a>>[1] = a /\ <<b>>[1] = b /\ <<a, b>>[1] = a /\ <<a, b>>[2] = b
  OBVIOUS
<1> DEFINE s == <<a>>
           t == <<b>>
<1> HIDE DEF s, t
<1>4. s \in Seq(S) /\ t \in Seq(S) /\ Len(s) = 1 /\ Len(t) = 1
  BY <1>1, <1>2 DEF s, t
<1>5. /\ Len(s \o t) = 2 /\ s \o t \in Seq(S)
      /\ (s \o t)[1] = s[1] /\ (s \o t)[2] = t[1]
  BY <1>4, ConcatProperties
<1>6. s[1] = a /\ t[1] = b
  BY <1>3 DEF s, t
<1> DEFINE u == <<a, b>>
<1>7. u \in Seq(S) /\ Len(u) = 2 /\ u[1] = a /\ u[2] = b
  BY <1>1, <1>2, <1>3
<1> HIDE DEF u
<1>8. u = s \o t
  BY <1>5, <1>6, <1>7, SeqEqual
<1> QED
  BY <1>1, <1>8 DEF s, t, u

(* urj_tap_capture_dr and _ir reach the capture state. *)
LEMMA CaptureCallsLead ==
    ASSUME NEW path \in {"DR", "IR"}
    PROVE  /\ CaptureCalls(path) \in Seq(DeferClockOps)
           /\ \A st \in {"RUN_TEST_IDLE", "UPDATE_DR", "UPDATE_IR"} :
                Path({st}, CaptureCalls(path), {CaptureState(path)})
<1> DEFINE n == IF path = "DR" THEN 1 ELSE 2
           out == DeferClockOp(1, 0, n)
           in == DeferClockOp(0, 0, 1)
<1>1. out \in DeferClockOps /\ in \in DeferClockOps
  BY DEF DeferClockOp, DeferClockOps, Bit
<1>2. CaptureCalls(path) = <<out, in>>
  BY DEF CaptureCalls
<1>3. ASSUME NEW st \in {"RUN_TEST_IDLE", "UPDATE_DR", "UPDATE_IR"}
      PROVE  Path({st}, <<out, in>>, {CaptureState(path)})
  <2> DEFINE mid == StateClocks(st, 1, n)
  <2>1. mid = IF path = "DR" THEN StateClock(st, 1) ELSE StateClock(StateClock(st, 1), 1)
    BY OneClock, TwoClocks
  <2>2. StateClock(mid, 0) = CaptureState(path)
    BY <2>1, MovesToCapture DEF CaptureState
  <2>3. st \in States /\ CaptureState(path) \in States /\ 1 \in Bit /\ n \in Nat
    BY StatesAre DEF ExitModes, States, TapStates, Bit
  <2>4. mid \in States
    BY <2>3, StateClocksType
  <2>5. Leads({st}, out, {mid})
    BY DEF Leads, DeferClockOp
  <2>6. Leads({mid}, in, {CaptureState(path)})
    <3> HIDE DEF mid
    <3>1. in.op = "defer_clock" /\ in.tms = 0 /\ in.n = 1
      BY DEF DeferClockOp
    <3>2. StateClocks(mid, 0, 1) = CaptureState(path)
      BY <2>2, OneClock
    <3> QED
      BY <3>1, <3>2 DEF Leads
  <2> HIDE DEF mid, out, in
  <2>7. out \in Ops /\ in \in Ops
    BY <1>1, OpsInOps
  <2> DEFINE to == CaptureState(path)
  <2>8. {st} \in SUBSET States /\ {mid} \in SUBSET States /\ {to} \in SUBSET States
    BY <2>3, <2>4
  <2> HIDE DEF to
  <2>9. Path({st}, <<out>>, {mid})
    BY <2>5, <2>7, <2>8, PathOne
  <2>10. Path({mid}, <<in>>, {to})
    BY <2>6, <2>7, <2>8, PathOne DEF to
  <2>11. <<out>> \in Seq(Ops) /\ <<in>> \in Seq(Ops) /\ <<out, in>> = <<out>> \o <<in>>
    BY <2>7, PairIsConcat
  <2>12. Path({st}, <<out>> \o <<in>>, {to})
    BY <2>9, <2>10, <2>11, PathConcat
  <2> QED
    BY <2>11, <2>12 DEF to
<1> HIDE DEF out, in
<1> QED
  BY <1>1, <1>2, <1>3

(* What the assumption on the exchanges says of their registers. *)
LEMMA RegistersOfShift ==
    ASSUME NEW x \in Shifts
    PROVE  /\ Len(x.regs) \in Nat \ {0}
           /\ \A k \in 1 .. Len(x.regs) : x.regs[k] \in Registers
           /\ DOMAIN x.regs = 1 .. Len(x.regs)
           /\ x.exit \in ExitModes
<1>1. x.regs \in Seq([in : Seq(Bit), outlen : Nat]) /\ x.regs # <<>> /\ x.exit \in ExitModes
  BY ChainAssumption
<1>2. DOMAIN x.regs = 1 .. Len(x.regs) /\ Len(x.regs) \in Nat \ {0}
  BY <1>1, LenProperties, EmptySeq
<1>3. \A k \in 1 .. Len(x.regs) : x.regs[k].in # <<>>
  BY <1>2, ChainAssumption
<1>4. \A k \in 1 .. Len(x.regs) : x.regs[k] \in [in : Seq(Bit), outlen : Nat]
  BY <1>1, ElementOfSeq
<1> QED
  BY <1>1, <1>2, <1>3, <1>4 DEF Registers

(* The shifts of the registers, one after another. *)
AllShifts(x) ==
    [k \in DOMAIN x.regs |->
        [op |-> "defer_shift", reg |-> x.regs[k], exit |-> ExitOf(x, k)]]

(* Only the last register leaves the shift state. *)
LEMMA AllShiftsLead ==
    ASSUME NEW x \in Shifts, NEW path \in {"DR", "IR"}, NEW st \in ReadyToShift(path)
    PROVE  /\ AllShifts(x) \in Seq(DeferShiftOps)
           /\ Path({st}, AllShifts(x), {Destination(path)[x.exit]})
<1> DEFINE s == AllShifts(x)
           n == Len(x.regs)
           tr == [k \in 0 .. n |-> IF k = 0 THEN {st} ELSE {Destination(path)[ExitOf(x, k)]}]
<1>1. n \in Nat \ {0} /\ DOMAIN x.regs = 1 .. n /\ x.exit \in ExitModes
  BY RegistersOfShift
<1>2. \A k \in 1 .. n : ExitOf(x, k) \in ExitModes
  BY <1>1 DEF ExitOf, ExitModes
<1>3. \A k \in 1 .. n : s[k] = [op |-> "defer_shift", reg |-> x.regs[k], exit |-> ExitOf(x, k)]
  BY <1>1 DEF AllShifts
<1>4. ASSUME NEW k \in 1 .. n
      PROVE  s[k] \in DeferShiftOps /\ s[k].op = "defer_shift" /\ s[k].exit = ExitOf(x, k)
  <2>1. x.regs[k] \in Registers /\ ExitOf(x, k) \in ExitModes
    BY <1>2, RegistersOfShift
  <2> DEFINE op == [op |-> "defer_shift", reg |-> x.regs[k], exit |-> ExitOf(x, k)]
  <2>2. op \in DeferShiftOps /\ op.op = "defer_shift" /\ op.exit = ExitOf(x, k)
    BY <2>1 DEF DeferShiftOps
  <2>3. s[k] = op
    BY <1>3
  <2> HIDE DEF s, op
  <2> QED
    BY <2>2, <2>3
<1>5. s \in [1 .. n -> DeferShiftOps]
  <2>1. s = [k \in 1 .. n |-> s[k]]
    BY <1>1 DEF AllShifts
  <2> HIDE DEF s
  <2> QED
    BY <1>4, <2>1
<1>6. s \in Seq(DeferShiftOps) /\ Len(s) = n
  BY <1>1, <1>5
<1>7. st \in States
  BY DEF ReadyToShift, States, TapStates
<1>8. tr \in [0 .. n -> SUBSET States]
  BY <1>1, <1>2, <1>7, StatesAre
<1>9. ASSUME NEW k \in 1 .. n PROVE Leads(tr[k - 1], s[k], tr[k])
  <2>1. tr[k - 1] \subseteq ReadyToShift(path)
    <3>1. CASE k = 1
      BY <1>1, <3>1
    <3>2. CASE k # 1
      <4>1. k - 1 \in 1 .. n /\ k - 1 # n /\ k - 1 # 0
        BY <1>1, <3>2
      <4>2. ExitOf(x, k - 1) = "SHIFT"
        BY <4>1 DEF ExitOf
      <4>3. tr[k - 1] = {Destination(path)["SHIFT"]}
        BY <4>1, <4>2
      <4>4. Destination(path)["SHIFT"] = ShiftState(path)
        BY StatesAre DEF ExitModes
      <4>5. ShiftState(path) \in ReadyToShift(path)
        BY DEF ShiftState, ReadyToShift
      <4> QED
        BY <4>3, <4>4, <4>5
    <3> QED
      BY <3>1, <3>2
  <2>2. tr[k] = {Destination(path)[ExitOf(x, k)]}
    BY <1>1
  <2>3. s[k].op = "defer_shift" /\ s[k].exit = ExitOf(x, k)
    BY <1>4
  <2> HIDE DEF tr, s
  <2> QED
    BY <2>1, <2>2, <2>3 DEF Leads
<1>10. {st} \subseteq tr[0] /\ tr[n] \subseteq {Destination(path)[x.exit]}
  BY <1>1 DEF ExitOf
<1> HIDE DEF tr, s
<1>11. Path({st}, s, {Destination(path)[x.exit]})
  BY <1>6, <1>8, <1>9, <1>10 DEF Path
<1> QED
  BY <1>6, <1>11 DEF s

(* The fetching of outputs moves nothing ... *)
LEMMA OutputCallsAreLate ==
    ASSUME NEW reg \in Registers, NEW k \in Nat, NEW exit \in ExitModes
    PROVE  OutputCalls(reg, k, exit) \in Seq(LateOps)
<1>1. CASE reg.outlen = NoOut
  BY <1>1 DEF OutputCalls
<1>2. CASE reg.outlen # NoOut
  <2> DEFINE n == Transferred(reg, exit)
             upto == IF Len(reg.in) < reg.outlen THEN Len(reg.in) ELSE reg.outlen
             gets == [i \in 1 .. upto - n |-> [op |-> "get_tdo_late", reg |-> k, at |-> n + i]]
             first == [op |-> "transfer_late", reg |-> k]
  <2>1. n \in Nat /\ upto \in Nat
    BY TransferredBound, LenProperties DEF Registers
  <2>2. first \in LateOps
    BY DEF LateOps
  <2> HIDE DEF n, upto
  <2>3. PICK m \in Nat : 1 .. upto - n = 1 .. m
    <3>1. CASE upto - n \in Nat
      BY <3>1
    <3>2. CASE upto - n \notin Nat
      <4>1. 1 .. upto - n = 1 .. 0
        BY <2>1, <3>2
      <4> QED
        BY <4>1
    <3> QED
      BY <3>1, <3>2
  <2>4. \A i \in 1 .. m : [op |-> "get_tdo_late", reg |-> k, at |-> n + i] \in LateOps
    BY <2>1 DEF LateOps
  <2>5. gets \in [1 .. m -> LateOps]
    BY <2>3, <2>4
  <2>6. gets \in Seq(LateOps)
    <3> HIDE DEF gets
    <3> QED
      BY <2>5
  <2> HIDE DEF gets, first
  <2>7. <<first>> \in Seq(LateOps)
    BY <2>2
  <2>8. <<first>> \o gets \in Seq(LateOps)
    BY <2>6, <2>7, ConcatProperties
  <2> QED
    BY <1>2, <2>8 DEF OutputCalls, n, upto, gets, first
<1> QED
  BY <1>1, <1>2

Fetched(f, x, n) ==
    f = [k \in 0 .. n |->
            IF k = 0 THEN <<>> ELSE f[k - 1] \o OutputCalls(x.regs[k], k, ExitOf(x, k))]

(* ... for one register after another ... *)
LEMMA FetchedExists ==
    ASSUME NEW x, NEW n \in Nat
    PROVE  \E f : Fetched(f, x, n)
<1> DEFINE S == {m \in Nat : \E f : Fetched(f, x, m)}
<1>1. 0 \in S
  <2> DEFINE f == [i \in 0 .. 0 |-> <<>>]
  <2>1. Fetched(f, x, 0)
    BY DEF Fetched
  <2> QED
    BY <2>1
<1>2. ASSUME NEW m \in Nat, m \in S PROVE m + 1 \in S
  <2>1. PICK f : Fetched(f, x, m)
    BY <1>2
  <2> DEFINE op(k) == OutputCalls(x.regs[k], k, ExitOf(x, k))
             g == [k \in 0 .. m + 1 |-> IF k = m + 1 THEN f[m] \o op(k) ELSE f[k]]
  <2> HIDE DEF op
  <2>2. f = [k \in 0 .. m |-> IF k = 0 THEN <<>> ELSE f[k - 1] \o op(k)]
    BY <2>1 DEF Fetched, op
  <2>3. ASSUME NEW k \in 0 .. m + 1
        PROVE  g[k] = IF k = 0 THEN <<>> ELSE g[k - 1] \o op(k)
    <3>1. CASE k = m + 1
      <4>1. k - 1 = m /\ m \in 0 .. m + 1 /\ m # m + 1 /\ k # 0
        BY <3>1
      <4>2. g[m] = f[m] /\ g[k] = f[m] \o op(k)
        BY <3>1, <4>1
      <4> QED
        BY <4>1, <4>2
    <3>2. CASE k # m + 1
      <4>1. k \in 0 .. m /\ g[k] = f[k] /\ (k # 0 => g[k - 1] = f[k - 1])
        BY <3>2
      <4> QED
        BY <2>2, <4>1
    <3> QED
      BY <3>1, <3>2
  <2>5. g = [k \in 0 .. m + 1 |-> g[k]]
    OBVIOUS
  <2> HIDE DEF g
  <2>6. g = [k \in 0 .. m + 1 |-> IF k = 0 THEN <<>> ELSE g[k - 1] \o op(k)]
    BY <2>3, <2>5
  <2>4. Fetched(g, x, m + 1)
    BY <2>6 DEF Fetched, op
  <2> QED
    BY <2>4
<1> QED
  BY <1>1, <1>2, SetInduction

(* ... however many there are. *)
LEMMA FetchedAreLate ==
    ASSUME NEW x \in Shifts, NEW f, Fetched(f, x, Len(x.regs))
    PROVE  f[Len(x.regs)] \in Seq(LateOps)
<1> DEFINE n == Len(x.regs)
           op(k) == OutputCalls(x.regs[k], k, ExitOf(x, k))
           S == {k \in Nat : k <= n => f[k] \in Seq(LateOps)}
<1>1. n \in Nat
  BY RegistersOfShift
<1>2. ASSUME NEW k \in 1 .. n PROVE op(k) \in Seq(LateOps)
  <2>1. x.regs[k] \in Registers /\ k \in Nat
    BY <1>1, RegistersOfShift
  <2>2. ExitOf(x, k) \in ExitModes
    BY RegistersOfShift DEF ExitOf, ExitModes
  <2> QED
    BY <2>1, <2>2, OutputCallsAreLate
<1> HIDE DEF op
<1>3. f = [k \in 0 .. n |-> IF k = 0 THEN <<>> ELSE f[k - 1] \o op(k)]
  BY DEF Fetched, op
<1> HIDE DEF n
<1>4. 0 \in S
  <2>1. f[0] = <<>>
    BY <1>1, <1>3
  <2>2. f[0] \in Seq(LateOps)
    BY <2>1
  <2> QED
    BY <2>2
<1>5. ASSUME NEW k \in Nat, k \in S PROVE k + 1 \in S
  <2> SUFFICES ASSUME k + 1 <= n PROVE f[k + 1] \in Seq(LateOps)
    OBVIOUS
  <2>1. f[k + 1] = f[k] \o op(k + 1)
    <3>1. k + 1 \in 0 .. n /\ k + 1 # 0 /\ (k + 1) - 1 = k
      BY <1>1
    <3>2. f[k + 1] = IF k + 1 = 0 THEN <<>> ELSE f[(k + 1) - 1] \o op(k + 1)
      BY <1>3, <3>1
    <3> QED
      BY <3>1, <3>2
  <2>2. f[k] \in Seq(LateOps) /\ op(k + 1) \in Seq(LateOps)
    BY <1>1, <1>2, <1>5
  <2> QED
    BY <2>1, <2>2, ConcatProperties
<1>6. n \in S
  BY <1>1, <1>4, <1>5, SetInduction
<1> QED
  BY <1>1, <1>6 DEF n

(* An exchange takes the tracked state to where its exit mode says, and    *)
(* transfers only while that state is one that shifts.                     *)
LEMMA ExchangeCallsLead ==
    ASSUME NEW x \in Shifts, NEW path \in {"DR", "IR"}, NEW st,
           IF x.capture THEN path = x.path /\ st \in {"RUN_TEST_IDLE", "UPDATE_DR", "UPDATE_IR"}
           ELSE st \in ReadyToShift(path)
    PROVE  /\ ExchangeCalls(x) \in Seq(ExchangeOps)
           /\ Path({st}, ExchangeCalls(x), {Destination(path)[x.exit]})
<1> DEFINE n == Len(x.regs)
           to == Destination(path)[x.exit]
           g == CHOOSE f : Fetched(f, x, n)
           in == IF x.capture THEN CaptureCalls(x.path) ELSE <<>>
           all == AllShifts(x)
           late == g[n]
<1>1. n \in Nat /\ x.exit \in ExitModes
  BY RegistersOfShift
<1>2. Fetched(g, x, n)
  BY <1>1, FetchedExists
<1>3. ExchangeCalls(x) = in \o all \o late
  BY DEF ExchangeCalls, AllShifts, Fetched
<1>4. late \in Seq(LateOps)
  <2> HIDE DEF g
  <2> QED
    BY <1>2, FetchedAreLate
<1>5. to \in States
  BY <1>1, StatesAre
<1>6. Path({to}, late, {to})
  BY <1>4, <1>5, LateStays
<1>7. PICK mid \in ReadyToShift(path) : Path({st}, in, {mid})
  <2>1. CASE x.capture
    <3>1. Path({st}, in, {CaptureState(path)})
      BY <2>1, CaptureCallsLead
    <3>2. CaptureState(path) \in ReadyToShift(path)
      BY DEF CaptureState, ReadyToShift
    <3> QED
      BY <3>1, <3>2
  <2>2. CASE ~x.capture
    <3>1. st \in States
      BY <2>2 DEF ReadyToShift, States, TapStates
    <3>2. Path({st}, <<>>, {st})
      BY <3>1, PathEmpty
    <3> QED
      BY <2>2, <3>2
  <2> QED
    BY <2>1, <2>2
<1>8. in \in Seq(DeferClockOps)
  <2>1. x.capture => CaptureCalls(x.path) \in Seq(DeferClockOps)
    BY CaptureCallsLead
  <2> QED
    BY <2>1
<1>9. all \in Seq(DeferShiftOps) /\ Path({mid}, all, {to})
  BY AllShiftsLead
<1> HIDE DEF in, all, late, to
<1>10. in \in Seq(ExchangeOps) /\ all \in Seq(ExchangeOps) /\ late \in Seq(ExchangeOps)
  <2>1. DeferClockOps \subseteq ExchangeOps
    BY OpsInOps
  <2> QED
    BY <1>4, <1>8, <1>9, <2>1, OpsInOps, SeqMonotonic
<1>11. in \in Seq(Ops) /\ all \in Seq(Ops) /\ late \in Seq(Ops)
  BY <1>10, OpsInOps, SeqMonotonic
<1>12. in \o all \in Seq(ExchangeOps) /\ in \o all \o late \in Seq(ExchangeOps)
  BY <1>10, ConcatProperties
<1>13. in \o all \in Seq(Ops) /\ Path({st}, in \o all, {to})
  BY <1>7, <1>9, <1>11, PathConcat, ConcatProperties
<1>14. Path({st}, in \o all \o late, {to})
  BY <1>6, <1>11, <1>13, PathConcat
<1> QED
  BY <1>3, <1>12, <1>14 DEF to

-----------------------------------------------------------------------------
(* The calls of a reset: the tracked state is set, and the five clocks     *)
(* that make it true come next.                                            *)
Follows(s) ==
    \A i \in 1 .. Len(s) :
        s[i].op = "state_reset" => i < Len(s) /\ s[i + 1] = ClockOp(1, 0, 5)

(* Without a reset there is nothing to follow. *)
LEMMA FollowsQuiet ==
    ASSUME NEW s \in Seq(Ops \ StateResetOps)
    PROVE  Follows(s)
<1> SUFFICES ASSUME NEW i \in 1 .. Len(s) PROVE s[i].op # "state_reset"
  BY DEF Follows
<1>1. s[i] \in Ops \ StateResetOps
  BY ElementOfSeq
<1> QED
  BY <1>1 DEF Ops, ExchangeOps, ShiftOps, ClockOps, DeferClockOps, DeferOps, DeferShiftOps,
              LateOps, SetSignalOps

(* An exchange does not reset the state. *)
LEMMA ExchangeOpsQuiet == ExchangeOps \subseteq Ops \ StateResetOps
<1> SUFFICES ASSUME NEW op \in ExchangeOps PROVE op \notin StateResetOps
  BY OpsInOps
<1>1. op.op # "state_reset"
  BY DEF ExchangeOps, ShiftOps, DeferClockOps, DeferOps, DeferShiftOps, LateOps
<1> QED
  BY <1>1 DEF StateResetOps

(* What follows a reset still does when a call before it is done ... *)
LEMMA FollowsTail ==
    ASSUME NEW s \in Seq(Ops), s # <<>>, Follows(s)
    PROVE  Follows(Tail(s))
<1>1. /\ Len(s) \in Nat \ {0}
      /\ Len(Tail(s)) = Len(s) - 1
      /\ \A i \in 1 .. Len(s) - 1 : Tail(s)[i] = s[i + 1]
  BY EmptySeq, HeadTailProperties
<1> SUFFICES ASSUME NEW i \in 1 .. Len(Tail(s)), Tail(s)[i].op = "state_reset"
             PROVE  i < Len(Tail(s)) /\ Tail(s)[i + 1] = ClockOp(1, 0, 5)
  BY DEF Follows
<1>2. i + 1 \in 1 .. Len(s) /\ s[i + 1].op = "state_reset"
  BY <1>1
<1>3. i + 1 < Len(s) /\ s[(i + 1) + 1] = ClockOp(1, 0, 5)
  BY <1>2 DEF Follows
<1>4. i + 1 \in 1 .. Len(s) - 1
  BY <1>1, <1>3
<1>5. Tail(s)[i + 1] = s[(i + 1) + 1]
  BY <1>1, <1>4
<1> QED
  BY <1>1, <1>3, <1>5

(* ... or when there are calls around it. *)
LEMMA FollowsConcat ==
    ASSUME NEW s \in Seq(Ops), NEW t \in Seq(Ops), Follows(s), Follows(t)
    PROVE  Follows(s \o t)
<1> DEFINE m == Len(s)
           n == Len(t)
<1>1. /\ m \in Nat /\ n \in Nat /\ Len(s \o t) = m + n
      /\ \A i \in 1 .. m + n : (s \o t)[i] = IF i <= m THEN s[i] ELSE t[i - m]
  BY ConcatProperties, LenProperties
<1>2. \A i \in 1 .. m : s[i].op = "state_reset" => i < m /\ s[i + 1] = ClockOp(1, 0, 5)
  BY DEF Follows
<1>3. \A i \in 1 .. n : t[i].op = "state_reset" => i < n /\ t[i + 1] = ClockOp(1, 0, 5)
  BY DEF Follows
<1> HIDE DEF m, n
<1> SUFFICES ASSUME NEW i \in 1 .. m + n, (s \o t)[i].op = "state_reset"
             PROVE  i < m + n /\ (s \o t)[i + 1] = ClockOp(1, 0, 5)
  BY <1>1 DEF Follows
<1>4. CASE i <= m
  <2>1. (s \o t)[i] = s[i] /\ i \in 1 .. m
    BY <1>1, <1>4
  <2>2. i < m /\ s[i + 1] = ClockOp(1, 0, 5)
    BY <1>2, <2>1
  <2>3. i + 1 \in 1 .. m + n /\ i + 1 <= m /\ i < m + n
    BY <1>1, <2>2
  <2>4. (s \o t)[i + 1] = s[i + 1]
    BY <1>1, <2>3
  <2> QED
    BY <2>2, <2>3, <2>4
<1>5. CASE i > m
  <2> DEFINE j == i - m
  <2>1. (s \o t)[i] = t[j] /\ j \in 1 .. n
    BY <1>1, <1>5
  <2>2. j < n /\ t[j + 1] = ClockOp(1, 0, 5)
    BY <1>3, <2>1
  <2>3. i + 1 \in 1 .. m + n /\ ~(i + 1 <= m) /\ (i + 1) - m = j + 1
    BY <1>1, <1>5, <2>2
  <2>4. (s \o t)[i + 1] = t[j + 1]
    <3>1. (s \o t)[i + 1] = t[(i + 1) - m]
      BY <1>1, <2>3
    <3> HIDE DEF j
    <3> QED
      BY <2>3, <3>1
  <2> QED
    BY <1>1, <2>2, <2>3, <2>4
<1> QED
  BY <1>1, <1>4, <1>5

(* The calls of both resets are of that form ... *)
LEMMA ResetCallsFollow ==
    /\ ResetCalls \in Seq(FreeOps) /\ TrstResetCalls \in Seq(FreeOps)
    /\ Follows(ResetCalls) /\ Follows(TrstResetCalls)
<1> DEFINE a == [op |-> "state_reset"]
           b == ClockOp(1, 0, 5)
           c == ClockOp(0, 0, 1)
           low == SetSignalOp({"TRST"}, {})
           high == SetSignalOp({"TRST"}, {"TRST"})
<1>1. a \in StateResetOps /\ b \in ClockOps /\ c \in ClockOps
  BY DEF StateResetOps, ClockOps, ClockOp, Bit
<1>2. low \in SetSignalOps /\ high \in SetSignalOps
  BY DEF SetSignalOps, SetSignalOp, Signals
<1>3. {a, b, c, low, high} \subseteq FreeOps /\ FreeOps \subseteq Ops
  BY <1>1, <1>2, OpsInOps DEF FreeOps, Ops
<1>4. /\ a.op = "state_reset" /\ b.op # "state_reset" /\ c.op # "state_reset"
      /\ low.op # "state_reset" /\ high.op # "state_reset"
  BY DEF ClockOp, SetSignalOp
<1> HIDE DEF a, b, c, low, high
<1>5. ResetCalls = <<a, b, c>> /\ <<a, b, c>> \in Seq(FreeOps)
  BY <1>3 DEF ResetCalls, a, b, c
<1>6. Follows(<<a, b, c>>)
  <2>1. b = ClockOp(1, 0, 5)
    BY DEF b
  <2> QED
    BY <1>4, <2>1 DEF Follows
<1>7. TrstResetCalls = <<low, high>> \o ResetCalls /\ <<low, high>> \in Seq(FreeOps)
  BY <1>3 DEF TrstResetCalls, low, high
<1>8. Follows(<<low, high>>)
  BY <1>4 DEF Follows
<1> DEFINE s == <<low, high>>
           t == ResetCalls
<1> HIDE DEF s, t
<1>9. s \in Seq(FreeOps) /\ t \in Seq(FreeOps) /\ Follows(s) /\ Follows(t)
  BY <1>5, <1>6, <1>7, <1>8 DEF s, t
<1>10. s \in Seq(Ops) /\ t \in Seq(Ops)
  BY <1>3, <1>9, SeqMonotonic
<1>11. s \o t \in Seq(FreeOps) /\ Follows(s \o t)
  BY <1>9, <1>10, FollowsConcat, ConcatProperties
<1> QED
  BY <1>7, <1>9, <1>11 DEF s, t

(* (Calls that need no known state are calls.) *)
LEMMA FreeOpsInOps == FreeOps \subseteq Ops
  BY OpsInOps DEF FreeOps, Ops

(* ... and lead from everywhere to Run-Test/Idle ... *)
LEMMA ResetCallsLead == Path(States, ResetCalls, {"RUN_TEST_IDLE"})
<1> DEFINE tlr == "TEST_LOGIC_RESET"
           rti == "RUN_TEST_IDLE"
           a == [op |-> "state_reset"]
           b == ClockOp(1, 0, 5)
           c == ClockOp(0, 0, 1)
<1>1. tlr \in States /\ rti \in States /\ tlr \in TapStates
  BY DEF States, TapStates
<1>2. Leads(States, a, {tlr})
  BY DEF Leads
<1>3. StateClocks(tlr, 1, 5) = tlr /\ StateClocks(tlr, 0, 1) = rti
  BY <1>1, FiveClocks, OneClock, MovesAfterReset
<1>4. Leads({tlr}, b, {tlr})
  BY <1>3 DEF Leads, ClockOp
<1>5. Leads({tlr}, c, {rti})
  BY <1>3 DEF Leads, ClockOp
<1>6. ResetCalls = <<a, b, c>>
  BY DEF ResetCalls
<1> HIDE DEF a, b, c, tlr, rti
<1> DEFINE tr == [i \in 0 .. 3 |-> IF i = 0 THEN States ELSE IF i = 3 THEN {rti} ELSE {tlr}]
           s == <<a, b, c>>
<1>7. Len(s) = 3 /\ s[1] = a /\ s[2] = b /\ s[3] = c
  OBVIOUS
<1>8. tr \in [0 .. 3 -> SUBSET States] /\ States \subseteq tr[0] /\ tr[3] \subseteq {rti}
  BY <1>1
<1>9. tr[0] = States /\ tr[1] = {tlr} /\ tr[2] = {tlr} /\ tr[3] = {rti}
  OBVIOUS
<1> HIDE DEF tr, s
<1>10. \A i \in 1 .. 3 : Leads(tr[i - 1], s[i], tr[i])
  <2>1. Leads(tr[1 - 1], s[1], tr[1]) /\ Leads(tr[2 - 1], s[2], tr[2])
        /\ Leads(tr[3 - 1], s[3], tr[3])
    BY <1>2, <1>4, <1>5, <1>7, <1>9
  <2> QED
    BY <2>1
<1>11. Path(States, s, {rti})
  BY <1>7, <1>8, <1>10 DEF Path
<1> QED
  BY <1>6, <1>11 DEF s, rti

(* ... from where the bypass instructions are shifted. *)
LEMMA BypassCallsLead ==
    /\ BypassCalls \in Seq(Ops)
    /\ Follows(BypassCalls)
    /\ Path(States, BypassCalls, States)
<1> DEFINE ones == [in |-> [i \in 1 .. Cells |-> 1], outlen |-> NoOut]
           shift == [op |-> "defer_shift", reg |-> ones, exit |-> "IDLE"]
           cap == CaptureCalls("IR")
           rti == "RUN_TEST_IDLE"
<1>1. ones \in Registers
  <2> DEFINE bits == [i \in 1 .. Cells |-> 1]
  <2>1. bits \in [1 .. Cells -> Bit] /\ Cells \in Nat \ {0}
    BY CellsAssumption DEF Bit
  <2> HIDE DEF bits
  <2>2. bits \in Seq(Bit) /\ Len(bits) = Cells
    BY <2>1
  <2>3. bits # <<>>
    BY <2>1, <2>2, EmptySeq
  <2> QED
    BY <2>2, <2>3 DEF Registers, NoOut, bits
<1>2. shift \in DeferShiftOps
  BY <1>1 DEF DeferShiftOps, ExitModes
<1>3. rti \in States /\ "CAPTURE_IR" \in States
  BY DEF States, TapStates
<1>4. Leads({"CAPTURE_IR"}, shift, {rti})
  <2>1. Destination("IR")["IDLE"] = rti
    BY StatesAre DEF ExitModes
  <2>2. {"CAPTURE_IR"} \subseteq ReadyToShift("IR")
    BY DEF ReadyToShift
  <2> QED
    BY <2>1, <2>2 DEF Leads
<1>5. cap \in Seq(DeferClockOps) /\ Path({rti}, cap, {"CAPTURE_IR"})
  BY CaptureCallsLead DEF CaptureState
<1>6. BypassCalls = ResetCalls \o cap \o <<shift>>
  BY DEF BypassCalls
<1> HIDE DEF ones, shift, cap, rti
<1>7. cap \in Seq(ExchangeOps) /\ <<shift>> \in Seq(ExchangeOps)
  <2>1. DeferClockOps \subseteq ExchangeOps /\ shift \in ExchangeOps
    BY <1>2, OpsInOps
  <2> QED
    BY <1>5, <2>1, SeqMonotonic
<1>8. Follows(cap) /\ Follows(<<shift>>)
  BY <1>7, ExchangeOpsQuiet, FollowsQuiet, SeqMonotonic
<1>9. cap \in Seq(Ops) /\ <<shift>> \in Seq(Ops) /\ ResetCalls \in Seq(Ops)
  BY <1>7, OpsInOps, ResetCallsFollow, FreeOpsInOps, SeqMonotonic
<1>10. shift \in Ops
  BY <1>2, OpsInOps
<1>11. Path({"CAPTURE_IR"}, <<shift>>, {rti})
  BY <1>3, <1>4, <1>10, PathOne
<1> DEFINE start == ResetCalls \o cap
<1>12. start \in Seq(Ops) /\ Follows(start) /\ Path(States, start, {"CAPTURE_IR"})
  BY <1>5, <1>8, <1>9, ResetCallsLead, ResetCallsFollow, PathConcat, FollowsConcat,
     ConcatProperties DEF rti
<1> HIDE DEF start
<1>13. /\ start \o <<shift>> \in Seq(Ops) /\ Follows(start \o <<shift>>)
       /\ Path(States, start \o <<shift>>, {rti})
  BY <1>8, <1>9, <1>11, <1>12, PathConcat, FollowsConcat, ConcatProperties
<1>14. Path(States, start \o <<shift>>, States)
  BY <1>3, <1>13 DEF Path
<1> QED
  BY <1>6, <1>13, <1>14 DEF start

-----------------------------------------------------------------------------
(* The results that wait at the cable.  A call finds at most c of them and *)
(* leaves at most d.                                                       *)
Upto(reg) == IF Len(reg.in) < reg.outlen THEN Len(reg.in) ELSE reg.outlen

Fetches(reg, exit) ==
    IF reg.outlen = NoOut THEN 0 ELSE 1 + (Upto(reg) - Transferred(reg, exit))

Asks(act) == IF act.action = "TRANSFER" /\ ~act.keep THEN 0 ELSE 1

Keeps(c, op, d) ==
    CASE op.op = "defer" -> c + Asks(op.act) <= d
      [] op.op = "defer_shift" -> c + Fetches(op.reg, op.exit) <= d
      [] op.op \in {"transfer_late", "get_tdo_late"} -> c <= d + 1
      [] OTHER -> c <= d

(* Calls that find at most m results and leave at most n.                  *)
Fits(m, s, n) ==
    \E f \in [0 .. Len(s) -> Nat] :
        /\ m <= f[0]
        /\ f[Len(s)] <= n
        /\ \A i \in 1 .. Len(s) : Keeps(f[i - 1], s[i], f[i])

(* A transfer stops at the end of the output register. *)
LEMMA TransferredUpto ==
    ASSUME NEW reg \in Registers, NEW exit \in ExitModes
    PROVE  /\ Upto(reg) \in Nat
           /\ Fetches(reg, exit) \in Nat
           /\ reg.outlen # NoOut => Transferred(reg, exit) <= Upto(reg)
<1>1. Len(reg.in) \in Nat \ {0} /\ reg.outlen \in Nat
  BY EmptySeq DEF Registers
<1>2. Transferred(reg, exit) \in 0 .. Len(reg.in)
  BY TransferredBound
<1>3. ASSUME reg.outlen # NoOut PROVE Transferred(reg, exit) <= reg.outlen
  <2> DEFINE most == Len(reg.in) - (IF exit = "SHIFT" THEN 0 ELSE 1)
  <2>1. most \in Nat
    BY <1>1
  <2>2. Transferred(reg, exit) = IF reg.outlen < most THEN reg.outlen ELSE most
    BY <1>3 DEF Transferred
  <2> HIDE DEF most
  <2> QED
    BY <1>1, <2>1, <2>2
<1>4. Upto(reg) \in Nat /\ (reg.outlen # NoOut => Transferred(reg, exit) <= Upto(reg))
  BY <1>1, <1>2, <1>3 DEF Upto
<1> QED
  BY <1>2, <1>4 DEF Fetches

(* A call that finds fewer leaves no more. *)
LEMMA KeepsMonotone ==
    ASSUME NEW b \in Nat, NEW c \in Nat, NEW d \in Nat, NEW e \in Nat, NEW op \in Ops,
           Keeps(c, op, d), b <= c, d <= e
    PROVE  Keeps(b, op, e)
<1>1. Asks(op.act) \in Nat
  BY DEF Asks
<1>2. op.op = "defer_shift" => Fetches(op.reg, op.exit) \in Nat
  BY TransferredUpto
     DEF Ops, ExchangeOps, ShiftOps, ClockOps, DeferClockOps, DeferOps, DeferShiftOps,
         LateOps, SetSignalOps, StateResetOps
<1> QED
  BY <1>1, <1>2 DEF Keeps

(* No calls keep what there is. *)
LEMMA FitsEmpty ==
    ASSUME NEW m \in Nat
    PROVE  Fits(m, <<>>, m)
<1> DEFINE f == [i \in 0 .. 0 |-> m]
<1>1. /\ f \in [0 .. Len(<<>>) -> Nat]
      /\ m <= f[0] /\ f[Len(<<>>)] <= m
      /\ \A i \in 1 .. Len(<<>>) : Keeps(f[i - 1], <<>>[i], f[i])
  OBVIOUS
<1> QED
  BY <1>1 DEF Fits

(* One call. *)
LEMMA FitsOne ==
    ASSUME NEW m \in Nat, NEW n \in Nat, NEW op, Keeps(m, op, n)
    PROVE  Fits(m, <<op>>, n)
<1> DEFINE f == [i \in 0 .. 1 |-> IF i = 0 THEN m ELSE n]
<1>1. Len(<<op>>) = 1 /\ <<op>>[1] = op
  OBVIOUS
<1>2. /\ f \in [0 .. 1 -> Nat]
      /\ m <= f[0] /\ f[1] <= n
      /\ \A i \in 1 .. 1 : Keeps(f[i - 1], <<op>>[i], f[i])
  BY <1>1
<1> QED
  BY <1>1, <1>2 DEF Fits

(* Calls before and after what passes between them. *)
LEMMA FitsConcat ==
    ASSUME NEW l \in Nat, NEW m \in Nat, NEW n \in Nat,
           NEW s \in Seq(Ops), NEW t \in Seq(Ops), Fits(l, s, m), Fits(m, t, n)
    PROVE  Fits(l, s \o t, n)
<1>1. PICK f \in [0 .. Len(s) -> Nat] :
        /\ l <= f[0] /\ f[Len(s)] <= m
        /\ \A i \in 1 .. Len(s) : Keeps(f[i - 1], s[i], f[i])
  BY DEF Fits
<1>2. PICK g \in [0 .. Len(t) -> Nat] :
        /\ m <= g[0] /\ g[Len(t)] <= n
        /\ \A i \in 1 .. Len(t) : Keeps(g[i - 1], t[i], g[i])
  BY DEF Fits
<1>3. /\ Len(s) \in Nat /\ Len(t) \in Nat
      /\ Len(s \o t) = Len(s) + Len(t)
      /\ \A i \in 1 .. Len(s) + Len(t) :
            (s \o t)[i] = IF i <= Len(s) THEN s[i] ELSE t[i - Len(s)]
  BY ConcatProperties, LenProperties
<1>8. f[Len(s)] \in Nat /\ g[0] \in Nat /\ f[0] \in Nat
  <2>1. Len(s) \in Nat /\ Len(t) \in Nat
    BY <1>3
  <2>2. Len(s) \in 0 .. Len(s) /\ 0 \in 0 .. Len(s) /\ 0 \in 0 .. Len(t)
    BY <2>1
  <2> QED
    BY <2>2
<1> DEFINE h == [i \in 0 .. Len(s) + Len(t) |->
                    IF i < Len(s) THEN f[i] ELSE g[i - Len(s)]]
<1>4. h \in [0 .. Len(s) + Len(t) -> Nat]
  BY <1>3
<1>5. l <= h[0] /\ h[Len(s) + Len(t)] <= n
  <2>1. h[Len(s) + Len(t)] = g[Len(t)]
    BY <1>3
  <2>2. h[0] = IF 0 < Len(s) THEN f[0] ELSE g[0]
    BY <1>3
  <2>3. ~(0 < Len(s)) => f[0] = f[Len(s)]
    BY <1>3
  <2> HIDE DEF h
  <2> QED
    BY <1>1, <1>2, <1>8, <2>1, <2>2, <2>3
<1>6. ASSUME NEW i \in 1 .. Len(s) + Len(t) PROVE Keeps(h[i - 1], (s \o t)[i], h[i])
  <2>1. CASE i < Len(s)
    <3>1. h[i - 1] = f[i - 1] /\ h[i] = f[i] /\ (s \o t)[i] = s[i]
      BY <1>3, <2>1
    <3> QED
      BY <1>1, <1>3, <2>1, <3>1
  <2>2. CASE i = Len(s)
    <3>4. i \in 1 .. Len(s) /\ i - 1 \in 0 .. Len(s)
      BY <1>3, <2>2
    <3>1. /\ Keeps(f[i - 1], s[i], f[i]) /\ f[i] <= g[0] /\ s[i] \in Ops
          /\ f[i - 1] \in Nat /\ f[i] \in Nat
      <4>1. Keeps(f[i - 1], s[i], f[i]) /\ s[i] \in Ops /\ f[i - 1] \in Nat
        BY <1>1, <3>4, ElementOfSeq
      <4>2. f[i] <= g[0] /\ f[i] \in Nat
        BY <1>1, <1>2, <1>8, <2>2
      <4> QED
        BY <4>1, <4>2
    <3>2. Keeps(f[i - 1], s[i], g[0])
      <4> DEFINE b == f[i - 1]
                 d == f[i]
                 e == g[0]
                 op == s[i]
      <4>1. /\ b \in Nat /\ d \in Nat /\ e \in Nat /\ op \in Ops
            /\ Keeps(b, op, d) /\ d <= e
        BY <1>8, <3>1
      <4> HIDE DEF b, d, e, op
      <4>2. b <= b
        BY <4>1
      <4>3. Keeps(b, op, e)
        BY <4>1, <4>2, KeepsMonotone
      <4> QED
        BY <4>3 DEF b, e, op
    <3>3. h[i - 1] = f[i - 1] /\ h[i] = g[0] /\ (s \o t)[i] = s[i]
      BY <1>3, <2>2
    <3> QED
      BY <3>2, <3>3
  <2>3. CASE i > Len(s)
    <3> DEFINE j == i - Len(s)
    <3>1. j \in 1 .. Len(t)
      BY <1>3, <2>3
    <3>2. h[i - 1] = g[j - 1] /\ h[i] = g[j] /\ (s \o t)[i] = t[j]
      BY <1>3, <2>3
    <3> QED
      BY <1>2, <3>1, <3>2
  <2> QED
    BY <1>3, <2>1, <2>2, <2>3
<1> QED
  BY <1>3, <1>4, <1>5, <1>6 DEF Fits

(* The first call leaves no more than the rest may find. *)
LEMMA FitsTail ==
    ASSUME NEW m \in Nat, NEW n \in Nat, NEW s \in Seq(Ops), s # <<>>, Fits(m, s, n)
    PROVE  \E k \in Nat : Keeps(m, Head(s), k) /\ Fits(k, Tail(s), n)
<1>1. PICK f \in [0 .. Len(s) -> Nat] :
        /\ m <= f[0] /\ f[Len(s)] <= n
        /\ \A i \in 1 .. Len(s) : Keeps(f[i - 1], s[i], f[i])
  BY DEF Fits
<1>2. /\ Len(s) \in Nat \ {0} /\ Head(s) = s[1] /\ s[1] \in Ops
      /\ Len(Tail(s)) = Len(s) - 1
      /\ \A i \in 1 .. Len(s) - 1 : Tail(s)[i] = s[i + 1]
  BY EmptySeq, HeadTailProperties, ElementOfSeq
<1>3. f[0] \in Nat /\ f[1] \in Nat /\ Keeps(f[0], s[1], f[1])
  BY <1>1, <1>2
<1>4. Keeps(m, Head(s), f[1])
  BY <1>1, <1>2, <1>3, KeepsMonotone
<1> DEFINE g == [i \in 0 .. Len(s) - 1 |-> f[i + 1]]
<1>5. /\ g \in [0 .. Len(Tail(s)) -> Nat]
      /\ f[1] <= g[0] /\ g[Len(Tail(s))] <= n
      /\ \A i \in 1 .. Len(Tail(s)) : Keeps(g[i - 1], Tail(s)[i], g[i])
  BY <1>1, <1>2, <1>3
<1>6. Fits(f[1], Tail(s), n)
  BY <1>5 DEF Fits
<1> QED
  BY <1>3, <1>4, <1>6

(* More before, more after. *)
LEMMA FitsMore ==
    ASSUME NEW m \in Nat, NEW n \in Nat, NEW c \in Nat, NEW s \in Seq(Ops), Fits(m, s, n)
    PROVE  Fits(m + c, s, n + c)
<1>1. PICK f \in [0 .. Len(s) -> Nat] :
        /\ m <= f[0] /\ f[Len(s)] <= n
        /\ \A i \in 1 .. Len(s) : Keeps(f[i - 1], s[i], f[i])
  BY DEF Fits
<1> DEFINE g == [i \in 0 .. Len(s) |-> f[i] + c]
<1>2. Len(s) \in Nat /\ \A i \in 0 .. Len(s) : f[i] \in Nat
  BY LenProperties
<1>3. g \in [0 .. Len(s) -> Nat] /\ m + c <= g[0] /\ g[Len(s)] <= n + c
  BY <1>1, <1>2
<1>4. ASSUME NEW i \in 1 .. Len(s) PROVE Keeps(g[i - 1], s[i], g[i])
  <2>1. /\ g[i - 1] = f[i - 1] + c /\ g[i] = f[i] + c
        /\ f[i - 1] \in Nat /\ f[i] \in Nat /\ s[i] \in Ops
    BY <1>2, ElementOfSeq
  <2> DEFINE op == s[i]
  <2>2. Keeps(f[i - 1], op, f[i])
    BY <1>1
  <2> HIDE DEF op
  <2>3. Asks(op.act) \in Nat
    BY DEF Asks
  <2>4. op.op = "defer_shift" => Fetches(op.reg, op.exit) \in Nat
    <3>1. op \in Ops
      BY <2>1 DEF op
    <3> QED
      BY <3>1, TransferredUpto
         DEF Ops, ExchangeOps, ShiftOps, ClockOps, DeferClockOps, DeferOps, DeferShiftOps,
             LateOps, SetSignalOps, StateResetOps
  <2> HIDE DEF g
  <2>5. Keeps(f[i - 1] + c, op, f[i] + c)
    <3> DEFINE a == f[i - 1]
               b == f[i]
    <3>1. a \in Nat /\ b \in Nat /\ Keeps(a, op, b)
      BY <2>1, <2>2
    <3> SUFFICES Keeps(a + c, op, b + c)
      OBVIOUS
    <3> HIDE DEF a, b
    <3>2. CASE op.op = "defer"
      BY <2>3, <3>1, <3>2 DEF Keeps
    <3>3. CASE op.op = "defer_shift"
      BY <2>4, <3>1, <3>3 DEF Keeps
    <3>4. CASE op.op \in {"transfer_late", "get_tdo_late"}
      BY <3>1, <3>4 DEF Keeps
    <3>5. CASE op.op \notin {"defer", "defer_shift", "transfer_late", "get_tdo_late"}
      BY <3>1, <3>5 DEF Keeps
    <3> QED
      BY <3>2, <3>3, <3>4, <3>5
  <2> QED
    BY <2>1, <2>5 DEF op
<1> QED
  BY <1>3, <1>4 DEF Fits

(* Calls that ask for no result leave no more than there were. *)
LEMMA QuietFits ==
    ASSUME NEW m \in Nat, NEW s \in Seq(Ops \ (DeferOps \cup DeferShiftOps))
    PROVE  Fits(m, s, m)
<1> DEFINE f == [i \in 0 .. Len(s) |-> m]
<1>1. Len(s) \in Nat
  BY LenProperties
<1>2. ASSUME NEW i \in 1 .. Len(s) PROVE Keeps(m, s[i], m)
  <2>1. s[i] \in Ops \ (DeferOps \cup DeferShiftOps)
    BY ElementOfSeq
  <2>2. s[i].op \notin {"defer", "defer_shift"}
    BY <2>1
       DEF Ops, ExchangeOps, ShiftOps, ClockOps, DeferClockOps, DeferOps, DeferShiftOps,
           LateOps, SetSignalOps, StateResetOps
  <2> QED
    BY <2>2 DEF Keeps
<1>3. /\ f \in [0 .. Len(s) -> Nat] /\ m <= f[0] /\ f[Len(s)] <= m
      /\ \A i \in 1 .. Len(s) : Keeps(f[i - 1], s[i], f[i])
  BY <1>1, <1>2
<1> QED
  BY <1>3 DEF Fits

(* The bits clocked one by one ask for a result as long as the output      *)
(* register takes them.                                                    *)
LEMMA BitCallsFit ==
    ASSUME NEW reg \in Registers, NEW exit \in ExitModes, NEW i \in 1 .. Len(reg.in),
           NEW m \in Nat
    PROVE  /\ BitCalls(reg, exit, i) \in Seq(Ops)
           /\ Fits(m, BitCalls(reg, exit, i), IF i <= reg.outlen THEN m + 1 ELSE m)
<1> DEFINE tms == IF exit # "SHIFT" /\ i = Len(reg.in) THEN 1 ELSE 0
           clock == DeferClockOp(tms, reg.in[i], 1)
           get == DeferOp([action |-> "GET_TDO"])
<1>1. clock \in DeferClockOps
  <2>1. reg.in[i] \in Bit /\ tms \in Bit
    <3>1. reg.in \in Seq(Bit)
      BY DEF Registers
    <3> QED
      BY <3>1, ElementOfSeq DEF Bit
  <2> HIDE DEF tms
  <2> QED
    BY <2>1 DEF DeferClockOp, DeferClockOps
<1>2. get \in DeferOps
  BY DEF DeferOp, DeferOps, Acts
<1>3. clock \in Ops /\ get \in Ops
  BY <1>1, <1>2, OpsInOps
<1>4. Keeps(m, get, m + 1)
  <2>1. get.op = "defer" /\ Asks(get.act) = 1
    BY DEF DeferOp, Asks
  <2> HIDE DEF get
  <2> QED
    BY <2>1 DEF Keeps
<1>5. \A k \in Nat : Keeps(k, clock, k)
  <2>1. clock.op = "defer_clock"
    BY DEF DeferClockOp
  <2> HIDE DEF clock
  <2> QED
    BY <2>1 DEF Keeps
<1>6. BitCalls(reg, exit, i) = (IF i <= reg.outlen THEN <<get>> ELSE <<>>) \o <<clock>>
  BY DEF BitCalls
<1> HIDE DEF clock, get, tms
<1>7. <<clock>> \in Seq(Ops) /\ <<get>> \in Seq(Ops) /\ <<>> \in Seq(Ops)
  BY <1>3
<1>8. CASE i <= reg.outlen
  <2> DEFINE s == <<get>>
             t == <<clock>>
  <2>1. Fits(m, s, m + 1) /\ Fits(m + 1, t, m + 1) /\ m + 1 \in Nat
    BY <1>4, <1>5, FitsOne
  <2>3. s \in Seq(Ops) /\ t \in Seq(Ops)
    BY <1>7
  <2> HIDE DEF s, t
  <2>2. Fits(m, s \o t, m + 1)
    BY <2>1, <2>3, FitsConcat
  <2> QED
    BY <1>6, <1>8, <2>2, <2>3, ConcatProperties DEF s, t
<1>9. CASE ~(i <= reg.outlen)
  <2>1. Fits(m, <<clock>>, m)
    BY <1>5, FitsOne
  <2>2. BitCalls(reg, exit, i) = <<clock>>
    BY <1>6, <1>7, <1>9
  <2> QED
    BY <1>7, <1>9, <2>1, <2>2
<1> QED
  BY <1>8, <1>9

(* All of them. *)
LEMMA BitsFit ==
    ASSUME NEW reg \in Registers, NEW exit \in ExitModes, NEW f, NEW m \in Nat,
           Gathered(f, reg, exit, Transferred(reg, exit), Len(reg.in))
    PROVE  /\ f[Len(reg.in)] \in Seq(Ops)
           /\ Fits(m, f[Len(reg.in)],
                   IF reg.outlen = NoOut THEN m
                   ELSE m + (Upto(reg) - Transferred(reg, exit)))
<1> DEFINE n == Transferred(reg, exit)
           L == Len(reg.in)
           op(i) == BitCalls(reg, exit, i)
           Upto1(i) == IF i < reg.outlen THEN i ELSE reg.outlen
           Got(i) == IF reg.outlen = NoOut THEN m ELSE m + (Upto1(i) - n)
           S == {k \in Nat : n + k <= L =>
                    f[n + k] \in Seq(Ops) /\ Fits(m, f[n + k], Got(n + k))}
<1>1. /\ n \in Nat /\ L \in Nat /\ n <= L /\ reg.outlen \in Nat
      /\ reg.outlen # NoOut => n <= reg.outlen
  <2>1. reg.outlen \in Nat /\ L \in Nat
    BY LenProperties DEF Registers
  <2>2. n \in 0 .. L /\ (reg.outlen # NoOut => n <= Upto(reg))
    BY TransferredBound, TransferredUpto
  <2> HIDE DEF n, L
  <2> QED
    BY <2>1, <2>2 DEF Upto, L
<1>2. \A i \in n .. L : f[i] = IF i = n THEN <<>> ELSE f[i - 1] \o op(i)
  BY DEF Gathered
<1>3. ASSUME NEW i \in 1 .. L, NEW c \in Nat
      PROVE  op(i) \in Seq(Ops) /\ Fits(c, op(i), IF i <= reg.outlen THEN c + 1 ELSE c)
  BY BitCallsFit
<1> HIDE DEF n, L, op
<1>4. 0 \in S
  <2>1. f[n + 0] = <<>>
    BY <1>1, <1>2
  <2>2. Got(n + 0) = m
    BY <1>1
  <2>3. <<>> \in Seq(Ops) /\ Fits(m, <<>>, m)
    BY FitsEmpty
  <2> HIDE DEF Got
  <2> QED
    BY <2>1, <2>2, <2>3
<1>5. ASSUME NEW k \in Nat, k \in S PROVE k + 1 \in S
  <2> DEFINE i == n + (k + 1)
  <2> SUFFICES ASSUME i <= L PROVE f[i] \in Seq(Ops) /\ Fits(m, f[i], Got(i))
    OBVIOUS
  <2>1. i \in 1 .. L /\ i \in n .. L /\ i # n /\ i - 1 = n + k /\ n + k <= L
    BY <1>1
  <2>2. f[i] = f[n + k] \o op(i)
    BY <1>2, <2>1
  <2>3. f[n + k] \in Seq(Ops) /\ Fits(m, f[n + k], Got(n + k))
    BY <1>5, <2>1
  <2>4. Got(n + k) \in Nat /\ Got(i) \in Nat
        /\ Got(i) = IF i <= reg.outlen THEN Got(n + k) + 1 ELSE Got(n + k)
    <3>1. CASE reg.outlen = NoOut
      <4>1. ~(i <= reg.outlen)
        BY <1>1, <2>1, <3>1 DEF NoOut
      <4> QED
        BY <3>1, <4>1
    <3>2. CASE reg.outlen # NoOut
      BY <1>1, <2>1, <3>2
    <3> QED
      BY <3>1, <3>2
  <2> DEFINE c == Got(n + k)
             d == Got(i)
  <2> HIDE DEF Got
  <2>5. op(i) \in Seq(Ops) /\ Fits(c, op(i), d)
    BY <1>3, <2>1, <2>4
  <2>6. Fits(m, f[n + k] \o op(i), d)
    BY <2>3, <2>4, <2>5, FitsConcat
  <2> QED
    BY <2>2, <2>3, <2>5, <2>6, ConcatProperties
<1>6. L - n \in S
  <2>1. L - n \in Nat
    BY <1>1
  <2> HIDE DEF S
  <2> QED
    BY <1>4, <1>5, <2>1, SetInduction
<1>7. n + (L - n) = L /\ Upto1(L) = Upto(reg)
  BY <1>1 DEF Upto, L
<1>8. f[L] \in Seq(Ops) /\ Fits(m, f[L], Got(L))
  <2> HIDE DEF Got
  <2>1. f[n + (L - n)] \in Seq(Ops) /\ Fits(m, f[n + (L - n)], Got(n + (L - n)))
    BY <1>1, <1>6
  <2> QED
    BY <1>7, <2>1
<1> QED
  BY <1>7, <1>8 DEF L, n

(* A whole shift. *)
LEMMA ShiftFits ==
    ASSUME NEW reg \in Registers, NEW exit \in ExitModes, NEW st, NEW m \in Nat
    PROVE  /\ FullShift(st, reg, exit) \in Seq(Ops)
           /\ Fits(m, FullShift(st, reg, exit), m + Fetches(reg, exit))
<1> DEFINE n == Transferred(reg, exit)
           first == TransferCall(reg, n)
           last1 == LeaveCalls(exit)
           in == IF "CAPTURE" \in Flags(st) THEN <<DeferClockOp(0, 0, 1)>> ELSE <<>>
           one == IF reg.outlen = NoOut THEN 0 ELSE 1
<1>1. PICK f : /\ Gathered(f, reg, exit, n, Len(reg.in))
               /\ ShiftCalls(reg, exit) = <<first>> \o f[Len(reg.in)] \o last1
  BY ShiftCallsAre
<1> DEFINE bits == f[Len(reg.in)]
<1>2. first \in DeferOps
  <2>1. SubSeq(reg.in, 1, n) \in Seq(Bit)
    <3>1. n \in 0 .. Len(reg.in) /\ reg.in \in Seq(Bit) /\ Len(reg.in) \in Nat
      BY TransferredBound, LenProperties DEF Registers
    <3> HIDE DEF n
    <3>2. \A i \in 1 .. n : reg.in[i] \in Bit
      BY <3>1, ElementOfSeq
    <3> QED
      BY <3>1, <3>2, SubSeqProperties
  <2>2. (reg.outlen # NoOut) \in BOOLEAN
    OBVIOUS
  <2> QED
    BY <2>1, <2>2 DEF TransferCall, DeferOp, DeferOps, Acts
<1>3. Keeps(m, first, m + one)
  <2>1. first.op = "defer" /\ Asks(first.act) = one
    BY DEF TransferCall, DeferOp, Asks
  <2>2. one \in Nat
    OBVIOUS
  <2> HIDE DEF first, one
  <2> QED
    BY <2>1, <2>2 DEF Keeps
<1>4. in \in Seq(DeferClockOps) /\ last1 \in Seq(DeferClockOps)
  <2>1. \A t \in Bit : DeferClockOp(t, 0, 1) \in DeferClockOps
    BY DEF DeferClockOp, DeferClockOps, Bit
  <2>2. DeferClockOp(0, 0, 1) \in DeferClockOps /\ DeferClockOp(1, 0, 1) \in DeferClockOps
    BY <2>1 DEF Bit
  <2> DEFINE a == DeferClockOp(0, 0, 1)
             b == DeferClockOp(1, 0, 1)
  <2>3. in \in {<<a>>, <<>>} /\ last1 \in {<<b, a>>, <<b>>, <<>>}
    BY DEF LeaveCalls, ExitModes
  <2>4. a \in DeferClockOps /\ b \in DeferClockOps
    BY <2>2
  <2> HIDE DEF a, b, in, last1
  <2>5. /\ <<a>> \in Seq(DeferClockOps) /\ <<b>> \in Seq(DeferClockOps)
        /\ <<b, a>> \in Seq(DeferClockOps) /\ <<>> \in Seq(DeferClockOps)
    BY <2>4
  <2> QED
    BY <2>3, <2>5
<1>5. DeferClockOps \subseteq Ops \ (DeferOps \cup DeferShiftOps) /\ DeferClockOps \subseteq Ops
  BY OpsInOps DEF DeferClockOps, DeferOps, DeferShiftOps
<1> HIDE DEF first, last1, in
<1>6. /\ in \in Seq(Ops \ (DeferOps \cup DeferShiftOps)) /\ in \in Seq(Ops)
      /\ last1 \in Seq(Ops \ (DeferOps \cup DeferShiftOps)) /\ last1 \in Seq(Ops)
  BY <1>4, <1>5, SeqMonotonic
<1>7. first \in Ops /\ one \in Nat
  BY <1>2, OpsInOps
<1> DEFINE c == m + one
           d == m + Fetches(reg, exit)
<1>8. c \in Nat /\ d \in Nat
  BY <1>7, TransferredUpto
<1>9. bits \in Seq(Ops) /\ Fits(c, bits, d)
  <2>1. bits \in Seq(Ops)
        /\ Fits(c, bits, IF reg.outlen = NoOut THEN c ELSE c + (Upto(reg) - n))
    BY <1>1, <1>8, BitsFit
  <2>2. d = IF reg.outlen = NoOut THEN c ELSE c + (Upto(reg) - n)
    <3>1. n \in Nat /\ Upto(reg) \in Nat
      BY TransferredBound, TransferredUpto
    <3> HIDE DEF n
    <3> QED
      BY <3>1 DEF Fetches, n
  <2> HIDE DEF bits, c, d
  <2> QED
    BY <2>1, <2>2
<1> HIDE DEF bits, c, d, one, n
<1>10. <<first>> \in Seq(Ops) /\ Fits(m, <<first>>, c)
  BY <1>3, <1>7, <1>8, FitsOne DEF c
<1>11. Fits(m, in, m) /\ Fits(d, last1, d)
  BY <1>6, <1>8, QuietFits
<1> DEFINE s1 == <<first>> \o bits
           s2 == s1 \o last1
<1>12. s1 \in Seq(Ops) /\ Fits(m, s1, d)
  BY <1>8, <1>9, <1>10, FitsConcat, ConcatProperties
<1> HIDE DEF s1
<1>13. s2 \in Seq(Ops) /\ Fits(m, s2, d)
  BY <1>6, <1>8, <1>11, <1>12, FitsConcat, ConcatProperties
<1> HIDE DEF s2
<1>14. in \o s2 \in Seq(Ops) /\ Fits(m, in \o s2, d)
  BY <1>6, <1>8, <1>11, <1>13, FitsConcat, ConcatProperties
<1>15. FullShift(st, reg, exit) = in \o s2
  BY <1>1 DEF FullShift, in, s2, s1, bits, first, last1, n
<1> QED
  BY <1>14, <1>15 DEF d

(* The output of a register takes the results its shift left. *)
LEMMA OutputFits ==
    ASSUME NEW reg \in Registers, NEW exit \in ExitModes, NEW k \in Nat
    PROVE  Fits(Fetches(reg, exit), OutputCalls(reg, k, exit), 0)
<1>1. CASE reg.outlen = NoOut
  BY <1>1, FitsEmpty DEF Fetches, OutputCalls
<1>2. CASE reg.outlen # NoOut
  <2> DEFINE n == Transferred(reg, exit)
             upto == IF Len(reg.in) < reg.outlen THEN Len(reg.in) ELSE reg.outlen
             g == upto - n
             gets == [i \in 1 .. g |-> [op |-> "get_tdo_late", reg |-> k, at |-> n + i]]
             first == [op |-> "transfer_late", reg |-> k]
  <2>1. g \in Nat /\ n \in Nat /\ Fetches(reg, exit) = 1 + g
    BY <1>2, TransferredBound, TransferredUpto DEF Upto, Fetches
  <2>2. OutputCalls(reg, k, exit) = <<first>> \o gets
    BY <1>2 DEF OutputCalls
  <2>3. first \in Ops /\ first.op = "transfer_late"
    BY OpsInOps DEF LateOps
  <2> HIDE DEF n, upto, g
  <2>4. \A i \in 1 .. g : gets[i] \in LateOps /\ gets[i].op = "get_tdo_late"
    BY <2>1 DEF LateOps
  <2>5. gets \in [1 .. g -> LateOps]
    BY <2>4
  <2>6. gets \in Seq(Ops) /\ Len(gets) = g
    <3> HIDE DEF gets
    <3>1. gets \in Seq(LateOps) /\ Len(gets) = g
      BY <2>1, <2>5
    <3> QED
      BY <3>1, OpsInOps, SeqMonotonic
  <2> HIDE DEF gets, first
  <2>7. Keeps(1 + g, first, g)
    BY <2>1, <2>3 DEF Keeps
  <2>8. Fits(1 + g, <<first>>, g) /\ <<first>> \in Seq(Ops)
    <3>1. 1 + g \in Nat
      BY <2>1
    <3> QED
      BY <2>1, <2>3, <2>7, <3>1, FitsOne
  <2>9. Fits(g, gets, 0)
    <3> DEFINE f == [i \in 0 .. g |-> g - i]
    <3>1. f \in [0 .. g -> Nat] /\ g <= f[0] /\ f[g] <= 0
      BY <2>1
    <3>2. ASSUME NEW i \in 1 .. g PROVE Keeps(f[i - 1], gets[i], f[i])
      <4>1. f[i - 1] = f[i] + 1 /\ f[i] \in Nat
        BY <2>1
      <4>2. gets[i].op = "get_tdo_late"
        BY <2>4
      <4> HIDE DEF f
      <4> QED
        BY <4>1, <4>2 DEF Keeps
    <3> HIDE DEF f
    <3> QED
      BY <2>6, <3>1, <3>2 DEF Fits
  <2>10. Fits(1 + g, <<first>> \o gets, 0)
    <3>1. 1 + g \in Nat
      BY <2>1
    <3> QED
      BY <2>1, <2>6, <2>8, <2>9, <3>1, FitsConcat
  <2> QED
    BY <2>1, <2>2, <2>10
<1> QED
  BY <1>1, <1>2

(* An exchange fetches what its shifts left, of one register after another. *)
LEMMA RegistersFit ==
    ASSUME NEW x \in Shifts, NEW f, Fetched(f, x, Len(x.regs))
    PROVE  \E t \in Nat : Fits(0, AllShifts(x), t) /\ Fits(t, f[Len(x.regs)], 0)
<1> DEFINE n == Len(x.regs)
           all == AllShifts(x)
           op(k) == OutputCalls(x.regs[k], k, ExitOf(x, k))
           H(k) == Fetches(x.regs[k], ExitOf(x, k))
           P(k) == /\ f[k] \in Seq(Ops)
                   /\ \E t \in Nat : Fits(0, SubSeq(all, 1, k), t) /\ Fits(t, f[k], 0)
           S == {k \in Nat : k <= n => P(k)}
<1>1. n \in Nat \ {0} /\ DOMAIN x.regs = 1 .. n
  BY RegistersOfShift
<1>2. ASSUME NEW k \in 1 .. n
      PROVE  /\ op(k) \in Seq(Ops)
             /\ Fits(H(k), op(k), 0)
             /\ H(k) \in Nat
  <2>1. x.regs[k] \in Registers /\ k \in Nat
    BY <1>1, RegistersOfShift
  <2>2. ExitOf(x, k) \in ExitModes
    BY RegistersOfShift DEF ExitOf, ExitModes
  <2>3. op(k) \in Seq(LateOps) /\ LateOps \subseteq Ops
    BY <2>1, <2>2, OutputCallsAreLate, OpsInOps
  <2> HIDE DEF op
  <2>4. op(k) \in Seq(Ops)
    BY <2>3, SeqMonotonic
  <2>5. Fits(H(k), op(k), 0) /\ H(k) \in Nat
    BY <2>1, <2>2, OutputFits, TransferredUpto DEF op
  <2> QED
    BY <2>4, <2>5
<1>3. all \in Seq(Ops) /\ Len(all) = n
  <2>1. all \in Seq(DeferShiftOps) /\ DeferShiftOps \subseteq Ops
    <3>1. "SHIFT_DR" \in ReadyToShift("DR")
      BY DEF ReadyToShift
    <3> QED
      BY <3>1, AllShiftsLead, OpsInOps
  <2>2. DOMAIN all = 1 .. n
    BY <1>1 DEF AllShifts
  <2> HIDE DEF all
  <2> QED
    BY <1>1, <2>1, <2>2, LenProperties, SeqMonotonic
<1>4. ASSUME NEW k \in 1 .. n, NEW c \in Nat PROVE Keeps(c, all[k], c + H(k))
  <2> DEFINE o == [op |-> "defer_shift", reg |-> x.regs[k], exit |-> ExitOf(x, k)]
  <2>1. all[k] = o
    BY <1>1 DEF AllShifts
  <2>2. o.op = "defer_shift" /\ Fetches(o.reg, o.exit) = H(k)
    OBVIOUS
  <2>3. H(k) \in Nat
    BY <1>2
  <2> HIDE DEF o, H, all
  <2> QED
    BY <2>1, <2>2, <2>3 DEF Keeps
<1>5. f = [k \in 0 .. n |-> IF k = 0 THEN <<>> ELSE f[k - 1] \o op(k)]
  BY DEF Fetched
<1> HIDE DEF n, all, op, H
<1>6. 0 \in S
  <2>1. f[0] = <<>> /\ SubSeq(all, 1, 0) = <<>>
    BY <1>1, <1>3, <1>5, SubSeqEmpty
  <2>2. Fits(0, <<>>, 0) /\ <<>> \in Seq(Ops)
    BY FitsEmpty
  <2> QED
    BY <2>1, <2>2
<1>7. ASSUME NEW k \in Nat, k \in S PROVE k + 1 \in S
  <2> DEFINE i == k + 1
  <2> SUFFICES ASSUME i <= n PROVE P(i)
    OBVIOUS
  <2>1. i \in 1 .. n /\ i \in 0 .. n /\ i # 0 /\ i - 1 = k /\ k <= n /\ k \in 0 .. n
    BY <1>1
  <2>2. P(k)
    BY <1>7, <2>1
  <2>3. PICK t \in Nat : Fits(0, SubSeq(all, 1, k), t) /\ Fits(t, f[k], 0)
    BY <2>2
  <2>4. f[i] = f[k] \o op(i)
    BY <1>5, <2>1
  <2>5. SubSeq(all, 1, i) = SubSeq(all, 1, k) \o <<all[i]>>
    <3>1. 1 \in 1 .. Len(all) /\ i \in 1 .. Len(all)
      BY <1>1, <1>3, <2>1
    <3>2. SubSeq(all, 1, i) = SubSeq(all, 1, i - 1) \o <<all[i]>>
      BY <1>3, <3>1, SubSeqRecursiveSecond
    <3> QED
      BY <2>1, <3>2
  <2>6. SubSeq(all, 1, k) \in Seq(Ops) /\ all[i] \in Ops
    <3>1. all[i] \in Ops /\ \A j \in 1 .. k : all[j] \in Ops
      BY <1>1, <1>3, <2>1, ElementOfSeq
    <3> QED
      BY <2>1, <3>1, SubSeqProperties
  <2> DEFINE s == SubSeq(all, 1, k)
             o == <<all[i]>>
             u == t + H(i)
  <2>7. u \in Nat /\ H(i) \in Nat
    BY <1>2, <2>1
  <2>8. o \in Seq(Ops) /\ Fits(t, o, u)
    <3>1. Keeps(t, all[i], u)
      BY <1>4, <2>1
    <3>2. Fits(t, <<all[i]>>, u)
      BY <2>7, <3>1, FitsOne
    <3> QED
      BY <2>6, <3>2
  <2> HIDE DEF s, o
  <2>9. s \in Seq(Ops) /\ Fits(0, s, t)
    BY <2>3, <2>6 DEF s
  <2>10. Fits(0, s \o o, u)
    BY <2>7, <2>8, <2>9, FitsConcat
  <2>11. Fits(u, f[k], H(i))
    <3>1. Fits(t + H(i), f[k], 0 + H(i))
      BY <2>2, <2>3, <2>7, FitsMore
    <3>2. 0 + H(i) = H(i)
      BY <2>7
    <3> QED
      BY <3>1, <3>2
  <2>12. op(i) \in Seq(Ops) /\ Fits(H(i), op(i), 0)
    BY <1>2, <2>1
  <2>13. f[k] \in Seq(Ops)
    BY <2>2
  <2> HIDE DEF u
  <2>14. Fits(u, f[k] \o op(i), 0) /\ f[k] \o op(i) \in Seq(Ops)
    BY <2>7, <2>11, <2>12, <2>13, FitsConcat, ConcatProperties
  <2> QED
    BY <2>4, <2>5, <2>7, <2>10, <2>14 DEF s, o
<1>8. n \in S
  <2> HIDE DEF S
  <2> QED
    BY <1>1, <1>6, <1>7, SetInduction
<1>9. SubSeq(all, 1, n) = all
  BY <1>3, SubSeqFull
<1>10. P(n)
  <2> HIDE DEF P
  <2>1. n <= n
    BY <1>1
  <2> QED
    BY <1>8, <2>1
<1>11. PICK t \in Nat : Fits(0, SubSeq(all, 1, n), t) /\ Fits(t, f[n], 0)
  BY <1>10
<1>12. Fits(0, all, t) /\ Fits(t, f[n], 0)
  BY <1>9, <1>11
<1> QED
  BY <1>12 DEF n, all

(* Clocks, signals and resets ask for no results. *)
LEMMA FreeFits ==
    ASSUME NEW s \in Seq(FreeOps)
    PROVE  s \in Seq(Ops) /\ Fits(0, s, 0)
<1>1. FreeOps \subseteq Ops \ (DeferOps \cup DeferShiftOps) /\ FreeOps \subseteq Ops
  BY FreeOpsInOps
     DEF FreeOps, ClockOps, DeferClockOps, SetSignalOps, StateResetOps, DeferOps, DeferShiftOps
<1>2. s \in Seq(Ops \ (DeferOps \cup DeferShiftOps)) /\ s \in Seq(Ops)
  BY <1>1, SeqMonotonic
<1> QED
  BY <1>2, QuietFits

(* The whole exchange. *)
LEMMA ExchangeFits ==
    ASSUME NEW x \in Shifts
    PROVE  ExchangeCalls(x) \in Seq(Ops) /\ Fits(0, ExchangeCalls(x), 0)
<1> DEFINE n == Len(x.regs)
           g == CHOOSE f : Fetched(f, x, n)
           in == IF x.capture THEN CaptureCalls(x.path) ELSE <<>>
           all == AllShifts(x)
           late == g[n]
<1>1. n \in Nat
  BY RegistersOfShift
<1>2. Fetched(g, x, n)
  BY <1>1, FetchedExists
<1>3. ExchangeCalls(x) = in \o all \o late
  BY DEF ExchangeCalls, AllShifts, Fetched
<1>4. late \in Seq(LateOps) /\ \E t \in Nat : Fits(0, all, t) /\ Fits(t, late, 0)
  <2> HIDE DEF g
  <2> QED
    BY <1>2, FetchedAreLate, RegistersFit
<1>5. in \in Seq(DeferClockOps)
  <2>1. x.capture => CaptureCalls(x.path) \in Seq(DeferClockOps)
    BY CaptureCallsLead, ChainAssumption
  <2> QED
    BY <2>1
<1>6. all \in Seq(DeferShiftOps)
  <2>1. "SHIFT_DR" \in ReadyToShift("DR")
    BY DEF ReadyToShift
  <2> QED
    BY <2>1, AllShiftsLead
<1> HIDE DEF in, all, late
<1>7. DeferClockOps \subseteq Ops \ (DeferOps \cup DeferShiftOps) /\ DeferClockOps \subseteq Ops
  BY OpsInOps DEF DeferClockOps, DeferOps, DeferShiftOps
<1>8. /\ in \in Seq(Ops \ (DeferOps \cup DeferShiftOps)) /\ in \in Seq(Ops)
      /\ all \in Seq(Ops) /\ late \in Seq(Ops)
  BY <1>4, <1>5, <1>6, <1>7, OpsInOps, SeqMonotonic
<1>9. PICK t \in Nat : Fits(0, all, t) /\ Fits(t, late, 0)
  BY <1>4
<1>10. Fits(0, in, 0)
  BY <1>8, QuietFits
<1>11. in \o all \in Seq(Ops) /\ Fits(0, in \o all, t)
  BY <1>8, <1>9, <1>10, FitsConcat, ConcatProperties
<1>12. in \o all \o late \in Seq(Ops) /\ Fits(0, in \o all \o late, 0)
  BY <1>8, <1>9, <1>11, FitsConcat, ConcatProperties
<1> QED
  BY <1>3, <1>12

(* The bypass instructions are shifted without taking any output. *)
LEMMA BypassFits == BypassCalls \in Seq(Ops) /\ Fits(0, BypassCalls, 0)
<1> DEFINE ones == [in |-> [i \in 1 .. Cells |-> 1], outlen |-> NoOut]
           shift == [op |-> "defer_shift", reg |-> ones, exit |-> "IDLE"]
           cap == CaptureCalls("IR")
<1>1. BypassCalls = ResetCalls \o cap \o <<shift>>
  BY DEF BypassCalls
<1>2. shift \in Ops
  <2> DEFINE bits == [i \in 1 .. Cells |-> 1]
  <2>2. bits \in [1 .. Cells -> Bit] /\ Cells \in Nat \ {0}
    BY CellsAssumption DEF Bit
  <2> HIDE DEF bits
  <2>3. bits \in Seq(Bit) /\ Len(bits) = Cells
    BY <2>2
  <2>4. bits # <<>>
    BY <2>2, <2>3, EmptySeq
  <2>5. ones \in Registers
    BY <2>3, <2>4 DEF Registers, NoOut, bits
  <2>6. shift \in DeferShiftOps
    BY <2>5 DEF DeferShiftOps, ExitModes
  <2> QED
    BY <2>6, OpsInOps
<1>3. Keeps(0, shift, 0)
  BY DEF Keeps, Fetches
<1>4. Fits(0, <<shift>>, 0) /\ <<shift>> \in Seq(Ops)
  <2> HIDE DEF shift
  <2>1. 0 \in Nat
    OBVIOUS
  <2>2. Fits(0, <<shift>>, 0)
    BY <1>3, <2>1, FitsOne
  <2> QED
    BY <1>2, <2>2
<1>5. cap \in Seq(FreeOps) /\ ResetCalls \in Seq(FreeOps)
  <2>1. DeferClockOps \subseteq FreeOps
    BY DEF FreeOps
  <2> QED
    BY <2>1, CaptureCallsLead, ResetCallsFollow, SeqMonotonic
<1> HIDE DEF cap, shift
<1>6. /\ cap \in Seq(Ops) /\ ResetCalls \in Seq(Ops)
      /\ Fits(0, cap, 0) /\ Fits(0, ResetCalls, 0)
  BY <1>5, FreeFits
<1>7. ResetCalls \o cap \in Seq(Ops) /\ Fits(0, ResetCalls \o cap, 0)
  BY <1>6, FitsConcat, ConcatProperties
<1> DEFINE start == ResetCalls \o cap
           end == <<shift>>
<1> HIDE DEF start, end
<1>8. start \in Seq(Ops) /\ end \in Seq(Ops) /\ Fits(0, start, 0) /\ Fits(0, end, 0)
  BY <1>4, <1>7 DEF start, end
<1>9. start \o end \in Seq(Ops) /\ Fits(0, start \o end, 0)
  BY <1>8, FitsConcat, ConcatProperties
<1> QED
  BY <1>1, <1>9 DEF start, end

-----------------------------------------------------------------------------
(* The states the comments of tap.c name for a shift without a capture,    *)
(* but for Exit2, from which the first bit is lost.                        *)
ShiftsOnlyWhileShifting ==
    ShiftFrom \subseteq {"CAPTURE_DR", "SHIFT_DR", "CAPTURE_IR", "SHIFT_IR"}

-----------------------------------------------------------------------------
(* The inductive invariant. *)

Types ==
    /\ line \in Lines
    /\ state \in States
    /\ prog \in Seq(Ops)
    /\ lost \in BOOLEAN

HeldStays == HeldInReset(line) => line.tap = "TEST_LOGIC_RESET"

(* The calls left take the tracked state to where the operation ends, and  *)
(* transfer only in the states that shift.                                 *)
Goal ==
    IF last.op = "exchange" THEN {Destination(last.path)[last.x.exit]} ELSE States

CallsLead == Follows(prog) /\ Path({state}, prog, Goal)

(* The tracked state was reset, the controllers not yet. *)
Pending ==
    /\ prog # <<>>
    /\ Head(prog) = ClockOp(1, 0, 5)
    /\ state = "TEST_LOGIC_RESET"

Tracked ==
    line.wired /\ "TRST" \in line.high /\ ~lost
        => state \in {Unknown, line.tap} \/ Pending

ExchangeTracked ==
    last.op = "exchange" =>
        /\ prog \in Seq(ExchangeOps)
        /\ last.tracked /\ ~lost => state = line.tap /\ ~HeldInReset(line)

(* How far a reset is. *)
ResetUnderWay ==
    last.op = "reset" =>
        \/ prog \in {TrstResetCalls, Tail(TrstResetCalls), ResetCalls}
        \/ prog = Tail(ResetCalls) /\ state = "TEST_LOGIC_RESET"
        \/ /\ prog = Tail(Tail(ResetCalls))
           /\ state = "TEST_LOGIC_RESET"
           /\ line.tap = "TEST_LOGIC_RESET"
        \/ /\ prog = <<>>
           /\ state = "RUN_TEST_IDLE"
           /\ HeldInReset(line) \/ line.tap = "RUN_TEST_IDLE"

ChainInv ==
    /\ Types
    /\ HeldStays
    /\ CallsLead
    /\ Tracked
    /\ ExchangeTracked
    /\ ResetUnderWay

-----------------------------------------------------------------------------
(* The cable's calls, seen from the chain. *)

(* The cable of the chain carries out activities as `Activity' has them. *)
LEMMA SameEffect ==
    ASSUME NEW act, NEW l
    PROVE  C!Effect(act, l) = Effect(act, l)
  BY DEF C!Effect, Effect, C!DriverClock, DriverClock, C!DriverTransfer, DriverTransfer,
         C!DriverSetSignal, DriverSetSignal, C!Pulse, Pulse, C!HeldInReset, HeldInReset,
         C!IeeeNext, IeeeNext, C!Ieee, Ieee, C!Tdo, Tdo, C!ShiftStates, ShiftStates

(* The calls of a reset, one by one. *)
LEMMA ResetShape ==
    /\ TrstResetCalls # <<>> /\ Head(TrstResetCalls).op = "set_signal"
    /\ Tail(TrstResetCalls) # <<>> /\ Head(Tail(TrstResetCalls)).op = "set_signal"
    /\ Tail(Tail(TrstResetCalls)) = ResetCalls
    /\ ResetCalls # <<>> /\ Head(ResetCalls).op = "state_reset"
    /\ Tail(ResetCalls) # <<>> /\ Head(Tail(ResetCalls)) = ClockOp(1, 0, 5)
    /\ Tail(Tail(ResetCalls)) # <<>> /\ Head(Tail(Tail(ResetCalls))) = ClockOp(0, 0, 1)
    /\ Tail(Tail(Tail(ResetCalls))) = <<>>
<1> DEFINE a == [op |-> "state_reset"]
           b == ClockOp(1, 0, 5)
           c == ClockOp(0, 0, 1)
           low == SetSignalOp({"TRST"}, {})
           high == SetSignalOp({"TRST"}, {"TRST"})
<1>1. a.op = "state_reset" /\ low.op = "set_signal" /\ high.op = "set_signal"
  BY DEF SetSignalOp
<1>2. ResetCalls = <<a, b, c>>
  BY DEF ResetCalls
<1>3. TrstResetCalls = <<low, high>> \o ResetCalls
  BY DEF TrstResetCalls
<1> HIDE DEF a, b, c, low, high
<1>4. TrstResetCalls = <<low, high, a, b, c>>
  <2> DEFINE S == {a, b, c, low, high}
             s == <<low, high>>
             t == <<a, b, c>>
             u == <<low, high, a, b, c>>
  <2>1. /\ s \in Seq(S) /\ Len(s) = 2 /\ s[1] = low /\ s[2] = high
        /\ t \in Seq(S) /\ Len(t) = 3 /\ t[1] = a /\ t[2] = b /\ t[3] = c
    OBVIOUS
  <2>2. /\ u \in Seq(S) /\ Len(u) = 5
        /\ u[1] = low /\ u[2] = high /\ u[3] = a /\ u[4] = b /\ u[5] = c
    OBVIOUS
  <2> HIDE DEF S, s, t, u
  <2>3. /\ s \o t \in Seq(S) /\ Len(s \o t) = 5
        /\ (s \o t)[1] = s[1] /\ (s \o t)[2] = s[2]
        /\ (s \o t)[3] = t[1] /\ (s \o t)[4] = t[2] /\ (s \o t)[5] = t[3]
    <3>1. /\ s \o t \in Seq(S) /\ Len(s \o t) = 5
          /\ \A i \in 1 .. 5 : (s \o t)[i] = IF i <= 2 THEN s[i] ELSE t[i - 2]
      <4>1. s \in Seq(S) /\ t \in Seq(S) /\ Len(s) = 2 /\ Len(t) = 3
        BY <2>1
      <4>2. /\ s \o t \in Seq(S) /\ Len(s \o t) = Len(s) + Len(t)
            /\ \A i \in 1 .. Len(s) + Len(t) :
                    (s \o t)[i] = IF i <= Len(s) THEN s[i] ELSE t[i - Len(s)]
        BY <4>1, ConcatProperties
      <4>3. Len(s) + Len(t) = 5
        BY <4>1
      <4> QED
        BY <4>1, <4>2, <4>3
    <3> DEFINE st == s \o t
    <3> HIDE DEF st
    <3>2. \A i \in 1 .. 5 : st[i] = IF i <= 2 THEN s[i] ELSE t[i - 2]
      BY <3>1 DEF st
    <3>3. /\ st[1] = s[1] /\ st[2] = s[2]
          /\ st[3] = t[1] /\ st[4] = t[2] /\ st[5] = t[3]
      BY <3>2
    <3> QED
      BY <3>1, <3>3 DEF st
  <2>4. \A i \in 1 .. 5 : (s \o t)[i] = u[i]
    BY <2>1, <2>2, <2>3
  <2>5. s \o t = u
    BY <2>2, <2>3, <2>4, SeqEqual
  <2> QED
    BY <1>2, <1>3, <2>5 DEF s, t, u
<1>5. /\ Head(<<a, b, c>>) = a /\ Tail(<<a, b, c>>) = <<b, c>>
      /\ Head(<<b, c>>) = b /\ Tail(<<b, c>>) = <<c>>
      /\ Head(<<c>>) = c /\ Tail(<<c>>) = <<>>
  OBVIOUS
<1>6. /\ Head(<<low, high, a, b, c>>) = low
      /\ Tail(<<low, high, a, b, c>>) = <<high, a, b, c>>
      /\ Head(<<high, a, b, c>>) = high
      /\ Tail(<<high, a, b, c>>) = <<a, b, c>>
  OBVIOUS
<1>7. /\ <<low, high, a, b, c>> # <<>> /\ <<high, a, b, c>> # <<>>
      /\ <<a, b, c>> # <<>> /\ <<b, c>> # <<>> /\ <<c>> # <<>>
  OBVIOUS
<1>8. b = ClockOp(1, 0, 5) /\ c = ClockOp(0, 0, 1)
  BY DEF b, c
<1> QED
  BY <1>1, <1>2, <1>4, <1>5, <1>6, <1>7, <1>8

(* Which calls the name of a call tells. *)
LEMMA OpByName ==
    ASSUME NEW op \in Ops
    PROVE  /\ op.op = "clock" => op \in ClockOps
           /\ op.op = "defer_clock" => op \in DeferClockOps
           /\ op.op = "defer" => op \in DeferOps
           /\ op.op = "defer_shift" => op \in DeferShiftOps
           /\ op.op = "set_signal" => op \in SetSignalOps
  BY DEF Ops, ExchangeOps, ShiftOps, ClockOps, DeferClockOps, DeferOps, DeferShiftOps,
         LateOps, SetSignalOps, StateResetOps

(* A call of an exchange is no immediate clock, no signal and no reset. *)
LEMMA NotInExchange ==
    ASSUME NEW op \in ExchangeOps
    PROVE  op.op \notin {"clock", "set_signal", "state_reset"}
  BY DEF ExchangeOps, ShiftOps, DeferClockOps, DeferOps, DeferShiftOps, LateOps

(* A call done leaves the rest of them. *)
LEMMA CallDone ==
    ASSUME Types, CallsLead, prog # <<>>, prog' = Tail(prog), last' = last,
           state' \in States,
           \A A : Leads({state}, Head(prog), A) => state' \in A
    PROVE  prog' \in Seq(Ops) /\ CallsLead'
<1>1. prog \in Seq(Ops) /\ state \in States
  BY DEF Types
<1>2. PICK A \in SUBSET States :
        Leads({state}, Head(prog), A) /\ Path(A, Tail(prog), Goal)
  BY <1>1, PathTail DEF CallsLead
<1>3. Path({state'}, Tail(prog), Goal)
  BY <1>2, PathFrom
<1>4. Follows(Tail(prog))
  BY <1>1, FollowsTail DEF CallsLead
<1>5. Goal' = Goal
  BY DEF Goal
<1>6. Tail(prog) \in Seq(Ops)
  BY <1>1, HeadTailProperties
<1> QED
  BY <1>3, <1>4, <1>5, <1>6 DEF CallsLead

(* The calls left of an exchange are calls of an exchange. *)
LEMMA ExchangeCallDone ==
    ASSUME ExchangeTracked, last.op = "exchange", prog # <<>>
    PROVE  Head(prog) \in ExchangeOps /\ Tail(prog) \in Seq(ExchangeOps)
  BY HeadTailProperties DEF ExchangeTracked

(* A reset consists of clocks, signals and the setting of the state. *)
LEMMA ResetCallIs ==
    ASSUME ResetUnderWay, last.op = "reset", prog # <<>>
    PROVE  Head(prog).op \in {"set_signal", "state_reset", "clock"}
<1>1. ClockOp(1, 0, 5).op = "clock" /\ ClockOp(0, 0, 1).op = "clock"
  BY DEF ClockOp
<1> QED
  BY <1>1, ResetShape DEF ResetUnderWay

-----------------------------------------------------------------------------
(* The invariant holds at the start ... *)
LEMMA InvInit == Init => ChainInv
<1> SUFFICES ASSUME Init PROVE ChainInv
  OBVIOUS
<1>1. Types
  <2>1. line \in Lines /\ state = Unknown /\ prog = <<>> /\ lost = FALSE
    BY DEF Init
  <2>2. <<>> \in Seq(Ops)
    OBVIOUS
  <2> QED
    BY <2>1, <2>2 DEF Types, States
<1>2. HeldStays
  BY DEF Init, HeldStays
<1>3. CallsLead
  <2>1. Follows(<<>>)
    BY DEF Follows
  <2>2. Path({state}, <<>>, States)
    BY <1>1, PathEmpty DEF Types
  <2>3. prog = <<>> /\ Goal = States
    BY DEF Init, Goal
  <2> QED
    BY <2>1, <2>2, <2>3 DEF CallsLead
<1>4. Tracked
  BY DEF Init, Tracked
<1>5. ExchangeTracked /\ ResetUnderWay
  BY DEF Init, ExchangeTracked, ResetUnderWay
<1> QED
  BY <1>1, <1>2, <1>3, <1>4, <1>5 DEF ChainInv

(* ... when an operation begins ... *)
LEMMA InvStart ==
    ASSUME ChainInv, prog = <<>>, UNCHANGED <<line, state, lost>>,
           prog' \in Seq(Ops), CallsLead', last'.op # "exchange",
           last'.op = "reset" => prog' \in {ResetCalls, TrstResetCalls}
    PROVE  ChainInv'
<1>1. Types'
  BY DEF ChainInv, Types
<1>2. HeldStays'
  BY DEF ChainInv, HeldStays, HeldInReset
<1>3. Tracked'
  BY DEF ChainInv, Tracked, Pending
<1>4. ExchangeTracked' /\ ResetUnderWay'
  BY DEF ExchangeTracked, ResetUnderWay
<1> QED
  BY <1>1, <1>2, <1>3, <1>4 DEF ChainInv

(* Calls that lead from anywhere to anywhere. *)
LEMMA InvStartFree ==
    ASSUME ChainInv, NEW op, op \notin {"exchange", "reset"}, Start(op),
           prog' \in Seq(Ops), Follows(prog'), Path(States, prog', States)
    PROVE  ChainInv'
<1>1. prog = <<>> /\ UNCHANGED <<line, state, lost>> /\ last'.op = op
  BY DEF Start
<1>2. state \in States
  BY DEF ChainInv, Types
<1>3. Path({state'}, prog', States)
  BY <1>1, <1>2, PathFrom
<1>4. Goal' = States
  BY <1>1 DEF Goal
<1>5. CallsLead'
  BY <1>3, <1>4 DEF CallsLead
<1> QED
  BY <1>1, <1>5, InvStart

(* Calls that need no known state may begin everywhere. *)
LEMMA FreeCalls ==
    ASSUME NEW s \in Seq(FreeOps \ StateResetOps)
    PROVE  s \in Seq(Ops) /\ Follows(s) /\ Path(States, s, States)
<1>1. FreeOps \ StateResetOps \subseteq Ops \ StateResetOps
      /\ FreeOps \ StateResetOps \subseteq FreeOps
      /\ Ops \ StateResetOps \subseteq Ops
  BY FreeOpsInOps
<1>2. s \in Seq(Ops \ StateResetOps) /\ s \in Seq(FreeOps)
  BY <1>1, SeqMonotonic
<1>3. s \in Seq(Ops)
  BY <1>1, <1>2, SeqMonotonic
<1> QED
  BY <1>2, <1>3, FreePath, FollowsQuiet

(* Clocks and signals are such calls. *)
LEMMA FreeNotReset ==
    /\ ClockOps \subseteq FreeOps \ StateResetOps
    /\ DeferClockOps \subseteq FreeOps \ StateResetOps
    /\ SetSignalOps \subseteq FreeOps \ StateResetOps
  BY DEF FreeOps, ClockOps, DeferClockOps, SetSignalOps, StateResetOps

(* urj_tap_reset and urj_tap_trst_reset. *)
LEMMA InvReset ==
    ASSUME ChainInv, Start("reset"), prog' \in {ResetCalls, TrstResetCalls}
    PROVE  ChainInv'
<1>1. prog = <<>> /\ UNCHANGED <<line, state, lost>> /\ last'.op = "reset"
  BY DEF Start
<1>2. prog' \in Seq(FreeOps) /\ Follows(prog')
  BY ResetCallsFollow
<1>3. prog' \in Seq(Ops) /\ Path(States, prog', States)
  BY <1>2, FreeOpsInOps, FreePath, SeqMonotonic
<1>4. Path({state'}, prog', States)
  BY <1>1, <1>3, PathFrom DEF ChainInv, Types
<1>5. Goal' = States
  BY <1>1 DEF Goal
<1>6. CallsLead'
  BY <1>2, <1>4, <1>5 DEF CallsLead
<1> QED
  BY <1>1, <1>3, <1>6, InvStart

(* A register exchange. *)
LEMMA InvExchange ==
    ASSUME ShiftsOnlyWhileShifting, ChainInv, NEW x \in Shifts, Exchange(x)
    PROVE  ChainInv'
<1> DEFINE path == IF x.capture THEN x.path
                   ELSE IF state \in {"CAPTURE_DR", "SHIFT_DR", "EXIT2_DR"}
                   THEN "DR" ELSE "IR"
<1>1. /\ prog = <<>> /\ UNCHANGED <<line, state, lost>>
      /\ prog' = ExchangeCalls(x)
      /\ last'.op = "exchange" /\ last'.x = x /\ last'.path = path
      /\ last'.tracked = (state = line.tap /\ ~HeldInReset(line))
  BY DEF Exchange
<1>2. path \in {"DR", "IR"}
  BY ChainAssumption
<1>3. IF x.capture
      THEN path = x.path /\ state \in {"RUN_TEST_IDLE", "UPDATE_DR", "UPDATE_IR"}
      ELSE state \in ReadyToShift(path)
  <2>1. CASE x.capture
    BY <2>1 DEF Exchange, ReadyFor
  <2>2. CASE ~x.capture
    <3>1. state \in {"CAPTURE_DR", "SHIFT_DR", "CAPTURE_IR", "SHIFT_IR"}
      BY <2>2 DEF Exchange, ReadyFor, ShiftsOnlyWhileShifting
    <3> QED
      BY <2>2, <3>1 DEF ReadyToShift
  <2> QED
    BY <2>1, <2>2
<1> HIDE DEF path
<1>4. prog' \in Seq(ExchangeOps) /\ Path({state}, prog', {Destination(path)[x.exit]})
  BY <1>1, <1>2, <1>3, ExchangeCallsLead
<1>5. prog' \in Seq(Ops) /\ Follows(prog')
  BY <1>4, OpsInOps, ExchangeOpsQuiet, FollowsQuiet, SeqMonotonic
<1>6. Goal' = {Destination(path)[x.exit]}
  BY <1>1 DEF Goal
<1>7. CallsLead'
  BY <1>1, <1>4, <1>5, <1>6 DEF CallsLead
<1>8. Types'
  BY <1>1, <1>5 DEF ChainInv, Types
<1>9. HeldStays'
  BY <1>1 DEF ChainInv, HeldStays, HeldInReset
<1>10. Tracked'
  BY <1>1 DEF ChainInv, Tracked, Pending
<1>11. ExchangeTracked'
  BY <1>1, <1>4 DEF ExchangeTracked, HeldInReset
<1>12. ResetUnderWay'
  BY <1>1 DEF ResetUnderWay
<1> QED
  BY <1>7, <1>8, <1>9, <1>10, <1>11, <1>12 DEF ChainInv

(* Any operation. *)
LEMMA InvCall ==
    ASSUME ShiftsOnlyWhileShifting, ChainInv, Call
    PROVE  ChainInv'
<1>1. CASE TapReset \/ TrstReset
  BY <1>1, InvReset DEF TapReset, TrstReset
<1>2. CASE ResetBypass
  <2>1. ResetCalls \in Seq(Ops) /\ Follows(ResetCalls) /\ Path(States, ResetCalls, States)
    BY ResetCallsFollow, FreePath, FreeOpsInOps, SeqMonotonic
  <2>2. Start("reset_bypass") /\ prog' \in {BypassCalls, ResetCalls}
    BY <1>2 DEF ResetBypass
  <2> QED
    BY <2>1, <2>2, BypassCallsLead, InvStartFree
<1>3. ASSUME NEW c \in Clocks, ChainClock(c) \/ ChainDeferClock(c)
      PROVE  ChainInv'
  <2>1. c \in [tms : Bit, tdi : Bit, n : Nat]
    BY ChainAssumption
  <2>2. /\ ClockOp(c.tms, c.tdi, c.n) \in ClockOps
        /\ DeferClockOp(c.tms, c.tdi, c.n) \in DeferClockOps
    BY <2>1 DEF ClockOp, DeferClockOp, ClockOps, DeferClockOps
  <2>3. PICK op \in FreeOps \ StateResetOps : prog' = <<op>>
    BY <1>3, <2>2, FreeNotReset DEF ChainClock, ChainDeferClock
  <2>4. prog' \in Seq(FreeOps \ StateResetOps)
    BY <2>3
  <2>5. Start("clock")
    BY <1>3 DEF ChainClock, ChainDeferClock
  <2> QED
    BY <2>4, <2>5, FreeCalls, InvStartFree
<1>4. ASSUME NEW path \in {"DR", "IR"}, Capture(path)
      PROVE  ChainInv'
  <2>1. prog' \in Seq(FreeOps \ StateResetOps)
    BY <1>4, CaptureCallsLead, FreeNotReset, SeqMonotonic DEF Capture
  <2>2. Start("capture")
    BY <1>4 DEF Capture
  <2> QED
    BY <2>1, <2>2, FreeCalls, InvStartFree
<1>5. ASSUME NEW p \in PodSettings, SetPodSignal(p)
      PROVE  ChainInv'
  <2>1. p \in [mask : SUBSET Signals, val : SUBSET Signals]
    BY ChainAssumption
  <2>2. SetSignalOp(p.mask, p.val) \in SetSignalOps
    BY <2>1 DEF SetSignalOp, SetSignalOps
  <2>3. PICK op \in FreeOps \ StateResetOps : prog' = <<op>>
    BY <1>5, <2>2, FreeNotReset DEF SetPodSignal
  <2>4. prog' \in Seq(FreeOps \ StateResetOps)
    BY <2>3
  <2>5. Start("signal")
    BY <1>5 DEF SetPodSignal
  <2> QED
    BY <2>4, <2>5, FreeCalls, InvStartFree
<1>6. ASSUME NEW x \in Shifts, Exchange(x)
      PROVE  ChainInv'
  BY <1>6, InvExchange
<1> QED
  BY <1>1, <1>2, <1>3, <1>4, <1>5, <1>6 DEF Call

(* ... and call by call. *)

(* urj_tap_state_reset: the five clocks are next. *)
LEMMA InvStateReset ==
    ASSUME ChainInv, StateReset
    PROVE  ChainInv'
<1>1. /\ prog # <<>> /\ Head(prog).op = "state_reset"
      /\ state' = "TEST_LOGIC_RESET" /\ lost' = FALSE /\ prog' = Tail(prog)
      /\ line' = line /\ last' = last
  BY DEF StateReset, At
<1>2. state' \in States
  BY <1>1 DEF States, TapStates
<1>3. \A A : Leads({state}, Head(prog), A) => state' \in A
  BY <1>1 DEF Leads
<1>4. prog' \in Seq(Ops) /\ CallsLead'
  BY <1>1, <1>2, <1>3, CallDone DEF ChainInv
<1>5. Types'
  BY <1>1, <1>2, <1>4 DEF ChainInv, Types
<1>6. HeldStays'
  BY <1>1 DEF ChainInv, HeldStays, HeldInReset
<1>7. Tracked'
  <2>1. /\ prog \in Seq(Ops) /\ Len(prog) \in Nat \ {0} /\ Head(prog) = prog[1]
        /\ Len(Tail(prog)) = Len(prog) - 1 /\ Tail(prog) \in Seq(Ops)
        /\ \A i \in 1 .. Len(Tail(prog)) : Tail(prog)[i] = prog[i + 1]
    BY <1>1, EmptySeq, HeadTailProperties DEF ChainInv, Types
  <2>2. 1 \in 1 .. Len(prog) /\ prog[1].op = "state_reset"
    BY <1>1, <2>1
  <2>3. 1 < Len(prog) /\ prog[1 + 1] = ClockOp(1, 0, 5)
    BY <2>2 DEF ChainInv, CallsLead, Follows
  <2>4. 1 \in 1 .. Len(Tail(prog))
    BY <2>1, <2>3
  <2>5. Tail(prog) # <<>> /\ Tail(prog)[1] = ClockOp(1, 0, 5)
    <3>1. Tail(prog)[1] = prog[1 + 1]
      BY <2>1, <2>4
    <3>2. Len(Tail(prog)) # 0
      BY <2>1, <2>3
    <3> QED
      BY <2>3, <3>1, <3>2, EmptySeq
  <2>6. Head(Tail(prog)) = Tail(prog)[1]
    BY <2>1, <2>5
  <2>7. Pending'
    BY <1>1, <2>5, <2>6 DEF Pending
  <2> QED
    BY <2>7 DEF Tracked
<1>8. ExchangeTracked'
  <2>1. last.op # "exchange"
    BY <1>1, ExchangeCallDone, NotInExchange DEF ChainInv
  <2> QED
    BY <1>1, <2>1 DEF ExchangeTracked
<1>9. ResetUnderWay'
  <2> SUFFICES ASSUME last.op = "reset" PROVE ResetUnderWay'
    BY <1>1 DEF ResetUnderWay
  <2>1. ClockOp(1, 0, 5).op = "clock" /\ ClockOp(0, 0, 1).op = "clock"
    BY DEF ClockOp
  <2>2. prog = ResetCalls
    BY <1>1, <2>1, ResetShape DEF ChainInv, ResetUnderWay
  <2> QED
    BY <1>1, <2>2 DEF ResetUnderWay
<1> QED
  BY <1>4, <1>5, <1>6, <1>7, <1>8, <1>9 DEF ChainInv

(* A clock moves both, whether it is deferred or not. *)
LEMMA InvClock ==
    ASSUME ChainInv, prog # <<>>,
           NEW op, op = Head(prog), op.op \in {"clock", "defer_clock"},
           line' = DriverClock(line, op.tms, op.tdi, op.n),
           state' = StateClocks(state, op.tms, op.n),
           prog' = Tail(prog), last' = last, lost' = lost
    PROVE  ChainInv'
<1>1. /\ line \in Lines /\ state \in States /\ prog \in Seq(Ops) /\ lost \in BOOLEAN
      /\ line.tap \in TapStates
  BY DEF ChainInv, Types, Lines
<1>2. op \in Ops
  BY <1>1, HeadTailProperties
<1>3. op.tms \in Bit /\ op.tdi \in Bit /\ op.n \in Nat
  BY <1>2, OpByName DEF ClockOps, DeferClockOps
<1>4. state' \in States
  BY <1>1, <1>3, StateClocksType
<1>5. \A A : Leads({state}, op, A) => state' \in A
  BY DEF Leads
<1>6. prog' \in Seq(Ops) /\ CallsLead'
  BY <1>4, <1>5, CallDone DEF ChainInv
<1>7. /\ line' \in Lines /\ line'.high = line.high /\ line'.wired = line.wired
      /\ ~HeldInReset(line) => line'.tap = StateClocks(line.tap, op.tms, op.n)
      /\ HeldInReset(line) /\ line.tap = "TEST_LOGIC_RESET"
            => line'.tap = "TEST_LOGIC_RESET"
  <2> DEFINE tms == op.tms
             tdi == op.tdi
             n == op.n
             after == DriverClock(line, tms, tdi, n)
  <2>0. tms \in Bit /\ tdi \in Bit /\ n \in Nat
    BY <1>3
  <2>2. line' = after
    OBVIOUS
  <2> HIDE DEF tms, tdi, n
  <2>1. /\ after \in Lines /\ after.high = line.high /\ after.wired = line.wired
        /\ ~HeldInReset(line) => after.tap = StateClocks(line.tap, tms, n)
        /\ HeldInReset(line) /\ line.tap = "TEST_LOGIC_RESET"
              => after.tap = "TEST_LOGIC_RESET"
    BY <1>1, <2>0, ClocksAgree
  <2> HIDE DEF after
  <2> QED
    BY <2>1, <2>2 DEF tms, n
<1>8. HeldInReset(line)' = HeldInReset(line)
  BY <1>7 DEF HeldInReset
<1>9. Types'
  BY <1>1, <1>4, <1>6, <1>7 DEF Types
<1>10. HeldStays'
  BY <1>7, <1>8 DEF ChainInv, HeldStays
<1>11. Tracked'
  <2> SUFFICES ASSUME line.wired, "TRST" \in line.high, ~lost
               PROVE  state' \in {Unknown, line'.tap}
    BY <1>7 DEF Tracked
  <2>1. line'.tap = StateClocks(line.tap, op.tms, op.n)
    BY <1>7 DEF HeldInReset
  <2>2. CASE state = Unknown
    BY <1>3, <2>2, UnknownStays
  <2>3. CASE state = line.tap
    BY <2>1, <2>3
  <2>4. CASE Pending
    <3>1. op = ClockOp(1, 0, 5) /\ state = "TEST_LOGIC_RESET"
      BY <2>4 DEF Pending
    <3>2. op.tms = 1 /\ op.n = 5
      BY <3>1 DEF ClockOp
    <3>3. state \in TapStates
      BY <3>1, MovesAfterReset
    <3>4. StateClocks(state, 1, 5) = StateClocks(line.tap, 1, 5)
      BY <1>1, <3>3, FiveClocks
    <3> QED
      BY <2>1, <3>2, <3>4
  <2> QED
    BY <2>2, <2>3, <2>4 DEF ChainInv, Tracked
<1>12. ExchangeTracked'
  <2> SUFFICES ASSUME last.op = "exchange" PROVE ExchangeTracked'
    BY DEF ExchangeTracked
  <2>1. prog' \in Seq(ExchangeOps)
    BY ExchangeCallDone DEF ChainInv
  <2>2. last.tracked /\ ~lost => state' = line'.tap /\ ~HeldInReset(line)'
    BY <1>7, <1>8 DEF ChainInv, ExchangeTracked
  <2> QED
    BY <2>1, <2>2 DEF ExchangeTracked
<1>13. ResetUnderWay'
  <2> SUFFICES ASSUME last.op = "reset" PROVE ResetUnderWay'
    BY DEF ResetUnderWay
  <2>1. CASE prog = Tail(ResetCalls)
    <3>1. op.tms = 1 /\ op.n = 5
      BY <2>1, ResetShape DEF ClockOp
    <3>2. prog # <<>> /\ Tail(ResetCalls) # Tail(Tail(ResetCalls))
          /\ Tail(ResetCalls) # ResetCalls
      BY <2>1, ResetShape DEF ClockOp
    <3>3. state = "TEST_LOGIC_RESET"
      <4>1. Head(prog) = ClockOp(1, 0, 5) /\ ClockOp(1, 0, 5).op = "clock"
        BY <2>1, ResetShape DEF ClockOp
      <4> QED
        BY <3>2, <4>1, <2>1, ResetShape DEF ChainInv, ResetUnderWay
    <3>4. state' = "TEST_LOGIC_RESET"
      BY <3>1, <3>3, MovesAfterReset, FiveClocks
    <3>5. line'.tap = "TEST_LOGIC_RESET"
      BY <1>1, <1>7, <3>1, FiveClocks DEF ChainInv, HeldStays
    <3> QED
      BY <2>1, <3>4, <3>5 DEF ResetUnderWay
  <2>2. CASE prog = Tail(Tail(ResetCalls)) /\ prog # Tail(ResetCalls)
    <3>1. op = ClockOp(0, 0, 1) /\ op.op = "clock" /\ op.tms = 0 /\ op.n = 1 /\ prog' = <<>>
      <4>1. op = ClockOp(0, 0, 1) /\ prog' = <<>>
        BY <2>2, ResetShape
      <4> QED
        BY <4>1 DEF ClockOp
    <3>2. state = "TEST_LOGIC_RESET" /\ line.tap = "TEST_LOGIC_RESET"
      BY <2>2, <3>1, ResetShape DEF ChainInv, ResetUnderWay
    <3>3. state' = "RUN_TEST_IDLE"
      BY <3>1, <3>2, MovesAfterReset, OneClock
    <3>4. HeldInReset(line)' \/ line'.tap = "RUN_TEST_IDLE"
      BY <1>7, <1>8, <3>1, <3>2, <3>3
    <3> QED
      BY <3>1, <3>3, <3>4 DEF ResetUnderWay
  <2>3. prog \in {Tail(ResetCalls), Tail(Tail(ResetCalls))}
    BY ResetShape DEF ChainInv, ResetUnderWay
  <2> QED
    BY <2>1, <2>2, <2>3
<1> QED
  BY <1>6, <1>9, <1>10, <1>11, <1>12, <1>13 DEF ChainInv

(* A deferred call is not part of a reset. *)
LEMMA DeferredNotReset ==
    ASSUME ChainInv, prog # <<>>, last' = last,
           Head(prog).op \notin {"set_signal", "state_reset", "clock"}
    PROVE  ResetUnderWay'
<1>1. last.op # "reset"
  BY ResetCallIs DEF ChainInv
<1> QED
  BY <1>1 DEF ResetUnderWay

(* A call that neither drives the hardware nor moves the tracked state. *)
LEMMA InvQuiet ==
    ASSUME ChainInv, prog # <<>>,
           Head(prog).op \in {"defer", "transfer_late", "get_tdo_late"},
           line' = line, state' = state, prog' = Tail(prog), last' = last,
           lost' \in {lost, TRUE}
    PROVE  ChainInv'
<1>1. state' \in States
  BY DEF ChainInv, Types
<1>2. \A A : Leads({state}, Head(prog), A) => state' \in A
  BY DEF Leads
<1>3. prog' \in Seq(Ops) /\ CallsLead'
  BY <1>1, <1>2, CallDone DEF ChainInv
<1>4. Types'
  BY <1>1, <1>3 DEF ChainInv, Types
<1>5. HeldStays'
  BY DEF ChainInv, HeldStays, HeldInReset
<1>6. Tracked'
  <2>1. ~Pending
    BY DEF Pending, ClockOp
  <2> QED
    BY <2>1 DEF ChainInv, Tracked
<1>7. ExchangeTracked'
  BY ExchangeCallDone DEF ChainInv, ExchangeTracked, HeldInReset
<1>8. ResetUnderWay'
  BY DeferredNotReset
<1> QED
  BY <1>3, <1>4, <1>5, <1>6, <1>7, <1>8 DEF ChainInv

(* A deferred clock the cable refuses. *)
LEMMA InvClockRefused ==
    ASSUME ChainInv, CableDeferClockFails
    PROVE  ChainInv'
<1>1. /\ prog # <<>> /\ Head(prog).op = "defer_clock"
      /\ state' = StateClocks(state, Head(prog).tms, Head(prog).n)
      /\ line' = line /\ prog' = Tail(prog) /\ last' = last /\ lost' = TRUE
  BY DEF CableDeferClockFails, At, C!Refuse
<1>2. state \in States /\ prog \in Seq(Ops)
  BY DEF ChainInv, Types
<1>3. Head(prog).tms \in Bit /\ Head(prog).n \in Nat
  BY <1>1, <1>2, HeadTailProperties, OpByName DEF DeferClockOps
<1>4. state' \in States
  BY <1>1, <1>2, <1>3, StateClocksType
<1>5. \A A : Leads({state}, Head(prog), A) => state' \in A
  BY <1>1 DEF Leads
<1>6. prog' \in Seq(Ops) /\ CallsLead'
  BY <1>1, <1>4, <1>5, CallDone DEF ChainInv
<1>7. Types'
  BY <1>1, <1>4, <1>6 DEF ChainInv, Types
<1>8. HeldStays'
  BY <1>1 DEF ChainInv, HeldStays, HeldInReset
<1>9. Tracked'
  BY <1>1 DEF Tracked
<1>10. ExchangeTracked'
  BY <1>1, ExchangeCallDone DEF ChainInv, ExchangeTracked
<1>11. ResetUnderWay'
  BY <1>1, DeferredNotReset
<1> QED
  BY <1>6, <1>7, <1>8, <1>9, <1>10, <1>11 DEF ChainInv

(* A deferred transfer or sample: the calls lead to a transfer only in a   *)
(* state that shifts.                                                      *)
LEMMA InvDefer ==
    ASSUME ChainInv, CableDefer
    PROVE  ChainInv'
<1> DEFINE op == Head(prog)
           act == op.act
<1>1. /\ prog # <<>> /\ op.op = "defer"
      /\ state' = state /\ prog' = Tail(prog) /\ last' = last /\ lost' = lost
      /\ line' = Effect(act, line)
  BY SameEffect DEF CableDefer, At, Done, C!Defer
<1>2. line \in Lines /\ state \in States /\ prog \in Seq(Ops)
  BY DEF ChainInv, Types
<1>3. act \in Acts
  BY <1>1, <1>2, HeadTailProperties, OpByName DEF DeferOps
<1>4. CASE act.action = "GET_TDO"
  <2>1. line' = line
    BY <1>1, <1>4 DEF Effect
  <2> QED
    BY <1>1, <2>1, InvQuiet
<1>5. CASE act.action = "TRANSFER"
  <2> DEFINE in == act.in
             after == DriverTransfer(line, in).line
  <2>1. in \in Seq(Bit)
    BY <1>3, <1>5 DEF Acts
  <2>2. line' = after
    BY <1>1, <1>5 DEF Effect
  <2>3. /\ after \in Lines /\ after.high = line.high /\ after.wired = line.wired
        /\ line.tap \in ShiftStates \/ in = <<>> => after.tap = line.tap \/ HeldInReset(line)
        /\ HeldInReset(line) /\ line.tap = "TEST_LOGIC_RESET"
                => after.tap = "TEST_LOGIC_RESET"
    <3> HIDE DEF in
    <3> QED
      BY <1>2, <2>1, TransferStays
  <2>4. state \in ShiftStates \/ in = <<>>
    <3>1. PICK A \in SUBSET States : Leads({state}, op, A)
      BY <1>1, <1>2, PathTail DEF ChainInv, CallsLead
    <3> QED
      BY <1>1, <1>5, <3>1 DEF Leads
  <2> HIDE DEF after, op, act
  <2>5. HeldInReset(line)' = HeldInReset(line)
    BY <2>2, <2>3 DEF HeldInReset
  <2>6. state' \in States
    BY <1>1, <1>2
  <2>7. \A A : Leads({state}, op, A) => state' \in A
    BY <1>1 DEF Leads
  <2>8. prog' \in Seq(Ops) /\ CallsLead'
    BY <1>1, <2>6, <2>7, CallDone DEF ChainInv, op
  <2>9. Types'
    BY <1>1, <2>2, <2>3, <2>6, <2>8 DEF ChainInv, Types
  <2>10. HeldStays'
    BY <2>2, <2>3, <2>5 DEF ChainInv, HeldStays
  <2>11. Unknown \notin ShiftStates
    BY DEF Unknown, ShiftStates
  <2>12. ~Pending
    BY <1>1 DEF Pending, ClockOp, op
  <2>13. state = line.tap /\ ~HeldInReset(line) => line'.tap = line.tap
    BY <2>2, <2>3, <2>4
  <2>14. Tracked'
    <3> SUFFICES ASSUME line.wired, "TRST" \in line.high, ~lost, state # Unknown
                 PROVE  state = line'.tap
      BY <1>1, <2>2, <2>3 DEF Tracked
    <3>1. state = line.tap /\ ~HeldInReset(line)
      BY <2>12 DEF ChainInv, Tracked, HeldInReset
    <3> QED
      BY <2>13, <3>1
  <2>15. ExchangeTracked'
    BY <1>1, <2>5, <2>13, ExchangeCallDone DEF ChainInv, ExchangeTracked
  <2>16. ResetUnderWay'
    BY <1>1, DeferredNotReset DEF op
  <2> QED
    BY <2>8, <2>9, <2>10, <2>14, <2>15, <2>16 DEF ChainInv
<1> QED
  BY <1>3, <1>4, <1>5 DEF Acts

(* urj_tap_defer_shift_register puts its calls before those left. *)
LEMMA InvDeferShift ==
    ASSUME ChainInv, DeferShift
    PROVE  ChainInv'
<1> DEFINE op == Head(prog)
           calls == FullShift(state, op.reg, op.exit)
<1>1. /\ prog # <<>> /\ op.op = "defer_shift"
      /\ prog' = calls \o Tail(prog)
      /\ line' = line /\ state' = state /\ last' = last /\ lost' = lost
  BY DEF DeferShift, At, FullShift
<1>2. state \in States /\ prog \in Seq(Ops)
  BY DEF ChainInv, Types
<1>3. Tail(prog) \in Seq(Ops) /\ op \in DeferShiftOps
  BY <1>1, <1>2, HeadTailProperties, OpByName
<1>4. PICK A \in SUBSET States : Leads({state}, op, A) /\ Path(A, Tail(prog), Goal)
  BY <1>1, <1>2, PathTail DEF ChainInv, CallsLead
<1>5. calls \in Seq(ShiftOps) /\ Path({state}, calls, A)
  BY <1>2, <1>3, <1>4, FullShiftLeads
<1> HIDE DEF calls, op
<1>6. calls \in Seq(ExchangeOps)
  BY <1>5, OpsInOps, SeqMonotonic
<1>7. calls \in Seq(Ops) /\ Follows(calls)
  BY <1>6, OpsInOps, ExchangeOpsQuiet, FollowsQuiet, SeqMonotonic
<1>8. Follows(Tail(prog))
  BY <1>1, <1>2, FollowsTail DEF ChainInv, CallsLead
<1>9. /\ prog' \in Seq(Ops) /\ Follows(prog') /\ Path({state}, prog', Goal)
  BY <1>1, <1>3, <1>4, <1>5, <1>7, <1>8, ConcatProperties, FollowsConcat, PathConcat
<1>10. CallsLead'
  <2>1. Goal' = Goal
    BY <1>1 DEF Goal
  <2> QED
    BY <1>1, <1>9, <2>1 DEF CallsLead
<1>11. Types'
  BY <1>1, <1>9 DEF ChainInv, Types
<1>12. HeldStays'
  BY <1>1 DEF ChainInv, HeldStays, HeldInReset
<1>13. Tracked'
  <2>1. ~Pending
    BY <1>1 DEF Pending, ClockOp, op
  <2> QED
    BY <1>1, <2>1 DEF ChainInv, Tracked
<1>14. ExchangeTracked'
  <2> SUFFICES ASSUME last.op = "exchange" PROVE ExchangeTracked'
    BY <1>1 DEF ExchangeTracked
  <2>1. Tail(prog) \in Seq(ExchangeOps)
    BY <1>1, ExchangeCallDone DEF ChainInv
  <2>2. prog' \in Seq(ExchangeOps)
    BY <1>1, <1>6, <2>1, ConcatProperties
  <2> QED
    BY <1>1, <2>2 DEF ChainInv, ExchangeTracked, HeldInReset
<1>15. ResetUnderWay'
  BY <1>1, DeferredNotReset DEF op
<1> QED
  BY <1>10, <1>11, <1>12, <1>13, <1>14, <1>15 DEF ChainInv

(* The state is unknown, or reset, as long as TRST is low. *)
LEMMA InvSetSignal ==
    ASSUME ChainInv, SetSignal
    PROVE  ChainInv'
<1> DEFINE op == Head(prog)
           new == (line.high \ op.mask) \cup (op.val \cap op.mask)
           set == [line EXCEPT !.high = new]
<1>1. /\ prog # <<>> /\ op.op = "set_signal"
      /\ prog' = Tail(prog) /\ last' = last /\ lost' = lost
      /\ state' = StateSetTrst(state, "TRST" \in line.high, "TRST" \in new)
      /\ line' = [set EXCEPT !.tap = IF HeldInReset(set) THEN "TEST_LOGIC_RESET" ELSE @]
  <2>1. line' = DriverSetSignal(line, op.mask, op.val)
    BY SameEffect DEF SetSignal, C!Do, Effect
  <2> QED
    BY <2>1 DEF SetSignal, At, Done, DriverSetSignal
<1>2. line \in Lines /\ state \in States /\ prog \in Seq(Ops)
  BY DEF ChainInv, Types
<1>3. op.mask \subseteq Signals /\ op.val \subseteq Signals
  BY <1>1, <1>2, HeadTailProperties, OpByName DEF SetSignalOps
<1>4. new \subseteq Signals /\ set \in Lines /\ set.high = new
      /\ set.wired = line.wired /\ set.tap = line.tap
  BY <1>2, <1>3 DEF Lines
<1> HIDE DEF op, new, set
<1>5. /\ line' \in Lines /\ line'.high = new /\ line'.wired = line.wired
      /\ line'.tap = IF HeldInReset(set) THEN "TEST_LOGIC_RESET" ELSE line.tap
  BY <1>1, <1>4 DEF Lines, TapStates
<1>6. HeldInReset(line)' <=> HeldInReset(set)
  BY <1>4, <1>5 DEF HeldInReset
<1>7. state' \in {state, "TEST_LOGIC_RESET", Unknown}
  BY <1>1 DEF StateSetTrst
<1>8. state' \in States
  BY <1>2, <1>7 DEF States, TapStates
<1>9. \A A : Leads({state}, op, A) => state' \in A
  BY <1>1, <1>7 DEF Leads
<1>10. prog' \in Seq(Ops) /\ CallsLead'
  BY <1>1, <1>8, <1>9, CallDone DEF ChainInv, op
<1>11. Types'
  BY <1>1, <1>5, <1>8, <1>10 DEF ChainInv, Types
<1>12. HeldStays'
  BY <1>5, <1>6 DEF HeldStays
<1>13. Tracked'
  <2> SUFFICES ASSUME line.wired, "TRST" \in new, ~lost
               PROVE  state' \in {Unknown, line'.tap}
    BY <1>1, <1>5 DEF Tracked
  <2>1. line'.tap = line.tap
    BY <1>4, <1>5 DEF HeldInReset
  <2>2. CASE "TRST" \in line.high
    <3>1. ~Pending
      BY <1>1 DEF Pending, ClockOp, op
    <3>2. state' = state
      BY <1>1, <2>2 DEF StateSetTrst
    <3> QED
      BY <2>1, <2>2, <3>1, <3>2 DEF ChainInv, Tracked
  <2>3. CASE "TRST" \notin line.high
    <3>1. line.tap = "TEST_LOGIC_RESET"
      BY <2>3 DEF ChainInv, HeldStays, HeldInReset
    <3>2. state' = "TEST_LOGIC_RESET"
      BY <1>1, <2>3 DEF StateSetTrst
    <3> QED
      BY <2>1, <3>1, <3>2
  <2> QED
    BY <2>2, <2>3
<1>14. ExchangeTracked'
  <2>1. last.op # "exchange"
    BY <1>1, ExchangeCallDone, NotInExchange DEF ChainInv, op
  <2> QED
    BY <1>1, <2>1 DEF ExchangeTracked
<1>15. ResetUnderWay'
  <2> SUFFICES ASSUME last.op = "reset" PROVE ResetUnderWay'
    BY <1>1 DEF ResetUnderWay
  <2>1. ClockOp(1, 0, 5).op = "clock" /\ ClockOp(0, 0, 1).op = "clock"
    BY DEF ClockOp
  <2>2. prog \in {TrstResetCalls, Tail(TrstResetCalls)}
    BY <1>1, <2>1, ResetShape DEF ChainInv, ResetUnderWay, op
  <2>3. prog' \in {Tail(TrstResetCalls), ResetCalls}
    BY <1>1, <2>2, ResetShape
  <2> QED
    BY <1>1, <2>3 DEF ResetUnderWay
<1> QED
  BY <1>10, <1>11, <1>12, <1>13, <1>14, <1>15 DEF ChainInv

(* Any call. *)
LEMMA InvStep ==
    ASSUME ChainInv, Step
    PROVE  ChainInv'
<1>1. CASE StateReset
  BY <1>1, InvStateReset
<1>2. CASE CableClock \/ CableDeferClock
  <2> DEFINE op == Head(prog)
             act == [action |-> "CLOCK", tms |-> op.tms, tdi |-> op.tdi, n |-> op.n]
  <2>1. line' = Effect(act, line)
    BY <1>2, SameEffect DEF CableClock, CableDeferClock, C!Do, C!Defer
  <2>2. line' = DriverClock(line, op.tms, op.tdi, op.n)
    BY <2>1 DEF Effect
  <2>3. /\ prog # <<>> /\ op.op \in {"clock", "defer_clock"}
        /\ state' = StateClocks(state, op.tms, op.n)
        /\ prog' = Tail(prog) /\ last' = last /\ lost' = lost
    BY <1>2 DEF CableClock, CableDeferClock, At, Done
  <2> QED
    BY <2>2, <2>3, InvClock
<1>3. CASE CableDeferClockFails
  BY <1>3, InvClockRefused
<1>4. CASE CableDefer
  BY <1>4, InvDefer
<1>5. CASE CableDeferFails
  BY <1>5, InvQuiet DEF CableDeferFails, At, C!Refuse
<1>6. CASE DeferShift
  BY <1>6, InvDeferShift
<1>7. CASE TransferLate
  BY <1>7, InvQuiet DEF TransferLate, At, Done, C!Fetch, C!FetchNone
<1>8. CASE GetTdoLate
  BY <1>8, InvQuiet DEF GetTdoLate, At, Done, C!Fetch, C!FetchNone
<1>9. CASE SetSignal
  BY <1>9, InvSetSignal
<1> QED
  BY <1>1, <1>2, <1>3, <1>4, <1>5, <1>6, <1>7, <1>8, <1>9 DEF Step

(* No call. *)
LEMMA InvStutter ==
    ASSUME ChainInv, UNCHANGED vars
    PROVE  ChainInv'
<1>1. UNCHANGED <<line, state, prog, last, lost>>
  BY DEF vars, chainVars
<1> QED
  BY <1>1 DEF ChainInv, Types, HeldStays, CallsLead, Goal, Tracked, Pending, ExchangeTracked,
              ResetUnderWay, HeldInReset

(* The invariant holds in every state that the operations of src/tap can   *)
(* reach.                                                                  *)
THEOREM ChainInvariant ==
    ASSUME ShiftsOnlyWhileShifting
    PROVE  Spec => []ChainInv
<1>1. Init => ChainInv
  BY InvInit
<1>2. ChainInv /\ [Next]_vars => ChainInv'
  BY InvCall, InvStep, InvStutter DEF Next
<1> QED
  BY <1>1, <1>2, PTL DEF Spec

-----------------------------------------------------------------------------
(* What follows from it. *)

(* chain->state is the state of the controllers, or unknown, whenever no   *)
(* operation is under way, TRST is not low and nothing was lost.           *)
THEOREM StateTracked ==
    ASSUME ShiftsOnlyWhileShifting
    PROVE  Spec => []TapTracked
<1>1. ChainInv => TapTracked
  BY DEF ChainInv, Tracked, Pending, TapTracked
<1> QED
  BY <1>1, ChainInvariant, PTL

(* A reset brings the chain and its state together, whatever was lost.     *)
THEOREM ResetWorks ==
    ASSUME ShiftsOnlyWhileShifting
    PROVE  Spec => []ResetResynchronises
<1>1. ChainInv => ResetResynchronises
  BY ResetShape DEF ChainInv, ResetUnderWay, ResetResynchronises
<1> QED
  BY <1>1, ChainInvariant, PTL

(* An exchange leaves the controllers where its exit mode says.            *)
THEOREM ExitsWhereAsked ==
    ASSUME ShiftsOnlyWhileShifting
    PROVE  Spec => []ExitReached
<1>1. ChainInv => ExitReached
  <2> SUFFICES ASSUME ChainInv, prog = <<>>, last.op = "exchange", last.tracked, ~lost
               PROVE  line.tap = Destination(last.path)[last.x.exit]
    BY DEF ExitReached
  <2>1. Path({state}, <<>>, {Destination(last.path)[last.x.exit]})
    BY DEF ChainInv, CallsLead, Goal
  <2>2. state = Destination(last.path)[last.x.exit]
    BY <2>1, EmptySeq DEF Path
  <2> QED
    BY <2>2 DEF ChainInv, ExchangeTracked
<1> QED
  BY <1>1, ChainInvariant, PTL

-----------------------------------------------------------------------------
(* The results of deferred calls. *)

(* The results that wait are those the calls left, or fewer of them. *)
Balanced ==
    /\ prog \in Seq(Ops)
    /\ \E S : results \in Seq(S)
    /\ \E m \in Nat : Len(results) <= m /\ Fits(m, prog, 0)

(* The cable of the chain returns what `Activity' has it return. *)
LEMMA SameResult ==
    ASSUME NEW act, NEW l
    PROVE  C!ResultOf(act, l) = ResultOf(act, l)
  BY DEF C!ResultOf, ResultOf, C!DriverTransfer, DriverTransfer, C!Pulse, Pulse,
         C!HeldInReset, HeldInReset, C!IeeeNext, IeeeNext, C!Ieee, Ieee, C!Tdo, Tdo,
         C!ShiftStates, ShiftStates, C!DriverGetSignal, DriverGetSignal

(* Between operations no result waits. *)
LEMMA NothingWaits ==
    ASSUME Balanced, prog = <<>>
    PROVE  results = <<>>
<1>1. PICK m \in Nat : Len(results) <= m /\ Fits(m, <<>>, 0)
  BY DEF Balanced
<1>2. PICK S : results \in Seq(S)
  BY DEF Balanced
<1>3. PICK f \in [0 .. Len(<<>>) -> Nat] : m <= f[0] /\ f[Len(<<>>)] <= 0
  BY <1>1 DEF Fits
<1>4. Len(<<>>) = 0 /\ f[0] \in Nat
  BY <1>3
<1>5. m = 0
  BY <1>1, <1>3, <1>4
<1>6. Len(results) \in Nat
  BY <1>2, LenProperties
<1>7. Len(results) = 0
  BY <1>1, <1>5, <1>6
<1> QED
  BY <1>2, <1>7, EmptySeq

(* An operation begins with none. *)
LEMMA BalancedStart ==
    ASSUME Balanced, prog = <<>>, results' = results, prog' \in Seq(Ops), Fits(0, prog', 0)
    PROVE  Balanced'
<1>1. results' = <<>> /\ Len(<<>>) = 0
  BY NothingWaits
<1>2. \E m \in Nat : Len(results') <= m /\ Fits(m, prog', 0)
  BY <1>1
<1>3. \E S : results' \in Seq(S)
  BY DEF Balanced
<1> QED
  BY <1>2, <1>3 DEF Balanced

(* A call leaves as many as the rest of the operation takes. *)
LEMMA BalancedCall ==
    ASSUME Balanced, prog # <<>>, prog' = Tail(prog), NEW S, results' \in Seq(S),
           \A c \in Nat, d \in Nat :
                Len(results) <= c /\ Keeps(c, Head(prog), d) => Len(results') <= d
    PROVE  Balanced'
<1>1. PICK m \in Nat : Len(results) <= m /\ Fits(m, prog, 0)
  BY DEF Balanced
<1>2. prog \in Seq(Ops)
  BY DEF Balanced
<1>3. PICK k \in Nat : Keeps(m, Head(prog), k) /\ Fits(k, Tail(prog), 0)
  BY <1>1, <1>2, FitsTail
<1>4. Len(results') <= k
  BY <1>1, <1>3
<1>5. Tail(prog) \in Seq(Ops)
  BY <1>2, HeadTailProperties
<1> QED
  BY <1>3, <1>4, <1>5 DEF Balanced

(* A call that leaves the results alone. *)
LEMMA BalancedQuiet ==
    ASSUME Balanced, prog # <<>>, prog' = Tail(prog), results' = results,
           Head(prog).op \in {"clock", "defer_clock", "set_signal", "state_reset", "defer"}
    PROVE  Balanced'
<1>1. PICK S : results \in Seq(S)
  BY DEF Balanced
<1>2. Len(results) \in Nat
  BY <1>1, LenProperties
<1>3. Asks(Head(prog).act) \in Nat
  BY DEF Asks
<1>4. ASSUME NEW c \in Nat, NEW d \in Nat, Len(results) <= c, Keeps(c, Head(prog), d)
      PROVE  Len(results) <= d
  <2> DEFINE op == Head(prog)
  <2> HIDE DEF op
  <2>1. /\ Keeps(c, op, d) /\ Asks(op.act) \in Nat
        /\ op.op \in {"clock", "defer_clock", "set_signal", "state_reset", "defer"}
    BY <1>3, <1>4 DEF op
  <2>2. c <= d
    BY <2>1 DEF Keeps
  <2> QED
    BY <1>2, <1>4, <2>2
<1> QED
  BY <1>1, <1>4, BalancedCall

(* A deferred call adds at most the result it asks for. *)
LEMMA BalancedDefer ==
    ASSUME Balanced, CableDefer
    PROVE  Balanced'
<1> DEFINE op == Head(prog)
           new == ResultOf(op.act, line)
<1>1. /\ prog # <<>> /\ op.op = "defer" /\ prog' = Tail(prog)
      /\ results' = results \o new
  BY SameResult DEF CableDefer, At, Done, C!Defer
<1>2. op \in DeferOps
  BY <1>1, HeadTailProperties, OpByName DEF Balanced
<1>3. op.act \in Acts
  BY <1>2 DEF DeferOps
<1>4. PICK S : results \in Seq(S)
  BY DEF Balanced
<1>5. PICK T : new \in Seq(T) /\ Len(new) <= Asks(op.act)
  <2> DEFINE act == op.act
  <2>1. act \in Acts
    BY <1>3
  <2> HIDE DEF op, act
  <2> SUFFICES \E T : ResultOf(act, line) \in Seq(T) /\ Len(ResultOf(act, line)) <= Asks(act)
    BY DEF act
  <2>2. CASE act.action = "TRANSFER" /\ act.keep
    <3> DEFINE r == [kind |-> "TRANSFER", value |-> DriverTransfer(line, act.in).out]
    <3>1. ResultOf(act, line) = <<r>> /\ Asks(act) = 1
      BY <2>2 DEF ResultOf, Asks
    <3> HIDE DEF r
    <3>2. <<r>> \in Seq({r}) /\ Len(<<r>>) <= 1
      OBVIOUS
    <3> QED
      BY <3>1, <3>2
  <2>3. CASE act.action = "TRANSFER" /\ ~act.keep
    <3>1. ResultOf(act, line) = <<>> /\ Asks(act) = 0
      BY <2>3 DEF ResultOf, Asks
    <3>2. <<>> \in Seq({}) /\ Len(<<>>) <= 0
      OBVIOUS
    <3> QED
      BY <3>1, <3>2
  <2>4. CASE act.action = "GET_TDO"
    <3> DEFINE r == [kind |-> "GET_TDO", value |-> Tdo(line)]
    <3>1. ResultOf(act, line) = <<r>> /\ Asks(act) = 1
      BY <2>4 DEF ResultOf, Asks
    <3> HIDE DEF r
    <3>2. <<r>> \in Seq({r}) /\ Len(<<r>>) <= 1
      OBVIOUS
    <3> QED
      BY <3>1, <3>2
  <2> QED
    BY <2>1, <2>2, <2>3, <2>4 DEF Acts
<1>6. Asks(op.act) \in Nat
  BY DEF Asks
<1> HIDE DEF op, new
<1>7. /\ results' \in Seq(S \cup T)
      /\ Len(results') = Len(results) + Len(new)
      /\ Len(results) \in Nat /\ Len(new) \in Nat
  <2>1. results \in Seq(S \cup T) /\ new \in Seq(S \cup T)
    BY <1>4, <1>5, SeqMonotonic
  <2> QED
    BY <1>1, <2>1, ConcatProperties, LenProperties
<1>8. ASSUME NEW c \in Nat, NEW d \in Nat, Len(results) <= c, Keeps(c, op, d)
      PROVE  Len(results') <= d
  <2>1. c + Asks(op.act) <= d
    BY <1>1, <1>8 DEF Keeps
  <2> QED
    BY <1>5, <1>6, <1>7, <1>8, <2>1
<1> QED
  BY <1>1, <1>7, <1>8, BalancedCall DEF op

(* A _late call takes the oldest result, or gives all up. *)
LEMMA BalancedLate ==
    ASSUME Balanced, prog # <<>>, prog' = Tail(prog),
           Head(prog).op \in {"transfer_late", "get_tdo_late"},
           (results # <<>> /\ results' = Tail(results)) \/ results' = <<>>
    PROVE  Balanced'
<1>1. PICK S : results \in Seq(S)
  BY DEF Balanced
<1>2. Len(results) \in Nat
  BY <1>1, LenProperties
<1>3. results' \in Seq(S) /\ (Len(results') = 0 \/ Len(results') = Len(results) - 1)
  <2>1. results # <<>> => Tail(results) \in Seq(S) /\ Len(Tail(results)) = Len(results) - 1
    BY <1>1, HeadTailProperties
  <2>2. <<>> \in Seq(S) /\ Len(<<>>) = 0
    OBVIOUS
  <2> QED
    BY <2>1, <2>2
<1>4. ASSUME NEW c \in Nat, NEW d \in Nat, Len(results) <= c, Keeps(c, Head(prog), d)
      PROVE  Len(results') <= d
  <2>1. c <= d + 1
    BY <1>4 DEF Keeps
  <2> QED
    BY <1>2, <1>3, <1>4, <2>1
<1> QED
  BY <1>3, <1>4, BalancedCall

(* urj_tap_defer_shift_register asks for what the output of its register   *)
(* takes.                                                                  *)
LEMMA BalancedDeferShift ==
    ASSUME Balanced, DeferShift
    PROVE  Balanced'
<1> DEFINE op == Head(prog)
           calls == FullShift(state, op.reg, op.exit)
<1>1. /\ prog # <<>> /\ op.op = "defer_shift" /\ results' = results
      /\ prog' = calls \o Tail(prog)
  BY DEF DeferShift, At, FullShift
<1>2. prog \in Seq(Ops) /\ Tail(prog) \in Seq(Ops) /\ op \in DeferShiftOps
  BY <1>1, HeadTailProperties, OpByName DEF Balanced
<1>3. PICK m \in Nat : Len(results) <= m /\ Fits(m, prog, 0)
  BY DEF Balanced
<1>4. PICK k \in Nat : Keeps(m, op, k) /\ Fits(k, Tail(prog), 0)
  BY <1>1, <1>2, <1>3, FitsTail
<1> DEFINE n == Fetches(op.reg, op.exit)
<1>5. n \in Nat /\ m + n <= k
  <2>1. op.reg \in Registers /\ op.exit \in ExitModes
    BY <1>2 DEF DeferShiftOps
  <2> QED
    BY <1>1, <1>4, <2>1, TransferredUpto DEF Keeps
<1>6. calls \in Seq(Ops) /\ Fits(m, calls, m + n)
  BY <1>2, ShiftFits DEF DeferShiftOps
<1> HIDE DEF calls, n, op
<1>7. Fits(m, calls, k)
  <2>1. m + n \in Nat
    BY <1>5
  <2>2. PICK f \in [0 .. Len(calls) -> Nat] :
        /\ m <= f[0] /\ f[Len(calls)] <= m + n
        /\ \A i \in 1 .. Len(calls) : Keeps(f[i - 1], calls[i], f[i])
    BY <1>6 DEF Fits
  <2>3. f[Len(calls)] \in Nat
    BY <1>6, LenProperties
  <2>4. f[Len(calls)] <= k
    BY <1>5, <2>2, <2>3
  <2> QED
    BY <2>2, <2>4 DEF Fits
<1>8. calls \o Tail(prog) \in Seq(Ops) /\ Fits(m, calls \o Tail(prog), 0)
  BY <1>2, <1>4, <1>6, <1>7, FitsConcat, ConcatProperties
<1> QED
  BY <1>1, <1>3, <1>8 DEF Balanced

(* Whatever operation begins. *)
LEMMA BalancedBegin ==
    ASSUME Balanced, Call
    PROVE  Balanced'
<1>1. /\ ResetCalls \in Seq(Ops) /\ Fits(0, ResetCalls, 0)
      /\ TrstResetCalls \in Seq(Ops) /\ Fits(0, TrstResetCalls, 0)
  BY ResetCallsFollow, FreeFits
<1>2. CASE TapReset \/ TrstReset
  BY <1>1, <1>2, BalancedStart DEF TapReset, TrstReset, Start
<1>3. CASE ResetBypass
  BY <1>1, <1>3, BypassFits, BalancedStart DEF ResetBypass, Start
<1>4. ASSUME NEW op \in FreeOps, prog' = <<op>>, prog = <<>>, results' = results
      PROVE  Balanced'
  <2>1. <<op>> \in Seq(FreeOps)
    OBVIOUS
  <2> QED
    BY <1>4, <2>1, FreeFits, BalancedStart
<1>5. ASSUME NEW c \in Clocks, ChainClock(c) \/ ChainDeferClock(c)
      PROVE  Balanced'
  <2>1. c \in [tms : Bit, tdi : Bit, n : Nat]
    BY ChainAssumption
  <2>2. /\ ClockOp(c.tms, c.tdi, c.n) \in FreeOps
        /\ DeferClockOp(c.tms, c.tdi, c.n) \in FreeOps
    BY <2>1 DEF ClockOp, DeferClockOp, ClockOps, DeferClockOps, FreeOps
  <2> QED
    BY <1>4, <1>5, <2>2 DEF ChainClock, ChainDeferClock, Start
<1>6. ASSUME NEW path \in {"DR", "IR"}, Capture(path)
      PROVE  Balanced'
  <2>1. CaptureCalls(path) \in Seq(FreeOps)
    BY CaptureCallsLead, SeqMonotonic DEF FreeOps
  <2> QED
    BY <1>6, <2>1, FreeFits, BalancedStart DEF Capture, Start
<1>7. ASSUME NEW p \in PodSettings, SetPodSignal(p)
      PROVE  Balanced'
  <2>1. p \in [mask : SUBSET Signals, val : SUBSET Signals]
    BY ChainAssumption
  <2>2. SetSignalOp(p.mask, p.val) \in FreeOps
    BY <2>1 DEF SetSignalOp, SetSignalOps, FreeOps
  <2> QED
    BY <1>4, <1>7, <2>2 DEF SetPodSignal, Start
<1>8. ASSUME NEW x \in Shifts, Exchange(x)
      PROVE  Balanced'
  BY <1>8, ExchangeFits, BalancedStart DEF Exchange
<1> QED
  BY <1>2, <1>3, <1>5, <1>6, <1>7, <1>8 DEF Call

(* Whatever call is next. *)
LEMMA BalancedStep ==
    ASSUME Balanced, Step
    PROVE  Balanced'
<1>1. CASE StateReset \/ CableDeferClockFails \/ CableDeferFails
  BY <1>1, BalancedQuiet
     DEF StateReset, CableDeferClockFails, CableDeferFails, At, C!Refuse
<1>2. CASE CableClock \/ SetSignal
  BY <1>2, BalancedQuiet DEF CableClock, SetSignal, At, Done, C!Do
<1>3. CASE CableDeferClock
  <2> DEFINE op == Head(prog)
             act == [action |-> "CLOCK", tms |-> op.tms, tdi |-> op.tdi, n |-> op.n]
  <2>1. results' = results \o ResultOf(act, line)
    BY <1>3, SameResult DEF CableDeferClock, C!Defer
  <2>2. ResultOf(act, line) = <<>>
    BY DEF ResultOf
  <2>3. PICK S : results \in Seq(S)
    BY DEF Balanced
  <2>4. results' = results
    BY <2>1, <2>2, <2>3
  <2> QED
    BY <1>3, <2>4, BalancedQuiet DEF CableDeferClock, At, Done
<1>4. CASE CableDefer
  BY <1>4, BalancedDefer
<1>5. CASE DeferShift
  BY <1>5, BalancedDeferShift
<1>6. CASE TransferLate \/ GetTdoLate
  BY <1>6, BalancedLate DEF TransferLate, GetTdoLate, At, Done, C!Fetch, C!FetchNone
<1> QED
  BY <1>1, <1>2, <1>3, <1>4, <1>5, <1>6 DEF Step

(* An operation fetches or gives up all results of its deferred calls.     *)
THEOREM NothingLeft == Spec => []NothingLeftBehind
<1>1. Init => Balanced
  <2> SUFFICES ASSUME Init PROVE Balanced
    OBVIOUS
  <2>1. prog = <<>> /\ results = <<>>
    BY DEF Init
  <2>2. <<>> \in Seq(Ops) /\ <<>> \in Seq({}) /\ Len(<<>>) <= 0 /\ Fits(0, <<>>, 0)
    BY FitsEmpty
  <2> QED
    BY <2>1, <2>2 DEF Balanced
<1>2. Balanced /\ [Next]_vars => Balanced'
  <2>1. ASSUME Balanced, UNCHANGED vars PROVE Balanced'
    BY <2>1 DEF Balanced, vars, chainVars
  <2> QED
    BY <2>1, BalancedBegin, BalancedStep DEF Next
<1>3. Balanced => NothingLeftBehind
  BY NothingWaits DEF NothingLeftBehind
<1> QED
  BY <1>1, <1>2, <1>3, PTL DEF Spec

-----------------------------------------------------------------------------
(***************************************************************************)
(* Register exchanges, proved bit by bit: what urj_tap_chain_shift_*_mode  *)
(* and urj_tap_shift_register put into the chain and into the output       *)
(* registers, for any number of registers of any lengths, any number of    *)
(* cells and any split of the bits between transfers and clocks.           *)
(*                                                                         *)
(* The bits an exchange moves are one stream: those the chain held, then   *)
(* those of the registers in order.  The chain is a window on it.  Every   *)
(* call moves the window as far as it shifts bits, and every result asked  *)
(* for is the part of the stream that leaves the window.                   *)
(***************************************************************************)

-----------------------------------------------------------------------------
(* Concat, and what the chain's results are joined to. *)

(* Concat is what it ends with. *)
LEMMA ConcatIs ==
    ASSUME NEW r, NEW n \in Nat
    PROVE  \E u : Joined(u, r, n) /\ Concat([j \in 1 .. n |-> r[j]]) = u[n]
<1> DEFINE s == [j \in 1 .. n |-> r[j]]
           g == CHOOSE u : Joined(u, s, n)
<1>1. Len(s) = n
  <2>1. s \in [1 .. n -> {r[j] : j \in 1 .. n}]
    OBVIOUS
  <2> HIDE DEF s
  <2> QED
    BY <2>1
<1>2. Joined(g, s, n)
  BY JoinedExists
<1>3. Concat(s) = g[n]
  <2> HIDE DEF s
  <2> QED
    BY <1>1 DEF Concat, Joined
<1>4. Joined(g, r, n)
  <2>1. g = [i \in 0 .. n |-> IF i = 0 THEN <<>> ELSE g[i - 1] \o s[i]]
    BY <1>2 DEF Joined
  <2>2. \A i \in 0 .. n : i # 0 => s[i] = r[i]
    OBVIOUS
  <2> HIDE DEF s, g
  <2>3. g = [i \in 0 .. n |-> IF i = 0 THEN <<>> ELSE g[i - 1] \o r[i]]
    BY <2>1, <2>2
  <2> QED
    BY <2>3 DEF Joined
<1> QED
  BY <1>3, <1>4

(* The first n of some sequences, joined, and where the k-th begins. *)
First(r, n) == Concat([j \in 1 .. n |-> r[j]])
StartOf(r, k) == Len(First(r, k - 1))

FoundIn(T, r, n) ==
    /\ First(r, n) \in Seq(T)
    /\ Len(First(r, n)) = StartOf(r, n + 1)
    /\ StartOf(r, 1) = 0
    /\ \A k \in 1 .. n + 1 : StartOf(r, k) \in Nat
    /\ \A k \in 1 .. n :
        /\ StartOf(r, k + 1) = StartOf(r, k) + Len(r[k])
        /\ StartOf(r, k + 1) <= Len(First(r, n))
        /\ \A i \in 1 .. Len(r[k]) : First(r, n)[StartOf(r, k) + i] = r[k][i]

(* The k-th sequence is found there. *)
LEMMA JoinedIs ==
    ASSUME NEW T, NEW n \in Nat, NEW r \in [1 .. n -> Seq(T)]
    PROVE  FoundIn(T, r, n)
<1>1. PICK u : Joined(u, r, n)
  BY JoinedExists
<1>2. ASSUME NEW m \in 0 .. n PROVE Concat([j \in 1 .. m |-> r[j]]) = u[m]
  <2>1. m \in Nat /\ m <= n
    OBVIOUS
  <2>2. PICK v : Joined(v, r, m) /\ Concat([j \in 1 .. m |-> r[j]]) = v[m]
    BY <2>1, ConcatIs
  <2>3. \A i \in 0 .. m : v[i] = u[i]
    BY <1>1, <2>1, <2>2, JoinedOnce
  <2> QED
    BY <2>1, <2>2, <2>3
<1>3. \A k \in 1 .. n + 1 : StartOf(r, k) = Len(u[k - 1])
  <2> TAKE k \in 1 .. n + 1
  <2>1. k - 1 \in 0 .. n
    OBVIOUS
  <2> DEFINE m == k - 1
  <2> HIDE DEF m
  <2>2. Concat([j \in 1 .. m |-> r[j]]) = u[m]
    BY <1>2, <2>1 DEF m
  <2> QED
    BY <2>2 DEF StartOf, First, m
<1>4. u[0] = <<>> /\ \A i \in 1 .. n : u[i] = u[i - 1] \o r[i] /\ r[i] \in Seq(T)
  <2>1. u = [i \in 0 .. n |-> IF i = 0 THEN <<>> ELSE u[i - 1] \o r[i]]
    BY <1>1 DEF Joined
  <2>2. u[0] = <<>>
    BY <2>1
  <2>3. ASSUME NEW i \in 1 .. n PROVE u[i] = u[i - 1] \o r[i]
    <3>1. i \in 0 .. n /\ i # 0
      OBVIOUS
    <3> QED
      BY <2>1, <3>1
  <2> QED
    BY <2>2, <2>3
<1> DEFINE Good(m) ==
        /\ u[m] \in Seq(T)
        /\ \A k \in 1 .. m :
            /\ u[k - 1] \in Seq(T)
            /\ Len(u[k]) = Len(u[k - 1]) + Len(r[k])
            /\ Len(u[k]) <= Len(u[m])
            /\ \A i \in 1 .. Len(r[k]) : u[m][Len(u[k - 1]) + i] = r[k][i]
           P == {m \in Nat : m <= n => Good(m)}
<1>5. 0 \in P
  <2>1. u[0] \in Seq(T)
    BY <1>4
  <2>2. \A k : k \notin 1 .. 0
    OBVIOUS
  <2>3. Good(0)
    BY <2>1, <2>2
  <2> HIDE DEF Good
  <2> QED
    BY <2>3
<1>6. ASSUME NEW m \in Nat, m \in P PROVE m + 1 \in P
  <2> SUFFICES ASSUME m + 1 <= n PROVE Good(m + 1)
    <3> HIDE DEF Good
    <3> QED
      OBVIOUS
  <2> DEFINE s == u[m]
             t == r[m + 1]
  <2>1. Good(m)
    <3> HIDE DEF Good
    <3>1. m <= n
      OBVIOUS
    <3> QED
      BY <1>6, <3>1
  <2>2. u[m + 1] = s \o t /\ s \in Seq(T) /\ t \in Seq(T)
    <3>1. m + 1 \in 1 .. n /\ (m + 1) - 1 = m
      OBVIOUS
    <3> QED
      BY <1>4, <2>1, <3>1
  <2> HIDE DEF s, t
  <2>3. /\ Len(s) \in Nat /\ Len(t) \in Nat /\ s \o t \in Seq(T)
        /\ Len(s \o t) = Len(s) + Len(t)
        /\ \A i \in 1 .. Len(s) + Len(t) :
            (s \o t)[i] = IF i <= Len(s) THEN s[i] ELSE t[i - Len(s)]
    BY <2>2, ConcatProperties, LenProperties
  <2>4. ASSUME NEW k \in 1 .. m + 1
        PROVE  /\ u[k - 1] \in Seq(T)
               /\ Len(u[k]) = Len(u[k - 1]) + Len(r[k])
               /\ Len(u[k]) <= Len(u[m + 1])
               /\ \A i \in 1 .. Len(r[k]) : u[m + 1][Len(u[k - 1]) + i] = r[k][i]
    <3>1. CASE k = m + 1
      <4>1. k - 1 = m /\ u[k] = s \o t /\ u[k - 1] = s /\ r[k] = t
        <5>1. k - 1 = m
          BY <3>1
        <5> QED
          BY <2>2, <3>1, <5>1 DEF s, t
      <4>2. \A i \in 1 .. Len(t) : (s \o t)[Len(s) + i] = t[i]
        <5> TAKE i \in 1 .. Len(t)
        <5>1. Len(s) + i \in 1 .. Len(s) + Len(t) /\ ~(Len(s) + i <= Len(s))
              /\ (Len(s) + i) - Len(s) = i
          BY <2>3
        <5> QED
          BY <2>3, <5>1
      <4>3. u[m + 1] = s \o t /\ Len(u[m + 1]) = Len(s) + Len(t) /\ Len(u[m + 1]) <= Len(u[m + 1])
        BY <2>2, <2>3
      <4> QED
        BY <2>2, <3>1, <4>1, <4>2, <4>3
    <3>2. CASE k # m + 1
      <4>1. k \in 1 .. m
        BY <3>2
      <4> DEFINE w == u[k - 1]
      <4>2. /\ w \in Seq(T) /\ Len(u[k]) = Len(w) + Len(r[k])
            /\ Len(u[k]) <= Len(s)
            /\ \A i \in 1 .. Len(r[k]) : s[Len(w) + i] = r[k][i]
        BY <2>1, <4>1 DEF s
      <4>3. Len(w) \in Nat /\ Len(r[k]) \in Nat
        <5>1. k \in 1 .. n
          BY <4>1
        <5> QED
          BY <1>4, <4>2, <5>1, LenProperties
      <4> HIDE DEF w
      <4>4. \A i \in 1 .. Len(r[k]) : (s \o t)[Len(w) + i] = r[k][i]
        <5> TAKE i \in 1 .. Len(r[k])
        <5>1. Len(w) + i \in 1 .. Len(s) + Len(t) /\ Len(w) + i <= Len(s)
          BY <2>3, <4>2, <4>3
        <5> QED
          BY <2>3, <4>2, <5>1
      <4>5. Len(u[k]) <= Len(s \o t)
        BY <2>3, <4>2, <4>3
      <4> QED
        BY <2>2, <4>2, <4>4, <4>5 DEF w
    <3> QED
      BY <3>1, <3>2
  <2> QED
    BY <2>2, <2>3, <2>4
<1>7. n \in P
  <2> HIDE DEF P
  <2> QED
    BY <1>5, <1>6, SetInduction
<1>8. Good(n)
  BY <1>7
<1> HIDE DEF Good, P
<1>9. First(r, n) = u[n]
  BY <1>2 DEF First
<1>10. StartOf(r, 1) = 0
  BY <1>3, <1>4
<1>11. \A k \in 1 .. n + 1 : StartOf(r, k) \in Nat
  <2> TAKE k \in 1 .. n + 1
  <2>1. u[k - 1] \in Seq(T)
    <3>1. CASE k = n + 1
      BY <1>8, <3>1 DEF Good
    <3>2. CASE k # n + 1
      <4>1. k \in 1 .. n
        BY <3>2
      <4> QED
        BY <1>8, <4>1 DEF Good
    <3> QED
      BY <3>1, <3>2
  <2> QED
    BY <1>3, <2>1, LenProperties
<1>12. Len(u[n]) = StartOf(r, n + 1)
  <2>1. n + 1 \in 1 .. n + 1 /\ (n + 1) - 1 = n
    OBVIOUS
  <2> QED
    BY <1>3, <2>1
<1>13. ASSUME NEW k \in 1 .. n
       PROVE  /\ StartOf(r, k + 1) = StartOf(r, k) + Len(r[k])
              /\ StartOf(r, k + 1) <= Len(u[n])
              /\ \A i \in 1 .. Len(r[k]) : u[n][StartOf(r, k) + i] = r[k][i]
  <2>1. k \in 1 .. n + 1 /\ k + 1 \in 1 .. n + 1 /\ (k + 1) - 1 = k
    OBVIOUS
  <2>2. StartOf(r, k) = Len(u[k - 1]) /\ StartOf(r, k + 1) = Len(u[k])
    BY <1>3, <2>1
  <2> QED
    BY <1>8, <2>2 DEF Good
<1> QED
  BY <1>8, <1>9, <1>10, <1>11, <1>12, <1>13 DEF Good, FoundIn

-----------------------------------------------------------------------------
(* The bits of an exchange, and the fetching of its results. *)

Ins(x) == [k \in 1 .. Len(x.regs) |-> x.regs[k].in]

Gets(x) == [k \in 1 .. Len(x.regs) |-> OutputCalls(x.regs[k], k, ExitOf(x, k))]

(* The bits the chain holds, and those that are shifted in. *)
Stream(x, cells) == cells \o First(Ins(x), Len(x.regs))

AllGets(x) == First(Gets(x), Len(x.regs))

(* Where the bits of the k-th register begin, and the calls that fetch its *)
(* output.                                                                 *)
FirstBit(x, k) == StartOf(Ins(x), k)
FirstGet(x, k) == StartOf(Gets(x), k)

(* The calls that write into output registers there are. *)
GetsOf(x) ==
    {op \in LateOps :
        /\ op.reg \in 1 .. Len(x.regs)
        /\ x.regs[op.reg].outlen # NoOut
        /\ op.op = "get_tdo_late" => op.at \in 1 .. x.regs[op.reg].outlen}

(* The bits of the k-th register are found where it begins, and before     *)
(* all of them those the chain held.                                       *)
LEMMA StreamIs ==
    ASSUME NEW x \in Shifts, NEW cells \in [1 .. Cells -> Bit]
    PROVE  LET S == Stream(x, cells)
               n == Len(x.regs)
           IN  /\ S \in Seq(Bit) /\ Len(S) = Cells + FirstBit(x, n + 1)
               /\ FirstBit(x, 1) = 0
               /\ \A k \in 1 .. n + 1 : FirstBit(x, k) \in Nat
               /\ \A k \in 1 .. n :
                    /\ FirstBit(x, k + 1) = FirstBit(x, k) + Len(x.regs[k].in)
                    /\ \A i \in 1 .. Len(x.regs[k].in) :
                            S[FirstBit(x, k) + Cells + i] = x.regs[k].in[i]
               /\ \A j \in 1 .. Cells : S[j] = cells[j]
<1> DEFINE n == Len(x.regs)
           r == Ins(x)
           all == First(r, n)
<1>1. n \in Nat \ {0} /\ \A k \in 1 .. n : x.regs[k].in \in Seq(Bit)
  BY RegistersOfShift DEF Registers
<1>2. r \in [1 .. n -> Seq(Bit)] /\ \A k \in 1 .. n : r[k] = x.regs[k].in
  BY <1>1 DEF Ins
<1>3. cells \in Seq(Bit) /\ Len(cells) = Cells /\ Cells \in Nat
  BY CellsAssumption
<1> HIDE DEF n, r
<1>4. /\ all \in Seq(Bit) /\ Len(all) = StartOf(r, n + 1)
      /\ StartOf(r, 1) = 0
      /\ \A k \in 1 .. n + 1 : StartOf(r, k) \in Nat
      /\ \A k \in 1 .. n : /\ StartOf(r, k + 1) = StartOf(r, k) + Len(r[k])
                           /\ StartOf(r, k + 1) <= Len(all)
                           /\ \A i \in 1 .. Len(r[k]) : all[StartOf(r, k) + i] = r[k][i]
  <2>1. FoundIn(Bit, r, n)
    BY <1>1, <1>2, JoinedIs
  <2> QED
    BY <2>1 DEF FoundIn
<1> HIDE DEF all
<1>5. /\ cells \o all \in Seq(Bit)
      /\ Len(cells \o all) = Cells + Len(all)
      /\ Len(all) \in Nat
      /\ \A i \in 1 .. Cells + Len(all) :
            (cells \o all)[i] = IF i <= Cells THEN cells[i] ELSE all[i - Cells]
  <2> DEFINE c == cells
  <2>1. c \in Seq(Bit) /\ Len(c) = Cells /\ all \in Seq(Bit)
    BY <1>3, <1>4
  <2> HIDE DEF c
  <2>2. /\ c \o all \in Seq(Bit)
        /\ Len(c \o all) = Len(c) + Len(all)
        /\ Len(all) \in Nat
        /\ \A i \in 1 .. Len(c) + Len(all) :
            (c \o all)[i] = IF i <= Len(c) THEN c[i] ELSE all[i - Len(c)]
    BY <2>1, ConcatProperties, LenProperties
  <2> QED
    BY <2>1, <2>2 DEF c
<1> DEFINE S == cells \o all
<1> HIDE DEF S
<1>6. ASSUME NEW k \in 1 .. n, NEW i \in 1 .. Len(r[k])
      PROVE  S[StartOf(r, k) + Cells + i] = r[k][i]
  <2>1. StartOf(r, k) \in Nat /\ Len(r[k]) \in Nat
    BY <1>1, <1>2, <1>4, LenProperties
  <2>2. StartOf(r, k) + Len(r[k]) <= Len(all)
    BY <1>4
  <2> DEFINE j == StartOf(r, k) + Cells + i
  <2>3. j \in 1 .. Cells + Len(all) /\ ~(j <= Cells) /\ j - Cells = StartOf(r, k) + i
    BY <1>3, <1>5, <2>1, <2>2
  <2>4. S[j] = all[StartOf(r, k) + i]
    BY <1>5, <2>3 DEF S
  <2> QED
    BY <1>4, <2>4
<1>7. ASSUME NEW j \in 1 .. Cells PROVE S[j] = cells[j]
  <2>1. j \in 1 .. Cells + Len(all) /\ j <= Cells
    BY <1>3, <1>5
  <2> QED
    BY <1>5, <2>1 DEF S
<1>8. S \in Seq(Bit) /\ Len(S) = Cells + StartOf(r, n + 1)
  BY <1>4, <1>5 DEF S
<1>9. Stream(x, cells) = S /\ \A k : FirstBit(x, k) = StartOf(r, k)
  BY DEF Stream, S, all, r, n, FirstBit
<1>10. \A k \in 1 .. n : x.regs[k].in = r[k]
  BY <1>2
<1> QED
  <2> HIDE DEF S
  <2>1. \A k \in 1 .. n :
            /\ FirstBit(x, k + 1) = FirstBit(x, k) + Len(x.regs[k].in)
            /\ \A i \in 1 .. Len(x.regs[k].in) :
                    S[FirstBit(x, k) + Cells + i] = x.regs[k].in[i]
    BY <1>4, <1>6, <1>9, <1>10
  <2>2. /\ S \in Seq(Bit) /\ Len(S) = Cells + FirstBit(x, n + 1)
        /\ FirstBit(x, 1) = 0
        /\ \A k \in 1 .. n + 1 : FirstBit(x, k) \in Nat
    BY <1>4, <1>8, <1>9
  <2> QED
    BY <1>7, <1>9, <2>1, <2>2 DEF n

(* The output of a register is fetched by one call for its transfer and one *)
(* for every bit clocked after it.                                          *)
LEMMA GetsAre ==
    ASSUME NEW x \in Shifts, NEW k \in 1 .. Len(x.regs)
    PROVE  LET reg == x.regs[k]
               e == ExitOf(x, k)
               n == Transferred(reg, e)
           IN  /\ OutputCalls(reg, k, e) \in Seq(GetsOf(x))
               /\ Len(OutputCalls(reg, k, e)) = Fetches(reg, e)
               /\ Fetches(reg, e) \in Nat
               /\ reg.outlen # NoOut =>
                    /\ 1 \in 1 .. Fetches(reg, e)
                    /\ OutputCalls(reg, k, e)[1] = [op |-> "transfer_late", reg |-> k]
                    /\ \A i \in 1 .. Upto(reg) - n :
                        /\ i + 1 \in 1 .. Fetches(reg, e)
                        /\ OutputCalls(reg, k, e)[i + 1] =
                                [op |-> "get_tdo_late", reg |-> k, at |-> n + i]
<1> DEFINE reg == x.regs[k]
           e == ExitOf(x, k)
           n == Transferred(reg, e)
           g == Upto(reg) - n
<1>1. reg \in Registers /\ e \in ExitModes /\ k \in Nat
  BY RegistersOfShift DEF ExitOf, ExitModes
<1>2. n \in Nat /\ Upto(reg) \in Nat /\ Fetches(reg, e) \in Nat
      /\ (reg.outlen # NoOut => n <= Upto(reg))
  BY <1>1, TransferredBound, TransferredUpto
<1>3. reg.outlen \in Nat /\ Upto(reg) <= reg.outlen
  <2>1. Len(reg.in) \in Nat /\ reg.outlen \in Nat
    BY <1>1, LenProperties DEF Registers
  <2> QED
    BY <2>1 DEF Upto
<1>4. CASE reg.outlen = NoOut
  <2>1. OutputCalls(reg, k, e) = <<>> /\ Fetches(reg, e) = 0
    BY <1>4 DEF OutputCalls, Fetches
  <2>2. <<>> \in Seq(GetsOf(x)) /\ Len(<<>>) = 0
    OBVIOUS
  <2> QED
    BY <1>4, <2>1, <2>2
<1>5. CASE reg.outlen # NoOut
  <2> DEFINE gets == [i \in 1 .. g |-> [op |-> "get_tdo_late", reg |-> k, at |-> n + i]]
             first == [op |-> "transfer_late", reg |-> k]
  <2>1. OutputCalls(reg, k, e) = <<first>> \o gets
    BY <1>5 DEF OutputCalls, Upto
  <2>2. g \in Nat /\ Fetches(reg, e) = 1 + g
    BY <1>2, <1>5 DEF Fetches
  <2>3. first \in GetsOf(x)
    BY <1>1, <1>5 DEF GetsOf, LateOps
  <2>4. ASSUME NEW i \in 1 .. g
        PROVE  [op |-> "get_tdo_late", reg |-> k, at |-> n + i] \in GetsOf(x)
    <3>1. n + i \in 1 .. reg.outlen
      BY <1>2, <1>3
    <3> HIDE DEF n, g
    <3> DEFINE j == n + i
    <3> HIDE DEF j
    <3>2. j \in 1 .. reg.outlen /\ j \in Nat
      BY <1>3, <3>1 DEF j
    <3>3. [op |-> "get_tdo_late", reg |-> k, at |-> j] \in LateOps
      BY <1>1, <3>2 DEF LateOps
    <3> QED
      BY <1>1, <1>5, <3>2, <3>3 DEF GetsOf, j
  <2> HIDE DEF n, g, reg, e
  <2>5. gets \in [1 .. g -> GetsOf(x)]
    BY <2>4
  <2>6. gets \in Seq(GetsOf(x)) /\ Len(gets) = g
    <3> HIDE DEF gets
    <3> QED
      BY <2>2, <2>5
  <2>7. \A i \in 1 .. g : gets[i] = [op |-> "get_tdo_late", reg |-> k, at |-> n + i]
    OBVIOUS
  <2> HIDE DEF gets
  <2> DEFINE s == <<first>>
  <2>8. s \in Seq(GetsOf(x)) /\ Len(s) = 1 /\ s[1] = first
    BY <2>3
  <2> HIDE DEF s
  <2>9. /\ s \o gets \in Seq(GetsOf(x))
        /\ Len(s \o gets) = 1 + g
        /\ \A i \in 1 .. 1 + g : (s \o gets)[i] = IF i <= 1 THEN s[i] ELSE gets[i - 1]
    <3> DEFINE T == GetsOf(x)
    <3>1. s \in Seq(T) /\ gets \in Seq(T)
      BY <2>6, <2>8
    <3> HIDE DEF T
    <3>2. /\ s \o gets \in Seq(T)
          /\ Len(s \o gets) = Len(s) + Len(gets)
          /\ \A i \in 1 .. Len(s) + Len(gets) :
                (s \o gets)[i] = IF i <= Len(s) THEN s[i] ELSE gets[i - Len(s)]
      BY <3>1, ConcatProperties
    <3> QED
      BY <2>6, <2>8, <3>2 DEF T
  <2>10. 1 \in 1 .. 1 + g /\ (s \o gets)[1] = first
    BY <2>2, <2>8, <2>9
  <2>11. ASSUME NEW i \in 1 .. g
         PROVE  i + 1 \in 1 .. 1 + g /\ (s \o gets)[i + 1] = gets[i]
    <3>1. i + 1 \in 1 .. 1 + g /\ ~(i + 1 <= 1) /\ (i + 1) - 1 = i
      BY <2>2
    <3> QED
      BY <2>9, <3>1
  <2>12. OutputCalls(reg, k, e) = s \o gets
    BY <2>1 DEF s, reg, e, n, g, gets
  <2> QED
    BY <1>2, <2>2, <2>7, <2>9, <2>10, <2>11, <2>12 DEF reg, e, n, g
<1> QED
  BY <1>4, <1>5

(* The calls that fetch the output of the k-th register are found where    *)
(* they begin.                                                             *)
LEMMA AllGetsAre ==
    ASSUME NEW x \in Shifts
    PROVE  LET L == AllGets(x)
               n == Len(x.regs)
           IN  /\ L \in Seq(GetsOf(x)) /\ Len(L) = FirstGet(x, n + 1)
               /\ FirstGet(x, 1) = 0
               /\ \A k \in 1 .. n + 1 : FirstGet(x, k) \in Nat
               /\ \A k \in 1 .. n :
                    LET m == Fetches(x.regs[k], ExitOf(x, k))
                    IN  /\ FirstGet(x, k + 1) = FirstGet(x, k) + m
                        /\ FirstGet(x, k) + m <= Len(L)
                        /\ \A i \in 1 .. m : L[FirstGet(x, k) + i] =
                                OutputCalls(x.regs[k], k, ExitOf(x, k))[i]
<1> DEFINE n == Len(x.regs)
           r == Gets(x)
           L == First(r, n)
           T == GetsOf(x)
<1>1. n \in Nat
  BY RegistersOfShift
<1>2. ASSUME NEW k \in 1 .. n
      PROVE  r[k] = OutputCalls(x.regs[k], k, ExitOf(x, k))
             /\ r[k] \in Seq(T) /\ Len(r[k]) = Fetches(x.regs[k], ExitOf(x, k))
  <2>1. r[k] = OutputCalls(x.regs[k], k, ExitOf(x, k))
    BY DEF Gets
  <2> HIDE DEF r, T
  <2>2. /\ OutputCalls(x.regs[k], k, ExitOf(x, k)) \in Seq(T)
        /\ Len(OutputCalls(x.regs[k], k, ExitOf(x, k))) = Fetches(x.regs[k], ExitOf(x, k))
    BY GetsAre DEF T
  <2> QED
    BY <2>1, <2>2
<1>3. r = [k \in 1 .. n |-> r[k]]
  BY DEF Gets
<1> HIDE DEF n, r, T
<1>4. r \in [1 .. n -> Seq(T)]
  BY <1>2, <1>3
<1>5. /\ L \in Seq(T) /\ Len(L) = StartOf(r, n + 1)
      /\ StartOf(r, 1) = 0
      /\ \A k \in 1 .. n + 1 : StartOf(r, k) \in Nat
      /\ \A k \in 1 .. n : /\ StartOf(r, k + 1) = StartOf(r, k) + Len(r[k])
                           /\ StartOf(r, k + 1) <= Len(L)
                           /\ \A i \in 1 .. Len(r[k]) : L[StartOf(r, k) + i] = r[k][i]
  <2>1. FoundIn(T, r, n)
    BY <1>1, <1>4, JoinedIs
  <2> QED
    BY <2>1 DEF FoundIn
<1> HIDE DEF L
<1>6. AllGets(x) = L /\ \A k : FirstGet(x, k) = StartOf(r, k)
  BY DEF AllGets, L, r, n, FirstGet
<1>7. ASSUME NEW k \in 1 .. n
      PROVE  LET m == Fetches(x.regs[k], ExitOf(x, k))
             IN  /\ StartOf(r, k + 1) = StartOf(r, k) + m
                 /\ StartOf(r, k) + m <= Len(L)
                 /\ \A i \in 1 .. m : L[StartOf(r, k) + i] =
                        OutputCalls(x.regs[k], k, ExitOf(x, k))[i]
  BY <1>2, <1>5
<1> QED
  BY <1>5, <1>6, <1>7 DEF n, T

-----------------------------------------------------------------------------
(* How far an exchange is: the tracked state, how many bits of the stream  *)
(* have left the chain, and how many results were asked for.               *)
Places == [st : States, p : Nat, q : Nat]
Place(st, p, q) == [st |-> st, p |-> p, q |-> q]

(* A clock moves one bit on in a shift state, none elsewhere. *)
ClockCarried(S, c, op, d) ==
    /\ d.st = StateClocks(c.st, op.tms, op.n)
    /\ d.q = c.q
    /\ \/ /\ op.n = 1
          /\ c.st \in ShiftStates
          /\ op.tdi = S[c.p + Cells + 1]
          /\ d.p = c.p + 1
       \/ /\ op.n \in {1, 2}
          /\ c.st \notin ShiftStates
          /\ op.n = 2 => StateClock(c.st, op.tms) \notin ShiftStates
          /\ d.p = c.p

(* The call that fetches the result is the next in order, and takes the    *)
(* result for what it is.                                                  *)
TransferAsked(x, c, act) ==
    /\ c.q + 1 \in 1 .. Len(AllGets(x))
    /\ AllGets(x)[c.q + 1].op = "transfer_late"
    /\ LET k == AllGets(x)[c.q + 1].reg
       IN  /\ c.p = FirstBit(x, k)
           /\ Len(act.in) = Transferred(x.regs[k], ExitOf(x, k))

SampleAsked(x, c) ==
    /\ c.q + 1 \in 1 .. Len(AllGets(x))
    /\ AllGets(x)[c.q + 1].op = "get_tdo_late"
    /\ LET get == AllGets(x)[c.q + 1]
       IN  c.p + 1 = FirstBit(x, get.reg) + get.at

DeferCarried(x, S, c, act, d) ==
    /\ d.st = c.st
    /\ IF act.action = "TRANSFER"
       THEN /\ act.in = <<>> \/ c.st \in ShiftStates
            /\ \A i \in 1 .. Len(act.in) : act.in[i] = S[c.p + Cells + i]
            /\ d.p = c.p + Len(act.in)
            /\ IF act.keep THEN TransferAsked(x, c, act) /\ d.q = c.q + 1 ELSE d.q = c.q
       ELSE SampleAsked(x, c) /\ d.p = c.p /\ d.q = c.q + 1

ShiftCarried(x, c, op, d) ==
    \E k \in 1 .. Len(x.regs), path \in {"DR", "IR"} :
        /\ op.reg = x.regs[k] /\ op.exit = ExitOf(x, k)
        /\ c.st \in ReadyToShift(path)
        /\ c.p = FirstBit(x, k) /\ c.q = FirstGet(x, k)
        /\ d = Place(Destination(path)[op.exit], FirstBit(x, k + 1), FirstGet(x, k + 1))

(* A call of an exchange takes it from one place to another. *)
Carried(x, S, c, op, d) ==
    \/ op.op = "defer_clock" /\ ClockCarried(S, c, op, d)
    \/ op.op = "defer" /\ DeferCarried(x, S, c, op.act, d)
    \/ op.op = "defer_shift" /\ ShiftCarried(x, c, op, d)

Runs(x, S, c, s, d) ==
    \E f \in [0 .. Len(s) -> Places] :
        /\ f[0] = c
        /\ f[Len(s)] = d
        /\ \A i \in 1 .. Len(s) : Carried(x, S, f[i - 1], s[i], f[i])

(* No calls. *)
LEMMA RunsEmpty ==
    ASSUME NEW x, NEW S, NEW c \in Places
    PROVE  Runs(x, S, c, <<>>, c)
<1> DEFINE f == [i \in 0 .. 0 |-> c]
<1>1. /\ f \in [0 .. Len(<<>>) -> Places]
      /\ f[0] = c /\ f[Len(<<>>)] = c
      /\ \A i \in 1 .. Len(<<>>) : Carried(x, S, f[i - 1], <<>>[i], f[i])
  OBVIOUS
<1> QED
  BY <1>1 DEF Runs

(* One. *)
LEMMA RunsOne ==
    ASSUME NEW x, NEW S, NEW c \in Places, NEW d \in Places, NEW op, Carried(x, S, c, op, d)
    PROVE  Runs(x, S, c, <<op>>, d)
<1> DEFINE f == [i \in 0 .. 1 |-> IF i = 0 THEN c ELSE d]
<1>1. Len(<<op>>) = 1 /\ <<op>>[1] = op
  OBVIOUS
<1>2. /\ f \in [0 .. 1 -> Places]
      /\ f[0] = c /\ f[1] = d
      /\ \A i \in 1 .. 1 : Carried(x, S, f[i - 1], <<op>>[i], f[i])
  BY <1>1
<1> QED
  BY <1>1, <1>2 DEF Runs

(* Some after others. *)
LEMMA RunsConcat ==
    ASSUME NEW x, NEW S, NEW c \in Places, NEW d \in Places, NEW e \in Places,
           NEW s \in Seq(Ops), NEW t \in Seq(Ops), Runs(x, S, c, s, d), Runs(x, S, d, t, e)
    PROVE  Runs(x, S, c, s \o t, e)
<1>1. PICK f \in [0 .. Len(s) -> Places] :
        /\ f[0] = c /\ f[Len(s)] = d
        /\ \A i \in 1 .. Len(s) : Carried(x, S, f[i - 1], s[i], f[i])
  BY DEF Runs
<1>2. PICK g \in [0 .. Len(t) -> Places] :
        /\ g[0] = d /\ g[Len(t)] = e
        /\ \A i \in 1 .. Len(t) : Carried(x, S, g[i - 1], t[i], g[i])
  BY DEF Runs
<1>3. /\ Len(s) \in Nat /\ Len(t) \in Nat
      /\ Len(s \o t) = Len(s) + Len(t)
      /\ \A i \in 1 .. Len(s) + Len(t) :
            (s \o t)[i] = IF i <= Len(s) THEN s[i] ELSE t[i - Len(s)]
  BY ConcatProperties, LenProperties
<1> DEFINE m == Len(s)
           n == Len(t)
           h == [i \in 0 .. m + n |-> IF i <= m THEN f[i] ELSE g[i - m]]
<1> HIDE DEF m, n
<1>4. h \in [0 .. m + n -> Places]
  <2>1. ASSUME NEW i \in 0 .. m + n PROVE (IF i <= m THEN f[i] ELSE g[i - m]) \in Places
    <3>1. (i <= m => i \in 0 .. m) /\ (~(i <= m) => i - m \in 0 .. n)
      BY <1>3 DEF m, n
    <3> QED
      BY <3>1 DEF m, n
  <2> QED
    BY <2>1
<1>5. h[0] = c /\ h[m + n] = e
  <2>1. 0 \in 0 .. m + n /\ m + n \in 0 .. m + n /\ 0 <= m
    BY <1>3 DEF m, n
  <2>2. h[0] = c
    BY <1>1, <2>1
  <2>3. CASE n = 0
    <3>1. m + n = m /\ m <= m
      BY <1>3, <2>3 DEF m
    <3> QED
      BY <1>1, <1>2, <2>1, <2>2, <2>3, <3>1 DEF m, n
  <2>4. CASE n # 0
    <3>1. ~(m + n <= m) /\ (m + n) - m = n
      BY <1>3, <2>4 DEF m, n
    <3> QED
      BY <1>2, <2>1, <2>2, <3>1 DEF n
  <2> QED
    BY <2>3, <2>4
<1>6. ASSUME NEW i \in 1 .. m + n PROVE Carried(x, S, h[i - 1], (s \o t)[i], h[i])
  <2>0. i \in 0 .. m + n /\ i - 1 \in 0 .. m + n
    BY <1>3 DEF m, n
  <2>1. CASE i <= m
    <3>1. i \in 1 .. m /\ i - 1 <= m
      BY <1>3, <2>1 DEF m
    <3>2. h[i - 1] = f[i - 1] /\ h[i] = f[i] /\ (s \o t)[i] = s[i]
      BY <1>3, <2>0, <2>1, <3>1 DEF m, n
    <3> HIDE DEF h
    <3> QED
      BY <1>1, <3>1, <3>2 DEF m
  <2>2. CASE ~(i <= m)
    <3> DEFINE j == i - m
    <3>1. j \in 1 .. n /\ (i - 1) - m = j - 1 /\ (i - 1 <= m => i - 1 = m /\ j - 1 = 0)
      BY <1>3, <2>2 DEF m, n
    <3>2. h[i] = g[j] /\ (s \o t)[i] = t[j]
      BY <1>3, <2>0, <2>2 DEF m, n
    <3>3. h[i - 1] = g[j - 1]
      <4>1. CASE i - 1 <= m
        BY <1>1, <1>2, <2>0, <3>1, <4>1 DEF m
      <4>2. CASE ~(i - 1 <= m)
        BY <2>0, <3>1, <4>2
      <4> QED
        BY <4>1, <4>2
    <3> HIDE DEF h, j
    <3> QED
      BY <1>2, <3>1, <3>2, <3>3 DEF n
  <2> QED
    BY <2>1, <2>2
<1> HIDE DEF h
<1> QED
  BY <1>3, <1>4, <1>5, <1>6 DEF Runs, m, n

(* The first, and the rest. *)
LEMMA RunsTail ==
    ASSUME NEW x, NEW S, NEW c, NEW e, NEW s \in Seq(Ops), s # <<>>, Runs(x, S, c, s, e)
    PROVE  \E d \in Places : Carried(x, S, c, Head(s), d) /\ Runs(x, S, d, Tail(s), e)
<1>1. PICK f \in [0 .. Len(s) -> Places] :
        /\ f[0] = c /\ f[Len(s)] = e
        /\ \A i \in 1 .. Len(s) : Carried(x, S, f[i - 1], s[i], f[i])
  BY DEF Runs
<1>2. /\ Len(s) \in Nat \ {0} /\ Head(s) = s[1]
      /\ Len(Tail(s)) = Len(s) - 1
      /\ \A i \in 1 .. Len(s) - 1 : Tail(s)[i] = s[i + 1]
  BY EmptySeq, HeadTailProperties, ElementOfSeq
<1>3. f[1] \in Places /\ Carried(x, S, c, Head(s), f[1])
  BY <1>1, <1>2
<1> DEFINE g == [i \in 0 .. Len(s) - 1 |-> f[i + 1]]
<1>4. /\ g \in [0 .. Len(Tail(s)) -> Places]
      /\ g[0] = f[1] /\ g[Len(Tail(s))] = e
      /\ \A i \in 1 .. Len(Tail(s)) : Carried(x, S, g[i - 1], Tail(s)[i], g[i])
  BY <1>1, <1>2
<1>5. Runs(x, S, f[1], Tail(s), e)
  BY <1>4 DEF Runs
<1> QED
  BY <1>3, <1>5

-----------------------------------------------------------------------------
(* The shift of one register. *)

(* What was said of the stream and the fetching, for one register. *)
RegisterAt(x, S, k) ==
    LET reg == x.regs[k]
        n == Transferred(reg, ExitOf(x, k))
    IN  /\ reg \in Registers /\ ExitOf(x, k) \in ExitModes
        /\ Len(reg.in) \in Nat /\ n \in 0 .. Len(reg.in) /\ k \in Nat
        /\ reg.outlen \in Nat /\ (reg.outlen # NoOut => n <= reg.outlen)
        /\ ExitOf(x, k) # "SHIFT" => n < Len(reg.in)
        /\ FirstBit(x, k) \in Nat /\ FirstGet(x, k) \in Nat
        /\ FirstBit(x, k + 1) = FirstBit(x, k) + Len(reg.in)
        /\ FirstGet(x, k + 1) = FirstGet(x, k) + Fetches(reg, ExitOf(x, k))
        /\ \A i \in 1 .. Len(reg.in) : S[FirstBit(x, k) + Cells + i] = reg.in[i]
        /\ reg.outlen # NoOut =>
            /\ FirstGet(x, k) + 1 \in 1 .. Len(AllGets(x))
            /\ AllGets(x)[FirstGet(x, k) + 1] = [op |-> "transfer_late", reg |-> k]
        /\ \A i \in n + 1 .. Len(reg.in) :
            i <= reg.outlen =>
                /\ FirstGet(x, k) + 1 + (i - n) \in 1 .. Len(AllGets(x))
                /\ AllGets(x)[FirstGet(x, k) + 1 + (i - n)] =
                        [op |-> "get_tdo_late", reg |-> k, at |-> i]

(* So much is true of every register of an exchange. *)
LEMMA RegistersAre ==
    ASSUME NEW x \in Shifts, NEW cells \in [1 .. Cells -> Bit], NEW k \in 1 .. Len(x.regs)
    PROVE  RegisterAt(x, Stream(x, cells), k)
<1> DEFINE reg == x.regs[k]
           e == ExitOf(x, k)
           n == Transferred(reg, e)
           m == Fetches(reg, e)
           S == Stream(x, cells)
           L == AllGets(x)
           p == FirstBit(x, k)
           q == FirstGet(x, k)
<1>1. reg \in Registers /\ e \in ExitModes /\ k \in Nat
  BY RegistersOfShift DEF ExitOf, ExitModes
<1>2. Len(reg.in) \in Nat /\ reg.outlen \in Nat
  BY <1>1, LenProperties DEF Registers
<1>3. /\ n \in 0 .. Len(reg.in) /\ (e # "SHIFT" => n < Len(reg.in))
      /\ Upto(reg) \in Nat /\ m \in Nat /\ (reg.outlen # NoOut => n <= Upto(reg))
  BY <1>1, TransferredBound, TransferredUpto
<1>4. k \in 1 .. Len(x.regs) + 1
  BY RegistersOfShift
<1>5. /\ p \in Nat /\ FirstBit(x, k + 1) = p + Len(reg.in)
      /\ \A i \in 1 .. Len(reg.in) : S[p + Cells + i] = reg.in[i]
  BY <1>4, StreamIs
<1>6. /\ q \in Nat /\ FirstGet(x, k + 1) = q + m /\ q + m <= Len(L)
      /\ \A i \in 1 .. m : L[q + i] = OutputCalls(reg, k, e)[i]
      /\ Len(L) \in Nat
  <2>1. L \in Seq(GetsOf(x))
    BY AllGetsAre
  <2>2. Len(L) \in Nat
    BY <2>1, LenProperties
  <2> QED
    BY <1>4, <2>2, AllGetsAre
<1>7. reg.outlen # NoOut =>
        /\ 1 \in 1 .. m
        /\ OutputCalls(reg, k, e)[1] = [op |-> "transfer_late", reg |-> k]
        /\ \A i \in 1 .. Upto(reg) - n :
            /\ i + 1 \in 1 .. m
            /\ OutputCalls(reg, k, e)[i + 1] = [op |-> "get_tdo_late", reg |-> k, at |-> n + i]
  BY GetsAre
<1>8. reg.outlen # NoOut => n <= reg.outlen
  BY <1>2, <1>3 DEF Upto
<1>9. ASSUME reg.outlen # NoOut
      PROVE  q + 1 \in 1 .. Len(L) /\ L[q + 1] = [op |-> "transfer_late", reg |-> k]
  BY <1>3, <1>6, <1>7, <1>9
<1>10. ASSUME NEW i \in n + 1 .. Len(reg.in), i <= reg.outlen
       PROVE  /\ q + 1 + (i - n) \in 1 .. Len(L)
              /\ L[q + 1 + (i - n)] = [op |-> "get_tdo_late", reg |-> k, at |-> i]
  <2> DEFINE j == i - n
  <2>1. n \in Nat /\ i \in Nat /\ i <= Len(reg.in) /\ i > n
    BY <1>2, <1>3
  <2>2. reg.outlen # NoOut /\ j \in 1 .. Upto(reg) - n /\ n + j = i
    BY <1>2, <1>3, <1>10, <2>1 DEF NoOut, Upto
  <2> HIDE DEF j, m, n, q, L
  <2>3. /\ j + 1 \in 1 .. m
        /\ OutputCalls(reg, k, e)[j + 1] = [op |-> "get_tdo_late", reg |-> k, at |-> i]
    BY <1>7, <2>2
  <2>4. q + (j + 1) = q + 1 + j /\ q + (j + 1) \in 1 .. Len(L)
    BY <1>6, <1>3, <2>2, <2>3
  <2>5. L[q + (j + 1)] = [op |-> "get_tdo_late", reg |-> k, at |-> i]
    BY <1>6, <2>3
  <2> QED
    BY <2>4, <2>5 DEF j
<1> HIDE DEF S, L
<1> QED
  BY <1>1, <1>2, <1>3, <1>5, <1>6, <1>8, <1>9, <1>10 DEF RegisterAt, S, L

(* After the i-th bit of a register. *)
Got(x, k, i) ==
    LET reg == x.regs[k]
    IN  IF reg.outlen = NoOut THEN 0
        ELSE 1 + ((IF i < reg.outlen THEN i ELSE reg.outlen)
                  - Transferred(reg, ExitOf(x, k)))

AfterBit(x, k, path, i) ==
    Place(IF ExitOf(x, k) # "SHIFT" /\ i = Len(x.regs[k].in)
          THEN Exit1State(path) ELSE ShiftState(path),
          FirstBit(x, k) + i, FirstGet(x, k) + Got(x, k, i))

(* That is a place an exchange can be at. *)
LEMMA AfterBitIs ==
    ASSUME NEW x, NEW S, NEW k, RegisterAt(x, S, k), NEW path \in {"DR", "IR"},
           NEW i \in Transferred(x.regs[k], ExitOf(x, k)) .. Len(x.regs[k].in)
    PROVE  AfterBit(x, k, path, i) \in Places /\ Got(x, k, i) \in Nat
<1> DEFINE reg == x.regs[k]
           n == Transferred(reg, ExitOf(x, k))
<1>1. /\ Len(reg.in) \in Nat /\ n \in 0 .. Len(reg.in)
      /\ reg.outlen \in Nat /\ (reg.outlen # NoOut => n <= reg.outlen)
      /\ FirstBit(x, k) \in Nat /\ FirstGet(x, k) \in Nat
  BY DEF RegisterAt
<1>2. Got(x, k, i) \in Nat
  BY <1>1 DEF Got
<1>3. Exit1State(path) \in States /\ ShiftState(path) \in States
  BY StatesAre DEF ExitModes
<1> HIDE DEF reg, n
<1>4. FirstBit(x, k) + i \in Nat /\ FirstGet(x, k) + Got(x, k, i) \in Nat
  <2>1. i \in Nat
    BY <1>1 DEF n, reg
  <2> QED
    BY <1>1, <1>2, <2>1
<1> QED
  BY <1>2, <1>3, <1>4 DEF AfterBit, Place, Places

(* The sample and the clock of one bit take the exchange past it. *)
LEMMA BitCallsRun ==
    ASSUME NEW x, NEW S, NEW k, RegisterAt(x, S, k), NEW path \in {"DR", "IR"},
           NEW i \in Transferred(x.regs[k], ExitOf(x, k)) + 1 .. Len(x.regs[k].in)
    PROVE  /\ BitCalls(x.regs[k], ExitOf(x, k), i) \in Seq(Ops)
           /\ Runs(x, S, AfterBit(x, k, path, i - 1),
                   BitCalls(x.regs[k], ExitOf(x, k), i), AfterBit(x, k, path, i))
<1> DEFINE reg == x.regs[k]
           e == ExitOf(x, k)
           n == Transferred(reg, e)
           L == AllGets(x)
           p == FirstBit(x, k)
           q == FirstGet(x, k)
           tms == IF e # "SHIFT" /\ i = Len(reg.in) THEN 1 ELSE 0
           get == DeferOp([action |-> "GET_TDO"])
           clock == DeferClockOp(tms, reg.in[i], 1)
           st == ShiftState(path)
           to == IF e # "SHIFT" /\ i = Len(reg.in) THEN Exit1State(path) ELSE st
           c == AfterBit(x, k, path, i - 1)
           d == AfterBit(x, k, path, i)
           mid == Place(st, p + (i - 1), q + Got(x, k, i))
<1>1. /\ Len(reg.in) \in Nat /\ n \in 0 .. Len(reg.in) /\ reg \in Registers /\ e \in ExitModes
      /\ reg.outlen \in Nat /\ (reg.outlen # NoOut => n <= reg.outlen)
      /\ p \in Nat /\ q \in Nat /\ k \in Nat
      /\ \A j \in 1 .. Len(reg.in) : S[p + Cells + j] = reg.in[j]
      /\ i <= reg.outlen =>
            /\ q + 1 + (i - n) \in 1 .. Len(L)
            /\ L[q + 1 + (i - n)] = [op |-> "get_tdo_late", reg |-> k, at |-> i]
  BY DEF RegisterAt
<1>2. i \in 1 .. Len(reg.in) /\ i \in n .. Len(reg.in) /\ i - 1 \in n .. Len(reg.in)
      /\ i - 1 # Len(reg.in) /\ i \in Nat
  BY <1>1
<1>3. c \in Places /\ d \in Places /\ Got(x, k, i) \in Nat /\ Got(x, k, i - 1) \in Nat
  BY <1>2, AfterBitIs
<1>4. c = Place(st, p + (i - 1), q + Got(x, k, i - 1)) /\ d = Place(to, p + i, q + Got(x, k, i))
  BY <1>2 DEF AfterBit
<1>5. st \in States /\ to \in States /\ st \in ShiftStates /\ StateClock(st, tms) = to
  BY StatesAre, Moves DEF ExitModes
<1>6. mid \in Places
  <2>1. p \in Nat /\ q \in Nat /\ i - 1 \in Nat /\ Got(x, k, i) \in Nat
    <3>1. n \in Nat /\ i - 1 \in n .. Len(reg.in) /\ Len(reg.in) \in Nat
      BY <1>1, <1>2
    <3> QED
      BY <1>1, <1>3, <3>1
  <2>2. p + (i - 1) \in Nat /\ q + Got(x, k, i) \in Nat
    BY <2>1
  <2> QED
    BY <1>5, <2>2 DEF Place, Places
<1>7. Got(x, k, i) = (IF i <= reg.outlen THEN 1 + Got(x, k, i - 1) ELSE Got(x, k, i - 1))
      /\ (i <= reg.outlen => Got(x, k, i - 1) = i - n)
  <2>1. CASE reg.outlen = NoOut
    <3>1. ~(i <= reg.outlen)
      BY <1>2, <2>1 DEF NoOut
    <3> QED
      BY <2>1, <3>1 DEF Got
  <2>2. CASE reg.outlen # NoOut
    <3>1. /\ Got(x, k, i) = 1 + ((IF i < reg.outlen THEN i ELSE reg.outlen) - n)
          /\ Got(x, k, i - 1) = 1 + ((IF i - 1 < reg.outlen THEN i - 1 ELSE reg.outlen) - n)
      BY <2>2 DEF Got
    <3> DEFINE o == reg.outlen
    <3>2. n \in Nat /\ o \in Nat /\ n <= o /\ i \in Nat /\ n < i
      BY <1>1, <1>2, <2>2
    <3> HIDE DEF o, n
    <3> QED
      BY <3>1, <3>2 DEF o
  <2> QED
    BY <2>1, <2>2
<1>8. get \in Ops /\ clock \in Ops
  <2>1. reg.in[i] \in Bit /\ tms \in Bit
    <3>1. reg.in \in Seq(Bit)
      BY <1>1 DEF Registers
    <3> QED
      BY <1>2, <3>1, ElementOfSeq DEF Bit
  <2> HIDE DEF tms
  <2>2. clock \in DeferClockOps
    BY <2>1 DEF DeferClockOp, DeferClockOps
  <2>3. get \in DeferOps
    BY DEF DeferOp, DeferOps, Acts
  <2> QED
    BY <2>2, <2>3, OpsInOps
<1>9. Carried(x, S, mid, clock, d)
  <2>1. clock.op = "defer_clock" /\ clock.tms = tms /\ clock.n = 1 /\ clock.tdi = reg.in[i]
    BY DEF DeferClockOp
  <2>2. mid.st = st /\ mid.p = p + (i - 1) /\ mid.q = q + Got(x, k, i)
    BY DEF Place
  <2>3. d.st = to /\ d.p = p + i /\ d.q = q + Got(x, k, i)
    BY <1>4 DEF Place
  <2>4. mid.p + Cells + 1 = p + Cells + i /\ d.p = mid.p + 1
    BY <1>1, <1>2, <2>2, <2>3, CellsAssumption
  <2>5. S[mid.p + Cells + 1] = reg.in[i]
    BY <1>1, <1>2, <2>4
  <2>6. StateClocks(st, tms, 1) = to
    BY <1>5, OneClock
  <2> HIDE DEF mid, clock, d, st, to, tms, reg, e
  <2>7. ClockCarried(S, mid, clock, d)
    BY <1>5, <2>1, <2>2, <2>3, <2>4, <2>5, <2>6 DEF ClockCarried
  <2> QED
    BY <2>1, <2>7 DEF Carried
<1>10. BitCalls(reg, e, i) = (IF i <= reg.outlen THEN <<get>> ELSE <<>>) \o <<clock>>
  BY DEF BitCalls
<1>11. CASE i <= reg.outlen
  <2>1. Carried(x, S, c, get, mid)
    <3>1. get.op = "defer" /\ get.act.action = "GET_TDO"
      BY DEF DeferOp
    <3>2. c.st = st /\ c.p = p + (i - 1) /\ c.q = q + (i - n)
      BY <1>4, <1>7, <1>11 DEF Place
    <3>3. mid.st = st /\ mid.p = p + (i - 1) /\ mid.q = q + (1 + (i - n))
      BY <1>7, <1>11 DEF Place
    <3>4. c.q + 1 = q + 1 + (i - n) /\ mid.q = c.q + 1 /\ c.p + 1 = p + i
      BY <1>1, <1>2, <3>2, <3>3
    <3> HIDE DEF c, mid, get, L, n, st
    <3>5. /\ c.q + 1 \in 1 .. Len(L)
          /\ L[c.q + 1] = [op |-> "get_tdo_late", reg |-> k, at |-> i]
      BY <1>1, <1>11, <3>4
    <3>6. SampleAsked(x, c)
      BY <3>4, <3>5 DEF SampleAsked, L
    <3>7. DeferCarried(x, S, c, get.act, mid)
      BY <3>1, <3>2, <3>3, <3>4, <3>6 DEF DeferCarried
    <3> QED
      BY <3>1, <3>7 DEF Carried
  <2> HIDE DEF c, d, mid, get, clock, reg, e
  <2>2. Runs(x, S, c, <<get>>, mid) /\ Runs(x, S, mid, <<clock>>, d)
    BY <1>3, <1>6, <1>9, <2>1, RunsOne
  <2>3. <<get>> \in Seq(Ops) /\ <<clock>> \in Seq(Ops)
    BY <1>8
  <2> DEFINE s == <<get>>
             t == <<clock>>
  <2> HIDE DEF s, t
  <2>4. Runs(x, S, c, s \o t, d) /\ s \o t \in Seq(Ops)
    BY <1>3, <1>6, <2>2, <2>3, RunsConcat, ConcatProperties DEF s, t
  <2> QED
    BY <1>10, <1>11, <2>4 DEF s, t, c, d, reg, e
<1>12. CASE ~(i <= reg.outlen)
  <2>1. mid = c
    BY <1>4, <1>7, <1>12
  <2> HIDE DEF c, d, mid, get, clock, reg, e
  <2>2. Runs(x, S, c, <<clock>>, d)
    BY <1>3, <1>9, <2>1, RunsOne
  <2>3. <<clock>> \in Seq(Ops) /\ <<>> \o <<clock>> = <<clock>>
    BY <1>8
  <2> QED
    BY <1>10, <1>12, <2>2, <2>3 DEF c, d, reg, e
<1> QED
  BY <1>11, <1>12

(* All bits after those of the transfer. *)
LEMMA BitsRun ==
    ASSUME NEW x, NEW S, NEW k, RegisterAt(x, S, k), NEW path \in {"DR", "IR"}, NEW f,
           Gathered(f, x.regs[k], ExitOf(x, k),
                    Transferred(x.regs[k], ExitOf(x, k)), Len(x.regs[k].in))
    PROVE  /\ f[Len(x.regs[k].in)] \in Seq(Ops)
           /\ Runs(x, S, AfterBit(x, k, path, Transferred(x.regs[k], ExitOf(x, k))),
                   f[Len(x.regs[k].in)], AfterBit(x, k, path, Len(x.regs[k].in)))
<1> DEFINE reg == x.regs[k]
           e == ExitOf(x, k)
           n == Transferred(reg, e)
           m == Len(reg.in)
           op(i) == BitCalls(reg, e, i)
           spot(i) == AfterBit(x, k, path, i)
           Good(i) == f[i] \in Seq(Ops) /\ Runs(x, S, spot(n), f[i], spot(i))
           P == {j \in Nat : n + j <= m => Good(n + j)}
<1>1. n \in Nat /\ m \in Nat /\ n <= m
  BY DEF RegisterAt
<1>2. \A i \in n .. m : f[i] = IF i = n THEN <<>> ELSE f[i - 1] \o op(i)
  BY DEF Gathered
<1>3. ASSUME NEW i \in n + 1 .. m
      PROVE  op(i) \in Seq(Ops) /\ Runs(x, S, spot(i - 1), op(i), spot(i))
  BY BitCallsRun
<1>4. ASSUME NEW i \in n .. m PROVE spot(i) \in Places
  BY AfterBitIs
<1> HIDE DEF n, m, op, spot
<1>5. 0 \in P
  <2>1. f[n] = <<>> /\ n + 0 = n /\ n \in n .. m
    BY <1>1, <1>2
  <2>2. <<>> \in Seq(Ops) /\ Runs(x, S, spot(n), <<>>, spot(n))
    BY <1>4, <2>1, RunsEmpty
  <2> QED
    BY <2>1, <2>2
<1>6. ASSUME NEW j \in Nat, j \in P PROVE j + 1 \in P
  <2> DEFINE i == n + (j + 1)
  <2> SUFFICES ASSUME i <= m PROVE Good(i)
    OBVIOUS
  <2>1. /\ i \in n + 1 .. m /\ i \in n .. m /\ i # n /\ i - 1 = n + j /\ n + j <= m
        /\ n + j \in n .. m /\ n \in n .. m
    BY <1>1
  <2>2. Good(n + j)
    <3> HIDE DEF Good
    <3>1. n + j <= m => Good(n + j)
      BY <1>6
    <3> QED
      BY <2>1, <3>1
  <2>3. f[i] = f[n + j] \o op(i)
    BY <1>2, <2>1
  <2> HIDE DEF i
  <2>4. op(i) \in Seq(Ops) /\ Runs(x, S, spot(n + j), op(i), spot(i))
    BY <1>3, <2>1
  <2>5. spot(n) \in Places /\ spot(n + j) \in Places /\ spot(i) \in Places
    BY <1>4, <2>1
  <2>6. f[n + j] \in Seq(Ops) /\ Runs(x, S, spot(n), f[n + j], spot(n + j))
    BY <2>2
  <2>7. Runs(x, S, spot(n), f[n + j] \o op(i), spot(i))
    BY <2>4, <2>5, <2>6, RunsConcat
  <2> QED
    BY <2>3, <2>4, <2>6, <2>7, ConcatProperties
<1>7. m - n \in P
  <2>1. m - n \in Nat
    BY <1>1
  <2> HIDE DEF P
  <2> QED
    BY <1>5, <1>6, <2>1, SetInduction
<1>8. Good(m)
  <2> HIDE DEF Good
  <2>1. n + (m - n) = m /\ m <= m
    BY <1>1
  <2> QED
    BY <1>7, <2>1
<1> QED
  BY <1>8 DEF n, m, spot, reg, e

(* A deferred clock between states that do not shift, or out of one. *)
LEMMA ClockRuns ==
    ASSUME NEW x, NEW S, NEW a \in States, NEW b \in States, NEW p \in Nat, NEW q \in Nat,
           NEW tms \in Bit, a \notin ShiftStates, b = StateClock(a, tms)
    PROVE  /\ <<DeferClockOp(tms, 0, 1)>> \in Seq(Ops)
           /\ Runs(x, S, Place(a, p, q), <<DeferClockOp(tms, 0, 1)>>, Place(b, p, q))
<1> DEFINE op == DeferClockOp(tms, 0, 1)
           c == Place(a, p, q)
           d == Place(b, p, q)
<1>1. op \in DeferClockOps /\ op.op = "defer_clock" /\ op.tms = tms /\ op.n = 1
  BY DEF DeferClockOp, DeferClockOps, Bit
<1>2. c \in Places /\ d \in Places
  BY DEF Place, Places
<1>3. c.st = a /\ c.p = p /\ c.q = q /\ d.st = b /\ d.p = p /\ d.q = q
  BY DEF Place
<1>4. StateClocks(a, tms, 1) = b
  BY OneClock
<1> HIDE DEF op, c, d
<1>5. ClockCarried(S, c, op, d)
  BY <1>1, <1>3, <1>4 DEF ClockCarried
<1>6. Carried(x, S, c, op, d)
  BY <1>1, <1>5 DEF Carried
<1>7. op \in Ops
  BY <1>1, OpsInOps
<1>8. Runs(x, S, c, <<op>>, d) /\ <<op>> \in Seq(Ops)
  BY <1>2, <1>6, <1>7, RunsOne
<1> QED
  BY <1>8 DEF op, c, d

(* The clocks after the last bit of a register. *)
LEMMA LeaveRuns ==
    ASSUME NEW x, NEW S, NEW path \in {"DR", "IR"}, NEW exit \in ExitModes,
           NEW p \in Nat, NEW q \in Nat
    PROVE  /\ LeaveCalls(exit) \in Seq(Ops)
           /\ Runs(x, S,
                   Place(IF exit # "SHIFT" THEN Exit1State(path) ELSE ShiftState(path), p, q),
                   LeaveCalls(exit), Place(Destination(path)[exit], p, q))
<1> DEFINE up == DeferClockOp(1, 0, 1)
           idle == DeferClockOp(0, 0, 1)
           e == Exit1State(path)
           u == UpdateState(path)
           r == "RUN_TEST_IDLE"
<1>1. 0 \in Bit /\ 1 \in Bit
  BY DEF Bit
<1>2. /\ e \in States /\ u \in States /\ r \in States /\ ShiftState(path) \in States
      /\ e \notin ShiftStates /\ u \notin ShiftStates
  BY StatesAre DEF Exit1State, UpdateState, ShiftStates
<1>3. <<up>> \in Seq(Ops) /\ Runs(x, S, Place(e, p, q), <<up>>, Place(u, p, q))
  BY <1>1, <1>2, Moves, ClockRuns
<1>4. <<idle>> \in Seq(Ops) /\ Runs(x, S, Place(u, p, q), <<idle>>, Place(r, p, q))
  BY <1>1, <1>2, Moves, ClockRuns
<1>5. \A a \in States : Place(a, p, q) \in Places
  BY DEF Place, Places
<1>6. CASE exit = "IDLE"
  <2>1. LeaveCalls(exit) = <<up, idle>>
    BY <1>6 DEF LeaveCalls
  <2>2. Destination(path)[exit] = r
    BY <1>6, StatesAre
  <2>3. up \in Ops /\ idle \in Ops
    <3>1. up \in DeferClockOps /\ idle \in DeferClockOps
      BY <1>1 DEF DeferClockOp, DeferClockOps
    <3> QED
      BY <3>1, OpsInOps
  <2> HIDE DEF up, idle, e, u
  <2>4. <<up, idle>> = <<up>> \o <<idle>>
    BY <2>3, PairIsConcat
  <2> DEFINE s == <<up>>
             t == <<idle>>
             a == Place(e, p, q)
             b == Place(u, p, q)
             d == Place(r, p, q)
  <2>5. /\ s \in Seq(Ops) /\ t \in Seq(Ops) /\ a \in Places /\ b \in Places /\ d \in Places
        /\ Runs(x, S, a, s, b) /\ Runs(x, S, b, t, d)
    BY <1>2, <1>3, <1>4, <1>5
  <2> HIDE DEF s, t, a, b, d
  <2>6. Runs(x, S, a, s \o t, d) /\ s \o t \in Seq(Ops)
    BY <2>5, RunsConcat, ConcatProperties
  <2> QED
    BY <1>6, <2>1, <2>2, <2>4, <2>6 DEF s, t, a, d, e
<1>7. CASE exit = "UPDATE"
  <2>1. LeaveCalls(exit) = <<up>> /\ Destination(path)[exit] = u
    BY <1>7, StatesAre DEF LeaveCalls
  <2> QED
    BY <1>3, <1>7, <2>1
<1>8. CASE exit \in {"SHIFT", "EXIT1"}
  <2>1. LeaveCalls(exit) = <<>> /\ <<>> \in Seq(Ops)
    BY <1>8 DEF LeaveCalls
  <2>2. Destination(path)[exit] = IF exit # "SHIFT" THEN Exit1State(path) ELSE ShiftState(path)
    BY <1>8, StatesAre
  <2>3. Place(Destination(path)[exit], p, q) \in Places
    BY <1>5, StatesAre
  <2> DEFINE a == Place(Destination(path)[exit], p, q)
  <2> HIDE DEF a
  <2>4. Runs(x, S, a, <<>>, a)
    BY <2>3, RunsEmpty DEF a
  <2> QED
    BY <2>1, <2>2, <2>4 DEF a
<1> QED
  BY <1>6, <1>7, <1>8 DEF ExitModes

(* The transfer of the first bits. *)
LEMMA TransferRuns ==
    ASSUME NEW x, NEW S, NEW k, RegisterAt(x, S, k), NEW path \in {"DR", "IR"}
    PROVE  LET n == Transferred(x.regs[k], ExitOf(x, k))
               op == TransferCall(x.regs[k], n)
           IN  /\ <<op>> \in Seq(Ops)
               /\ Runs(x, S, Place(ShiftState(path), FirstBit(x, k), FirstGet(x, k)),
                       <<op>>, AfterBit(x, k, path, n))
<1> DEFINE reg == x.regs[k]
           e == ExitOf(x, k)
           n == Transferred(reg, e)
           in == SubSeq(reg.in, 1, n)
           op == TransferCall(reg, n)
           L == AllGets(x)
           p == FirstBit(x, k)
           q == FirstGet(x, k)
           st == ShiftState(path)
           c == Place(st, p, q)
           d == AfterBit(x, k, path, n)
           one == IF reg.outlen = NoOut THEN 0 ELSE 1
<1>1. /\ Len(reg.in) \in Nat /\ n \in 0 .. Len(reg.in) /\ reg \in Registers
      /\ reg.outlen \in Nat /\ (reg.outlen # NoOut => n <= reg.outlen)
      /\ (e # "SHIFT" => n < Len(reg.in))
      /\ p \in Nat /\ q \in Nat /\ k \in Nat
      /\ \A j \in 1 .. Len(reg.in) : S[p + Cells + j] = reg.in[j]
      /\ (reg.outlen # NoOut =>
            q + 1 \in 1 .. Len(L) /\ L[q + 1] = [op |-> "transfer_late", reg |-> k])
  BY DEF RegisterAt
<1>2. /\ in \in Seq(Bit) /\ Len(in) = n /\ \A i \in 1 .. n : in[i] = reg.in[i]
  <2> DEFINE s == reg.in
  <2>1. s \in Seq(Bit) /\ n \in 0 .. Len(s)
    BY <1>1 DEF Registers
  <2> HIDE DEF n, s
  <2>2. \A i \in 1 .. n : s[i] \in Bit
    BY <2>1, ElementOfSeq, LenProperties
  <2>3. n \in Nat
    BY <2>1, LenProperties
  <2> QED
    BY <2>1, <2>2, <2>3, SubSeqProperties DEF s
<1>3. n \in n .. Len(reg.in) /\ n \in Nat
  BY <1>1
<1>4. d \in Places
  BY <1>3, AfterBitIs
<1>5. d = Place(st, p + n, q + one)
  <2>1. ~(e # "SHIFT" /\ n = Len(reg.in))
    BY <1>1
  <2>2. Got(x, k, n) = one
    <3>1. CASE reg.outlen = NoOut
      BY <3>1 DEF Got
    <3>2. CASE reg.outlen # NoOut
      <4>1. Got(x, k, n) = 1 + ((IF n < reg.outlen THEN n ELSE reg.outlen) - n)
        BY <3>2 DEF Got
      <4> HIDE DEF n
      <4>2. (IF n < reg.outlen THEN n ELSE reg.outlen) = n
        BY <1>1, <1>3, <3>2
      <4> QED
        BY <1>3, <3>2, <4>1, <4>2
    <3> QED
      BY <3>1, <3>2
  <2> QED
    BY <2>1, <2>2 DEF AfterBit
<1>6. st \in States /\ st \in ShiftStates
  BY StatesAre DEF ExitModes
<1>7. c \in Places
  BY <1>1, <1>6 DEF Place, Places
<1>8. /\ op.op = "defer" /\ op.act.action = "TRANSFER" /\ op.act.in = in
      /\ op.act.keep = (reg.outlen # NoOut)
  BY DEF TransferCall, DeferOp
<1>9. op \in Ops
  <2>1. (reg.outlen # NoOut) \in BOOLEAN
    OBVIOUS
  <2>2. op \in DeferOps
    BY <1>2, <2>1 DEF TransferCall, DeferOp, DeferOps, Acts
  <2> QED
    BY <2>2, OpsInOps
<1>10. c.st = st /\ c.p = p /\ c.q = q
  BY DEF Place
<1>11. d.st = st /\ d.p = p + n /\ d.q = q + one
  BY <1>5 DEF Place
<1>12. reg.outlen # NoOut => TransferAsked(x, c, op.act)
  <2> SUFFICES ASSUME reg.outlen # NoOut PROVE TransferAsked(x, c, op.act)
    OBVIOUS
  <2> HIDE DEF c, op, in
  <2>1. L[c.q + 1] = [op |-> "transfer_late", reg |-> k] /\ c.q + 1 \in 1 .. Len(L)
    BY <1>1, <1>10
  <2>2. L[c.q + 1].op = "transfer_late" /\ L[c.q + 1].reg = k
    BY <2>1
  <2> HIDE DEF L
  <2> QED
    BY <1>2, <1>8, <1>10, <2>1, <2>2 DEF TransferAsked, L
<1>13. \A i \in 1 .. Len(in) : in[i] = S[c.p + Cells + i]
  <2> HIDE DEF in, c, n
  <2> QED
    BY <1>1, <1>2, <1>10
<1> HIDE DEF c, d, op, in, L, st, n, p, q
<1>14. DeferCarried(x, S, c, op.act, d)
  <2>1. d.st = c.st /\ d.p = c.p + Len(op.act.in) /\ c.st \in ShiftStates
    BY <1>2, <1>6, <1>8, <1>10, <1>11
  <2>2. \A i \in 1 .. Len(op.act.in) : op.act.in[i] = S[c.p + Cells + i]
    BY <1>8, <1>13
  <2>3. IF op.act.keep THEN TransferAsked(x, c, op.act) /\ d.q = c.q + 1 ELSE d.q = c.q
    <3>1. CASE reg.outlen = NoOut
      <4>1. ~op.act.keep
        BY <1>8, <3>1
      <4>2. d.q = c.q
        BY <1>1, <1>10, <1>11, <3>1
      <4> QED
        BY <4>1, <4>2
    <3>2. CASE reg.outlen # NoOut
      <4>1. op.act.keep
        BY <1>8, <3>2
      <4>2. d.q = c.q + 1
        BY <1>10, <1>11, <3>2
      <4> QED
        BY <1>12, <3>2, <4>1, <4>2
    <3> QED
      BY <3>1, <3>2
  <2> QED
    BY <1>8, <2>1, <2>2, <2>3 DEF DeferCarried
<1>15. Carried(x, S, c, op, d)
  BY <1>8, <1>14 DEF Carried
<1>16. Runs(x, S, c, <<op>>, d) /\ <<op>> \in Seq(Ops)
  BY <1>4, <1>7, <1>9, <1>15, RunsOne
<1> QED
  BY <1>16 DEF c, d, op, st, n, p, q

(* urj_tap_defer_shift_register does what its place in the exchange asks.  *)
LEMMA ShiftRuns ==
    ASSUME NEW x \in Shifts, NEW cells \in [1 .. Cells -> Bit], NEW c \in Places, NEW d,
           NEW op, ShiftCarried(x, c, op, d)
    PROVE  /\ FullShift(c.st, op.reg, op.exit) \in Seq(Ops)
           /\ Runs(x, Stream(x, cells), c, FullShift(c.st, op.reg, op.exit), d)
<1> DEFINE S == Stream(x, cells)
<1>1. PICK k \in 1 .. Len(x.regs), path \in {"DR", "IR"} :
        /\ op.reg = x.regs[k] /\ op.exit = ExitOf(x, k)
        /\ c.st \in ReadyToShift(path)
        /\ c.p = FirstBit(x, k) /\ c.q = FirstGet(x, k)
        /\ d = Place(Destination(path)[op.exit], FirstBit(x, k + 1), FirstGet(x, k + 1))
  BY DEF ShiftCarried
<1>2. RegisterAt(x, S, k)
  BY RegistersAre
<1> DEFINE reg == x.regs[k]
           e == ExitOf(x, k)
           n == Transferred(reg, e)
           m == Len(reg.in)
           p == FirstBit(x, k)
           q == FirstGet(x, k)
           in == IF "CAPTURE" \in Flags(c.st) THEN <<DeferClockOp(0, 0, 1)>> ELSE <<>>
           first == TransferCall(reg, n)
           c1 == Place(ShiftState(path), p, q)
           c2 == AfterBit(x, k, path, n)
           c3 == AfterBit(x, k, path, m)
<1> HIDE DEF S
<1>3. /\ reg \in Registers /\ e \in ExitModes
      /\ m \in Nat /\ n \in 0 .. m /\ p \in Nat /\ q \in Nat /\ k \in Nat
      /\ FirstBit(x, k + 1) = p + m
      /\ FirstGet(x, k + 1) = q + Fetches(reg, e)
      /\ reg.outlen \in Nat
  BY <1>2 DEF RegisterAt
<1>4. PICK f : /\ Gathered(f, reg, e, n, m)
               /\ ShiftCalls(reg, e) = <<first>> \o f[m] \o LeaveCalls(e)
  BY <1>3, ShiftCallsAre
<1>5. \A a \in States : Place(a, p, q) \in Places
  BY <1>3 DEF Place, Places
<1>6. c = Place(c.st, p, q)
  BY <1>1 DEF Places, Place
<1>7. c1 \in Places /\ c2 \in Places /\ c3 \in Places
  <2>1. n \in n .. m /\ m \in n .. m
    BY <1>3
  <2> QED
    BY <1>2, <1>5, <2>1, AfterBitIs, StatesAre DEF ExitModes
<1>8. in \in Seq(Ops) /\ Runs(x, S, c, in, c1)
  <2>1. c.st \in {CaptureState(path), ShiftState(path)}
    BY <1>1 DEF ReadyToShift, CaptureState, ShiftState
  <2>2. CASE c.st = CaptureState(path)
    <3>1. "CAPTURE" \in Flags(c.st) /\ c.st \notin ShiftStates
      <4>1. c.st \in {"CAPTURE_DR", "CAPTURE_IR"}
        BY <2>2 DEF CaptureState
      <4>2. Flags("CAPTURE_DR") = {"SHIFT", "CAPTURE"} /\ Flags("CAPTURE_IR") = {"SHIFT", "CAPTURE"}
        BY DEF Flags, Unknown, ShiftStates
      <4> QED
        BY <4>1, <4>2 DEF ShiftStates
    <3>2. ShiftState(path) = StateClock(c.st, 0) /\ c.st \in States /\ ShiftState(path) \in States
      BY <2>2, Moves, StatesAre DEF ExitModes
    <3>3. 0 \in Bit
      BY DEF Bit
    <3>4. /\ <<DeferClockOp(0, 0, 1)>> \in Seq(Ops)
          /\ Runs(x, S, Place(c.st, p, q), <<DeferClockOp(0, 0, 1)>>, c1)
      BY <1>3, <3>1, <3>2, <3>3, ClockRuns
    <3> QED
      BY <1>6, <3>1, <3>4
  <2>3. CASE c.st = ShiftState(path)
    <3>1. "CAPTURE" \notin Flags(c.st)
      BY <2>3 DEF Flags, ShiftState, Unknown, ShiftStates
    <3>2. c1 = c
      BY <1>6, <2>3
    <3> HIDE DEF c1
    <3>3. Runs(x, S, c, <<>>, c) /\ <<>> \in Seq(Ops)
      BY RunsEmpty
    <3> QED
      BY <3>1, <3>2, <3>3
  <2> QED
    BY <2>1, <2>2, <2>3
<1>9. <<first>> \in Seq(Ops) /\ Runs(x, S, c1, <<first>>, c2)
  BY <1>2, TransferRuns
<1>10. f[m] \in Seq(Ops) /\ Runs(x, S, c2, f[m], c3)
  BY <1>2, <1>4, BitsRun
<1>11. d \in Places /\ LeaveCalls(e) \in Seq(Ops) /\ Runs(x, S, c3, LeaveCalls(e), d)
  <2>1. Got(x, k, m) = Fetches(reg, e)
    BY DEF Got, Fetches, Upto
  <2> DEFINE r == q + Fetches(reg, e)
  <2>2. c3 = Place(IF e # "SHIFT" THEN Exit1State(path) ELSE ShiftState(path), p + m, r)
    BY <2>1 DEF AfterBit
  <2>3. d = Place(Destination(path)[e], p + m, r)
    BY <1>1, <1>3
  <2>4. r \in Nat /\ p + m \in Nat
    <3>1. Fetches(reg, e) \in Nat
      BY <1>3, TransferredUpto
    <3> DEFINE w == Fetches(reg, e)
    <3>2. w \in Nat /\ q \in Nat /\ p \in Nat /\ m \in Nat
      BY <1>3, <3>1
    <3> HIDE DEF w, p, q, m
    <3>3. q + w \in Nat /\ p + m \in Nat
      BY <3>2
    <3> QED
      BY <3>3 DEF w
  <2>5. d \in Places
    BY <1>3, <2>3, <2>4, StatesAre DEF Place, Places
  <2> DEFINE t == p + m
  <2> HIDE DEF r, t, c3, e
  <2>6. /\ LeaveCalls(e) \in Seq(Ops)
        /\ Runs(x, S,
                Place(IF e # "SHIFT" THEN Exit1State(path) ELSE ShiftState(path), t, r),
                LeaveCalls(e), Place(Destination(path)[e], t, r))
    BY <1>3, <2>4, LeaveRuns DEF t
  <2> QED
    BY <2>2, <2>3, <2>5, <2>6 DEF t
<1> DEFINE s1 == <<first>>
           s2 == f[m]
           s3 == LeaveCalls(e)
<1> HIDE DEF in, s1, s2, s3, c1, c2, c3
<1>12. s1 \o s2 \in Seq(Ops) /\ Runs(x, S, c1, s1 \o s2, c3)
  BY <1>7, <1>9, <1>10, RunsConcat, ConcatProperties DEF s1, s2
<1>13. s1 \o s2 \o s3 \in Seq(Ops) /\ Runs(x, S, c1, s1 \o s2 \o s3, d)
  BY <1>7, <1>11, <1>12, RunsConcat, ConcatProperties DEF s3
<1>14. in \o (s1 \o s2 \o s3) \in Seq(Ops) /\ Runs(x, S, c, in \o (s1 \o s2 \o s3), d)
  BY <1>7, <1>8, <1>11, <1>13, RunsConcat, ConcatProperties
<1>15. FullShift(c.st, op.reg, op.exit) = in \o (s1 \o s2 \o s3)
  BY <1>1, <1>4 DEF FullShift, in, s1, s2, s3
<1> QED
  BY <1>14, <1>15 DEF S

(* The end of an exchange. *)
EndOf(x, path) ==
    Place(Destination(path)[x.exit], FirstBit(x, Len(x.regs) + 1), Len(AllGets(x)))

(* The shifts of all registers take it there. *)
LEMMA AllShiftsRun ==
    ASSUME NEW x \in Shifts, NEW S, NEW path \in {"DR", "IR"}, NEW st \in ReadyToShift(path)
    PROVE  /\ AllShifts(x) \in Seq(Ops)
           /\ EndOf(x, path) \in Places
           /\ Runs(x, S, Place(st, 0, 0), AllShifts(x), EndOf(x, path))
<1> DEFINE s == AllShifts(x)
           n == Len(x.regs)
           to(k) == IF k = 0 THEN st ELSE Destination(path)[ExitOf(x, k)]
           f == [k \in 0 .. n |-> Place(to(k), FirstBit(x, k + 1), FirstGet(x, k + 1))]
<1>1. n \in Nat \ {0} /\ DOMAIN x.regs = 1 .. n /\ x.exit \in ExitModes
  BY RegistersOfShift
<1>2. s \in Seq(DeferShiftOps) /\ Len(s) = n
  <2>1. s \in Seq(DeferShiftOps)
    BY AllShiftsLead
  <2>2. DOMAIN s = 1 .. n
    BY <1>1 DEF AllShifts
  <2> HIDE DEF s
  <2> QED
    BY <1>1, <2>1, <2>2, LenProperties
<1>3. s \in Seq(Ops)
  <2> HIDE DEF s
  <2> QED
    BY <1>2, OpsInOps, SeqMonotonic
<1>4. \A k \in 1 .. n : s[k] = [op |-> "defer_shift", reg |-> x.regs[k], exit |-> ExitOf(x, k)]
  BY <1>1 DEF AllShifts
<1>5. \A k \in 1 .. n + 1 : FirstBit(x, k) \in Nat /\ FirstGet(x, k) \in Nat
  <2>1. [j \in 1 .. Cells |-> 0] \in [1 .. Cells -> Bit]
    BY DEF Bit
  <2> QED
    BY <2>1, StreamIs, AllGetsAre
<1>6. FirstBit(x, 1) = 0 /\ FirstGet(x, 1) = 0 /\ FirstGet(x, n + 1) = Len(AllGets(x))
  <2>1. [j \in 1 .. Cells |-> 0] \in [1 .. Cells -> Bit]
    BY DEF Bit
  <2> QED
    BY <2>1, StreamIs, AllGetsAre
<1>7. \A k \in 1 .. n : ExitOf(x, k) \in ExitModes
  BY <1>1 DEF ExitOf, ExitModes
<1>8. st \in States
  BY DEF ReadyToShift, States, TapStates
<1>9. ASSUME NEW k \in 0 .. n PROVE f[k] \in Places
  <2>1. to(k) \in States
    <3>1. k # 0 => k \in 1 .. n
      BY <1>1
    <3> QED
      BY <1>7, <1>8, <3>1, StatesAre
  <2>2. k + 1 \in 1 .. n + 1
    BY <1>1
  <2> HIDE DEF to
  <2> QED
    BY <1>5, <2>1, <2>2 DEF Place, Places
<1>10. f \in [0 .. n -> Places]
  <2>1. f = [k \in 0 .. n |-> f[k]]
    OBVIOUS
  <2> HIDE DEF f
  <2> QED
    BY <1>9, <2>1
<1>11. ASSUME NEW k \in 1 .. n PROVE Carried(x, S, f[k - 1], s[k], f[k])
  <2> DEFINE op == [op |-> "defer_shift", reg |-> x.regs[k], exit |-> ExitOf(x, k)]
  <2>1. s[k] = op /\ op.op = "defer_shift" /\ op.reg = x.regs[k] /\ op.exit = ExitOf(x, k)
    BY <1>4
  <2>2. k - 1 \in 0 .. n /\ k \in 0 .. n /\ (k - 1) + 1 = k /\ k # 0
    BY <1>1
  <2>3. to(k - 1) \in ReadyToShift(path)
    <3>1. CASE k = 1
      BY <3>1
    <3>2. CASE k # 1
      <4>1. k - 1 # 0 /\ k - 1 # n
        BY <1>1, <3>2
      <4>2. ExitOf(x, k - 1) = "SHIFT"
        BY <4>1 DEF ExitOf
      <4>3. Destination(path)["SHIFT"] = ShiftState(path)
        BY StatesAre DEF ExitModes
      <4> QED
        BY <4>1, <4>2, <4>3 DEF ShiftState, ReadyToShift
    <3> QED
      BY <3>1, <3>2
  <2>4. to(k) = Destination(path)[ExitOf(x, k)]
    BY <2>2
  <2> HIDE DEF to, op
  <2> DEFINE c == f[k - 1]
             d == f[k]
  <2>5. c = Place(to(k - 1), FirstBit(x, k), FirstGet(x, k))
    BY <2>2
  <2>6. d = Place(to(k), FirstBit(x, k + 1), FirstGet(x, k + 1))
    BY <2>2
  <2>7. c.st = to(k - 1) /\ c.p = FirstBit(x, k) /\ c.q = FirstGet(x, k)
    BY <2>5 DEF Place
  <2> HIDE DEF c, d
  <2>8. ShiftCarried(x, c, op, d)
    BY <2>1, <2>3, <2>4, <2>6, <2>7 DEF ShiftCarried
  <2>9. Carried(x, S, c, op, d)
    BY <2>1, <2>8 DEF Carried
  <2> QED
    BY <2>1, <2>9 DEF c, d
<1>12. f[0] = Place(st, 0, 0) /\ f[n] = EndOf(x, path)
  <2>1. 0 \in 0 .. n /\ n \in 0 .. n /\ 0 + 1 = 1 /\ n # 0
    BY <1>1
  <2>2. ExitOf(x, n) = x.exit
    BY DEF ExitOf
  <2> QED
    BY <1>6, <2>1, <2>2 DEF EndOf
<1>13. EndOf(x, path) \in Places
  <2>1. n \in 0 .. n
    BY <1>1
  <2> HIDE DEF f
  <2> QED
    BY <1>9, <1>12, <2>1
<1> HIDE DEF f, s
<1> QED
  BY <1>2, <1>3, <1>10, <1>11, <1>12, <1>13 DEF Runs, s

(* The clocks to the capture state shift nothing. *)
LEMMA CaptureRuns ==
    ASSUME NEW x, NEW S, NEW path \in {"DR", "IR"},
           NEW st \in {"RUN_TEST_IDLE", "UPDATE_DR", "UPDATE_IR"}
    PROVE  /\ CaptureCalls(path) \in Seq(Ops)
           /\ Runs(x, S, Place(st, 0, 0), CaptureCalls(path), Place(CaptureState(path), 0, 0))
<1> DEFINE n == IF path = "DR" THEN 1 ELSE 2
           out == DeferClockOp(1, 0, n)
           in == DeferClockOp(0, 0, 1)
           mid == StateClocks(st, 1, n)
           a == Place(st, 0, 0)
           b == Place(mid, 0, 0)
           c == Place(CaptureState(path), 0, 0)
<1>1. mid = IF path = "DR" THEN StateClock(st, 1) ELSE StateClock(StateClock(st, 1), 1)
  BY OneClock, TwoClocks
<1>2. StateClock(st, 1) = "SELECT_DR_SCAN" /\ StateClock("SELECT_DR_SCAN", 1) = "SELECT_IR_SCAN"
  BY DEF StateClock, StateTms1
<1>3. StateClock(mid, 0) = CaptureState(path)
  BY <1>1, MovesToCapture DEF CaptureState
<1>4. mid \in States /\ mid \notin ShiftStates /\ StateClock(st, 1) \notin ShiftStates
      /\ st \in States /\ st \notin ShiftStates /\ CaptureState(path) \in States
  <2>1. mid \in {"SELECT_DR_SCAN", "SELECT_IR_SCAN"}
    BY <1>1, <1>2
  <2> HIDE DEF mid
  <2> QED
    BY <1>2, <2>1 DEF States, TapStates, ShiftStates, CaptureState
<1>5. out \in DeferClockOps /\ out.op = "defer_clock" /\ out.tms = 1 /\ out.n = n
  BY DEF DeferClockOp, DeferClockOps, Bit
<1>6. /\ <<in>> \in Seq(Ops) /\ Runs(x, S, b, <<in>>, c)
  <2>1. 0 \in Bit /\ 0 \in Nat
    BY DEF Bit
  <2> HIDE DEF mid
  <2> QED
    BY <1>3, <1>4, <2>1, ClockRuns
<1>7. a \in Places /\ b \in Places /\ c \in Places
  <2> HIDE DEF mid
  <2> QED
    BY <1>4 DEF Place, Places
<1>8. a.st = st /\ a.p = 0 /\ a.q = 0 /\ b.st = mid /\ b.p = 0 /\ b.q = 0
  BY DEF Place
<1>9. n \in {1, 2}
  OBVIOUS
<1> HIDE DEF a, b, c, out
<1>10. ClockCarried(S, a, out, b)
  BY <1>4, <1>5, <1>8, <1>9 DEF ClockCarried
<1>11. Carried(x, S, a, out, b)
  BY <1>5, <1>10 DEF Carried
<1>12. out \in Ops /\ in \in Ops
  <2>1. in \in DeferClockOps
    BY DEF DeferClockOp, DeferClockOps, Bit
  <2> QED
    BY <1>5, <2>1, OpsInOps
<1>13. CaptureCalls(path) = <<out, in>>
  BY DEF CaptureCalls, out
<1> HIDE DEF in
<1>14. CaptureCalls(path) = <<out>> \o <<in>>
  BY <1>12, <1>13, PairIsConcat
<1>15. <<out>> \in Seq(Ops) /\ Runs(x, S, a, <<out>>, b)
  BY <1>7, <1>11, <1>12, RunsOne
<1> DEFINE s == <<out>>
           t == <<in>>
<1>16. /\ s \in Seq(Ops) /\ t \in Seq(Ops) /\ Runs(x, S, a, s, b) /\ Runs(x, S, b, t, c)
  BY <1>6, <1>15 DEF in
<1> HIDE DEF s, t
<1>17. s \o t \in Seq(Ops) /\ Runs(x, S, a, s \o t, c)
  BY <1>7, <1>16, RunsConcat, ConcatProperties
<1> QED
  BY <1>14, <1>17 DEF s, t, a, c

(* An exchange fetches its results in the order of its registers. *)
LEMMA FetchesAre ==
    ASSUME NEW x \in Shifts
    PROVE  ExchangeCalls(x) =
                    (IF x.capture THEN CaptureCalls(x.path) ELSE <<>>)
                    \o AllShifts(x) \o AllGets(x)
<1> DEFINE n == Len(x.regs)
           g == CHOOSE f : Fetched(f, x, n)
           r == Gets(x)
<1>1. n \in Nat
  BY RegistersOfShift
<1>2. Fetched(g, x, n)
  BY <1>1, FetchedExists
<1>3. ExchangeCalls(x) =
        (IF x.capture THEN CaptureCalls(x.path) ELSE <<>>) \o AllShifts(x) \o g[n]
  BY DEF ExchangeCalls, AllShifts, Fetched
<1> HIDE DEF g
<1>4. Joined(g, r, n)
  <2> DEFINE o(k) == OutputCalls(x.regs[k], k, ExitOf(x, k))
  <2>1. g = [k \in 0 .. n |-> IF k = 0 THEN <<>> ELSE g[k - 1] \o o(k)]
    BY <1>2 DEF Fetched
  <2>2. \A k \in 0 .. n : k # 0 => o(k) = r[k]
    BY <1>1 DEF Gets
  <2> HIDE DEF o, r, n
  <2>3. g = [k \in 0 .. n |-> IF k = 0 THEN <<>> ELSE g[k - 1] \o r[k]]
    BY <2>1, <2>2
  <2> QED
    BY <2>3 DEF Joined
<1> HIDE DEF r
<1>5. PICK u : Joined(u, r, n) /\ Concat([j \in 1 .. n |-> r[j]]) = u[n]
  BY <1>1, ConcatIs
<1> HIDE DEF n
<1>6. u[n] = g[n]
  <2>1. n <= n /\ n \in 0 .. n
    BY <1>1
  <2>2. \A i \in 0 .. n : u[i] = g[i]
    BY <1>1, <1>4, <1>5, <2>1, JoinedOnce
  <2> QED
    BY <2>1, <2>2
<1>7. AllGets(x) = g[n]
  BY <1>5, <1>6 DEF AllGets, First, n, r
<1> QED
  BY <1>3, <1>7

(* The whole of it. *)
LEMMA ExchangeRuns ==
    ASSUME NEW x \in Shifts, NEW S, NEW path \in {"DR", "IR"}, NEW st,
           IF x.capture
           THEN path = x.path /\ st \in {"RUN_TEST_IDLE", "UPDATE_DR", "UPDATE_IR"}
           ELSE st \in ReadyToShift(path)
    PROVE  /\ EndOf(x, path) \in Places /\ Place(st, 0, 0) \in Places
           /\ \E a \in Seq(Ops) : /\ ExchangeCalls(x) = a \o AllGets(x)
                                  /\ Runs(x, S, Place(st, 0, 0), a, EndOf(x, path))
<1> DEFINE in == IF x.capture THEN CaptureCalls(x.path) ELSE <<>>
           s == AllShifts(x)
           c == Place(st, 0, 0)
           d == EndOf(x, path)
<1>1. st \in States
  BY DEF ReadyToShift, States, TapStates
<1>2. c \in Places
  BY <1>1 DEF Place, Places
<1>3. ExchangeCalls(x) = in \o s \o AllGets(x)
  BY FetchesAre
<1>4. CASE x.capture
  <2> DEFINE m == Place(CaptureState(path), 0, 0)
  <2>1. CaptureState(path) \in ReadyToShift(path) /\ CaptureState(path) \in States
    BY StatesAre DEF CaptureState, ReadyToShift, ExitModes
  <2>2. m \in Places
    BY <2>1 DEF Place, Places
  <2>3. in \in Seq(Ops) /\ Runs(x, S, c, in, m)
    BY <1>4, CaptureRuns
  <2>4. s \in Seq(Ops) /\ d \in Places /\ Runs(x, S, m, s, d)
    BY <2>1, AllShiftsRun
  <2> HIDE DEF in, s, c, d, m
  <2>5. in \o s \in Seq(Ops) /\ Runs(x, S, c, in \o s, d)
    BY <1>2, <2>2, <2>3, <2>4, RunsConcat, ConcatProperties
  <2> QED
    BY <1>2, <1>3, <2>4, <2>5 DEF c, d
<1>5. CASE ~x.capture
  <2>1. s \in Seq(Ops) /\ d \in Places /\ Runs(x, S, c, s, d)
    BY <1>5, AllShiftsRun
  <2>2. in = <<>>
    BY <1>5
  <2> HIDE DEF s, c, d, in
  <2>3. in \o s = s
    BY <2>1, <2>2
  <2> QED
    BY <1>2, <1>3, <2>1, <2>3 DEF c, d
<1> QED
  BY <1>4, <1>5

(* The first call of some before others, and the rest. *)
LEMMA HeadOfConcat ==
    ASSUME NEW T, NEW a \in Seq(T), NEW t \in Seq(T), a # <<>>
    PROVE  Head(a \o t) = Head(a) /\ Tail(a \o t) = Tail(a) \o t
<1> DEFINE s == a \o t
<1>1. /\ s \in Seq(T) /\ Len(s) = Len(a) + Len(t)
      /\ \A i \in 1 .. Len(a) + Len(t) : s[i] = IF i <= Len(a) THEN a[i] ELSE t[i - Len(a)]
      /\ Len(a) \in Nat \ {0} /\ Len(t) \in Nat
  BY ConcatProperties, LenProperties, EmptySeq
<1>2. /\ Tail(a) \in Seq(T) /\ Len(Tail(a)) = Len(a) - 1
      /\ \A i \in 1 .. Len(a) - 1 : Tail(a)[i] = a[i + 1]
      /\ Head(a) = a[1]
  BY HeadTailProperties
<1> HIDE DEF s
<1>3. s # <<>>
  <2>1. Len(s) # 0
    BY <1>1
  <2> QED
    BY <1>1, <2>1, EmptySeq
<1>4. /\ Tail(s) \in Seq(T) /\ Len(Tail(s)) = Len(s) - 1
      /\ \A i \in 1 .. Len(s) - 1 : Tail(s)[i] = s[i + 1]
      /\ Head(s) = s[1]
  BY <1>1, <1>3, HeadTailProperties
<1> DEFINE h == Tail(a)
           u == h \o t
<1> HIDE DEF h
<1>5. /\ u \in Seq(T) /\ Len(u) = (Len(a) - 1) + Len(t)
      /\ \A i \in 1 .. (Len(a) - 1) + Len(t) :
            u[i] = IF i <= Len(a) - 1 THEN h[i] ELSE t[i - (Len(a) - 1)]
  <2>1. h \in Seq(T) /\ Len(h) = Len(a) - 1
    BY <1>2 DEF h
  <2>2. /\ u \in Seq(T) /\ Len(u) = Len(h) + Len(t)
        /\ \A i \in 1 .. Len(h) + Len(t) :
              u[i] = IF i <= Len(h) THEN h[i] ELSE t[i - Len(h)]
    BY <2>1, ConcatProperties
  <2> QED
    BY <2>1, <2>2
<1> HIDE DEF u
<1>6. ASSUME NEW i \in 1 .. Len(u) PROVE Tail(s)[i] = u[i]
  <2>1. i + 1 \in 1 .. Len(a) + Len(t) /\ i \in 1 .. Len(s) - 1
        /\ i \in 1 .. (Len(a) - 1) + Len(t)
    BY <1>1, <1>5
  <2>2. Tail(s)[i] = IF i + 1 <= Len(a) THEN a[i + 1] ELSE t[(i + 1) - Len(a)]
    BY <1>1, <1>4, <2>1
  <2>3. CASE i <= Len(a) - 1
    <3>1. i + 1 <= Len(a) /\ i \in 1 .. Len(a) - 1
      BY <1>1, <2>1, <2>3
    <3> QED
      BY <1>2, <1>5, <2>1, <2>2, <2>3, <3>1 DEF h
  <2>4. CASE ~(i <= Len(a) - 1)
    <3>1. ~(i + 1 <= Len(a)) /\ (i + 1) - Len(a) = i - (Len(a) - 1)
      BY <1>1, <2>1, <2>4
    <3> QED
      BY <1>5, <2>1, <2>2, <2>4, <3>1
  <2> QED
    BY <2>3, <2>4
<1>7. Len(Tail(s)) = Len(u)
  BY <1>1, <1>4, <1>5
<1>8. Tail(s) = u
  BY <1>4, <1>5, <1>6, <1>7, SeqEqual
<1>9. Head(s) = Head(a)
  BY <1>1, <1>2, <1>4
<1> QED
  BY <1>8, <1>9 DEF s, u, h

(* A clock that is carried out moves the bits as it should. *)
LEMMA ClockHolds ==
    ASSUME NEW l \in Lines, NEW S, NEW c \in Places, NEW d, NEW op \in DeferClockOps,
           ClockCarried(S, c, op, d), Holds(l, S, c.p), l.tap = c.st, ~HeldInReset(l)
    PROVE  Holds(DriverClock(l, op.tms, op.tdi, op.n), S, d.p)
<1> DEFINE tms == op.tms
           tdi == op.tdi
           one == Pulse(l, tms, tdi)
<1>1. tms \in Bit /\ tdi \in Bit /\ c.p \in Nat
  BY DEF DeferClockOps, Places
<1>2. DriverClock(l, tms, tdi, 1) = one /\ DriverClock(l, tms, tdi, 2) = Pulse(one, tms, tdi)
  BY DriverClockOnce
<1>3. /\ one \in Lines /\ one.high = l.high /\ one.wired = l.wired
      /\ one.tap = IeeeNext(l.tap, tms)
  BY <1>1, PulseKeepsLine
<1>4. CASE op.n = 1 /\ c.st \in ShiftStates /\ tdi = S[c.p + Cells + 1] /\ d.p = c.p + 1
  <2>1. Holds(one, S, c.p + 1)
    BY <1>1, <1>4, PulseShifts
  <2> QED
    BY <1>2, <1>4, <2>1
<1>5. CASE /\ op.n \in {1, 2} /\ c.st \notin ShiftStates /\ d.p = c.p
           /\ op.n = 2 => StateClock(c.st, tms) \notin ShiftStates
  <2>1. one.cells = l.cells
    BY <1>5, PulseStays
  <2>2. op.n = 2 => Pulse(one, tms, tdi).cells = one.cells
    <3> SUFFICES ASSUME op.n = 2 PROVE Pulse(one, tms, tdi).cells = one.cells
      OBVIOUS
    <3>1. l.tap \in TapStates
      BY DEF Lines
    <3>2. StateClock(l.tap, tms) = IeeeNext(l.tap, tms)
      BY <1>1, <3>1, TrackingIsIeee
    <3>3. one.tap \notin ShiftStates
      BY <1>3, <1>5, <3>2
    <3> HIDE DEF one
    <3> QED
      BY <1>3, <3>3, PulseStays
  <2>3. DriverClock(l, tms, tdi, op.n).cells = l.cells
    <3> HIDE DEF one
    <3> QED
      BY <1>2, <1>5, <2>1, <2>2
  <2> QED
    BY <1>5, <2>3 DEF Holds
<1> QED
  BY <1>4, <1>5 DEF ClockCarried

-----------------------------------------------------------------------------
(* The inductive invariant. *)

Results == [kind : {"TRANSFER", "GET_TDO"}, value : Seq(Bit) \cup Bit]

(* What a result is that the call fetches, and whether its bits are right. *)
Expected(x, op, r) ==
    IF op.op = "transfer_late"
    THEN /\ r.kind = "TRANSFER" /\ r.value \in Seq(Bit)
         /\ Len(r.value) = Transferred(x.regs[op.reg], ExitOf(x, op.reg))
    ELSE r.kind = "GET_TDO" /\ r.value \in Bit

RightBits(x, S, op, r) ==
    IF op.op = "transfer_late"
    THEN \A i \in 1 .. Len(r.value) : r.value[i] = S[FirstBit(x, op.reg) + i]
    ELSE r.value = S[FirstBit(x, op.reg) + op.at]

(* What the call has written. *)
Written(x, S, op, o) ==
    IF op.op = "transfer_late"
    THEN \A i \in 1 .. Transferred(x.regs[op.reg], ExitOf(x, op.reg)) :
            o[op.reg][i] = S[FirstBit(x, op.reg) + i]
    ELSE o[op.reg][op.at] = S[FirstBit(x, op.reg) + op.at]

Bits == Stream(last.x, last.cells)

(* The exchange has the calls a left, then the fetching of its results but *)
(* for the first b; it is at c.                                            *)
UnderWay(a, b, c) ==
    /\ prog = a \o SubSeq(AllGets(last.x), b + 1, Len(AllGets(last.x)))
    /\ a # <<>> => b = 0
    /\ Runs(last.x, Bits, c, a, EndOf(last.x, last.path))
    /\ c.st = state
    /\ Len(results) + b = c.q
    /\ \A i \in 1 .. Len(results) : Expected(last.x, AllGets(last.x)[b + i], results[i])
    /\ last.tracked =>
        /\ Holds(line, Bits, c.p)
        /\ \A i \in 1 .. Len(results) :
                RightBits(last.x, Bits, AllGets(last.x)[b + i], results[i])
        /\ \A j \in 1 .. b : Written(last.x, Bits, AllGets(last.x)[j], outs)

Outputs ==
    /\ last.x \in Shifts
    /\ last.path \in {"DR", "IR"}
    /\ last.cells \in [1 .. Cells -> Bit]
    /\ DOMAIN outs = 1 .. Len(last.x.regs)
    /\ \A k \in 1 .. Len(last.x.regs) : outs[k] \in [1 .. last.x.regs[k].outlen -> Bit]

Exchanging ==
    last.op = "exchange" /\ ~lost =>
        /\ Outputs
        /\ \E a \in Seq(Ops), b \in 0 .. Len(AllGets(last.x)), c \in Places : UnderWay(a, b, c)

ExchangeInv ==
    /\ results \in Seq(Results)
    /\ last.op # "exchange" => outs = <<>>
    /\ Exchanging

(* What a call of an exchange finds: one of those left, or that its        *)
(* results are to be fetched.                                              *)
LEMMA NextCall ==
    ASSUME Outputs, NEW a \in Seq(Ops), NEW b \in 0 .. Len(AllGets(last.x)),
           NEW c \in Places, UnderWay(a, b, c), prog # <<>>
    PROVE  LET L == AllGets(last.x)
           IN  /\ L \in Seq(GetsOf(last.x)) /\ L \in Seq(Ops) /\ Len(L) \in Nat
               /\ \/ /\ a # <<>> /\ b = 0 /\ prog = a \o L
                     /\ Head(prog) = Head(a) /\ Tail(prog) = Tail(a) \o L
                     /\ Tail(a) \in Seq(Ops)
                     /\ \E d \in Places :
                            /\ Carried(last.x, Bits, c, Head(a), d)
                            /\ Runs(last.x, Bits, d, Tail(a), EndOf(last.x, last.path))
                  \/ /\ a = <<>> /\ b + 1 \in 1 .. Len(L)
                     /\ Head(prog) = L[b + 1] /\ L[b + 1] \in GetsOf(last.x)
                     /\ Tail(prog) = SubSeq(L, b + 2, Len(L))
                     /\ c.q = Len(L)
<1> DEFINE x == last.x
           L == AllGets(x)
<1>1. L \in Seq(GetsOf(x)) /\ Len(L) \in Nat
  <2>1. L \in Seq(GetsOf(x))
    BY AllGetsAre DEF Outputs
  <2> HIDE DEF L, x
  <2> QED
    BY <2>1, LenProperties
<1>2. L \in Seq(Ops)
  <2>1. GetsOf(x) \subseteq Ops
    BY OpsInOps DEF GetsOf
  <2> HIDE DEF L, x
  <2> QED
    BY <1>1, <2>1, SeqMonotonic
<1>3. /\ prog = a \o SubSeq(L, b + 1, Len(L)) /\ (a # <<>> => b = 0)
      /\ Runs(x, Bits, c, a, EndOf(x, last.path))
  BY DEF UnderWay
<1> HIDE DEF x, L
<1>4. CASE a # <<>>
  <2>1. SubSeq(L, b + 1, Len(L)) = L
    <3>1. b + 1 = 1
      BY <1>3, <1>4
    <3> QED
      BY <1>2, <3>1, SubSeqFull
  <2>2. prog = a \o L
    BY <1>3, <2>1
  <2>3. Head(prog) = Head(a) /\ Tail(prog) = Tail(a) \o L /\ Tail(a) \in Seq(Ops)
    BY <1>2, <1>4, <2>2, HeadOfConcat, HeadTailProperties
  <2>4. \E d \in Places : /\ Carried(x, Bits, c, Head(a), d)
                          /\ Runs(x, Bits, d, Tail(a), EndOf(x, last.path))
    BY <1>3, <1>4, RunsTail
  <2> QED
    BY <1>1, <1>2, <1>3, <1>4, <2>2, <2>3, <2>4 DEF x, L
<1>5. CASE a = <<>>
  <2>1. SubSeq(L, b + 1, Len(L)) \in Seq(Ops)
    <3>1. \A i \in b + 1 .. Len(L) : L[i] \in Ops
      <4> TAKE i \in b + 1 .. Len(L)
      <4>1. i \in 1 .. Len(L)
        BY <1>1
      <4> QED
        BY <1>2, <4>1, ElementOfSeq
    <3>2. b + 1 \in Int /\ Len(L) \in Int
      BY <1>1
    <3> QED
      BY <3>1, <3>2, SubSeqProperties
  <2>2. prog = SubSeq(L, b + 1, Len(L))
    BY <1>3, <1>5, <2>1
  <2>3. b + 1 \in 1 .. Len(L)
    <3>1. CASE b < Len(L)
      BY <1>1, <3>1 DEF x, L
    <3>2. CASE ~(b < Len(L))
      <4>1. Len(L) < b + 1 /\ b + 1 \in Int /\ Len(L) \in Int
        BY <1>1, <3>2
      <4> QED
        BY <2>2, <4>1, SubSeqEmpty
    <3> QED
      BY <3>1, <3>2
  <2>4. Head(prog) = L[b + 1] /\ Tail(prog) = SubSeq(L, b + 2, Len(L))
    <3>1. Len(L) \in b + 1 .. Len(L) /\ (b + 1) + 1 = b + 2
      BY <1>1, <2>3
    <3> QED
      BY <1>1, <2>2, <2>3, <3>1, HeadTailOfSubSeq
  <2>5. L[b + 1] \in GetsOf(x)
    BY <1>1, <2>3, ElementOfSeq
  <2>6. c = EndOf(x, last.path)
    <3>1. Runs(x, Bits, c, <<>>, EndOf(x, last.path))
      BY <1>3, <1>5
    <3>2. Len(<<>>) = 0
      OBVIOUS
    <3> QED
      BY <3>1, <3>2 DEF Runs
  <2>7. c.q = Len(L)
    BY <2>6 DEF EndOf, Place, x, L
  <2> QED
    BY <1>1, <1>2, <1>5, <2>3, <2>4, <2>5, <2>7 DEF x, L
<1> QED
  BY <1>4, <1>5

(* An exchange begins with no result. *)
LEMMA ExchangingBegins ==
    ASSUME ShiftsOnlyWhileShifting, ChainInv, Balanced, ExchangeInv,
           NEW x \in Shifts, Exchange(x)
    PROVE  ExchangeInv'
<1> DEFINE path == IF x.capture THEN x.path
                   ELSE IF state \in {"CAPTURE_DR", "SHIFT_DR", "EXIT2_DR"}
                   THEN "DR" ELSE "IR"
<1>1. /\ prog = <<>> /\ UNCHANGED <<line, results, state, lost>>
      /\ prog' = ExchangeCalls(x)
      /\ last'.op = "exchange" /\ last'.x = x /\ last'.path = path
      /\ last'.cells = line.cells
      /\ outs' = [k \in DOMAIN x.regs |-> [i \in 1 .. x.regs[k].outlen |-> 0]]
  BY DEF Exchange
<1>2. path \in {"DR", "IR"}
  BY ChainAssumption
<1>3. IF x.capture
      THEN path = x.path /\ state \in {"RUN_TEST_IDLE", "UPDATE_DR", "UPDATE_IR"}
      ELSE state \in ReadyToShift(path)
  <2>1. CASE x.capture
    BY <2>1 DEF Exchange, ReadyFor
  <2>2. CASE ~x.capture
    <3>1. state \in {"CAPTURE_DR", "SHIFT_DR", "CAPTURE_IR", "SHIFT_IR"}
      BY <2>2 DEF Exchange, ReadyFor, ShiftsOnlyWhileShifting
    <3> QED
      BY <2>2, <3>1 DEF ReadyToShift
  <2> QED
    BY <2>1, <2>2
<1> HIDE DEF path
<1>4. results = <<>> /\ results' = <<>>
  BY <1>1, NothingWaits
<1>5. line.cells \in [1 .. Cells -> Bit] /\ state \in States
  BY DEF ChainInv, Types, Lines
<1>6. DOMAIN outs' = 1 .. Len(x.regs)
      /\ \A k \in 1 .. Len(x.regs) : outs'[k] \in [1 .. x.regs[k].outlen -> Bit]
  <2>1. DOMAIN x.regs = 1 .. Len(x.regs)
    BY RegistersOfShift
  <2>2. \A k \in 1 .. Len(x.regs) : outs'[k] = [i \in 1 .. x.regs[k].outlen |-> 0]
    BY <1>1, <2>1
  <2>3. 0 \in Bit
    BY DEF Bit
  <2> QED
    BY <1>1, <2>1, <2>2, <2>3
<1>7. Outputs'
  BY <1>1, <1>2, <1>5, <1>6 DEF Outputs
<1> DEFINE S == Stream(x, line.cells)
           L == AllGets(x)
<1>8. PICK st, cells : st = state /\ cells = line.cells
  OBVIOUS
<1>9. PICK a \in Seq(Ops) : /\ ExchangeCalls(x) = a \o L
                            /\ Runs(x, S, Place(st, 0, 0), a, EndOf(x, path))
  BY <1>2, <1>3, <1>8, ExchangeRuns
<1>10. Place(st, 0, 0) \in Places
  BY <1>5, <1>8 DEF Place, Places
<1>11. PICK c \in Places : c = Place(st, 0, 0)
  BY <1>10
<1>12. L \in Seq(GetsOf(x)) /\ Len(L) \in Nat
  <2>1. L \in Seq(GetsOf(x))
    BY AllGetsAre
  <2> HIDE DEF L
  <2> QED
    BY <2>1, LenProperties
<1>13. SubSeq(L, 0 + 1, Len(L)) = L
  <2> HIDE DEF L
  <2> QED
    BY <1>12, SubSeqFull
<1>14. Holds(line, S, 0)
  BY <1>5, StreamIs DEF Holds
<1>15. AllGets(x)' = L /\ Bits' = S
  BY <1>1 DEF Bits
<1>16. c.st = state /\ c.p = 0 /\ c.q = 0
  BY <1>8, <1>11 DEF Place
<1> HIDE DEF S
<1>17. UnderWay(a, 0, c)'
  <2>1. prog' = a \o SubSeq(L, 0 + 1, Len(L))
    BY <1>1, <1>9, <1>13
  <2>2. Runs(x, S, c, a, EndOf(x, path))
    BY <1>9, <1>11
  <2>3. Len(results') = 0 /\ Len(results') + 0 = c.q
    BY <1>4, <1>16
  <2>4. Holds(line', S, c.p)
    BY <1>1, <1>14, <1>16
  <2>5. (\A i : i \notin 1 .. 0) /\ state' = state
    BY <1>1
  <2> HIDE DEF L
  <2>6. AllGets(last'.x) = L /\ last'.x = x /\ last'.path = path
    BY <1>1 DEF L
  <2> QED
    BY <1>15, <1>16, <2>1, <2>2, <2>3, <2>4, <2>5, <2>6 DEF UnderWay
<1>18. 0 \in 0 .. Len(AllGets(last'.x))
  BY <1>1, <1>12
<1>19. Exchanging'
  BY <1>7, <1>17, <1>18 DEF Exchanging
<1>20. results' \in Seq(Results)
  BY <1>4
<1> QED
  BY <1>1, <1>19, <1>20 DEF ExchangeInv

-----------------------------------------------------------------------------
(* The calls of an exchange, one by one. *)

(* A result is the last of those that wait. *)
LEMMA ResultAdded ==
    ASSUME NEW rs \in Seq(Results), NEW r \in Results
    PROVE  /\ rs \o <<r>> \in Seq(Results)
           /\ Len(rs \o <<r>>) = Len(rs) + 1
           /\ Len(rs) \in Nat
           /\ (rs \o <<r>>)[Len(rs) + 1] = r
           /\ \A i \in 1 .. Len(rs) : (rs \o <<r>>)[i] = rs[i]
<1> DEFINE t == <<r>>
<1>1. t \in Seq(Results) /\ Len(t) = 1 /\ t[1] = r
  OBVIOUS
<1> HIDE DEF t
<1>2. /\ rs \o t \in Seq(Results) /\ Len(rs) \in Nat
      /\ Len(rs \o t) = Len(rs) + Len(t)
      /\ \A i \in 1 .. Len(rs) + Len(t) :
            (rs \o t)[i] = IF i <= Len(rs) THEN rs[i] ELSE t[i - Len(rs)]
  BY <1>1, ConcatProperties, LenProperties
<1>3. Len(rs \o t) = Len(rs) + 1
  BY <1>1, <1>2
<1>4. (rs \o t)[Len(rs) + 1] = r
  <2>1. Len(rs) + 1 \in 1 .. Len(rs) + Len(t) /\ ~(Len(rs) + 1 <= Len(rs))
        /\ (Len(rs) + 1) - Len(rs) = 1
    BY <1>1, <1>2
  <2> QED
    BY <1>1, <1>2, <2>1
<1>5. \A i \in 1 .. Len(rs) : (rs \o t)[i] = rs[i]
  <2> TAKE i \in 1 .. Len(rs)
  <2>1. i \in 1 .. Len(rs) + Len(t) /\ i <= Len(rs)
    BY <1>1, <1>2
  <2> QED
    BY <1>2, <2>1
<1> QED
  BY <1>2, <1>3, <1>4, <1>5 DEF t

(* A deferred call done leaves the exchange one place further. *)
LEMMA Advanced ==
    ASSUME Outputs, UNCHANGED <<last, outs>>, NEW a \in Seq(Ops), NEW d \in Places,
           prog' = a \o AllGets(last.x),
           Runs(last.x, Bits, d, a, EndOf(last.x, last.path)),
           state' = d.st, Len(results') = d.q,
           \A i \in 1 .. d.q : Expected(last.x, AllGets(last.x)[i], results'[i]),
           last.tracked =>
                /\ Holds(line', Bits, d.p)
                /\ \A i \in 1 .. d.q : RightBits(last.x, Bits, AllGets(last.x)[i], results'[i])
    PROVE  Exchanging'
<1> DEFINE x == last.x
           L == AllGets(x)
           S == Bits
<1>1. L \in Seq(GetsOf(x)) /\ Len(L) \in Nat
  <2>1. L \in Seq(GetsOf(x))
    BY AllGetsAre DEF Outputs
  <2> HIDE DEF L, x
  <2> QED
    BY <2>1, LenProperties
<1>2. SubSeq(L, 0 + 1, Len(L)) = L
  <2> HIDE DEF L
  <2> QED
    BY <1>1, SubSeqFull
<1>3. AllGets(x)' = L /\ Bits' = S /\ last' = last /\ last'.x = x
  BY DEF Bits
<1>4. d.q \in Nat
  BY DEF Places
<1>5. \A i \in 1 .. d.q : 0 + i = i
  BY <1>4
<1>6. Len(results') + 0 = d.q
  BY <1>4
<1>7. Outputs'
  BY <1>3 DEF Outputs
<1>8. UnderWay(a, 0, d)'
  <2>1. prog' = a \o SubSeq(L, 0 + 1, Len(L))
    BY <1>2
  <2>2. \A i : i \notin 1 .. 0
    OBVIOUS
  <2>3. \A i \in 1 .. Len(results') : Expected(last'.x, L[0 + i], results'[i])
    BY <1>3, <1>5
  <2>4. last'.tracked =>
            \A i \in 1 .. Len(results') : RightBits(last'.x, S, L[0 + i], results'[i])
    BY <1>3, <1>5
  <2>5. AllGets(last'.x) = L
    BY <1>3
  <2>6. Runs(x, S, d, a, EndOf(x, last.path)) /\ state' = d.st
        /\ (last.tracked => Holds(line', S, d.p))
    OBVIOUS
  <2> HIDE DEF L, S, x
  <2> QED
    BY <1>3, <1>6, <2>1, <2>2, <2>3, <2>4, <2>5, <2>6 DEF UnderWay
<1>9. 0 \in 0 .. Len(AllGets(last'.x))
  BY <1>1, <1>3
<1> QED
  BY <1>7, <1>8, <1>9 DEF Exchanging

(* A call that is none of the _late ones is one of those left. *)
LEMMA DeferredCall ==
    ASSUME ExchangeInv, last.op = "exchange", ~lost, prog # <<>>,
           Head(prog).op \notin {"transfer_late", "get_tdo_late"}
    PROVE  \E a \in Seq(Ops), c \in Places, d \in Places :
                /\ UnderWay(a, 0, c) /\ a # <<>> /\ Head(prog) = Head(a)
                /\ Tail(a) \in Seq(Ops)
                /\ Tail(prog) = Tail(a) \o AllGets(last.x)
                /\ Carried(last.x, Bits, c, Head(prog), d)
                /\ Runs(last.x, Bits, d, Tail(a), EndOf(last.x, last.path))
                /\ c.st = state /\ Len(results) = c.q
                /\ \A i \in 1 .. c.q : Expected(last.x, AllGets(last.x)[i], results[i])
                /\ last.tracked =>
                    /\ Holds(line, Bits, c.p)
                    /\ \A i \in 1 .. c.q :
                            RightBits(last.x, Bits, AllGets(last.x)[i], results[i])
<1>1. Outputs
  BY DEF ExchangeInv, Exchanging
<1>2. PICK a \in Seq(Ops), b \in 0 .. Len(AllGets(last.x)), c \in Places : UnderWay(a, b, c)
  BY DEF ExchangeInv, Exchanging
<1> DEFINE L == AllGets(last.x)
<1>3. ~(Head(prog) \in GetsOf(last.x))
  BY DEF GetsOf, LateOps
<1>4. /\ a # <<>> /\ b = 0 /\ Head(prog) = Head(a) /\ Tail(prog) = Tail(a) \o L
      /\ Tail(a) \in Seq(Ops)
      /\ \E d \in Places : /\ Carried(last.x, Bits, c, Head(a), d)
                           /\ Runs(last.x, Bits, d, Tail(a), EndOf(last.x, last.path))
  BY <1>1, <1>2, <1>3, NextCall
<1>5. PICK d \in Places : /\ Carried(last.x, Bits, c, Head(a), d)
                          /\ Runs(last.x, Bits, d, Tail(a), EndOf(last.x, last.path))
  BY <1>4
<1>6. Len(results) \in Nat
  BY LenProperties DEF ExchangeInv
<1>7. Len(results) = c.q /\ \A i \in 1 .. c.q : b + i = i
  BY <1>2, <1>4, <1>6 DEF UnderWay
<1>8. \A i \in 1 .. c.q : Expected(last.x, L[i], results[i])
  BY <1>2, <1>7 DEF UnderWay
<1>9. last.tracked => /\ Holds(line, Bits, c.p)
                      /\ \A i \in 1 .. c.q : RightBits(last.x, Bits, L[i], results[i])
  BY <1>2, <1>7 DEF UnderWay
<1>10. c.st = state /\ UnderWay(a, 0, c)
  BY <1>2, <1>4 DEF UnderWay
<1> HIDE DEF L
<1>11. Carried(last.x, Bits, c, Head(prog), d)
  BY <1>4, <1>5
<1> QED
  BY <1>4, <1>5, <1>7, <1>8, <1>9, <1>10, <1>11 DEF L

(* A clock moves the bits where it is meant to. *)
LEMMA ClockInExchange ==
    ASSUME ChainInv, ExchangeInv, last.op = "exchange", ~lost, CableDeferClock
    PROVE  Exchanging'
<1> DEFINE op == Head(prog)
           act == [action |-> "CLOCK", tms |-> op.tms, tdi |-> op.tdi, n |-> op.n]
<1>1. /\ prog # <<>> /\ op.op = "defer_clock" /\ prog' = Tail(prog)
      /\ UNCHANGED <<last, lost, outs>>
      /\ state' = StateClocks(state, op.tms, op.n)
      /\ line' = Effect(act, line) /\ results' = results \o ResultOf(act, line)
  BY SameEffect, SameResult DEF CableDeferClock, At, Done, C!Defer
<1>2. line' = DriverClock(line, op.tms, op.tdi, op.n)
  BY <1>1 DEF Effect
<1>3. results' = results
  <2>1. ResultOf(act, line) = <<>>
    BY DEF ResultOf
  <2>2. results \in Seq(Results)
    BY DEF ExchangeInv
  <2> QED
    BY <1>1, <2>1, <2>2
<1>4. op \in DeferClockOps
  BY <1>1, HeadTailProperties, OpByName DEF ChainInv, Types
<1>5. line \in Lines
  BY DEF ChainInv, Types
<1>6. last.tracked => state = line.tap /\ ~HeldInReset(line)
  BY DEF ChainInv, ExchangeTracked
<1>7. Outputs
  BY DEF ExchangeInv, Exchanging
<1> HIDE DEF op, act
<1>8. PICK a \in Seq(Ops), c \in Places, d \in Places :
                /\ UnderWay(a, 0, c) /\ a # <<>> /\ Head(prog) = Head(a)
                /\ Tail(a) \in Seq(Ops)
                /\ Tail(prog) = Tail(a) \o AllGets(last.x)
                /\ Carried(last.x, Bits, c, op, d)
                /\ Runs(last.x, Bits, d, Tail(a), EndOf(last.x, last.path))
                /\ c.st = state /\ Len(results) = c.q
                /\ \A i \in 1 .. c.q : Expected(last.x, AllGets(last.x)[i], results[i])
                /\ last.tracked =>
                    /\ Holds(line, Bits, c.p)
                    /\ \A i \in 1 .. c.q :
                            RightBits(last.x, Bits, AllGets(last.x)[i], results[i])
  BY <1>1, DeferredCall DEF op
<1>9. ClockCarried(Bits, c, op, d)
  BY <1>1, <1>8 DEF Carried
<1>10. d.q = c.q /\ d.st = state'
  BY <1>1, <1>8, <1>9 DEF ClockCarried
<1>11. last.tracked => Holds(line', Bits, d.p)
  <2> SUFFICES ASSUME last.tracked PROVE Holds(line', Bits, d.p)
    OBVIOUS
  <2> DEFINE S == Bits
             l == line
  <2>1. Holds(l, S, c.p) /\ l.tap = c.st /\ ~HeldInReset(l) /\ ClockCarried(S, c, op, d)
        /\ l \in Lines
    BY <1>5, <1>6, <1>8, <1>9
  <2> HIDE DEF S, l
  <2>2. Holds(DriverClock(l, op.tms, op.tdi, op.n), S, d.p)
    BY <1>4, <2>1, ClockHolds
  <2> QED
    BY <1>2, <2>2 DEF S, l
<1> QED
  BY <1>1, <1>3, <1>7, <1>8, <1>10, <1>11, Advanced

(* The result a deferred call asked for is the one to be fetched ... *)
LEMMA AskedResult ==
    ASSUME NEW x, NEW L, NEW rs \in Seq(Results), NEW r \in Results, NEW q \in Nat,
           Len(rs) = q,
           \A i \in 1 .. q : Expected(x, L[i], rs[i]), Expected(x, L[q + 1], r)
    PROVE  /\ Len(rs \o <<r>>) = q + 1
           /\ \A i \in 1 .. q + 1 : Expected(x, L[i], (rs \o <<r>>)[i])
<1> DEFINE new == rs \o <<r>>
<1>1. /\ Len(new) = q + 1 /\ new[q + 1] = r
      /\ \A i \in 1 .. q : new[i] = rs[i]
  BY ResultAdded
<1>2. \A i \in 1 .. q + 1 : i \in 1 .. q \/ i = q + 1
  OBVIOUS
<1> HIDE DEF new
<1>3. ASSUME NEW i \in 1 .. q + 1 PROVE Expected(x, L[i], new[i])
  <2>1. CASE i \in 1 .. q
    BY <1>1, <2>1
  <2>2. CASE i = q + 1
    BY <1>1, <2>2
  <2> QED
    BY <1>2, <2>1, <2>2
<1> QED
  BY <1>1, <1>3 DEF new

(* ... and has its bits. *)
LEMMA AskedBits ==
    ASSUME NEW x, NEW S, NEW L, NEW rs \in Seq(Results), NEW r \in Results, NEW q \in Nat,
           Len(rs) = q,
           \A i \in 1 .. q : RightBits(x, S, L[i], rs[i]), RightBits(x, S, L[q + 1], r)
    PROVE  \A i \in 1 .. q + 1 : RightBits(x, S, L[i], (rs \o <<r>>)[i])
<1> DEFINE new == rs \o <<r>>
<1>1. /\ Len(new) = q + 1 /\ new[q + 1] = r
      /\ \A i \in 1 .. q : new[i] = rs[i]
  BY ResultAdded
<1>2. \A i \in 1 .. q + 1 : i \in 1 .. q \/ i = q + 1
  OBVIOUS
<1> HIDE DEF new
<1>3. ASSUME NEW i \in 1 .. q + 1 PROVE RightBits(x, S, L[i], new[i])
  <2>1. CASE i \in 1 .. q
    BY <1>1, <2>1
  <2>2. CASE i = q + 1
    BY <1>1, <2>2
  <2> QED
    BY <1>2, <2>1, <2>2
<1> QED
  BY <1>3 DEF new

(* A transfer moves its bits, a sample none; the result is right. *)
LEMMA DeferInExchange ==
    ASSUME ChainInv, ExchangeInv, last.op = "exchange", ~lost, CableDefer
    PROVE  Exchanging'
<1> DEFINE op == Head(prog)
           act == op.act
           x == last.x
           L == AllGets(x)
           S == Bits
<1>1. /\ prog # <<>> /\ op.op = "defer" /\ prog' = Tail(prog)
      /\ UNCHANGED <<last, lost, outs, state>>
      /\ line' = Effect(act, line) /\ results' = results \o ResultOf(act, line)
  BY SameEffect, SameResult DEF CableDefer, At, Done, C!Defer
<1>2. act \in Acts
  BY <1>1, HeadTailProperties, OpByName DEF ChainInv, Types, DeferOps
<1>3. line \in Lines /\ results \in Seq(Results)
  BY DEF ChainInv, Types, ExchangeInv
<1>4. last.tracked => state = line.tap /\ ~HeldInReset(line)
  BY DEF ChainInv, ExchangeTracked
<1>5. Outputs
  BY DEF ExchangeInv, Exchanging
<1>6. PICK a \in Seq(Ops), c \in Places, d \in Places :
                /\ UnderWay(a, 0, c) /\ a # <<>> /\ Head(prog) = Head(a)
                /\ Tail(a) \in Seq(Ops)
                /\ Tail(prog) = Tail(a) \o AllGets(last.x)
                /\ Carried(last.x, Bits, c, op, d)
                /\ Runs(last.x, Bits, d, Tail(a), EndOf(last.x, last.path))
                /\ c.st = state /\ Len(results) = c.q
                /\ \A i \in 1 .. c.q : Expected(last.x, AllGets(last.x)[i], results[i])
                /\ last.tracked =>
                    /\ Holds(line, Bits, c.p)
                    /\ \A i \in 1 .. c.q :
                            RightBits(last.x, Bits, AllGets(last.x)[i], results[i])
  BY <1>1, DeferredCall
<1>7. DeferCarried(x, S, c, act, d)
  BY <1>1, <1>6 DEF Carried
<1>8. c.p \in Nat /\ c.q \in Nat /\ d.st = state'
  BY <1>1, <1>6, <1>7 DEF Places, DeferCarried
<1> HIDE DEF S, L, x, act, op
<1>9. CASE act.action = "TRANSFER"
  <2> DEFINE in == act.in
             out == DriverTransfer(line, in).out
             r == [kind |-> "TRANSFER", value |-> out]
  <2>1. in \in Seq(Bit) /\ act.keep \in BOOLEAN
    BY <1>2, <1>9 DEF Acts
  <2>2. /\ in = <<>> \/ c.st \in ShiftStates
        /\ \A i \in 1 .. Len(in) : in[i] = S[c.p + Cells + i]
        /\ d.p = c.p + Len(in)
        /\ IF act.keep THEN TransferAsked(x, c, act) /\ d.q = c.q + 1 ELSE d.q = c.q
    BY <1>7, <1>9 DEF DeferCarried
  <2>3. line' = DriverTransfer(line, in).line
    BY <1>1, <1>9 DEF Effect
  <2>4. out \in Seq(Bit) /\ Len(out) = Len(in)
    <3> HIDE DEF in
    <3> QED
      BY <1>3, <2>1, TransferTypes
  <2>5. ASSUME last.tracked
        PROVE  Holds(line', S, d.p) /\ \A i \in 1 .. Len(in) : out[i] = S[c.p + i]
    <3> DEFINE l == line
               p == c.p
               y == in
    <3>1. /\ l \in Lines /\ y \in Seq(Bit) /\ p \in Nat /\ Holds(l, S, p)
          /\ l.tap \in ShiftStates \/ y = <<>>
          /\ ~HeldInReset(l)
          /\ \A i \in 1 .. Len(y) : y[i] = S[p + Cells + i]
      BY <1>3, <1>4, <1>6, <1>8, <2>1, <2>2, <2>5 DEF S
    <3> HIDE DEF l, p, y
    <3>2. /\ Holds(DriverTransfer(l, y).line, S, p + Len(y))
          /\ \A i \in 1 .. Len(y) : DriverTransfer(l, y).out[i] = S[p + i]
      BY <3>1, TransferShifts
    <3> QED
      BY <2>2, <2>3, <3>2 DEF l, p, y
  <2> HIDE DEF in, out
  <2>6. CASE act.keep
    <3>1. results' = results \o <<r>>
      BY <1>1, <1>9, <2>6 DEF ResultOf, out, in
    <3>2. r \in Results /\ r.kind = "TRANSFER" /\ r.value = out
      BY <2>4 DEF Results
    <3> HIDE DEF r
    <3> DEFINE k == L[c.q + 1].reg
    <3>3. /\ L[c.q + 1].op = "transfer_late" /\ c.p = FirstBit(x, k)
          /\ Len(in) = Transferred(x.regs[k], ExitOf(x, k)) /\ d.q = c.q + 1
      BY <2>2, <2>6 DEF TransferAsked, L, in
    <3>4. Expected(x, L[c.q + 1], r)
      BY <2>4, <3>2, <3>3 DEF Expected
    <3>5. last.tracked => RightBits(x, S, L[c.q + 1], r)
      BY <2>4, <2>5, <3>2, <3>3 DEF RightBits
    <3>6. Len(results') = d.q /\ \A i \in 1 .. d.q : Expected(x, L[i], results'[i])
      BY <1>3, <1>6, <1>8, <3>1, <3>2, <3>3, <3>4, AskedResult DEF x, L
    <3>7. ASSUME last.tracked PROVE \A i \in 1 .. d.q : RightBits(x, S, L[i], results'[i])
      <4>1. \A i \in 1 .. c.q : RightBits(x, S, L[i], results[i])
        BY <1>6, <3>7 DEF x, S, L
      <4> QED
        BY <1>3, <1>6, <1>8, <3>1, <3>2, <3>3, <3>5, <3>7, <4>1, AskedBits
    <3>8. /\ UNCHANGED <<last, outs>> /\ prog' = Tail(a) \o AllGets(last.x)
          /\ state' = d.st
          /\ \A i \in 1 .. d.q : Expected(last.x, AllGets(last.x)[i], results'[i])
          /\ last.tracked =>
                /\ Holds(line', Bits, d.p)
                /\ \A i \in 1 .. d.q : RightBits(last.x, Bits, AllGets(last.x)[i], results'[i])
      BY <1>1, <1>6, <1>8, <2>5, <3>6, <3>7 DEF x, L, S
    <3> QED
      BY <1>5, <1>6, <3>6, <3>8, Advanced
  <2>7. CASE ~act.keep
    <3>1. results' = results /\ d.q = c.q
      <4>1. ResultOf(act, line) = <<>>
        BY <1>9, <2>7 DEF ResultOf
      <4> QED
        BY <1>1, <1>3, <2>2, <2>7, <4>1
    <3>2. last.tracked => Holds(line', Bits, d.p)
      BY <2>5 DEF S
    <3> QED
      BY <1>1, <1>5, <1>6, <1>8, <3>1, <3>2, Advanced
  <2> QED
    BY <2>1, <2>6, <2>7
<1>10. CASE act.action = "GET_TDO"
  <2> DEFINE r == [kind |-> "GET_TDO", value |-> Tdo(line)]
             get == L[c.q + 1]
  <2>1. /\ get.op = "get_tdo_late" /\ c.p + 1 = FirstBit(x, get.reg) + get.at
        /\ d.p = c.p /\ d.q = c.q + 1
    BY <1>7, <1>10 DEF DeferCarried, SampleAsked, L
  <2>2. line' = line /\ results' = results \o <<r>>
    BY <1>1, <1>10 DEF Effect, ResultOf
  <2>3. Tdo(line) \in Bit
    BY <1>3, TdoHeld
  <2>4. ASSUME last.tracked PROVE Tdo(line) = S[FirstBit(x, get.reg) + get.at]
    <3>1. Holds(line, S, c.p)
      BY <1>6, <2>4 DEF S
    <3>2. Tdo(line) = S[c.p + 1]
      BY <1>3, <3>1, TdoHeld
    <3> QED
      BY <2>1, <3>2
  <2>5. r \in Results /\ r.kind = "GET_TDO" /\ r.value = Tdo(line)
    BY <2>3 DEF Results
  <2> HIDE DEF r
  <2>6. Expected(x, get, r)
    BY <2>1, <2>3, <2>5 DEF Expected
  <2>7. last.tracked => RightBits(x, S, get, r)
    BY <2>1, <2>4, <2>5 DEF RightBits
  <2>8. Len(results') = d.q /\ \A i \in 1 .. d.q : Expected(x, L[i], results'[i])
    BY <1>3, <1>6, <1>8, <2>1, <2>2, <2>5, <2>6, AskedResult DEF x, L
  <2>9. ASSUME last.tracked PROVE \A i \in 1 .. d.q : RightBits(x, S, L[i], results'[i])
    <3>1. \A i \in 1 .. c.q : RightBits(x, S, L[i], results[i])
      BY <1>6, <2>9 DEF x, S, L
    <3> QED
      BY <1>3, <1>6, <1>8, <2>1, <2>2, <2>5, <2>7, <2>9, <3>1, AskedBits
  <2>10. last.tracked => Holds(line', Bits, d.p)
    BY <1>6, <2>1, <2>2
  <2>11. /\ UNCHANGED <<last, outs>> /\ prog' = Tail(a) \o AllGets(last.x)
         /\ state' = d.st
         /\ \A i \in 1 .. d.q : Expected(last.x, AllGets(last.x)[i], results'[i])
         /\ last.tracked =>
                /\ Holds(line', Bits, d.p)
                /\ \A i \in 1 .. d.q : RightBits(last.x, Bits, AllGets(last.x)[i], results'[i])
    BY <1>1, <1>6, <1>8, <2>8, <2>9, <2>10 DEF x, L, S
  <2> QED
    BY <1>5, <1>6, <2>8, <2>11, Advanced
<1> QED
  BY <1>2, <1>9, <1>10 DEF Acts

(* The calls of a register's shift take the place of the call for it. *)
LEMMA ShiftInExchange ==
    ASSUME ChainInv, ExchangeInv, last.op = "exchange", ~lost, DeferShift
    PROVE  Exchanging'
<1> DEFINE op == Head(prog)
           x == last.x
<1>1. /\ prog # <<>> /\ op.op = "defer_shift"
      /\ prog' = FullShift(state, op.reg, op.exit) \o Tail(prog)
      /\ UNCHANGED <<line, last, lost, outs, state, results>>
  BY DEF DeferShift, At, FullShift
<1>2. Outputs
  BY DEF ExchangeInv, Exchanging
<1>3. PICK a \in Seq(Ops), c \in Places, d \in Places :
                /\ UnderWay(a, 0, c) /\ a # <<>> /\ Head(prog) = Head(a)
                /\ Tail(a) \in Seq(Ops)
                /\ Tail(prog) = Tail(a) \o AllGets(last.x)
                /\ Carried(last.x, Bits, c, op, d)
                /\ Runs(last.x, Bits, d, Tail(a), EndOf(last.x, last.path))
                /\ c.st = state /\ Len(results) = c.q
                /\ \A i \in 1 .. c.q : Expected(last.x, AllGets(last.x)[i], results[i])
                /\ last.tracked =>
                    /\ Holds(line, Bits, c.p)
                    /\ \A i \in 1 .. c.q :
                            RightBits(last.x, Bits, AllGets(last.x)[i], results[i])
  BY <1>1, DeferredCall
<1>4. ShiftCarried(x, c, op, d)
  BY <1>1, <1>3 DEF Carried
<1>5. PICK s : s = FullShift(c.st, op.reg, op.exit)
  OBVIOUS
<1>6. s \in Seq(Ops) /\ Runs(x, Bits, c, s, d)
  <2> DEFINE cells == last.cells
  <2>1. x \in Shifts /\ cells \in [1 .. Cells -> Bit] /\ Bits = Stream(x, cells)
    BY <1>2 DEF Outputs, Bits
  <2> HIDE DEF x, cells, op
  <2> QED
    BY <1>4, <1>5, <2>1, ShiftRuns
<1> DEFINE t == Tail(a)
           L == AllGets(x)
<1>7. L \in Seq(Ops) /\ t \in Seq(Ops)
  <2>1. L \in Seq(GetsOf(x)) /\ GetsOf(x) \subseteq Ops
    BY <1>2, AllGetsAre, OpsInOps DEF Outputs, GetsOf
  <2> HIDE DEF L, x
  <2> QED
    BY <1>3, <2>1, SeqMonotonic
<1>8. prog' = s \o (t \o L)
  BY <1>1, <1>3, <1>5
<1>9. Runs(x, Bits, d, t, EndOf(x, last.path))
  BY <1>3
<1> HIDE DEF t, L, x
<1>10. prog' = (s \o t) \o L /\ s \o t \in Seq(Ops)
  <2>1. s \o (t \o L) = (s \o t) \o L
    BY <1>6, <1>7, ConcatAssociative
  <2>2. s \o t \in Seq(Ops)
    BY <1>6, <1>7, ConcatProperties
  <2> QED
    BY <1>8, <2>1, <2>2
<1>11. Runs(x, Bits, c, s \o t, EndOf(x, last.path))
  <2>1. EndOf(x, last.path) \in Places
    <3>1. x \in Shifts /\ last.path \in {"DR", "IR"}
      BY <1>2 DEF Outputs, x
    <3>2. "SHIFT_DR" \in ReadyToShift("DR") /\ "SHIFT_IR" \in ReadyToShift("IR")
      BY DEF ReadyToShift
    <3> QED
      BY <3>1, <3>2, AllShiftsRun
  <2> QED
    BY <1>6, <1>7, <1>9, <2>1, RunsConcat
<1>12. PICK u \in Seq(Ops) : u = s \o t
  BY <1>10
<1> QED
  BY <1>1, <1>2, <1>3, <1>10, <1>11, <1>12, Advanced DEF x, L

(* A _late call finds the result that was asked for it. *)
LEMMA LateCall ==
    ASSUME ExchangeInv, last.op = "exchange", ~lost, prog # <<>>,
           Head(prog).op \in {"transfer_late", "get_tdo_late"}
    PROVE  LET L == AllGets(last.x)
           IN  \E b \in 0 .. Len(L), c \in Places :
                /\ UnderWay(<<>>, b, c)
                /\ Len(L) \in Nat /\ b + 1 \in 1 .. Len(L)
                /\ Head(prog) = L[b + 1] /\ Head(prog) \in GetsOf(last.x)
                /\ Tail(prog) = SubSeq(L, b + 2, Len(L))
                /\ results # <<>>
                /\ Expected(last.x, Head(prog), Head(results))
                /\ last.tracked => RightBits(last.x, Bits, Head(prog), Head(results))
<1>1. Outputs
  BY DEF ExchangeInv, Exchanging
<1>2. PICK a \in Seq(Ops), b \in 0 .. Len(AllGets(last.x)), c \in Places : UnderWay(a, b, c)
  BY DEF ExchangeInv, Exchanging
<1> DEFINE L == AllGets(last.x)
<1>3. a = <<>>
  <2> SUFFICES ASSUME a # <<>> PROVE FALSE
    OBVIOUS
  <2>1. Head(prog) = Head(a)
        /\ \E d \in Places : Carried(last.x, Bits, c, Head(a), d)
    BY <1>1, <1>2, NextCall
  <2> QED
    BY <2>1 DEF Carried
<1>4. /\ Len(L) \in Nat /\ b + 1 \in 1 .. Len(L)
      /\ Head(prog) = L[b + 1] /\ L[b + 1] \in GetsOf(last.x)
      /\ Tail(prog) = SubSeq(L, b + 2, Len(L)) /\ c.q = Len(L)
  BY <1>1, <1>2, <1>3, NextCall
<1> HIDE DEF L
<1>5. results \in Seq(Results) /\ Len(results) \in Nat /\ Len(results) + b = Len(L)
  <2>1. results \in Seq(Results)
    BY DEF ExchangeInv
  <2> QED
    BY <1>2, <1>4, <2>1, LenProperties DEF UnderWay
<1>6. 1 \in 1 .. Len(results) /\ b \in Nat
  BY <1>4, <1>5
<1>7. results # <<>> /\ Head(results) = results[1]
  BY <1>5, <1>6, EmptySeq, HeadTailProperties
<1>8. Expected(last.x, L[b + 1], results[1])
  BY <1>2, <1>6 DEF UnderWay, L
<1>9. last.tracked => RightBits(last.x, Bits, L[b + 1], results[1])
  BY <1>2, <1>6 DEF UnderWay, L
<1> QED
  BY <1>2, <1>3, <1>4, <1>7, <1>8, <1>9 DEF L

(* Writing right bits over others leaves written what was. *)
LEMMA WrittenStays ==
    ASSUME NEW x \in Shifts, NEW cells \in [1 .. Cells -> Bit], NEW S, S = Stream(x, cells),
           NEW o, NEW p, NEW op \in GetsOf(x), Written(x, S, op, o),
           \A k \in 1 .. Len(x.regs) : \A i \in 1 .. x.regs[k].outlen :
                p[k][i] = o[k][i] \/ p[k][i] = S[FirstBit(x, k) + i]
    PROVE  Written(x, S, op, p)
<1> DEFINE k == op.reg
           n == Transferred(x.regs[k], ExitOf(x, k))
<1>1. k \in 1 .. Len(x.regs) /\ x.regs[k].outlen # NoOut
      /\ (op.op = "get_tdo_late" => op.at \in 1 .. x.regs[k].outlen)
      /\ op.op \in {"transfer_late", "get_tdo_late"}
  BY DEF GetsOf, LateOps
<1> HIDE DEF k
<1>2. RegisterAt(x, S, k)
  BY <1>1, RegistersAre
<1>3. n <= x.regs[k].outlen /\ n \in Nat /\ x.regs[k].outlen \in Nat
  BY <1>1, <1>2 DEF RegisterAt
<1> HIDE DEF n
<1>4. CASE op.op = "transfer_late"
  <2>1. \A i \in 1 .. n : o[k][i] = S[FirstBit(x, k) + i]
    BY <1>4 DEF Written, k, n
  <2>2. \A i \in 1 .. n : i \in 1 .. x.regs[k].outlen
    BY <1>3
  <2>3. \A i \in 1 .. n : p[k][i] = S[FirstBit(x, k) + i]
    BY <1>1, <2>1, <2>2
  <2> QED
    BY <1>4, <2>3 DEF Written, k, n
<1>5. CASE op.op = "get_tdo_late"
  <2>1. op.op # "transfer_late"
    BY <1>5
  <2>2. o[k][op.at] = S[FirstBit(x, k) + op.at]
    BY <2>1 DEF Written, k
  <2>3. p[k][op.at] = S[FirstBit(x, k) + op.at]
    BY <1>1, <1>5, <2>2
  <2> QED
    BY <2>1, <2>3 DEF Written, k
<1> QED
  BY <1>1, <1>4, <1>5

(* A result fetched leaves the exchange with one less to fetch. *)
LEMMA Collected ==
    ASSUME ExchangeInv, Outputs', last.op = "exchange", ~lost, prog # <<>>,
           Head(prog).op \in {"transfer_late", "get_tdo_late"},
           prog' = Tail(prog), results' = Tail(results), UNCHANGED <<last, line, state>>,
           last.tracked =>
                /\ \A k \in 1 .. Len(last.x.regs) : \A i \in 1 .. last.x.regs[k].outlen :
                    outs'[k][i] = outs[k][i] \/ outs'[k][i] = Bits[FirstBit(last.x, k) + i]
                /\ Written(last.x, Bits, Head(prog), outs')
    PROVE  Exchanging'
<1> DEFINE x == last.x
           L == AllGets(x)
           S == Bits
<1>1. PICK b \in 0 .. Len(L), c \in Places :
                /\ UnderWay(<<>>, b, c)
                /\ Len(L) \in Nat /\ b + 1 \in 1 .. Len(L)
                /\ Head(prog) = L[b + 1] /\ Head(prog) \in GetsOf(last.x)
                /\ Tail(prog) = SubSeq(L, b + 2, Len(L))
                /\ results # <<>>
  BY LateCall
<1>2. AllGets(last'.x) = L /\ Bits' = S /\ last' = last /\ last'.x = x
  BY DEF Bits
<1>3. x \in Shifts /\ last.cells \in [1 .. Cells -> Bit] /\ S = Stream(x, last.cells)
  <2>1. Outputs
    BY DEF ExchangeInv, Exchanging
  <2> QED
    BY <2>1 DEF Outputs, Bits
<1>4. L \in Seq(GetsOf(x))
  BY <1>3, AllGetsAre
<1> HIDE DEF L, S, x
<1>5. /\ results \in Seq(Results) /\ Len(results) \in Nat
      /\ Len(results') = Len(results) - 1
      /\ \A i \in 1 .. Len(results) - 1 : results'[i] = results[i + 1]
  <2>1. results \in Seq(Results)
    BY DEF ExchangeInv
  <2> QED
    BY <1>1, <2>1, HeadTailProperties, LenProperties, ElementOfSeq
<1>6. b \in Nat /\ Len(results') + (b + 1) = Len(results) + b
  BY <1>1, <1>5
<1>7. \A i \in 1 .. Len(results') : i + 1 \in 1 .. Len(results) /\ b + (i + 1) = (b + 1) + i
                                    /\ results'[i] = results[i + 1]
  BY <1>5, <1>6
<1>8. \A i \in 1 .. Len(results') : Expected(x, L[(b + 1) + i], results'[i])
  BY <1>1, <1>7 DEF UnderWay, L, x
<1>9. ASSUME last.tracked
      PROVE  /\ Holds(line, S, c.p)
             /\ \A i \in 1 .. Len(results') : RightBits(x, S, L[(b + 1) + i], results'[i])
             /\ \A j \in 1 .. b + 1 : Written(x, S, L[j], outs')
  <2>1. /\ Holds(line, S, c.p)
        /\ \A i \in 1 .. Len(results) : RightBits(x, S, L[b + i], results[i])
        /\ \A j \in 1 .. b : Written(x, S, L[j], outs)
    BY <1>1, <1>9 DEF UnderWay, L, x, S
  <2>2. ASSUME NEW j \in 1 .. b + 1 PROVE Written(x, S, L[j], outs')
    <3>1. CASE j = b + 1
      BY <1>1, <1>9, <3>1 DEF S, x
    <3>2. CASE j # b + 1
      <4>1. j \in 1 .. b /\ j \in 1 .. Len(L)
        BY <1>1, <1>6, <3>2
      <4>2. L[j] \in GetsOf(x) /\ Written(x, S, L[j], outs)
        BY <1>4, <2>1, <4>1, ElementOfSeq
      <4>3. PICK cells, p, o : cells = last.cells /\ p = outs' /\ o = outs
        OBVIOUS
      <4>4. \A k \in 1 .. Len(x.regs) : \A i \in 1 .. x.regs[k].outlen :
                p[k][i] = o[k][i] \/ p[k][i] = S[FirstBit(x, k) + i]
        BY <1>9, <4>3 DEF x, S
      <4> DEFINE op == L[j]
      <4>5. op \in GetsOf(x) /\ Written(x, S, op, o)
        BY <4>2, <4>3
      <4> HIDE DEF op
      <4>6. Written(x, S, op, p)
        BY <1>3, <4>3, <4>4, <4>5, WrittenStays
      <4> QED
        BY <4>3, <4>6 DEF op
    <3> QED
      BY <3>1, <3>2
  <2> QED
    BY <1>7, <2>1, <2>2
<1>10. prog' = <<>> \o SubSeq(L, (b + 1) + 1, Len(L))
  <2>1. (b + 1) + 1 = b + 2
    BY <1>6
  <2>2. SubSeq(L, b + 2, Len(L)) \in Seq(GetsOf(x))
    <3>1. \A i \in b + 2 .. Len(L) : L[i] \in GetsOf(x)
      <4> TAKE i \in b + 2 .. Len(L)
      <4>1. i \in 1 .. Len(L)
        BY <1>1, <1>6
      <4> QED
        BY <1>4, <4>1, ElementOfSeq
    <3>2. b + 2 \in Int /\ Len(L) \in Int
      BY <1>1, <1>6
    <3> QED
      BY <3>1, <3>2, SubSeqProperties
  <2> QED
    BY <1>1, <2>1, <2>2
<1>11. UnderWay(<<>>, b + 1, c)'
  <2>1. Len(results') + (b + 1) = c.q /\ c.st = state'
        /\ Runs(x, S, c, <<>>, EndOf(x, last.path))
    BY <1>1, <1>6 DEF UnderWay, x, S
  <2> QED
    BY <1>2, <1>8, <1>9, <1>10, <2>1 DEF UnderWay
<1>12. b + 1 \in 0 .. Len(AllGets(last'.x)) /\ <<>> \in Seq(Ops)
  BY <1>1, <1>2, <1>6
<1> QED
  BY <1>11, <1>12 DEF Exchanging

(* A result copied over the beginning of an output register. *)
LEMMA CopiedOver ==
    ASSUME NEW m \in Nat, NEW o \in [1 .. m -> Bit], NEW bits \in Seq(Bit), Len(bits) <= m
    PROVE  LET w == bits \o SubSeq(o, Len(bits) + 1, Len(o))
           IN  /\ w \in [1 .. m -> Bit]
               /\ \A i \in 1 .. m : w[i] = IF i <= Len(bits) THEN bits[i] ELSE o[i]
<1> DEFINE n == Len(bits)
           rest == SubSeq(o, n + 1, m)
           w == bits \o rest
<1>1. n \in Nat /\ o \in Seq(Bit) /\ Len(o) = m
  BY LenProperties
<1> HIDE DEF n
<1>2. /\ rest \in Seq(Bit) /\ Len(rest) = m - n
      /\ \A i \in 1 .. m - n : rest[i] = o[n + i]
  <2>1. \A i \in n + 1 .. m : o[i] \in Bit
    <3> TAKE i \in n + 1 .. m
    <3>1. i \in 1 .. m
      BY <1>1
    <3> QED
      BY <3>1
  <2>2. n + 1 \in Int /\ m \in Int
    BY <1>1
  <2>3. /\ rest \in Seq(Bit)
        /\ Len(rest) = IF n + 1 <= m THEN m - (n + 1) + 1 ELSE 0
        /\ \A i \in 1 .. m - (n + 1) + 1 : rest[i] = o[(n + 1) + i - 1]
    BY <2>1, <2>2, SubSeqProperties
  <2>4. n <= m
    BY DEF n
  <2> HIDE DEF rest
  <2>5. Len(rest) = m - n /\ m - (n + 1) + 1 = m - n
    BY <1>1, <2>3, <2>4
  <2>6. \A i \in 1 .. m - n : (n + 1) + i - 1 = n + i
    BY <1>1
  <2> QED
    BY <2>3, <2>5, <2>6
<1> HIDE DEF rest
<1>3. /\ w \in Seq(Bit) /\ Len(w) = n + (m - n)
      /\ \A i \in 1 .. n + (m - n) : w[i] = IF i <= n THEN bits[i] ELSE rest[i - n]
  <2>1. /\ w \in Seq(Bit) /\ Len(w) = Len(bits) + Len(rest)
        /\ \A i \in 1 .. Len(bits) + Len(rest) :
                w[i] = IF i <= Len(bits) THEN bits[i] ELSE rest[i - Len(bits)]
    BY <1>2, ConcatProperties
  <2> QED
    BY <1>2, <2>1 DEF n
<1> HIDE DEF w
<1>4. n + (m - n) = m /\ n <= m
  BY <1>1 DEF n
<1>5. w \in [1 .. m -> Bit]
  <2>1. DOMAIN w = 1 .. m /\ w \in [1 .. m -> Bit]
    BY <1>3, <1>4, LenProperties
  <2> QED
    BY <2>1
<1>6. ASSUME NEW i \in 1 .. m PROVE w[i] = IF i <= n THEN bits[i] ELSE o[i]
  <2>1. CASE i <= n
    BY <1>3, <1>4, <2>1
  <2>2. CASE ~(i <= n)
    <3>1. i - n \in 1 .. m - n /\ n + (i - n) = i
      BY <1>1, <2>2
    <3> QED
      BY <1>2, <1>3, <1>4, <2>2, <3>1
  <2> QED
    BY <2>1, <2>2
<1>7. bits \o SubSeq(o, Len(bits) + 1, Len(o)) = w
  BY <1>1 DEF w, rest, n
<1> QED
  BY <1>5, <1>6, <1>7 DEF n

(* A fetch in an exchange takes the oldest result. *)
LEMMA FetchInExchange ==
    ASSUME ExchangeInv, last.op = "exchange", ~lost, prog # <<>>, NEW kind,
           \/ Head(prog).op = "transfer_late" /\ kind = "TRANSFER"
           \/ Head(prog).op = "get_tdo_late" /\ kind = "GET_TDO"
    PROVE  ~ C!FetchNone(kind)
<1>1. Head(prog).op \in {"transfer_late", "get_tdo_late"}
  OBVIOUS
<1>2. results # <<>> /\ Expected(last.x, Head(prog), Head(results))
  BY <1>1, LateCall
<1>3. Head(results).kind = kind
  BY <1>2 DEF Expected
<1> QED
  BY <1>2, <1>3 DEF C!FetchNone

(* The register that takes the output is one of the exchange, and long     *)
(* enough for what its transfer returns.                                   *)
LEMMA OutputOf ==
    ASSUME ExchangeInv, last.op = "exchange", ~lost, prog # <<>>,
           Head(prog).op \in {"transfer_late", "get_tdo_late"}
    PROVE  LET k == Head(prog).reg
               reg == last.x.regs[k]
           IN  /\ k \in 1 .. Len(last.x.regs) /\ reg.outlen \in Nat
               /\ Transferred(reg, ExitOf(last.x, k)) <= reg.outlen
               /\ Head(prog).op = "get_tdo_late" => Head(prog).at \in 1 .. reg.outlen
               /\ outs[k] \in [1 .. reg.outlen -> Bit]
<1>1. Outputs
  BY DEF ExchangeInv, Exchanging
<1> DEFINE op == Head(prog)
           x == last.x
           k == op.reg
<1>2. op \in GetsOf(x)
  BY LateCall
<1>3. k \in 1 .. Len(x.regs) /\ x.regs[k].outlen # NoOut
      /\ (op.op = "get_tdo_late" => op.at \in 1 .. x.regs[k].outlen)
  BY <1>2 DEF GetsOf
<1>4. /\ x \in Shifts /\ last.cells \in [1 .. Cells -> Bit]
      /\ outs[k] \in [1 .. x.regs[k].outlen -> Bit]
  BY <1>1, <1>3 DEF Outputs
<1> HIDE DEF x, k, op
<1>5. RegisterAt(x, Stream(x, last.cells), k)
  BY <1>3, <1>4, RegistersAre
<1>6. x.regs[k].outlen \in Nat /\ Transferred(x.regs[k], ExitOf(x, k)) <= x.regs[k].outlen
  BY <1>3, <1>5 DEF RegisterAt
<1> QED
  BY <1>3, <1>4, <1>6 DEF x, k, op

(* The bits of a transfer are written over the beginning of its register.  *)
LEMMA TransferLateInExchange ==
    ASSUME ExchangeInv, last.op = "exchange", ~lost, TransferLate
    PROVE  Exchanging'
<1> DEFINE op == Head(prog)
           x == last.x
           k == op.reg
           bits == Head(results).value
           m == x.regs[k].outlen
           S == Bits
           w == bits \o SubSeq(outs[k], Len(bits) + 1, Len(outs[k]))
<1>1. prog # <<>> /\ op.op = "transfer_late"
      /\ prog' = Tail(prog) /\ UNCHANGED <<last, state>>
  BY DEF TransferLate, At, Done
<1>2. /\ results' = Tail(results) /\ line' = line
      /\ outs' = [outs EXCEPT ![k] = w]
  <2>1. ~ C!FetchNone("TRANSFER")
    BY <1>1, FetchInExchange
  <2>2. C!Fetch("TRANSFER") /\ outs' = [outs EXCEPT ![k] = w]
    BY <2>1 DEF TransferLate
  <2> QED
    BY <2>2 DEF C!Fetch
<1>3. Expected(x, op, Head(results)) /\ (last.tracked => RightBits(x, S, op, Head(results)))
  BY <1>1, LateCall
<1>4. /\ bits \in Seq(Bit) /\ Len(bits) = Transferred(x.regs[k], ExitOf(x, k))
      /\ last.tracked => \A i \in 1 .. Len(bits) : bits[i] = S[FirstBit(x, k) + i]
  BY <1>1, <1>3 DEF Expected, RightBits
<1>5. /\ k \in 1 .. Len(x.regs) /\ m \in Nat /\ outs[k] \in [1 .. m -> Bit]
      /\ Transferred(x.regs[k], ExitOf(x, k)) <= m
  BY <1>1, OutputOf
<1>6. Outputs
  BY DEF ExchangeInv, Exchanging
<1> HIDE DEF bits, m, op, x, k, S
<1>7. Len(bits) <= m /\ Len(bits) \in Nat
  BY <1>4, <1>5, LenProperties
<1>8. /\ w \in [1 .. m -> Bit]
      /\ \A i \in 1 .. m : w[i] = IF i <= Len(bits) THEN bits[i] ELSE outs[k][i]
  <2> DEFINE o == outs[k]
  <2>1. o \in [1 .. m -> Bit]
    BY <1>5
  <2> HIDE DEF o
  <2>2. /\ (bits \o SubSeq(o, Len(bits) + 1, Len(o))) \in [1 .. m -> Bit]
        /\ \A i \in 1 .. m : (bits \o SubSeq(o, Len(bits) + 1, Len(o)))[i] =
                                IF i <= Len(bits) THEN bits[i] ELSE o[i]
    BY <1>4, <1>5, <1>7, <2>1, CopiedOver
  <2> QED
    BY <2>2 DEF o
<1> HIDE DEF w
<1>9. /\ DOMAIN outs' = DOMAIN outs /\ outs'[k] = w
      /\ \A h \in 1 .. Len(x.regs) : h # k => outs'[h] = outs[h]
  BY <1>2, <1>5, <1>6 DEF Outputs, x
<1>10. Outputs'
  <2>1. \A h \in 1 .. Len(x.regs) : outs'[h] \in [1 .. x.regs[h].outlen -> Bit]
    BY <1>6, <1>8, <1>9 DEF Outputs, x, m
  <2>2. last' = last /\ last'.x = x
    BY <1>1 DEF x
  <2> QED
    BY <1>6, <1>9, <2>1, <2>2 DEF Outputs, x
<1>11. ASSUME last.tracked
       PROVE  /\ \A h \in 1 .. Len(x.regs) : \A i \in 1 .. x.regs[h].outlen :
                    outs'[h][i] = outs[h][i] \/ outs'[h][i] = S[FirstBit(x, h) + i]
              /\ Written(x, S, op, outs')
  <2>1. \A i \in 1 .. Len(bits) : bits[i] = S[FirstBit(x, k) + i]
    BY <1>4, <1>11
  <2>2. ASSUME NEW i \in 1 .. m
        PROVE  outs'[k][i] = outs[k][i] \/ outs'[k][i] = S[FirstBit(x, k) + i]
    <3>1. CASE i <= Len(bits)
      <4>1. i \in 1 .. Len(bits)
        BY <1>7, <3>1
      <4> QED
        BY <1>8, <1>9, <2>1, <3>1, <4>1
    <3>2. CASE ~(i <= Len(bits))
      BY <1>8, <1>9, <3>2
    <3> QED
      BY <3>1, <3>2
  <2>3. ASSUME NEW i \in 1 .. Len(bits) PROVE outs'[k][i] = S[FirstBit(x, k) + i]
    <3>1. i \in 1 .. m /\ i <= Len(bits)
      BY <1>5, <1>7
    <3> QED
      BY <1>8, <1>9, <2>1, <3>1
  <2>4. Written(x, S, op, outs')
    BY <1>1, <1>4, <2>3 DEF Written, k, op
  <2>5. \A h \in 1 .. Len(x.regs) : \A i \in 1 .. x.regs[h].outlen :
            outs'[h][i] = outs[h][i] \/ outs'[h][i] = S[FirstBit(x, h) + i]
    BY <1>9, <2>2 DEF m
  <2> QED
    BY <2>4, <2>5
<1> QED
  BY <1>1, <1>2, <1>10, <1>11, Collected DEF op, x, S

(* A sample is written to its place. *)
LEMMA GetTdoLateInExchange ==
    ASSUME ExchangeInv, last.op = "exchange", ~lost, GetTdoLate
    PROVE  Exchanging'
<1> DEFINE op == Head(prog)
           x == last.x
           k == op.reg
           at == op.at
           bit == Head(results).value
           m == x.regs[k].outlen
           S == Bits
<1>1. prog # <<>> /\ op.op = "get_tdo_late"
      /\ prog' = Tail(prog) /\ UNCHANGED <<last, state>>
  BY DEF GetTdoLate, At, Done
<1>2. /\ results' = Tail(results) /\ line' = line
      /\ outs' = [outs EXCEPT ![k][at] = bit]
  <2>1. ~ C!FetchNone("GET_TDO")
    BY <1>1, FetchInExchange
  <2>2. C!Fetch("GET_TDO") /\ outs' = [outs EXCEPT ![k][at] = ret'[2]]
    BY <2>1 DEF GetTdoLate
  <2>3. ret' = <<"GET_TDO", bit>>
    BY <2>2 DEF C!Fetch, C!StoredValue
  <2>4. ret'[2] = bit
    BY <2>3
  <2> QED
    BY <2>2, <2>4 DEF C!Fetch
<1>3. Expected(x, op, Head(results)) /\ (last.tracked => RightBits(x, S, op, Head(results)))
  BY <1>1, LateCall
<1>4. bit \in Bit /\ (last.tracked => bit = S[FirstBit(x, k) + at])
  BY <1>1, <1>3 DEF Expected, RightBits
<1>5. k \in 1 .. Len(x.regs) /\ outs[k] \in [1 .. m -> Bit] /\ at \in 1 .. m
  BY <1>1, OutputOf
<1>6. Outputs
  BY DEF ExchangeInv, Exchanging
<1> HIDE DEF bit, m, at, op, x, k, S
<1>7. /\ DOMAIN outs' = DOMAIN outs /\ outs'[k] = [outs[k] EXCEPT ![at] = bit]
      /\ \A h \in 1 .. Len(x.regs) : h # k => outs'[h] = outs[h]
  BY <1>2, <1>5, <1>6 DEF Outputs, x
<1>8. /\ outs'[k] \in [1 .. m -> Bit] /\ outs'[k][at] = bit
      /\ \A i \in 1 .. m : i # at => outs'[k][i] = outs[k][i]
  BY <1>4, <1>5, <1>7
<1>9. Outputs'
  <2>1. \A h \in 1 .. Len(x.regs) : outs'[h] \in [1 .. x.regs[h].outlen -> Bit]
    BY <1>6, <1>7, <1>8 DEF Outputs, x, m
  <2>2. last' = last /\ last'.x = x
    BY <1>1 DEF x
  <2> QED
    BY <1>6, <1>7, <2>1, <2>2 DEF Outputs, x
<1>10. ASSUME last.tracked
       PROVE  /\ \A h \in 1 .. Len(x.regs) : \A i \in 1 .. x.regs[h].outlen :
                    outs'[h][i] = outs[h][i] \/ outs'[h][i] = S[FirstBit(x, h) + i]
              /\ Written(x, S, op, outs')
  <2>1. outs'[k][at] = S[FirstBit(x, k) + at]
    BY <1>4, <1>8, <1>10
  <2>2. Written(x, S, op, outs')
    BY <1>1, <2>1 DEF Written, k, at
  <2>3. \A h \in 1 .. Len(x.regs) : \A i \in 1 .. x.regs[h].outlen :
            outs'[h][i] = outs[h][i] \/ outs'[h][i] = S[FirstBit(x, h) + i]
    BY <1>7, <1>8, <2>1 DEF m
  <2> QED
    BY <2>2, <2>3
<1> QED
  BY <1>1, <1>2, <1>9, <1>10, Collected DEF op, x, S

-----------------------------------------------------------------------------
(* The invariant holds whatever operation begins and whatever call is next. *)

(* Operations other than exchanges have no output registers. *)
LEMMA ExchangeInvCall ==
    ASSUME ShiftsOnlyWhileShifting, ChainInv, Balanced, ExchangeInv, Call
    PROVE  ExchangeInv'
<1>1. ASSUME NEW x \in Shifts, Exchange(x) PROVE ExchangeInv'
  BY <1>1, ExchangingBegins
<1>2. ASSUME NEW op, op # "exchange", Start(op) PROVE ExchangeInv'
  <2>1. last'.op # "exchange" /\ outs' = <<>> /\ results' = results
    BY <1>2 DEF Start
  <2> QED
    BY <2>1 DEF ExchangeInv, Exchanging
<1> QED
  BY <1>1, <1>2 DEF Call, TapReset, TrstReset, ResetBypass, ChainClock, ChainDeferClock,
                    Capture, SetPodSignal

(* The results that wait are bits. *)
LEMMA ResultsTyped ==
    ASSUME ChainInv, ExchangeInv, Step
    PROVE  results' \in Seq(Results)
<1>1. results \in Seq(Results) /\ line \in Lines
  BY DEF ExchangeInv, ChainInv, Types
<1>2. CASE CableDeferClock
  <2> DEFINE op == Head(prog)
             act == [action |-> "CLOCK", tms |-> op.tms, tdi |-> op.tdi, n |-> op.n]
  <2>1. results' = results \o ResultOf(act, line)
    BY <1>2, SameResult DEF CableDeferClock, C!Defer
  <2>2. ResultOf(act, line) = <<>>
    BY DEF ResultOf
  <2> QED
    BY <1>1, <2>1, <2>2
<1>3. CASE CableDefer
  <2> DEFINE act == Head(prog).act
             tdo == Tdo(line)
             out == DriverTransfer(line, act.in).out
  <2>1. /\ prog # <<>> /\ Head(prog).op = "defer"
        /\ results' = results \o ResultOf(act, line)
    BY <1>3, SameResult DEF CableDefer, At, C!Defer
  <2>2. act \in Acts
    BY <2>1, HeadTailProperties, OpByName DEF ChainInv, Types, DeferOps
  <2>3. tdo \in Bit
    BY <1>1, TdoHeld
  <2>4. act.action = "TRANSFER" => out \in Seq(Bit)
    <3> SUFFICES ASSUME act.action = "TRANSFER" PROVE out \in Seq(Bit)
      OBVIOUS
    <3> DEFINE in == act.in
    <3>1. in \in Seq(Bit)
      BY <2>2 DEF Acts
    <3> HIDE DEF in
    <3>2. DriverTransfer(line, in).out \in Seq(Bit)
      BY <1>1, <3>1, TransferTypes
    <3> QED
      BY <3>2 DEF in
  <2>5. ResultOf(act, line) \in
            {<<>>, <<[kind |-> "TRANSFER", value |-> out]>>,
             <<[kind |-> "GET_TDO", value |-> tdo]>>}
        /\ (act.action = "GET_TDO" =>
                ResultOf(act, line) = <<[kind |-> "GET_TDO", value |-> tdo]>>)
    BY <2>2 DEF ResultOf, Acts
  <2> HIDE DEF tdo, out, act
  <2>6. [kind |-> "GET_TDO", value |-> tdo] \in Results
    BY <2>3 DEF Results
  <2>7. act.action = "TRANSFER" => [kind |-> "TRANSFER", value |-> out] \in Results
    BY <2>4 DEF Results
  <2>8. CASE ResultOf(act, line) = <<>>
    BY <1>1, <2>1, <2>8
  <2>9. CASE ResultOf(act, line) = <<[kind |-> "GET_TDO", value |-> tdo]>>
    <3>1. results' = results \o <<[kind |-> "GET_TDO", value |-> tdo]>>
      BY <2>1, <2>9
    <3> QED
      BY <1>1, <2>6, <3>1, ResultAdded
  <2>10. CASE act.action = "TRANSFER" /\ ResultOf(act, line) =
                    <<[kind |-> "TRANSFER", value |-> out]>>
    <3>1. results' = results \o <<[kind |-> "TRANSFER", value |-> out]>>
      BY <2>1, <2>10
    <3> QED
      BY <1>1, <2>7, <2>10, <3>1, ResultAdded
  <2>11. act.action \in {"TRANSFER", "GET_TDO"}
    BY <2>2 DEF Acts
  <2> QED
    BY <2>5, <2>8, <2>9, <2>10, <2>11
<1>4. CASE TransferLate \/ GetTdoLate
  <2>1. results' = <<>> \/ (results # <<>> /\ results' = Tail(results))
    BY <1>4 DEF TransferLate, GetTdoLate, C!Fetch, C!FetchNone
  <2>2. results # <<>> => Tail(results) \in Seq(Results)
    BY <1>1, HeadTailProperties
  <2>3. <<>> \in Seq(Results)
    OBVIOUS
  <2> QED
    BY <2>1, <2>2, <2>3
<1>5. CASE StateReset \/ CableClock \/ CableDeferClockFails \/ CableDeferFails \/ DeferShift
           \/ SetSignal
  BY <1>1, <1>5 DEF StateReset, CableClock, CableDeferClockFails, CableDeferFails, DeferShift,
                    SetSignal, C!Do, C!Refuse
<1> QED
  BY <1>2, <1>3, <1>4, <1>5 DEF Step

(* Nothing is written where there is no output register. *)
LEMMA NoOutputStays ==
    ASSUME Step, outs = <<>>
    PROVE  outs' = <<>>
<1>1. CASE TransferLate \/ GetTdoLate
  <2>1. \A k, v : [outs EXCEPT ![k] = v] = <<>>
    <3> TAKE k, v
    <3> DEFINE o == [outs EXCEPT ![k] = v]
    <3>1. outs \in [1 .. 0 -> {}]
      <4>1. <<>> \in Seq({}) /\ Len(<<>>) = 0
        OBVIOUS
      <4> QED
        BY <4>1, LenProperties
    <3>3. 1 .. 0 = {}
      OBVIOUS
    <3>4. o \in [1 .. 0 -> {}]
      BY <3>1, <3>3
    <3> HIDE DEF o
    <3>2. o \in Seq({}) /\ Len(o) = 0
      BY <3>4
    <3> QED
      BY <3>2, EmptySeq DEF o
  <2>2. outs' = outs \/ \E k, v : outs' = [outs EXCEPT ![k] = v]
    <3>1. CASE TransferLate
      BY <3>1 DEF TransferLate
    <3>2. CASE GetTdoLate
      BY <3>2 DEF GetTdoLate
    <3> QED
      BY <1>1, <3>1, <3>2
  <2> QED
    BY <2>1, <2>2
<1>2. CASE StateReset \/ CableClock \/ CableDeferClockFails \/ CableDeferFails \/ DeferShift
           \/ SetSignal \/ CableDeferClock \/ CableDefer
  BY <1>2 DEF StateReset, CableClock, CableDeferClockFails, CableDeferFails, DeferShift,
              SetSignal, CableDeferClock, CableDefer
<1> QED
  BY <1>1, <1>2 DEF Step

(* Every call of an exchange keeps it under way. *)
LEMMA ExchangeInvStep ==
    ASSUME ChainInv, ExchangeInv, Step
    PROVE  ExchangeInv'
<1>1. results' \in Seq(Results)
  BY ResultsTyped
<1>2. last' = last /\ prog # <<>>
  BY DEF Step, StateReset, CableClock, CableDeferClock, CableDeferClockFails, CableDefer,
         CableDeferFails, DeferShift, TransferLate, GetTdoLate, SetSignal, At, Done
<1>3. last'.op # "exchange" => outs' = <<>>
  BY <1>2, NoOutputStays DEF ExchangeInv
<1>4. Exchanging'
  <2> SUFFICES ASSUME last.op = "exchange", ~lost' PROVE Exchanging'
    BY <1>2 DEF Exchanging
  <2>1. Head(prog).op \notin {"clock", "set_signal", "state_reset"}
    BY <1>2, ExchangeCallDone, NotInExchange DEF ChainInv
  <2>2. ~(StateReset \/ CableClock \/ SetSignal \/ CableDeferClockFails \/ CableDeferFails)
    BY <2>1 DEF StateReset, CableClock, SetSignal, At, CableDeferClockFails, CableDeferFails
  <2>3. ~lost
    BY <2>2 DEF Step, CableDeferClock, CableDefer, DeferShift, TransferLate, GetTdoLate, Done
  <2>4. CableDeferClock \/ CableDefer \/ DeferShift \/ TransferLate \/ GetTdoLate
    BY <2>2 DEF Step
  <2>5. CASE CableDeferClock
    BY <2>3, <2>5, ClockInExchange
  <2>6. CASE CableDefer
    BY <2>3, <2>6, DeferInExchange
  <2>7. CASE DeferShift
    BY <2>3, <2>7, ShiftInExchange
  <2>8. CASE TransferLate
    BY <2>3, <2>8, TransferLateInExchange
  <2>9. CASE GetTdoLate
    BY <2>3, <2>9, GetTdoLateInExchange
  <2> QED
    BY <2>4, <2>5, <2>6, <2>7, <2>8, <2>9
<1> QED
  BY <1>1, <1>3, <1>4 DEF ExchangeInv

(* An exchange that is over has done what it was asked for.                *)
LEMMA ExchangeOver ==
    ASSUME ExchangeInv, line \in Lines, prog = <<>>, last.op = "exchange", last.tracked, ~lost
    PROVE  LET x == last.x
           IN  /\ x \in Shifts /\ last.cells \in [1 .. Cells -> Bit]
               /\ line.cells = SubSeq(Bits, Len(Bits) - Cells + 1, Len(Bits))
               /\ \A k \in 1 .. Len(x.regs) : \A i \in 1 .. x.regs[k].outlen :
                    i <= Len(x.regs[k].in) => outs[k][i] = Bits[FirstBit(x, k) + i]
<1> DEFINE x == last.x
           L == AllGets(x)
           S == Bits
           n == Len(x.regs)
<1>1. Outputs
  BY DEF ExchangeInv, Exchanging
<1>2. PICK a \in Seq(Ops), b \in 0 .. Len(L), c \in Places : UnderWay(a, b, c)
  BY DEF ExchangeInv, Exchanging
<1>3. x \in Shifts /\ last.cells \in [1 .. Cells -> Bit] /\ S = Stream(x, last.cells)
  BY <1>1 DEF Outputs, Bits
<1>4. L \in Seq(GetsOf(x)) /\ GetsOf(x) \subseteq Ops
  BY <1>3, AllGetsAre, OpsInOps DEF GetsOf
<1>5. prog = a \o SubSeq(L, b + 1, Len(L))
      /\ Runs(x, S, c, a, EndOf(x, last.path))
      /\ Holds(line, S, c.p) /\ \A j \in 1 .. b : Written(x, S, L[j], outs)
  BY <1>2 DEF UnderWay
<1> HIDE DEF L, S, x
<1>6. Len(L) \in Nat /\ L \in Seq(Ops)
  BY <1>4, SeqMonotonic, LenProperties
<1>7. a = <<>> /\ b = Len(L)
  <2> DEFINE t == SubSeq(L, b + 1, Len(L))
  <2>1. t \in Seq(Ops) /\ Len(t) = IF b + 1 <= Len(L) THEN Len(L) - (b + 1) + 1 ELSE 0
    <3>1. \A i \in b + 1 .. Len(L) : L[i] \in Ops
      <4> TAKE i \in b + 1 .. Len(L)
      <4>1. i \in 1 .. Len(L)
        BY <1>6
      <4> QED
        BY <1>6, <4>1, ElementOfSeq
    <3>2. b + 1 \in Int /\ Len(L) \in Int
      BY <1>6
    <3> QED
      BY <3>1, <3>2, SubSeqProperties
  <2> HIDE DEF t
  <2>2. Len(a \o t) = Len(a) + Len(t) /\ Len(a) \in Nat /\ Len(t) \in Nat
    BY <2>1, ConcatProperties, LenProperties
  <2>3. a \o t = <<>> /\ Len(<<>>) = 0
    BY <1>5 DEF t
  <2>4. Len(a) = 0 /\ Len(t) = 0
    BY <2>2, <2>3
  <2>5. a = <<>>
    BY <2>4, EmptySeq
  <2>6. b = Len(L)
    BY <1>6, <2>1, <2>4
  <2> QED
    BY <2>5, <2>6
<1>8. c.p = FirstBit(x, n + 1)
  <2>1. Runs(x, S, c, <<>>, EndOf(x, last.path)) /\ Len(<<>>) = 0
    BY <1>5, <1>7
  <2>2. c = EndOf(x, last.path)
    BY <2>1 DEF Runs
  <2> QED
    BY <2>2 DEF EndOf, Place, x
<1>9. n \in Nat
  BY <1>3, RegistersOfShift DEF x
<1>10. /\ S \in Seq(Bit) /\ Len(S) = Cells + FirstBit(x, n + 1)
       /\ FirstBit(x, n + 1) \in Nat
  <2> DEFINE cells == last.cells
  <2>1. cells \in [1 .. Cells -> Bit] /\ S = Stream(x, cells) /\ n = Len(x.regs)
        /\ n + 1 \in 1 .. n + 1
    BY <1>3, <1>9 DEF x
  <2> HIDE DEF cells, n
  <2>2. /\ S \in Seq(Bit) /\ Len(S) = Cells + FirstBit(x, n + 1)
        /\ \A k \in 1 .. n + 1 : FirstBit(x, k) \in Nat
    BY <1>3, <2>1, StreamIs
  <2> QED
    BY <2>1, <2>2
<1>11. line.cells = SubSeq(S, Len(S) - Cells + 1, Len(S))
  <2> DEFINE p == c.p
             t == SubSeq(S, p + 1, p + Cells)
  <2>1. p \in Nat /\ Cells \in Nat /\ Len(S) = p + Cells /\ Len(S) - Cells + 1 = p + 1
    BY <1>8, <1>10, CellsAssumption
  <2> HIDE DEF p
  <2>2. /\ t \in Seq(Bit) /\ Len(t) = Cells
        /\ \A j \in 1 .. Cells : t[j] = S[p + j]
    <3>1. \A i \in p + 1 .. p + Cells : S[i] \in Bit
      <4> TAKE i \in p + 1 .. p + Cells
      <4>1. i \in 1 .. Len(S)
        BY <2>1
      <4> QED
        BY <1>10, <4>1, ElementOfSeq
    <3> DEFINE from == p + 1
               to == p + Cells
    <3>2. from \in Int /\ to \in Int /\ \A i \in from .. to : S[i] \in Bit
      BY <2>1, <3>1
    <3>3. to - from + 1 = Cells /\ (from <= to \/ Cells = 0)
          /\ \A i \in 1 .. Cells : from + i - 1 = p + i
      BY <2>1
    <3>4. t = SubSeq(S, from, to)
      OBVIOUS
    <3> HIDE DEF t, from, to
    <3>5. /\ t \in Seq(Bit)
          /\ Len(t) = IF from <= to THEN to - from + 1 ELSE 0
          /\ \A i \in 1 .. to - from + 1 : t[i] = S[from + i - 1]
      BY <3>2, <3>4, SubSeqProperties
    <3> QED
      BY <3>3, <3>5
  <2>3. line.cells \in Seq(Bit) /\ Len(line.cells) = Cells
    BY <2>1 DEF Lines
  <2>4. \A j \in 1 .. Cells : line.cells[j] = t[j]
    BY <1>5, <2>2 DEF Holds, p
  <2> HIDE DEF t
  <2>5. line.cells = t
    <3> DEFINE u == line.cells
    <3>1. u \in Seq(Bit) /\ Len(u) = Len(t) /\ \A j \in 1 .. Len(u) : u[j] = t[j]
      BY <2>2, <2>3, <2>4
    <3> HIDE DEF u
    <3>2. u = t
      BY <2>2, <3>1, SeqEqual
    <3> QED
      BY <3>2 DEF u
  <2> QED
    BY <2>1, <2>5 DEF t
<1>12. ASSUME NEW k \in 1 .. n, NEW i \in 1 .. x.regs[k].outlen, i <= Len(x.regs[k].in)
       PROVE  outs[k][i] = S[FirstBit(x, k) + i]
  <2> DEFINE reg == x.regs[k]
             e == ExitOf(x, k)
             m == Transferred(reg, e)
             g == FirstGet(x, k)
  <2>1. RegisterAt(x, S, k)
    <3> DEFINE cells == last.cells
    <3>1. cells \in [1 .. Cells -> Bit] /\ S = Stream(x, cells) /\ k \in 1 .. Len(x.regs)
      BY <1>3
    <3> HIDE DEF cells, n
    <3> QED
      BY <1>3, <3>1, RegistersAre
  <2>2. /\ reg.outlen \in Nat /\ Len(reg.in) \in Nat /\ m \in 0 .. Len(reg.in)
        /\ reg.outlen # NoOut => /\ g + 1 \in 1 .. Len(L)
                                 /\ L[g + 1] = [op |-> "transfer_late", reg |-> k]
        /\ \A j \in m + 1 .. Len(reg.in) :
            j <= reg.outlen =>
                /\ g + 1 + (j - m) \in 1 .. Len(L)
                /\ L[g + 1 + (j - m)] = [op |-> "get_tdo_late", reg |-> k, at |-> j]
    BY <2>1 DEF RegisterAt, L
  <2>3. reg.outlen # NoOut /\ i \in Nat /\ i <= reg.outlen
    BY <2>2 DEF NoOut
  <2> HIDE DEF m, g
  <2>4. CASE i <= m
    <3>1. Written(x, S, L[g + 1], outs) /\ L[g + 1] = [op |-> "transfer_late", reg |-> k]
      BY <1>5, <1>7, <2>2, <2>3
    <3>2. i \in 1 .. m
      BY <2>2, <2>4
    <3> QED
      BY <3>1, <3>2 DEF Written, m
  <2>5. CASE ~(i <= m)
    <3> DEFINE op == [op |-> "get_tdo_late", reg |-> k, at |-> i]
    <3>1. i \in m + 1 .. Len(reg.in)
      BY <1>12, <2>2, <2>3, <2>5
    <3>2. Written(x, S, op, outs)
      BY <1>5, <1>7, <2>2, <2>3, <3>1
    <3>3. op.op # "transfer_late" /\ op.reg = k /\ op.at = i
      OBVIOUS
    <3> HIDE DEF op
    <3> QED
      BY <3>2, <3>3 DEF Written
  <2> QED
    BY <2>4, <2>5
<1> QED
  BY <1>3, <1>11, <1>12 DEF x, S

(* Joined sequences are the same however they are written. *)
LEMMA BitsAre ==
    ASSUME NEW x \in Shifts, NEW cells
    PROVE  /\ Stream(x, cells) = cells \o Concat([k \in DOMAIN x.regs |-> x.regs[k].in])
           /\ \A k \in DOMAIN x.regs :
                FirstBit(x, k) = Len(Concat([j \in 1 .. k - 1 |-> x.regs[j].in]))
<1> DEFINE n == Len(x.regs)
<1>1. DOMAIN x.regs = 1 .. n /\ n \in Nat
  BY RegistersOfShift
<1>2. [j \in 1 .. n |-> Ins(x)[j]] = [k \in DOMAIN x.regs |-> x.regs[k].in]
  BY <1>1 DEF Ins
<1>3. ASSUME NEW k \in DOMAIN x.regs
      PROVE  [j \in 1 .. k - 1 |-> Ins(x)[j]] = [j \in 1 .. k - 1 |-> x.regs[j].in]
  <2>1. \A j \in 1 .. k - 1 : j \in 1 .. n
    BY <1>1
  <2> QED
    BY <2>1 DEF Ins
<1> QED
  BY <1>2, <1>3 DEF Stream, FirstBit, StartOf, First

(* The invariants together hold in every state. *)
LEMMA ExchangesUnderWay ==
    ASSUME ShiftsOnlyWhileShifting
    PROVE  Spec => [](ChainInv /\ Balanced /\ ExchangeInv)
<1>1. Init => ChainInv /\ Balanced /\ ExchangeInv
  <2> SUFFICES ASSUME Init PROVE ChainInv /\ Balanced /\ ExchangeInv
    OBVIOUS
  <2>1. prog = <<>> /\ results = <<>> /\ outs = <<>> /\ last.op = "none"
    BY DEF Init
  <2>2. <<>> \in Seq(Ops) /\ <<>> \in Seq({}) /\ Len(<<>>) <= 0 /\ Fits(0, <<>>, 0)
        /\ <<>> \in Seq(Results)
    BY FitsEmpty
  <2>3. Balanced /\ ExchangeInv
    BY <2>1, <2>2 DEF Balanced, ExchangeInv, Exchanging
  <2> QED
    BY <2>3, InvInit
<1>2. ChainInv /\ Balanced /\ ExchangeInv /\ [Next]_vars
        => (ChainInv /\ Balanced /\ ExchangeInv)'
  <2> SUFFICES ASSUME ChainInv, Balanced, ExchangeInv, [Next]_vars
               PROVE  ChainInv' /\ Balanced' /\ ExchangeInv'
    OBVIOUS
  <2>1. CASE Call
    BY <2>1, InvCall, BalancedBegin, ExchangeInvCall
  <2>2. CASE Step
    BY <2>2, InvStep, BalancedStep, ExchangeInvStep
  <2>3. CASE UNCHANGED vars
    <3>1. UNCHANGED <<line, results, state, prog, outs, last, lost>>
      BY <2>3 DEF vars, chainVars
    <3>2. Balanced'
      BY <3>1 DEF Balanced
    <3>3. Exchanging'
      <4> SUFFICES ASSUME last'.op = "exchange", ~lost' PROVE Exchanging'
        BY DEF Exchanging
      <4>1. PICK a \in Seq(Ops), b \in 0 .. Len(AllGets(last.x)), c \in Places :
                UnderWay(a, b, c)
        BY <3>1 DEF ExchangeInv, Exchanging
      <4>2. last' = last /\ AllGets(last'.x) = AllGets(last.x) /\ Bits' = Bits
        BY <3>1 DEF Bits
      <4>3. UnderWay(a, b, c)'
        BY <3>1, <4>1, <4>2 DEF UnderWay
      <4>4. Outputs'
        BY <3>1 DEF ExchangeInv, Exchanging, Outputs
      <4> QED
        BY <4>2, <4>3, <4>4 DEF Exchanging
    <3>4. ExchangeInv'
      BY <3>1, <3>3 DEF ExchangeInv
    <3> QED
      BY <2>3, <3>2, <3>4, InvStutter
  <2> QED
    BY <2>1, <2>2, <2>3 DEF Next
<1> QED
  BY <1>1, <1>2, PTL DEF Spec

(* Whatever is exchanged and lost, the variables keep their types, and the *)
(* output registers their lengths while nothing is.                        *)
THEOREM ChainTyped ==
    ASSUME ShiftsOnlyWhileShifting
    PROVE  Spec => []TypeOK
<1>1. ChainInv /\ Balanced /\ ExchangeInv => TypeOK
  <2> SUFFICES ASSUME ChainInv, ExchangeInv PROVE TypeOK
    OBVIOUS
  <2>1. line \in Lines /\ state \in TapStates \cup {Unknown}
    BY DEF ChainInv, Types, States
  <2>2. \A i \in DOMAIN results : results[i].kind \in {"TRANSFER", "GET_TDO"}
    <3> TAKE i \in DOMAIN results
    <3>1. results \in Seq(Results)
      BY DEF ExchangeInv
    <3>2. results[i] \in Results
      BY <3>1, LenProperties, ElementOfSeq
    <3> QED
      BY <3>2 DEF Results
  <2>3. ASSUME ~lost
        PROVE  \A k \in DOMAIN outs : outs[k] \in [1 .. last.x.regs[k].outlen -> Bit]
    <3>1. CASE last.op = "exchange"
      BY <2>3, <3>1 DEF ExchangeInv, Exchanging, Outputs
    <3>2. CASE last.op # "exchange"
      <4>1. outs = <<>>
        BY <3>2 DEF ExchangeInv
      <4>2. DOMAIN <<>> = {}
        OBVIOUS
      <4> QED
        BY <4>1, <4>2
    <3> QED
      BY <3>1, <3>2
  <2> QED
    BY <2>1, <2>2, <2>3 DEF TypeOK
<1> QED
  BY <1>1, ExchangesUnderWay, PTL

(* An exchange of any registers puts into the chain what was to be shifted *)
(* in, and into the output registers what the chain held, bit by bit.      *)
THEOREM Exchanged ==
    ASSUME ShiftsOnlyWhileShifting
    PROVE  Spec => []RegistersExchanged
<1>1. ChainInv /\ Balanced /\ ExchangeInv => RegistersExchanged
  <2> SUFFICES ASSUME ChainInv, ExchangeInv,
                      prog = <<>>, last.op = "exchange", last.tracked, ~lost
               PROVE  LET regs == last.x.regs
                          in(k) == regs[k].in
                          before(k) == Len(Concat([j \in 1 .. k - 1 |-> in(j)]))
                          stream == last.cells \o Concat([k \in DOMAIN regs |-> in(k)])
                          total == Len(stream) - Cells
                      IN  /\ line.cells = SubSeq(stream, total + 1, total + Cells)
                          /\ \A k \in DOMAIN regs :
                              \A i \in 1 .. regs[k].outlen :
                                  i <= Len(in(k)) => outs[k][i] = stream[before(k) + i]
    BY DEF RegistersExchanged
  <2> DEFINE x == last.x
             cells == last.cells
             S == Bits
  <2>1. /\ x \in Shifts /\ cells \in [1 .. Cells -> Bit]
        /\ line.cells = SubSeq(S, Len(S) - Cells + 1, Len(S))
        /\ \A k \in 1 .. Len(x.regs) : \A i \in 1 .. x.regs[k].outlen :
                i <= Len(x.regs[k].in) => outs[k][i] = S[FirstBit(x, k) + i]
    BY ExchangeOver DEF ChainInv, Types
  <2>2. S = Stream(x, cells)
    BY DEF Bits
  <2>3. DOMAIN x.regs = 1 .. Len(x.regs)
    BY <2>1, RegistersOfShift
  <2> HIDE DEF x, cells, S
  <2>4. /\ S = cells \o Concat([k \in DOMAIN x.regs |-> x.regs[k].in])
        /\ \A k \in DOMAIN x.regs :
                FirstBit(x, k) = Len(Concat([j \in 1 .. k - 1 |-> x.regs[j].in]))
    BY <2>1, <2>2, BitsAre
  <2>5. (Len(S) - Cells) + Cells = Len(S)
    <3>1. S \in Seq(Bit)
      BY <2>1, <2>2, StreamIs
    <3> QED
      BY <3>1, LenProperties, CellsAssumption
  <2>6. line.cells = SubSeq(S, (Len(S) - Cells) + 1, (Len(S) - Cells) + Cells)
    BY <2>1, <2>5
  <2>7. \A k \in DOMAIN x.regs : \A i \in 1 .. x.regs[k].outlen :
            i <= Len(x.regs[k].in) =>
                outs[k][i] = S[Len(Concat([j \in 1 .. k - 1 |-> x.regs[j].in])) + i]
    BY <2>1, <2>3, <2>4
  <2> QED
    BY <2>4, <2>6, <2>7 DEF x, cells
<1> QED
  BY <1>1, ExchangesUnderWay, PTL
=============================================================================
