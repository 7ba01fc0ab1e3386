----------------------------- MODULE SvfProofs -----------------------------
(***************************************************************************)
(* The SVF player, proved for files of any statements, on a chain of any   *)
(* length: what it says at the end of a file is true, and it walks where   *)
(* the statements say as long as TRST does not go low behind its back.     *)
(***************************************************************************)
EXTENDS Svf, SequenceTheorems, TLAPS

Exchanges ==
    [path : {"DR", "IR"}, regs : Seq([in : Seq(Bit) \ {<<>>}, outlen : Nat]) \ {<<>>},
     capture : BOOLEAN, exit : {"SHIFT", "IDLE", "EXIT1", "UPDATE"}]

(* What is proved of the operations of chains, for those the player asks   *)
(* for.                                                                    *)
CP == INSTANCE ChainProofs WITH
    Clocks <- {}, PodSettings <- {}, Shifts <- Exchanges, ShiftFrom <- ShiftStates,
    MemoryFails <- FALSE

(* The assumptions of those proofs. *)
LEMMA ChainAssumed == CP!ChainAssumption /\ CP!CellsAssumption
<1>1. ShiftStates \subseteq CP!TapStates /\ StartTaps \subseteq CP!TapStates
  BY SvfAssumption DEF CP!TapStates, TapStates, ShiftStates
<1>2. ASSUME NEW x \in Exchanges
      PROVE  /\ x.path \in {"DR", "IR"}
             /\ x.capture \in BOOLEAN
             /\ x.exit \in CP!ExitModes
             /\ x.regs \in Seq([in : Seq(CP!Bit), outlen : Nat]) \ {<<>>}
             /\ \A i \in DOMAIN x.regs : x.regs[i].in # <<>>
  <2>1. [in : Seq(Bit) \ {<<>>}, outlen : Nat] \subseteq [in : Seq(CP!Bit), outlen : Nat]
    BY DEF Bit, CP!Bit
  <2>2. /\ x.regs \in Seq([in : Seq(Bit) \ {<<>>}, outlen : Nat])
        /\ x.regs # <<>>
        /\ x.path \in {"DR", "IR"} /\ x.capture \in BOOLEAN
        /\ x.exit \in {"SHIFT", "IDLE", "EXIT1", "UPDATE"}
    BY DEF Exchanges
  <2>3. /\ x.regs \in Seq([in : Seq(CP!Bit), outlen : Nat])
        /\ \A i \in 1 .. Len(x.regs) : x.regs[i].in # <<>>
    <3> DEFINE S == [in : Seq(Bit) \ {<<>>}, outlen : Nat]
               T == [in : Seq(CP!Bit), outlen : Nat]
               r == x.regs
    <3>1. S \subseteq T /\ r \in Seq(S) /\ \A e \in S : e.in # <<>>
      BY <2>1, <2>2
    <3> HIDE DEF S, T, r
    <3>2. r \in Seq(T) /\ \A i \in 1 .. Len(r) : r[i] \in S
      BY <3>1, SeqMonotonic, ElementOfSeq
    <3> QED
      BY <3>1, <3>2 DEF T, r
  <2>5. DOMAIN x.regs = 1 .. Len(x.regs)
    BY <2>2, LenProperties
  <2> QED
    BY <2>2, <2>3, <2>5 DEF CP!ExitModes
<1>3. {} \subseteq [tms : CP!Bit, tdi : CP!Bit, n : Nat]
      /\ {} \subseteq [mask : SUBSET CP!Signals, val : SUBSET CP!Signals]
      /\ FALSE \in BOOLEAN
  OBVIOUS
<1>4. CP!ChainAssumption
  BY <1>1, <1>2, <1>3 DEF CP!ChainAssumption
<1>5. CP!CellsAssumption
  BY CellsAssumption DEF CP!CellsAssumption
<1> QED
  BY <1>4, <1>5

-----------------------------------------------------------------------------
(* The steps of the chain, in the words of its proofs. *)

(* A clock, deferred or not. *)
LEMMA ClockStep ==
    ASSUME Chain!CableClock \/ Chain!CableDeferClock
    PROVE  /\ prog # <<>> /\ Head(prog).op \in {"clock", "defer_clock"}
           /\ prog' = Tail(prog) /\ lost' = lost
           /\ line' = CP!DriverClock(line, Head(prog).tms, Head(prog).tdi, Head(prog).n)
           /\ state' = CP!StateClocks(state, Head(prog).tms, Head(prog).n)
<1> DEFINE op == Head(prog)
           act == [action |-> "CLOCK", tms |-> op.tms, tdi |-> op.tdi, n |-> op.n]
<1>1. /\ prog # <<>> /\ op.op \in {"clock", "defer_clock"}
      /\ prog' = Tail(prog) /\ lost' = lost
      /\ line' = Chain!C!Effect(act, line)
      /\ state' = Chain!StateClocks(state, op.tms, op.n)
  BY DEF Chain!CableClock, Chain!CableDeferClock, Chain!At, Chain!Done, Chain!C!Do,
         Chain!C!Defer
<1>2. Chain!C!Effect(act, line) = CP!DriverClock(line, op.tms, op.tdi, op.n)
  <2>1. Chain!C!Effect(act, line) = Chain!C!DriverClock(line, op.tms, op.tdi, op.n)
    BY DEF Chain!C!Effect
  <2>2. ASSUME NEW l, NEW tms, NEW tdi, NEW n
        PROVE  Chain!C!DriverClock(l, tms, tdi, n) = CP!DriverClock(l, tms, tdi, n)
    BY DEF Chain!C!DriverClock, CP!DriverClock, Chain!C!Pulse, CP!Pulse,
           Chain!C!HeldInReset, CP!HeldInReset, Chain!C!IeeeNext, CP!IeeeNext,
           Chain!C!Ieee, CP!Ieee, Chain!C!ShiftStates, CP!ShiftStates
  <2> QED
    BY <2>1, <2>2
<1>3. ASSUME NEW st, NEW tms, NEW n
      PROVE  Chain!StateClocks(st, tms, n) = CP!StateClocks(st, tms, n)
  BY DEF CP!StateClocks, Chain!StateClocks, CP!StateClock, Chain!StateClock,
         CP!StateTms1, CP!StateTms0, Chain!StateTms1, Chain!StateTms0, CP!Unknown,
         Chain!Unknown
<1> QED
  BY <1>1, <1>2, <1>3

(* A deferred transfer or sample. *)
LEMMA DeferStep ==
    ASSUME Chain!CableDefer
    PROVE  /\ prog # <<>> /\ Head(prog).op = "defer"
           /\ prog' = Tail(prog) /\ lost' = lost /\ state' = state
           /\ line' = CP!Effect(Head(prog).act, line)
<1>1. /\ prog # <<>> /\ Head(prog).op = "defer"
      /\ prog' = Tail(prog) /\ lost' = lost /\ state' = state
      /\ line' = Chain!C!Effect(Head(prog).act, line)
  BY DEF Chain!CableDefer, Chain!At, Chain!Done, Chain!C!Defer
<1>2. ASSUME NEW act, NEW l
      PROVE  Chain!C!Effect(act, l) = CP!Effect(act, l)
  BY DEF Chain!C!Effect, CP!Effect, Chain!C!DriverClock, CP!DriverClock,
         Chain!C!DriverTransfer, CP!DriverTransfer, Chain!C!DriverSetSignal,
         CP!DriverSetSignal, Chain!C!Pulse, CP!Pulse, Chain!C!Tdo, CP!Tdo,
         Chain!C!HeldInReset, CP!HeldInReset, Chain!C!IeeeNext, CP!IeeeNext,
         Chain!C!Ieee, CP!Ieee, Chain!C!ShiftStates, CP!ShiftStates
<1> QED
  BY <1>1, <1>2

(* A shift. *)
LEMMA DeferShiftStep ==
    ASSUME Chain!DeferShift
    PROVE  /\ prog # <<>> /\ Head(prog).op = "defer_shift"
           /\ prog' = CP!FullShift(state, Head(prog).reg, Head(prog).exit) \o Tail(prog)
           /\ lost' = lost /\ state' = state /\ line' = line
<1>1. ASSUME NEW reg, NEW exit
      PROVE  Chain!ShiftCalls(reg, exit) = CP!ShiftCalls(reg, exit)
  BY DEF Chain!ShiftCalls, CP!ShiftCalls, Chain!Transferred, CP!Transferred,
         Chain!DeferOp, CP!DeferOp, Chain!DeferClockOp, CP!DeferClockOp, Chain!NoOut,
         CP!NoOut
<1>2. ASSUME NEW st PROVE Chain!Flags(st) = CP!Flags(st)
  BY DEF Chain!Flags, CP!Flags, Chain!Unknown, CP!Unknown, Chain!ShiftStates,
         CP!ShiftStates
<1>3. Chain!DeferClockOp(0, 0, 1) = CP!DeferClockOp(0, 0, 1)
  BY DEF Chain!DeferClockOp, CP!DeferClockOp
<1> QED
  BY <1>1, <1>2, <1>3 DEF Chain!DeferShift, Chain!At, CP!FullShift

(* The calls of an exchange. *)
LEMMA SameExchange ==
    ASSUME NEW x
    PROVE  Chain!ExchangeCalls(x) = CP!ExchangeCalls(x)
  BY DEF Chain!ExchangeCalls, CP!ExchangeCalls, Chain!CaptureCalls, CP!CaptureCalls,
         Chain!OutputCalls, CP!OutputCalls, Chain!Transferred, CP!Transferred,
         Chain!ExitOf, CP!ExitOf, Chain!DeferClockOp, CP!DeferClockOp, Chain!NoOut,
         CP!NoOut

(* Any step is one of these. *)
LEMMA StepIs ==
    ASSUME Chain!Step
    PROVE  \/ Chain!CableClock \/ Chain!CableDeferClock
           \/ Chain!CableDefer
           \/ Chain!DeferShift
           \/ /\ prog # <<>> /\ Head(prog).op \in {"transfer_late", "get_tdo_late"}
              /\ prog' = Tail(prog) /\ lost' = lost /\ state' = state /\ line' = line
           \/ /\ prog # <<>> /\ Head(prog).op = "state_reset"
              /\ prog' = Tail(prog) /\ state' = "TEST_LOGIC_RESET" /\ line' = line
           \/ prog # <<>> /\ Head(prog).op = "set_signal"
<1>1. CASE Chain!CableDeferClockFails \/ Chain!CableDeferFails
  BY <1>1 DEF Chain!CableDeferClockFails, Chain!CableDeferFails
<1>2. CASE Chain!TransferLate \/ Chain!GetTdoLate
  BY <1>2 DEF Chain!TransferLate, Chain!GetTdoLate, Chain!At, Chain!Done, Chain!C!Fetch,
              Chain!C!FetchNone
<1>3. CASE Chain!StateReset
  BY <1>3 DEF Chain!StateReset, Chain!At
<1>4. CASE Chain!SetSignal
  BY <1>4 DEF Chain!SetSignal, Chain!At
<1> QED
  BY <1>1, <1>2, <1>3, <1>4 DEF Chain!Step
-----------------------------------------------------------------------------
(* The inductive invariant. *)

Numbers == [number : Nat, tdi : Seq(Bit), mask : Seq(Bit)]

Privs ==
    [sxr : [Paths -> Numbers], endxr : [Paths -> StableStates], run : StableStates,
     end : StableStates, absent : BOOLEAN, executed : BOOLEAN, mismatch : BOOLEAN,
     reading : BOOLEAN, verdict : {"none", "matched", "mismatches"}]

Sights ==
    [at : StableStates \cup {NoState}, endxr : [Paths -> StableStates],
     pulsing : BOOLEAN, alarmed : BOOLEAN, differed : BOOLEAN]

GotoOps == [op : {"goto"}, to : TapStates]
ClockingOps == [op : {"clocks", "timed_clocks"}, n : Nat]
TimerOps == [op : {"set_timer", "stop_timer"}]
ShiftOps == [op : {"shift"}, path : Paths, in : Seq(Bit) \ {<<>>}, outlen : Nat]
CompareOps == [op : {"compare"}, tdo : Seq(Bit), mask : Seq(Bit)]
TodoOps == GotoOps \cup ClockingOps \cup TimerOps \cup ShiftOps \cup CompareOps

(* What has to be done in the run state, and what does not move.           *)
Clocking == {"clocks", "timed_clocks", "set_timer"}
Trailing == {"compare", "stop_timer"}

GotoReset == <<Chain!ClockOp(1, 0, 5), [op |-> "state_reset"]>>
AfterFiveClocks == <<[op |-> "state_reset"]>>

Typed ==
    /\ line \in CP!Lines
    /\ state \in CP!States
    /\ todo \in Seq(TodoOps)
    /\ priv \in Privs
    /\ seen \in Sights
    /\ timer \in {"on", "off"}

(* The cable calls left are those of one clocking, of the reset of an      *)
(* unknown state or of an exchange, which transfers only while it shifts.  *)
CallsKnown ==
    \/ prog \in Seq(CP!ExchangeOps) /\ CP!Path({state}, prog, CP!States)
    \/ \E op \in CP!ClockOps : prog = <<op>>
    \/ prog = GotoReset /\ state = Unknown
    \/ prog = AfterFiveClocks

(* What is remembered over statements. *)
Remembered ==
    /\ priv.endxr = seen.endxr
    /\ \A p \in Paths :
        /\ Len(priv.sxr[p].mask) = priv.sxr[p].number
        /\ priv.reading => Len(priv.sxr[p].tdi) = priv.sxr[p].number

(* The clocks of RUNTEST come after the walk to its run state and before   *)
(* another one.                                                            *)
Ordered(t, run) ==
    \A i \in 1 .. Len(t) :
        /\ t[i].op \in Clocking =>
            i < Len(t) /\ t[i + 1].op \in {"timed_clocks", "goto"}
        /\ i > 1 /\ t[i].op \in Clocking =>
            t[i - 1] = GotoOp(run) \/ t[i - 1].op = "set_timer"

(* The last walk is to s. *)
EndsAt(t, s) ==
    \E i \in 1 .. Len(t) :
        t[i] = GotoOp(s) /\ \A j \in i + 1 .. Len(t) : t[j].op \in Trailing

PlanEnds ==
    seen.at # NoState =>
        \/ EndsAt(todo, seen.at)
        \/ /\ prog = <<>> /\ state = seen.at
           /\ \A j \in 1 .. Len(todo) : todo[j].op \in Trailing

(* The tracked state is the run state, and clocks keep it so. *)
InRun ==
    /\ state = priv.run
    /\ \/ prog = <<>>
       \/ \E op \in CP!ClockOps \cup CP!DeferClockOps : op.tms = 0 /\ prog = <<op>>

Running ==
    /\ priv.run # "TEST_LOGIC_RESET"
    /\ todo # <<>> /\ Head(todo).op \in Clocking => InRun
    /\ seen.pulsing =>
        InRun /\ todo # <<>> /\ Head(todo).op \in {"timed_clocks", "goto"}

(* A file that is over, and what it found. *)
Finished ==
    /\ Stop /\ seen.differed => priv.mismatch
    /\ priv.verdict # "none" => prog = <<>> /\ todo = <<>> /\ ~priv.reading
    /\ priv.verdict = "matched" => ~priv.mismatch

(* No statement has its clocks given in Test-Logic-Reset, which the first  *)
(* clock with TMS low leaves.                                              *)
RunStatesStay ==
    \A st \in Statements : st.op = "runtest" => st.run # "TEST_LOGIC_RESET"

SvfInv ==
    /\ Typed
    /\ CallsKnown
    /\ Remembered
    /\ Ordered(todo, priv.run)
    /\ PlanEnds
    /\ Finished
    /\ RunStatesStay => Running

(* The tracked state is the state of the controllers, or unknown, as long  *)
(* as TRST does not go low.                                                *)
StateKnown ==
    /\ state \in {Unknown, line.tap}
    /\ prog = AfterFiveClocks => line.tap = "TEST_LOGIC_RESET"

-----------------------------------------------------------------------------
(* Sequences. *)

LEMMA TailIs ==
    ASSUME NEW S, NEW s \in Seq(S), s # <<>>
    PROVE  /\ Len(s) \in Nat /\ Len(s) > 0
           /\ Head(s) = s[1] /\ s[1] \in S
           /\ Tail(s) \in Seq(S) /\ Len(Tail(s)) = Len(s) - 1
           /\ \A i \in 1 .. Len(s) - 1 : Tail(s)[i] = s[i + 1] /\ s[i + 1] \in S
           /\ Tail(s) = <<>> <=> Len(s) = 1
<1>1. /\ Len(s) \in Nat /\ Len(s) # 0
      /\ Head(s) = s[1]
      /\ Tail(s) \in Seq(S) /\ Len(Tail(s)) = Len(s) - 1
      /\ \A i \in 1 .. Len(Tail(s)) : Tail(s)[i] = s[i + 1]
  BY EmptySeq, HeadTailProperties
<1>2. \A i \in 1 .. Len(s) : s[i] \in S
  BY ElementOfSeq
<1>3. Tail(s) = <<>> <=> Len(Tail(s)) = 0
  BY <1>1, EmptySeq
<1> QED
  BY <1>1, <1>2, <1>3

(* The order is kept when the first thing is done ... *)
LEMMA OrderedTail ==
    ASSUME NEW t \in Seq(TodoOps), t # <<>>, NEW run, Ordered(t, run)
    PROVE  Ordered(Tail(t), run)
<1> DEFINE u == Tail(t)
<1>1. /\ Len(t) \in Nat /\ Len(u) = Len(t) - 1
      /\ \A i \in 1 .. Len(t) - 1 : u[i] = t[i + 1]
  BY TailIs
<1> HIDE DEF u
<1>2. ASSUME NEW i \in 1 .. Len(u)
      PROVE  /\ u[i].op \in Clocking =>
                i < Len(u) /\ u[i + 1].op \in {"timed_clocks", "goto"}
             /\ i > 1 /\ u[i].op \in Clocking =>
                u[i - 1] = GotoOp(run) \/ u[i - 1].op = "set_timer"
  <2>1. i \in Int /\ 1 <= i /\ i <= Len(t) - 1 /\ i + 1 \in 1 .. Len(t)
        /\ u[i] = t[i + 1]
    BY <1>1
  <2>2. u[i].op \in Clocking => i < Len(u) /\ u[i + 1].op \in {"timed_clocks", "goto"}
    <3> SUFFICES ASSUME u[i].op \in Clocking
                 PROVE  i < Len(u) /\ u[i + 1].op \in {"timed_clocks", "goto"}
      OBVIOUS
    <3>1. i + 1 < Len(t) /\ t[i + 1 + 1].op \in {"timed_clocks", "goto"}
      BY <2>1 DEF Ordered
    <3>2. u[i + 1] = t[i + 1 + 1]
      BY <1>1, <2>1, <3>1
    <3> QED
      BY <1>1, <2>1, <3>1, <3>2
  <2>3. i > 1 /\ u[i].op \in Clocking =>
            u[i - 1] = GotoOp(run) \/ u[i - 1].op = "set_timer"
    <3> SUFFICES ASSUME i > 1, u[i].op \in Clocking
                 PROVE  u[i - 1] = GotoOp(run) \/ u[i - 1].op = "set_timer"
      OBVIOUS
    <3>1. t[i + 1 - 1] = GotoOp(run) \/ t[i + 1 - 1].op = "set_timer"
      BY <2>1 DEF Ordered
    <3>2. u[i - 1] = t[i - 1 + 1] /\ i - 1 + 1 = i + 1 - 1
      BY <1>1, <2>1
    <3> QED
      BY <3>1, <3>2
  <2> QED
    BY <2>2, <2>3
<1> QED
  BY <1>2 DEF Ordered, u

(* ... and so is the last walk, unless it was the first thing.             *)
LEMMA EndsAtTail ==
    ASSUME NEW t \in Seq(TodoOps), t # <<>>, NEW s, EndsAt(t, s)
    PROVE  \/ EndsAt(Tail(t), s)
           \/ /\ Head(t) = GotoOp(s)
              /\ \A j \in 1 .. Len(Tail(t)) : Tail(t)[j].op \in Trailing
<1> DEFINE u == Tail(t)
<1>1. /\ Len(t) \in Nat /\ Len(u) = Len(t) - 1 /\ Head(t) = t[1]
      /\ \A i \in 1 .. Len(t) - 1 : u[i] = t[i + 1]
  BY TailIs
<1> HIDE DEF u
<1>2. PICK i \in 1 .. Len(t) :
        t[i] = GotoOp(s) /\ \A j \in i + 1 .. Len(t) : t[j].op \in Trailing
  BY DEF EndsAt
<1>3. CASE i = 1
  <2>1. ASSUME NEW j \in 1 .. Len(u) PROVE u[j].op \in Trailing
    <3>1. j + 1 \in i + 1 .. Len(t) /\ u[j] = t[j + 1]
      BY <1>1, <1>3
    <3> QED
      BY <1>2, <3>1
  <2> QED
    BY <1>1, <1>2, <1>3, <2>1 DEF u
<1>4. CASE i # 1
  <2>1. i - 1 \in 1 .. Len(u) /\ u[i - 1] = GotoOp(s)
    <3>1. i - 1 \in 1 .. Len(t) - 1 /\ (i - 1) + 1 = i
      BY <1>1, <1>4
    <3>2. u[i - 1] = t[(i - 1) + 1]
      BY <1>1, <3>1
    <3> QED
      BY <1>1, <1>2, <3>1, <3>2
  <2>2. ASSUME NEW j \in (i - 1) + 1 .. Len(u) PROVE u[j].op \in Trailing
    <3>1. j \in 1 .. Len(t) - 1 /\ j + 1 \in i + 1 .. Len(t)
      BY <1>1, <2>1
    <3>2. u[j] = t[j + 1]
      BY <1>1, <3>1
    <3> QED
      BY <1>2, <3>1, <3>2
  <2>3. EndsAt(u, s)
    BY <2>1, <2>2 DEF EndsAt
  <2> QED
    BY <2>3 DEF u
<1> QED
  BY <1>3, <1>4

(* After the last walk nothing moves: the rest of what trails trails.      *)
LEMMA TrailsTail ==
    ASSUME NEW t \in Seq(TodoOps), t # <<>>,
           \A j \in 1 .. Len(t) : t[j].op \in Trailing
    PROVE  \A j \in 1 .. Len(Tail(t)) : Tail(t)[j].op \in Trailing
<1>1. /\ Len(t) \in Nat /\ Len(Tail(t)) = Len(t) - 1
      /\ \A i \in 1 .. Len(t) - 1 : Tail(t)[i] = t[i + 1]
  BY TailIs
<1> QED
  BY <1>1

(* What follows a thing that is done in the run state, or the walk there.  *)
LEMMA OrderedHead ==
    ASSUME NEW t \in Seq(TodoOps), t # <<>>, NEW run, Ordered(t, run)
    PROVE  /\ Head(t).op \in Clocking =>
                Tail(t) # <<>> /\ Head(Tail(t)).op \in {"timed_clocks", "goto"}
           /\ Tail(t) # <<>> /\ Head(Tail(t)).op \in Clocking =>
                Head(t) = GotoOp(run) \/ Head(t).op = "set_timer"
<1>1. /\ Len(t) \in Nat /\ Len(t) > 0 /\ Head(t) = t[1]
      /\ Tail(t) \in Seq(TodoOps) /\ Len(Tail(t)) = Len(t) - 1
      /\ \A i \in 1 .. Len(t) - 1 : Tail(t)[i] = t[i + 1]
      /\ Tail(t) = <<>> <=> Len(t) = 1
  BY TailIs
<1>2. Tail(t) # <<>> => Head(Tail(t)) = t[1 + 1] /\ 1 + 1 \in 1 .. Len(t)
  <2> SUFFICES ASSUME Tail(t) # <<>>
               PROVE  Head(Tail(t)) = t[1 + 1] /\ 1 + 1 \in 1 .. Len(t)
    OBVIOUS
  <2>1. Head(Tail(t)) = Tail(t)[1]
    BY <1>1, TailIs
  <2>2. Tail(t)[1] = t[1 + 1]
    BY <1>1
  <2> QED
    BY <1>1, <2>1, <2>2
<1>3. Head(t).op \in Clocking =>
        1 < Len(t) /\ t[1 + 1].op \in {"timed_clocks", "goto"}
  BY <1>1 DEF Ordered
<1>4. Tail(t) # <<>> /\ t[1 + 1].op \in Clocking =>
        t[1 + 1 - 1] = GotoOp(run) \/ t[1 + 1 - 1].op = "set_timer"
  BY <1>2 DEF Ordered
<1> QED
  BY <1>1, <1>2, <1>3, <1>4
-----------------------------------------------------------------------------
(* Cable calls. *)

(* Calls are told by their names.                                          *)
LEMMA OpNames ==
    /\ \A op \in CP!ClockOps : op.op = "clock"
    /\ \A op \in CP!DeferClockOps : op.op = "defer_clock"
    /\ \A op \in CP!ExchangeOps :
        /\ op.op \in {"defer_clock", "defer", "defer_shift", "transfer_late", "get_tdo_late"}
        /\ op.op = "defer_clock" => op \in CP!DeferClockOps
        /\ op.op = "defer" => op \in CP!DeferOps
        /\ op.op = "defer_shift" => op \in CP!DeferShiftOps
    /\ \A op \in CP!ClockOps \cup CP!DeferClockOps :
        op.tms \in CP!Bit /\ op.tdi \in CP!Bit /\ op.n \in Nat
  BY DEF CP!ClockOps, CP!DeferClockOps, CP!ExchangeOps, CP!ShiftOps, CP!DeferOps,
         CP!DeferShiftOps, CP!LateOps

(* The calls of an exchange. *)
LEMMA ExchangeSeq ==
    ASSUME NEW s \in Seq(CP!ExchangeOps)
    PROVE  /\ s \in Seq(CP!Ops)
           /\ s # <<>> => Head(s) \in CP!ExchangeOps /\ Tail(s) \in Seq(CP!ExchangeOps)
           /\ s # AfterFiveClocks
<1> DEFINE S == CP!ExchangeOps
           T == CP!Ops
<1>1. S \subseteq T /\ s \in Seq(S) /\ \A e \in S : e.op # "state_reset"
  BY OpNames DEF CP!Ops
<1>2. AfterFiveClocks # <<>> /\ Head(AfterFiveClocks).op = "state_reset"
  BY DEF AfterFiveClocks
<1> HIDE DEF S, T
<1>3. s \in Seq(T) /\ (s # <<>> => Head(s) \in S /\ Tail(s) \in Seq(S))
  BY <1>1, SeqMonotonic, TailIs
<1>4. s # AfterFiveClocks
  BY <1>1, <1>2, <1>3
<1> QED
  BY <1>3, <1>4 DEF S, T

(* No calls are a path. *)
LEMMA EmptyPath ==
    ASSUME NEW st \in CP!States
    PROVE  <<>> \in Seq(CP!ExchangeOps) /\ CP!Path({st}, <<>>, CP!States)
<1>1. {st} \in SUBSET CP!States
  OBVIOUS
<1>2. CP!Path({st}, <<>>, CP!States)
  BY <1>1, ChainAssumed, CP!PathEmpty
<1> QED
  BY <1>2

-----------------------------------------------------------------------------
(* The invariant holds at the start ... *)

LEMMA InvInit == Init => SvfInv /\ StateKnown
<1> SUFFICES ASSUME Init PROVE SvfInv /\ StateKnown
  OBVIOUS
<1>1. /\ line \in Chain!Lines /\ state = Chain!Unknown /\ prog = <<>>
      /\ priv = NewFile /\ todo = <<>> /\ timer = "off" /\ seen = NothingSeen
  BY DEF Init, Chain!Init
<1>2. line \in CP!Lines /\ state = Unknown /\ state \in CP!States
  BY <1>1 DEF Chain!Lines, CP!Lines, Chain!TapStates, CP!TapStates, Chain!Bit, CP!Bit,
              Chain!Signals, CP!Signals, Chain!Unknown, CP!Unknown, Unknown, CP!States
<1>3. priv \in Privs
  <2>1. NoParams \in Numbers
    BY DEF NoParams, Numbers
  <2>2. NewFile.sxr \in [Paths -> Numbers] /\ NewFile.endxr \in [Paths -> StableStates]
    BY <2>1 DEF NewFile, StableStates
  <2> QED
    BY <1>1, <2>2 DEF NewFile, Privs, StableStates
<1>4. seen \in Sights
  BY <1>1 DEF NothingSeen, Sights, StableStates
<1>5. Typed
  BY <1>1, <1>2, <1>3, <1>4 DEF Typed
<1>6. CallsKnown
  BY <1>1, <1>2, EmptyPath DEF CallsKnown
<1>7. Remembered
  BY <1>1 DEF Remembered, NewFile, NothingSeen, NoParams
<1>8. Ordered(todo, priv.run) /\ PlanEnds
  BY <1>1 DEF Ordered, PlanEnds, NothingSeen
<1>9. Finished /\ Running
  BY <1>1 DEF Finished, Running, NewFile, NothingSeen
<1>10. StateKnown
  BY <1>1, <1>2 DEF StateKnown, AfterFiveClocks
<1> QED
  BY <1>5, <1>6, <1>7, <1>8, <1>9, <1>10 DEF SvfInv

-----------------------------------------------------------------------------
(* ... and the chain keeps it. *)

(* The head and the rest of the calls there are.                           *)
LEMMA CallsHead ==
    ASSUME CallsKnown, prog # <<>>
    PROVE  \/ /\ prog \in Seq(CP!ExchangeOps) /\ CP!Path({state}, prog, CP!States)
              /\ Head(prog) \in CP!ExchangeOps /\ Tail(prog) \in Seq(CP!ExchangeOps)
           \/ Head(prog) \in CP!ClockOps /\ Tail(prog) = <<>>
           \/ /\ prog = GotoReset /\ state = Unknown
              /\ Head(prog) = Chain!ClockOp(1, 0, 5) /\ Tail(prog) = AfterFiveClocks
           \/ /\ prog = AfterFiveClocks
              /\ Head(prog).op = "state_reset" /\ Tail(prog) = <<>>
<1>1. CASE prog \in Seq(CP!ExchangeOps) /\ CP!Path({state}, prog, CP!States)
  BY <1>1, ExchangeSeq
<1>2. ASSUME NEW op \in CP!ClockOps, prog = <<op>>
      PROVE  Head(prog) \in CP!ClockOps /\ Tail(prog) = <<>>
  <2>1. Head(<<op>>) = op /\ Tail(<<op>>) = <<>>
    OBVIOUS
  <2> QED
    BY <1>2, <2>1
<1>3. CASE prog = GotoReset /\ state = Unknown
  <2> DEFINE a == Chain!ClockOp(1, 0, 5)
             b == [op |-> "state_reset"]
  <2>1. prog = <<a, b>>
    BY <1>3 DEF GotoReset
  <2> HIDE DEF a, b
  <2>2. Head(prog) = a /\ Tail(prog) = <<b>>
    BY <2>1
  <2> QED
    BY <1>3, <2>2 DEF a, b, AfterFiveClocks
<1>4. CASE prog = AfterFiveClocks
  BY <1>4 DEF AfterFiveClocks
<1> QED
  BY <1>1, <1>2, <1>3, <1>4 DEF CallsKnown

(* No calls are left. *)
LEMMA NoCalls ==
    ASSUME prog' = <<>>, state' \in CP!States
    PROVE  CallsKnown'
  BY EmptyPath DEF CallsKnown

(* A call of an exchange is done. *)
LEMMA ExchangeGoesOn ==
    ASSUME state \in CP!States, prog \in Seq(CP!ExchangeOps), prog # <<>>,
           CP!Path({state}, prog, CP!States), prog' = Tail(prog),
           \A A : CP!Leads({state}, Head(prog), A) => state' \in A
    PROVE  CallsKnown'
<1>1. prog \in Seq(CP!Ops) /\ Tail(prog) \in Seq(CP!ExchangeOps)
  BY ExchangeSeq
<1>2. PICK A \in SUBSET CP!States :
        CP!Leads({state}, Head(prog), A) /\ CP!Path(A, Tail(prog), CP!States)
  BY <1>1, ChainAssumed, CP!PathTail
<1>3. state' \in A
  BY <1>2
<1>4. CP!Path({state'}, Tail(prog), CP!States)
  BY <1>2, <1>3, ChainAssumed, CP!PathFrom
<1> QED
  BY <1>1, <1>4 DEF CallsKnown

(* Clocks move the tracked state and the controllers alike.                *)
LEMMA ChainClock ==
    ASSUME Typed, CallsKnown, Chain!CableClock \/ Chain!CableDeferClock
    PROVE  /\ line' \in CP!Lines /\ state' \in CP!States
           /\ HeldInReset(line') <=> HeldInReset(line)
           /\ CallsKnown'
           /\ StateKnown /\ ~HeldInReset(line) => StateKnown'
<1> DEFINE op == Head(prog)
           tms == op.tms
           tdi == op.tdi
           n == op.n
<1>1. /\ prog # <<>> /\ op.op \in {"clock", "defer_clock"} /\ prog' = Tail(prog)
      /\ line' = CP!DriverClock(line, tms, tdi, n)
      /\ state' = CP!StateClocks(state, tms, n)
  BY ClockStep
<1>2. /\ line \in CP!Lines /\ state \in CP!States /\ line.tap \in CP!TapStates
  BY DEF Typed, CP!Lines
<1>3. Chain!ClockOp(1, 0, 5) \in CP!ClockOps
  BY DEF Chain!ClockOp, CP!ClockOps, CP!Bit
<1>4. op \in CP!ClockOps \cup CP!DeferClockOps
  BY <1>1, <1>3, CallsHead, OpNames
<1>5. tms \in CP!Bit /\ tdi \in CP!Bit /\ n \in Nat
  BY <1>4, OpNames
<1> HIDE DEF op, tms, tdi, n
<1>6. state' \in CP!States
  BY <1>1, <1>2, <1>5, ChainAssumed, CP!StateClocksType
<1>7. CP!HeldInReset(line) <=> HeldInReset(line)
  BY DEF CP!HeldInReset, HeldInReset
<1>8. /\ line' \in CP!Lines
      /\ HeldInReset(line') <=> HeldInReset(line)
      /\ ~HeldInReset(line) => line'.tap = CP!StateClocks(line.tap, tms, n)
  <2> DEFINE after == CP!DriverClock(line, tms, tdi, n)
  <2>1. /\ after \in CP!Lines
        /\ ~CP!HeldInReset(line) => after.tap = CP!StateClocks(line.tap, tms, n)
    BY <1>2, <1>5, ChainAssumed, CP!ClocksAgree
  <2>2. CP!HeldInReset(after) <=> CP!HeldInReset(line)
    BY <1>2, <1>5, ChainAssumed, CP!ClocksKeepSignals
  <2> HIDE DEF after
  <2> QED
    BY <1>1, <1>7, <2>1, <2>2 DEF after, CP!HeldInReset, HeldInReset
<1>9. CP!StateClocks(Unknown, tms, n) = Unknown
  <2>1. CP!StateClocks(CP!Unknown, tms, n) = CP!Unknown
    BY <1>5, ChainAssumed, CP!UnknownStays
  <2> QED
    BY <2>1 DEF CP!Unknown, Unknown
<1>10. CASE prog \in Seq(CP!ExchangeOps) /\ CP!Path({state}, prog, CP!States)
  <2>1. \A A : CP!Leads({state}, op, A) => state' \in A
    BY <1>1 DEF CP!Leads, tms, n
  <2>2. CallsKnown'
    BY <1>1, <1>2, <1>10, <2>1, ExchangeGoesOn DEF op
  <2>3. prog' # AfterFiveClocks
    BY <1>1, <1>10, ExchangeSeq
  <2>5. StateKnown /\ ~HeldInReset(line) => StateKnown'
    BY <1>1, <1>8, <1>9, <2>3 DEF StateKnown
  <2> QED
    BY <1>6, <1>8, <2>2, <2>5
<1>11. CASE op \in CP!ClockOps /\ Tail(prog) = <<>>
  <2>1. CallsKnown'
    BY <1>1, <1>6, <1>11, NoCalls
  <2>2. prog' # AfterFiveClocks
    BY <1>1, <1>11 DEF AfterFiveClocks
  <2>3. StateKnown /\ ~HeldInReset(line) => StateKnown'
    BY <1>1, <1>8, <1>9, <2>2 DEF StateKnown
  <2> QED
    BY <1>6, <1>8, <2>1, <2>3
<1>12. CASE /\ prog = GotoReset /\ state = Unknown
            /\ op = Chain!ClockOp(1, 0, 5) /\ Tail(prog) = AfterFiveClocks
  <2>1. CallsKnown'
    BY <1>1, <1>12 DEF CallsKnown
  <2>2. tms = 1 /\ n = 5
    BY <1>12 DEF tms, n, Chain!ClockOp
  <2>3. CP!StateClocks(line.tap, 1, 5) = "TEST_LOGIC_RESET"
    BY <1>2, ChainAssumed, CP!FiveClocks
  <2>4. state' = Unknown
    BY <1>1, <1>9, <1>12
  <2>5. ~HeldInReset(line) => StateKnown'
    BY <1>8, <2>2, <2>3, <2>4 DEF StateKnown
  <2> QED
    BY <1>6, <1>8, <2>1, <2>5
<1> QED
  BY <1>1, <1>10, <1>11, <1>12, CallsHead DEF op

(* A deferred transfer or sample leaves the state where it is.             *)
LEMMA ChainDefer ==
    ASSUME Typed, CallsKnown, Chain!CableDefer
    PROVE  /\ line' \in CP!Lines /\ state' = state
           /\ HeldInReset(line') <=> HeldInReset(line)
           /\ CallsKnown'
           /\ StateKnown /\ ~HeldInReset(line) => StateKnown'
<1> DEFINE op == Head(prog)
           act == op.act
<1>1. /\ prog # <<>> /\ op.op = "defer" /\ prog' = Tail(prog) /\ state' = state
      /\ line' = CP!Effect(act, line)
  BY DeferStep
<1>2. /\ line \in CP!Lines /\ state \in CP!States /\ line.tap \in CP!TapStates
  BY DEF Typed, CP!Lines
<1>3. Chain!ClockOp(1, 0, 5).op = "clock"
  BY DEF Chain!ClockOp
<1>4. /\ prog \in Seq(CP!ExchangeOps) /\ CP!Path({state}, prog, CP!States)
      /\ op \in CP!DeferOps /\ Tail(prog) \in Seq(CP!ExchangeOps)
  BY <1>1, <1>3, CallsHead, OpNames
<1>5. act \in CP!Acts
  BY <1>4 DEF CP!DeferOps
<1> HIDE DEF act
<1>6. \A A : CP!Leads({state}, op, A) => state' \in A
  BY <1>1 DEF CP!Leads
<1>7. CallsKnown'
  BY <1>1, <1>2, <1>4, <1>6, ExchangeGoesOn
<1>8. prog' # AfterFiveClocks
  BY <1>1, <1>4, ExchangeSeq
<1>9. CASE act.action = "GET_TDO"
  <2>1. line' = line
    BY <1>1, <1>9 DEF CP!Effect
  <2> QED
    BY <1>1, <1>2, <1>7, <1>8, <2>1 DEF StateKnown
<1>10. CASE act.action = "TRANSFER"
  <2> DEFINE in == act.in
  <2>1. in \in Seq(CP!Bit)
    BY <1>5, <1>10 DEF CP!Acts
  <2>2. line' = CP!DriverTransfer(line, in).line
    BY <1>1, <1>10 DEF CP!Effect
  <2>3. state \in CP!ShiftStates \/ in = <<>>
    <3>2. prog \in Seq(CP!Ops)
      BY <1>4, ExchangeSeq
    <3>3. PICK A \in SUBSET CP!States : CP!Leads({state}, op, A)
      BY <1>1, <1>2, <1>4, <3>2, ChainAssumed, CP!PathTail
    <3> QED
      BY <1>1, <1>10, <3>3 DEF CP!Leads, act
  <2> HIDE DEF in, op
  <2>4. /\ line' \in CP!Lines
        /\ line.tap \in CP!ShiftStates \/ in = <<>> =>
            line'.tap = line.tap \/ CP!HeldInReset(line)
    BY <1>2, <2>1, <2>2, ChainAssumed, CP!TransferStays
  <2>6. HeldInReset(line') <=> HeldInReset(line)
    <3>1. CP!HeldInReset(line') <=> CP!HeldInReset(line)
      BY <1>2, <2>1, <2>2, ChainAssumed, CP!TransfersKeepSignals
    <3> QED
      BY <3>1 DEF CP!HeldInReset, HeldInReset
  <2>5. StateKnown /\ ~HeldInReset(line) => StateKnown'
    <3> SUFFICES ASSUME StateKnown, ~HeldInReset(line) PROVE StateKnown'
      OBVIOUS
    <3>1. Unknown \notin CP!ShiftStates
      BY DEF Unknown, CP!ShiftStates
    <3>2. state = Unknown \/ line'.tap = line.tap
      BY <2>3, <2>4, <3>1 DEF StateKnown, CP!HeldInReset, HeldInReset
    <3> QED
      BY <1>1, <1>8, <3>2 DEF StateKnown
  <2> QED
    BY <1>1, <1>7, <2>4, <2>5, <2>6
<1> QED
  BY <1>5, <1>9, <1>10 DEF CP!Acts

(* urj_tap_defer_shift_register puts its calls before those left.          *)
LEMMA ChainDeferShift ==
    ASSUME Typed, CallsKnown, Chain!DeferShift
    PROVE  /\ line' = line /\ state' = state
           /\ CallsKnown'
           /\ StateKnown => StateKnown'
<1> DEFINE op == Head(prog)
           calls == CP!FullShift(state, op.reg, op.exit)
<1>1. /\ prog # <<>> /\ op.op = "defer_shift" /\ prog' = calls \o Tail(prog)
      /\ state' = state /\ line' = line
  BY DeferShiftStep
<1>2. state \in CP!States
  BY DEF Typed
<1>3. Chain!ClockOp(1, 0, 5).op = "clock"
  BY DEF Chain!ClockOp
<1>4. /\ prog \in Seq(CP!ExchangeOps) /\ CP!Path({state}, prog, CP!States)
      /\ op \in CP!DeferShiftOps /\ Tail(prog) \in Seq(CP!ExchangeOps)
  BY <1>1, <1>3, CallsHead, OpNames
<1>5. CP!ShiftOps \subseteq CP!ExchangeOps
  BY DEF CP!ExchangeOps
<1>6. prog \in Seq(CP!Ops) /\ Tail(prog) \in Seq(CP!Ops)
  BY <1>4, ExchangeSeq
<1>7. PICK A \in SUBSET CP!States :
        CP!Leads({state}, op, A) /\ CP!Path(A, Tail(prog), CP!States)
  BY <1>1, <1>2, <1>4, <1>6, ChainAssumed, CP!PathTail
<1>8. calls \in Seq(CP!ShiftOps) /\ CP!Path({state}, calls, A)
  BY <1>2, <1>4, <1>7, ChainAssumed, CP!FullShiftLeads
<1> HIDE DEF calls
<1>9. calls \in Seq(CP!ExchangeOps) /\ calls \in Seq(CP!Ops)
  <2> DEFINE R == CP!ShiftOps
             S == CP!ExchangeOps
  <2>1. R \subseteq S /\ calls \in Seq(R)
    BY <1>5, <1>8
  <2> HIDE DEF R, S
  <2>2. calls \in Seq(S)
    BY <2>1, SeqMonotonic
  <2>3. calls \in Seq(CP!ExchangeOps)
    BY <2>2 DEF S
  <2> QED
    BY <2>3, ExchangeSeq
<1>10. CP!Path({state}, prog', CP!States)
  BY <1>1, <1>6, <1>7, <1>8, <1>9, ChainAssumed, CP!PathConcat
<1>11. prog' \in Seq(CP!ExchangeOps)
  <2> DEFINE S == CP!ExchangeOps
  <2>1. calls \in Seq(S) /\ Tail(prog) \in Seq(S)
    BY <1>4, <1>9
  <2> HIDE DEF S
  <2>2. calls \o Tail(prog) \in Seq(S)
    BY <2>1, ConcatProperties
  <2> QED
    BY <1>1, <2>2 DEF S
<1>12. CallsKnown'
  BY <1>1, <1>10, <1>11 DEF CallsKnown
<1> QED
  BY <1>1, <1>11, <1>12, ExchangeSeq DEF StateKnown

(* Any step of the chain.                                                  *)
LEMMA ChainMoves ==
    ASSUME Typed, CallsKnown, Chain!Step
    PROVE  /\ prog # <<>>
           /\ line' \in CP!Lines /\ state' \in CP!States
           /\ HeldInReset(line') <=> HeldInReset(line)
           /\ CallsKnown'
           /\ StateKnown /\ ~HeldInReset(line) => StateKnown'
<1>0. line \in CP!Lines /\ state \in CP!States
  BY DEF Typed
<1>1. CASE Chain!CableClock \/ Chain!CableDeferClock
  BY <1>1, ChainClock, ClockStep
<1>2. CASE Chain!CableDefer
  BY <1>0, <1>2, ChainDefer, DeferStep
<1>3. CASE Chain!DeferShift
  BY <1>0, <1>3, ChainDeferShift, DeferShiftStep
<1>4. CASE /\ prog # <<>> /\ Head(prog).op \in {"transfer_late", "get_tdo_late"}
           /\ prog' = Tail(prog) /\ lost' = lost /\ state' = state /\ line' = line
  <2>1. Chain!ClockOp(1, 0, 5).op = "clock"
    BY DEF Chain!ClockOp
  <2>2. /\ prog \in Seq(CP!ExchangeOps) /\ CP!Path({state}, prog, CP!States)
        /\ Tail(prog) \in Seq(CP!ExchangeOps)
    BY <1>4, <2>1, CallsHead, OpNames
  <2>3. \A A : CP!Leads({state}, Head(prog), A) => state' \in A
    BY <1>4 DEF CP!Leads
  <2>4. CallsKnown'
    BY <1>0, <1>4, <2>2, <2>3, ExchangeGoesOn
  <2>5. prog' # AfterFiveClocks
    BY <1>4, <2>2, ExchangeSeq
  <2> QED
    BY <1>0, <1>4, <2>4, <2>5 DEF StateKnown
<1>5. CASE /\ prog # <<>> /\ Head(prog).op = "state_reset"
           /\ prog' = Tail(prog) /\ state' = "TEST_LOGIC_RESET" /\ line' = line
  <2>1. Chain!ClockOp(1, 0, 5).op = "clock"
    BY DEF Chain!ClockOp
  <2>2. prog = AfterFiveClocks /\ Tail(prog) = <<>>
    BY <1>5, <2>1, CallsHead, OpNames
  <2>3. state' \in CP!States
    BY <1>5 DEF CP!States, CP!TapStates
  <2>4. CallsKnown'
    BY <1>5, <2>2, <2>3, NoCalls
  <2>5. prog' # AfterFiveClocks
    BY <1>5, <2>2 DEF AfterFiveClocks
  <2> QED
    BY <1>0, <1>5, <2>2, <2>3, <2>4, <2>5 DEF StateKnown
<1>6. CASE prog # <<>> /\ Head(prog).op = "set_signal"
  <2>1. Chain!ClockOp(1, 0, 5).op = "clock"
    BY DEF Chain!ClockOp
  <2> QED
    BY <1>6, <2>1, CallsHead, OpNames
<1> QED
  BY <1>1, <1>2, <1>3, <1>4, <1>5, <1>6, StepIs

(* Clocks in the run state stay there.                                     *)
LEMMA RunGoesOn ==
    ASSUME Typed, CallsKnown, priv.run # "TEST_LOGIC_RESET", InRun, Chain!Step, priv' = priv
    PROVE  InRun'
<1>1. prog # <<>>
  BY ChainMoves
<1>2. PICK op \in CP!ClockOps \cup CP!DeferClockOps : op.tms = 0 /\ prog = <<op>>
  BY <1>1 DEF InRun
<1>3. Head(prog) = op /\ Tail(prog) = <<>>
  BY <1>2
<1>4. op.op \in {"clock", "defer_clock"} /\ op.n \in Nat
  BY OpNames
<1>5. Chain!CableClock \/ Chain!CableDeferClock
  <2>1. ~Chain!CableDefer /\ ~Chain!DeferShift
    BY <1>3, <1>4, DeferStep, DeferShiftStep
  <2> QED
    BY <1>3, <1>4, <2>1, StepIs
<1>6. state' = CP!StateClocks(state, 0, op.n) /\ prog' = <<>>
  BY <1>2, <1>3, <1>5, ClockStep
<1>7. state \in StableStates \ {"TEST_LOGIC_RESET"} /\ state = priv.run
  BY DEF InRun, Typed, Privs
<1>8. state \in {"RUN_TEST_IDLE", "PAUSE_DR", "PAUSE_IR"}
  BY <1>7 DEF StableStates
<1>9. state' = priv'.run
  BY <1>4, <1>6, <1>7, <1>8, ChainAssumed, CP!LowStays
<1> QED
  BY <1>6, <1>9 DEF InRun

(* A step of the chain for the player.                                     *)
LEMMA InvChainStep ==
    ASSUME SvfInv, ChainStep
    PROVE  /\ SvfInv'
           /\ StateKnown /\ ~HeldInReset(line) => StateKnown'
           /\ HeldInReset(line)' <=> HeldInReset(line)
<1>1. /\ Chain!Step /\ priv' = priv /\ todo' = todo /\ timer' = timer /\ seen' = seen
  BY DEF ChainStep, svfVars
<1>2. Typed /\ CallsKnown
  BY DEF SvfInv
<1>3. /\ prog # <<>>
      /\ line' \in CP!Lines /\ state' \in CP!States
      /\ HeldInReset(line') <=> HeldInReset(line)
      /\ CallsKnown'
      /\ StateKnown /\ ~HeldInReset(line) => StateKnown'
  BY <1>1, <1>2, ChainMoves
<1>4. Typed'
  BY <1>1, <1>2, <1>3 DEF Typed
<1>5. Remembered' /\ Ordered(todo, priv.run)'
  BY <1>1 DEF SvfInv, Remembered, Ordered
<1>6. PlanEnds'
  BY <1>1, <1>3 DEF SvfInv, PlanEnds, EndsAt
<1>7. Finished'
  BY <1>1, <1>3 DEF SvfInv, Finished
<1>8. ASSUME RunStatesStay PROVE Running'
  <2>1. Running
    BY <1>8 DEF SvfInv
  <2>2. InRun => InRun'
    BY <1>1, <1>2, <2>1, RunGoesOn DEF Running
  <2> QED
    BY <1>1, <2>1, <2>2 DEF Running
<1>9. HeldInReset(line)' <=> HeldInReset(line)
  BY <1>3
<1> QED
  BY <1>9, <1>3, <1>4, <1>5, <1>6, <1>7, <1>8 DEF SvfInv

-----------------------------------------------------------------------------
(* The player keeps it, one thing after another. *)

(* Things are told by their names.                                         *)
LEMMA TodoNames ==
    ASSUME NEW op \in TodoOps
    PROVE  /\ op.op \in {"goto", "shift"} \cup Clocking \cup Trailing
           /\ op.op = "goto" => op.to \in TapStates /\ op = GotoOp(op.to)
           /\ op.op \in {"clocks", "timed_clocks"} => op \in ClockingOps
           /\ op.op = "shift" => op \in ShiftOps
           /\ op.op = "compare" => op \in CompareOps
<1>1. op.op = "goto" => op \in GotoOps
  BY DEF TodoOps, GotoOps, ClockingOps, TimerOps, ShiftOps, CompareOps
<1>2. op \in GotoOps => op.to \in TapStates /\ op = GotoOp(op.to)
  BY DEF GotoOps, GotoOp
<1> QED
  BY <1>1, <1>2
     DEF TodoOps, GotoOps, ClockingOps, TimerOps, ShiftOps, CompareOps, Clocking, Trailing

(* While something is left to be walked or shifted, the last walk is.      *)
LEMMA PlanAhead ==
    ASSUME Typed, PlanEnds, todo # <<>>, Head(todo).op \notin Trailing, seen.at # NoState
    PROVE  EndsAt(todo, seen.at)
<1>1. todo \in Seq(TodoOps)
  BY DEF Typed
<1>2. 1 \in 1 .. Len(todo) /\ Head(todo) = todo[1]
  BY <1>1, TailIs
<1> QED
  BY <1>2 DEF PlanEnds

(* Something is done that walks nowhere.                                   *)
LEMMA DoneInPlace ==
    ASSUME SvfInv, prog = <<>>, todo # <<>>, Head(todo).op # "goto",
           todo' = Tail(todo), UNCHANGED <<line, state, prog>>,
           priv' \in Privs, UNCHANGED <<priv.run, priv.endxr, priv.sxr, priv.verdict>>,
           priv'.reading => priv.reading,
           seen' \in Sights, UNCHANGED <<seen.at, seen.endxr, seen.pulsing>>,
           Stop /\ seen'.differed => priv'.mismatch,
           timer' \in {"on", "off"}
    PROVE  /\ SvfInv'
           /\ StateKnown => StateKnown'
<1>1. Typed /\ todo \in Seq(TodoOps) /\ Tail(todo) \in Seq(TodoOps)
  BY TailIs DEF SvfInv, Typed
<1>2. Typed'
  BY <1>1 DEF Typed
<1>3. CallsKnown'
  BY DEF SvfInv, CallsKnown
<1>4. Remembered'
  BY DEF SvfInv, Remembered
<1>5. Ordered(todo, priv.run)'
  <2>1. Ordered(Tail(todo), priv.run)
    BY <1>1, OrderedTail DEF SvfInv
  <2> QED
    BY <2>1 DEF Ordered
<1>6. PlanEnds'
  <2> SUFFICES ASSUME seen.at # NoState
               PROVE  \/ EndsAt(Tail(todo), seen.at)
                      \/ /\ state = seen.at
                         /\ \A j \in 1 .. Len(Tail(todo)) : Tail(todo)[j].op \in Trailing
    BY DEF PlanEnds, EndsAt
  <2>1. GotoOp(seen.at).op = "goto"
    BY DEF GotoOp
  <2>2. CASE EndsAt(todo, seen.at)
    BY <1>1, <2>1, <2>2, EndsAtTail
  <2>3. CASE state = seen.at /\ \A j \in 1 .. Len(todo) : todo[j].op \in Trailing
    BY <1>1, <2>3, TrailsTail
  <2> QED
    BY <2>2, <2>3 DEF SvfInv, PlanEnds
<1>7. Finished'
  BY DEF SvfInv, Finished
<1>8. ASSUME RunStatesStay PROVE Running'
  <2>1. Running /\ Ordered(todo, priv.run)
    BY <1>8 DEF SvfInv
  <2>2. GotoOp(priv.run).op = "goto"
    BY DEF GotoOp
  <2>3. InRun => InRun'
    BY DEF InRun
  <2>4. Tail(todo) # <<>> /\ Head(Tail(todo)).op \in Clocking => InRun'
    BY <1>1, <2>1, <2>2, <2>3, OrderedHead DEF Running, Clocking
  <2>5. seen.pulsing =>
            /\ InRun' /\ Tail(todo) # <<>>
            /\ Head(Tail(todo)).op \in {"timed_clocks", "goto"}
    BY <1>1, <2>1, <2>3, OrderedHead DEF Running, Clocking
  <2> QED
    BY <2>1, <2>4, <2>5 DEF Running
<1>9. StateKnown => StateKnown'
  BY DEF StateKnown
<1> QED
  BY <1>2, <1>3, <1>4, <1>5, <1>6, <1>7, <1>8, <1>9 DEF SvfInv

(* Timers and comparisons, and the end of the clocks.                      *)
LEMMA InvInPlace ==
    ASSUME SvfInv, SetTimer \/ StopTimer \/ TimedClocksEnd \/ CompareTdo
    PROVE  /\ SvfInv'
           /\ StateKnown => StateKnown'
<1>1. /\ prog = <<>> /\ todo # <<>> /\ Head(todo).op # "goto"
      /\ todo' = Tail(todo) /\ UNCHANGED <<line, state, prog>>
  BY DEF SetTimer, StopTimer, TimedClocksEnd, CompareTdo, Doing, chainVars
<1>2. priv \in Privs /\ seen \in Sights /\ timer \in {"on", "off"}
  BY DEF SvfInv, Typed
<1>3. timer' \in {"on", "off"}
  BY <1>2 DEF SetTimer, StopTimer, TimedClocksEnd, CompareTdo
<1>4. CASE SetTimer \/ StopTimer \/ TimedClocksEnd
  <2>1. priv' = priv /\ seen' = seen
    BY <1>4 DEF SetTimer, StopTimer, TimedClocksEnd
  <2>2. Stop /\ seen'.differed => priv'.mismatch
    BY <2>1 DEF SvfInv, Finished
  <2> QED
    BY <1>1, <1>2, <1>3, <2>1, <2>2, DoneInPlace
<1>5. CASE CompareTdo
  <2> DEFINE h == Head(todo)
             mismatch == Differs(outs[1], h.tdo, h.mask)
  <2>1. /\ seen' = [seen EXCEPT !.differed = @ \/ mismatch]
        /\ priv' = IF Stop /\ mismatch
                   THEN [priv EXCEPT !.mismatch = TRUE, !.reading = FALSE]
                   ELSE priv
    BY <1>5 DEF CompareTdo
  <2>2. mismatch \in BOOLEAN
    BY DEF Differs
  <2> HIDE DEF mismatch
  <2>3. /\ seen' \in Sights /\ UNCHANGED <<seen.at, seen.endxr, seen.pulsing>>
        /\ seen'.differed = (seen.differed \/ mismatch)
    BY <1>2, <2>1, <2>2 DEF Sights
  <2>4. /\ priv' \in Privs /\ UNCHANGED <<priv.run, priv.endxr, priv.sxr, priv.verdict>>
        /\ priv'.reading => priv.reading
        /\ (Stop /\ mismatch) \/ priv.mismatch => priv'.mismatch
    BY <1>2, <2>1 DEF Privs
  <2>5. Stop /\ seen'.differed => priv'.mismatch
    BY <2>3, <2>4 DEF SvfInv, Finished
  <2> QED
    BY <1>1, <1>3, <2>3, <2>4, <2>5, DoneInPlace
<1> QED
  BY <1>4, <1>5

(* One clock is a path.                                                    *)
LEMMA OneClockPath ==
    ASSUME state \in CP!States, NEW tms \in Bit, NEW n \in Nat,
           prog' = <<Chain!DeferClockOp(tms, 0, n)>>, state' = state
    PROVE  CallsKnown' /\ prog' # AfterFiveClocks
<1> DEFINE op == Chain!DeferClockOp(tms, 0, n)
<1>1. op \in CP!DeferClockOps /\ op.op = "defer_clock" /\ op.tms = tms /\ op.n = n
  BY DEF Chain!DeferClockOp, CP!DeferClockOps, CP!Bit, Bit
<1>2. op \in CP!ExchangeOps /\ op \in CP!Ops
  BY <1>1 DEF CP!ExchangeOps, CP!ShiftOps, CP!Ops
<1> HIDE DEF op
<1>3. tms \in CP!Bit
  BY DEF Bit, CP!Bit
<1>4. CP!StateClocks(state, tms, n) \in CP!States
  BY <1>3, ChainAssumed, CP!StateClocksType
<1>5. CP!Leads({state}, op, CP!States)
  BY <1>1, <1>4 DEF CP!Leads
<1>6. {state} \in SUBSET CP!States /\ CP!States \in SUBSET CP!States
  OBVIOUS
<1>7. CP!Path({state}, <<op>>, CP!States)
  BY <1>2, <1>5, <1>6, ChainAssumed, CP!PathOne
<1>8. prog' \in Seq(CP!ExchangeOps)
  <2>1. prog' = <<op>>
    BY DEF op
  <2> QED
    BY <1>2, <2>1
<1>9. CP!Path({state'}, prog', CP!States)
  BY <1>7 DEF op
<1> QED
  BY <1>8, <1>9, ExchangeSeq DEF CallsKnown

(* urj_svf_goto_state, a step of it.                                       *)
LEMMA InvGoto ==
    ASSUME SvfInv, Goto
    PROVE  /\ SvfInv'
           /\ StateKnown => StateKnown'
<1>1. /\ prog = <<>> /\ todo # <<>> /\ Head(todo).op = "goto"
      /\ prog' = IF state = Unknown THEN GotoReset
                 ELSE <<Chain!DeferClockOp(StepTms(state, Head(todo).to), 0, 1)>>
      /\ line' = line /\ state' = state
      /\ priv' = priv /\ todo' = todo /\ timer' = timer
      /\ seen' = [seen EXCEPT !.pulsing = FALSE]
  BY DEF Goto, Doing, ChainHas, GotoReset
<1>2. Typed
  BY DEF SvfInv
<1>3. /\ seen' \in Sights /\ seen'.pulsing = FALSE
      /\ seen'.at = seen.at /\ seen'.endxr = seen.endxr /\ seen'.differed = seen.differed
  BY <1>1, <1>2 DEF Typed, Sights
<1>4. Typed'
  BY <1>1, <1>2, <1>3 DEF Typed
<1>5. CallsKnown' /\ prog' # AfterFiveClocks
  <2>1. CASE state = Unknown
    <3>1. GotoReset # AfterFiveClocks
      BY DEF GotoReset, AfterFiveClocks
    <3> QED
      BY <1>1, <2>1, <3>1 DEF CallsKnown
  <2>2. CASE state # Unknown
    <3>1. StepTms(state, Head(todo).to) \in Bit
      BY DEF StepTms, Bit
    <3> QED
      BY <1>1, <1>2, <2>2, <3>1, OneClockPath DEF Typed
  <2> QED
    BY <2>1, <2>2
<1>6. Remembered' /\ Ordered(todo, priv.run)'
  BY <1>1, <1>3 DEF SvfInv, Remembered, Ordered
<1>7. PlanEnds'
  <2>1. Head(todo).op \notin Trailing
    BY <1>1 DEF Trailing
  <2> QED
    BY <1>1, <1>2, <1>3, <2>1, PlanAhead DEF SvfInv, PlanEnds, EndsAt
<1>8. Finished'
  BY <1>1, <1>3 DEF SvfInv, Finished
<1>9. RunStatesStay => Running'
  BY <1>1, <1>3 DEF SvfInv, Running, Clocking
<1>10. StateKnown => StateKnown'
  BY <1>1, <1>5 DEF StateKnown
<1> QED
  BY <1>4, <1>5, <1>6, <1>7, <1>8, <1>9, <1>10 DEF SvfInv

(* Its end.                                                                *)
LEMMA InvArrive ==
    ASSUME SvfInv, Arrive
    PROVE  /\ SvfInv'
           /\ StateKnown => StateKnown'
<1>1. /\ prog = <<>> /\ todo # <<>> /\ Head(todo).op = "goto" /\ state = Head(todo).to
      /\ todo' = Tail(todo)
      /\ UNCHANGED <<line, state, prog, priv, timer>>
      /\ seen' = [seen EXCEPT !.pulsing = FALSE]
  BY DEF Arrive, Doing, chainVars
<1>2. Typed /\ todo \in Seq(TodoOps) /\ Tail(todo) \in Seq(TodoOps) /\ Head(todo) \in TodoOps
  BY <1>1, TailIs DEF SvfInv, Typed
<1>3. /\ seen' \in Sights /\ seen'.pulsing = FALSE
      /\ seen'.at = seen.at /\ seen'.endxr = seen.endxr /\ seen'.differed = seen.differed
  BY <1>1, <1>2 DEF Typed, Sights
<1>4. Typed'
  BY <1>1, <1>2, <1>3 DEF Typed
<1>5. CallsKnown'
  BY <1>1 DEF SvfInv, CallsKnown
<1>6. Remembered'
  BY <1>1, <1>3 DEF SvfInv, Remembered
<1>7. Ordered(todo, priv.run)'
  <2>1. Ordered(Tail(todo), priv.run)
    BY <1>1, <1>2, OrderedTail DEF SvfInv
  <2> QED
    BY <1>1, <2>1 DEF Ordered
<1>8. PlanEnds'
  <2> SUFFICES ASSUME seen.at # NoState
               PROVE  \/ EndsAt(Tail(todo), seen.at)
                      \/ /\ state = seen.at
                         /\ \A j \in 1 .. Len(Tail(todo)) : Tail(todo)[j].op \in Trailing
    BY <1>1, <1>3 DEF PlanEnds, EndsAt
  <2>1. EndsAt(todo, seen.at)
    BY <1>1, <1>2, PlanAhead DEF SvfInv, Trailing
  <2>2. GotoOp(seen.at).to = seen.at
    BY DEF GotoOp
  <2> QED
    BY <1>1, <1>2, <2>1, <2>2, EndsAtTail
<1>9. Finished'
  BY <1>1, <1>3 DEF SvfInv, Finished
<1>10. ASSUME RunStatesStay PROVE Running'
  <2>1. Running /\ Ordered(todo, priv.run)
    BY <1>10 DEF SvfInv
  <2>2. GotoOp(priv.run).to = priv.run
    BY DEF GotoOp
  <2>3. Tail(todo) # <<>> /\ Head(Tail(todo)).op \in Clocking => state = priv.run
    BY <1>1, <1>2, <2>1, <2>2, OrderedHead
  <2> QED
    BY <1>1, <1>3, <2>1, <2>3 DEF Running, InRun
<1>11. StateKnown => StateKnown'
  BY <1>1 DEF StateKnown
<1> QED
  BY <1>4, <1>5, <1>6, <1>7, <1>8, <1>9, <1>10, <1>11 DEF SvfInv

(* A clock of RUNTEST begins: what is left is as ordered.                  *)
LEMMA InvClocking ==
    ASSUME SvfInv, prog = <<>>, todo # <<>>, Head(todo).op \in Clocking,
           line' = line, state' = state, priv' = priv, timer' = timer,
           seen' = [seen EXCEPT !.pulsing = TRUE],
           CallsKnown', prog' # AfterFiveClocks,
           \E op \in CP!ClockOps \cup CP!DeferClockOps : op.tms = 0 /\ prog' = <<op>>,
           todo' \in Seq(TodoOps), todo' # <<>>,
           Head(todo').op \in {"timed_clocks", "goto"},
           Ordered(todo', priv.run),
           \A s : EndsAt(todo, s) => EndsAt(todo', s)
    PROVE  /\ SvfInv'
           /\ StateKnown => StateKnown'
<1>1. Typed /\ Head(todo).op \notin Trailing
  BY DEF SvfInv, Trailing, Clocking
<1>2. /\ seen' \in Sights /\ seen'.at = seen.at /\ seen'.endxr = seen.endxr
      /\ seen'.differed = seen.differed
  BY <1>1 DEF Typed, Sights
<1>3. Typed'
  BY <1>1, <1>2 DEF Typed
<1>4. Remembered' /\ Ordered(todo, priv.run)'
  BY <1>2 DEF SvfInv, Remembered, Ordered
<1>5. PlanEnds'
  BY <1>1, <1>2, PlanAhead DEF SvfInv, PlanEnds, EndsAt
<1>6. Finished'
  BY <1>2 DEF SvfInv, Finished
<1>7. RunStatesStay => Running'
  BY DEF SvfInv, Running, InRun
<1>8. StateKnown => StateKnown'
  BY DEF StateKnown
<1> QED
  BY <1>3, <1>4, <1>5, <1>6, <1>7, <1>8 DEF SvfInv

(* CHAIN_CLOCK.                                                            *)
LEMMA InvRunClocks ==
    ASSUME SvfInv, RunClocks
    PROVE  /\ SvfInv'
           /\ StateKnown => StateKnown'
<1> DEFINE n == Head(todo).n
           op == Chain!DeferClockOp(0, 0, n)
<1>1. /\ prog = <<>> /\ todo # <<>> /\ Head(todo).op = "clocks"
      /\ prog' = <<op>> /\ line' = line /\ state' = state
      /\ priv' = priv /\ timer' = timer /\ todo' = Tail(todo)
      /\ seen' = [seen EXCEPT !.pulsing = TRUE]
  BY DEF RunClocks, Doing, ChainHas
<1>2. Typed /\ todo \in Seq(TodoOps) /\ Tail(todo) \in Seq(TodoOps) /\ Head(todo) \in TodoOps
  BY <1>1, TailIs DEF SvfInv, Typed
<1>3. n \in Nat
  BY <1>1, <1>2, TodoNames DEF ClockingOps
<1>4. CallsKnown' /\ prog' # AfterFiveClocks
  BY <1>1, <1>2, <1>3, OneClockPath DEF Typed, Bit
<1>5. op \in CP!DeferClockOps /\ op.tms = 0
  BY <1>3 DEF Chain!DeferClockOp, CP!DeferClockOps, CP!Bit
<1> HIDE DEF op, n
<1>6. Head(todo).op \in Clocking
  BY <1>1 DEF Clocking
<1>7. /\ Tail(todo) # <<>> /\ Head(Tail(todo)).op \in {"timed_clocks", "goto"}
      /\ Ordered(Tail(todo), priv.run)
  BY <1>1, <1>2, <1>6, OrderedHead, OrderedTail DEF SvfInv
<1>8. ASSUME NEW s, EndsAt(todo, s) PROVE EndsAt(Tail(todo), s)
  <2>1. GotoOp(s).op = "goto"
    BY DEF GotoOp
  <2> QED
    BY <1>1, <1>2, <1>8, <2>1, EndsAtTail
<1>9. \E o \in CP!ClockOps \cup CP!DeferClockOps : o.tms = 0 /\ prog' = <<o>>
  BY <1>1, <1>5
<1> QED
  BY <1>1, <1>2, <1>4, <1>6, <1>7, <1>8, <1>9, InvClocking

(* A clock of the loop with a maximum time.                                *)
LEMMA InvTimedClock ==
    ASSUME SvfInv, TimedClock
    PROVE  /\ SvfInv'
           /\ StateKnown => StateKnown'
<1> DEFINE op == Chain!ClockOp(0, 0, 1)
           left == [op |-> "timed_clocks", n |-> Head(todo).n - 1]
<1>1. /\ prog = <<>> /\ todo # <<>> /\ Head(todo).op = "timed_clocks" /\ Head(todo).n > 0
      /\ prog' = <<op>> /\ line' = line /\ state' = state
      /\ priv' = priv /\ timer' = timer /\ todo' = [todo EXCEPT ![1].n = @ - 1]
      /\ seen' = [seen EXCEPT !.pulsing = TRUE]
  BY DEF TimedClock, Doing, ChainHas
<1>2. Typed /\ todo \in Seq(TodoOps)
  BY DEF SvfInv, Typed
<1>3. /\ Len(todo) \in Nat /\ Len(todo) > 0 /\ 1 \in 1 .. Len(todo)
      /\ Head(todo) = todo[1] /\ todo[1] \in TodoOps
  BY <1>1, <1>2, TailIs
<1>4. todo[1] \in ClockingOps /\ left \in TodoOps
  BY <1>1, <1>3, TodoNames DEF ClockingOps, TodoOps
<1>5. [todo[1] EXCEPT !.n = @ - 1] = left
  BY <1>1, <1>3, <1>4 DEF ClockingOps
<1>6. todo' = [todo EXCEPT ![1] = left]
  BY <1>1, <1>5
<1>7. left.op = "timed_clocks"
  OBVIOUS
<1> HIDE DEF left
<1>8. /\ todo' \in Seq(TodoOps) /\ Len(todo') = Len(todo)
      /\ todo'[1] = left
      /\ \A i \in 2 .. Len(todo) : todo'[i] = todo[i]
  BY <1>2, <1>3, <1>4, <1>6
<1>9. Head(todo') = left /\ todo' # <<>>
  BY <1>3, <1>8, TailIs
<1>10. \A i \in 1 .. Len(todo) : todo'[i].op = todo[i].op
  BY <1>1, <1>3, <1>7, <1>8
<1>11. Ordered(todo', priv.run)
  <2>1. Ordered(todo, priv.run)
    BY DEF SvfInv
  <2> SUFFICES ASSUME NEW i \in 1 .. Len(todo'), todo'[i].op \in Clocking
               PROVE  /\ i < Len(todo') /\ todo'[i + 1].op \in {"timed_clocks", "goto"}
                      /\ i > 1 => todo'[i - 1] = GotoOp(priv.run)
                                    \/ todo'[i - 1].op = "set_timer"
    BY DEF Ordered
  <2>2. i \in 1 .. Len(todo) /\ todo[i].op \in Clocking
    BY <1>8, <1>10
  <2>3. i < Len(todo') /\ todo'[i + 1].op \in {"timed_clocks", "goto"}
    <3>1. i < Len(todo) /\ todo[i + 1].op \in {"timed_clocks", "goto"}
      BY <2>1, <2>2 DEF Ordered
    <3> QED
      BY <1>3, <1>8, <1>10, <2>2, <3>1
  <2>4. ASSUME i > 1
        PROVE  todo'[i - 1] = GotoOp(priv.run) \/ todo'[i - 1].op = "set_timer"
    <3>1. todo[i - 1] = GotoOp(priv.run) \/ todo[i - 1].op = "set_timer"
      BY <2>1, <2>2, <2>4 DEF Ordered
    <3>2. GotoOp(priv.run).op = "goto"
      BY DEF GotoOp
    <3>3. i - 1 # 1
      BY <1>1, <1>3, <3>1, <3>2
    <3>4. i - 1 \in 2 .. Len(todo)
      BY <1>3, <2>2, <2>4, <3>3
    <3> QED
      BY <1>8, <3>1, <3>4
  <2> QED
    BY <2>3, <2>4
<1>12. ASSUME NEW s, EndsAt(todo, s) PROVE EndsAt(todo', s)
  <2>1. PICK i \in 1 .. Len(todo) :
            todo[i] = GotoOp(s) /\ \A j \in i + 1 .. Len(todo) : todo[j].op \in Trailing
    BY <1>12 DEF EndsAt
  <2>2. i # 1
    BY <1>1, <1>3, <2>1 DEF GotoOp
  <2>3. i \in 1 .. Len(todo') /\ todo'[i] = GotoOp(s)
    BY <1>3, <1>8, <2>1, <2>2
  <2>4. ASSUME NEW j \in i + 1 .. Len(todo') PROVE todo'[j].op \in Trailing
    BY <1>8, <1>10, <2>1, <2>4
  <2> QED
    BY <2>3, <2>4 DEF EndsAt
<1>13. Head(todo).op \in Clocking /\ Head(todo').op \in {"timed_clocks", "goto"}
  BY <1>1, <1>7, <1>9 DEF Clocking
<1>14. op \in CP!ClockOps /\ op.tms = 0 /\ op.op = "clock"
  BY DEF Chain!ClockOp, CP!ClockOps, CP!Bit
<1> HIDE DEF op
<1>15. CallsKnown' /\ prog' # AfterFiveClocks
  <2>1. <<op>> # AfterFiveClocks
    BY <1>14 DEF AfterFiveClocks
  <2> QED
    BY <1>1, <1>14, <2>1 DEF CallsKnown
<1>16. \E o \in CP!ClockOps \cup CP!DeferClockOps : o.tms = 0 /\ prog' = <<o>>
  BY <1>1, <1>14
<1> QED
  BY <1>1, <1>8, <1>9, <1>11, <1>12, <1>13, <1>15, <1>16, InvClocking

(* urj_tap_chain_shift_instructions_mode and shift_data_registers_mode.    *)
LEMMA InvShiftRegister ==
    ASSUME SvfInv, ShiftRegister
    PROVE  /\ SvfInv'
           /\ StateKnown => StateKnown'
<1> DEFINE h == Head(todo)
           reg == [in |-> h.in, outlen |-> h.outlen]
           x == [path |-> h.path, capture |-> FALSE, exit |-> "EXIT1", regs |-> <<reg>>]
           path == IF state = "SHIFT_DR" THEN "DR" ELSE "IR"
<1>1. /\ prog = <<>> /\ todo # <<>> /\ h.op = "shift" /\ todo' = Tail(todo)
      /\ UNCHANGED <<line, state, priv, timer, seen>>
      /\ Chain!Exchange(x)
  BY DEF ShiftRegister, Doing, Chain!Exchange
<1>2. Typed /\ todo \in Seq(TodoOps) /\ Tail(todo) \in Seq(TodoOps) /\ h \in TodoOps
  BY <1>1, TailIs DEF SvfInv, Typed
<1>3. h \in ShiftOps
  BY <1>1, <1>2, TodoNames
<1>4. x \in Exchanges
  <2>1. reg \in [in : Seq(Bit) \ {<<>>}, outlen : Nat]
    BY <1>3 DEF ShiftOps
  <2>2. h.path \in {"DR", "IR"}
    BY <1>3 DEF ShiftOps, Paths
  <2> DEFINE S == [in : Seq(Bit) \ {<<>>}, outlen : Nat]
  <2> HIDE DEF S, reg
  <2>3. <<reg>> \in Seq(S) \ {<<>>}
    BY <2>1 DEF S
  <2> QED
    BY <2>2, <2>3 DEF Exchanges, S
<1>5. ~x.capture /\ x.exit = "EXIT1"
  OBVIOUS
<1> HIDE DEF x
<1>6. prog' = CP!ExchangeCalls(x) /\ state \in {"SHIFT_DR", "SHIFT_IR"}
  BY <1>1, <1>5, SameExchange DEF Chain!Exchange, Chain!ReadyFor, ShiftStates
<1>7. path \in {"DR", "IR"} /\ state \in CP!ReadyToShift(path)
  BY <1>6 DEF CP!ReadyToShift
<1> HIDE DEF path
<1>8. /\ prog' \in Seq(CP!ExchangeOps)
      /\ CP!Path({state}, prog', {CP!Destination(path)[x.exit]})
  BY <1>4, <1>5, <1>6, <1>7, ChainAssumed, CP!ExchangeCallsLead
<1>9. CP!Path({state}, prog', CP!States)
  <2>1. {CP!Destination(path)[x.exit]} \subseteq CP!States
    BY <1>5, <1>7 DEF CP!Destination, CP!States, CP!TapStates
  <2> QED
    BY <1>8, <2>1 DEF CP!Path
<1>10. CallsKnown' /\ prog' # AfterFiveClocks
  BY <1>1, <1>8, <1>9, ExchangeSeq DEF CallsKnown
<1>11. Typed'
  BY <1>1, <1>2 DEF Typed
<1>12. Remembered'
  BY <1>1 DEF SvfInv, Remembered
<1>13. Ordered(todo, priv.run)'
  <2>1. Ordered(Tail(todo), priv.run)
    BY <1>1, <1>2, OrderedTail DEF SvfInv
  <2> QED
    BY <1>1, <2>1 DEF Ordered
<1>14. PlanEnds'
  <2> SUFFICES ASSUME seen.at # NoState PROVE EndsAt(Tail(todo), seen.at)
    BY <1>1 DEF PlanEnds, EndsAt
  <2>1. EndsAt(todo, seen.at)
    BY <1>1, <1>2, PlanAhead DEF SvfInv, Trailing
  <2>2. GotoOp(seen.at).op = "goto"
    BY DEF GotoOp
  <2> QED
    BY <1>1, <1>2, <2>1, <2>2, EndsAtTail
<1>15. Finished'
  BY <1>1 DEF SvfInv, Finished
<1>16. ASSUME RunStatesStay PROVE Running'
  <2>1. Running /\ Ordered(todo, priv.run)
    BY <1>16 DEF SvfInv
  <2>2. GotoOp(priv.run).op = "goto"
    BY DEF GotoOp
  <2>3. ~(Tail(todo) # <<>> /\ Head(Tail(todo)).op \in Clocking)
    BY <1>1, <1>2, <2>1, <2>2, OrderedHead
  <2> QED
    BY <1>1, <2>1, <2>3 DEF Running
<1>17. StateKnown => StateKnown'
  BY <1>1, <1>10 DEF StateKnown
<1> QED
  BY <1>10, <1>11, <1>12, <1>13, <1>14, <1>15, <1>16, <1>17 DEF SvfInv

-----------------------------------------------------------------------------
(* Statements keep it: each leaves a plan that ends where it should. *)

LEMMA InvStatement ==
    ASSUME SvfInv, Reads, UNCHANGED <<line, state, prog, timer>>,
           priv' \in Privs, seen' \in Sights, priv'.verdict = priv.verdict,
           priv'.mismatch = priv.mismatch, seen'.differed = seen.differed,
           seen'.pulsing = seen.pulsing, Remembered',
           todo' \in Seq(TodoOps), Ordered(todo', priv'.run),
           \/ todo' = <<>> /\ seen'.at = seen.at
           \/ EndsAt(todo', seen'.at),
           RunStatesStay /\ priv.run # "TEST_LOGIC_RESET" =>
                priv'.run # "TEST_LOGIC_RESET",
           todo' # <<>> => Head(todo').op = "goto"
    PROVE  /\ SvfInv'
           /\ StateKnown => StateKnown'
<1>1. prog = <<>> /\ todo = <<>> /\ priv.reading
  BY DEF Reads
<1>2. Typed'
  BY DEF SvfInv, Typed
<1>3. CallsKnown'
  BY DEF SvfInv, CallsKnown
<1>4. Ordered(todo, priv.run)'
  BY DEF Ordered
<1>5. PlanEnds'
  <2>1. CASE todo' = <<>> /\ seen'.at = seen.at
    <3>1. seen.at # NoState => state = seen.at
      BY <1>1 DEF SvfInv, PlanEnds, EndsAt
    <3> QED
      BY <1>1, <2>1, <3>1 DEF PlanEnds
  <2>2. CASE EndsAt(todo', seen'.at)
    BY <2>2 DEF PlanEnds, EndsAt
  <2> QED
    BY <2>1, <2>2
<1>6. Finished'
  BY <1>1 DEF SvfInv, Finished
<1>7. RunStatesStay => Running'
  BY <1>1 DEF SvfInv, Running, Clocking
<1>8. StateKnown => StateKnown'
  BY DEF StateKnown
<1> QED
  BY <1>2, <1>3, <1>4, <1>5, <1>6, <1>7, <1>8 DEF SvfInv

(* Nothing to do is in order. *)
LEMMA OrderedEmpty == ASSUME NEW run PROVE Ordered(<<>>, run)
  BY DEF Ordered

(* What there is of a statement, by its name. *)
LEMMA StatementIs ==
    ASSUME NEW st \in Statements
    PROVE  /\ st.op = "endxr" => st.path \in Paths /\ st.state \in StableStates
           /\ st.op = "state" =>
                /\ st.path \in Seq(TapStates) /\ st.path # <<>>
                /\ Last(st.path) \in StableStates
           /\ st.op = "runtest" =>
                /\ st.run \in StableStates \cup {NoState}
                /\ st.end \in StableStates \cup {NoState}
                /\ st.count \in Nat /\ st.timed \in BOOLEAN
           /\ st.op = "sxr" =>
                /\ st.path \in Paths /\ st.len \in Nat /\ st.len > 0
                /\ st.tdi \in Seq(Bit) /\ st.tdo \in Seq(Bit) /\ st.mask \in Seq(Bit)
                /\ st.tdi = NotGiven \/ Len(st.tdi) = st.len
                /\ st.mask = NotGiven \/ Len(st.mask) = st.len
<1>1. /\ st \in Forms
      /\ st.op = "state" => Last(st.path) \in StableStates
      /\ st.op = "sxr" =>
            /\ st.tdi = NotGiven \/ Len(st.tdi) = st.len
            /\ st.mask = NotGiven \/ Len(st.mask) = st.len
  BY SvfAssumption
<1> QED
  BY <1>1 DEF Forms

(* ENDIR, ENDDR.                                                           *)
LEMMA InvEndXr ==
    ASSUME SvfInv, Reads, NEW st \in Statements, st.op = "endxr", EndXr(st)
    PROVE  /\ SvfInv'
           /\ StateKnown => StateKnown'
<1> DEFINE s == st.state
           p == st.path
<1>1. /\ UNCHANGED <<line, state, prog, timer, todo>>
      /\ priv' = [priv EXCEPT !.endxr[p] = s]
      /\ seen' = [seen EXCEPT !.endxr[p] = s]
  BY DEF EndXr, chainVars
<1>2. p \in Paths /\ s \in StableStates
  BY StatementIs
<1>3. priv \in Privs /\ seen \in Sights /\ priv.endxr = seen.endxr
  BY DEF SvfInv, Typed, Remembered
<1> HIDE DEF s, p
<1>4. /\ priv' \in Privs /\ priv'.verdict = priv.verdict /\ priv'.mismatch = priv.mismatch
      /\ priv'.run = priv.run /\ priv'.sxr = priv.sxr /\ priv'.reading = priv.reading
      /\ priv'.endxr = [priv.endxr EXCEPT ![p] = s]
  BY <1>1, <1>2, <1>3 DEF Privs
<1>5. /\ seen' \in Sights /\ seen'.at = seen.at /\ seen'.pulsing = seen.pulsing
      /\ seen'.differed = seen.differed
      /\ seen'.endxr = [seen.endxr EXCEPT ![p] = s]
  BY <1>1, <1>2, <1>3 DEF Sights
<1>6. Remembered'
  BY <1>3, <1>4, <1>5 DEF SvfInv, Remembered
<1>7. todo' = <<>> /\ todo' \in Seq(TodoOps)
  BY <1>1 DEF Reads
<1> QED
  BY <1>1, <1>4, <1>5, <1>6, <1>7, OrderedEmpty, InvStatement

(* STATE.                                                                  *)
LEMMA InvState ==
    ASSUME SvfInv, Reads, NEW st \in Statements, st.op = "state", State(st)
    PROVE  /\ SvfInv'
           /\ StateKnown => StateKnown'
<1> DEFINE path == st.path
           t == [i \in DOMAIN path |-> GotoOp(path[i])]
<1>1. /\ UNCHANGED <<line, state, prog, timer>>
      /\ priv' = [priv EXCEPT !.executed = TRUE]
      /\ seen' = [seen EXCEPT !.at = Last(path)]
      /\ todo' = t
  BY DEF State, chainVars
<1>2. /\ path \in Seq(TapStates) /\ path # <<>>
      /\ Last(path) \in StableStates
      /\ Len(path) \in Nat /\ Len(path) > 0 /\ Last(path) = path[Len(path)]
  <2>1. path \in Seq(TapStates) /\ path # <<>> /\ Last(path) \in StableStates
    BY StatementIs
  <2> HIDE DEF path
  <2>2. Len(path) \in Nat /\ Len(path) > 0
    BY <2>1, TailIs
  <2> QED
    BY <2>1, <2>2 DEF Last
<1>3. priv \in Privs /\ seen \in Sights
  BY DEF SvfInv, Typed
<1>4. /\ t \in Seq(TodoOps) /\ Len(t) = Len(path)
      /\ \A i \in 1 .. Len(path) : t[i] = GotoOp(path[i]) /\ t[i].op = "goto"
  <2> HIDE DEF path
  <2>1. \A i \in 1 .. Len(path) : path[i] \in TapStates
    BY <1>2, ElementOfSeq
  <2>2. \A s \in TapStates : GotoOp(s) \in TodoOps /\ GotoOp(s).op = "goto"
    BY DEF GotoOp, TodoOps, GotoOps
  <2>3. DOMAIN path = 1 .. Len(path)
    BY <1>2, LenProperties
  <2>4. t \in [1 .. Len(path) -> TodoOps]
    BY <2>1, <2>2, <2>3
  <2>5. t \in Seq(TodoOps) /\ Len(t) = Len(path)
    <3> HIDE DEF t
    <3>1. \E n \in Nat : t \in [1 .. n -> TodoOps]
      BY <1>2, <2>4
    <3>2. t \in Seq(TodoOps)
      BY <3>1, IsASeq
    <3>3. DOMAIN t = 1 .. Len(t) /\ Len(t) \in Nat
      BY <3>2, LenProperties
    <3>4. DOMAIN t = 1 .. Len(path)
      BY <2>4
    <3> QED
      BY <1>2, <3>2, <3>3, <3>4
  <2> QED
    BY <2>1, <2>2, <2>3, <2>5
<1> HIDE DEF t, path
<1>5. Ordered(t, priv.run)
  BY <1>4 DEF Ordered, Clocking
<1>6. EndsAt(t, Last(path))
  BY <1>2, <1>4 DEF EndsAt
<1>7. t # <<>> /\ Head(t).op = "goto"
  BY <1>2, <1>4, EmptySeq, TailIs
<1>8. /\ priv' \in Privs /\ priv'.verdict = priv.verdict /\ priv'.mismatch = priv.mismatch
      /\ priv'.run = priv.run /\ priv'.sxr = priv.sxr /\ priv'.reading = priv.reading
      /\ priv'.endxr = priv.endxr
  BY <1>1, <1>3 DEF Privs
<1>9. /\ seen' \in Sights /\ seen'.at = Last(path) /\ seen'.pulsing = seen.pulsing
      /\ seen'.differed = seen.differed /\ seen'.endxr = seen.endxr
  BY <1>1, <1>2, <1>3 DEF Sights
<1>10. Remembered'
  BY <1>8, <1>9 DEF SvfInv, Remembered
<1> QED
  BY <1>1, <1>4, <1>5, <1>6, <1>7, <1>8, <1>9, <1>10, InvStatement

(* What joined sequences hold. *)
LEMMA Joined ==
    ASSUME NEW S, NEW s \in Seq(S), NEW t \in Seq(S)
    PROVE  /\ s \o t \in Seq(S)
           /\ Len(s \o t) = Len(s) + Len(t)
           /\ \A i \in 1 .. Len(s) : (s \o t)[i] = s[i]
           /\ \A i \in 1 .. Len(t) : (s \o t)[Len(s) + i] = t[i]
<1>1. /\ s \o t \in Seq(S) /\ Len(s \o t) = Len(s) + Len(t)
      /\ \A i \in 1 .. Len(s) + Len(t) :
            (s \o t)[i] = IF i <= Len(s) THEN s[i] ELSE t[i - Len(s)]
      /\ Len(s) \in Nat /\ Len(t) \in Nat
  BY ConcatProperties, LenProperties
<1> DEFINE u == s \o t
<1> HIDE DEF u
<1>2. \A i \in 1 .. Len(s) : u[i] = s[i]
  BY <1>1 DEF u
<1>3. ASSUME NEW i \in 1 .. Len(t) PROVE u[Len(s) + i] = t[i]
  <2>1. Len(s) + i \in 1 .. Len(s) + Len(t) /\ ~(Len(s) + i <= Len(s))
        /\ Len(s) + i - Len(s) = i
    BY <1>1
  <2> QED
    BY <1>1, <2>1 DEF u
<1> QED
  BY <1>1, <1>2, <1>3 DEF u

(* The plan of a RUNTEST. *)
LEMMA RunTestPlan ==
    ASSUME NEW run \in StableStates, NEW end \in StableStates, NEW timed \in BOOLEAN,
           NEW count \in Nat,
           NEW t,
           t = <<GotoOp(run)>>
                \o (IF timed
                    THEN <<[op |-> "set_timer"], [op |-> "timed_clocks", n |-> count]>>
                    ELSE <<[op |-> "clocks", n |-> count]>>)
                \o <<GotoOp(end)>>
                \o (IF timed THEN <<[op |-> "stop_timer"]>> ELSE <<>>)
    PROVE  /\ t \in Seq(TodoOps) /\ t # <<>> /\ Head(t).op = "goto"
           /\ Ordered(t, run) /\ EndsAt(t, end)
<1> DEFINE a == GotoOp(run)
           b == [op |-> "set_timer"]
           c == [op |-> "timed_clocks", n |-> count]
           d == [op |-> "clocks", n |-> count]
           e == GotoOp(end)
           f == [op |-> "stop_timer"]
           S == TodoOps
<1>1. a \in S /\ b \in S /\ c \in S /\ d \in S /\ e \in S /\ f \in S
  <2>1. run \in TapStates /\ end \in TapStates
    BY DEF StableStates, TapStates
  <2>2. a \in GotoOps /\ e \in GotoOps
    BY <2>1 DEF GotoOp, GotoOps
  <2>3. b \in TimerOps /\ f \in TimerOps /\ c \in ClockingOps /\ d \in ClockingOps
    BY DEF TimerOps, ClockingOps
  <2> QED
    BY <2>2, <2>3 DEF TodoOps
<1>2. /\ a.op = "goto" /\ b.op = "set_timer" /\ c.op = "timed_clocks" /\ d.op = "clocks"
      /\ e.op = "goto" /\ f.op = "stop_timer"
  BY DEF GotoOp
<1>3. t = <<a>> \o (IF timed THEN <<b, c>> ELSE <<d>>) \o <<e>>
                \o (IF timed THEN <<f>> ELSE <<>>)
  OBVIOUS
<1>4. a = GotoOp(run) /\ e = GotoOp(end)
  OBVIOUS
<1> HIDE DEF a, b, c, d, e, f, S
<1>5. CASE timed
  <2> DEFINE s1 == <<a>>
             s2 == <<b, c>>
             s3 == <<e>>
             s4 == <<f>>
  <2>1. t = s1 \o s2 \o s3 \o s4
    BY <1>3, <1>5
  <2>2. /\ s1 \in Seq(S) /\ Len(s1) = 1 /\ s1[1] = a
        /\ s2 \in Seq(S) /\ Len(s2) = 2 /\ s2[1] = b /\ s2[2] = c
        /\ s3 \in Seq(S) /\ Len(s3) = 1 /\ s3[1] = e
        /\ s4 \in Seq(S) /\ Len(s4) = 1 /\ s4[1] = f
    BY <1>1
  <2> HIDE DEF s1, s2, s3, s4
  <2> DEFINE u == s1 \o s2
  <2>3. /\ u \in Seq(S) /\ Len(u) = 3 /\ u[1] = a /\ u[2] = b /\ u[3] = c
    <3>1. /\ u \in Seq(S) /\ Len(u) = 1 + 2
          /\ \A i \in 1 .. 1 : u[i] = s1[i]
          /\ \A i \in 1 .. 2 : u[1 + i] = s2[i]
      <4>1. s1 \in Seq(S) /\ s2 \in Seq(S)
        BY <2>2
      <4>2. /\ u \in Seq(S) /\ Len(u) = Len(s1) + Len(s2)
            /\ \A i \in 1 .. Len(s1) : u[i] = s1[i]
            /\ \A i \in 1 .. Len(s2) : u[Len(s1) + i] = s2[i]
        BY <4>1, Joined
      <4> HIDE DEF u
      <4> QED
        BY <4>2, <2>2
    <3> HIDE DEF u
    <3> QED
      BY <2>2, <3>1
  <2> HIDE DEF u
  <2> DEFINE v == u \o s3
  <2>4. /\ v \in Seq(S) /\ Len(v) = 4 /\ v[1] = a /\ v[2] = b /\ v[3] = c /\ v[4] = e
    <3>1. /\ v \in Seq(S) /\ Len(v) = 3 + 1
          /\ \A i \in 1 .. 3 : v[i] = u[i]
          /\ \A i \in 1 .. 1 : v[3 + i] = s3[i]
      <4>1. u \in Seq(S) /\ s3 \in Seq(S)
        BY <2>2, <2>3
      <4>2. /\ v \in Seq(S) /\ Len(v) = Len(u) + Len(s3)
            /\ \A i \in 1 .. Len(u) : v[i] = u[i]
            /\ \A i \in 1 .. Len(s3) : v[Len(u) + i] = s3[i]
        BY <4>1, Joined
      <4> HIDE DEF v
      <4> QED
        BY <4>2, <2>2, <2>3
    <3> HIDE DEF v
    <3> QED
      BY <2>2, <2>3, <3>1
  <2> HIDE DEF v
  <2>5. /\ t \in Seq(S) /\ Len(t) = 5
        /\ t[1] = a /\ t[2] = b /\ t[3] = c /\ t[4] = e /\ t[5] = f
    <3>1. t = v \o s4
      BY <2>1 DEF v, u
    <3>2. /\ t \in Seq(S) /\ Len(t) = 4 + 1
          /\ \A i \in 1 .. 4 : t[i] = v[i]
          /\ \A i \in 1 .. 1 : t[4 + i] = s4[i]
      <4>1. v \in Seq(S) /\ s4 \in Seq(S)
        BY <2>2, <2>4
      <4> DEFINE w == v \o s4
      <4>2. /\ w \in Seq(S) /\ Len(w) = Len(v) + Len(s4)
            /\ \A i \in 1 .. Len(v) : w[i] = v[i]
            /\ \A i \in 1 .. Len(s4) : w[Len(v) + i] = s4[i]
        BY <4>1, Joined
      <4>3. w = t
        BY <3>1
      <4> HIDE DEF w
      <4> QED
        BY <4>2, <4>3, <2>2, <2>4
    <3> QED
      BY <2>2, <2>4, <3>2
  <2>6. t # <<>> /\ Head(t) = a
    BY <2>5, EmptySeq, TailIs
  <2>7. Ordered(t, run)
    BY <1>2, <1>4, <2>5 DEF Ordered, Clocking
  <2>8. EndsAt(t, end)
    <3>1. 4 \in 1 .. Len(t) /\ t[4] = GotoOp(end)
      BY <1>4, <2>5
    <3>2. \A j \in 4 + 1 .. Len(t) : t[j].op \in Trailing
      BY <1>2, <2>5 DEF Trailing
    <3> QED
      BY <3>1, <3>2 DEF EndsAt
  <2> QED
    BY <1>2, <2>5, <2>6, <2>7, <2>8 DEF S
<1>6. CASE ~timed
  <2> DEFINE s1 == <<a>>
             s2 == <<d>>
             s3 == <<e>>
             s4 == <<>>
  <2>1. t = s1 \o s2 \o s3 \o s4
    BY <1>3, <1>6
  <2>2. /\ s1 \in Seq(S) /\ Len(s1) = 1 /\ s1[1] = a
        /\ s2 \in Seq(S) /\ Len(s2) = 1 /\ s2[1] = d
        /\ s3 \in Seq(S) /\ Len(s3) = 1 /\ s3[1] = e
        /\ s4 \in Seq(S) /\ Len(s4) = 0
    BY <1>1
  <2> HIDE DEF s1, s2, s3, s4
  <2> DEFINE u == s1 \o s2
  <2>3. /\ u \in Seq(S) /\ Len(u) = 2 /\ u[1] = a /\ u[2] = d
    <3>1. /\ u \in Seq(S) /\ Len(u) = 1 + 1
          /\ \A i \in 1 .. 1 : u[i] = s1[i]
          /\ \A i \in 1 .. 1 : u[1 + i] = s2[i]
      <4>1. s1 \in Seq(S) /\ s2 \in Seq(S)
        BY <2>2
      <4>2. /\ u \in Seq(S) /\ Len(u) = Len(s1) + Len(s2)
            /\ \A i \in 1 .. Len(s1) : u[i] = s1[i]
            /\ \A i \in 1 .. Len(s2) : u[Len(s1) + i] = s2[i]
        BY <4>1, Joined
      <4> HIDE DEF u
      <4> QED
        BY <4>2, <2>2
    <3> HIDE DEF u
    <3> QED
      BY <2>2, <3>1
  <2> HIDE DEF u
  <2> DEFINE v == u \o s3
  <2>4. /\ v \in Seq(S) /\ Len(v) = 3 /\ v[1] = a /\ v[2] = d /\ v[3] = e
    <3>1. /\ v \in Seq(S) /\ Len(v) = 2 + 1
          /\ \A i \in 1 .. 2 : v[i] = u[i]
          /\ \A i \in 1 .. 1 : v[2 + i] = s3[i]
      <4>1. u \in Seq(S) /\ s3 \in Seq(S)
        BY <2>2, <2>3
      <4>2. /\ v \in Seq(S) /\ Len(v) = Len(u) + Len(s3)
            /\ \A i \in 1 .. Len(u) : v[i] = u[i]
            /\ \A i \in 1 .. Len(s3) : v[Len(u) + i] = s3[i]
        BY <4>1, Joined
      <4> HIDE DEF v
      <4> QED
        BY <4>2, <2>2, <2>3
    <3> HIDE DEF v
    <3> QED
      BY <2>2, <2>3, <3>1
  <2> HIDE DEF v
  <2>5. /\ t \in Seq(S) /\ Len(t) = 3 /\ t[1] = a /\ t[2] = d /\ t[3] = e
    <3>1. t = v \o s4
      BY <2>1 DEF v, u
    <3>2. /\ t \in Seq(S) /\ Len(t) = 3 + 0
          /\ \A i \in 1 .. 3 : t[i] = v[i]
      <4>1. v \in Seq(S) /\ s4 \in Seq(S)
        BY <2>2, <2>4
      <4> DEFINE w == v \o s4
      <4>2. /\ w \in Seq(S) /\ Len(w) = Len(v) + Len(s4)
            /\ \A i \in 1 .. Len(v) : w[i] = v[i]
            /\ \A i \in 1 .. Len(s4) : w[Len(v) + i] = s4[i]
        BY <4>1, Joined
      <4>3. w = t
        BY <3>1
      <4> HIDE DEF w
      <4> QED
        BY <4>2, <4>3, <2>2, <2>4
    <3> QED
      BY <2>4, <3>2
  <2>6. t # <<>> /\ Head(t) = a
    BY <2>5, EmptySeq, TailIs
  <2>7. Ordered(t, run)
    BY <1>2, <1>4, <2>5 DEF Ordered, Clocking
  <2>8. EndsAt(t, end)
    <3>1. 3 \in 1 .. Len(t) /\ t[3] = GotoOp(end)
      BY <1>4, <2>5
    <3>2. \A j \in 3 + 1 .. Len(t) : t[j].op \in Trailing
      BY <2>5
    <3> QED
      BY <3>1, <3>2 DEF EndsAt
  <2> QED
    BY <1>2, <2>5, <2>6, <2>7, <2>8 DEF S
<1> QED
  BY <1>5, <1>6

(* RUNTEST.                                                                *)
LEMMA InvRunTest ==
    ASSUME SvfInv, Reads, NEW st \in Statements, st.op = "runtest", RunTest(st)
    PROVE  /\ SvfInv'
           /\ StateKnown => StateKnown'
<1> DEFINE run == ElseState(st.run, priv.run)
           end == RunTestEnd(st)
<1>1. /\ UNCHANGED <<line, state, prog, timer>>
      /\ priv' = [priv EXCEPT !.run = run, !.end = end]
      /\ seen' = [seen EXCEPT !.alarmed = FALSE, !.at = end]
      /\ todo' = <<GotoOp(run)>>
                \o (IF st.timed
                    THEN <<[op |-> "set_timer"], [op |-> "timed_clocks", n |-> st.count]>>
                    ELSE <<[op |-> "clocks", n |-> st.count]>>)
                \o <<GotoOp(end)>>
                \o (IF st.timed THEN <<[op |-> "stop_timer"]>> ELSE <<>>)
  BY DEF RunTest, RunTestEnd, chainVars
<1>2. priv \in Privs /\ seen \in Sights
  BY DEF SvfInv, Typed
<1>3. /\ st.run \in StableStates \cup {NoState} /\ st.end \in StableStates \cup {NoState}
      /\ st.count \in Nat /\ st.timed \in BOOLEAN
  BY StatementIs
<1>4. run \in StableStates /\ end \in StableStates
  BY <1>2, <1>3 DEF Privs, RunTestEnd, ElseState
<1>5. RunStatesStay /\ priv.run # "TEST_LOGIC_RESET" => run # "TEST_LOGIC_RESET"
  BY DEF RunStatesStay, ElseState
<1> HIDE DEF run, end
<1>6. /\ todo' \in Seq(TodoOps) /\ Head(todo').op = "goto"
      /\ Ordered(todo', run) /\ EndsAt(todo', end)
  BY <1>1, <1>3, <1>4, RunTestPlan
<1>7. /\ priv' \in Privs /\ priv'.verdict = priv.verdict /\ priv'.mismatch = priv.mismatch
      /\ priv'.run = run /\ priv'.sxr = priv.sxr /\ priv'.reading = priv.reading
      /\ priv'.endxr = priv.endxr
  BY <1>1, <1>2, <1>4 DEF Privs
<1>8. /\ seen' \in Sights /\ seen'.at = end /\ seen'.pulsing = seen.pulsing
      /\ seen'.differed = seen.differed /\ seen'.endxr = seen.endxr
  BY <1>1, <1>2, <1>4 DEF Sights
<1>9. Remembered'
  BY <1>7, <1>8 DEF SvfInv, Remembered
<1> QED
  BY <1>1, <1>5, <1>6, <1>7, <1>8, <1>9, InvStatement

(* A RUNTEST the player refuses.                                           *)
LEMMA InvRunTestRefused ==
    ASSUME SvfInv, Reads, NEW st \in Statements, RunTestRefused(st)
    PROVE  /\ SvfInv'
           /\ StateKnown => StateKnown'
<1>1. /\ UNCHANGED <<line, state, prog, timer, todo, seen>>
      /\ priv' = [priv EXCEPT !.reading = FALSE]
  BY DEF RunTestRefused, chainVars
<1>2. priv \in Privs /\ seen \in Sights
  BY DEF SvfInv, Typed
<1>3. /\ priv' \in Privs /\ priv'.verdict = priv.verdict /\ priv'.mismatch = priv.mismatch
      /\ priv'.run = priv.run /\ priv'.sxr = priv.sxr /\ priv'.reading = FALSE
      /\ priv'.endxr = priv.endxr
  BY <1>1, <1>2 DEF Privs
<1>4. Remembered'
  BY <1>1, <1>3 DEF SvfInv, Remembered
<1>5. todo' = <<>> /\ todo' \in Seq(TodoOps)
  BY <1>1 DEF Reads
<1> QED
  BY <1>1, <1>2, <1>3, <1>4, <1>5, OrderedEmpty, InvStatement
(* What a scan leaves remembered has the length of the scan, or the player *)
(* stops.                                                                  *)
LEMMA ScanParamsFit ==
    ASSUME NEW st \in Statements, st.op = "sxr", NEW old \in Numbers,
           Len(old.mask) = old.number, Len(old.tdi) = old.number
    PROVE  /\ ScanParams(old, st) \in Numbers
           /\ ScanParams(old, st).number = st.len
           /\ Len(ScanParams(old, st).mask) = st.len
           /\ ~(st.tdi = NotGiven /\ old.number # st.len) =>
                Len(ScanParams(old, st).tdi) = st.len
<1> DEFINE len == st.len
           all == AllCare(len)
           tdi == Else(st.tdi, old.tdi)
           mask == IF st.mask = NotGiven /\ old.number # len THEN all
                   ELSE Else(st.mask, old.mask)
<1>1. /\ len \in Nat
      /\ st.tdi \in Seq(Bit) /\ st.mask \in Seq(Bit)
      /\ st.tdi = NotGiven \/ Len(st.tdi) = len
      /\ st.mask = NotGiven \/ Len(st.mask) = len
  BY StatementIs
<1>2. old.tdi \in Seq(Bit) /\ old.mask \in Seq(Bit) /\ old.number \in Nat
  BY DEF Numbers
<1>3. all \in Seq(Bit) /\ Len(all) = len
  <2>1. all \in [1 .. len -> Bit] /\ DOMAIN all = 1 .. len
    BY DEF AllCare, Bit
  <2> HIDE DEF all
  <2>2. all \in Seq(Bit)
    BY <1>1, <2>1, IsASeq
  <2>3. DOMAIN all = 1 .. Len(all) /\ Len(all) \in Nat
    BY <2>2, LenProperties
  <2> QED
    BY <1>1, <2>1, <2>2, <2>3
<1>4. ScanParams(old, st) = [number |-> len, tdi |-> tdi, mask |-> mask]
  BY DEF ScanParams
<1>5. tdi \in Seq(Bit) /\ (~(st.tdi = NotGiven /\ old.number # len) => Len(tdi) = len)
  BY <1>1, <1>2 DEF Else
<1>6. mask \in Seq(Bit) /\ Len(mask) = len
  <2> HIDE DEF all, len
  <2> QED
    BY <1>1, <1>2, <1>3 DEF Else
<1> HIDE DEF len, tdi, mask
<1>7. /\ ScanParams(old, st) \in Numbers
      /\ ScanParams(old, st).number = len
      /\ ScanParams(old, st).tdi = tdi /\ ScanParams(old, st).mask = mask
  BY <1>1, <1>4, <1>5, <1>6 DEF Numbers
<1> QED
  BY <1>5, <1>6, <1>7 DEF len

(* The plan of a scan. *)
LEMMA ScanPlan ==
    ASSUME NEW a \in TodoOps, a.op = "goto", NEW b \in ShiftOps,
           NEW end \in StableStates, NEW cs \in Seq(CompareOps), Len(cs) \in {0, 1},
           NEW t, t = <<a, b, GotoOp(end)>> \o cs, NEW run
    PROVE  /\ t \in Seq(TodoOps) /\ t # <<>> /\ Head(t).op = "goto"
           /\ Ordered(t, run) /\ EndsAt(t, end)
<1> DEFINE c == GotoOp(end)
           s == <<a, b, c>>
           S == TodoOps
<1>1. a \in S /\ b \in S /\ c \in S /\ CompareOps \subseteq S
  <2>1. c \in GotoOps
    BY DEF GotoOp, GotoOps, StableStates, TapStates
  <2> QED
    BY <2>1 DEF TodoOps
<1>2. /\ a.op = "goto" /\ b.op = "shift" /\ c.op = "goto"
      /\ \A e \in CompareOps : e.op = "compare"
  BY DEF GotoOp, ShiftOps, CompareOps
<1>3. c = GotoOp(end) /\ t = s \o cs
  OBVIOUS
<1> HIDE DEF c, S
<1>4. s \in Seq(S) /\ Len(s) = 3 /\ s[1] = a /\ s[2] = b /\ s[3] = c
  BY <1>1
<1> HIDE DEF s
<1>5. cs \in Seq(S) /\ \A i \in 1 .. Len(cs) : cs[i] \in CompareOps
  BY <1>1, SeqMonotonic, ElementOfSeq
<1>6. /\ t \in Seq(S) /\ Len(t) = Len(s) + Len(cs)
      /\ \A i \in 1 .. Len(s) : t[i] = s[i]
      /\ \A i \in 1 .. Len(cs) : t[Len(s) + i] = cs[i]
  BY <1>3, <1>4, <1>5, Joined
<1>7. /\ t \in Seq(S) /\ Len(t) \in {3, 4} /\ t[1] = a /\ t[2] = b /\ t[3] = c
      /\ Len(t) = 4 => t[4].op = "compare"
  <2>1. Len(t) = 3 + Len(cs) /\ Len(t) \in {3, 4}
    BY <1>4, <1>6
  <2>2. t[1] = a /\ t[2] = b /\ t[3] = c
    BY <1>4, <1>6
  <2>3. ASSUME Len(t) = 4 PROVE t[4].op = "compare"
    <3>1. Len(cs) = 1
      BY <2>1, <2>3
    <3>2. t[3 + 1] = cs[1] /\ cs[1] \in CompareOps
      BY <1>4, <1>5, <1>6, <3>1
    <3>3. t[4] = t[3 + 1]
      OBVIOUS
    <3> QED
      BY <1>2, <3>2, <3>3
  <2> QED
    BY <1>6, <2>1, <2>2, <2>3
<1>8. t # <<>> /\ Head(t) = a
  BY <1>7, EmptySeq, TailIs
<1>9. Ordered(t, run)
  BY <1>2, <1>7 DEF Ordered, Clocking
<1>10. EndsAt(t, end)
  <2>1. 3 \in 1 .. Len(t) /\ t[3] = GotoOp(end)
    BY <1>3, <1>7
  <2>2. \A j \in 3 + 1 .. Len(t) : t[j].op \in Trailing
    BY <1>7 DEF Trailing
  <2> QED
    BY <2>1, <2>2 DEF EndsAt
<1> QED
  BY <1>2, <1>7, <1>8, <1>9, <1>10 DEF S

(* SIR, SDR.                                                               *)
LEMMA InvScan ==
    ASSUME SvfInv, Reads, NEW st \in Statements, st.op = "sxr", Scan(st)
    PROVE  /\ SvfInv'
           /\ StateKnown => StateKnown'
<1> DEFINE p == st.path
           len == st.len
           params == ScanParams(priv.sxr[p], st)
           a == GotoOp(ShiftOf(p))
           b == [op |-> "shift", path |-> p, in |-> params.tdi,
                 outlen |-> IF st.tdo = NotGiven THEN Chain!NoOut ELSE len]
           end == priv.endxr[p]
           cs == IF st.tdo = NotGiven THEN <<>>
                 ELSE <<[op |-> "compare", tdo |-> st.tdo, mask |-> params.mask]>>
           refused == ScanRefused(st)
<1>1. /\ UNCHANGED <<line, state, prog, timer>>
      /\ priv' = [priv EXCEPT !.sxr[p] = params, !.reading = ~refused]
      /\ IF refused THEN UNCHANGED <<todo, seen>>
         ELSE /\ todo' = <<a, b, GotoOp(end)>> \o cs
              /\ seen' = [seen EXCEPT !.at = seen.endxr[p]]
  BY DEF Scan, chainVars
<1>2. priv \in Privs /\ seen \in Sights /\ Remembered /\ priv.reading /\ todo = <<>>
  BY DEF SvfInv, Typed, Reads
<1>3. /\ p \in Paths /\ len \in Nat /\ len > 0 /\ st.tdo \in Seq(Bit)
  BY StatementIs
<1>4. /\ priv.sxr[p] \in Numbers
      /\ Len(priv.sxr[p].mask) = priv.sxr[p].number
      /\ Len(priv.sxr[p].tdi) = priv.sxr[p].number
      /\ end \in StableStates /\ end = seen.endxr[p]
  BY <1>2, <1>3 DEF Privs, Remembered
<1>5. /\ params \in Numbers /\ params.number = len /\ Len(params.mask) = len
      /\ ~refused => Len(params.tdi) = len
  BY <1>4, ScanParamsFit DEF ScanRefused
<1>6. a \in TodoOps /\ a.op = "goto"
  BY DEF GotoOp, TodoOps, GotoOps, ShiftOf, TapStates
<1>7. ASSUME ~refused PROVE b \in ShiftOps
  <2>1. params.tdi \in Seq(Bit) /\ params.tdi # <<>>
    BY <1>3, <1>5, <1>7, EmptySeq DEF Numbers
  <2>2. b.outlen \in Nat
    BY <1>3 DEF Chain!NoOut
  <2> HIDE DEF params
  <2> QED
    BY <1>3, <2>1, <2>2 DEF ShiftOps
<1>8. cs \in Seq(CompareOps) /\ Len(cs) \in {0, 1}
  <2>1. [op |-> "compare", tdo |-> st.tdo, mask |-> params.mask] \in CompareOps
    BY <1>3, <1>5 DEF CompareOps, Numbers
  <2> QED
    BY <2>1
<1> HIDE DEF p, len, params, a, b, end, cs, refused
<1>9. /\ priv' \in Privs /\ priv'.verdict = priv.verdict /\ priv'.mismatch = priv.mismatch
      /\ priv'.run = priv.run /\ priv'.sxr = [priv.sxr EXCEPT ![p] = params]
      /\ priv'.reading = ~refused /\ priv'.endxr = priv.endxr
  <2>1. (~refused) \in BOOLEAN
    <3>1. CASE refused
      BY <3>1
    <3>2. CASE ~refused
      BY <3>2
    <3> QED
      BY <3>1, <3>2
  <2>2. [priv.sxr EXCEPT ![p] = params] \in [Paths -> Numbers]
    BY <1>2, <1>3, <1>5 DEF Privs
  <2>3. priv' = [[priv EXCEPT !.sxr = [priv.sxr EXCEPT ![p] = params]]
                    EXCEPT !.reading = ~refused]
    BY <1>1, <1>2 DEF Privs
  <2> QED
    BY <1>2, <2>1, <2>2, <2>3 DEF Privs
<1>10. /\ seen' \in Sights /\ seen'.pulsing = seen.pulsing
       /\ seen'.differed = seen.differed /\ seen'.endxr = seen.endxr
       /\ seen'.at = IF refused THEN seen.at ELSE end
  BY <1>1, <1>2, <1>4 DEF Sights
<1>11. Remembered'
  <2>1. ASSUME NEW q \in Paths
        PROVE  /\ Len(priv'.sxr[q].mask) = priv'.sxr[q].number
               /\ priv'.reading => Len(priv'.sxr[q].tdi) = priv'.sxr[q].number
    <3>1. CASE q = p
      <4>1. priv'.sxr[q] = params
        BY <1>2, <1>3, <1>9, <3>1 DEF Privs
      <4> QED
        BY <1>5, <1>9, <4>1
    <3>2. CASE q # p
      <4>1. priv'.sxr[q] = priv.sxr[q]
        BY <1>2, <1>9, <3>2 DEF Privs
      <4> QED
        BY <1>2, <4>1 DEF Remembered
    <3> QED
      BY <3>1, <3>2
  <2> QED
    BY <1>2, <1>9, <1>10, <2>1 DEF Remembered
<1>12. CASE refused
  <2>1. todo' = <<>> /\ todo' \in Seq(TodoOps) /\ seen'.at = seen.at
    BY <1>1, <1>2, <1>10, <1>12
  <2> QED
    BY <1>1, <1>9, <1>10, <1>11, <2>1, OrderedEmpty, InvStatement
<1>13. CASE ~refused
  <2>1. todo' = <<a, b, GotoOp(end)>> \o cs /\ b \in ShiftOps
    BY <1>1, <1>7, <1>13
  <2>2. /\ todo' \in Seq(TodoOps) /\ Head(todo').op = "goto"
        /\ Ordered(todo', priv'.run) /\ EndsAt(todo', end)
    BY <1>4, <1>6, <1>8, <2>1, ScanPlan
  <2>3. EndsAt(todo', seen'.at)
    BY <1>10, <1>13, <2>2
  <2> QED
    BY <1>1, <1>9, <1>10, <1>11, <2>2, <2>3, InvStatement
<1> QED
  BY <1>12, <1>13

(* TRST: a level of the signal is for the cable only, so the tracked state *)
(* is right afterwards unless the controllers are held in reset.           *)
LEMMA InvTrst ==
    ASSUME SvfInv, Reads, NEW st \in Statements, Trst(st)
    PROVE  /\ SvfInv'
           /\ StateKnown /\ ~HeldInReset(line)' => StateKnown'
           /\ st.mode \notin {"ON", "OFF"} => (StateKnown => StateKnown') /\ line' = line
<1>1. /\ prog' = prog /\ state' = state /\ todo' = todo /\ timer' = timer
  BY DEF Trst, chainVars, Chain!C!Do
<1>2. priv \in Privs /\ seen \in Sights /\ line \in CP!Lines /\ todo = <<>> /\ prog = <<>>
      /\ priv.reading
  BY DEF SvfInv, Typed, Reads
<1>3. todo' = <<>> /\ todo' \in Seq(TodoOps)
  BY <1>1, <1>2
<1>4. CASE /\ UNCHANGED <<line, seen>>
           /\ \/ priv' = priv
              \/ priv' = [priv EXCEPT !.reading = FALSE]
              \/ priv' = [priv EXCEPT !.absent = TRUE, !.reading = ~priv.executed]
  <2>1. /\ priv' \in Privs /\ priv'.verdict = priv.verdict
        /\ priv'.mismatch = priv.mismatch /\ priv'.run = priv.run /\ priv'.sxr = priv.sxr
        /\ priv'.endxr = priv.endxr
    BY <1>2, <1>4 DEF Privs
  <2>2. Remembered'
    BY <1>2, <1>4, <2>1 DEF SvfInv, Remembered
  <2>3. seen' \in Sights /\ seen' = seen
    BY <1>2, <1>4
  <2> QED
    BY <1>1, <1>3, <1>4, <2>1, <2>2, <2>3, OrderedEmpty, InvStatement
<1>5. CASE /\ st.mode \in {"ON", "OFF"}
           /\ Chain!C!Do([action |-> "SET_SIGNAL", mask |-> {"TRST"},
                          val |-> IF st.mode = "OFF" THEN {"TRST"} ELSE {}])
           /\ seen' = [seen EXCEPT !.at = NoState]
           /\ priv' = priv
  <2> DEFINE val == IF st.mode = "OFF" THEN {"TRST"} ELSE {}
             act == [action |-> "SET_SIGNAL", mask |-> {"TRST"}, val |-> val]
             set == [line EXCEPT !.high = (@ \ {"TRST"}) \cup (val \cap {"TRST"})]
  <2>1. line' = [set EXCEPT !.tap = IF HeldInReset(set) THEN "TEST_LOGIC_RESET" ELSE @]
    <3>1. line' = Chain!C!Effect(act, line)
      BY <1>5 DEF Chain!C!Do
    <3>2. Chain!C!Effect(act, line) = Chain!C!DriverSetSignal(line, {"TRST"}, val)
      BY DEF Chain!C!Effect
    <3> QED
      BY <3>1, <3>2 DEF Chain!C!DriverSetSignal, Chain!C!HeldInReset, HeldInReset
  <2>2. val \subseteq {"TRST"}
    OBVIOUS
  <2> HIDE DEF val
  <2>3. /\ set \in CP!Lines /\ set.tap = line.tap
    BY <1>2, <2>2 DEF CP!Lines, CP!Signals
  <2> HIDE DEF set
  <2>4. /\ line' \in CP!Lines
        /\ line'.tap = IF HeldInReset(set) THEN "TEST_LOGIC_RESET" ELSE line.tap
        /\ HeldInReset(line') <=> HeldInReset(set)
    <3>1. "TEST_LOGIC_RESET" \in CP!TapStates
      BY DEF CP!TapStates
    <3> QED
      BY <2>1, <2>3, <3>1 DEF CP!Lines, HeldInReset
  <2>5. /\ seen' \in Sights /\ seen'.at = NoState /\ seen'.pulsing = seen.pulsing
        /\ seen'.differed = seen.differed /\ seen'.endxr = seen.endxr
    BY <1>2, <1>5 DEF Sights
  <2>6. Typed'
    BY <1>1, <1>3, <1>5, <2>4, <2>5 DEF SvfInv, Typed
  <2>7. CallsKnown'
    BY <1>1 DEF SvfInv, CallsKnown
  <2>8. Remembered' /\ Ordered(todo, priv.run)' /\ PlanEnds'
    BY <1>3, <1>5, <2>5 DEF SvfInv, Remembered, Ordered, PlanEnds
  <2>9. Finished' /\ (RunStatesStay => Running')
    BY <1>1, <1>2, <1>5, <2>5 DEF SvfInv, Finished, Running
  <2>10. StateKnown /\ ~HeldInReset(line)' => StateKnown'
    BY <1>1, <1>2, <2>4 DEF StateKnown, AfterFiveClocks
  <2> QED
    BY <1>5, <2>6, <2>7, <2>8, <2>9, <2>10 DEF SvfInv
<1> QED
  BY <1>4, <1>5 DEF Trst, chainVars

(* Every statement.                                                        *)
LEMMA InvEveryStatement ==
    ASSUME SvfInv, NEW st \in Statements, Statement(st)
    PROVE  /\ SvfInv'
           /\ StateKnown /\ ~HeldInReset(line)' => StateKnown'
           /\ ~(st.op = "trst" /\ st.mode \in {"ON", "OFF"}) =>
                (StateKnown => StateKnown') /\ line' = line
<1>1. Reads
  BY DEF Statement
<1>2. CASE st.op = "endxr" /\ EndXr(st)
  BY <1>1, <1>2, InvEndXr DEF EndXr, chainVars
<1>3. CASE st.op = "state" /\ State(st)
  BY <1>1, <1>3, InvState DEF State, chainVars
<1>4. CASE st.op = "runtest" /\ RunTest(st)
  BY <1>1, <1>4, InvRunTest DEF RunTest, chainVars
<1>5. CASE st.op = "runtest" /\ RunTestRefused(st)
  BY <1>1, <1>5, InvRunTestRefused DEF RunTestRefused, chainVars
<1>6. CASE st.op = "sxr" /\ Scan(st)
  BY <1>1, <1>6, InvScan DEF Scan, chainVars
<1>7. CASE st.op = "trst" /\ Trst(st)
  BY <1>1, <1>7, InvTrst
<1> QED
  BY <1>2, <1>3, <1>4, <1>5, <1>6, <1>7 DEF Statement

-----------------------------------------------------------------------------
(* The end of a file, and the next one. *)

LEMMA InvEndOfFile ==
    ASSUME SvfInv, EndOfFile
    PROVE  /\ SvfInv'
           /\ StateKnown => StateKnown'
<1>1. /\ prog = <<>> /\ todo = <<>> /\ priv.verdict = "none"
      /\ UNCHANGED <<line, state, prog, todo, timer, seen>>
      /\ priv' = [priv EXCEPT !.reading = FALSE,
                    !.verdict = IF priv.mismatch THEN "mismatches" ELSE "matched"]
  BY DEF EndOfFile, chainVars
<1>2. priv \in Privs
  BY DEF SvfInv, Typed
<1>3. /\ priv' \in Privs /\ priv'.mismatch = priv.mismatch /\ priv'.run = priv.run
      /\ priv'.sxr = priv.sxr /\ priv'.endxr = priv.endxr /\ ~priv'.reading
      /\ priv'.verdict = IF priv.mismatch THEN "mismatches" ELSE "matched"
  BY <1>1, <1>2 DEF Privs
<1>4. Typed' /\ CallsKnown'
  BY <1>1, <1>3 DEF SvfInv, Typed, CallsKnown
<1>5. Remembered' /\ Ordered(todo, priv.run)'
  BY <1>1, <1>3 DEF SvfInv, Remembered, Ordered
<1>6. PlanEnds' /\ Finished' /\ (RunStatesStay => Running')
  BY <1>1, <1>3 DEF SvfInv, PlanEnds, EndsAt, Finished, Running
<1>7. StateKnown => StateKnown'
  BY <1>1 DEF StateKnown
<1> QED
  BY <1>4, <1>5, <1>6, <1>7 DEF SvfInv

LEMMA InvNextFile ==
    ASSUME SvfInv, NextFile
    PROVE  /\ SvfInv'
           /\ StateKnown => StateKnown'
<1>1. /\ priv.verdict # "none" /\ UNCHANGED <<line, state, prog, todo, timer>>
      /\ priv' = NewFile /\ seen' = NothingSeen
  BY DEF NextFile, chainVars
<1>2. prog = <<>> /\ todo = <<>>
  BY <1>1 DEF SvfInv, Finished
<1>3. priv' \in Privs
  <2>1. NoParams \in Numbers
    BY DEF NoParams, Numbers
  <2>2. NewFile.sxr \in [Paths -> Numbers] /\ NewFile.endxr \in [Paths -> StableStates]
    BY <2>1 DEF NewFile, StableStates
  <2> QED
    BY <1>1, <2>2 DEF NewFile, Privs, StableStates
<1>4. seen' \in Sights
  BY <1>1 DEF NothingSeen, Sights, StableStates
<1>5. Typed' /\ CallsKnown'
  BY <1>1, <1>3, <1>4 DEF SvfInv, Typed, CallsKnown
<1>6. Remembered'
  BY <1>1 DEF Remembered, NewFile, NothingSeen, NoParams
<1>7. Ordered(todo, priv.run)' /\ PlanEnds'
  BY <1>1, <1>2 DEF Ordered, PlanEnds, NothingSeen
<1>8. Finished' /\ (RunStatesStay => Running')
  BY <1>1, <1>2 DEF Finished, Running, NewFile, NothingSeen
<1>9. StateKnown => StateKnown'
  BY <1>1 DEF StateKnown
<1> QED
  BY <1>5, <1>6, <1>7, <1>8, <1>9 DEF SvfInv

(* The alarm says only that time is over.                                  *)
LEMMA InvAlarm ==
    ASSUME SvfInv, Alarm
    PROVE  /\ SvfInv'
           /\ StateKnown => StateKnown'
<1>1. /\ UNCHANGED <<line, state, prog, priv, todo>> /\ timer' = "off"
      /\ seen' = [seen EXCEPT !.alarmed = TRUE]
  BY DEF Alarm, chainVars
<1>2. seen \in Sights
  BY DEF SvfInv, Typed
<1>3. /\ seen' \in Sights /\ seen'.at = seen.at /\ seen'.endxr = seen.endxr
      /\ seen'.pulsing = seen.pulsing /\ seen'.differed = seen.differed
  BY <1>1, <1>2 DEF Sights
<1>4. Typed' /\ CallsKnown'
  BY <1>1, <1>3 DEF SvfInv, Typed, CallsKnown
<1>5. Remembered' /\ Ordered(todo, priv.run)' /\ PlanEnds'
  BY <1>1, <1>3 DEF SvfInv, Remembered, Ordered, PlanEnds, EndsAt
<1>6. Finished' /\ (RunStatesStay => Running')
  BY <1>1, <1>3 DEF SvfInv, Finished, Running, InRun
<1>7. StateKnown => StateKnown'
  BY <1>1 DEF StateKnown
<1> QED
  BY <1>4, <1>5, <1>6, <1>7 DEF SvfInv

-----------------------------------------------------------------------------
(* What is proved. *)

(* No statement gives TRST a level.                                        *)
LeavesTrst == \A st \in Statements : st.op = "trst" => st.mode \notin {"ON", "OFF"}

LEMMA InvNext ==
    ASSUME SvfInv, [Next]_vars
    PROVE  /\ SvfInv'
           /\ StateKnown /\ ~HeldInReset(line) /\ ~HeldInReset(line)' => StateKnown'
           /\ LeavesTrst /\ (HeldInReset(line) \/ StateKnown) =>
                (HeldInReset(line) \/ StateKnown)'
<1>1. ASSUME NEW st \in Statements, Statement(st)
      PROVE  /\ SvfInv'
             /\ StateKnown /\ ~HeldInReset(line)' => StateKnown'
             /\ LeavesTrst => (StateKnown => StateKnown') /\ line' = line
  BY <1>1, InvEveryStatement DEF LeavesTrst
<1>2. ASSUME ChainStep
      PROVE  /\ SvfInv'
             /\ StateKnown /\ ~HeldInReset(line) => StateKnown'
             /\ HeldInReset(line)' <=> HeldInReset(line)
  BY <1>2, InvChainStep
<1>3. ASSUME PlayerStep \/ EndOfFile \/ NextFile \/ Alarm
      PROVE  SvfInv' /\ (StateKnown => StateKnown')
  <2>1. CASE SetTimer \/ StopTimer \/ TimedClocksEnd \/ CompareTdo
    BY <2>1, InvInPlace
  <2>2. CASE Goto \/ Arrive
    BY <2>2, InvGoto, InvArrive
  <2>3. CASE RunClocks \/ TimedClock
    BY <2>3, InvRunClocks, InvTimedClock
  <2>4. CASE ShiftRegister
    BY <2>4, InvShiftRegister
  <2>5. CASE EndOfFile \/ NextFile \/ Alarm
    BY <2>5, InvEndOfFile, InvNextFile, InvAlarm
  <2> QED
    BY <1>3, <2>1, <2>2, <2>3, <2>4, <2>5 DEF PlayerStep
<1>4. ASSUME PlayerStep \/ EndOfFile \/ NextFile \/ Alarm
      PROVE  line' = line
  BY <1>4 DEF PlayerStep, Goto, Arrive, RunClocks, SetTimer, StopTimer, TimedClock,
              TimedClocksEnd, ShiftRegister, CompareTdo, EndOfFile, NextFile, Alarm,
              ChainHas, chainVars, Chain!Exchange
<1>5. CASE UNCHANGED vars
  <2>1. UNCHANGED <<line, state, prog, todo, priv, timer, seen>>
    BY <1>5 DEF vars, chainVars, svfVars
  <2>2. SvfInv'
    BY <2>1 DEF SvfInv, Typed, CallsKnown, Remembered, Ordered, PlanEnds, EndsAt,
                Finished, Running, InRun
  <2>3. StateKnown => StateKnown'
    BY <2>1 DEF StateKnown
  <2> QED
    BY <2>1, <2>2, <2>3
<1> QED
  BY <1>1, <1>2, <1>3, <1>4, <1>5 DEF Next

LEMMA Invariant == Spec => []SvfInv
<1>1. Init => SvfInv
  BY InvInit
<1>2. SvfInv /\ [Next]_vars => SvfInv'
  BY InvNext
<1> QED
  BY <1>1, <1>2, PTL DEF Spec

(* What is remembered from one scan to the next fits the next: a mask has  *)
(* the length of the TDO value it is used for, and the bits shifted in     *)
(* have the length of the scan, whatever the statements leave out          *)
(* (svf.c:849-870).                                                        *)
THEOREM SvfTyped == Spec => []TypeOK
<1>1. SvfInv => TypeOK
  <2> SUFFICES ASSUME SvfInv PROVE TypeOK
    OBVIOUS
  <2>1. state \in TapStates \cup {Unknown}
    BY DEF SvfInv, Typed, CP!States, CP!TapStates, TapStates, CP!Unknown, Unknown
  <2>2. priv \in Privs /\ timer \in {"on", "off"} /\ Remembered
    BY DEF SvfInv, Typed
  <2>3. /\ {priv.run, priv.end} \subseteq StableStates
        /\ \A p \in Paths : priv.endxr[p] \in StableStates
    BY <2>2 DEF Privs
  <2> QED
    BY <2>1, <2>2, <2>3 DEF TypeOK, Remembered
<1> QED
  BY <1>1, Invariant, PTL

(* When the player stops at a mismatch, it never says at the end of a file *)
(* that TDO was as expected when it was not (svf.c:923-944, 1243-1250).    *)
(* Without that option it does (README, what the code does not keep).      *)
THEOREM VerdictHolds == ASSUME Stop PROVE Spec => []VerdictTrue
<1>1. SvfInv => VerdictTrue
  BY DEF SvfInv, Finished, VerdictTrue
<1> QED
  BY <1>1, Invariant, PTL

(* The invariant says where the controllers are.                           *)
LEMMA WhereAsked ==
    ASSUME SvfInv, HeldInReset(line) \/ StateKnown
    PROVE  EndsWhereAsked /\ (RunStatesStay => RunsInRunState)
<1> SUFFICES ASSUME StateKnown, ~HeldInReset(line)
             PROVE  EndsWhereAsked /\ (RunStatesStay => RunsInRunState)
  BY DEF EndsWhereAsked, RunsInRunState
<1>1. Unknown \notin StableStates
  BY DEF Unknown, StableStates
<1>2. ASSUME prog = <<>>, todo = <<>>, seen.at # NoState PROVE line.tap = seen.at
  <2>1. state = seen.at
    BY <1>2 DEF SvfInv, PlanEnds, EndsAt
  <2>2. seen.at \in StableStates
    BY <1>2 DEF SvfInv, Typed, Sights
  <2> QED
    BY <1>1, <2>1, <2>2 DEF StateKnown
<1>3. ASSUME RunStatesStay, prog = <<>>, seen.pulsing PROVE line.tap = priv.run
  <2>1. state = priv.run
    BY <1>3 DEF SvfInv, Running, InRun
  <2>2. priv.run \in StableStates
    BY DEF SvfInv, Typed, Privs
  <2> QED
    BY <1>1, <2>1, <2>2 DEF StateKnown
<1> QED
  BY <1>2, <1>3 DEF EndsWhereAsked, RunsInRunState

(* As long as TRST does not hold the controllers in reset, each statement  *)
(* leaves them in the state it names, or in the end states given before,   *)
(* from any state at the start (svf.c:87-221, 681-690, 803-818, 947-969).  *)
THEOREM EndsThere == Spec /\ []~HeldInReset(line) => []EndsWhereAsked
<1>1. Init => StateKnown
  BY InvInit
<1>2. /\ SvfInv /\ StateKnown /\ ~HeldInReset(line) /\ ~HeldInReset(line)' /\ [Next]_vars
      => StateKnown'
  BY InvNext
<1>3. SvfInv /\ StateKnown => EndsWhereAsked
  BY WhereAsked
<1> QED
  BY <1>1, <1>2, <1>3, Invariant, PTL DEF Spec

(* ... and the clocks of RUNTEST are given in its run state (svf.c:718-765) *)
(* unless that is RESET, which the first of them leaves.                   *)
THEOREM RunsThere ==
    ASSUME RunStatesStay PROVE Spec /\ []~HeldInReset(line) => []RunsInRunState
<1>1. Init => StateKnown
  BY InvInit
<1>2. /\ SvfInv /\ StateKnown /\ ~HeldInReset(line) /\ ~HeldInReset(line)' /\ [Next]_vars
      => StateKnown'
  BY InvNext
<1>3. SvfInv /\ StateKnown => RunsInRunState
  BY WhereAsked
<1> QED
  BY <1>1, <1>2, <1>3, Invariant, PTL DEF Spec

(* For files that do not give TRST a level nothing need be said of the     *)
(* signal: held in reset from the start, the controllers stay there.       *)
THEOREM EndsThereWithoutTrst ==
    ASSUME LeavesTrst PROVE Spec => [](EndsWhereAsked /\ (RunStatesStay => RunsInRunState))
<1> DEFINE Known == HeldInReset(line) \/ StateKnown
<1>1. Init => Known
  BY InvInit
<1>2. SvfInv /\ Known /\ [Next]_vars => Known'
  BY InvNext
<1>3. SvfInv /\ Known => EndsWhereAsked /\ (RunStatesStay => RunsInRunState)
  BY WhereAsked
<1> QED
  BY <1>1, <1>2, <1>3, Invariant, PTL DEF Spec
=============================================================================
