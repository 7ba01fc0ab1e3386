----------------------------- MODULE LineProofs -----------------------------
(***************************************************************************)
(* The transition function of src/tap/state.c is the standard's; and what  *)
(* clocks and transfers do to the controllers of a chain, to the bits it   *)
(* holds and to the state tracked for it, for any number of clocks and     *)
(* bits and any number of cells.                                           *)
(***************************************************************************)
EXTENDS Line, TLAPS, SequenceTheorems, WellFoundedInduction

(* urj_tap_state_clock takes every state where a controller in that state  *)
(* goes, whatever TMS is (state.c:115-205).                                *)
THEOREM TrackingIsIeee ==
    ASSUME NEW st \in TapStates, NEW tms \in Bit
    PROVE  StateClock(st, tms) = IeeeNext(st, tms)
<1>1. CASE tms = 0
  <2>1. StateClock(st, 0) = StateTms0(st)
    BY DEF StateClock
  <2>2. IeeeNext(st, 0) = Ieee[st][1]
    BY DEF IeeeNext
  <2>3. StateTms0(st) = Ieee[st][1]
    BY DEF TapStates, StateTms0, Ieee, Flags, ShiftStates, Unknown
  <2> QED
    BY <1>1, <2>1, <2>2, <2>3
<1>2. CASE tms = 1
  <2>1. StateClock(st, 1) = StateTms1(st)
    BY DEF StateClock
  <2>2. IeeeNext(st, 1) = Ieee[st][2]
    BY DEF IeeeNext
  <2>3. StateTms1(st) = Ieee[st][2]
    BY DEF TapStates, StateTms1, Ieee
  <2> QED
    BY <1>2, <2>1, <2>2, <2>3
<1> QED
  BY <1>1, <1>2 DEF Bit

(* Five clocks with TMS = 1. *)
FiveOnes(st) ==
    IeeeNext(IeeeNext(IeeeNext(IeeeNext(IeeeNext(st, 1), 1), 1), 1), 1)

(* Whatever state the controllers are in, and whatever state is tracked,   *)
(* five clocks with TMS = 1 and one with TMS = 0 bring both to             *)
(* Run-Test/Idle: urj_tap_reset needs no more (tap.c:38-44).               *)
THEOREM FiveOnesReset ==
    ASSUME NEW st \in TapStates
    PROVE  /\ FiveOnes(st) = "TEST_LOGIC_RESET"
           /\ IeeeNext(FiveOnes(st), 0) = "RUN_TEST_IDLE"
<1>1. \A t \in TapStates : IeeeNext(t, 1) = Ieee[t][2] /\ IeeeNext(t, 0) = Ieee[t][1]
  BY DEF IeeeNext
<1> DEFINE next(t) == IeeeNext(t, 1)
<1>2. \A t \in TapStates : next(t) \in TapStates
  BY <1>1 DEF TapStates, Ieee
<1>3. next(st) \in {"TEST_LOGIC_RESET", "SELECT_DR_SCAN", "SELECT_IR_SCAN",
                    "EXIT1_DR", "EXIT1_IR", "UPDATE_DR", "UPDATE_IR", "EXIT2_DR", "EXIT2_IR"}
  BY <1>1 DEF TapStates, Ieee
<1>4. next(next(st)) \in {"TEST_LOGIC_RESET", "SELECT_DR_SCAN", "SELECT_IR_SCAN",
                          "UPDATE_DR", "UPDATE_IR"}
  BY <1>1, <1>3 DEF TapStates, Ieee
<1>5. next(next(next(st))) \in {"TEST_LOGIC_RESET", "SELECT_DR_SCAN", "SELECT_IR_SCAN"}
  BY <1>1, <1>4 DEF TapStates, Ieee
<1>6. next(next(next(next(st)))) \in {"TEST_LOGIC_RESET", "SELECT_IR_SCAN"}
  BY <1>1, <1>5 DEF TapStates, Ieee
<1>7. next(next(next(next(next(st))))) = "TEST_LOGIC_RESET"
  BY <1>1, <1>6 DEF TapStates, Ieee
<1>8. IeeeNext("TEST_LOGIC_RESET", 0) = "RUN_TEST_IDLE"
  BY <1>1 DEF TapStates, Ieee
<1> QED
  BY <1>7, <1>8 DEF FiveOnes

-----------------------------------------------------------------------------
(* Induction over the natural numbers, for sets. *)

(* A set of natural numbers that is not empty has a least one. *)
LEMMA LeastNat ==
    ASSUME NEW T \in SUBSET Nat, T # {}
    PROVE  \E x \in T : \A y \in T : ~(y < x)
<1> DEFINE R == OpToRel(<, Nat)
<1>1. \E x \in T : \A y \in T : <<y, x>> \notin R
  <2>1. IsWellFoundedOn(R, Nat)
    BY NatLessThanWellFounded
  <2> HIDE DEF R
  <2> QED
    BY <2>1, WFMin
<1> QED
  BY <1>1 DEF OpToRel

(* A set with 0 and every successor of its numbers has them all. *)
LEMMA SetInduction ==
    ASSUME NEW S, 0 \in S, \A n \in Nat : n \in S => n + 1 \in S
    PROVE  Nat \subseteq S
<1> SUFFICES ASSUME Nat \ S # {} PROVE FALSE
  OBVIOUS
<1>1. PICK x \in Nat \ S : \A y \in Nat \ S : ~(y < x)
  BY LeastNat
<1>2. x # 0 /\ x - 1 \in Nat
  BY <1>1
<1>3. x - 1 \in S
  BY <1>1, <1>2
<1> QED
  BY <1>1, <1>2, <1>3

-----------------------------------------------------------------------------
(* Sequences joined to one. *)

Joined(u, r, n) ==
    u = [i \in 0 .. n |-> IF i = 0 THEN <<>> ELSE u[i - 1] \o r[i]]

(* There is such a function for every number of sequences ... *)
LEMMA JoinedExists ==
    ASSUME NEW r, NEW n \in Nat
    PROVE  \E u : Joined(u, r, n)
<1> DEFINE T == {m \in Nat : \E u : Joined(u, r, m)}
<1>1. 0 \in T
  <2> DEFINE u == [i \in 0 .. 0 |-> <<>>]
  <2>1. Joined(u, r, 0)
    BY DEF Joined
  <2> QED
    BY <2>1
<1>2. ASSUME NEW m \in Nat, m \in T PROVE m + 1 \in T
  <2>1. PICK u : Joined(u, r, m)
    BY <1>2
  <2> DEFINE v == [i \in 0 .. m + 1 |-> IF i = m + 1 THEN u[m] \o r[i] ELSE u[i]]
  <2>2. u = [i \in 0 .. m |-> IF i = 0 THEN <<>> ELSE u[i - 1] \o r[i]]
    BY <2>1 DEF Joined
  <2>3. ASSUME NEW i \in 0 .. m + 1
        PROVE  v[i] = IF i = 0 THEN <<>> ELSE v[i - 1] \o r[i]
    <3>1. CASE i = m + 1
      <4>1. i - 1 = m /\ m \in 0 .. m + 1 /\ m # m + 1 /\ i # 0
        BY <3>1
      <4>2. v[m] = u[m] /\ v[i] = u[m] \o r[i]
        BY <3>1, <4>1
      <4> QED
        BY <4>1, <4>2
    <3>2. CASE i # m + 1
      <4>1. i \in 0 .. m /\ v[i] = u[i] /\ (i # 0 => v[i - 1] = u[i - 1])
        BY <3>2
      <4> QED
        BY <2>2, <4>1
    <3> QED
      BY <3>1, <3>2
  <2>4. v = [i \in 0 .. m + 1 |-> v[i]]
    OBVIOUS
  <2> HIDE DEF v
  <2>5. v = [i \in 0 .. m + 1 |-> IF i = 0 THEN <<>> ELSE v[i - 1] \o r[i]]
    BY <2>3, <2>4
  <2>6. Joined(v, r, m + 1)
    BY <2>5 DEF Joined
  <2> QED
    BY <2>6
<1> QED
  BY <1>1, <1>2, SetInduction

(* ... and only one, as far as it goes. *)
LEMMA JoinedOnce ==
    ASSUME NEW r, NEW m \in Nat, NEW n \in Nat, m <= n, NEW u, NEW v,
           Joined(u, r, m), Joined(v, r, n)
    PROVE  \A i \in 0 .. m : u[i] = v[i]
<1> DEFINE T == {i \in Nat : i <= m => u[i] = v[i]}
<1>1. 0 \in T
  BY DEF Joined
<1>2. ASSUME NEW i \in Nat, i \in T PROVE i + 1 \in T
  <2> SUFFICES ASSUME i + 1 <= m PROVE u[i + 1] = v[i + 1]
    OBVIOUS
  <2>1. u[i + 1] = u[i] \o r[i + 1] /\ v[i + 1] = v[i] \o r[i + 1]
    BY DEF Joined
  <2>2. u[i] = v[i]
    BY <1>2
  <2> QED
    BY <2>1, <2>2
<1>3. Nat \subseteq T
  <2> HIDE DEF T
  <2> QED
    BY <1>1, <1>2, SetInduction
<1> QED
  BY <1>3

-----------------------------------------------------------------------------
(* The hardware under a series of pulses.  A recursive function of the     *)
(* model is any function that satisfies its equation.                      *)

Clocked(f, l, tms, tdi, n) ==
    f = [i \in 0 .. n |-> IF i = 0 THEN l ELSE Pulse(f[i - 1], tms, tdi)]

(* There is such a function for every number of clocks ... *)
LEMMA ClockedExists ==
    ASSUME NEW l, NEW tms, NEW tdi, NEW n \in Nat
    PROVE  \E f : Clocked(f, l, tms, tdi, n)
<1> DEFINE S == {m \in Nat : \E f : Clocked(f, l, tms, tdi, m)}
<1>1. 0 \in S
  <2> DEFINE f == [i \in 0 .. 0 |-> l]
  <2>1. Clocked(f, l, tms, tdi, 0)
    BY DEF Clocked
  <2> QED
    BY <2>1
<1>2. ASSUME NEW m \in Nat, m \in S PROVE m + 1 \in S
  <2>1. PICK f : Clocked(f, l, tms, tdi, m)
    BY <1>2
  <2> DEFINE g == [i \in 0 .. m + 1 |-> IF i = m + 1 THEN Pulse(f[m], tms, tdi) ELSE f[i]]
  <2>2. Clocked(g, l, tms, tdi, m + 1)
    BY <2>1 DEF Clocked
  <2> QED
    BY <2>2
<1> QED
  BY <1>1, <1>2, SetInduction

(* ... and driver->clock ends where it does. *)
LEMMA DriverClockIs ==
    ASSUME NEW l, NEW tms, NEW tdi, NEW n \in Nat
    PROVE  \E f : Clocked(f, l, tms, tdi, n) /\ DriverClock(l, tms, tdi, n) = f[n]
<1> DEFINE g == CHOOSE f : Clocked(f, l, tms, tdi, n)
<1>1. Clocked(g, l, tms, tdi, n)
  BY ClockedExists
<1>2. DriverClock(l, tms, tdi, n) = g[n]
  BY DEF DriverClock, Clocked
<1> QED
  BY <1>1, <1>2

Shifted(f, l, in, n) ==
    f = [i \in 0 .. n |-> IF i = 0 THEN l ELSE Pulse(f[i - 1], 0, in[i])]

(* There is such a function for every number of bits ... *)
LEMMA ShiftedExists ==
    ASSUME NEW l, NEW in, NEW n \in Nat
    PROVE  \E f : Shifted(f, l, in, n)
<1> DEFINE S == {m \in Nat : \E f : Shifted(f, l, in, m)}
<1>1. 0 \in S
  <2> DEFINE f == [i \in 0 .. 0 |-> l]
  <2>1. Shifted(f, l, in, 0)
    BY DEF Shifted
  <2> QED
    BY <2>1
<1>2. ASSUME NEW m \in Nat, m \in S PROVE m + 1 \in S
  <2>1. PICK f : Shifted(f, l, in, m)
    BY <1>2
  <2> DEFINE g == [i \in 0 .. m + 1 |-> IF i = m + 1 THEN Pulse(f[m], 0, in[i]) ELSE f[i]]
  <2>2. Shifted(g, l, in, m + 1)
    BY <2>1 DEF Shifted
  <2> QED
    BY <2>2
<1> QED
  BY <1>1, <1>2, SetInduction

(* ... and a transfer ends where it does. *)
LEMMA DriverTransferIs ==
    ASSUME NEW l, NEW in \in Seq(Bit)
    PROVE  \E f : Shifted(f, l, in, Len(in)) /\ DriverTransfer(l, in).line = f[Len(in)]
<1> DEFINE g == CHOOSE f : Shifted(f, l, in, Len(in))
<1>1. Shifted(g, l, in, Len(in))
  BY ShiftedExists, LenProperties
<1>2. DriverTransfer(l, in).line = g[Len(in)]
  BY DEF DriverTransfer, Shifted
<1> QED
  BY <1>1, <1>2

(* Pulses neither change signals nor leave the lines there are. *)
LEMMA PulseKeepsLine ==
    ASSUME NEW l \in Lines, NEW tms \in Bit, NEW tdi \in Bit
    PROVE  /\ Pulse(l, tms, tdi) \in Lines
           /\ Pulse(l, tms, tdi).high = l.high
           /\ Pulse(l, tms, tdi).wired = l.wired
           /\ Pulse(l, tms, tdi).tap =
                IF HeldInReset(l) THEN "TEST_LOGIC_RESET" ELSE IeeeNext(l.tap, tms)
<1>1. IeeeNext(l.tap, tms) \in TapStates
  BY DEF Lines, IeeeNext, Ieee, TapStates, Bit
<1>2. Append(Tail(l.cells), tdi) \in [1 .. Cells -> Bit]
  <2>1. l.cells \in Seq(Bit) /\ Len(l.cells) = Cells /\ l.cells # <<>>
    BY CellsAssumption DEF Lines
  <2>2. Tail(l.cells) \in Seq(Bit) /\ Len(Tail(l.cells)) = Cells - 1
    BY <2>1, HeadTailProperties
  <2>3. Append(Tail(l.cells), tdi) \in Seq(Bit) /\ Len(Append(Tail(l.cells), tdi)) = Cells
    BY <2>2, AppendProperties, CellsAssumption
  <2> QED
    BY <2>3, LenProperties
<1> QED
  BY <1>1, <1>2 DEF Pulse, Lines, TapStates

(* The tracked state under a series of clocks. *)
Followed(f, st, tms, n) ==
    f = [i \in 0 .. n |-> IF i = 0 THEN st ELSE StateClock(f[i - 1], tms)]

(* There is such a function for every number of clocks ... *)
LEMMA FollowedExists ==
    ASSUME NEW st, NEW tms, NEW n \in Nat
    PROVE  \E f : Followed(f, st, tms, n)
<1> DEFINE S == {m \in Nat : \E f : Followed(f, st, tms, m)}
<1>1. 0 \in S
  <2> DEFINE f == [i \in 0 .. 0 |-> st]
  <2>1. Followed(f, st, tms, 0)
    BY DEF Followed
  <2> QED
    BY <2>1
<1>2. ASSUME NEW m \in Nat, m \in S PROVE m + 1 \in S
  <2>1. PICK f : Followed(f, st, tms, m)
    BY <1>2
  <2> DEFINE g == [i \in 0 .. m + 1 |-> IF i = m + 1 THEN StateClock(f[m], tms) ELSE f[i]]
  <2>2. Followed(g, st, tms, m + 1)
    BY <2>1 DEF Followed
  <2> QED
    BY <2>2
<1> QED
  BY <1>1, <1>2, SetInduction

(* ... and the loops of chain.c:183-184 and 202-203 end where it does. *)
LEMMA StateClocksIs ==
    ASSUME NEW st, NEW tms, NEW n \in Nat
    PROVE  \E f : Followed(f, st, tms, n) /\ StateClocks(st, tms, n) = f[n]
<1> DEFINE g == CHOOSE f : Followed(f, st, tms, n)
<1>1. Followed(g, st, tms, n)
  BY FollowedExists
<1>2. StateClocks(st, tms, n) = g[n]
  BY DEF StateClocks, Followed
<1> QED
  BY <1>1, <1>2

States == TapStates \cup {Unknown}

(* One clock leaves the tracked states, unknown included, for one of them  *)
(* ...                                                                     *)
LEMMA StateClockType ==
    ASSUME NEW st \in States, NEW tms \in Bit
    PROVE  StateClock(st, tms) \in States
<1>1. CASE st \in TapStates
  <2>1. StateClock(st, tms) = IeeeNext(st, tms)
    BY <1>1, TrackingIsIeee
  <2>2. IeeeNext(st, tms) \in TapStates
    BY <1>1 DEF IeeeNext, Ieee, TapStates, Bit
  <2> QED
    BY <2>1, <2>2 DEF States
<1>2. CASE st = Unknown
  BY <1>2 DEF StateClock, StateTms0, StateTms1, Unknown, States
<1> QED
  BY <1>1, <1>2 DEF States

(* ... and so does any number. *)
LEMMA StateClocksType ==
    ASSUME NEW st \in States, NEW tms \in Bit, NEW n \in Nat
    PROVE  StateClocks(st, tms, n) \in States
<1>1. PICK f : Followed(f, st, tms, n) /\ StateClocks(st, tms, n) = f[n]
  BY StateClocksIs
<1> DEFINE S == {i \in Nat : i <= n => f[i] \in States}
<1>2. 0 \in S
  BY <1>1 DEF Followed
<1>3. ASSUME NEW i \in Nat, i \in S PROVE i + 1 \in S
  <2>1. CASE i + 1 <= n
    <3>1. f[i + 1] = StateClock(f[i], tms)
      BY <1>1, <2>1 DEF Followed
    <3> QED
      BY <1>3, <2>1, <3>1, StateClockType
  <2> QED
    BY <2>1
<1>4. n \in S
  BY <1>2, <1>3, SetInduction
<1> QED
  BY <1>1, <1>4

(* No clock makes an unknown state known (state.c:115-205). *)
LEMMA UnknownStays ==
    ASSUME NEW tms \in Bit, NEW n \in Nat
    PROVE  StateClocks(Unknown, tms, n) = Unknown
<1>1. PICK f : Followed(f, Unknown, tms, n) /\ StateClocks(Unknown, tms, n) = f[n]
  BY StateClocksIs
<1> DEFINE S == {i \in Nat : i <= n => f[i] = Unknown}
<1>2. 0 \in S
  BY <1>1 DEF Followed
<1>3. ASSUME NEW i \in Nat, i \in S PROVE i + 1 \in S
  <2>1. CASE i + 1 <= n
    <3>1. f[i + 1] = StateClock(f[i], tms)
      BY <1>1, <2>1 DEF Followed
    <3>2. StateClock(Unknown, tms) = Unknown
      BY DEF StateClock, StateTms0, StateTms1, Unknown
    <3> QED
      BY <1>3, <2>1, <3>1, <3>2
  <2> QED
    BY <2>1
<1>4. n \in S
  BY <1>2, <1>3, SetInduction
<1> QED
  BY <1>1, <1>4

(* TMS low leaves neither Run-Test/Idle nor the pause states. *)
LEMMA LowStays ==
    ASSUME NEW st \in {"RUN_TEST_IDLE", "PAUSE_DR", "PAUSE_IR"}, NEW n \in Nat
    PROVE  StateClocks(st, 0, n) = st
<1>1. PICK f : Followed(f, st, 0, n) /\ StateClocks(st, 0, n) = f[n]
  BY StateClocksIs
<1> DEFINE S == {i \in Nat : i <= n => f[i] = st}
<1>2. 0 \in S
  BY <1>1 DEF Followed
<1>3. ASSUME NEW i \in Nat, i \in S PROVE i + 1 \in S
  <2> SUFFICES ASSUME i + 1 <= n PROVE f[i + 1] = st
    OBVIOUS
  <2>1. f[i + 1] = StateClock(f[i], 0) /\ f[i] = st
    BY <1>1, <1>3 DEF Followed
  <2>2. StateClock(st, 0) = st
    BY DEF StateClock, StateTms0
  <2> QED
    BY <2>1, <2>2
<1> HIDE DEF S
<1>4. Nat \subseteq S
  BY <1>2, <1>3, SetInduction
<1> QED
  BY <1>1, <1>4 DEF S

(* Clocks move the controllers and a tracked state that was theirs to the  *)
(* same state; held in reset, the controllers stay there.                  *)
LEMMA ClocksAgree ==
    ASSUME NEW l \in Lines, NEW tms \in Bit, NEW tdi \in Bit, NEW n \in Nat
    PROVE  LET after == DriverClock(l, tms, tdi, n)
           IN  /\ after \in Lines
               /\ after.high = l.high
               /\ after.wired = l.wired
               /\ ~HeldInReset(l) => after.tap = StateClocks(l.tap, tms, n)
               /\ HeldInReset(l) /\ l.tap = "TEST_LOGIC_RESET"
                    => after.tap = "TEST_LOGIC_RESET"
<1>1. PICK f : Clocked(f, l, tms, tdi, n) /\ DriverClock(l, tms, tdi, n) = f[n]
  BY DriverClockIs
<1>2. PICK g : Followed(g, l.tap, tms, n) /\ StateClocks(l.tap, tms, n) = g[n]
  BY StateClocksIs
<1> DEFINE Good(i) ==
        /\ f[i] \in Lines
        /\ f[i].high = l.high
        /\ f[i].wired = l.wired
        /\ ~HeldInReset(l) => f[i].tap = g[i]
        /\ HeldInReset(l) /\ l.tap = "TEST_LOGIC_RESET" => f[i].tap = "TEST_LOGIC_RESET"
<1> DEFINE S == {i \in Nat : i <= n => Good(i)}
<1>3. 0 \in S
  BY <1>1, <1>2 DEF Clocked, Followed
<1>4. ASSUME NEW i \in Nat, i \in S PROVE i + 1 \in S
  <2>1. CASE i + 1 <= n
    <3>1. f[i + 1] = Pulse(f[i], tms, tdi)
      BY <1>1, <2>1 DEF Clocked
    <3>2. g[i + 1] = StateClock(g[i], tms)
      BY <1>2, <2>1 DEF Followed
    <3>3. Good(i)
      BY <1>4, <2>1
    <3>4. HeldInReset(f[i]) <=> HeldInReset(l)
      BY <3>3 DEF HeldInReset
    <3>5. f[i].tap \in TapStates
      BY <3>3 DEF Lines
    <3>6. StateClock(f[i].tap, tms) = IeeeNext(f[i].tap, tms)
      BY <3>5, TrackingIsIeee
    <3>7. f[i] \in Lines
      BY <3>3
    <3> HIDE DEF Good
    <3>8. Good(i + 1)
      BY <3>1, <3>2, <3>3, <3>4, <3>6, <3>7, PulseKeepsLine DEF Good
    <3> QED
      BY <3>8
  <2> QED
    BY <2>1
<1>5. n \in S
  BY <1>3, <1>4, SetInduction
<1> QED
  BY <1>1, <1>2, <1>5

(* A transfer leaves controllers that shift where they are. *)
LEMMA TransferStays ==
    ASSUME NEW l \in Lines, NEW in \in Seq(Bit)
    PROVE  LET after == DriverTransfer(l, in).line
           IN  /\ after \in Lines
               /\ after.high = l.high
               /\ after.wired = l.wired
               /\ l.tap \in ShiftStates \/ in = <<>> => after.tap = l.tap \/ HeldInReset(l)
               /\ HeldInReset(l) /\ l.tap = "TEST_LOGIC_RESET"
                    => after.tap = "TEST_LOGIC_RESET"
<1>1. PICK f : Shifted(f, l, in, Len(in)) /\ DriverTransfer(l, in).line = f[Len(in)]
  BY DriverTransferIs
<1>2. Len(in) \in Nat /\ \A i \in 1 .. Len(in) : in[i] \in Bit
  BY LenProperties, ElementOfSeq
<1> DEFINE Good(i) ==
        /\ f[i] \in Lines
        /\ f[i].high = l.high
        /\ f[i].wired = l.wired
        /\ l.tap \in ShiftStates => f[i].tap = l.tap \/ HeldInReset(l)
        /\ HeldInReset(l) /\ l.tap = "TEST_LOGIC_RESET" => f[i].tap = "TEST_LOGIC_RESET"
<1> DEFINE S == {i \in Nat : i <= Len(in) => Good(i)}
<1>3. 0 \in S
  BY <1>1, <1>2 DEF Shifted
<1>4. ASSUME NEW i \in Nat, i \in S PROVE i + 1 \in S
  <2>1. CASE i + 1 <= Len(in)
    <3>1. f[i + 1] = Pulse(f[i], 0, in[i + 1])
      BY <1>1, <1>2, <2>1 DEF Shifted
    <3>2. in[i + 1] \in Bit
      BY <1>2, <2>1
    <3>3. Good(i)
      BY <1>2, <1>4, <2>1
    <3>4. HeldInReset(f[i]) <=> HeldInReset(l)
      BY <3>3 DEF HeldInReset
    <3>5. l.tap \in ShiftStates => IeeeNext(l.tap, 0) = l.tap
      BY DEF IeeeNext, Ieee, ShiftStates
    <3>6. f[i] \in Lines /\ 0 \in Bit
      BY <3>3 DEF Bit
    <3> DEFINE p == Pulse(f[i], 0, in[i + 1])
    <3>7. /\ p \in Lines /\ p.high = f[i].high /\ p.wired = f[i].wired
          /\ p.tap = IF HeldInReset(f[i]) THEN "TEST_LOGIC_RESET" ELSE IeeeNext(f[i].tap, 0)
      BY <3>2, <3>6, PulseKeepsLine
    <3> HIDE DEF Good, p
    <3>8. Good(i + 1)
      BY <3>1, <3>3, <3>4, <3>5, <3>7 DEF Good, p
    <3> QED
      BY <3>8
  <2> QED
    BY <2>1
<1>5. Len(in) \in S
  BY <1>2, <1>3, <1>4, SetInduction
<1>6. in = <<>> => f[Len(in)] = l
  BY <1>1 DEF Shifted
<1> QED
  BY <1>1, <1>2, <1>5, <1>6

(* Clocks do not touch the pod's signals. *)
LEMMA ClocksKeepSignals ==
    ASSUME NEW l \in Lines, NEW tms \in Bit, NEW tdi \in Bit, NEW n \in Nat
    PROVE  HeldInReset(DriverClock(l, tms, tdi, n)) <=> HeldInReset(l)
<1> DEFINE after == DriverClock(l, tms, tdi, n)
<1>1. after.high = l.high /\ after.wired = l.wired
  BY ClocksAgree
<1> HIDE DEF after
<1>2. HeldInReset(after) <=> HeldInReset(l)
  BY <1>1 DEF HeldInReset
<1> QED
  BY <1>2 DEF after

(* Nor do transfers. *)
LEMMA TransfersKeepSignals ==
    ASSUME NEW l \in Lines, NEW in \in Seq(Bit)
    PROVE  HeldInReset(DriverTransfer(l, in).line) <=> HeldInReset(l)
<1> DEFINE after == DriverTransfer(l, in).line
<1>1. after.high = l.high /\ after.wired = l.wired
  BY TransferStays
<1> HIDE DEF after
<1>2. HeldInReset(after) <=> HeldInReset(l)
  BY <1>1 DEF HeldInReset
<1> QED
  BY <1>2 DEF after

-----------------------------------------------------------------------------
(* The bits that go through a chain. *)

(* The cells of a chain hold a part of the bits that go through it.        *)
Holds(l, S, p) == \A j \in 1 .. Cells : l.cells[j] = S[p + j]

(* What comes out next is the first of them. *)
LEMMA TdoHeld ==
    ASSUME NEW l \in Lines
    PROVE  Tdo(l) \in Bit /\ \A S, p : Holds(l, S, p) => Tdo(l) = S[p + 1]
<1>1. /\ l.cells \in Seq(Bit) /\ Len(l.cells) = Cells /\ l.cells # <<>>
      /\ Cells \in Nat \ {0} /\ 1 \in 1 .. Cells
  BY CellsAssumption DEF Lines
<1>2. Tdo(l) = l.cells[1] /\ l.cells[1] \in Bit
  BY <1>1, HeadTailProperties, ElementOfSeq DEF Tdo
<1> QED
  BY <1>1, <1>2 DEF Holds

(* A pulse in a shift state moves the bits on by one, ... *)
LEMMA PulseShifts ==
    ASSUME NEW l \in Lines, NEW tms \in Bit, NEW S, NEW p \in Nat, NEW t \in Bit,
           Holds(l, S, p), S[p + Cells + 1] = t, l.tap \in ShiftStates
    PROVE  Holds(Pulse(l, tms, t), S, p + 1)
<1> DEFINE c == l.cells
           d == Append(Tail(c), t)
<1>1. c \in Seq(Bit) /\ Len(c) = Cells /\ c # <<>> /\ Cells \in Nat \ {0}
  BY CellsAssumption DEF Lines
<1>2. /\ Tail(c) \in Seq(Bit) /\ Len(Tail(c)) = Cells - 1
      /\ \A i \in 1 .. Cells - 1 : Tail(c)[i] = c[i + 1]
  BY <1>1, HeadTailProperties, ElementOfSeq
<1>3. Pulse(l, tms, t).cells = d
  <2>1. DOMAIN l = {"tap", "cells", "high", "wired"}
    BY DEF Lines
  <2> QED
    BY <2>1 DEF Pulse
<1> HIDE DEF c
<1>4. \A j \in 1 .. Cells : d[j] = IF j = Cells THEN t ELSE c[j + 1]
  <2> DEFINE s == Tail(c)
  <2>1. s \in Seq(Bit) /\ Len(s) = Cells - 1
    BY <1>2
  <2> HIDE DEF s
  <2>2. /\ Len(Append(s, t)) = Len(s) + 1
        /\ \A i \in 1 .. Len(s) : Append(s, t)[i] = s[i]
        /\ Append(s, t)[Len(s) + 1] = t
    BY <2>1, AppendProperties
  <2>3. /\ \A i \in 1 .. Cells - 1 : d[i] = Tail(c)[i]
        /\ d[Cells] = t
    BY <1>1, <2>1, <2>2 DEF s
  <2> HIDE DEF d
  <2> QED
    BY <1>1, <1>2, <2>3
<1> HIDE DEF d
<1>5. ASSUME NEW j \in 1 .. Cells PROVE d[j] = S[(p + 1) + j]
  <2>1. CASE j = Cells
    <3>1. (p + 1) + j = p + Cells + 1
      BY <1>1, <2>1
    <3> QED
      BY <1>1, <1>4, <2>1, <3>1
  <2>2. CASE j # Cells
    <3>1. j + 1 \in 1 .. Cells /\ (p + 1) + j = p + (j + 1)
      BY <1>1, <2>2
    <3>2. c[j + 1] = S[p + (j + 1)]
      BY <3>1 DEF Holds, c
    <3> QED
      BY <1>4, <2>2, <3>1, <3>2
  <2> QED
    BY <2>1, <2>2
<1> QED
  BY <1>3, <1>5 DEF Holds

(* ... in the others none. *)
LEMMA PulseStays ==
    ASSUME NEW l \in Lines, NEW tms, NEW tdi, l.tap \notin ShiftStates
    PROVE  Pulse(l, tms, tdi).cells = l.cells
<1>1. DOMAIN l = {"tap", "cells", "high", "wired"}
  BY DEF Lines
<1> QED
  BY <1>1 DEF Pulse

(* driver->clock, once and twice. *)
LEMMA DriverClockOnce ==
    ASSUME NEW l, NEW tms, NEW tdi
    PROVE  /\ DriverClock(l, tms, tdi, 1) = Pulse(l, tms, tdi)
           /\ DriverClock(l, tms, tdi, 2) = Pulse(Pulse(l, tms, tdi), tms, tdi)
<1>1. PICK f : Clocked(f, l, tms, tdi, 1) /\ DriverClock(l, tms, tdi, 1) = f[1]
  BY DriverClockIs
<1>2. f[0] = l /\ f[1] = Pulse(f[0], tms, tdi)
  BY <1>1 DEF Clocked
<1>3. PICK g : Clocked(g, l, tms, tdi, 2) /\ DriverClock(l, tms, tdi, 2) = g[2]
  BY DriverClockIs
<1>4. g[0] = l /\ g[1] = Pulse(g[0], tms, tdi) /\ g[2] = Pulse(g[1], tms, tdi)
  BY <1>3 DEF Clocked
<1> QED
  BY <1>1, <1>2, <1>3, <1>4

(* A transfer returns what came out before each pulse. *)
LEMMA DriverTransferGives ==
    ASSUME NEW l, NEW in \in Seq(Bit)
    PROVE  \E f : /\ Shifted(f, l, in, Len(in))
                  /\ DriverTransfer(l, in) =
                        [line |-> f[Len(in)], out |-> [i \in 1 .. Len(in) |-> Tdo(f[i - 1])]]
<1> DEFINE g == CHOOSE f : Shifted(f, l, in, Len(in))
<1>1. Shifted(g, l, in, Len(in))
  BY ShiftedExists, LenProperties
<1>2. DriverTransfer(l, in) =
        [line |-> g[Len(in)], out |-> [i \in 1 .. Len(in) |-> Tdo(g[i - 1])]]
  BY DEF DriverTransfer, Shifted
<1> QED
  BY <1>1, <1>2

(* A transfer in a shift state moves them on by as many as it has bits,    *)
(* and returns those it moves out.                                         *)
LEMMA TransferShifts ==
    ASSUME NEW l \in Lines, NEW in \in Seq(Bit), NEW S, NEW p \in Nat,
           Holds(l, S, p), l.tap \in ShiftStates \/ in = <<>>, ~HeldInReset(l),
           \A i \in 1 .. Len(in) : in[i] = S[p + Cells + i]
    PROVE  /\ Holds(DriverTransfer(l, in).line, S, p + Len(in))
           /\ DriverTransfer(l, in).out \in Seq(Bit)
           /\ Len(DriverTransfer(l, in).out) = Len(in)
           /\ \A i \in 1 .. Len(in) : DriverTransfer(l, in).out[i] = S[p + i]
<1> DEFINE n == Len(in)
<1>1. PICK f : /\ Shifted(f, l, in, n)
               /\ DriverTransfer(l, in) = [line |-> f[n],
                                           out |-> [i \in 1 .. n |-> Tdo(f[i - 1])]]
  BY DriverTransferGives
<1>2. n \in Nat /\ \A i \in 1 .. n : in[i] \in Bit
  BY LenProperties, ElementOfSeq
<1> HIDE DEF n
<1> DEFINE Good(i) ==
        /\ f[i] \in Lines
        /\ f[i].high = l.high
        /\ f[i].wired = l.wired
        /\ f[i].tap = l.tap
        /\ Holds(f[i], S, p + i)
<1> DEFINE T == {i \in Nat : i <= n => Good(i)}
<1>3. 0 \in T
  <2>1. f[0] = l /\ p + 0 = p
    BY <1>1, <1>2 DEF Shifted
  <2> QED
    BY <2>1
<1>4. ASSUME NEW i \in Nat, i \in T PROVE i + 1 \in T
  <2> SUFFICES ASSUME i + 1 <= n PROVE Good(i + 1)
    OBVIOUS
  <2>1. f[i + 1] = Pulse(f[i], 0, in[i + 1])
    BY <1>1, <1>2 DEF Shifted
  <2>2. in[i + 1] \in Bit /\ in[i + 1] = S[p + Cells + (i + 1)]
    BY <1>2 DEF n
  <2>3. Good(i)
    BY <1>2, <1>4
  <2>4. ~HeldInReset(f[i]) /\ l.tap \in ShiftStates
    <3>1. in # <<>>
      BY <1>2 DEF n
    <3> QED
      BY <2>3, <3>1 DEF HeldInReset
  <2>5. IeeeNext(l.tap, 0) = l.tap
    BY <2>4 DEF IeeeNext, Ieee, ShiftStates
  <2>6. f[i] \in Lines /\ 0 \in Bit /\ p + i \in Nat
    BY <2>3 DEF Bit
  <2> DEFINE b == in[i + 1]
             r == Pulse(f[i], 0, b)
  <2>7. /\ r \in Lines /\ r.high = f[i].high /\ r.wired = f[i].wired
        /\ r.tap = IF HeldInReset(f[i]) THEN "TEST_LOGIC_RESET" ELSE IeeeNext(f[i].tap, 0)
    BY <2>2, <2>6, PulseKeepsLine
  <2>8. Holds(r, S, p + (i + 1))
    <3>1. S[(p + i) + Cells + 1] = b /\ (p + i) + 1 = p + (i + 1) /\ b \in Bit
      <4>1. (p + i) + Cells + 1 = p + Cells + (i + 1) /\ (p + i) + 1 = p + (i + 1)
        BY CellsAssumption
      <4> QED
        BY <2>2, <4>1
    <3>2. f[i].tap \in ShiftStates /\ Holds(f[i], S, p + i)
      BY <2>3, <2>4
    <3> DEFINE q == p + i
               k == f[i]
    <3>3. k \in Lines /\ q \in Nat /\ Holds(k, S, q) /\ S[q + Cells + 1] = b /\ b \in Bit
          /\ k.tap \in ShiftStates
      BY <2>2, <2>6, <3>1, <3>2
    <3> HIDE DEF q, k, b
    <3>4. Holds(Pulse(k, 0, b), S, q + 1)
      BY <2>6, <3>3, PulseShifts
    <3> QED
      BY <3>1, <3>4 DEF q, k, b
  <2> HIDE DEF r
  <2> QED
    BY <2>1, <2>3, <2>4, <2>5, <2>7, <2>8 DEF r
<1>5. Nat \subseteq T
  <2> HIDE DEF T
  <2> QED
    BY <1>3, <1>4, SetInduction
<1>6. \A i \in 0 .. n : Good(i)
  BY <1>2, <1>5
<1> HIDE DEF T
<1>7. Holds(f[n], S, p + n)
  BY <1>2, <1>6
<1>8. ASSUME NEW i \in 1 .. n PROVE Tdo(f[i - 1]) = S[p + i] /\ Tdo(f[i - 1]) \in Bit
  <2>1. Good(i - 1) /\ i - 1 \in Nat
    BY <1>2, <1>6
  <2> DEFINE k == f[i - 1]
             q == p + (i - 1)
  <2>2. k \in Lines /\ q \in Nat /\ Holds(k, S, q) /\ q + 1 = p + i
    BY <2>1
  <2> HIDE DEF k, q
  <2>5. Tdo(k) = S[q + 1] /\ Tdo(k) \in Bit
    BY <2>2, TdoHeld
  <2> QED
    BY <2>2, <2>5 DEF k
<1> DEFINE out == [i \in 1 .. n |-> Tdo(f[i - 1])]
<1>9. out \in [1 .. n -> Bit] /\ \A i \in 1 .. n : out[i] = S[p + i]
  BY <1>8
<1>10. out \in Seq(Bit) /\ Len(out) = n
  <2> HIDE DEF out
  <2> QED
    BY <1>2, <1>9
<1> QED
  BY <1>1, <1>7, <1>9, <1>10 DEF n

(* Whatever the controllers do, as many bits are returned as are sent. *)
LEMMA TransferTypes ==
    ASSUME NEW l \in Lines, NEW in \in Seq(Bit)
    PROVE  /\ DriverTransfer(l, in).out \in Seq(Bit)
           /\ Len(DriverTransfer(l, in).out) = Len(in)
<1> DEFINE n == Len(in)
<1>1. PICK f : /\ Shifted(f, l, in, n)
               /\ DriverTransfer(l, in) = [line |-> f[n],
                                           out |-> [i \in 1 .. n |-> Tdo(f[i - 1])]]
  BY DriverTransferGives
<1>2. n \in Nat /\ \A i \in 1 .. n : in[i] \in Bit
  BY LenProperties, ElementOfSeq
<1> HIDE DEF n
<1> DEFINE T == {i \in Nat : i <= n => f[i] \in Lines}
<1>3. 0 \in T
  BY <1>1, <1>2 DEF Shifted
<1>4. ASSUME NEW i \in Nat, i \in T PROVE i + 1 \in T
  <2> SUFFICES ASSUME i + 1 <= n PROVE f[i + 1] \in Lines
    OBVIOUS
  <2>1. f[i + 1] = Pulse(f[i], 0, in[i + 1])
    BY <1>1, <1>2 DEF Shifted
  <2>2. f[i] \in Lines /\ in[i + 1] \in Bit /\ 0 \in Bit
    BY <1>2, <1>4 DEF Bit
  <2> QED
    BY <2>1, <2>2, PulseKeepsLine
<1>5. Nat \subseteq T
  <2> HIDE DEF T
  <2> QED
    BY <1>3, <1>4, SetInduction
<1>6. ASSUME NEW i \in 1 .. n PROVE Tdo(f[i - 1]) \in Bit
  <2>1. f[i - 1] \in Lines
    BY <1>2, <1>5
  <2> QED
    BY <2>1, TdoHeld
<1> DEFINE out == [i \in 1 .. n |-> Tdo(f[i - 1])]
<1>7. out \in [1 .. n -> Bit]
  BY <1>6
<1>8. out \in Seq(Bit) /\ Len(out) = n
  <2> HIDE DEF out
  <2> QED
    BY <1>2, <1>7
<1> QED
  BY <1>1, <1>8 DEF n
=============================================================================
