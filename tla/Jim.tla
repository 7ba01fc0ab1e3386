-------------------------------- MODULE Jim --------------------------------
(***************************************************************************)
(* JIM, the target simulator: src/jim/jim_tap.c with the one device on its *)
(* chain, src/jim/some_cpu.c, clocked by the cable driver                  *)
(* src/tap/cable/jim.c.  A register is an array of words, the low bits of  *)
(* the first to go out first.  The memory attached to the device's pins is *)
(* left out: what it answers is any of Captures.                           *)
(***************************************************************************)
EXTENDS TapState, Integers, Sequences

CONSTANTS
    W,                  \* bits of a word
    Lens,               \* lengths of the registers: IR, IDCODE, boundary scan
    IdWord,             \* contents of the identification register
    Captures,           \* what the attached memory may answer
    AsTapC              \* TRUE: clocked as src/tap/tap.c does: TDI is 0 while
                        \* a register is captured, and scans do not pause

JimAssumption ==
    /\ W \in Nat \ {0}
    /\ Lens \in [0 .. 2 -> Nat]
    /\ Lens[0] \in 1 .. W /\ Lens[1] \in 1 .. W /\ Lens[2] > 2 * W
    /\ IdWord \in 0 .. 2^Lens[1] - 1
    /\ AsTapC \in BOOLEAN

Word == 0 .. 2^W - 1

VARIABLES
    tap_state,          \* dev->tap_state, by the names of TapState
    sreg,               \* dev->sreg[n].reg
    current_dr,         \* dev->current_dr: 0 is BYPASS
    tdo,                \* dev->tdo
    driven              \* address and data last given to the memory

vars == <<tap_state, sreg, current_dr, tdo, driven>>

(* next_tap_state. *)
JimNext ==
    [TEST_LOGIC_RESET |-> <<"RUN_TEST_IDLE", "TEST_LOGIC_RESET">>,
     SELECT_DR_SCAN   |-> <<"CAPTURE_DR", "SELECT_IR_SCAN">>,
     CAPTURE_DR       |-> <<"SHIFT_DR", "EXIT1_DR">>,
     SHIFT_DR         |-> <<"SHIFT_DR", "EXIT1_DR">>,
     EXIT1_DR         |-> <<"PAUSE_DR", "UPDATE_DR">>,
     PAUSE_DR         |-> <<"PAUSE_DR", "EXIT2_DR">>,
     EXIT2_DR         |-> <<"SHIFT_DR", "UPDATE_DR">>,
     UPDATE_DR        |-> <<"RUN_TEST_IDLE", "SELECT_DR_SCAN">>,
     RUN_TEST_IDLE    |-> <<"RUN_TEST_IDLE", "SELECT_DR_SCAN">>,
     SELECT_IR_SCAN   |-> <<"CAPTURE_IR", "TEST_LOGIC_RESET">>,
     CAPTURE_IR       |-> <<"SHIFT_IR", "EXIT1_IR">>,
     SHIFT_IR         |-> <<"SHIFT_IR", "EXIT1_IR">>,
     EXIT1_IR         |-> <<"PAUSE_IR", "UPDATE_IR">>,
     PAUSE_IR         |-> <<"EXIT2_IR", "EXIT2_IR">>,
     EXIT2_IR         |-> <<"SHIFT_IR", "UPDATE_IR">>,
     UPDATE_IR        |-> <<"RUN_TEST_IDLE", "SELECT_DR_SCAN">>]

(* States with bit 3 of their number set (include/urjtag/jim.h).           *)
UpperStates ==
    {"RUN_TEST_IDLE", "SELECT_IR_SCAN", "CAPTURE_IR", "SHIFT_IR", "EXIT1_IR",
     "PAUSE_IR", "EXIT2_IR", "UPDATE_IR"}

(* Where TDI goes in the last word (jim_tap.c:190-196).                    *)
TopBit(len) == 2^(IF len % W = 0 THEN W - 1 ELSE (len % W) - 1)

(* A slip: nothing carried from word to word. *)
ShiftedNoCarry(reg, len, tdi) ==
    LET most == (len - 1) \div W + 1
    IN  [i \in DOMAIN reg |->
            reg[i] \div 2 + (IF i = most /\ tdi # 0 THEN TopBit(len) ELSE 0)]

(* A register of len bits shifted by one (jim_tap.c:176-197).              *)
Shifted(reg, len, tdi) ==
    LET most == (len - 1) \div W + 1
        into(i) == CASE i < most            -> (reg[i + 1] % 2) * 2^(W - 1)
                     [] i = most /\ tdi # 0 -> TopBit(len)
                     [] OTHER               -> 0
    IN  [i \in DOMAIN reg |-> reg[i] \div 2 + into(i)]

(* urj_jim_some_cpu_report_idcode. *)
Reported(r) == [r EXCEPT ![0][1] = 1, ![1][1] = IdWord]

(* urj_jim_some_cpu_tck_rise, as <<sreg, current_dr>>. *)
CpuRises ==
    CASE tap_state = "TEST_LOGIC_RESET" -> {<<Reported(sreg), 1>>}
      [] tap_state = "CAPTURE_DR" /\ current_dr = 2 ->
            {<<[sreg EXCEPT ![2][3] = d], 2>> : d \in Captures}
      [] tap_state = "UPDATE_IR" ->
            {CASE sreg[0][1] \in {0, 2} -> <<sreg, 2>>
               [] sreg[0][1] = 1        -> <<Reported(sreg), 1>>
               [] OTHER                 -> <<sreg, 0>>}
      [] OTHER -> {<<sreg, current_dr>>}

(* jim_cable_clock, of one pulse: urj_jim_tck_rise, then urj_jim_tck_fall, *)
(* with urj_jim_some_cpu_tck_fall.                                         *)
Clock(tms, tdi) ==
    /\ AsTapC =>
        /\ tap_state \in {"CAPTURE_DR", "CAPTURE_IR"} => tdi = 0
        /\ tap_state \in {"EXIT1_DR", "EXIT1_IR"} => tms = 1
    /\ \E cpu \in CpuRises :
        LET r == cpu[1]
            n == IF tap_state \in UpperStates THEN 0 ELSE cpu[2]
            bypass == n = 0 /\ tap_state \notin UpperStates
        IN  /\ sreg' = IF ~bypass /\ tap_state \in ShiftStates
                       THEN [r EXCEPT ![n] = Shifted(@, Lens[n], tdi)] ELSE r
            /\ current_dr' = cpu[2]
            /\ tdo' = IF bypass THEN tdi ELSE sreg'[n][1] % 2
    /\ tap_state' = JimNext[tap_state][tms + 1]
    /\ driven' = IF /\ tap_state' = "UPDATE_DR"
                    /\ sreg'[0][1] = 0 /\ current_dr' = 2
                 THEN <<sreg'[2][1], sreg'[2][2]>> ELSE driven

WordsOf(len) == (len + W - 1) \div W

Init ==
    /\ tap_state = "TEST_LOGIC_RESET"
    /\ sreg = [n \in 0 .. 2 |-> [i \in 1 .. WordsOf(Lens[n]) |-> 0]]
    /\ current_dr = 0
    /\ tdo = 1
    /\ driven = <<>>

Next == \E tms, tdi \in Bit : Clock(tms, tdi)

Spec == Init /\ [][Next]_vars

-----------------------------------------------------------------------------
(* Words stay words, and the bits of the last word beyond the register's   *)
(* length stay 0: some_cpu.c:104 compares a whole word with instructions.  *)
TypeOK ==
    /\ tap_state \in TapStates
    /\ \A n \in 0 .. 2 :
        /\ sreg[n] \in [1 .. WordsOf(Lens[n]) -> Word]
        /\ sreg[n][WordsOf(Lens[n])] < 2 * TopBit(Lens[n])
    /\ current_dr \in 0 .. 2
    /\ tdo \in Bit

(* The bits of a register, the next to go out first. *)
Bits(reg, len) == [i \in 1 .. len |-> (reg[(i - 1) \div W + 1] \div 2^((i - 1) % W)) % 2]

Device == INSTANCE TapDevice WITH
    IdCode <- Bits(<<IdWord>>, Lens[1]),
    PinsLen <- 2 * W,
    InputCells <- <<2 * W + 1, IF Lens[2] < 3 * W THEN Lens[2] ELSE 3 * W>>,
    Inputs <- {Bits(<<d>>, IF Lens[2] < 3 * W THEN Lens[2] - 2 * W ELSE W) : d \in Captures},
    tap <- tap_state,
    regs <- [IR     |-> Bits(sreg[0], Lens[0]),
             IDCODE |-> Bits(sreg[1], Lens[1]),
             BSR    |-> Bits(sreg[2], Lens[2]),
             BYPASS |-> IF current_dr = 0 /\ tap_state \in {"SHIFT_DR", "EXIT1_DR"}
                        THEN <<tdo>> ELSE <<0>>],
    dr <- <<"BYPASS", "IDCODE", "BSR">>[current_dr + 1],
    pins <- IF driven = <<>> THEN <<>> ELSE Bits(driven, 2 * W)

(* JIM is the device TapDevice describes, its words one register each,     *)
(* when it is clocked as UrJTAG's own operations do (jim_tap.c:135-223).   *)
DeviceSpec == Device!DeviceSpec

(* JIM goes where src/tap/state.c says the chain goes.  PAUSE_IR has the   *)
(* flag "to Pause with TMS = 0" (tap_state.h:38).                          *)
FollowsTracking ==
    [][\A tms, tdi \in Bit :
        Clock(tms, tdi) => tap_state' = StateClock(tap_state, tms)]_vars
=============================================================================
