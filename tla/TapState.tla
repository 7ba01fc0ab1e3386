------------------------------ MODULE TapState ------------------------------
(***************************************************************************)
(* The state of a JTAG test access port as UrJTAG keeps it: the names and  *)
(* flag bits of include/urjtag/tap_state.h and the transition function of  *)
(* src/tap/state.c, which follows the TMS values sent to the chain.        *)
(***************************************************************************)
EXTENDS Naturals

Unknown == "UNKNOWN_STATE"

Bit == {0, 1}

TapStates ==
    {"TEST_LOGIC_RESET", "RUN_TEST_IDLE",
     "SELECT_DR_SCAN", "CAPTURE_DR", "SHIFT_DR", "EXIT1_DR", "PAUSE_DR",
     "EXIT2_DR", "UPDATE_DR",
     "SELECT_IR_SCAN", "CAPTURE_IR", "SHIFT_IR", "EXIT1_IR", "PAUSE_IR",
     "EXIT2_IR", "UPDATE_IR"}

ShiftStates == {"SHIFT_DR", "SHIFT_IR"}

(* The flags of tap_state.h; the name of a flag is what its comment says.  *)
Flags(s) ==
    CASE s = Unknown                          -> {"RESET"}
      [] s = "TEST_LOGIC_RESET"               -> {"RESET", "IDLE"}
      [] s = "RUN_TEST_IDLE"                  -> {"IDLE"}
      [] s \in {"SELECT_DR_SCAN", "SELECT_IR_SCAN"} -> {}
      [] s \in {"CAPTURE_DR", "CAPTURE_IR"}   -> {"SHIFT", "CAPTURE"}
      [] s \in ShiftStates                    -> {"SHIFT"}
      [] s \in {"EXIT1_DR", "EXIT1_IR"}       -> {"UPDATE", "PAUSE"}
      [] s \in {"PAUSE_DR", "PAUSE_IR"}       -> {"PAUSE"}
      [] s \in {"EXIT2_DR", "EXIT2_IR"}       -> {"SHIFT", "UPDATE"}
      [] s \in {"UPDATE_DR", "UPDATE_IR"}     -> {"IDLE"}

(* urj_tap_state_clock with tms # 0. *)
StateTms1(s) ==
    CASE s = "TEST_LOGIC_RESET"                             -> s
      [] s \in {"RUN_TEST_IDLE", "UPDATE_DR", "UPDATE_IR"}  -> "SELECT_DR_SCAN"
      [] s = "SELECT_DR_SCAN"                               -> "SELECT_IR_SCAN"
      [] s \in {"CAPTURE_DR", "SHIFT_DR"}                   -> "EXIT1_DR"
      [] s \in {"EXIT1_DR", "EXIT2_DR"}                     -> "UPDATE_DR"
      [] s = "PAUSE_DR"                                     -> "EXIT2_DR"
      [] s = "SELECT_IR_SCAN"                               -> "TEST_LOGIC_RESET"
      [] s \in {"CAPTURE_IR", "SHIFT_IR"}                   -> "EXIT1_IR"
      [] s \in {"EXIT1_IR", "EXIT2_IR"}                     -> "UPDATE_IR"
      [] s = "PAUSE_IR"                                     -> "EXIT2_IR"
      [] OTHER                                              -> Unknown

(* urj_tap_state_clock with tms = 0. *)
StateTms0(s) ==
    CASE s \in {"TEST_LOGIC_RESET", "RUN_TEST_IDLE", "UPDATE_DR", "UPDATE_IR"}
                                                            -> "RUN_TEST_IDLE"
      [] s = "SELECT_DR_SCAN"                               -> "CAPTURE_DR"
      [] s \in {"CAPTURE_DR", "SHIFT_DR", "EXIT2_DR"}       -> "SHIFT_DR"
      [] s \in {"EXIT1_DR", "PAUSE_DR"}                     -> "PAUSE_DR"
      [] s = "SELECT_IR_SCAN"                               -> "CAPTURE_IR"
      [] s \in {"CAPTURE_IR", "SHIFT_IR", "EXIT2_IR"}       -> "SHIFT_IR"
      [] s \in {"EXIT1_IR", "PAUSE_IR"}                     -> "PAUSE_IR"
      [] OTHER                                              -> Unknown

(* urj_tap_state_clock. *)
StateClock(s, tms) == IF tms # 0 THEN StateTms1(s) ELSE StateTms0(s)

(* n clocks with the same TMS (the loops of chain.c:183-184, 202-203).     *)
StateClocks(s, tms, n) ==
    LET after[i \in 0 .. n] ==
            IF i = 0 THEN s ELSE StateClock(after[i - 1], tms)
    IN  after[n]

(* A slip: the level of the line instead of its change (state.c:102).      *)
StateSetTrstLevel(s, old_trst, new_trst) ==
    IF new_trst THEN "TEST_LOGIC_RESET" ELSE Unknown

(* urj_tap_state_set_trst: only a change of the line tells anything; the   *)
(* state is unknown while it is low and Test-Logic-Reset once it went high. *)
StateSetTrst(s, old_trst, new_trst) ==
    IF old_trst = new_trst THEN s
    ELSE IF new_trst THEN "TEST_LOGIC_RESET" ELSE Unknown
=============================================================================
