--------------------------- MODULE TapController ---------------------------
(***************************************************************************)
(* The controller of a test access port, as the standard has it.           *)
(***************************************************************************)
EXTENDS TapState

(* IEEE 1149.1, figure "TAP controller state diagram": where each state    *)
(* goes with TMS = 0 and with TMS = 1.                                     *)
Ieee ==
    [TEST_LOGIC_RESET |-> <<"RUN_TEST_IDLE", "TEST_LOGIC_RESET">>,
     RUN_TEST_IDLE    |-> <<"RUN_TEST_IDLE", "SELECT_DR_SCAN">>,
     SELECT_DR_SCAN   |-> <<"CAPTURE_DR", "SELECT_IR_SCAN">>,
     CAPTURE_DR       |-> <<"SHIFT_DR", "EXIT1_DR">>,
     SHIFT_DR         |-> <<"SHIFT_DR", "EXIT1_DR">>,
     EXIT1_DR         |-> <<"PAUSE_DR", "UPDATE_DR">>,
     PAUSE_DR         |-> <<"PAUSE_DR", "EXIT2_DR">>,
     EXIT2_DR         |-> <<"SHIFT_DR", "UPDATE_DR">>,
     UPDATE_DR        |-> <<"RUN_TEST_IDLE", "SELECT_DR_SCAN">>,
     SELECT_IR_SCAN   |-> <<"CAPTURE_IR", "TEST_LOGIC_RESET">>,
     CAPTURE_IR       |-> <<"SHIFT_IR", "EXIT1_IR">>,
     SHIFT_IR         |-> <<"SHIFT_IR", "EXIT1_IR">>,
     EXIT1_IR         |-> <<"PAUSE_IR", "UPDATE_IR">>,
     PAUSE_IR         |-> <<"PAUSE_IR", "EXIT2_IR">>,
     EXIT2_IR         |-> <<"SHIFT_IR", "UPDATE_IR">>,
     UPDATE_IR        |-> <<"RUN_TEST_IDLE", "SELECT_DR_SCAN">>]

IeeeNext(tap, tms) == Ieee[tap][tms + 1]
=============================================================================
