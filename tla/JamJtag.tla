------------------------------ MODULE JamJtag ------------------------------
(***************************************************************************)
(* The JTAG side of the STAPL player: stapl/jamjtag.c, and the two         *)
(* functions of stapl.c through which it clocks the chain.  All of it is   *)
(* immediate here: what is deferred is flushed before a capture is used,   *)
(* and the queue keeps the order (module Cable).                           *)
(***************************************************************************)
EXTENDS Line, SequencesExt

Paths == {"IR", "DR"}
PauseOf == [IR |-> "PAUSE_IR", DR |-> "PAUSE_DR"]

(* state: urj_jam_jtag_state, Unknown at first; stop: the stop states of   *)
(* scans; pre, post: what is shifted before and after their data; chain:   *)
(* chain->state, which the rest of UrJTAG keeps; line: the hardware; ok:   *)
(* no function has returned JAMC_INTERNAL_ERROR; captured: what a scan     *)
(* read last.                                                              *)
Jtag ==
    [state : TapStates \cup {Unknown}, stop : [Paths -> TapStates],
     pre : [Paths -> Seq(Bit)], post : [Paths -> Seq(Bit)], chain : TapStates \cup {Unknown}, line : Lines,
     ok : BOOLEAN,
     captured : Seq(Bit)]

(* urj_jam_init_jtag. *)
InitJtag(chain, line) ==
    [state |-> Unknown, stop |-> [p \in Paths |-> "RUN_TEST_IDLE"],
     pre |-> [p \in Paths |-> <<>>], post |-> [p \in Paths |-> <<>>], chain |-> chain, line |-> line,
     ok |-> TRUE,
     captured |-> <<>>]

(* urj_jam_jtag_io, and a row of them with TDI low. *)
Io(j, tms, tdi) ==
    [j EXCEPT !.line = Pulse(@, tms, tdi), !.chain = StateClock(@, tms)]
Ios(j, row) == FoldLeft(LAMBDA k, tms : Io(k, tms, 0), j, row)

-----------------------------------------------------------------------------
(* Going from state to state. *)

(* jam_jtag_state_transitions: where TMS high and TMS low lead. *)
Transitions ==
    [TEST_LOGIC_RESET |-> <<"TEST_LOGIC_RESET", "RUN_TEST_IDLE">>,
     RUN_TEST_IDLE    |-> <<"SELECT_DR_SCAN", "RUN_TEST_IDLE">>,
     SELECT_DR_SCAN   |-> <<"SELECT_IR_SCAN", "CAPTURE_DR">>,
     CAPTURE_DR       |-> <<"EXIT1_DR", "SHIFT_DR">>,
     SHIFT_DR         |-> <<"EXIT1_DR", "SHIFT_DR">>,
     EXIT1_DR         |-> <<"UPDATE_DR", "PAUSE_DR">>,
     PAUSE_DR         |-> <<"EXIT2_DR", "PAUSE_DR">>,
     EXIT2_DR         |-> <<"UPDATE_DR", "SHIFT_DR">>,
     UPDATE_DR        |-> <<"SELECT_DR_SCAN", "RUN_TEST_IDLE">>,
     SELECT_IR_SCAN   |-> <<"TEST_LOGIC_RESET", "CAPTURE_IR">>,
     CAPTURE_IR       |-> <<"EXIT1_IR", "SHIFT_IR">>,
     SHIFT_IR         |-> <<"EXIT1_IR", "SHIFT_IR">>,
     EXIT1_IR         |-> <<"UPDATE_IR", "PAUSE_IR">>,
     PAUSE_IR         |-> <<"EXIT2_IR", "PAUSE_IR">>,
     EXIT2_IR         |-> <<"UPDATE_IR", "SHIFT_IR">>,
     UPDATE_IR        |-> <<"SELECT_DR_SCAN", "RUN_TEST_IDLE">>]

Reset == {"TEST_LOGIC_RESET"}
DrColumn == {"SELECT_DR_SCAN", "CAPTURE_DR", "SHIFT_DR", "EXIT1_DR", "PAUSE_DR",
             "EXIT2_DR", "UPDATE_DR"}
IrColumn == TapStates \ (DrColumn \cup {"TEST_LOGIC_RESET", "RUN_TEST_IDLE"})

(* The states to which a step with TMS low leads from each (the bits that  *)
(* jam_jtag_path_map leaves clear).                                        *)
LowTowards ==
    [TEST_LOGIC_RESET |-> TapStates \ Reset,
     RUN_TEST_IDLE    |-> {"RUN_TEST_IDLE"},
     SELECT_DR_SCAN   |-> DrColumn \cup {"RUN_TEST_IDLE"},
     CAPTURE_DR       |-> {"CAPTURE_DR", "SHIFT_DR"},
     SHIFT_DR         |-> {"SHIFT_DR"},
     EXIT1_DR         |-> {"SHIFT_DR", "EXIT1_DR", "PAUSE_DR", "EXIT2_DR"},
     PAUSE_DR         |-> {"PAUSE_DR"},
     EXIT2_DR         |-> {"SHIFT_DR", "EXIT1_DR", "PAUSE_DR", "EXIT2_DR"},
     UPDATE_DR        |-> {"RUN_TEST_IDLE", "UPDATE_DR"},
     SELECT_IR_SCAN   |-> TapStates \ Reset,
     CAPTURE_IR       |-> {"CAPTURE_IR", "SHIFT_IR"},
     SHIFT_IR         |-> {"SHIFT_IR"},
     EXIT1_IR         |-> {"SHIFT_IR", "EXIT1_IR", "PAUSE_IR", "EXIT2_IR"},
     PAUSE_IR         |-> {"PAUSE_IR"},
     EXIT2_IR         |-> {"SHIFT_IR", "EXIT1_IR", "PAUSE_IR", "EXIT2_IR"},
     UPDATE_IR        |-> {"RUN_TEST_IDLE", "UPDATE_IR"}]

(* urj_jam_jtag_reset_idle. *)
ResetIdle(j) == [Ios(j, <<1, 1, 1, 1, 1, 0>>) EXCEPT !.state = "RUN_TEST_IDLE"]

StableStates == {"RUN_TEST_IDLE", "SHIFT_DR", "PAUSE_DR", "SHIFT_IR", "PAUSE_IR"}

Step(j, goal) ==
    IF j.state = goal THEN j
    ELSE IF goal \in LowTowards[j.state]
    THEN [Io(j, 0, 0) EXCEPT !.state = Transitions[@][2]]
    ELSE [Io(j, 1, 0) EXCEPT !.state = Transitions[@][1]]

(* A slip: fewer clocks than the longest way takes. *)
LeadsEarly(j, goal) == FoldLeft(LAMBDA k, i : Step(k, goal), j, [i \in 1 .. 6 |-> i])

Leads(j, goal) == FoldLeft(LAMBDA k, i : Step(k, goal), j, [i \in 1 .. 9 |-> i])

(* urj_jam_goto_jtag_state: at most nine clocks. *)
Move(known, goal) ==
    IF known.state # goal THEN Leads(known, goal)
    ELSE IF goal \in StableStates THEN Io(known, 0, 0)
    ELSE IF goal \in Reset THEN Io(known, 1, 0)
    ELSE known

Goto(j, goal) ==
    LET there == Move(IF j.state = Unknown THEN ResetIdle(j) ELSE j, goal)
    IN  [there EXCEPT !.ok = @ /\ there.state = goal]

(* urj_jam_do_wait_cycles. *)
WaitCycles(j, cycles, waitState) ==
    LET there == IF j.state = waitState THEN j ELSE Goto(j, waitState)
        tms == IF waitState \in Reset THEN 1 ELSE 0
    IN  IF there.ok THEN Ios(there, [i \in 1 .. cycles |-> tms]) ELSE there

(* urj_jam_do_wait_microseconds: before anything was clocked it only waits. *)
WaitMicroseconds(j, waitState) ==
    IF j.state \in {Unknown, waitState} THEN j ELSE Goto(j, waitState)

-----------------------------------------------------------------------------
(* Scans. *)

(* urj_jam_set_drstop_state, urj_jam_set_irstop_state. *)
SetStop(j, path, stop) == [j EXCEPT !.stop[path] = stop]

(* urj_jam_set_dr_preamble and its three likes; without data, ones. *)
Padding(count, data) ==
    IF data = <<>> THEN [i \in 1 .. count |-> 1] ELSE SubSeq(data, 1, count)
SetPreamble(j, path, count, data) == [j EXCEPT !.pre[path] = Padding(count, data)]
SetPostamble(j, path, count, data) == [j EXCEPT !.post[path] = Padding(count, data)]

(* Where a scan starts from. *)
StartOf(s) ==
    IF s \in DrColumn THEN "PAUSE_DR"
    ELSE IF s \in IrColumn THEN "PAUSE_IR" ELSE "RUN_TEST_IDLE"

(* urj_jam_jtag_drscan, urj_jam_jtag_irscan: the way to the shift state. *)
LeadIn(path, start) ==
    CASE path = "DR" /\ start = "RUN_TEST_IDLE" -> <<1, 0, 0>>
      [] path = "DR" /\ start = "PAUSE_DR"      -> <<1, 0>>
      [] path = "DR" /\ start = "PAUSE_IR"      -> <<1, 1, 1, 0, 0>>
      [] path = "IR" /\ start = "RUN_TEST_IDLE" -> <<1, 1, 0, 0>>
      [] path = "IR" /\ start = "PAUSE_DR"      -> <<1, 1, 1, 1, 0, 0>>
      [] path = "IR" /\ start = "PAUSE_IR"      -> <<1, 0>>

(* urj_jam_jtag_io_transfer: TMS is high with the last bit, and TDO is     *)
(* sampled before each clock.  The states passed, the first one included.  *)
Transfer(j, bits) ==
    LET after[i \in 0 .. Len(bits)] ==
            IF i = 0 THEN j
            ELSE Io(after[i - 1], IF i = Len(bits) THEN 1 ELSE 0, bits[i])
    IN  [i \in 1 .. Len(bits) + 1 |-> after[i - 1]]

(* A slip: the postamble is shifted first. *)
ConcatenateSwapped(j, path, data) == j.post[path] \o data \o j.pre[path]

(* urj_jam_jtag_concatenate_data. *)
Concatenate(j, path, data) == j.pre[path] \o data \o j.post[path]

(* urj_jam_jtag_extract_target_data. *)
Extract(j, path, out, count) ==
    SubSeq(out, Len(j.pre[path]) + 1, Len(j.pre[path]) + count)

(* urj_jam_do_drscan, urj_jam_do_irscan, urj_jam_swap_dr, urj_jam_swap_ir: *)
(* the state is taken to be the pause state after the shift, and left for  *)
(* the stop state.                                                         *)
Shift(ready, path, bits, count) ==
    LET passed == Transfer(Ios(ready, LeadIn(path, ready.state)), bits)
        out    == [i \in DOMAIN bits |-> Tdo(passed[i].line)]
    IN  [Io(passed[Len(passed)], 0, 0) EXCEPT
            !.state = PauseOf[path], !.captured = Extract(ready, path, out, count)]

Halt(j, path) == IF j.stop[path] = PauseOf[path] THEN j ELSE Goto(j, j.stop[path])

Scan(j, path, data) ==
    LET start == StartOf(j.state)
        ready == IF j.state = start THEN j ELSE Goto(j, start)
    IN  IF ready.ok
        THEN Halt(Shift(ready, path, Concatenate(ready, path, data), Len(data)), path)
        ELSE ready

(* urj_jam_free_jtag_padding_buffers. *)
FreePadding(j, resetJtag) ==
    IF resetJtag /\ j.state # Unknown THEN ResetIdle(j) ELSE j
=============================================================================
