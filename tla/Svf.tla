-------------------------------- MODULE Svf --------------------------------
(***************************************************************************)
(* The SVF player of src/svf/svf.c on a chain of one part.  A statement of *)
(* the file is read when the one before is over; it leaves in `todo' the   *)
(* walks, clocks, shifts and comparisons it consists of, each of which     *)
(* asks the chain (module Chain) for what it needs.  FREQUENCY and the     *)
(* statements that are not implemented (HIR, TIR, PIO, ...) change nothing *)
(* kept here.  The alarm that ends a RUNTEST comes at any time.            *)
(***************************************************************************)
EXTENDS Activity, SequencesExt

CONSTANTS
    Statements,     \* the statements files consist of (below)
    StartTaps,      \* states the controller may be in at first
    IrLen,          \* priv->ir->value->len
    Stop            \* svf_stop_on_mismatch

NotGiven == <<>>
NoState == "not given"
Paths == {"IR", "DR"}
StableStates == {"TEST_LOGIC_RESET", "RUN_TEST_IDLE", "PAUSE_DR", "PAUSE_IR"}

(* path of "state": the states named, the stable one last; run, end: a      *)
(* state or NoState; timed: a maximum time is given; refused: a clock or a *)
(* time the player cannot do; tdi, tdo, mask: bits or NotGiven.            *)
Forms ==
    [op : {"endxr"}, path : Paths, state : StableStates]
    \cup [op : {"state"}, path : Seq(TapStates) \ {<<>>}]
    \cup [op : {"runtest"}, run : StableStates \cup {NoState},
          end : StableStates \cup {NoState}, count : Nat, timed : BOOLEAN,
          refused : BOOLEAN]
    \cup [op : {"sxr"}, path : Paths, len : Nat \ {0}, tdi : Seq(Bit), tdo : Seq(Bit),
          mask : Seq(Bit)]
    \cup [op : {"trst"}, mode : {"ON", "OFF", "Z", "ABSENT"}]

ASSUME SvfAssumption ==
    /\ Stop \in BOOLEAN
    /\ IrLen \in Nat \ {0}
    /\ StartTaps \subseteq TapStates
    /\ Statements \subseteq Forms
    /\ \A st \in Statements :
        /\ st.op = "state" => Last(st.path) \in StableStates
        /\ st.op = "sxr" =>
            \A bits \in {st.tdi, st.tdo, st.mask} : bits = NotGiven \/ Len(bits) = st.len

VARIABLES
    line, results, ret, state, prog, outs, last, lost,  \* the chain
    priv,       \* priv, the parser's private data
    todo,       \* what the statement has left
    timer, max_time_reached,
    seen        \* what was asked for and what happened, for the properties

chainVars == <<line, results, ret, state, prog, outs, last, lost>>
svfVars == <<priv, todo, timer, max_time_reached, seen>>
vars == <<chainVars, svfVars>>

Chain == INSTANCE Chain WITH
    Clocks <- {}, PodSettings <- {}, Shifts <- {}, ShiftFrom <- ShiftStates,
    MemoryFails <- FALSE

NoParams == [number |-> 0, tdi |-> <<>>, mask |-> <<>>]

(* urj_svf_run before it parses the file (svf.c:1214-1232). *)
NewFile ==
    [sxr |-> [p \in Paths |-> NoParams], endxr |-> [p \in Paths |-> "RUN_TEST_IDLE"],
     run |-> "RUN_TEST_IDLE", end |-> "RUN_TEST_IDLE",
     absent |-> FALSE, executed |-> FALSE,
     mismatch |-> FALSE, reading |-> TRUE, verdict |-> "none"]

(* at: where the statement before has to leave the controller; endxr: the  *)
(* end states asked for; pulsing: RUNTEST gives its clocks; alarmed: its   *)
(* time is over; differed: a TDO value was not as expected.                *)
NothingSeen ==
    [at |-> NoState, endxr |-> [p \in Paths |-> "RUN_TEST_IDLE"],
     pulsing |-> FALSE, alarmed |-> FALSE, differed |-> FALSE]

Init ==
    /\ Chain!Init
    /\ priv = NewFile
    /\ todo = <<>>
    /\ timer = "off"
    /\ max_time_reached = FALSE
    /\ seen = NothingSeen

-----------------------------------------------------------------------------
(* urj_svf_goto_state. *)

PathOf(s) ==
    IF s \in {"TEST_LOGIC_RESET", "RUN_TEST_IDLE"} THEN "none"
    ELSE IF s \in {"SELECT_DR_SCAN", "CAPTURE_DR", "SHIFT_DR", "EXIT1_DR",
                   "PAUSE_DR", "EXIT2_DR", "UPDATE_DR"} THEN "DR"
    ELSE "IR"

ShiftOf(path) == IF path = "DR" THEN "SHIFT_DR" ELSE "SHIFT_IR"
PauseOf(path) == IF path = "DR" THEN "PAUSE_DR" ELSE "PAUSE_IR"

(* A slip: the other branch not thought of in the select states. *)
StepTmsOwnBranch(from, to) ==
    LET own == PathOf(from)
    IN  IF \/ from \in {"TEST_LOGIC_RESET", "SELECT_DR_SCAN", "SELECT_IR_SCAN"}
           \/ from \in {"CAPTURE_DR", "CAPTURE_IR", "EXIT2_DR", "EXIT2_IR"}
                /\ to = ShiftOf(own)
           \/ from \in {"EXIT1_DR", "EXIT1_IR"} /\ to = PauseOf(own)
           \/ from \in {"UPDATE_DR", "UPDATE_IR"} /\ to = "RUN_TEST_IDLE"
        THEN 0 ELSE 1

(* TMS of one step; from # to.  A `case' of the switch is a disjunct.      *)
StepTms(from, to) ==
    LET own == PathOf(from)
    IN  IF \/ from = "TEST_LOGIC_RESET"
           \/ from \in {"SELECT_DR_SCAN", "SELECT_IR_SCAN"} /\ PathOf(to) = own
           \/ from \in {"CAPTURE_DR", "CAPTURE_IR", "EXIT2_DR", "EXIT2_IR"}
                /\ to = ShiftOf(own)
           \/ from \in {"EXIT1_DR", "EXIT1_IR"} /\ to = PauseOf(own)
           \/ from \in {"UPDATE_DR", "UPDATE_IR"} /\ to = "RUN_TEST_IDLE"
        THEN 0 ELSE 1

GotoOp(to) == [op |-> "goto", to |-> to]

Doing(op) == prog = <<>> /\ todo # <<>> /\ Head(todo).op = op

ChainHas(ops) ==
    /\ prog' = ops
    /\ UNCHANGED <<line, results, ret, state, outs, last, lost>>

Goto ==
    /\ Doing("goto")
    /\ state # Head(todo).to
    /\ ChainHas(IF state = Unknown
                THEN <<Chain!ClockOp(1, 0, 5), [op |-> "state_reset"]>>
                ELSE <<Chain!DeferClockOp(StepTms(state, Head(todo).to), 0, 1)>>)
    /\ seen' = [seen EXCEPT !.pulsing = FALSE]
    /\ UNCHANGED <<priv, todo, timer, max_time_reached>>

Arrive ==
    /\ Doing("goto")
    /\ state = Head(todo).to
    /\ todo' = Tail(todo)
    /\ seen' = [seen EXCEPT !.pulsing = FALSE]
    /\ UNCHANGED <<chainVars, priv, timer, max_time_reached>>

-----------------------------------------------------------------------------
(* The other things statements consist of. *)

(* A slip: the clocks with TMS high. *)
RunClocksHigh ==
    /\ Doing("clocks")
    /\ ChainHas(<<Chain!DeferClockOp(1, 0, Head(todo).n)>>)
    /\ todo' = Tail(todo)
    /\ seen' = [seen EXCEPT !.pulsing = TRUE]
    /\ UNCHANGED <<priv, timer, max_time_reached>>

(* CHAIN_CLOCK of RUNTEST without a maximum time. *)
RunClocks ==
    /\ Doing("clocks")
    /\ ChainHas(<<Chain!DeferClockOp(0, 0, Head(todo).n)>>)
    /\ todo' = Tail(todo)
    /\ seen' = [seen EXCEPT !.pulsing = TRUE]
    /\ UNCHANGED <<priv, timer, max_time_reached>>

SetTimer ==
    /\ Doing("set_timer")
    /\ timer' = "on"
    /\ todo' = Tail(todo)
    /\ UNCHANGED <<chainVars, priv, max_time_reached, seen>>

StopTimer ==
    /\ Doing("stop_timer")
    /\ timer' = "off"
    /\ todo' = Tail(todo)
    /\ UNCHANGED <<chainVars, priv, max_time_reached, seen>>

(* sigalrm_handler, at any time while the timer is set. *)
Alarm ==
    /\ timer = "on"
    /\ timer' = "off"
    /\ max_time_reached' = TRUE
    /\ seen' = [seen EXCEPT !.alarmed = TRUE]
    /\ UNCHANGED <<chainVars, priv, todo>>

(* The loop of RUNTEST with a maximum time. *)
TimedClock ==
    /\ Doing("timed_clocks")
    /\ Head(todo).n > 0 /\ ~max_time_reached
    /\ ChainHas(<<Chain!ClockOp(0, 0, 1)>>)
    /\ todo' = [todo EXCEPT ![1].n = @ - 1]
    /\ seen' = [seen EXCEPT !.pulsing = TRUE]
    /\ UNCHANGED <<priv, timer, max_time_reached>>

TimedClocksEnd ==
    /\ Doing("timed_clocks")
    /\ Head(todo).n = 0 \/ max_time_reached
    /\ todo' = Tail(todo)
    /\ UNCHANGED <<chainVars, priv, timer, max_time_reached, seen>>

(* urj_tap_chain_shift_instructions_mode, shift_data_registers_mode. *)
ShiftRegister ==
    /\ Doing("shift")
    /\ LET h == Head(todo)
       IN  Chain!Exchange([path |-> h.path, capture |-> FALSE, exit |-> "EXIT1",
                           regs |-> <<[in |-> h.in, outlen |-> h.outlen]>>])
    /\ todo' = Tail(todo)
    /\ UNCHANGED <<priv, timer, max_time_reached, seen>>

Differs(got, tdo, mask) == \E i \in DOMAIN tdo : mask[i] = 1 /\ got[i] # tdo[i]

(* A slip: a mismatch ends the file and is not recorded. *)
CompareTdoForgets ==
    /\ Doing("compare")
    /\ LET h == Head(todo)
           mismatch == Differs(outs[1], h.tdo, h.mask)
       IN  /\ seen' = [seen EXCEPT !.differed = @ \/ mismatch]
           /\ priv' = [priv EXCEPT !.reading = ~(Stop /\ mismatch)]
    /\ todo' = Tail(todo)
    /\ UNCHANGED <<chainVars, timer, max_time_reached>>

(* urj_svf_compare_tdo, and what urj_svf_sxr makes of its result: only a   *)
(* mismatch that stops the player is one for priv->mismatch_occurred.      *)
CompareTdo ==
    /\ Doing("compare")
    /\ LET h == Head(todo)
           mismatch == Differs(outs[1], h.tdo, h.mask)
       IN  /\ seen' = [seen EXCEPT !.differed = @ \/ mismatch]
           /\ priv' = IF Stop /\ mismatch
                      THEN [priv EXCEPT !.mismatch = TRUE, !.reading = FALSE]
                      ELSE priv
    /\ todo' = Tail(todo)
    /\ UNCHANGED <<chainVars, timer, max_time_reached>>

-----------------------------------------------------------------------------
(* The statements. *)

Reads == prog = <<>> /\ todo = <<>> /\ priv.reading

Else(bits, default) == IF bits = NotGiven THEN default ELSE bits
ElseState(s, default) == IF s = NoState THEN default ELSE s

(* A slip: one end state for both paths. *)
EndXrOne(st) ==
    /\ priv' = [priv EXCEPT !.endxr = [p \in Paths |-> st.state]]
    /\ seen' = [seen EXCEPT !.endxr[st.path] = st.state]
    /\ UNCHANGED <<chainVars, todo, timer, max_time_reached>>

(* urj_svf_endxr. *)
EndXr(st) ==
    /\ priv' = [priv EXCEPT !.endxr[st.path] = st.state]
    /\ seen' = [seen EXCEPT !.endxr[st.path] = st.state]
    /\ UNCHANGED <<chainVars, todo, timer, max_time_reached>>

(* urj_svf_state. *)
State(st) ==
    /\ priv' = [priv EXCEPT !.executed = TRUE]
    /\ todo' = [i \in DOMAIN st.path |-> GotoOp(st.path[i])]
    /\ seen' = [seen EXCEPT !.at = Last(st.path)]
    /\ UNCHANGED <<chainVars, timer, max_time_reached>>

(* A slip: the run state is no default for the end state (svf.c:681-682). *)
RunTestEndKept(st) == ElseState(st.end, priv.end)

RunTestEnd(st) == ElseState(st.end, ElseState(st.run, priv.end))

(* urj_svf_runtest. *)
RunTest(st) ==
    /\ ~st.refused
    /\ LET run == ElseState(st.run, priv.run)
           end == RunTestEnd(st)
       IN  /\ priv' = [priv EXCEPT !.run = run, !.end = end]
           /\ todo' = <<GotoOp(run)>>
                \o (IF st.timed
                    THEN <<[op |-> "set_timer"], [op |-> "timed_clocks", n |-> st.count]>>
                    ELSE <<[op |-> "clocks", n |-> st.count]>>)
                \o <<GotoOp(end)>>
                \o (IF st.timed THEN <<[op |-> "stop_timer"]>> ELSE <<>>)
           /\ seen' = [seen EXCEPT !.alarmed = FALSE,
                            !.at = ElseState(st.end, ElseState(st.run, priv.end))]
    /\ UNCHANGED <<chainVars, timer, max_time_reached>>

(* Refused before or after the states are remembered: no matter, as the    *)
(* player stops.                                                           *)
RunTestRefused(st) ==
    /\ st.refused
    /\ priv' = [priv EXCEPT !.reading = FALSE]
    /\ UNCHANGED <<chainVars, todo, timer, max_time_reached, seen>>

AllCare(len) == [i \in 1 .. len |-> 1]

(* A slip: the mask remembered for another length. *)
ScanParamsOldMask(old, st) ==
    [number |-> st.len, tdi |-> Else(st.tdi, old.tdi),
     mask |-> IF st.mask = NotGiven /\ old.number = 0 THEN AllCare(st.len)
              ELSE Else(st.mask, old.mask)]

(* What urj_svf_sxr remembers of a scan; st.len is never 0, so no_tdi says *)
(* that the length has changed.                                            *)
ScanParams(old, st) ==
    [number |-> st.len, tdi |-> Else(st.tdi, old.tdi),
     mask |-> IF st.mask = NotGiven /\ old.number # st.len THEN AllCare(st.len)
              ELSE Else(st.mask, old.mask)]

ScanRefused(st) ==
    \/ st.tdi = NotGiven /\ priv.sxr[st.path].number # st.len
    \/ st.path = "IR" /\ st.len # IrLen

(* urj_svf_sxr. *)
Scan(st) ==
    LET params == ScanParams(priv.sxr[st.path], st)
        tdo == st.tdo
    IN  /\ priv' = [priv EXCEPT !.sxr[st.path] = params,
                                !.reading = ~ScanRefused(st)]
        /\ IF ScanRefused(st) THEN UNCHANGED <<todo, seen>>
           ELSE /\ todo' =
                    <<GotoOp(ShiftOf(st.path)),
                      [op |-> "shift", path |-> st.path, in |-> params.tdi,
                       outlen |-> IF tdo = NotGiven THEN Chain!NoOut ELSE st.len],
                      GotoOp(priv.endxr[st.path])>>
                    \o (IF tdo = NotGiven THEN <<>>
                        ELSE <<[op |-> "compare", tdo |-> tdo, mask |-> params.mask]>>)
                /\ seen' = [seen EXCEPT !.at = seen.endxr[st.path]]
        /\ UNCHANGED <<chainVars, timer, max_time_reached>>

(* urj_svf_trst: the cable is told, the chain is not. *)
Trst(st) ==
    /\ IF priv.absent
       THEN /\ priv' = [priv EXCEPT !.reading = FALSE]
            /\ UNCHANGED <<chainVars, seen>>
       ELSE \/ /\ st.mode \in {"ON", "OFF"}
               /\ Chain!C!Do([action |-> "SET_SIGNAL", mask |-> {"TRST"},
                              val |-> IF st.mode = "OFF" THEN {"TRST"} ELSE {}])
               /\ seen' = [seen EXCEPT !.at = NoState]
               /\ UNCHANGED <<priv, state, prog, outs, last, lost>>
            \/ /\ st.mode = "Z"
               /\ UNCHANGED <<priv, chainVars, seen>>
            \/ /\ st.mode = "ABSENT"
               /\ priv' = [priv EXCEPT !.absent = TRUE, !.reading = ~priv.executed]
               /\ UNCHANGED <<chainVars, seen>>
    /\ UNCHANGED <<todo, timer, max_time_reached>>

Statement(st) ==
    /\ Reads
    /\ \/ st.op = "endxr" /\ EndXr(st)
       \/ st.op = "state" /\ State(st)
       \/ st.op = "runtest" /\ (RunTest(st) \/ RunTestRefused(st))
       \/ st.op = "sxr" /\ Scan(st)
       \/ st.op = "trst" /\ Trst(st)

(* The end of the file, or of the statements read from it: the player      *)
(* says whether TDO was as expected, and may be given another file.        *)
EndOfFile ==
    /\ prog = <<>> /\ todo = <<>>
    /\ priv.verdict = "none"
    /\ priv' = [priv EXCEPT !.reading = FALSE,
                    !.verdict = IF priv.mismatch THEN "mismatches" ELSE "matched"]
    /\ UNCHANGED <<chainVars, todo, timer, max_time_reached, seen>>

NextFile ==
    /\ priv.verdict # "none"
    /\ priv' = NewFile
    /\ seen' = NothingSeen
    /\ UNCHANGED <<chainVars, todo, timer, max_time_reached>>

ChainStep == Chain!Step /\ UNCHANGED svfVars

PlayerStep ==
    \/ Goto \/ Arrive
    \/ RunClocks \/ SetTimer \/ StopTimer \/ TimedClock \/ TimedClocksEnd
    \/ ShiftRegister \/ CompareTdo

Next ==
    \/ \E st \in Statements : Statement(st)
    \/ EndOfFile \/ NextFile
    \/ PlayerStep \/ ChainStep
    \/ Alarm

(* A statement goes on to its end; files and alarms come as they please.   *)
Spec == Init /\ [][Next]_vars /\ WF_vars(PlayerStep \/ ChainStep)

-----------------------------------------------------------------------------
Scanned == \E p \in Paths : priv.sxr[p].number > 0

(* Types; the parameters remembered have the length of the last scan, so   *)
(* that no bit of a TDO value goes uncompared for want of a mask           *)
(* (svf.c:849-870).                                                        *)
TypeOK ==
    /\ state \in TapStates \cup {Unknown}
    /\ timer \in {"on", "off"}
    /\ \A p \in Paths :
        LET sxr == priv.sxr[p]
        IN  /\ priv.endxr[p] \in StableStates
            /\ Len(sxr.mask) = sxr.number
            /\ priv.reading => Len(sxr.tdi) = sxr.number
    /\ {priv.run, priv.end} \subseteq StableStates

(* After each statement the controller is where the statement says, by     *)
(* itself or with the end states given before (svf.c:87-90, 803-818,       *)
(* 681-690, 947-969).                                                      *)
EndsWhereAsked ==
    prog = <<>> /\ todo = <<>> /\ seen.at # NoState /\ ~HeldInReset(line)
        => line.tap = seen.at

(* The clocks of RUNTEST are given in the run state (svf.c:718-765).       *)
RunsInRunState ==
    prog = <<>> /\ seen.pulsing /\ ~HeldInReset(line) => line.tap = priv.run

(* Every statement ends: urj_svf_goto_state "Moves from any TAP state to   *)
(* the specified state" (svf.c:90).                                        *)
StatementEnds == todo # <<>> ~> todo = <<>>

(* What the player says at the end of a file is so: "Scanned device output *)
(* matched expected TDO values." (svf.c:1248).                             *)
VerdictTrue == priv.verdict = "matched" => ~seen.differed

(* The clocks of RUNTEST end early only by the timer set for it (svf.c:736 *)
(* "set up the timer for max_time").                                       *)
RunTestRunsItsClocks ==
    [][TimedClocksEnd => Head(todo).n = 0 \/ seen.alarmed]_vars

(* "TRST ABSENT must not be issued after an SIR or SDR command"            *)
(* (svf.c:1042): the player does not go on.                                *)
AbsentRefused ==
    [][priv'.absent /\ ~priv.absent /\ Scanned => ~priv'.reading]_vars
=============================================================================
