------------------------------- MODULE MCSvf -------------------------------
(* Svf on a chain of one or two cells: instructions of two bits, data of two *)
(* and three.                                                                *)
EXTENDS Svf

To(path) == [op |-> "state", path |-> path]
EndXR(path, s) == [op |-> "endxr", path |-> path, state |-> s]
Run(run, end, count, timed) ==
    [op |-> "runtest", run |-> run, end |-> end, count |-> count, timed |-> timed,
     refused |-> FALSE]
SXR(path, tdi, tdo, mask, len) ==
    [op |-> "sxr", path |-> path, len |-> len, tdi |-> tdi, tdo |-> tdo, mask |-> mask]
TRST(mode) == [op |-> "trst", mode |-> mode]
No == NotGiven
None == NoState

(* Walks: from and to every stable state, and a path through Exit2; clocks  *)
(* in every run state that keeps its state with TMS low.                     *)
MCWalks ==
    {To(<<s>>) : s \in {"TEST_LOGIC_RESET", "RUN_TEST_IDLE"}}
    \cup {To(<<"PAUSE_IR", "EXIT2_IR", "SHIFT_IR", "EXIT1_IR", "PAUSE_IR">>)}
    \cup {EndXR("DR", "PAUSE_DR")}
    \cup {Run("PAUSE_DR", None, 1, FALSE), Run(None, "PAUSE_IR", 1, TRUE),
          [Run(None, None, 1, FALSE) EXCEPT !.refused = TRUE]}

(* Scans, compared and not, of changing length.                              *)
MCScans ==
    {SXR("DR", <<0, 1>>, <<1, 0>>, <<0, 1>>, 2), SXR("DR", <<1, 1, 0>>, <<0, 1, 0>>, No, 3),
     SXR("IR", <<1, 0>>, No, No, 2)}

MCAll == MCWalks \cup MCScans \cup {TRST(mode) : mode \in {"OFF", "Z", "ABSENT"}}

MCTrst == {TRST("ON"), TRST("OFF"), To(<<"RUN_TEST_IDLE">>)}
MCTrstModes == {TRST("Z"), TRST("ABSENT"), To(<<"PAUSE_DR">>), SXR("DR", <<0, 1>>, No, No, 2)}
MCExit2 == {To(<<"EXIT2_DR", "RUN_TEST_IDLE">>), To(<<"RUN_TEST_IDLE">>)}
MCTimed == {Run(None, None, 2, TRUE)}
MCStart == {"EXIT2_IR"}
MCIdle == {"RUN_TEST_IDLE"}
=============================================================================
