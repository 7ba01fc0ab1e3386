------------------------------ MODULE MCChain ------------------------------
(* Chain with three cells: one register of three bits, or two parts with a   *)
(* register of one bit, for which tap.c transfers nothing, and one of two.   *)
EXTENDS Chain

Reg(in, outlen) == [in |-> in, outlen |-> outlen]
Shift(path, regs, capture, exit) ==
    [path |-> path, regs |-> regs, capture |-> capture, exit |-> exit]

MCClocks == {[tms |-> 1, tdi |-> 0, n |-> 1], [tms |-> 0, tdi |-> 1, n |-> 2]}
MCPodSettings ==
    {[mask |-> {"TRST"}, val |-> {}], [mask |-> {"TRST"}, val |-> {"TRST"}],
     [mask |-> Signals, val |-> {"RESET"}],
     [mask |-> {"RESET"}, val |-> {}]}

TwoParts == <<Reg(<<1>>, 1), Reg(<<0, 1>>, 2)>>

MCShifts ==
    {Shift("DR", TwoParts, TRUE, "IDLE"),
     Shift("DR", <<Reg(<<1, 0, 0>>, 3)>>, FALSE, "UPDATE"),
     Shift("IR", <<Reg(<<0, 1>>, NoOut), Reg(<<1>>, NoOut)>>, TRUE, "EXIT1"),
     Shift("IR", TwoParts, FALSE, "SHIFT"),
     Shift("DR", <<Reg(<<1, 0, 1, 1>>, 2)>>, TRUE, "EXIT1"),
     Shift("DR", <<Reg(<<0>>, 3)>>, FALSE, "SHIFT")}

MCShiftFrom == {"CAPTURE_DR", "SHIFT_DR", "CAPTURE_IR", "SHIFT_IR"}
MCShiftFromExit2 == {"EXIT2_DR", "EXIT2_IR"}
MCStart == {"TEST_LOGIC_RESET", "PAUSE_DR"}
MCNone == {}
=============================================================================
