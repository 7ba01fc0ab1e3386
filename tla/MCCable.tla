------------------------------- MODULE MCCable -------------------------------
(* Cable on small activities: clocks of up to two pulses with both values    *)
(* of TMS, transfers of up to two bits, the empty one included, which tap.c  *)
(* issues for a one-bit register, and the reset signal of the pod.           *)
EXTENDS Cable

Clk(tms, tdi, n) == [action |-> "CLOCK", tms |-> tms, tdi |-> tdi, n |-> n]
Xfer(in, keep) == [action |-> "TRANSFER", in |-> in, keep |-> keep]
GetTdo == [action |-> "GET_TDO"]
SetSig(mask, val) == [action |-> "SET_SIGNAL", mask |-> mask, val |-> val]
GetSig(sig) == [action |-> "GET_SIGNAL", sig |-> sig]

MCDeferrable ==
    {Clk(0, 1, 2), Clk(1, 0, 1), Xfer(<<>>, TRUE), Xfer(<<1, 0>>, TRUE), GetTdo,
     GetSig("RESET")}
MCImmediate == {Xfer(<<1>>, TRUE), SetSig({"RESET"}, {})}
MCKinds == {"TRANSFER", "GET_TDO", "RESET"}

(* Three at a time, so that a result is picked from the middle of a transfer. *)
MCThree == {Clk(0, 1, 1), Xfer(<<1, 0>>, TRUE), GetTdo}

(* A pod signal set by a deferred call.                                      *)
MCSetSignal == {GetTdo, Xfer(<<1>>, TRUE), SetSig({"TRST"}, {}), SetSig({"TRST"}, {"TRST"})}

MCShift == {"SHIFT_DR"}
MCDrivers == {"using_transfer", "one_by_one"}
MCTransfer == {"using_transfer"}
MCOneByOne == {"one_by_one"}
MCNone == {}
=============================================================================
