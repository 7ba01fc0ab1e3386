------------------------------ MODULE Activity ------------------------------
(***************************************************************************)
(* The JTAG activities a cable can be asked for (struct URJ_CABLE_QUEUE of *)
(* include/urjtag/cable.h) and what each does when it is carried out.      *)
(*                                                                         *)
(*   [action |-> "CLOCK", tms, tdi, n]                                     *)
(*   [action |-> "TRANSFER", in, keep]    keep: the caller wants TDO       *)
(*   [action |-> "GET_TDO"]                                                *)
(*   [action |-> "SET_SIGNAL", mask, val]                                  *)
(*   [action |-> "GET_SIGNAL", sig]                                        *)
(*                                                                         *)
(* A result is [kind, value]: kind is "TRANSFER", "GET_TDO" or the signal  *)
(* that was read.                                                          *)
(***************************************************************************)
EXTENDS Line

(* The TDI bits an activity shifts with TMS = 0. *)
TdiBits(act) ==
    CASE act.action = "CLOCK"    -> [i \in 1 .. act.n |-> act.tdi]
      [] act.action = "TRANSFER" -> act.in
      [] OTHER                   -> <<>>

(* The hardware after the activity (the driver calls of generic.c:110-176). *)
Effect(act, line) ==
    CASE act.action = "CLOCK"      -> DriverClock(line, act.tms, act.tdi, act.n)
      [] act.action = "TRANSFER"   -> DriverTransfer(line, act.in).line
      [] act.action = "SET_SIGNAL" -> DriverSetSignal(line, act.mask, act.val)
      [] OTHER                     -> line

(* The result, if any, as a sequence of at most one element. *)
ResultOf(act, line) ==
    CASE act.action = "TRANSFER" /\ act.keep ->
            <<[kind |-> "TRANSFER", value |-> DriverTransfer(line, act.in).out]>>
      [] act.action = "GET_TDO" ->
            <<[kind |-> "GET_TDO", value |-> Tdo(line)]>>
      [] act.action = "GET_SIGNAL" ->
            <<[kind |-> act.sig, value |-> DriverGetSignal(line, act.sig)]>>
      [] OTHER -> <<>>

(* What a _late call for a kind of result returns when none is in store:   *)
(* the level of the line now (cable.c:345, 413), or nothing for a transfer. *)
LiveValue(kind, line) ==
    CASE kind = "TRANSFER" -> <<kind>>
      [] kind = "GET_TDO"  -> <<kind, Tdo(line)>>
      [] OTHER             -> <<kind, DriverGetSignal(line, kind)>>

(* ... and when one is. *)
StoredValue(kind, result) == <<kind, result.value>>

(* What the immediate call of an activity returns to its caller. *)
ImmediateValue(act, line) ==
    CASE act.action = "CLOCK"      -> <<"void">>
      [] act.action = "TRANSFER"   -> <<"bits", DriverTransfer(line, act.in).out>>
      [] act.action = "GET_TDO"    -> <<"tdo", Tdo(line)>>
      [] act.action = "SET_SIGNAL" -> <<"signals", line.high>>
      [] OTHER                     -> <<"signal", DriverGetSignal(line, act.sig)>>
=============================================================================
