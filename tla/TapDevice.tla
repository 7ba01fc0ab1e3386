----------------------------- MODULE TapDevice -----------------------------
(***************************************************************************)
(* What src/jim promises: a device on a scan chain, with an instruction    *)
(* register and the data registers it selects, that answers to TCK pulses. *)
(***************************************************************************)
EXTENDS TapController, SequencesExt

CONSTANTS
    IdCode,             \* contents of the identification register
    PinsLen,            \* output cells, at the near end of the boundary scan
    InputCells,         \* first and last cell of the inputs
    Inputs              \* what the input cells may capture

VARIABLES
    tap,
    regs,               \* "IR", "IDCODE", "BSR", "BYPASS": the cells, next out first
    dr,                 \* the data register selected
    tdo,
    pins                \* the outputs last updated under EXTEST

deviceVars == <<tap, regs, dr, tdo, pins>>

ValueOf(bits) == FoldRight(LAMBDA bit, above : bit + 2 * above, bits, 0)

Instruction == ValueOf(regs["IR"])
ExTest == 0
IdCodeInstruction == 1
SelectedBy(instruction) ==
    CASE instruction = ExTest            -> "BSR"
      [] instruction = IdCodeInstruction -> "IDCODE"
      [] instruction = 2                 -> "BSR"           \* SAMPLE
      [] OTHER                           -> "BYPASS"

DrStates == {"CAPTURE_DR", "SHIFT_DR"}
Selected(t, d) == IF t \in DrStates THEN d ELSE "IR"

Identified(r) ==
    [r EXCEPT !["IDCODE"] = IdCode,
              !["IR"] = [i \in DOMAIN @ |-> IF i = 1 THEN 1 ELSE 0]]

(* In these states a pulse of TCK leaves the registers alone. *)
QuietStates ==
    TapStates \ ({"TEST_LOGIC_RESET", "CAPTURE_DR", "UPDATE_IR"} \cup ShiftStates)

(* The bypass cell counts only from its capture to its update. *)
DrScan == {"CAPTURE_DR", "SHIFT_DR", "EXIT1_DR", "PAUSE_DR", "EXIT2_DR"}

(* One pulse.  TDO means something only while shifting.                    *)
Clock(tms, tdi) ==
    /\ tap' = IeeeNext(tap, tms)
    /\ \/ tap = "TEST_LOGIC_RESET" /\ regs' = Identified(regs) /\ dr' = "IDCODE"
       \/ /\ tap = "CAPTURE_DR" /\ dr = "BSR"
          /\ \E in \in Inputs :
                regs' = [regs EXCEPT !["BSR"] =
                    SubSeq(@, 1, InputCells[1] - 1) \o in
                    \o SubSeq(@, InputCells[2] + 1, Len(@))]
          /\ UNCHANGED dr
       \/ /\ tap = "CAPTURE_DR" /\ dr = "BYPASS"
          /\ regs' = [regs EXCEPT !["BYPASS"] = <<0>>]
          /\ UNCHANGED dr
       \/ tap = "CAPTURE_DR" /\ dr = "IDCODE" /\ UNCHANGED <<regs, dr>>
       \/ /\ tap \in ShiftStates
          /\ regs' = [regs EXCEPT ![Selected(tap, dr)] = Append(Tail(@), tdi)]
          /\ UNCHANGED dr
       \/ /\ tap = "UPDATE_IR"
          /\ dr' = SelectedBy(Instruction)
          /\ regs' = IF Instruction = IdCodeInstruction THEN Identified(regs) ELSE regs
       \/ /\ tap \in QuietStates
          /\ IF tap' \in DrScan THEN UNCHANGED regs
             ELSE \E bit \in Bit : regs' = [regs EXCEPT !["BYPASS"] = <<bit>>]
          /\ UNCHANGED dr
    /\ tap' \in ShiftStates => tdo' = Head(regs'[Selected(tap', dr')])
    /\ pins' = IF tap' = "UPDATE_DR" /\ Instruction = ExTest /\ dr = "BSR"
               THEN SubSeq(regs'["BSR"], 1, PinsLen) ELSE pins

DeviceInit == tap = "TEST_LOGIC_RESET" /\ pins = <<>>

DeviceSpec == DeviceInit /\ [][\E tms, tdi \in Bit : Clock(tms, tdi)]_deviceVars
=============================================================================
