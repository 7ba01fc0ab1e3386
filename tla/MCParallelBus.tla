---------------------------- MODULE MCParallelBus ----------------------------
(* One of two buses at work in a behaviour.  Memories at the pins of a part: *)
(* two banks of two words on boards that have one or both halves of the data *)
(* lines, and every driver, each within what it can address.  Or memories    *)
(* behind fjmem's core in an FPGA.  The other bus stays where it starts.     *)
EXTENDS ParallelBus

CONSTANTS
    Buses       \* which buses may be at work

VARIABLES
    bus,                                            \* the bus at work
    core, others, cellsOf, shift_q, instr_q, din_q, \* FjMem
    in, desc, at, num, reading, last, taken

fjVars == <<core, others, cellsOf, shift_q, instr_q, din_q, in, desc, at, num, reading, last, taken>>

BanksDef == {0, 1}
WordsDef == {"w0", "w1"}
FreshDef == {[is |-> "d0"], [is |-> "d1"]}
BoardsDef == {{"low"}, {"low", "high"}}

(* Drivers that select one of several banks. *)
Selecting == {"sa1110", "blackfin", "sh7727", "sh7750r", "sh7751r", "mpc5200", "mpc5200_muxed",
              "pxa2x0", "slsup3"}

AllNames == DOMAIN Drivers
ReachDef == [n \in AllNames |-> IF n \in Selecting \ {"pxa2x0"} THEN BanksDef ELSE {0}]
ReachAll == [n \in AllNames |-> IF n \in Selecting THEN BanksDef ELSE {0}]

(* h7202 asserts its write enable together with the address. *)
Settling == AllNames \ {"h7202"}

(* The driver whose selects outlast the accesses, with two banks. *)
Narrow == {"pxa2x0"}
-----------------------------------------------------------------------------
(* Blocks of words of one and two bits, growing and shrinking, in a field   *)
(* for as many blocks as there are, and in one for more; a byte is one bit.  *)
Blk(n, d) == [addr |-> n, data |-> d]
CoreOf(field, blocks) == [field |-> field, blocks |-> blocks]

MCCores ==
    {CoreOf(1, <<Blk(1, 2), Blk(1, 1)>>), CoreOf(2, <<Blk(1, 1), Blk(2, 1)>>)}

(* The second block is smaller, but taken to be larger. *)
MCShadowed == {CoreOf(1, <<Blk(5, 1), Blk(3, 2)>>)}

CONSTANTS Cores, MaxRegLen, FjReach, FjCrossing

F == INSTANCE FjMem WITH
        mem <- cellsOf, answer <- taken, Others <- {0, 2}, ByteBits <- 1,
        Reach <- FjReach, Crossing <- FjCrossing

ASSUME BusesAssumption == Buses \subseteq {"pins", "fjmem"} /\ F!FjMemAssumption

-----------------------------------------------------------------------------
BusesInit ==
    /\ bus \in Buses
    /\ Init /\ F!Init
    /\ bus = "pins" => others = 0 /\ core = CHOOSE c \in Cores : TRUE
    /\ bus = "fjmem" => name = (CHOOSE n \in Names : TRUE) /\ board = CHOOSE b \in Boards : TRUE

BusesNext ==
    \/ bus = "pins" /\ Next /\ UNCHANGED <<bus, fjVars>>
    \/ bus = "fjmem" /\ F!Next /\ UNCHANGED <<bus, vars>>

BusesSpec == BusesInit /\ [][BusesNext]_<<bus, vars, fjVars>>

-----------------------------------------------------------------------------
(* F!LayoutFound and F!FjMemorySpec.                                         *)

(* The driver finds the register, fields and blocks that the core has        *)
(* (src/bus/fjmem.c).                                                        *)
LayoutFound == F!LayoutFound

(* Reads over the core return what is stored where the call before pointed   *)
(* to, and writes store there and nowhere else (src/bus/fjmem.c).            *)
FjMemorySpec == F!FjMemorySpec
=============================================================================
