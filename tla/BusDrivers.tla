------------------------------ MODULE BusDrivers ------------------------------
(* The bus drivers that reach a memory over the boundary scan register       *)
(* (src/bus/...).  An access function of such a driver sets signals in the   *)
(* register and shifts it; the pins follow when the shift is over.  So a     *)
(* function is a script, a sequence of shifts, each with the signals that    *)
(* were set before it.  A signal nobody sets keeps its cell.                 *)
(*                                                                           *)
(* Levels are written as asserted or not, whatever the polarity of the pin.  *)
EXTENDS Naturals, Sequences

CONSTANTS
    Banks,      \* what a chip select selects, 0 is the flash a board boots from
    Words       \* the locations within one

Address == [bank : Banks, word : Words]

(* What setup_address, setup_data and set_data_in do to the data lines: they *)
(* show the address (on a multiplexed bus), the data given, or nothing.      *)
Shown == [is |-> "address"]
Given == [is |-> "given"]
Float == [is |-> "float"]

-----------------------------------------------------------------------------
(* Shifts: the chip selects set before, the other lines set before, and      *)
(* whether what the pins show is captured (by the capture that begins it).   *)

Keep == << >>

(* What is set, and what there is where nothing is. *)
Over(f, g) == [x \in DOMAIN f \cup DOMAIN g |-> IF x \in DOMAIN f THEN f[x] ELSE g[x]]

Out(sel, lines) == [sel |-> sel, lines |-> lines, capture |-> FALSE]

In(sel, lines) == [sel |-> sel, lines |-> lines, capture |-> TRUE]

(* How the bank read or written is selected: all chip selects are set, that  *)
(* of the bank asserted; or always that of bank 0; only the driver's one     *)
(* chip select is set, always or if the address is within its bank; only     *)
(* that of the bank is set and the others keep their level.                  *)
OneOf(b) == [c \in Banks |-> c = b]
Boot(b) == OneOf(0)
Single(b) == [c \in {0} |-> TRUE]
SingleOf(b) == [c \in {0} |-> c = b]
Only(b) == [c \in {b} |-> TRUE]

(* What is released at the end. *)
AllReleased == [c \in Banks |-> FALSE]
FirstReleased == [c \in {0} |-> FALSE]

-----------------------------------------------------------------------------
(* The access functions most drivers have, by how they select a bank and     *)
(* what they release after a read and after a write.                         *)

(* A slip: the data lines keep what was written last. *)
ReadingDriven(a) == [oe |-> TRUE, we |-> FALSE, addr |-> a.word]

Reading(a) == [oe |-> TRUE, we |-> FALSE, addr |-> a.word, data |-> Float]

Writing(a) == [oe |-> FALSE, we |-> FALSE, addr |-> a.word, data |-> Given]

Plain(select(_), afterRead, afterWrite) ==
    [start |-> [a \in Address |-> <<Out(select(a.bank), Reading(a))>>],
     next  |-> [a \in Address |-> <<In(Keep, [addr |-> a.word])>>],
     end   |-> <<In(afterRead, [oe |-> FALSE])>>,
     write |-> [a \in Address |-> <<Out(select(a.bank), Writing(a)),
                                    Out(Keep, [we |-> TRUE]),
                                    Out(afterWrite, [we |-> FALSE])>>]]

(* Drivers of a flash at a fixed chip select, whose writes take it that the  *)
(* write enable is idle when they start.                                     *)
Expansion ==
    [Plain(Boot, AllReleased, AllReleased) EXCEPT !.write = [a \in Address |->
        <<Out(Boot(a.bank), [oe |-> FALSE, addr |-> a.word, data |-> Given]),
          Out(Keep, [we |-> TRUE]),
          Out(AllReleased, [we |-> FALSE])>>]]

-----------------------------------------------------------------------------
(* The drivers *)

Prototype == Plain(Single, FirstReleased, FirstReleased)

Ppc405ep == Plain(Single, FirstReleased, FirstReleased)

Ppc440gx == Plain(Single, FirstReleased, FirstReleased)

Mpc8313 == Plain(Single, FirstReleased, FirstReleased)

Mpc824x == Plain(Single, FirstReleased, FirstReleased)

Lh7a400 == Plain(SingleOf, FirstReleased, FirstReleased)

(* Each memory of these boards has pins of its own: one memory at a time. *)
Jopcyc == Plain(Single, FirstReleased, FirstReleased)

ZefantXs3 == Plain(Single, FirstReleased, FirstReleased)

Bscoach == Plain(Boot, AllReleased, AllReleased)

Au1500 == Plain(Boot, AllReleased, AllReleased)

Sa1110 == Plain(OneOf, AllReleased, AllReleased)

Ixp425 == Expansion

Ixp435 == Expansion

Ixp465 == Expansion

Tx4925 == Expansion

(* A slip: the other chip selects keep their levels. *)
Sh7727Only == Plain(Only, FirstReleased, Keep)

(* Chip selects are not released after writes. *)
Sh7727 == Plain(OneOf, AllReleased, Keep)

Sh7750r == Plain(OneOf, AllReleased, Keep)

Sh7751r == Plain(OneOf, AllReleased, Keep)

Mpc5200 == Plain(OneOf, AllReleased, Keep)

Mpc837x == Plain(Boot, AllReleased, Keep)

Bcm1250 == Plain(Boot, FirstReleased, Keep)

Sharc21065l == Plain(Single, FirstReleased, Keep)

(* Reads release bank 0 whichever was read. *)
Pxa2x0 == Plain(Only, FirstReleased, Keep)

(* area(), which each access function calls, selects the bank. *)
Sharc21369 ==
    [Plain(SingleOf, Single(0), Keep) EXCEPT !.next = [a \in Address |->
        <<In(SingleOf(a.bank), [addr |-> a.word])>>]]

(* setup_address() selects the bank, nothing releases it. *)
Slsup3 ==
    [Plain(OneOf, Keep, Keep) EXCEPT !.next = [a \in Address |->
        <<In(OneOf(a.bank), [addr |-> a.word])>>]]

(* The write enable is asserted together with address and data. *)
H7202 ==
    [Plain(Boot, AllReleased, AllReleased) EXCEPT !.write = [a \in Address |->
        <<Out(Boot(a.bank), [Writing(a) EXCEPT !.we = TRUE]),
          Out(AllReleased, [we |-> FALSE])>>]]

(* The output enable is asserted along with the write enable. *)
Blackfin ==
    [Plain(OneOf, AllReleased, AllReleased) EXCEPT !.write = [a \in Address |->
        <<Out(OneOf(a.bank), Writing(a)),
          Out(Keep, [we |-> TRUE, oe |-> TRUE]),
          Out(AllReleased, [we |-> FALSE, oe |-> FALSE])>>]]

(* All the control lines are set for every shift, address and data again     *)
(* when the write enables are asserted.                                      *)
S3c4510 ==
    [Plain(Boot, AllReleased, AllReleased) EXCEPT
        !.next  = [a \in Address |-> <<In(Boot(0), Reading(a))>>],
        !.write = [a \in Address |-> <<Out(Boot(0), Writing(a)),
                                       Out(Boot(0), [Writing(a) EXCEPT !.we = TRUE]),
                                       Out(AllReleased, [oe |-> FALSE, we |-> FALSE])>>]]

-----------------------------------------------------------------------------
(* Multiplexed buses: the address is shown on the data lines and held by a   *)
(* latch on the board, which is open while ale is asserted.                  *)

Showing(a) == [addr |-> a.word, data |-> Shown, ale |-> TRUE]

Mpc837xMuxed ==
    [start |-> [a \in Address |-> <<Out(Boot(a.bank), Over([oe |-> FALSE, we |-> FALSE], Showing(a))),
                                    Out(Keep, [ale |-> FALSE, oe |-> TRUE])>>],
     next  |-> [a \in Address |-> <<Out(Keep, [data |-> Float]),
                                    In(Keep, Keep),
                                    Out(Keep, Over([oe |-> FALSE], Showing(a))),
                                    Out(Keep, [ale |-> FALSE, oe |-> TRUE])>>],
     end   |-> <<Out(Keep, [data |-> Float]),
                 In(AllReleased, [ale |-> TRUE, oe |-> FALSE])>>,
     write |-> [a \in Address |-> <<Out(Keep, Over([oe |-> FALSE, we |-> FALSE], Showing(a))),
                                    Out(Keep, [ale |-> FALSE]),
                                    Out(Boot(a.bank), [data |-> Given]),
                                    Out(Keep, [we |-> TRUE]),
                                    Out(Keep, [we |-> FALSE])>>]]

Mpc5200Muxed ==
    [start |-> [a \in Address |-> <<Out(OneOf(a.bank), Over([oe |-> TRUE, we |-> FALSE], Showing(a))),
                                    Out(Keep, [ale |-> FALSE])>>],
     next  |-> [a \in Address |-> <<Out(Keep, [data |-> Float]),
                                    In(Keep, Keep),
                                    Out(Keep, Showing(a)),
                                    Out(Keep, [ale |-> FALSE])>>],
     end   |-> <<Out(Keep, [data |-> Float]),
                 In(AllReleased, [oe |-> FALSE])>>,
     write |-> [a \in Address |-> <<Out(Keep, Showing(a)),
                                    Out(Keep, [ale |-> FALSE]),
                                    Out(OneOf(a.bank), [oe |-> FALSE, we |-> FALSE, data |-> Given]),
                                    Out(Keep, [we |-> TRUE]),
                                    Out(Keep, [we |-> FALSE])>>]]

-----------------------------------------------------------------------------
Drivers ==
    [prototype |-> Prototype, ppc405ep |-> Ppc405ep, ppc440gx_ebc8 |-> Ppc440gx,
     mpc8313 |-> Mpc8313, mpc824x |-> Mpc824x, lh7a400 |-> Lh7a400, jopcyc |-> Jopcyc,
     zefant_xs3 |-> ZefantXs3, bscoach |-> Bscoach, au1500 |-> Au1500, sa1110 |-> Sa1110,
     ixp425 |-> Ixp425, ixp435 |-> Ixp435, ixp465 |-> Ixp465, tx4925 |-> Tx4925,
     sh7727 |-> Sh7727, sh7750r |-> Sh7750r, sh7751r |-> Sh7751r, mpc5200 |-> Mpc5200,
     mpc837x |-> Mpc837x, bcm1250 |-> Bcm1250, sharc_21065L |-> Sharc21065l,
     pxa2x0 |-> Pxa2x0, sharc_21369_ezkit |-> Sharc21369, slsup3 |-> Slsup3,
     h7202 |-> H7202, blackfin |-> Blackfin, s3c4510x |-> S3c4510,
     mpc837x_muxed |-> Mpc837xMuxed, mpc5200_muxed |-> Mpc5200Muxed]

Muxed == {"mpc837x_muxed", "mpc5200_muxed"}

-----------------------------------------------------------------------------
(* Width.  Most drivers know the width of the memory.  These read it from    *)
(* strapping pins, that is from the register that holds what was captured    *)
(* last; before any capture all its bits are 0.                              *)
Strapped == {"sa1110", "lh7a400", "au1500", "sh7727", "s3c4510x"}

(* The halves of the data lines they use, nothing having been captured. *)
UnseenWidth(name) ==
    CASE name \in {"sa1110", "lh7a400"}  -> {"low"}
      [] name = "au1500"                 -> {"low", "high"}
      [] name \in {"sh7727", "s3c4510x"} -> {}

Unseen == {"unseen"}

Width(name, board, seen) ==
    IF name \in Strapped /\ seen = Unseen THEN UnseenWidth(name) ELSE board

(* Its data are taken from the lines after the width has been read anew.     *)
AsksAgain == {"au1500"}
=============================================================================
