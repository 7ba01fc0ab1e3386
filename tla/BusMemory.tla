------------------------------ MODULE BusMemory ------------------------------
(* What doc/UrJTAG.txt:1387-1434 promises of the access functions of a bus   *)
(* driver.  bus_read_next() returns what is stored where the call before it  *)
(* pointed to; its own address is that of the following access.              *)
(* bus_read_end() returns the last one, bus_write() stores one element.      *)

CONSTANTS
    Address,    \* the locations
    Nowhere     \* no read sequence is under way

VARIABLES
    contents,   \* what is stored
    addressed,  \* where the read sequence points to
    answer      \* what the last read returned

vars == <<contents, addressed, answer>>

ReadStart(a) ==
    /\ addressed' = a
    /\ UNCHANGED <<contents, answer>>

ReadNext(a) ==
    /\ addressed # Nowhere
    /\ answer' = contents[addressed]
    /\ addressed' = a
    /\ UNCHANGED contents

ReadEnd ==
    /\ addressed # Nowhere
    /\ answer' = contents[addressed]
    /\ addressed' = Nowhere
    /\ UNCHANGED contents

Write(a, d) ==
    /\ contents' = [contents EXCEPT ![a] = d]
    /\ UNCHANGED <<addressed, answer>>

Init == addressed = Nowhere

Next ==
    \/ \E a \in Address : ReadStart(a) \/ ReadNext(a)
    \/ ReadEnd
    \/ \E a \in Address : Write(a, contents'[a])

Spec == Init /\ [][Next]_vars
=============================================================================
