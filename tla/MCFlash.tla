------------------------------- MODULE MCFlash -------------------------------
(* Flash chips of a block of two words and one of one, words of two bits,     *)
(* one of them DQ7; files shorter and longer than a block and than the *)
(* part of a file that is read at once.                                      *)
EXTENDS Flash

RegionsDef == <<[blocks |-> 1, size |-> 2], [blocks |-> 1, size |-> 1]>>
BitsDef == {0, 7}
ContentsDef == {{}}
FilesDef == {<<{0}, {7}>>, <<{7}, {}, {0, 7}>>}
=============================================================================
