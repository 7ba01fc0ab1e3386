------------------------------ MODULE MCDetect ------------------------------
(* Detect with identities of three bits and patterns of two, on boards of    *)
(* one to three devices with and without an identity, described or not.      *)
EXTENDS Detect

Dev(n, id) == [ir |-> n, id |-> id]
A == <<1, 0, 1>>
B == <<1, 1, 0>>
C == <<1, 1, 1>>

MCBoards ==
    {<<Dev(2, A)>>, <<Dev(3, NoId)>>, <<Dev(2, A), Dev(3, B)>>,
     <<Dev(2, C), Dev(2, A)>>, <<Dev(2, NoId), Dev(2, A)>>, <<Dev(3, B), Dev(2, NoId), Dev(2, A)>>,
     <<Dev(3, B), Dev(2, A), Dev(3, B)>>}
MCDescribed == {A, B}
MCOneBoard == {<<Dev(3, NoId)>>}
MCMixed == {<<Dev(2, NoId), Dev(2, A)>>}
=============================================================================
