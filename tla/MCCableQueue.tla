---------------------------- MODULE MCCableQueue ----------------------------
(* The ring buffer with two-slot steps instead of 128: after three          *)
(* extensions every relocation case of cable.c:160-222 has happened.        *)
EXTENDS CableQueue
=============================================================================
