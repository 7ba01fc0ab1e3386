-------------------------------- MODULE Fifo --------------------------------
(***************************************************************************)
(* What a caller of the cable's activity queues relies on: an unbounded    *)
(* first-in first-out queue.  `CableQueue', the ring buffer of             *)
(* src/tap/cable.c, is shown to implement this specification.              *)
(***************************************************************************)
EXTENDS Sequences

CONSTANTS
    Item,       \* what is queued: one JTAG activity, or one result
    NoItem      \* what a get reports when the queue is empty

VARIABLES
    fifo,       \* the queued items, oldest first
    got         \* the item the last operation handed out, or NoItem

vars == <<fifo, got>>

Init == fifo = <<>> /\ got = NoItem

(* urj_tap_cable_add_queue_item followed by the caller's store. *)
Put(item) ==
    /\ fifo' = Append(fifo, item)
    /\ got' = NoItem

(* urj_tap_cable_add_queue_item that returns -1: nothing may be disturbed. *)
PutRefused ==
    /\ got' = NoItem
    /\ UNCHANGED fifo

(* urj_tap_cable_get_queue_item followed by the caller's load. *)
Take ==
    /\ fifo # <<>>
    /\ got' = Head(fifo)
    /\ fifo' = Tail(fifo)

TakeEmpty ==
    /\ fifo = <<>>
    /\ got' = NoItem
    /\ UNCHANGED fifo

(* urj_tap_cable_purge_queue. *)
Purge ==
    /\ fifo' = <<>>
    /\ got' = NoItem

Next ==
    \/ \E item \in Item : Put(item)
    \/ PutRefused
    \/ Take
    \/ TakeEmpty
    \/ Purge

Spec == Init /\ [][Next]_vars
=============================================================================
