----------------------------- MODULE CableQueue -----------------------------
(***************************************************************************)
(* The ring buffer behind a cable's "todo" and "done" queues: struct       *)
(* URJ_CABLE_QUEUE_INFO of include/urjtag/cable.h and the three operations *)
(* of src/tap/cable.c that change it.  The hard part is adding to a full   *)
(* queue: the array grows in place, and the items on one side of the gap   *)
(* that opens are moved so that the circular order survives.               *)
(*                                                                         *)
(* Slots and counts have the names of the C fields.  The array grows by    *)
(* `Grow' from `Initial' (both 128 in the code).  A slot that was          *)
(* allocated but never written holds `Garbage'.                            *)
(***************************************************************************)
EXTENDS Integers, Sequences

CONSTANTS
    Item,           \* contents of an urj_cable_queue_t
    NoItem,         \* reported when nothing is handed out
    Garbage,        \* contents of memory nobody wrote
    Initial,        \* slots of a new queue
    Grow,           \* slots added when a full queue is extended
    MaxItems        \* bound of the model: realloc fails beyond it

ASSUME QueueAssumption ==
    /\ Initial \in Nat \ {0}
    /\ Grow \in Nat \ {0}
    /\ MaxItems \in Nat
    /\ NoItem \notin Item
    /\ Garbage \notin Item

VARIABLES
    data,           \* q->data: the array
    max_items,      \* q->max_items: its length
    num_items,      \* q->num_items: how many slots are in use
    next_item,      \* q->next_item: the oldest
    next_free,      \* q->next_free: where the next goes
    got             \* what the caller read from the slot it was given

vars == <<data, max_items, num_items, next_item, next_free, got>>

-----------------------------------------------------------------------------
Init ==
    /\ data = [i \in 0 .. Initial - 1 |-> Garbage]
    /\ max_items = Initial
    /\ num_items = 0
    /\ next_item = 0
    /\ next_free = 0
    /\ got = NoItem

(* An index past the end of an array of n slots starts over: the code      *)
(* resets i + 1 to 0, and subtracts n from next_item + num_items.          *)
Wrap(i, n) == IF i >= n THEN i - n ELSE i

Full == num_items >= max_items

NewMax == max_items + Grow

(* num_to_move: the items between next_item and the end of the old array.  *)
AtEnd == max_items - next_item

(* The array after realloc, before anything is moved. *)
Extended ==
    [i \in 0 .. NewMax - 1 |-> IF i < max_items THEN data[i] ELSE Garbage]

(* 345612__ -> 3456__12 : the items at the end of the old array move to    *)
(* the end of the new one.                                                 *)
TailMoved ==
    [i \in 0 .. NewMax - 1 |->
        IF i >= NewMax - AtEnd THEN Extended[i - Grow] ELSE Extended[i]]

(* 561234__ -> 56123456 : the items at the start are copied to the gap,    *)
(* which is large enough for them.                                         *)
HeadCopied ==
    [i \in 0 .. NewMax - 1 |->
        IF i \in max_items .. max_items + next_free - 1
        THEN Extended[i - max_items] ELSE Extended[i]]

(* A slip the properties exclude: step 2 (cable.c:216-218) left out.       *)
HeadSplitHalf ==
    [i \in 0 .. NewMax - 1 |->
        IF i >= max_items THEN Extended[i - max_items] ELSE Extended[i]]

(* 456123__ -> __612345 -> 6__12345 : as many as fit are copied to the     *)
(* gap, the others move down to the start.                                 *)
HeadSplit ==
    [i \in 0 .. NewMax - 1 |->
        IF i >= max_items THEN Extended[i - max_items]
        ELSE IF i < next_free - Grow THEN Extended[i + Grow]
        ELSE Extended[i]]

MoveTail == next_item # 0 /\ AtEnd <= next_free

Relocated ==
    IF next_item = 0 THEN Extended
    ELSE IF MoveTail THEN TailMoved
    ELSE IF next_free <= Grow THEN HeadCopied
    ELSE HeadSplit

(* A slip: next_item not moved along with the tail (cable.c:179).          *)
RelocatedNextForgotten == next_item

RelocatedNext == IF MoveTail THEN NewMax - AtEnd ELSE next_item

(* A slip: next_free left where it was instead of cable.c:224-226.         *)
RelocatedFreeStale == next_free

RelocatedFree == Wrap(RelocatedNext + num_items, NewMax)

-----------------------------------------------------------------------------
(* urj_tap_cable_add_queue_item with room left; the caller fills the slot. *)
AddInPlace(item) ==
    /\ ~Full
    /\ data' = [data EXCEPT ![next_free] = item]
    /\ next_free' = Wrap(next_free + 1, max_items)
    /\ num_items' = num_items + 1
    /\ got' = NoItem
    /\ UNCHANGED <<max_items, next_item>>

(* urj_tap_cable_add_queue_item on a full queue whose realloc succeeds.    *)
AddResized(item) ==
    /\ Full
    /\ NewMax <= MaxItems
    /\ data' = [Relocated EXCEPT ![RelocatedFree] = item]
    /\ max_items' = NewMax
    /\ next_item' = RelocatedNext
    /\ next_free' = Wrap(RelocatedFree + 1, NewMax)
    /\ num_items' = num_items + 1
    /\ got' = NoItem

(* ... and whose realloc fails: -1, and the queue is left alone.           *)
AddFails ==
    /\ Full
    /\ got' = NoItem
    /\ UNCHANGED <<data, max_items, num_items, next_item, next_free>>

(* urj_tap_cable_get_queue_item; the slot keeps its contents.              *)
Get ==
    /\ num_items > 0
    /\ got' = data[next_item]
    /\ next_item' = Wrap(next_item + 1, max_items)
    /\ num_items' = num_items - 1
    /\ UNCHANGED <<data, max_items, next_free>>

GetEmpty ==
    /\ num_items = 0
    /\ got' = NoItem
    /\ UNCHANGED <<data, max_items, num_items, next_item, next_free>>

(* urj_tap_cable_purge_queue: the indices; what it frees is modelled in    *)
(* module Cable.                                                           *)
Purge ==
    /\ num_items' = 0
    /\ next_item' = 0
    /\ next_free' = 0
    /\ got' = NoItem
    /\ UNCHANGED <<data, max_items>>

Next ==
    \/ \E item \in Item : AddInPlace(item) \/ AddResized(item)
    \/ AddFails
    \/ Get
    \/ GetEmpty
    \/ Purge

Spec == Init /\ [][Next]_vars

-----------------------------------------------------------------------------
(* The slot of the k-th oldest item, and the items in that order.          *)
Slot(k) == Wrap(next_item + k - 1, max_items)

Contents == [k \in 1 .. num_items |-> data[Slot(k)]]

(* Types, and the sizes the queue can have. *)
TypeOK ==
    /\ max_items \in Nat \ {0}
    /\ num_items \in 0 .. max_items
    /\ next_item \in 0 .. max_items - 1
    /\ next_free \in 0 .. max_items - 1
    /\ data \in [0 .. max_items - 1 -> Item \cup {Garbage}]
    /\ got \in Item \cup {NoItem}

(* The three indices agree: the next free slot is num_items slots past the *)
(* oldest item, around the end of the array.  (cable.c:224-226, 233-238)   *)
IndicesAgree == next_free = Wrap(next_item + num_items, max_items)

(* No slot in use holds memory that nobody wrote: growing the array never  *)
(* leaves the gap that opens inside the queue.  (cable.c:153-222)          *)
NothingUnwritten == \A k \in 1 .. num_items : data[Slot(k)] \in Item

(* Callers see a plain FIFO: nothing is lost, duplicated or reordered when *)
(* the ring wraps or is relocated, and a failed add disturbs nothing.      *)
F == INSTANCE Fifo WITH fifo <- Contents

FifoSpec == F!Spec
=============================================================================
