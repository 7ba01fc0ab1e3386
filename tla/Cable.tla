------------------------------- MODULE Cable -------------------------------
(***************************************************************************)
(* A cable with its two activity queues: the calls of src/tap/cable.c and  *)
(* the two flush algorithms of src/tap/cable/generic.c.                    *)
(*                                                                         *)
(* The queues are the sequences that module CableQueue implements.  A call *)
(* that flushes first is a Begin step, the iterations of the flush loop,   *)
(* one step each, and a Finish step.                                       *)
(***************************************************************************)
EXTENDS Activity, FiniteSets, SequencesExt

CONSTANTS
    Deferrable,     \* the activities callers defer
    Immediate,      \* the activities callers ask for at once
    Kinds,          \* the kinds of result callers fetch
    StartTaps,      \* states the controller may be in at the start
    Drivers,        \* flush functions cables have: "using_transfer", "one_by_one"
    DoneMax,        \* done.max_items of a new cable (128)
    Grow,           \* slots added to a full queue (128)
    MaxPending      \* bound: activities and results under way

ASSUME CableAssumption ==
    /\ Drivers \subseteq {"using_transfer", "one_by_one"}
    /\ DoneMax \in Nat \ {0}
    /\ Grow \in Nat \ {0}
    /\ MaxPending \in Nat
    /\ StartTaps \subseteq TapStates

VARIABLES
    driver,         \* cable->driver->flush
    line,           \* the hardware
    todo,           \* cable->todo: activities not carried out, oldest first
    done,           \* cable->done: results not fetched, oldest first
    room,           \* done.max_items
    call,           \* the call that flushes the queue, or NoCall
    unwinding,      \* set_signal calls that wait for the flush they made
    ret,            \* what the last call returned
    faults          \* what happened to results given up, and to the memory before the array

vars == <<driver, line, todo, done, room, call, unwinding, ret, faults>>

(* how_much of urj_tap_cable_flush. *)
Amounts == {"OPTIONALLY", "TO_OUTPUT", "COMPLETELY"}

NoCall == [op |-> "none"]

(* The concatenation of a sequence of sequences. *)
Flat(ss) ==
    LET upto[i \in 0 .. Len(ss)] ==
            IF i = 0 THEN <<>> ELSE upto[i - 1] \o ss[i]
    IN  upto[Len(ss)]

-----------------------------------------------------------------------------
(* The queue of results. *)

(* A slip: off by one. *)
NoSpaceEarly == Len(done) + 1 >= room

(* do_one_queued_action finds the queue of results full (generic.c:97).    *)
NoSpace == Len(done) >= room

YieldsResult(act) == act.action \in {"GET_TDO", "GET_SIGNAL", "TRANSFER"}

(* ResultOf, with driver->transfer's return value: the bits it moved. *)
DoneItems(act) ==
    LET result == ResultOf(act, line)
    IN  [i \in DOMAIN result |->
            [kind |-> result[i].kind, value |-> result[i].value,
             res |-> Len(TdiBits(act))]]

(* What urj_tap_cable_purge_queue does to the buffers of the results in q: *)
(* its loop never leaves the oldest slot (cable.c:269, 286-289), so that   *)
(* transfer's buffer is freed for every item and the others' never.        *)
PurgeFaults(q) ==
    (IF q # <<>> THEN {"lost"} ELSE {})
    \cup (IF Len(q) > 1 /\ Head(q).kind = "TRANSFER" THEN {"double_free"} ELSE {})
    \cup (IF \E i \in 2 .. Len(q) : q[i].kind = "TRANSFER" THEN {"leak"} ELSE {})

-----------------------------------------------------------------------------
Init ==
    /\ driver \in Drivers
    /\ line \in {l \in Lines : l.tap \in StartTaps /\ l.high = Signals /\ l.wired}
    /\ todo = <<>>
    /\ done = <<>>
    /\ room = DoneMax
    /\ call = NoCall
    /\ unwinding = <<>>
    /\ ret = <<"void">>
    /\ faults = {}

(* A flush has work to do.  flush_using_transfer ignores an optional flush *)
(* (generic.c:203-207); flush_one_by_one never does (190-193).             *)
Flushing ==
    /\ call # NoCall
    /\ \/ todo # <<>> /\ ~(driver = "using_transfer" /\ call.how = "OPTIONALLY")
       \/ unwinding # <<>>

-----------------------------------------------------------------------------
(* Calls. *)

(* urj_tap_cable_defer_clock and its siblings: queue, then flush optionally. *)
Defer(act) ==
    /\ call = NoCall
    /\ Len(todo) + Len(done) < MaxPending
    /\ todo' = Append(todo, act)
    /\ call' = [op |-> "flush", how |-> "OPTIONALLY", fallback |-> FALSE]
    /\ ret' = <<"ok">>
    /\ UNCHANGED <<driver, line, done, room, unwinding, faults>>

(* ... when malloc or realloc fails. *)
DeferFails ==
    /\ call = NoCall
    /\ ret' = <<"fail">>
    /\ UNCHANGED <<driver, line, todo, done, room, call, unwinding, faults>>

(* urj_tap_cable_clock, get_tdo, set_signal, get_signal, transfer: flush,  *)
(* then drive the hardware.                                                *)
BeginImmediate(act) ==
    /\ call = NoCall
    /\ call' = [op |-> "do", act |-> act, how |-> "COMPLETELY", fallback |-> FALSE]
    /\ ret' = <<"void">>
    /\ UNCHANGED <<driver, line, todo, done, room, unwinding, faults>>

(* The kinds of the results owed to callers, fetched or not yet produced.  *)
Owed ==
    [i \in DOMAIN done |-> done[i].kind]
    \o Flat([i \in DOMAIN todo |->
            IF todo[i].action = "GET_SIGNAL" THEN <<todo[i].sig>>
            ELSE IF todo[i].action = "GET_TDO" THEN <<"GET_TDO">>
            ELSE IF todo[i].action = "TRANSFER" /\ todo[i].keep
            THEN <<"TRANSFER">> ELSE <<>>])

(* urj_tap_cable_transfer_late, get_tdo_late, get_signal_late. *)
BeginLate(kind) ==
    /\ call = NoCall
    /\ call' = [op |-> "late", kind |-> kind, how |-> "TO_OUTPUT", fallback |-> FALSE]
    /\ ret' = <<"void">>
    /\ UNCHANGED <<driver, line, todo, done, room, unwinding, faults>>

(* urj_tap_cable_flush. *)
BeginFlush(how) ==
    /\ call = NoCall
    /\ call' = [op |-> "flush", how |-> how, fallback |-> FALSE]
    /\ ret' = <<"void">>
    /\ UNCHANGED <<driver, line, todo, done, room, unwinding, faults>>

-----------------------------------------------------------------------------
(* The flush loop. *)

(* A slip: the test of TMS (generic.c:230-237) left out. *)
CombinableAnyTms(act) == act.action \in {"TRANSFER", "GET_TDO", "CLOCK"}

(* generic.c:219-253: the longest prefix that a single transfer can do. *)
Combinable(act) ==
    \/ act.action \in {"TRANSFER", "GET_TDO"}
    \/ act.action = "CLOCK" /\ act.tms = 0

PrefixLength ==
    CHOOSE n \in 0 .. Len(todo) :
        /\ \A i \in 1 .. n : Combinable(todo[i])
        /\ n = Len(todo) \/ ~Combinable(todo[n + 1])

(* The TDI bits of the first n activities. *)
Combined(n) == Flat([i \in 1 .. n |-> TdiBits(todo[i])])

WorthCombining == PrefixLength > 1 /\ Combined(PrefixLength) # <<>>

OneByOne == driver = "one_by_one" \/ call.fallback \/ ~WorthCombining

(* A slip: nothing is done while the done queue is full (generic.c:106 asks *)
(* whether it "shouldn't ... bail out").                                   *)
DoOneBailsOut ==
    /\ Flushing
    /\ todo # <<>>
    /\ OneByOne
    /\ Head(todo).action # "SET_SIGNAL"
    /\ ~NoSpace \/ ~YieldsResult(Head(todo))
    /\ line' = Effect(Head(todo), line)
    /\ done' = done \o DoneItems(Head(todo))
    /\ todo' = Tail(todo)
    /\ UNCHANGED <<driver, room, call, unwinding, ret, faults>>

(* do_one_queued_action, any action but SET_SIGNAL. *)
DoOne ==
    /\ Flushing
    /\ todo # <<>>
    /\ OneByOne
    /\ Head(todo).action # "SET_SIGNAL"
    /\ LET act == Head(todo)
           full == NoSpace /\ YieldsResult(act)
       IN  /\ line' = Effect(act, line)
           /\ done' = (IF full THEN <<>> ELSE done) \o DoneItems(act)
           /\ faults' = faults \cup (IF full THEN PurgeFaults(done) ELSE {})
    /\ todo' = Tail(todo)
    /\ UNCHANGED <<driver, room, call, unwinding, ret>>

(* do_one_queued_action of a SET_SIGNAL: it calls urj_tap_cable_set_signal, *)
(* which flushes what is left of the queue before it drives the signal.    *)
(* The mask it passes is arg.value.sig, which nobody set.                  *)
DoSetSignal(mask) ==
    /\ Flushing
    /\ todo # <<>>
    /\ OneByOne
    /\ Head(todo).action = "SET_SIGNAL"
    /\ unwinding' = Append(unwinding, [mask |-> mask, val |-> Head(todo).val])
    /\ todo' = Tail(todo)
    /\ call' = [call EXCEPT !.fallback = FALSE]
    /\ UNCHANGED <<driver, line, done, room, ret, faults>>

(* ... and its return from that flush. *)
Unwind ==
    /\ Flushing
    /\ todo = <<>>
    /\ LET set == Last(unwinding)
       IN  line' = DriverSetSignal(line, set.mask, set.val)
    /\ unwinding' = Front(unwinding)
    /\ UNCHANGED <<driver, todo, done, room, call, ret, faults>>

(* generic.c:322-371: the results of the first n activities, picked from   *)
(* the transfer x that did them all.                                       *)
Picked(n, x) ==
    LET bits == Len(x.out)
        result(j) ==
            LET before == Len(Combined(j - 1))
                act == todo[j]
            IN  CASE act.action = "GET_TDO" ->
                        <<[kind |-> "GET_TDO",
                           value |-> IF before < bits THEN x.out[before + 1]
                                     ELSE Tdo(x.line),
                           res |-> 0]>>
                  [] act.action = "TRANSFER" /\ act.keep ->
                        <<[kind |-> "TRANSFER",
                           value |-> SubSeq(x.out, before + 1, before + Len(act.in)),
                           res |-> bits]>>
                  [] OTHER -> <<>>
    IN  Flat([j \in 1 .. n |-> result(j)])

(* done.max_items once n results are stored: the queue grows when full.    *)
RoomFor(n) ==
    CHOOSE r \in room .. room + n * Grow :
        /\ (r - room) % Grow = 0
        /\ r >= n
        /\ r = room \/ r - Grow < n

(* One iteration of flush_using_transfer that combines. *)
Combine ==
    /\ Flushing
    /\ todo # <<>>
    /\ ~OneByOne
    /\ LET n == PrefixLength
           x == DriverTransfer(line, Combined(n))
       IN  /\ line' = x.line
           /\ done' = done \o Picked(n, x)
           /\ room' = RoomFor(Len(done'))
           /\ todo' = SubSeq(todo, n + 1, Len(todo))
    /\ UNCHANGED <<driver, call, unwinding, ret, faults>>

(* ... when the done queue is full and cannot grow: nobody looks at the    *)
(* index -1 that urj_tap_cable_add_queue_item returns (generic.c:332, 351) *)
(* and the results are written before the array.                           *)
CombineOverflows ==
    /\ Flushing
    /\ todo # <<>>
    /\ ~OneByOne
    /\ LET n == PrefixLength
           x == DriverTransfer(line, Combined(n))
           results == done \o Picked(n, x)
       IN  /\ line' = x.line
           /\ \E r \in room .. Len(results) - 1 :
                /\ (r - room) % Grow = 0
                /\ room' = r
                /\ done' = SubSeq(results, 1, r)
           /\ todo' = SubSeq(todo, n + 1, Len(todo))
    /\ faults' = faults \cup {"lost", "out_of_bounds"}
    /\ UNCHANGED <<driver, call, unwinding, ret>>

(* ... when there is no memory for its buffers (generic.c:271-280): the    *)
(* rest is flushed one by one.                                             *)
CombineFails ==
    /\ Flushing
    /\ todo # <<>>
    /\ ~OneByOne
    /\ call' = [call EXCEPT !.fallback = TRUE]
    /\ UNCHANGED <<driver, line, todo, done, room, unwinding, ret, faults>>

-----------------------------------------------------------------------------
(* The rest of the call, after its flush. *)

Finishing(op) == call # NoCall /\ ~Flushing /\ call.op = op

FinishFlush ==
    /\ Finishing("flush")
    /\ call' = NoCall
    /\ UNCHANGED <<driver, line, todo, done, room, unwinding, ret, faults>>

FinishImmediate ==
    /\ Finishing("do")
    /\ line' = Effect(call.act, line)
    /\ ret' = ImmediateValue(call.act, line)
    /\ call' = NoCall
    /\ UNCHANGED <<driver, todo, done, room, unwinding, faults>>

(* Without a result transfer_late looks at the item before the array       *)
(* (cable.c:458), which decides on a warning and a purge of nothing.       *)
FinishLate ==
    /\ Finishing("late")
    /\ IF done # <<>> /\ Head(done).kind = call.kind
       THEN /\ ret' = StoredValue(call.kind, Head(done))
            /\ done' = Tail(done)
            /\ UNCHANGED faults
       ELSE /\ ret' = LiveValue(call.kind, line)
            /\ done' = <<>>
            /\ faults' = faults \cup
                (IF done = <<>> THEN {}
                 ELSE {"lost"} \cup PurgeFaults(Tail(done)) \cup
                      (IF Head(done).kind = "TRANSFER" THEN {"leak"} ELSE {}))
    /\ call' = NoCall
    /\ UNCHANGED <<driver, line, todo, room, unwinding>>

-----------------------------------------------------------------------------
Next ==
    \/ \E act \in Deferrable : Defer(act)
    \/ DeferFails
    \/ \E act \in Immediate : BeginImmediate(act)
    \/ \E kind \in Kinds : BeginLate(kind)
    \/ \E how \in Amounts : BeginFlush(how)
    \/ DoOne
    \/ \E mask \in SUBSET Signals : DoSetSignal(mask)
    \/ Unwind
    \/ Combine
    \/ CombineOverflows
    \/ CombineFails
    \/ FinishFlush
    \/ FinishImmediate
    \/ FinishLate

(* The steps of a call under way: the program never stops in the middle.   *)
CallStep ==
    \/ DoOne
    \/ \E mask \in SUBSET Signals : DoSetSignal(mask)
    \/ Unwind
    \/ Combine
    \/ CombineOverflows
    \/ CombineFails
    \/ FinishFlush
    \/ FinishImmediate
    \/ FinishLate

Spec == Init /\ [][Next]_vars /\ WF_vars(CallStep)

-----------------------------------------------------------------------------
TypeOK ==
    /\ line \in Lines
    /\ todo \in Seq(Deferrable)
    /\ \A i \in DOMAIN done : done[i].kind \in {"TRANSFER", "GET_TDO"} \cup Signals
    /\ room \in Nat
    /\ call = NoCall \/ call.op \in {"do", "late", "flush"}
    /\ \A i \in DOMAIN unwinding : unwinding[i].val \subseteq Signals
    /\ faults \subseteq {"lost", "double_free", "leak", "out_of_bounds"}

(* The eager cable this one stands for: the activities still queued are    *)
(* carried out and their results appended.                                 *)
Drained ==
    LET after[i \in 0 .. Len(todo)] ==
            IF i = 0
            THEN [line |-> line,
                  results |-> [j \in DOMAIN done |->
                                [kind |-> done[j].kind, value |-> done[j].value]]]
            ELSE LET st == after[i - 1]
                 IN  [line |-> Effect(todo[i], st.line),
                      results |-> st.results \o ResultOf(todo[i], st.line)]
    IN  after[Len(todo)]

(* Deferral cannot be observed.  The two flush algorithms, the combination *)
(* of activities into one transfer and the fallback when memory is short   *)
(* all give the hardware the same TMS and TDI sequence and the callers the *)
(* same results, in the order of the requests (generic.c:86-381,           *)
(* doc/UrJTAG.txt:1196-1242).                                              *)
Eager == INSTANCE EagerCable WITH line <- Drained.line, results <- Drained.results
EagerSpec == Eager!Spec

(* Results are given up, or a queue is left, only by a _late call that does *)
(* not ask for the oldest result owed: callers that fetch what they         *)
(* deferred, in that order, get all of it, and no flush finds the done      *)
(* queue full (cable.c:333-339, 394-407, 458, generic.c:97-108, 332, 351).  *)
NothingLost ==
    [][faults' # faults =>
        Finishing("late") /\ (Owed = <<>> \/ Head(Owed) # call.kind)]_vars

(* What a fetched transfer returns is "the number of transferred bits"     *)
(* (include/urjtag/cable.h:209).                                           *)
TransferLateCountsItsBits ==
    \A i \in DOMAIN done :
        done[i].kind = "TRANSFER" => done[i].res = Len(done[i].value)

(* Every call returns, whatever is queued: the flush loops, which nest     *)
(* through set_signal, end (generic.c:193, 209-380).                       *)
CallsReturn == (call # NoCall) ~> (call = NoCall)
=============================================================================
