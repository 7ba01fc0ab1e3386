----------------------------- MODULE EagerCable -----------------------------
(***************************************************************************)
(* What UrJTAG promises the users of a cable about deferred activities:    *)
(* deferring only changes when the hardware is driven.  Seen through what  *)
(* calls return, every activity might as well happen when it is asked for, *)
(* and each result waits, in order, until the matching _late call fetches  *)
(* it.  `Cable' is shown to implement this specification.                  *)
(***************************************************************************)
EXTENDS Activity

CONSTANTS
    Deferrable,     \* the activities callers defer
    Immediate,      \* the activities callers ask for at once
    Kinds           \* the kinds of result callers fetch

VARIABLES
    line,           \* the hardware
    results,        \* the results not fetched yet, oldest first
    ret             \* what the last call returned

vars == <<line, results, ret>>

Init ==
    /\ line \in Lines
    /\ results = <<>>
    /\ ret = <<"void">>

Do(act) ==
    /\ ret' = ImmediateValue(act, line)
    /\ line' = Effect(act, line)
    /\ UNCHANGED results

Defer(act) ==
    /\ ret' = <<"ok">>
    /\ line' = Effect(act, line)
    /\ results' = results \o ResultOf(act, line)

Refuse ==
    /\ ret' = <<"fail">>
    /\ UNCHANGED <<line, results>>

(* The oldest result is of the kind asked for. *)
Fetch(kind) ==
    /\ results # <<>>
    /\ Head(results).kind = kind
    /\ ret' = StoredValue(kind, Head(results))
    /\ results' = Tail(results)
    /\ UNCHANGED line

(* There is no result, or not the one asked for: all are given up. *)
FetchNone(kind) ==
    /\ ret' = LiveValue(kind, line)
    /\ ~(results # <<>> /\ Head(results).kind = kind)
    /\ results' = <<>>
    /\ UNCHANGED line

Flush ==
    /\ ret' = <<"void">>
    /\ UNCHANGED <<line, results>>

Next ==
    \/ Flush
    \/ Refuse
    \/ \E act \in Deferrable : Defer(act)
    \/ \E kind \in Kinds : Fetch(kind) \/ FetchNone(kind)
    \/ \E act \in Immediate : Do(act)

Spec == Init /\ [][Next]_vars
=============================================================================
