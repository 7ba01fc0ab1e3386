------------------------------ MODULE Session ------------------------------
(***************************************************************************)
(* Who owns what between commands: chains, the cables they are connected   *)
(* to, the parts found on them, and the buses that drive parts, in the     *)
(* list and the active bus that are global to the process                  *)
(* (src/tap/cable.c, src/tap/chain.c, src/tap/detect.c, src/bus/buses.c).  *)
(*                                                                         *)
(* An object that is not live may be allocated afresh once nothing points  *)
(* to it.  `faults' records what C leaves undefined: a block freed twice,  *)
(* or used after it was freed, a null pointer followed.  After one,        *)
(* nothing more is said.                                                   *)
(***************************************************************************)
EXTENDS Integers, SequencesExt

CONSTANTS
    Chains, Cables, PartLists, Buses,   \* objects there is memory for
    Ports,              \* addresses of parallel ports
    PortsOf(_),         \* those the cables of a chain are connected to
    MaxParts,           \* bound on the parts of a chain
    ConnectOutcomes, BusOutcomes, PartOutcomes, \* what may go wrong (below)
    ShrinkFails,        \* TRUE: realloc may fail to shrink the list of buses
    Programs            \* of {"jtag", "python"}: the command, a script

Null == "NULL"
NoPort == "no port"     \* cables that are not at a parallel port

ASSUME SessionAssumption ==
    /\ MaxParts \in Nat \ {0}
    /\ Null \notin Chains \cup Cables \cup PartLists \cup Buses
    /\ ShrinkFails \in BOOLEAN
    /\ Programs \subseteq {"jtag", "python"}
    /\ \A c \in Chains : PortsOf(c) \subseteq Ports \cup {NoPort}
    /\ ConnectOutcomes \subseteq
        {"ok", "no_cable", "refused", "no_todo", "no_done", "no_queues", "init_fails"}
    /\ BusOutcomes \subseteq {"ok", "refused", "no_list", "init_fails"}
    /\ PartOutcomes \subseteq {"ok", "no_list", "no_part"}

VARIABLES
    program,    \* the jtag command, or Python with the bindings
    s,          \* [chains, cables, partLists, buses, list, active, faults]
    last        \* the command carried out last, and whether it succeeded

vars == <<program, s, last>>

NoCable == [live |-> FALSE, port |-> NoPort, chain |-> Null, todo |-> "null", done |-> "null"]
NoParts == [live |-> FALSE, len |-> 0]
NoBus == [live |-> FALSE, chain |-> Null, parts |-> Null]

Faults == {"cable freed twice", "cable used after free", "queue freed twice",
           "parts freed twice", "bus freed twice", "bus used after free",
           "chain or part used after free", "null cable followed"}

Fault(t, f) == [t EXCEPT !.faults = @ \cup {f}]
FaultIf(t, p, f) == IF p THEN Fault(t, f) ELSE t

-----------------------------------------------------------------------------
(* Functions of the program, as what they make of the session. *)

Listed(t, b) == \E i \in DOMAIN t.list : t.list[i] = b

(* A slip: the active bus not looked at. *)
DeletedOnly(t, b, shrinks) ==
    IF ~Listed(t, b) THEN t
    ELSE [t EXCEPT !.list = RemoveFirst(@, b)]

(* urj_bus_buses_delete: takes a bus off the list and does not free it. *)
Deleted(t, b, shrinks) ==
    IF ~Listed(t, b) THEN t
    ELSE LET rest == RemoveFirst(t.list, b)
         IN  [t EXCEPT !.list = rest,
                       !.active = IF @ # b \/ (rest # <<>> /\ ~shrinks) THEN @
                                  ELSE IF rest = <<>> THEN Null
                                  ELSE Head(rest)]

LiveBuses(t) == {b \in Buses : t.buses[b].live}

FreeBus(t, b) ==
    FaultIf([t EXCEPT !.buses[b] = NoBus], b \notin LiveBuses(t), "bus freed twice")

(* A slip: the buses kept.                                                 *)
BusesKept(t) == t

(* urj_bus_buses_free: every bus in the list is freed as often as it is    *)
(* there.                                                                  *)
BusesFreed(t) ==
    [FaultIf(t, ~IsInjective(t.list) \/ ~(ToSet(t.list) \subseteq LiveBuses(t)),
             "bus freed twice")
        EXCEPT !.buses = [b \in Buses |-> IF Listed(t, b) THEN NoBus ELSE @[b]],
               !.list = <<>>, !.active = Null]

(* urj_part_parts_free, and the pointer cleared. *)
PartsFreed(t, c) ==
    LET p == t.chains[c].parts
    IN  IF p = Null THEN t
        ELSE [FaultIf(t, ~t.partLists[p].live, "parts freed twice")
                EXCEPT !.partLists[p] = NoParts, !.chains[c].parts = Null]

(* urj_tap_cable_done: the queues are freed if todo.data is not null. *)
CableDone(t, k) ==
    LET q == t.cables[k]
    IN  IF q.todo = "null" THEN t
        ELSE [FaultIf(t, "freed" \in {q.todo, q.done}, "queue freed twice") EXCEPT
                !.cables[k].todo = "freed",
                !.cables[k].done = IF q.done = "null" THEN "null" ELSE "freed"]

(* A slip: the chain keeps its pointer to the cable freed. *)
DisconnectedDangling(t, c) ==
    LET k == t.chains[c].cable
    IN  IF k = Null THEN t
        ELSE [FaultIf(CableDone(t, k), ~t.cables[k].live, "cable freed twice") EXCEPT
                !.cables[k] = NoCable]

(* urj_tap_chain_disconnect. *)
Disconnected(t, c) ==
    LET k == t.chains[c].cable
    IN  IF k = Null THEN t
        ELSE [FaultIf(CableDone(t, k), ~t.cables[k].live, "cable freed twice") EXCEPT
                !.cables[k] = NoCable, !.chains[c].cable = Null]

(* Pointers to objects of each kind. *)
CablesPointedTo(t) == {t.chains[c].cable : c \in Chains}
PartsPointedTo(t) ==
    {t.chains[c].parts : c \in Chains}
        \cup {t.buses[b].parts : b \in LiveBuses(t)}
BusesPointedTo(t) == {t.active} \cup ToSet(t.list)

FreshCables(t) == {k \in Cables \ CablesPointedTo(t) : ~t.cables[k].live}
FreshParts(t) == {p \in PartLists \ PartsPointedTo(t) : ~t.partLists[p].live}
FreshBuses(t) == Buses \ (BusesPointedTo(t) \cup LiveBuses(t))

(* A slip: the cable the chain has is forgotten. *)
CreatedOver(t, c, shrinks) ==
    IF t.active = Null THEN t ELSE Deleted(t, t.active, shrinks)

(* What urj_tap_cable_create does away with. *)
Created(t, c, shrinks) ==
    Disconnected(IF t.active = Null THEN t ELSE Deleted(t, t.active, shrinks), c)

PortTaken(t, p) == p # NoPort /\ \E k \in Cables : t.cables[k].live /\ t.cables[k].port = p

(* urj_tap_cable_start, urj_tap_cable_init: what could be allocated of the *)
(* queues is freed when the rest could not, and the pointers stay.         *)
Started(t, c, k, p, outcome) ==
    LET queue(failing) ==
            IF outcome \in failing \cup {"no_queues"} THEN "null"
            ELSE IF outcome \in {"no_todo", "no_done"} THEN "freed"
            ELSE "live"
        begun == [t EXCEPT !.chains[c].cable = k,
                    !.cables[k] = [live |-> TRUE, port |-> p, chain |-> Null,
                                   todo |-> queue({"no_todo"}),
                                   done |-> queue({"no_done"})]]
    IN  IF outcome = "ok"
        THEN [begun EXCEPT !.cables[k].chain = c]
        ELSE Disconnected(begun, c)

(* urj_bus_init_bus: a bus that fails to initialize is freed, and stays in *)
(* the list.                                                               *)
BusAdded(t, c, b, outcome) ==
    IF outcome \in {"refused", "no_list"} THEN t
    ELSE LET added == [t EXCEPT
                !.buses[b] = [live |-> TRUE, chain |-> c, parts |-> t.chains[c].parts],
                !.list = Append(@, b),
                !.active = IF @ = Null THEN b ELSE @]
         IN  IF outcome = "ok" THEN added ELSE FreeBus(added, b)

(* What a bus driver's functions follow: bus->chain, bus->part and, for    *)
(* every shift, bus->chain->cable.                                         *)
Used(t, b) ==
    LET bus == t.buses[b]
        holder == t.chains[bus.chain]
    IN  IF ~bus.live THEN Fault(t, "bus used after free")
        ELSE IF ~holder.alloc \/ ~t.partLists[bus.parts].live
             THEN Fault(t, "chain or part used after free")
        ELSE FaultIf(t, holder.cable = Null, "null cable followed")

-----------------------------------------------------------------------------
(* A script may have several chains, the jtag command has one.             *)
Init ==
    /\ program \in Programs
    /\ \E allocated \in SUBSET Chains :
        /\ program = "python" => allocated = Chains
        /\ program = "jtag" => \E c \in Chains : allocated = {c}
        /\ s = [chains    |-> [c \in Chains |-> [alloc |-> c \in allocated,
                                                cable |-> Null, parts |-> Null]],
                cables    |-> [k \in Cables |-> NoCable],
                partLists |-> [p \in PartLists |-> NoParts],
                buses     |-> [b \in Buses |-> NoBus],
                list      |-> <<>>,
                active    |-> Null,
                faults    |-> {}]
    /\ last = [op |-> "other"]

Runs(c) == s.faults = {} /\ s.chains[c].alloc
HasCable(c) == s.chains[c].cable # Null          \* urj_cmd_test_cable
HasActivePart(c) ==
    LET p == s.chains[c].parts IN p # Null /\ s.partLists[p].len > 0

Ends(op, c, ok) ==
    /\ last' = [op |-> op, chain |-> c, ok |-> ok]
    /\ UNCHANGED program

Done ==
    /\ last' = [op |-> "other"]
    /\ UNCHANGED program

(* urj_tap_chain_connect, after its parameters are found to be good. *)
Connect(c, p, outcome) ==
    /\ Runs(c)
    /\ p \in PortsOf(c)
    /\ \E shrinks \in {TRUE, ~ShrinkFails} :
        LET t == Created(s, c, shrinks)
        IN  \/ /\ outcome = "no_cable"
               /\ s' = t
            \/ /\ outcome # "no_cable" /\ PortTaken(t, p)
               /\ s' = Fault(t, "null cable followed")
            \/ /\ outcome = "refused" /\ ~PortTaken(t, p)
               /\ s' = t
            \/ /\ outcome \notin {"no_cable", "refused"} /\ ~PortTaken(t, p)
               /\ \E k \in FreshCables(t) : s' = Started(t, c, k, p, outcome)
    /\ Ends("connect", c, outcome = "ok")

(* urj_pyc_disconnect. *)
Disconnect(c) ==
    /\ program = "python"
    /\ Runs(c)
    /\ s' = Disconnected(s, c)
    /\ Done

(* A cable operation: the cable and its queues are read and written. *)
UseCable(c) ==
    /\ Runs(c) /\ HasCable(c)
    /\ LET k == s.cables[s.chains[c].cable]
       IN  s' = FaultIf(s, ~k.live \/ k.todo # "live" \/ k.done # "live",
                        "cable used after free")
    /\ Done

(* urj_tap_detect, when it finds no parts. *)
DetectNone(c) ==
    /\ Runs(c) /\ HasCable(c)
    /\ s' = PartsFreed(BusesFreed(s), c)
    /\ Done

(* urj_tap_detect, when it finds n parts; the description of one of them   *)
(* may have an initbus.  Buses are initialized at the end.                 *)
Detect(c, n, outcome) ==
    /\ Runs(c) /\ HasCable(c)
    /\ LET t == PartsFreed(BusesFreed(s), c)
       IN  \E p \in FreshParts(t), b \in FreshBuses(t) \cup {Null} :
            LET found == [t EXCEPT !.partLists[p] = [live |-> TRUE, len |-> n],
                                   !.chains[c].parts = p]
                end == IF outcome = "none" THEN found ELSE BusAdded(found, c, b, outcome)
            IN  /\ b = Null <=> outcome = "none"
                /\ s' = FaultIf(end, ~(ToSet(end.list) \subseteq LiveBuses(end)),
                                "bus used after free")
    /\ Done

(* urj_tap_manual_add. *)
AddPart(c, outcome) ==
    /\ Runs(c) /\ HasCable(c)
    /\ \/ /\ s.chains[c].parts = Null /\ outcome = "no_list"
          /\ UNCHANGED s
       \/ /\ s.chains[c].parts = Null /\ outcome # "no_list"
          /\ \E p \in FreshParts(s) :
                s' = [s EXCEPT !.chains[c].parts = p,
                               !.partLists[p] = [live |-> TRUE,
                                                 len |-> IF outcome = "ok" THEN 1 ELSE 0]]
       \/ /\ s.chains[c].parts # Null /\ outcome = "ok"
          /\ s.partLists[s.chains[c].parts].len < MaxParts
          /\ s' = [s EXCEPT !.partLists[s.chains[c].parts].len = @ + 1]
       \/ /\ s.chains[c].parts # Null /\ outcome # "ok"
          /\ UNCHANGED s
    /\ Done

(* urj_bus_init. *)
InitBus(c, outcome) ==
    /\ Runs(c) /\ HasCable(c) /\ HasActivePart(c)
    /\ \E b \in FreshBuses(s) : s' = BusAdded(s, c, b, outcome)
    /\ Ends("initbus", c, outcome = "ok")

(* cmd_bus_run, urj_bus_buses_set. *)
SetBus(c, n) ==
    /\ program = "jtag"
    /\ Runs(c) /\ HasCable(c) /\ s.chains[c].parts # Null
    /\ n <= Len(s.list)
    /\ s' = [s EXCEPT !.active = s.list[n]]
    /\ Done

(* The commands and methods that read and write memory through the active  *)
(* bus; only the methods look for a cable, and for that of their chain.    *)
UseBus(c) ==
    /\ Runs(c) /\ (program = "python" => HasCable(c))
    /\ s.active # Null
    /\ s' = Used(s, s.active)
    /\ Done

(* urj_tap_chain_free. *)
ChainFreed(t, c) ==
    [PartsFreed(Disconnected(t, c), c) EXCEPT !.chains[c].alloc = FALSE]

(* urj_pyc_dealloc. *)
Dealloc(c) ==
    /\ program = "python"
    /\ Runs(c)
    /\ s' = ChainFreed(s, c)
    /\ Done

(* cleanup of the jtag command. *)
Quit(c) ==
    /\ program = "jtag"
    /\ Runs(c)
    /\ s' = ChainFreed(BusesFreed(s), c)
    /\ Done

Next ==
    \E c \in Chains :
        \/ \E p \in Ports \cup {NoPort}, o \in ConnectOutcomes : Connect(c, p, o)
        \/ Disconnect(c) \/ UseCable(c)
        \/ DetectNone(c)
        \/ \E n \in 1 .. MaxParts, o \in BusOutcomes \cup {"none"} : Detect(c, n, o)
        \/ \E o \in PartOutcomes : AddPart(c, o)
        \/ \E o \in BusOutcomes : InitBus(c, o)
        \/ \E n \in 1 .. Len(s.list) : SetBus(c, n)
        \/ UseBus(c)
        \/ Dealloc(c) \/ Quit(c)

Spec == Init /\ [][Next]_vars

-----------------------------------------------------------------------------
(* Types. *)
ChainObjects == [alloc : BOOLEAN, cable : Cables \cup {Null}, parts : PartLists \cup {Null}]
QueueStates == {"null", "live", "freed"}
CableObjects ==
    [live : BOOLEAN, port : Ports \cup {NoPort}, chain : Chains \cup {Null},
     todo : QueueStates, done : QueueStates]
PartObjects == [live : BOOLEAN, len : 0 .. MaxParts]
BusObjects == [live : BOOLEAN, chain : Chains \cup {Null}, parts : PartLists \cup {Null}]

Sessions ==
    [chains : [Chains -> ChainObjects], cables : [Cables -> CableObjects],
     partLists : [PartLists -> PartObjects], buses : [Buses -> BusObjects],
     list : Seq(Buses), active : Buses \cup {Null}, faults : SUBSET Faults]

TypeOK == program \in Programs /\ s \in Sessions

(* No sequence of jtag's commands frees a cable, its queues, a parts list  *)
(* or a bus twice, or uses one after it was freed (cable.c:110-124,        *)
(* chain.c:63-168, buses.c:84-218).                                        *)
NothingFreedIsUsed == program = "jtag" => s.faults \subseteq {"null cable followed"}

(* The active bus reaches its chain's cable when it is used                *)
(* (cmd_peekpoke.c:48-66 looks for a bus only).                            *)
BusReachesCable == program = "jtag" => "null cable followed" \notin s.faults

(* A cable lives exactly as long as a chain is connected to it, and points *)
(* back to that chain; so do parts (cable.c:547-583, chain.c:63-168,       *)
(* detect.c:546-562).  None is left behind by a command.                   *)
CablesAndPartsOwned ==
    s.faults = {} =>
        /\ \A k \in Cables :
            s.cables[k].live <=> \E c \in Chains : s.chains[c].cable = k
        /\ \A c \in Chains :
            s.chains[c].cable # Null => s.cables[s.chains[c].cable].chain = c
        /\ \A p \in PartLists :
            s.partLists[p].live <=> \E c \in Chains : s.chains[c].parts = p

(* A listed bus can be used: it has not been freed, and the part it drives *)
(* is one of those its chain has now, whatever was detected or added since *)
(* (detect.c:546-547, buses.c:184-218), in the jtag command, whose chain    *)
(* outlives them.                                                          *)
ListedBusesUsable ==
    s.faults = {} /\ program = "jtag" =>
        /\ ToSet(s.list) \subseteq LiveBuses(s)
        /\ \A i \in DOMAIN s.list :
            LET bus == s.buses[s.list[i]]
            IN  /\ s.chains[bus.chain].parts = bus.parts
                /\ s.partLists[bus.parts].live

(* There is an active bus when there are buses, and it is one of them      *)
(* (buses.c:84-141).                                                       *)
ActiveBusListed ==
    s.faults = {} => IF s.list = <<>> THEN s.active = Null ELSE Listed(s, s.active)

(* urj_tap_chain_connect returns, and after a failure the chain has no     *)
(* cable: "@return URJ_STATUS_OK on success; URJ_STATUS_FAIL on error"     *)
(* (include/urjtag/chain.h:59).                                            *)
ConnectFails ==
    last.op = "connect" =>
        /\ s.faults = {}
        /\ last.ok <=> s.chains[last.chain].cable # Null

(* After a failure of urj_bus_init no bus is left freed in the list, for   *)
(* urj_bus_init has returned "URJ_STATUS_FAIL on error"                    *)
(* (include/urjtag/bus.h:71).                                              *)
InitBusFails ==
    last.op = "initbus" /\ ~last.ok => ToSet(s.list) \subseteq LiveBuses(s)
=============================================================================
