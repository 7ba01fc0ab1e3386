--------------------------- MODULE SessionProofs ---------------------------
(***************************************************************************)
(* Ownership between commands, proved for any number of chains, cables,    *)
(* parts lists, buses and ports, any sequence of commands and whatever     *)
(* fails in them, but for the failures a theorem excludes.                 *)
(***************************************************************************)
EXTENDS Session, SequenceTheorems, WellFoundedInduction, TLAPS

-----------------------------------------------------------------------------
(* The failures that do go wrong. *)

(* The queue of results is allocated whenever that of calls was            *)
(* (cable.c:86-124).                                                       *)
QueuesPaired == "no_done" \notin ConnectOutcomes

(* Buses that are listed initialize (buses.c:205-218). *)
BusesInitialize == "init_fails" \notin BusOutcomes

(* The list of buses shrinks in place (buses.c:112-118). *)
ListShrinks == ShrinkFails = FALSE

-----------------------------------------------------------------------------
(* The inductive invariant: Owned and ListedOnce whatever fails, the rest  *)
(* under the hypotheses above.                                             *)

Owned(t) ==
    t.faults = {} =>
        /\ \A k \in Cables : t.cables[k].live <=> \E c \in Chains : t.chains[c].cable = k
        /\ \A c \in Chains :
            t.chains[c].cable # Null =>
                LET k == t.cables[t.chains[c].cable]
                IN  k.chain = c /\ k.todo = "live" /\ k.done = "live"
        /\ \A p \in PartLists :
            t.partLists[p].live <=> \E c \in Chains : t.chains[c].parts = p
        /\ \A c, d \in Chains :
            t.chains[c].parts = t.chains[d].parts /\ t.chains[c].parts # Null => c = d

ListedOnce(t) == IsInjective(t.list)

ActiveListed(t) ==
    IF t.list = <<>> THEN t.active = Null ELSE t.active \in ToSet(t.list)

(* A bus that drives the parts its chain has. *)
Usable(t, b) ==
    /\ t.buses[b].live
    /\ t.buses[b].chain \in Chains
    /\ t.chains[t.buses[b].chain].alloc
    /\ t.buses[b].parts \in PartLists
    /\ t.chains[t.buses[b].chain].parts = t.buses[b].parts
    /\ t.partLists[t.buses[b].parts].live

ListedUsable(t) == t.faults = {} => \A b \in ToSet(t.list) : Usable(t, b)

-----------------------------------------------------------------------------
(* Lists. *)

(* A set of numbers that is not empty has a least one. *)
LEMMA LeastNat ==
    ASSUME NEW T \in SUBSET Nat, T # {}
    PROVE  \E x \in T : \A y \in T : ~(y < x)
<1>1. IsWellFoundedOn(OpToRel(<, Nat), Nat)
  BY NatLessThanWellFounded
<1>2. \E x \in T : \A y \in T : <<y, x>> \notin OpToRel(<, Nat)
  BY <1>1, WFMin
<1> QED
  BY <1>2 DEF OpToRel

(* Taking the first occurrence of an element off a list moves those behind *)
(* it down by one.                                                         *)
LEMMA RemoveFirstShifts ==
    ASSUME NEW S, NEW q \in Seq(S), NEW e, e \in ToSet(q)
    PROVE  \E k \in 1 .. Len(q) :
             /\ q[k] = e
             /\ RemoveFirst(q, e) \in Seq(S)
             /\ Len(RemoveFirst(q, e)) = Len(q) - 1
             /\ \A i \in 1 .. Len(q) - 1 :
                  RemoveFirst(q, e)[i] = IF i < k THEN q[i] ELSE q[i + 1]
<1> DEFINE I == {i \in 1 .. Len(q) : q[i] = e}
           k == CHOOSE x \in I : \A y \in I : x =< y
<1>1. Len(q) \in Nat /\ q \in [1 .. Len(q) -> S] /\ DOMAIN q = 1 .. Len(q)
  BY LenProperties
<1>2. PICK j \in 1 .. Len(q) : q[j] = e
  BY <1>1 DEF ToSet
<1>3. I \in SUBSET Nat /\ I # {}
  BY <1>1, <1>2
<1>4. \E x \in I : \A y \in I : ~(y < x)
  BY <1>3, LeastNat
<1>5. \E x \in I : \A y \in I : x =< y
  BY <1>3, <1>4
<1>6. k \in I
  BY <1>5
<1>7. RemoveFirst(q, e) = RemoveAt(q, k)
  <2>1. SelectInSeq(q, LAMBDA v : v = e) = k
    BY <1>3 DEF SelectInSeq, Min
  <2> QED
    BY <1>2, <2>1 DEF RemoveFirst
<1>8. k \in 1 .. Len(q) /\ q[k] = e
  BY <1>6
<1> HIDE DEF k
<1> DEFINE a == SubSeq(q, 1, k - 1)
           b == SubSeq(q, k + 1, Len(q))
<1>9. a \in Seq(S) /\ Len(a) = k - 1 /\ \A i \in 1 .. k - 1 : a[i] = q[i]
  <2>1. \A i \in 1 .. k - 1 : q[i] \in S
    BY <1>1, <1>8
  <2> QED
    BY <2>1, <1>1, <1>8, SubSeqProperties
<1>10. b \in Seq(S) /\ Len(b) = Len(q) - k /\ \A i \in 1 .. Len(q) - k : b[i] = q[k + i]
  <2>1. \A i \in k + 1 .. Len(q) : q[i] \in S
    BY <1>1, <1>8
  <2>2. /\ b \in Seq(S)
        /\ Len(b) = IF k + 1 <= Len(q) THEN Len(q) - (k + 1) + 1 ELSE 0
        /\ \A i \in 1 .. Len(q) - (k + 1) + 1 : b[i] = q[k + 1 + i - 1]
    BY <2>1, <1>1, <1>8, SubSeqProperties
  <2> HIDE DEF b
  <2>3. Len(q) - (k + 1) + 1 = Len(q) - k /\ k \in Int
    BY <1>1, <1>8
  <2>4. \A i \in 1 .. Len(q) - k : b[i] = q[k + 1 + i - 1]
    BY <2>2, <2>3
  <2>5. \A i \in 1 .. Len(q) - k : k + 1 + i - 1 = k + i
    BY <2>3
  <2>6. \/ k + 1 <= Len(q)
        \/ ~(k + 1 <= Len(q)) /\ Len(q) - k = 0
    <3>1. k \in Int /\ Len(q) \in Int /\ k <= Len(q)
      BY <1>1, <1>8
    <3> QED
      BY <3>1
  <2>7. Len(b) = Len(q) - k
    BY <2>2, <2>3, <2>6
  <2> QED
    BY <2>2, <2>4, <2>5, <2>7
<1> HIDE DEF a, b
<1>11. /\ a \o b \in Seq(S)
       /\ Len(a \o b) = Len(a) + Len(b)
       /\ \A i \in 1 .. Len(a) + Len(b) :
            (a \o b)[i] = IF i <= Len(a) THEN a[i] ELSE b[i - Len(a)]
  BY <1>9, <1>10, ConcatProperties
<1>12. RemoveFirst(q, e) = a \o b
  BY <1>7 DEF RemoveAt, a, b
<1>13. \A i \in 1 .. Len(q) - 1 :
         (a \o b)[i] = IF i < k THEN q[i] ELSE q[i + 1]
  <2> SUFFICES ASSUME NEW i \in 1 .. Len(q) - 1
               PROVE  (a \o b)[i] = IF i < k THEN q[i] ELSE q[i + 1]
    OBVIOUS
  <2>1. i \in 1 .. Len(a) + Len(b)
    BY <1>1, <1>8, <1>9, <1>10
  <2>2. CASE i < k
    BY <2>1, <2>2, <1>1, <1>8, <1>9, <1>11
  <2>3. CASE ~(i < k)
    <3>1. i - Len(a) \in 1 .. Len(q) - k /\ k + (i - Len(a)) = i + 1 /\ ~(i <= Len(a))
      BY <2>3, <1>1, <1>8, <1>9
    <3> QED
      BY <2>1, <2>3, <3>1, <1>10, <1>11
  <2> QED
    BY <2>2, <2>3
<1>14. Len(a \o b) = Len(q) - 1
  BY <1>1, <1>8, <1>9, <1>10, <1>11
<1> QED
  BY <1>8, <1>11, <1>12, <1>13, <1>14

(* What is left after a removal was there before, and once if it was. *)
LEMMA RemoveFirstKeeps ==
    ASSUME NEW S, NEW q \in Seq(S), NEW e, e \in ToSet(q)
    PROVE  /\ RemoveFirst(q, e) \in Seq(S)
           /\ ToSet(RemoveFirst(q, e)) \subseteq ToSet(q)
           /\ IsInjective(q) => IsInjective(RemoveFirst(q, e))
           /\ ToSet(q) \ {e} \subseteq ToSet(RemoveFirst(q, e))
<1> DEFINE r == RemoveFirst(q, e)
<1>1. PICK k \in 1 .. Len(q) :
         /\ q[k] = e
         /\ r \in Seq(S)
         /\ Len(r) = Len(q) - 1
         /\ \A i \in 1 .. Len(q) - 1 : r[i] = IF i < k THEN q[i] ELSE q[i + 1]
  BY RemoveFirstShifts
<1> HIDE DEF r
<1>2. Len(q) \in Nat /\ DOMAIN q = 1 .. Len(q) /\ DOMAIN r = 1 .. Len(q) - 1
  BY <1>1, LenProperties
<1>3. ToSet(r) \subseteq ToSet(q)
  <2> SUFFICES ASSUME NEW i \in 1 .. Len(q) - 1 PROVE \E j \in 1 .. Len(q) : r[i] = q[j]
    BY <1>2 DEF ToSet
  <2> QED
    BY <1>1, <1>2
<1>4. IsInjective(q) => IsInjective(r)
  BY <1>1, <1>2 DEF IsInjective
<1>5. ToSet(q) \ {e} \subseteq ToSet(r)
  <2> SUFFICES ASSUME NEW j \in 1 .. Len(q), q[j] # e
               PROVE  \E i \in 1 .. Len(q) - 1 : r[i] = q[j]
    BY <1>2 DEF ToSet
  <2>1. CASE j < k
    BY <2>1, <1>1, <1>2
  <2>2. CASE j > k
    <3>1. j - 1 \in 1 .. Len(q) - 1 /\ ~(j - 1 < k) /\ (j - 1) + 1 = j
      BY <2>2, <1>2
    <3> QED
      BY <3>1, <1>1
  <2> QED
    BY <2>1, <2>2, <1>1, <1>2
<1> QED
  BY <1>1, <1>3, <1>4, <1>5 DEF r

(* Adding to a list what it does not have. *)
LEMMA AppendKeeps ==
    ASSUME NEW S, NEW q \in Seq(S), NEW e \in S
    PROVE  /\ Append(q, e) \in Seq(S)
           /\ Append(q, e) # <<>>
           /\ ToSet(Append(q, e)) = ToSet(q) \cup {e}
           /\ IsInjective(q) /\ e \notin ToSet(q) => IsInjective(Append(q, e))
<1>1. /\ Append(q, e) \in Seq(S)
      /\ Len(Append(q, e)) = Len(q) + 1
      /\ \A i \in 1 .. Len(q) : Append(q, e)[i] = q[i]
      /\ Append(q, e)[Len(q) + 1] = e
  BY AppendProperties
<1>2. /\ Len(q) \in Nat /\ DOMAIN q = 1 .. Len(q)
      /\ DOMAIN Append(q, e) = 1 .. Len(q) + 1
  BY <1>1, LenProperties
<1>3. ToSet(Append(q, e)) = ToSet(q) \cup {e}
  BY <1>1, <1>2 DEF ToSet
<1>4. IsInjective(q) /\ e \notin ToSet(q) => IsInjective(Append(q, e))
  BY <1>1, <1>2 DEF IsInjective, ToSet
<1>5. Append(q, e) # <<>>
  BY <1>1, <1>2, EmptySeq
<1> QED
  BY <1>1, <1>3, <1>4, <1>5

(* A list that is not empty has its head. *)
LEMMA HeadListed ==
    ASSUME NEW S, NEW q \in Seq(S), q # <<>>
    PROVE  Head(q) \in ToSet(q)
<1>1. Len(q) \in Nat \ {0} /\ DOMAIN q = 1 .. Len(q)
  BY EmptySeq, LenProperties
<1>2. Head(q) = q[1] /\ 1 \in DOMAIN q
  BY <1>1, HeadTailProperties
<1> QED
  BY <1>2 DEF ToSet

LEMMA ListedInList ==
    ASSUME NEW t \in Sessions, NEW b
    PROVE  /\ Listed(t, b) <=> b \in ToSet(t.list)
           /\ ToSet(t.list) \subseteq Buses
<1>1. t.list \in Seq(Buses)
  BY DEF Sessions
<1> QED
  BY <1>1, LenProperties DEF Listed, ToSet

-----------------------------------------------------------------------------
(* What the functions of the program leave of a session. *)

LEMMA FaultFields ==
    ASSUME NEW t \in Sessions, NEW f \in Faults, NEW p \in BOOLEAN
    PROVE  /\ FaultIf(t, p, f) \in Sessions
           /\ FaultIf(t, p, f) = [t EXCEPT !.faults = IF p THEN @ \cup {f} ELSE @]
  BY DEF FaultIf, Fault, Sessions

(* urj_bus_buses_delete touches the list and the active bus, and leaves an *)
(* active bus that is listed if the list shrank.                           *)
LEMMA DeletedFields ==
    ASSUME NEW t \in Sessions, NEW b, NEW shrinks
    PROVE  LET d == Deleted(t, b, shrinks)
           IN  /\ d \in Sessions
               /\ d = [t EXCEPT !.list = d.list, !.active = d.active]
               /\ ToSet(d.list) \subseteq ToSet(t.list)
               /\ ListedOnce(t) => ListedOnce(d)
               /\ ActiveListed(t) /\ shrinks = TRUE => ActiveListed(d)
<1> DEFINE d == Deleted(t, b, shrinks)
           rest == RemoveFirst(t.list, b)
<1>1. t.list \in Seq(Buses)
  BY DEF Sessions
<1>2. CASE ~Listed(t, b)
  <2>1. d = t
    BY <1>2 DEF Deleted
  <2>2. t = [t EXCEPT !.list = t.list, !.active = t.active]
    BY DEF Sessions
  <2> QED
    BY <2>1, <2>2
<1>3. CASE Listed(t, b)
  <2>1. b \in ToSet(t.list)
    BY <1>3, ListedInList
  <2>2. /\ rest \in Seq(Buses)
        /\ ToSet(rest) \subseteq ToSet(t.list)
        /\ IsInjective(t.list) => IsInjective(rest)
        /\ ToSet(t.list) \ {b} \subseteq ToSet(rest)
    BY <1>1, <2>1, RemoveFirstKeeps
  <2> HIDE DEF rest
  <2> DEFINE active == IF t.active # b \/ (rest # <<>> /\ ~shrinks) THEN t.active
                       ELSE IF rest = <<>> THEN Null
                       ELSE Head(rest)
  <2>3. d = [t EXCEPT !.list = rest, !.active = active]
    BY <1>3 DEF Deleted, rest, Sessions
  <2>4. rest # <<>> => Head(rest) \in ToSet(rest) /\ Head(rest) \in Buses
    BY <2>2, <1>1, HeadListed, ListedInList
  <2>5. active \in Buses \cup {Null}
    BY <2>4 DEF Sessions
  <2>6. ActiveListed(t) /\ shrinks = TRUE =>
            IF rest = <<>> THEN active = Null ELSE active \in ToSet(rest)
    <3> SUFFICES ASSUME ActiveListed(t), shrinks = TRUE
                 PROVE  IF rest = <<>> THEN active = Null ELSE active \in ToSet(rest)
      OBVIOUS
    <3>1. t.list # <<>>
      BY <2>1, EmptySeq DEF ToSet
    <3>2. t.active \in ToSet(t.list)
      BY <3>1 DEF ActiveListed
    <3>3. ToSet(<<>>) = {}
      BY DEF ToSet
    <3> QED
      BY <2>2, <2>4, <3>2, <3>3
  <2> HIDE DEF active
  <2>7. d.list = rest /\ d.active = active /\ d \in Sessions
    BY <2>2, <2>3, <2>5 DEF Sessions
  <2> HIDE DEF d
  <2>8. d = [t EXCEPT !.list = d.list, !.active = d.active]
    BY <2>3, <2>7
  <2> QED
    BY <2>2, <2>6, <2>7, <2>8 DEF d, ListedOnce, ActiveListed
<1> QED
  BY <1>2, <1>3

(* urj_bus_buses_free, when every listed bus lives and is listed once, is  *)
(* no fault.                                                               *)
LEMMA BusesFreedFields ==
    ASSUME NEW t \in Sessions
    PROVE  LET d == BusesFreed(t)
           IN  /\ d \in Sessions
               /\ d.chains = t.chains /\ d.cables = t.cables
               /\ d.partLists = t.partLists
               /\ d.list = <<>> /\ d.active = Null
               /\ t.faults \subseteq d.faults
               /\ ListedOnce(t) /\ ToSet(t.list) \subseteq LiveBuses(t)
                    => d.faults = t.faults
<1> DEFINE bad == ~IsInjective(t.list) \/ ~(ToSet(t.list) \subseteq LiveBuses(t))
           u == FaultIf(t, bad, "bus freed twice")
           buses == [b \in Buses |-> IF Listed(t, b) THEN NoBus ELSE t.buses[b]]
<1>1. /\ u \in Sessions
      /\ u = [t EXCEPT !.faults = IF bad THEN @ \cup {"bus freed twice"} ELSE @]
  BY FaultFields DEF Faults
<1> HIDE DEF bad, u
<1>2. /\ u.chains = t.chains /\ u.cables = t.cables /\ u.partLists = t.partLists
      /\ u.buses = t.buses
      /\ t.faults \subseteq u.faults
      /\ ~bad => u.faults = t.faults
  BY <1>1 DEF Sessions
<1>3. buses \in [Buses -> BusObjects]
  BY DEF Sessions, BusObjects, NoBus
<1>4. BusesFreed(t) = [u EXCEPT !.buses = buses, !.list = <<>>, !.active = Null]
  BY <1>2 DEF BusesFreed, u, bad
<1> HIDE DEF buses
<1>5. <<>> \in Seq(Buses)
  BY EmptySeq
<1> QED
  BY <1>1, <1>2, <1>3, <1>4, <1>5 DEF Sessions, ListedOnce, bad

LEMMA PartsFreedFields ==
    ASSUME NEW t \in Sessions, NEW c \in Chains
    PROVE  LET d == PartsFreed(t, c)
               p == t.chains[c].parts
           IN  /\ d \in Sessions
               /\ d.cables = t.cables /\ d.buses = t.buses
               /\ d.list = t.list /\ d.active = t.active
               /\ d.chains = [t.chains EXCEPT ![c].parts = Null]
               /\ d.partLists = IF p = Null THEN t.partLists
                                ELSE [t.partLists EXCEPT ![p] = NoParts]
               /\ t.faults \subseteq d.faults
               /\ p = Null \/ t.partLists[p].live => d.faults = t.faults
<1> DEFINE p == t.chains[c].parts
           d == PartsFreed(t, c)
<1>1. p \in PartLists \cup {Null} /\ Null \notin PartLists
  BY SessionAssumption DEF Sessions, ChainObjects
<1>2. CASE p = Null
  <2>1. d = t
    BY <1>2 DEF PartsFreed
  <2>2. t.chains = [t.chains EXCEPT ![c].parts = Null]
    BY <1>2 DEF Sessions, ChainObjects
  <2> QED
    BY <1>2, <2>1, <2>2
<1>3. CASE p # Null
  <2> DEFINE bad == ~t.partLists[p].live
             u == FaultIf(t, bad, "parts freed twice")
  <2>1. bad \in BOOLEAN
    OBVIOUS
  <2> HIDE DEF bad
  <2>2. /\ u \in Sessions
        /\ u = [t EXCEPT !.faults = IF bad THEN @ \cup {"parts freed twice"} ELSE @]
    BY <2>1, FaultFields DEF Faults
  <2>3. d = [u EXCEPT !.partLists[p] = NoParts, !.chains[c].parts = Null]
    BY <1>3 DEF PartsFreed, bad
  <2> HIDE DEF u
  <2>4. /\ u.chains = t.chains /\ u.partLists = t.partLists
        /\ u.cables = t.cables /\ u.buses = t.buses
        /\ u.list = t.list /\ u.active = t.active
        /\ t.faults \subseteq u.faults
        /\ ~bad => u.faults = t.faults
    BY <2>2 DEF Sessions
  <2>5. NoParts \in PartObjects
    BY SessionAssumption DEF NoParts, PartObjects
  <2> HIDE DEF d
  <2>6. /\ d.chains = [u.chains EXCEPT ![c].parts = Null]
        /\ d.partLists = [u.partLists EXCEPT ![p] = NoParts]
        /\ d.cables = u.cables /\ d.buses = u.buses
        /\ d.list = u.list /\ d.active = u.active /\ d.faults = u.faults
    BY <2>2, <2>3 DEF Sessions
  <2>7. d \in Sessions
    <3>1. /\ u.chains \in [Chains -> ChainObjects]
          /\ u.partLists \in [PartLists -> PartObjects]
      BY <2>2 DEF Sessions
    <3>2. [u.chains EXCEPT ![c].parts = Null] \in [Chains -> ChainObjects]
      BY <3>1 DEF ChainObjects
    <3>3. [u.partLists EXCEPT ![p] = NoParts] \in [PartLists -> PartObjects]
      BY <3>1, <2>5
    <3>4. d = [u EXCEPT !.chains = [u.chains EXCEPT ![c].parts = Null],
                        !.partLists = [u.partLists EXCEPT ![p] = NoParts]]
      BY <2>2, <2>3 DEF Sessions
    <3> QED
      BY <2>2, <3>2, <3>3, <3>4 DEF Sessions
  <2> QED
    BY <1>3, <2>4, <2>6, <2>7 DEF d, bad
<1> QED
  BY <1>2, <1>3

(* urj_tap_chain_disconnect frees the cable, and its queues twice only if  *)
(* one of them was freed before.                                           *)
LEMMA DisconnectedFields ==
    ASSUME NEW t \in Sessions, NEW c \in Chains
    PROVE  LET d == Disconnected(t, c)
               k == t.chains[c].cable
           IN  /\ d \in Sessions
               /\ d.partLists = t.partLists /\ d.buses = t.buses
               /\ d.list = t.list /\ d.active = t.active
               /\ d.chains = [t.chains EXCEPT ![c].cable = Null]
               /\ d.cables = IF k = Null THEN t.cables
                             ELSE [t.cables EXCEPT ![k] = NoCable]
               /\ t.faults \subseteq d.faults
               /\ \/ k = Null
                  \/ /\ t.cables[k].live
                     /\ \/ t.cables[k].todo = "null"
                        \/ t.cables[k].todo = "live" /\ t.cables[k].done # "freed"
                  => d.faults = t.faults
<1> DEFINE k == t.chains[c].cable
           d == Disconnected(t, c)
<1>1. k \in Cables \cup {Null} /\ Null \notin Cables
  BY SessionAssumption DEF Sessions, ChainObjects
<1>2. CASE k = Null
  <2>1. d = t
    BY <1>2 DEF Disconnected
  <2>2. t.chains = [t.chains EXCEPT ![c].cable = Null]
    BY <1>2 DEF Sessions, ChainObjects
  <2> QED
    BY <1>2, <2>1, <2>2
<1>3. CASE k # Null
  <2> DEFINE q == t.cables[k]
             dirty == "freed" \in {q.todo, q.done}
             v == FaultIf(t, dirty, "queue freed twice")
             w == CableDone(t, k)
             bad == ~q.live
             u == FaultIf(w, bad, "cable freed twice")
  <2>1. dirty \in BOOLEAN /\ bad \in BOOLEAN /\ k \in Cables
    BY <1>1, <1>3
  <2>2. q \in CableObjects
    BY <2>1 DEF Sessions
  <2>3. /\ v \in Sessions
        /\ v = [t EXCEPT !.faults = IF dirty THEN @ \cup {"queue freed twice"} ELSE @]
    BY <2>1, FaultFields DEF Faults
  <2>4. /\ w \in Sessions
        /\ w.chains = t.chains /\ w.partLists = t.partLists /\ w.buses = t.buses
        /\ w.list = t.list /\ w.active = t.active
        /\ [w.cables EXCEPT ![k] = NoCable] = [t.cables EXCEPT ![k] = NoCable]
        /\ t.faults \subseteq w.faults
        /\ q.todo = "null" \/ ~dirty => w.faults = t.faults
    <3>1. CASE q.todo = "null"
      <4>1. w = t
        BY <3>1 DEF CableDone
      <4> QED
        BY <4>1
    <3>2. CASE q.todo # "null"
      <4> DEFINE done == IF q.done = "null" THEN "null" ELSE "freed"
      <4>1. w = [v EXCEPT !.cables[k].todo = "freed", !.cables[k].done = done]
        BY <2>2, <2>3, <3>2 DEF CableDone, Sessions
      <4>2. done \in QueueStates
        BY DEF QueueStates
      <4> HIDE DEF done, v, w, dirty
      <4>3. w \in Sessions
        <5>1. v.cables \in [Cables -> CableObjects]
          BY <2>3 DEF Sessions
        <5>2. w = [v EXCEPT !.cables = [v.cables EXCEPT ![k].todo = "freed", ![k].done = done]]
          BY <2>1, <2>3, <4>1 DEF Sessions, CableObjects
        <5>3. [v.cables EXCEPT ![k].todo = "freed", ![k].done = done]
                \in [Cables -> CableObjects]
          BY <2>1, <4>2, <5>1 DEF CableObjects, QueueStates
        <5> QED
          BY <2>3, <5>2, <5>3 DEF Sessions
      <4>4. /\ w.chains = t.chains /\ w.partLists = t.partLists /\ w.buses = t.buses
            /\ w.list = t.list /\ w.active = t.active
            /\ t.faults \subseteq w.faults
            /\ ~dirty => w.faults = t.faults
        BY <2>3, <4>1 DEF Sessions
      <4>5. w.cables = [t.cables EXCEPT ![k].todo = "freed", ![k].done = done]
        BY <2>3, <4>1 DEF Sessions
      <4>6. [w.cables EXCEPT ![k] = NoCable] = [t.cables EXCEPT ![k] = NoCable]
        BY <4>5 DEF Sessions
      <4> QED
        BY <3>2, <4>3, <4>4, <4>6
    <3> QED
      BY <3>1, <3>2
  <2> HIDE DEF w
  <2>5. /\ u \in Sessions
        /\ u = [w EXCEPT !.faults = IF bad THEN @ \cup {"cable freed twice"} ELSE @]
    BY <2>1, <2>4, FaultFields DEF Faults
  <2>6. d = [u EXCEPT !.cables[k] = NoCable, !.chains[c].cable = Null]
    BY <1>3 DEF Disconnected, w
  <2> HIDE DEF u, d
  <2>7. NoCable \in CableObjects
    BY DEF NoCable, CableObjects, QueueStates
  <2>8. d \in Sessions
    <3>1. u.chains \in [Chains -> ChainObjects] /\ u.cables \in [Cables -> CableObjects]
      BY <2>5 DEF Sessions
    <3>2. [u.chains EXCEPT ![c].cable = Null] \in [Chains -> ChainObjects]
      BY <3>1 DEF ChainObjects
    <3>3. [u.cables EXCEPT ![k] = NoCable] \in [Cables -> CableObjects]
      BY <3>1, <2>7
    <3>4. d = [u EXCEPT !.chains = [u.chains EXCEPT ![c].cable = Null],
                        !.cables = [u.cables EXCEPT ![k] = NoCable]]
      BY <2>5, <2>6 DEF Sessions
    <3> QED
      BY <2>5, <3>2, <3>3, <3>4 DEF Sessions
  <2>9. /\ d.chains = [u.chains EXCEPT ![c].cable = Null]
        /\ d.cables = [u.cables EXCEPT ![k] = NoCable]
        /\ d.partLists = u.partLists /\ d.buses = u.buses
        /\ d.list = u.list /\ d.active = u.active /\ d.faults = u.faults
    BY <2>5, <2>6 DEF Sessions
  <2>10. /\ u.chains = w.chains /\ u.cables = w.cables
         /\ u.partLists = w.partLists /\ u.buses = w.buses
         /\ u.list = w.list /\ u.active = w.active
         /\ w.faults \subseteq u.faults /\ (~bad => u.faults = w.faults)
    BY <2>5 DEF Sessions
  <2>11. /\ q.live
         /\ q.todo = "null" \/ (q.todo = "live" /\ q.done # "freed")
         => d.faults = t.faults
    BY <2>4, <2>9, <2>10
  <2> QED
    BY <1>3, <2>4, <2>8, <2>9, <2>10, <2>11 DEF d
<1> QED
  BY <1>2, <1>3

LEMMA FreeBusFields ==
    ASSUME NEW t \in Sessions, NEW b \in Buses
    PROVE  LET d == FreeBus(t, b)
           IN  /\ d \in Sessions
               /\ d.chains = t.chains /\ d.cables = t.cables
               /\ d.partLists = t.partLists
               /\ d.list = t.list /\ d.active = t.active
               /\ t.faults \subseteq d.faults
<1> DEFINE u == [t EXCEPT !.buses[b] = NoBus]
           bad == b \notin LiveBuses(t)
<1>1. NoBus \in BusObjects
  BY DEF NoBus, BusObjects
<1>2. u \in Sessions
  <2>1. [t.buses EXCEPT ![b] = NoBus] \in [Buses -> BusObjects]
    BY <1>1 DEF Sessions
  <2>2. u = [t EXCEPT !.buses = [t.buses EXCEPT ![b] = NoBus]]
    BY DEF Sessions
  <2> QED
    BY <2>1, <2>2 DEF Sessions
<1>3. /\ u.chains = t.chains /\ u.cables = t.cables
      /\ u.partLists = t.partLists
      /\ u.list = t.list /\ u.active = t.active /\ u.faults = t.faults
  BY DEF Sessions
<1>4. bad \in BOOLEAN
  OBVIOUS
<1> HIDE DEF u, bad
<1> DEFINE d == FaultIf(u, bad, "bus freed twice")
<1>5. /\ d \in Sessions
      /\ d = [u EXCEPT !.faults = IF bad THEN @ \cup {"bus freed twice"} ELSE @]
  BY <1>2, <1>4, FaultFields DEF Faults
<1>6. FreeBus(t, b) = d
  BY DEF FreeBus, u, bad
<1> HIDE DEF d
<1>7. /\ d.chains = u.chains /\ d.cables = u.cables
      /\ d.partLists = u.partLists
      /\ d.list = u.list /\ d.active = u.active /\ u.faults \subseteq d.faults
  BY <1>2, <1>5 DEF Sessions
<1> QED
  BY <1>3, <1>5, <1>6, <1>7

(* urj_bus_init_bus touches the buses, their list and the active one.      *)
LEMMA BusAddedFields ==
    ASSUME NEW t \in Sessions, NEW c \in Chains, NEW b \in FreshBuses(t), NEW outcome
    PROVE  LET d == BusAdded(t, c, b, outcome)
           IN  /\ d \in Sessions
               /\ d.chains = t.chains /\ d.cables = t.cables
               /\ d.partLists = t.partLists
               /\ t.faults \subseteq d.faults
               /\ ListedOnce(t) => ListedOnce(d)
               /\ ActiveListed(t) => ActiveListed(d)
               /\ outcome # "init_fails" => d.faults = t.faults
               /\ outcome \in BusOutcomes \ {"init_fails"} =>
                    \/ d = t
                    \/ /\ d.buses = [t.buses EXCEPT ![b] =
                            [live |-> TRUE, chain |-> c, parts |-> t.chains[c].parts]]
                       /\ ToSet(d.list) = ToSet(t.list) \cup {b}
<1> DEFINE d == BusAdded(t, c, b, outcome)
           bus == [live |-> TRUE, chain |-> c, parts |-> t.chains[c].parts]
           active == IF t.active = Null THEN b ELSE t.active
           a == [t EXCEPT !.buses[b] = bus, !.list = Append(@, b), !.active = active]
<1>1. /\ b \in Buses /\ b # t.active /\ b \notin ToSet(t.list) /\ t.list \in Seq(Buses)
      /\ b # Null
  BY SessionAssumption DEF FreshBuses, BusesPointedTo, Sessions
<1>2. /\ Append(t.list, b) \in Seq(Buses)
      /\ Append(t.list, b) # <<>>
      /\ ToSet(Append(t.list, b)) = ToSet(t.list) \cup {b}
      /\ IsInjective(t.list) => IsInjective(Append(t.list, b))
  BY <1>1, AppendKeeps
<1>3. bus \in BusObjects
  BY DEF BusObjects, ChainObjects, Sessions
<1>4. active \in Buses \cup {Null}
  BY <1>1 DEF Sessions
<1> HIDE DEF bus
<1>5. a = [t EXCEPT !.buses = [t.buses EXCEPT ![b] = bus],
                    !.list = Append(t.list, b), !.active = active]
  BY DEF Sessions
<1>6. [t.buses EXCEPT ![b] = bus] \in [Buses -> BusObjects]
  BY <1>3 DEF Sessions
<1> HIDE DEF active, a
<1>7. a \in Sessions
  BY <1>2, <1>4, <1>5, <1>6 DEF Sessions
<1>8. /\ a.chains = t.chains /\ a.cables = t.cables /\ a.partLists = t.partLists
      /\ a.faults = t.faults /\ a.list = Append(t.list, b) /\ a.active = active
      /\ a.buses = [t.buses EXCEPT ![b] = bus]
  BY <1>5 DEF Sessions
<1>9. ActiveListed(t) => ActiveListed(a)
  <2> SUFFICES ASSUME ActiveListed(t) PROVE active \in ToSet(t.list) \cup {b}
    BY <1>2, <1>8 DEF ActiveListed
  <2> QED
    BY DEF ActiveListed, active
<1>10. ListedOnce(t) => ListedOnce(a)
  BY <1>2, <1>8 DEF ListedOnce
<1>11. CASE outcome \in {"refused", "no_list"}
  BY <1>11 DEF BusAdded
<1>12. CASE outcome = "ok"
  <2>1. d = a
    BY <1>12 DEF BusAdded, a, active, bus
  <2> HIDE DEF d
  <2> QED
    BY <1>2, <1>7, <1>8, <1>9, <1>10, <2>1 DEF bus, d
<1>13. CASE outcome \notin {"refused", "no_list", "ok"}
  <2>1. d = FreeBus(a, b)
    BY <1>13 DEF BusAdded, a, active, bus
  <2> HIDE DEF d
  <2>2. /\ d \in Sessions
        /\ d.chains = a.chains /\ d.cables = a.cables
        /\ d.partLists = a.partLists
        /\ d.list = a.list /\ d.active = a.active
        /\ a.faults \subseteq d.faults
    BY <1>1, <1>7, <2>1, FreeBusFields
  <2>3. b \in LiveBuses(a)
    BY <1>1, <1>8 DEF LiveBuses, bus, Sessions
  <2>4. d.faults = a.faults
    BY <1>7, <2>1, <2>3 DEF FreeBus, FaultIf, Sessions
  <2>5. outcome \notin BusOutcomes \ {"init_fails"}
    BY <1>13, SessionAssumption
  <2> QED
    BY <1>8, <1>9, <1>10, <2>2, <2>4, <2>5 DEF d, ListedOnce, ActiveListed
<1> QED
  BY <1>11, <1>12, <1>13

(* urj_tap_cable_start and the connection ended if it failed.              *)
LEMMA StartedFields ==
    ASSUME NEW t \in Sessions, NEW c \in Chains, t.chains[c].cable = Null,
           NEW k \in FreshCables(t), NEW p \in Ports \cup {NoPort}, NEW outcome
    PROVE  LET d == Started(t, c, k, p, outcome)
           IN  /\ d \in Sessions
               /\ d.partLists = t.partLists /\ d.buses = t.buses
               /\ d.list = t.list /\ d.active = t.active
               /\ t.faults \subseteq d.faults
               /\ outcome # "no_done" => d.faults = t.faults
               /\ \/ /\ d.chains = [t.chains EXCEPT ![c].cable = k]
                     /\ d.cables[k].live /\ d.cables[k].chain = c
                     /\ d.cables[k].todo = "live" /\ d.cables[k].done = "live"
                  \/ d.chains = t.chains /\ ~d.cables[k].live
               /\ \A q \in Cables : q # k => d.cables[q] = t.cables[q]
<1> DEFINE d == Started(t, c, k, p, outcome)
           queue(failing) ==
               IF outcome \in failing \cup {"no_queues"} THEN "null"
               ELSE IF outcome \in {"no_todo", "no_done"} THEN "freed"
               ELSE "live"
           todo == queue({"no_todo"})
           done == queue({"no_done"})
           new == [live |-> TRUE, port |-> p, chain |-> Null, todo |-> todo, done |-> done]
           begun == [t EXCEPT !.chains[c].cable = k, !.cables[k] = new]
           chains == [t.chains EXCEPT ![c].cable = k]
           cables == [t.cables EXCEPT ![k] = new]
<1>1. k \in Cables /\ k # Null
  BY SessionAssumption DEF FreshCables
<1>2. todo \in QueueStates /\ done \in QueueStates
  BY DEF QueueStates
<1>3. outcome = "ok" => todo = "live" /\ done = "live"
  OBVIOUS
<1>4. outcome # "no_done" => todo = "null" \/ (todo = "live" /\ done # "freed")
  <2>1. CASE outcome \in {"no_todo", "no_queues"}
    <3>1. todo = "null"
      BY <2>1
    <3> HIDE DEF todo, done
    <3> QED
      BY <3>1
  <2>2. CASE outcome \notin {"no_todo", "no_queues", "no_done"}
    BY <2>2
  <2> QED
    BY <2>1, <2>2
<1> HIDE DEF queue, todo, done
<1>5. new \in CableObjects
  BY <1>2 DEF CableObjects
<1>6. chains \in [Chains -> ChainObjects] /\ cables \in [Cables -> CableObjects]
  <2>1. t.chains \in [Chains -> ChainObjects] /\ t.cables \in [Cables -> CableObjects]
    BY DEF Sessions
  <2>2. chains \in [Chains -> ChainObjects]
    BY <1>1, <2>1 DEF ChainObjects
  <2> HIDE DEF new
  <2> QED
    BY <1>1, <1>5, <2>1, <2>2
<1>7. begun = [t EXCEPT !.chains = chains, !.cables = cables]
  BY DEF Sessions
<1>8. chains[c].cable = k /\ cables[k] = new
  BY <1>1 DEF Sessions, ChainObjects
<1>9. [chains EXCEPT ![c].cable = Null] = t.chains
  BY DEF Sessions, ChainObjects
<1>11. \A q \in Cables : q # k => cables[q] = t.cables[q]
  BY DEF Sessions
<1>12. [cables EXCEPT ![k].chain = c] \in [Cables -> CableObjects]
  <2> HIDE DEF cables
  <2> QED
    BY <1>1, <1>6 DEF CableObjects
<1>13. new.live /\ new.todo = todo /\ new.done = done
  OBVIOUS
<1> HIDE DEF chains, cables, begun, new
<1>14. /\ begun \in Sessions
       /\ begun.chains = chains /\ begun.cables = cables
       /\ begun.partLists = t.partLists /\ begun.buses = t.buses
       /\ begun.list = t.list /\ begun.active = t.active /\ begun.faults = t.faults
  BY <1>6, <1>7 DEF Sessions
<1>15. CASE outcome = "ok"
  <2>1. d = [begun EXCEPT !.cables[k].chain = c]
    BY <1>15 DEF Started, begun, new, todo, done, queue
  <2>2. d = [begun EXCEPT !.cables = [cables EXCEPT ![k].chain = c]]
    BY <1>14, <2>1 DEF Sessions
  <2> HIDE DEF d
  <2>3. /\ d \in Sessions
        /\ d.chains = chains /\ d.cables = [cables EXCEPT ![k].chain = c]
        /\ d.partLists = t.partLists /\ d.buses = t.buses
        /\ d.list = t.list /\ d.active = t.active /\ d.faults = t.faults
    BY <1>12, <1>14, <2>2 DEF Sessions
  <2>4. \A q \in Cables : q # k => d.cables[q] = t.cables[q]
    BY <1>6, <1>11, <2>3
  <2>5. /\ d.cables[k].live /\ d.cables[k].chain = c
        /\ d.cables[k].todo = todo /\ d.cables[k].done = done
    BY <1>1, <1>5, <1>6, <1>8, <1>13, <2>3 DEF CableObjects
  <2> QED
    BY <1>3, <1>15, <2>3, <2>4, <2>5 DEF chains, d
<1>16. CASE outcome # "ok"
  <2>1. d = Disconnected(begun, c)
    BY <1>16 DEF Started, begun, new, todo, done, queue
  <2> HIDE DEF d
  <2>2. /\ d \in Sessions
        /\ d.partLists = begun.partLists /\ d.buses = begun.buses
        /\ d.list = begun.list /\ d.active = begun.active
        /\ d.chains = [begun.chains EXCEPT ![c].cable = Null]
        /\ d.cables = [begun.cables EXCEPT ![k] = NoCable]
        /\ begun.faults \subseteq d.faults
        /\ new.live /\ (new.todo = "null" \/ (new.todo = "live" /\ new.done # "freed"))
             => d.faults = begun.faults
    BY <1>1, <1>8, <1>14, <2>1, DisconnectedFields
  <2>3. d.chains = t.chains
    BY <1>9, <1>14, <2>2
  <2>4. ~d.cables[k].live
    BY <1>1, <1>6, <1>14, <2>2 DEF NoCable
  <2>5. \A q \in Cables : q # k => d.cables[q] = t.cables[q]
    BY <1>6, <1>11, <1>14, <2>2
  <2> QED
    BY <1>4, <1>13, <1>14, <2>2, <2>3, <2>4, <2>5 DEF d
<1> QED
  BY <1>15, <1>16

-----------------------------------------------------------------------------
(* Ownership, whatever fails. *)

LEMMA OwnedSame ==
    ASSUME NEW t, NEW d, Owned(t), t.faults \subseteq d.faults,
           d.chains = t.chains, d.cables = t.cables, d.partLists = t.partLists
    PROVE  Owned(d)
<1>1. d.faults = {} => t.faults = {}
  OBVIOUS
<1> QED
  BY <1>1 DEF Owned

LEMMA PartsFreedOwned ==
    ASSUME NEW t \in Sessions, NEW c \in Chains, Owned(t)
    PROVE  /\ Owned(PartsFreed(t, c))
           /\ t.faults = {} => PartsFreed(t, c).faults = {}
<1> DEFINE d == PartsFreed(t, c)
           p == t.chains[c].parts
<1>1. /\ d.cables = t.cables
      /\ d.chains = [t.chains EXCEPT ![c].parts = Null]
      /\ d.partLists = IF p = Null THEN t.partLists
                       ELSE [t.partLists EXCEPT ![p] = NoParts]
      /\ t.faults \subseteq d.faults
      /\ p = Null \/ t.partLists[p].live => d.faults = t.faults
  BY PartsFreedFields
<1> HIDE DEF d
<1>2. p \in PartLists \cup {Null}
  BY DEF Sessions, ChainObjects
<1>3. t.faults = {} => p = Null \/ t.partLists[p].live
  BY <1>2 DEF Owned
<1>4. ASSUME t.faults = {} PROVE Owned(d)
  <2>1. \A x \in Chains :
          /\ d.chains[x].cable = t.chains[x].cable
          /\ d.chains[x].parts = IF x = c THEN Null ELSE t.chains[x].parts
    BY <1>1 DEF Sessions, ChainObjects
  <2>2. /\ \A k \in Cables : t.cables[k].live <=> \E x \in Chains : t.chains[x].cable = k
        /\ \A x \in Chains :
            t.chains[x].cable # Null =>
                LET k == t.cables[t.chains[x].cable]
                IN  k.chain = x /\ k.todo = "live" /\ k.done = "live"
        /\ \A q \in PartLists :
            t.partLists[q].live <=> \E x \in Chains : t.chains[x].parts = q
        /\ \A x, y \in Chains :
            t.chains[x].parts = t.chains[y].parts /\ t.chains[x].parts # Null => x = y
    BY <1>4 DEF Owned
  <2>3. \A k \in Cables : d.cables[k].live <=> \E x \in Chains : d.chains[x].cable = k
    BY <1>1, <2>1, <2>2
  <2>4. \A x \in Chains :
            d.chains[x].cable # Null =>
                LET k == d.cables[d.chains[x].cable]
                IN  k.chain = x /\ k.todo = "live" /\ k.done = "live"
    BY <1>1, <2>1, <2>2
  <2>5. \A q \in PartLists :
            d.partLists[q].live <=> \E x \in Chains : d.chains[x].parts = q
    <3> SUFFICES ASSUME NEW q \in PartLists
                 PROVE  d.partLists[q].live <=> \E x \in Chains : d.chains[x].parts = q
      OBVIOUS
    <3>1. q # Null
      BY SessionAssumption
    <3>2. CASE q = p
      <4>1. ~d.partLists[q].live
        BY <1>1, <3>1, <3>2 DEF NoParts, Sessions
      <4>2. \A x \in Chains : d.chains[x].parts # q
        BY <2>1, <2>2, <3>1, <3>2
      <4> QED
        BY <4>1, <4>2
    <3>3. CASE q # p
      <4>1. d.partLists[q] = t.partLists[q]
        BY <1>1, <3>3 DEF Sessions
      <4> QED
        BY <2>1, <2>2, <3>1, <3>3, <4>1
    <3> QED
      BY <3>2, <3>3
  <2>6. \A x, y \in Chains :
            d.chains[x].parts = d.chains[y].parts /\ d.chains[x].parts # Null => x = y
    BY <2>1, <2>2
  <2> QED
    BY <2>3, <2>4, <2>5, <2>6 DEF Owned
<1>5. t.faults # {} => d.faults # {}
  BY <1>1
<1> QED
  BY <1>1, <1>3, <1>4, <1>5 DEF Owned, d

LEMMA DisconnectedOwned ==
    ASSUME NEW t \in Sessions, NEW c \in Chains, Owned(t)
    PROVE  /\ Owned(Disconnected(t, c))
           /\ t.faults = {} => Disconnected(t, c).faults = {}
<1> DEFINE d == Disconnected(t, c)
           k == t.chains[c].cable
<1>1. /\ d.partLists = t.partLists
      /\ d.chains = [t.chains EXCEPT ![c].cable = Null]
      /\ d.cables = IF k = Null THEN t.cables ELSE [t.cables EXCEPT ![k] = NoCable]
      /\ t.faults \subseteq d.faults
      /\ \/ k = Null
         \/ /\ t.cables[k].live
            /\ \/ t.cables[k].todo = "null"
               \/ t.cables[k].todo = "live" /\ t.cables[k].done # "freed"
         => d.faults = t.faults
  BY DisconnectedFields
<1> HIDE DEF d
<1>2. k \in Cables \cup {Null}
  BY DEF Sessions, ChainObjects
<1>3. t.faults = {} => d.faults = {}
  BY <1>1, <1>2 DEF Owned
<1>4. ASSUME t.faults = {} PROVE Owned(d)
  <2>1. \A x \in Chains :
          /\ d.chains[x].parts = t.chains[x].parts
          /\ d.chains[x].cable = IF x = c THEN Null ELSE t.chains[x].cable
    BY <1>1 DEF Sessions, ChainObjects
  <2>2. /\ \A q \in Cables : t.cables[q].live <=> \E x \in Chains : t.chains[x].cable = q
        /\ \A x \in Chains :
            t.chains[x].cable # Null =>
                LET q == t.cables[t.chains[x].cable]
                IN  q.chain = x /\ q.todo = "live" /\ q.done = "live"
        /\ \A q \in PartLists :
            t.partLists[q].live <=> \E x \in Chains : t.chains[x].parts = q
        /\ \A x, y \in Chains :
            t.chains[x].parts = t.chains[y].parts /\ t.chains[x].parts # Null => x = y
    BY <1>4 DEF Owned
  <2>3. ASSUME NEW x \in Chains, x # c, t.chains[x].cable # Null
        PROVE  t.chains[x].cable # k
    BY <2>2, <2>3
  <2>4. \A q \in Cables : q # k => d.cables[q] = t.cables[q]
    BY <1>1 DEF Sessions
  <2>5. \A q \in Cables : d.cables[q].live <=> \E x \in Chains : d.chains[x].cable = q
    <3> SUFFICES ASSUME NEW q \in Cables
                 PROVE  d.cables[q].live <=> \E x \in Chains : d.chains[x].cable = q
      OBVIOUS
    <3>1. q # Null
      BY SessionAssumption
    <3>2. CASE q = k
      <4>1. ~d.cables[q].live
        BY <1>1, <3>1, <3>2 DEF NoCable, Sessions
      <4>2. \A x \in Chains : d.chains[x].cable # q
        BY <2>1, <2>3, <3>1, <3>2
      <4> QED
        BY <4>1, <4>2
    <3>3. CASE q # k
      BY <2>1, <2>2, <2>4, <3>1, <3>3
    <3> QED
      BY <3>2, <3>3
  <2>6. \A x \in Chains :
            d.chains[x].cable # Null =>
                LET q == d.cables[d.chains[x].cable]
                IN  q.chain = x /\ q.todo = "live" /\ q.done = "live"
    <3> SUFFICES ASSUME NEW x \in Chains, d.chains[x].cable # Null
                 PROVE  LET q == d.cables[d.chains[x].cable]
                        IN  q.chain = x /\ q.todo = "live" /\ q.done = "live"
      OBVIOUS
    <3>1. x # c /\ d.chains[x].cable = t.chains[x].cable /\ t.chains[x].cable # k
      BY <2>1, <2>3
    <3>2. t.chains[x].cable \in Cables
      BY <3>1 DEF Sessions, ChainObjects
    <3> QED
      BY <2>2, <2>4, <3>1, <3>2
  <2>7. /\ \A q \in PartLists :
            d.partLists[q].live <=> \E x \in Chains : d.chains[x].parts = q
        /\ \A x, y \in Chains :
            d.chains[x].parts = d.chains[y].parts /\ d.chains[x].parts # Null => x = y
    BY <1>1, <2>1, <2>2
  <2> QED
    BY <2>5, <2>6, <2>7 DEF Owned
<1>5. t.faults # {} => d.faults # {}
  BY <1>1
<1> QED
  BY <1>3, <1>4, <1>5 DEF Owned, d

LEMMA StartedOwned ==
    ASSUME NEW t \in Sessions, NEW c \in Chains, t.chains[c].cable = Null, Owned(t),
           NEW k \in FreshCables(t), NEW p \in Ports \cup {NoPort}, NEW outcome
    PROVE  Owned(Started(t, c, k, p, outcome))
<1> DEFINE d == Started(t, c, k, p, outcome)
<1>1. /\ d.partLists = t.partLists
      /\ t.faults \subseteq d.faults
      /\ \/ /\ d.chains = [t.chains EXCEPT ![c].cable = k]
            /\ d.cables[k].live /\ d.cables[k].chain = c
            /\ d.cables[k].todo = "live" /\ d.cables[k].done = "live"
         \/ d.chains = t.chains /\ ~d.cables[k].live
      /\ \A q \in Cables : q # k => d.cables[q] = t.cables[q]
  BY StartedFields
<1> HIDE DEF d
<1>2. k \in Cables /\ k # Null /\ \A x \in Chains : t.chains[x].cable # k
  BY SessionAssumption DEF FreshCables, CablesPointedTo
<1>3. t.chains \in [Chains -> ChainObjects] /\ t.cables \in [Cables -> CableObjects]
  BY DEF Sessions
<1>4. ASSUME t.faults = {} PROVE Owned(d)
  <2>2. /\ \A q \in Cables : t.cables[q].live <=> \E x \in Chains : t.chains[x].cable = q
        /\ \A x \in Chains :
            t.chains[x].cable # Null =>
                LET q == t.cables[t.chains[x].cable]
                IN  q.chain = x /\ q.todo = "live" /\ q.done = "live"
        /\ \A q \in PartLists :
            t.partLists[q].live <=> \E x \in Chains : t.chains[x].parts = q
        /\ \A x, y \in Chains :
            t.chains[x].parts = t.chains[y].parts /\ t.chains[x].parts # Null => x = y
    BY <1>4 DEF Owned
  <2>4. \A x \in Chains : d.chains[x].parts = t.chains[x].parts
    BY <1>1, <1>3 DEF ChainObjects
  <2>5. \A x \in Chains : x # c => d.chains[x].cable = t.chains[x].cable
    BY <1>1, <1>3
  <2>6. \/ /\ d.chains[c].cable = k /\ d.cables[k].live /\ d.cables[k].chain = c
           /\ d.cables[k].todo = "live" /\ d.cables[k].done = "live"
        \/ d.chains[c].cable = Null /\ ~d.cables[k].live
    BY <1>1, <1>2, <1>3 DEF ChainObjects
  <2>8. \A q \in Cables : d.cables[q].live <=> \E x \in Chains : d.chains[x].cable = q
    <3> SUFFICES ASSUME NEW q \in Cables
                 PROVE  d.cables[q].live <=> \E x \in Chains : d.chains[x].cable = q
      OBVIOUS
    <3>1. q # Null
      BY SessionAssumption
    <3>2. CASE q = k
      BY <1>2, <2>5, <2>6, <3>1, <3>2
    <3>3. CASE q # k
      BY <1>1, <2>2, <2>5, <2>6, <3>1, <3>3
    <3> QED
      BY <3>2, <3>3
  <2>9. \A x \in Chains :
            d.chains[x].cable # Null =>
                LET q == d.cables[d.chains[x].cable]
                IN  q.chain = x /\ q.todo = "live" /\ q.done = "live"
    <3> SUFFICES ASSUME NEW x \in Chains, d.chains[x].cable # Null
                 PROVE  LET q == d.cables[d.chains[x].cable]
                        IN  q.chain = x /\ q.todo = "live" /\ q.done = "live"
      OBVIOUS
    <3>1. CASE x = c
      BY <2>6, <3>1
    <3>2. CASE x # c
      <4>1. t.chains[x].cable \in Cables /\ t.chains[x].cable # k
        BY <1>2, <1>3, <2>5, <3>2 DEF ChainObjects
      <4> QED
        BY <1>1, <2>2, <2>5, <3>2, <4>1
    <3> QED
      BY <3>1, <3>2
  <2>10. /\ \A q \in PartLists :
             d.partLists[q].live <=> \E x \in Chains : d.chains[x].parts = q
         /\ \A x, y \in Chains :
             d.chains[x].parts = d.chains[y].parts /\ d.chains[x].parts # Null => x = y
    BY <1>1, <2>2, <2>4
  <2> QED
    BY <2>8, <2>9, <2>10 DEF Owned
<1>5. t.faults # {} => d.faults # {}
  BY <1>1
<1> QED
  BY <1>4, <1>5 DEF Owned, d

-----------------------------------------------------------------------------
(* The functions of the program keep the invariant. *)

SessionInv(t) ==
    /\ t \in Sessions
    /\ Owned(t)
    /\ ListedOnce(t)
    /\ ListShrinks => ActiveListed(t)
    /\ BusesInitialize /\ program = "jtag" => ListedUsable(t)

(* When nothing was freed that was listed, and the parts stayed.           *)
LEMMA UsableSame ==
    ASSUME NEW t \in Sessions, NEW d, ListedUsable(t), t.faults \subseteq d.faults,
           ToSet(d.list) \subseteq ToSet(t.list), d.buses = t.buses,
           d.partLists = t.partLists,
           \A c \in Chains : /\ d.chains[c].alloc = t.chains[c].alloc
                            /\ d.chains[c].parts = t.chains[c].parts
    PROVE  ListedUsable(d)
<1> SUFFICES ASSUME d.faults = {}, NEW b \in ToSet(d.list) PROVE Usable(d, b)
  BY DEF ListedUsable
<1>1. Usable(t, b)
  BY DEF ListedUsable
<1> QED
  BY <1>1 DEF Usable

LEMMA DisconnectedKeeps ==
    ASSUME NEW t, SessionInv(t), NEW c \in Chains
    PROVE  /\ SessionInv(Disconnected(t, c))
           /\ t.faults = {} => Disconnected(t, c).faults = {}
<1> DEFINE d == Disconnected(t, c)
<1>1. t \in Sessions /\ Owned(t)
  BY DEF SessionInv
<1>2. /\ Owned(d)
      /\ t.faults = {} => d.faults = {}
  BY <1>1, DisconnectedOwned
<1>3. /\ d \in Sessions
      /\ d.partLists = t.partLists /\ d.buses = t.buses
      /\ d.list = t.list /\ d.active = t.active
      /\ d.chains = [t.chains EXCEPT ![c].cable = Null]
      /\ t.faults \subseteq d.faults
  BY <1>1, DisconnectedFields
<1> HIDE DEF d
<1>4. \A x \in Chains : /\ d.chains[x].alloc = t.chains[x].alloc
                       /\ d.chains[x].parts = t.chains[x].parts
  BY <1>1, <1>3 DEF Sessions, ChainObjects
<1>5. ListedUsable(t) => ListedUsable(d)
  BY <1>1, <1>3, <1>4, UsableSame
<1>6. ListedOnce(d) /\ (ActiveListed(t) => ActiveListed(d))
  BY <1>3 DEF SessionInv, ListedOnce, ActiveListed
<1> QED
  BY <1>2, <1>3, <1>5, <1>6 DEF SessionInv, d

LEMMA CreatedKeeps ==
    ASSUME NEW t, SessionInv(t), t.faults = {}, NEW c \in Chains,
           NEW shrinks \in {TRUE, ~ShrinkFails}
    PROVE  /\ SessionInv(Created(t, c, shrinks))
           /\ Created(t, c, shrinks).faults = {}
           /\ Created(t, c, shrinks).chains[c].cable = Null
<1> DEFINE u == IF t.active = Null THEN t ELSE Deleted(t, t.active, shrinks)
<1>1. t \in Sessions /\ Owned(t) /\ ListedOnce(t)
  BY DEF SessionInv
<1>2. SessionInv(u) /\ u.faults = {}
  <2>1. CASE t.active = Null
    BY <2>1
  <2>2. CASE t.active # Null
    <3> DEFINE d == Deleted(t, t.active, shrinks)
    <3>1. /\ d \in Sessions
          /\ d = [t EXCEPT !.list = d.list, !.active = d.active]
          /\ ToSet(d.list) \subseteq ToSet(t.list)
          /\ ListedOnce(d)
          /\ ActiveListed(t) /\ shrinks = TRUE => ActiveListed(d)
      BY <1>1, DeletedFields
    <3> HIDE DEF d
    <3>2. /\ d.chains = t.chains /\ d.cables = t.cables /\ d.partLists = t.partLists
          /\ d.buses = t.buses /\ d.faults = t.faults
      BY <1>1, <3>1 DEF Sessions
    <3>3. Owned(d)
      BY <1>1, <3>2, OwnedSame
    <3>4. ListShrinks => shrinks = TRUE
      BY DEF ListShrinks
    <3>5. ListedUsable(t) => ListedUsable(d)
      BY <1>1, <3>1, <3>2, UsableSame
    <3>6. SessionInv(d)
      BY <3>1, <3>3, <3>4, <3>5 DEF SessionInv
    <3> QED
      BY <2>2, <3>2, <3>6 DEF d
  <2> QED
    BY <2>1, <2>2
<1> HIDE DEF u
<1>3. Created(t, c, shrinks) = Disconnected(u, c)
  BY DEF Created, u
<1>4. SessionInv(Disconnected(u, c)) /\ Disconnected(u, c).faults = {}
  BY <1>2, DisconnectedKeeps
<1>5. Disconnected(u, c).chains = [u.chains EXCEPT ![c].cable = Null] /\ u \in Sessions
  BY <1>2, DisconnectedFields DEF SessionInv
<1>6. Disconnected(u, c).chains[c].cable = Null
  BY <1>5 DEF Sessions, ChainObjects
<1> QED
  BY <1>3, <1>4, <1>6

LEMMA StartedKeeps ==
    ASSUME NEW t, SessionInv(t), NEW c \in Chains, t.chains[c].cable = Null,
           NEW k \in FreshCables(t), NEW p \in Ports \cup {NoPort}, NEW outcome
    PROVE  /\ SessionInv(Started(t, c, k, p, outcome))
           /\ outcome # "no_done" => Started(t, c, k, p, outcome).faults = t.faults
<1> DEFINE d == Started(t, c, k, p, outcome)
<1>1. t \in Sessions /\ Owned(t) /\ ListedOnce(t)
  BY DEF SessionInv
<1>2. Owned(d)
  BY <1>1, StartedOwned
<1>3. /\ d \in Sessions
      /\ d.partLists = t.partLists /\ d.buses = t.buses
      /\ d.list = t.list /\ d.active = t.active
      /\ t.faults \subseteq d.faults
      /\ outcome # "no_done" => d.faults = t.faults
      /\ d.chains = [t.chains EXCEPT ![c].cable = k] \/ d.chains = t.chains
  BY <1>1, StartedFields
<1> HIDE DEF d
<1>4. \A x \in Chains : /\ d.chains[x].alloc = t.chains[x].alloc
                       /\ d.chains[x].parts = t.chains[x].parts
  BY <1>1, <1>3 DEF Sessions, ChainObjects
<1>5. ListedUsable(t) => ListedUsable(d)
  BY <1>1, <1>3, <1>4, UsableSame
<1>6. ListedOnce(d) /\ (ActiveListed(t) => ActiveListed(d))
  BY <1>1, <1>3 DEF ListedOnce, ActiveListed
<1> QED
  BY <1>2, <1>3, <1>5, <1>6 DEF SessionInv, d

(* The buses and then the parts freed: the list is empty, and no fault if  *)
(* the listed buses could be used.                                         *)
LEMMA FreedKeeps ==
    ASSUME NEW t, SessionInv(t), t.faults = {}, NEW c \in Chains
    PROVE  LET d == PartsFreed(BusesFreed(t), c)
           IN  /\ SessionInv(d)
               /\ d.chains = [t.chains EXCEPT ![c].parts = Null]
               /\ d.list = <<>>
               /\ BusesInitialize /\ program = "jtag" => d.faults = {}
<1> DEFINE u == BusesFreed(t)
           d == PartsFreed(u, c)
<1>1. t \in Sessions /\ Owned(t) /\ ListedOnce(t)
  BY DEF SessionInv
<1>2. /\ u \in Sessions
      /\ u.chains = t.chains /\ u.cables = t.cables
      /\ u.partLists = t.partLists
      /\ u.list = <<>> /\ u.active = Null
      /\ t.faults \subseteq u.faults
      /\ ListedOnce(t) /\ ToSet(t.list) \subseteq LiveBuses(t) => u.faults = t.faults
  BY <1>1, BusesFreedFields
<1> HIDE DEF u
<1>3. Owned(u)
  BY <1>1, <1>2, OwnedSame
<1>4. Owned(d) /\ (u.faults = {} => d.faults = {})
  BY <1>2, <1>3, PartsFreedOwned
<1>5. /\ d \in Sessions /\ d.list = <<>> /\ d.active = Null
      /\ d.chains = [t.chains EXCEPT ![c].parts = Null]
  <2>1. /\ d \in Sessions /\ d.list = u.list /\ d.active = u.active
        /\ d.chains = [u.chains EXCEPT ![c].parts = Null]
    BY <1>2, PartsFreedFields
  <2> HIDE DEF d
  <2> QED
    BY <1>2, <2>1
<1> HIDE DEF d
<1>6. ToSet(<<>>) = {} /\ IsInjective(<<>>)
  BY DEF ToSet, IsInjective
<1>7. BusesInitialize /\ program = "jtag" => d.faults = {}
  <2> SUFFICES ASSUME BusesInitialize, program = "jtag" PROVE u.faults = {}
    BY <1>4
  <2>1. \A b \in ToSet(t.list) : b \in Buses /\ t.buses[b].live
    BY <1>1, ListedInList DEF SessionInv, ListedUsable, Usable
  <2> QED
    BY <1>1, <1>2, <2>1 DEF LiveBuses
<1> QED
  BY <1>4, <1>5, <1>6, <1>7 DEF SessionInv, ListedOnce, ActiveListed, ListedUsable, d, u

(* Parts given to a chain that has none. *)
PartsGiven(t, c, p, n) ==
    [t EXCEPT !.partLists[p] = [live |-> TRUE, len |-> n], !.chains[c].parts = p]

LEMMA PartsGivenKeeps ==
    ASSUME NEW t, SessionInv(t), NEW c \in Chains, t.chains[c].parts = Null,
           NEW p \in FreshParts(t), NEW n \in 0 .. MaxParts
    PROVE  LET d == PartsGiven(t, c, p, n)
           IN  /\ SessionInv(d)
               /\ d.faults = t.faults
               /\ d.chains[c].parts = p /\ (t.chains[c].alloc => d.chains[c].alloc)
<1> DEFINE d == PartsGiven(t, c, p, n)
<1> DEFINE new == [live |-> TRUE, len |-> n]
<1>1. t \in Sessions /\ Owned(t) /\ ListedOnce(t)
  BY DEF SessionInv
<1>2. /\ p \in PartLists /\ p # Null /\ ~t.partLists[p].live
      /\ \A x \in Chains : t.chains[x].parts # p
  BY SessionAssumption DEF FreshParts, PartsPointedTo
<1>3. new \in PartObjects /\ new.live
  BY DEF PartObjects
<1> HIDE DEF new
<1>4. /\ t.chains \in [Chains -> ChainObjects] /\ t.cables \in [Cables -> CableObjects]
      /\ t.partLists \in [PartLists -> PartObjects]
  BY <1>1 DEF Sessions
<1>5. /\ [t.chains EXCEPT ![c].parts = p] \in [Chains -> ChainObjects]
      /\ [t.partLists EXCEPT ![p] = new] \in [PartLists -> PartObjects]
  BY <1>2, <1>3, <1>4 DEF ChainObjects
<1>6. d = [t EXCEPT !.chains = [t.chains EXCEPT ![c].parts = p],
                    !.partLists = [t.partLists EXCEPT ![p] = new]]
  BY <1>1 DEF Sessions, PartsGiven, new
<1> HIDE DEF d
<1>7. /\ d \in Sessions
      /\ d.chains = [t.chains EXCEPT ![c].parts = p]
      /\ d.partLists = [t.partLists EXCEPT ![p] = new]
      /\ d.cables = t.cables /\ d.buses = t.buses
      /\ d.list = t.list /\ d.active = t.active /\ d.faults = t.faults
  BY <1>1, <1>5, <1>6 DEF Sessions
<1>8. \A x \in Chains :
        /\ d.chains[x].cable = t.chains[x].cable /\ d.chains[x].alloc = t.chains[x].alloc
        /\ d.chains[x].parts = IF x = c THEN p ELSE t.chains[x].parts
  BY <1>4, <1>7 DEF ChainObjects
<1>9. d.partLists[p].live /\ \A q \in PartLists : q # p => d.partLists[q] = t.partLists[q]
  BY <1>2, <1>3, <1>4, <1>7
<1>10. Owned(d)
  <2> SUFFICES ASSUME t.faults = {} PROVE Owned(d)
    BY <1>7 DEF Owned
  <2>1. /\ \A k \in Cables : t.cables[k].live <=> \E x \in Chains : t.chains[x].cable = k
        /\ \A x \in Chains :
            t.chains[x].cable # Null =>
                LET k == t.cables[t.chains[x].cable]
                IN  k.chain = x /\ k.todo = "live" /\ k.done = "live"
        /\ \A q \in PartLists :
            t.partLists[q].live <=> \E x \in Chains : t.chains[x].parts = q
        /\ \A x, y \in Chains :
            t.chains[x].parts = t.chains[y].parts /\ t.chains[x].parts # Null => x = y
    BY <1>1 DEF Owned
  <2>2. /\ \A k \in Cables : d.cables[k].live <=> \E x \in Chains : d.chains[x].cable = k
        /\ \A x \in Chains :
            d.chains[x].cable # Null =>
                LET k == d.cables[d.chains[x].cable]
                IN  k.chain = x /\ k.todo = "live" /\ k.done = "live"
    BY <1>7, <1>8, <2>1
  <2>3. \A q \in PartLists :
            d.partLists[q].live <=> \E x \in Chains : d.chains[x].parts = q
    <3> SUFFICES ASSUME NEW q \in PartLists
                 PROVE  d.partLists[q].live <=> \E x \in Chains : d.chains[x].parts = q
      OBVIOUS
    <3>1. q # Null
      BY SessionAssumption
    <3>2. CASE q = p
      BY <1>8, <1>9, <3>2
    <3>3. CASE q # p
      BY <1>8, <1>9, <2>1, <3>1, <3>3
    <3> QED
      BY <3>2, <3>3
  <2>4. \A x, y \in Chains :
            d.chains[x].parts = d.chains[y].parts /\ d.chains[x].parts # Null => x = y
    BY <1>2, <1>8, <2>1
  <2> QED
    BY <2>2, <2>3, <2>4 DEF Owned
<1>11. ListedUsable(t) => ListedUsable(d)
  <2> SUFFICES ASSUME ListedUsable(t), t.faults = {}, NEW b \in ToSet(t.list)
               PROVE  Usable(d, b)
    BY <1>7 DEF ListedUsable
  <2>1. Usable(t, b)
    BY DEF ListedUsable
  <2>2. t.buses[b].parts # p /\ t.buses[b].chain # c
    BY <1>2, <2>1, SessionAssumption DEF Usable
  <2> QED
    BY <1>7, <1>8, <1>9, <2>1, <2>2 DEF Usable
<1>12. ListedOnce(d) /\ (ActiveListed(t) => ActiveListed(d))
  BY <1>1, <1>7 DEF ListedOnce, ActiveListed
<1> QED
  BY <1>7, <1>8, <1>9, <1>10, <1>11, <1>12 DEF SessionInv, d

LEMMA BusAddedKeeps ==
    ASSUME NEW t, SessionInv(t), NEW c \in Chains, t.chains[c].alloc,
           t.chains[c].parts # Null, NEW b \in FreshBuses(t), NEW outcome \in BusOutcomes
    PROVE  /\ SessionInv(BusAdded(t, c, b, outcome))
           /\ BusesInitialize => BusAdded(t, c, b, outcome).faults = t.faults
<1> DEFINE d == BusAdded(t, c, b, outcome)
           bus == [live |-> TRUE, chain |-> c, parts |-> t.chains[c].parts]
<1>1. t \in Sessions /\ Owned(t) /\ ListedOnce(t)
  BY DEF SessionInv
<1>2. /\ d \in Sessions
      /\ d.chains = t.chains /\ d.cables = t.cables
      /\ d.partLists = t.partLists
      /\ t.faults \subseteq d.faults
      /\ ListedOnce(t) => ListedOnce(d)
      /\ ActiveListed(t) => ActiveListed(d)
      /\ outcome # "init_fails" => d.faults = t.faults
      /\ outcome \in BusOutcomes \ {"init_fails"} =>
            \/ d = t
            \/ /\ d.buses = [t.buses EXCEPT ![b] = bus]
               /\ ToSet(d.list) = ToSet(t.list) \cup {b}
  BY <1>1, BusAddedFields
<1> HIDE DEF d
<1>3. Owned(d)
  BY <1>1, <1>2, OwnedSame
<1>4. BusesInitialize => outcome \in BusOutcomes \ {"init_fails"}
  BY DEF BusesInitialize
<1>5. ASSUME BusesInitialize, ListedUsable(t), t.faults = {} PROVE ListedUsable(d)
  <2>1. CASE d = t
    BY <1>5, <2>1
  <2>2. CASE /\ d.buses = [t.buses EXCEPT ![b] = bus]
             /\ ToSet(d.list) = ToSet(t.list) \cup {b}
    <3>1. b \in Buses /\ b \notin ToSet(t.list) /\ ToSet(t.list) \subseteq Buses
      BY <1>1, ListedInList DEF FreshBuses, BusesPointedTo
    <3>2. d.buses[b] = bus /\ \A x \in ToSet(t.list) : d.buses[x] = t.buses[x]
      BY <1>1, <2>2, <3>1 DEF Sessions
    <3>3. bus.live /\ bus.chain = c /\ bus.parts = t.chains[c].parts
      OBVIOUS
    <3> HIDE DEF bus
    <3>4. t.chains[c].parts \in PartLists
      BY <1>1 DEF Sessions, ChainObjects
    <3>5. t.partLists[t.chains[c].parts].live
      BY <1>1, <1>5, <3>4 DEF Owned
    <3>6. Usable(d, b)
      BY <1>2, <3>2, <3>3, <3>4, <3>5 DEF Usable
    <3>7. \A x \in ToSet(t.list) : Usable(d, x)
      BY <1>2, <1>5, <3>2 DEF Usable, ListedUsable
    <3> QED
      BY <2>2, <3>6, <3>7 DEF ListedUsable
  <2> QED
    BY <1>2, <1>4, <1>5, <2>1, <2>2
<1>6. t.faults # {} => ListedUsable(d)
  BY <1>2 DEF ListedUsable
<1> QED
  BY <1>1, <1>2, <1>3, <1>4, <1>5, <1>6 DEF SessionInv, d

-----------------------------------------------------------------------------
(* Every command keeps it. *)

(* What jtag leaves undefined when nothing fails that a theorem excludes.  *)
Defined(t) ==
    QueuesPaired /\ BusesInitialize /\ ListShrinks /\ program = "jtag"
        => t.faults \subseteq {"null cable followed"}

(* A fault noted changes nothing else. *)
LEMMA FaultKeeps ==
    ASSUME NEW t, SessionInv(t), NEW p \in BOOLEAN, NEW f \in Faults
    PROVE  SessionInv(FaultIf(t, p, f))
<1> DEFINE d == FaultIf(t, p, f)
<1>1. t \in Sessions /\ Owned(t) /\ ListedOnce(t)
  BY DEF SessionInv
<1>2. d \in Sessions /\ d = [t EXCEPT !.faults = IF p THEN @ \cup {f} ELSE @]
  BY <1>1, FaultFields
<1> HIDE DEF d
<1>3. /\ d.chains = t.chains /\ d.cables = t.cables /\ d.partLists = t.partLists
      /\ d.buses = t.buses /\ d.list = t.list /\ d.active = t.active
      /\ t.faults \subseteq d.faults
  BY <1>1, <1>2 DEF Sessions
<1>4. Owned(d)
  BY <1>1, <1>3, OwnedSame
<1>5. ListedUsable(t) => ListedUsable(d)
  BY <1>1, <1>3, UsableSame
<1> QED
  BY <1>1, <1>2, <1>3, <1>4, <1>5 DEF SessionInv, ListedOnce, ActiveListed, d

LEMMA ConnectStep ==
    ASSUME SessionInv(s), NEW c \in Chains, NEW p, NEW outcome \in ConnectOutcomes,
           Connect(c, p, outcome)
    PROVE  SessionInv(s') /\ Defined(s')
<1>1. s.faults = {} /\ p \in Ports \cup {NoPort}
  BY SessionAssumption DEF Connect, Runs
<1>2. PICK shrinks \in {TRUE, ~ShrinkFails} :
        LET t == Created(s, c, shrinks)
        IN  \/ s' = t
            \/ s' = Fault(t, "null cable followed")
            \/ \E k \in FreshCables(t) : s' = Started(t, c, k, p, outcome)
  BY DEF Connect
<1> DEFINE t == Created(s, c, shrinks)
<1>3. SessionInv(t) /\ t.faults = {} /\ t.chains[c].cable = Null
  BY <1>1, CreatedKeeps
<1> HIDE DEF t
<1>4. CASE s' = t
  BY <1>3, <1>4 DEF Defined
<1>5. CASE s' = Fault(t, "null cable followed")
  <2>1. s' = FaultIf(t, TRUE, "null cable followed")
    BY <1>5 DEF FaultIf
  <2>2. SessionInv(s')
    BY <1>3, <2>1, FaultKeeps DEF Faults
  <2>3. s'.faults = {"null cable followed"}
    BY <1>3, <1>5 DEF Fault, SessionInv, Sessions
  <2> QED
    BY <2>2, <2>3 DEF Defined
<1>6. ASSUME NEW k \in FreshCables(t), s' = Started(t, c, k, p, outcome)
      PROVE  SessionInv(s') /\ Defined(s')
  <2>1. SessionInv(s') /\ (outcome # "no_done" => s'.faults = t.faults)
    BY <1>1, <1>3, <1>6, StartedKeeps
  <2> QED
    BY <1>3, <2>1 DEF Defined, QueuesPaired
<1> QED
  BY <1>2, <1>4, <1>5, <1>6 DEF t

LEMMA DisconnectStep ==
    ASSUME SessionInv(s), NEW c \in Chains, Disconnect(c)
    PROVE  SessionInv(s') /\ Defined(s')
<1>1. s.faults = {} /\ s' = Disconnected(s, c)
  BY DEF Disconnect, Runs
<1>2. SessionInv(Disconnected(s, c)) /\ Disconnected(s, c).faults = {}
  BY <1>1, DisconnectedKeeps
<1> QED
  BY <1>1, <1>2 DEF Defined

(* The cable of a chain lives, and its queues. *)
LEMMA UseCableStep ==
    ASSUME SessionInv(s), NEW c \in Chains, UseCable(c)
    PROVE  SessionInv(s') /\ Defined(s')
<1> DEFINE k == s.cables[s.chains[c].cable]
<1>1. s.faults = {} /\ s.chains[c].cable # Null
  BY DEF UseCable, Runs, HasCable
<1>2. s.chains[c].cable \in Cables
  BY <1>1 DEF SessionInv, Sessions, ChainObjects
<1>3. k.live /\ k.todo = "live" /\ k.done = "live"
  BY <1>1, <1>2 DEF SessionInv, Owned
<1>4. s' = FaultIf(s, ~k.live \/ k.todo # "live" \/ k.done # "live",
                   "cable used after free")
  BY DEF UseCable
<1>5. s' = s
  BY <1>3, <1>4 DEF FaultIf
<1> QED
  BY <1>1, <1>5 DEF Defined

LEMMA DetectNoneStep ==
    ASSUME SessionInv(s), NEW c \in Chains, DetectNone(c)
    PROVE  SessionInv(s') /\ Defined(s')
<1>1. s.faults = {} /\ s' = PartsFreed(BusesFreed(s), c)
  BY DEF DetectNone, Runs
<1> QED
  BY <1>1, FreedKeeps DEF Defined

LEMMA DetectStep ==
    ASSUME SessionInv(s), NEW c \in Chains, NEW n \in 1 .. MaxParts,
           NEW outcome \in BusOutcomes \cup {"none"}, Detect(c, n, outcome)
    PROVE  SessionInv(s') /\ Defined(s')
<1>1. s.faults = {} /\ s.chains[c].alloc
  BY DEF Detect, Runs
<1> DEFINE t == PartsFreed(BusesFreed(s), c)
<1>2. /\ SessionInv(t)
      /\ t.chains = [s.chains EXCEPT ![c].parts = Null]
      /\ t.list = <<>>
      /\ BusesInitialize /\ program = "jtag" => t.faults = {}
  BY <1>1, FreedKeeps
<1> DEFINE found(p) == [t EXCEPT !.partLists[p] = [live |-> TRUE, len |-> n],
                                 !.chains[c].parts = p]
           end(p, b) == IF outcome = "none" THEN found(p)
                        ELSE BusAdded(found(p), c, b, outcome)
<1>3. PICK p \in FreshParts(t), b \in FreshBuses(t) \cup {Null} :
        /\ b = Null <=> outcome = "none"
        /\ s' = FaultIf(end(p, b), ~(ToSet(end(p, b).list) \subseteq LiveBuses(end(p, b))),
                        "bus used after free")
  BY DEF Detect
<1>4. t.chains[c].parts = Null /\ t.chains[c].alloc
  BY <1>1, <1>2 DEF SessionInv, Sessions, ChainObjects
<1>5. n \in 0 .. MaxParts /\ MaxParts \in Nat
  BY SessionAssumption
<1> HIDE DEF t
<1> DEFINE f == found(p)
           e == end(p, b)
           bad == ~(ToSet(e.list) \subseteq LiveBuses(e))
<1>6. /\ SessionInv(e)
      /\ BusesInitialize => e.faults = t.faults
  <2>1. f = PartsGiven(t, c, p, n)
    BY DEF PartsGiven
  <2> HIDE DEF found, f
  <2>2. /\ SessionInv(f) /\ f.faults = t.faults
        /\ f.chains[c].parts = p /\ f.chains[c].alloc
    <3> DEFINE g == PartsGiven(t, c, p, n)
    <3>1. /\ SessionInv(g) /\ g.faults = t.faults
          /\ g.chains[c].parts = p /\ (t.chains[c].alloc => g.chains[c].alloc)
      <4>1. SessionInv(t)
        BY <1>2
      <4>2. t.chains[c].parts = Null
        BY <1>4
      <4>3. n \in 0 .. MaxParts
        BY <1>5
      <4>4. p \in FreshParts(t)
        OBVIOUS
      <4> QED
        BY <4>1, <4>2, <4>3, <4>4, PartsGivenKeeps
    <3> QED
      BY <1>4, <2>1, <3>1
  <2>3. CASE outcome = "none"
    BY <2>2, <2>3 DEF f
  <2>4. CASE outcome # "none"
    <3>1. b \in FreshBuses(f) /\ outcome \in BusOutcomes
      <4>1. f.active = t.active /\ f.buses = t.buses /\ f.list = t.list
        BY <1>2, <2>1 DEF SessionInv, Sessions, PartsGiven
      <4> QED
        BY <1>3, <2>4, <4>1 DEF FreshBuses, BusesPointedTo, LiveBuses
    <3>2. f.chains[c].parts # Null
      BY <2>2, SessionAssumption DEF FreshParts
    <3>3. e = BusAdded(f, c, b, outcome)
      BY <2>4 DEF f
    <3> QED
      BY <2>2, <3>1, <3>2, <3>3, BusAddedKeeps
  <2> QED
    BY <2>3, <2>4
<1> HIDE DEF e
<1>7. bad \in BOOLEAN /\ s' = FaultIf(e, bad, "bus used after free")
  BY <1>3 DEF e
<1>8. ASSUME BusesInitialize, program = "jtag" PROVE ~bad /\ e.faults = {}
  <2>1. e.faults = {} /\ e \in Sessions /\ ListedUsable(e)
    BY <1>2, <1>6, <1>8 DEF SessionInv
  <2>2. ToSet(e.list) \subseteq LiveBuses(e)
    BY <2>1, ListedInList DEF ListedUsable, Usable, LiveBuses
  <2> QED
    BY <2>1, <2>2
<1> HIDE DEF bad
<1>9. SessionInv(s')
  BY <1>6, <1>7, FaultKeeps DEF Faults
<1>10. Defined(s')
  BY <1>7, <1>8 DEF Defined, FaultIf
<1> QED
  BY <1>9, <1>10

LEMMA AddPartStep ==
    ASSUME SessionInv(s), NEW c \in Chains, NEW outcome \in PartOutcomes,
           AddPart(c, outcome)
    PROVE  SessionInv(s') /\ Defined(s')
<1> DEFINE q == s.chains[c].parts
<1>1. s.faults = {} /\ s \in Sessions
  BY DEF AddPart, Runs, SessionInv
<1>2. CASE s' = s
  BY <1>1, <1>2 DEF Defined
<1>3. ASSUME q = Null, NEW p \in FreshParts(s), NEW n \in {0, 1},
             s' = [s EXCEPT !.chains[c].parts = p,
                            !.partLists[p] = [live |-> TRUE, len |-> n]]
      PROVE  SessionInv(s') /\ Defined(s')
  <2>1. n \in 0 .. MaxParts
    BY SessionAssumption
  <2>2. s' = PartsGiven(s, c, p, n)
    BY <1>1, <1>3 DEF Sessions, PartsGiven
  <2>3. SessionInv(s') /\ s'.faults = s.faults
    BY <1>3, <2>1, <2>2, PartsGivenKeeps
  <2> QED
    BY <1>1, <2>3 DEF Defined
<1>4. ASSUME q # Null, s.partLists[q].len < MaxParts,
             s' = [s EXCEPT !.partLists[q].len = @ + 1]
      PROVE  SessionInv(s') /\ Defined(s')
  <2>1. q \in PartLists
    BY <1>1, <1>4 DEF Sessions, ChainObjects
  <2>2. /\ s.partLists \in [PartLists -> PartObjects]
        /\ s' = [s EXCEPT !.partLists = [s.partLists EXCEPT ![q].len = @ + 1]]
    BY <1>1, <1>4 DEF Sessions
  <2>3. /\ [s.partLists EXCEPT ![q].len = @ + 1] \in [PartLists -> PartObjects]
        /\ \A p \in PartLists :
             [s.partLists EXCEPT ![q].len = @ + 1][p].live = s.partLists[p].live
    BY <1>4, <2>1, <2>2, SessionAssumption DEF PartObjects
  <2>4. /\ s' \in Sessions
        /\ s'.partLists = [s.partLists EXCEPT ![q].len = @ + 1]
        /\ s'.chains = s.chains /\ s'.cables = s.cables /\ s'.buses = s.buses
        /\ s'.list = s.list /\ s'.active = s.active /\ s'.faults = s.faults
    BY <1>1, <2>2, <2>3 DEF Sessions
  <2>5. \A p \in PartLists : s'.partLists[p].live = s.partLists[p].live
    BY <2>3, <2>4
  <2>6. Owned(s')
    <3> DEFINE u == s'
    <3>1. /\ u.faults = s.faults /\ u.chains = s.chains /\ u.cables = s.cables
          /\ \A p \in PartLists : u.partLists[p].live = s.partLists[p].live
      BY <2>4, <2>5
    <3> HIDE DEF u
    <3>2. \A p \in PartLists : s.partLists[p].live <=> \E x \in Chains : s.chains[x].parts = p
      BY <1>1 DEF SessionInv, Owned
    <3>3. \A p \in PartLists : u.partLists[p].live <=> \E x \in Chains : u.chains[x].parts = p
      BY <3>1, <3>2
    <3> QED
      BY <1>1, <3>1, <3>3 DEF SessionInv, Owned, u
  <2>7. ListedUsable(s) => ListedUsable(s')
    <3> SUFFICES ASSUME ListedUsable(s), NEW b \in ToSet(s.list) PROVE Usable(s', b)
      BY <2>4 DEF ListedUsable
    <3>1. Usable(s, b)
      BY <1>1 DEF ListedUsable
    <3> QED
      BY <2>4, <2>5, <3>1 DEF Usable
  <2> QED
    BY <1>1, <2>4, <2>6, <2>7 DEF SessionInv, ListedOnce, ActiveListed, Defined
<1> QED
  BY <1>2, <1>3, <1>4 DEF AddPart

LEMMA InitBusStep ==
    ASSUME SessionInv(s), NEW c \in Chains, NEW outcome \in BusOutcomes, InitBus(c, outcome)
    PROVE  SessionInv(s') /\ Defined(s')
<1>1. s.faults = {} /\ s.chains[c].alloc /\ s.chains[c].parts # Null
  BY DEF InitBus, Runs, HasActivePart
<1>2. PICK b \in FreshBuses(s) : s' = BusAdded(s, c, b, outcome)
  BY DEF InitBus
<1>3. SessionInv(s') /\ (BusesInitialize => s'.faults = s.faults)
  BY <1>1, <1>2, BusAddedKeeps
<1> QED
  BY <1>1, <1>3 DEF Defined

LEMMA SetBusStep ==
    ASSUME SessionInv(s), NEW c \in Chains, NEW n \in 1 .. Len(s.list), SetBus(c, n)
    PROVE  SessionInv(s') /\ Defined(s')
<1>1. s.faults = {} /\ s \in Sessions /\ s' = [s EXCEPT !.active = s.list[n]]
  BY DEF SetBus, Runs, SessionInv
<1>2. s.list[n] \in ToSet(s.list) /\ s.list[n] \in Buses /\ s.list # <<>>
  BY <1>1, LenProperties, EmptySeq DEF ToSet, Sessions
<1>3. /\ s' \in Sessions
      /\ s'.chains = s.chains /\ s'.cables = s.cables /\ s'.partLists = s.partLists
      /\ s'.buses = s.buses /\ s'.list = s.list /\ s'.active = s.list[n]
      /\ s'.faults = s.faults
  BY <1>1, <1>2 DEF Sessions
<1>4. Owned(s')
  BY <1>3, OwnedSame DEF SessionInv
<1>5. ListedUsable(s) => ListedUsable(s')
  BY <1>1, <1>3, UsableSame
<1> QED
  BY <1>1, <1>2, <1>3, <1>4, <1>5 DEF SessionInv, ListedOnce, ActiveListed, Defined

(* The active bus is listed, and what is listed can be used. *)
LEMMA UseBusStep ==
    ASSUME SessionInv(s), NEW c \in Chains, UseBus(c)
    PROVE  SessionInv(s') /\ Defined(s')
<1> DEFINE b == s.active
           bus == s.buses[b]
           holder == s.chains[bus.chain]
<1>1. s.faults = {} /\ b # Null /\ s' = Used(s, b)
  BY DEF UseBus, Runs
<1>2. PICK p \in BOOLEAN, f \in Faults : s' = FaultIf(s, p, f)
  BY <1>1 DEF Used, Faults, FaultIf
<1>3. SessionInv(s')
  BY <1>2, FaultKeeps
<1>4. Defined(s')
  <2> SUFFICES ASSUME BusesInitialize, ListShrinks, program = "jtag"
               PROVE  s'.faults \subseteq {"null cable followed"}
    BY DEF Defined
  <2>1. b \in ToSet(s.list)
    BY <1>1 DEF SessionInv, ActiveListed
  <2>2. Usable(s, b)
    BY <1>1, <2>1 DEF SessionInv, ListedUsable
  <2>3. s' = FaultIf(s, holder.cable = Null, "null cable followed")
    BY <1>1, <2>2 DEF Used, Usable
  <2> QED
    BY <1>1, <2>3 DEF FaultIf, Fault, SessionInv, Sessions
<1> QED
  BY <1>3, <1>4

(* A chain may be freed when no bus in the list refers to its parts, as    *)
(* jtag does.                                                              *)
LEMMA ChainFreedKeeps ==
    ASSUME NEW t, SessionInv(t), NEW c \in Chains, program = "jtag" => t.list = <<>>
    PROVE  /\ SessionInv(ChainFreed(t, c))
           /\ t.faults = {} => ChainFreed(t, c).faults = {}
<1> DEFINE u == Disconnected(t, c)
           v == PartsFreed(u, c)
           d == ChainFreed(t, c)
<1>1. SessionInv(u) /\ (t.faults = {} => u.faults = {})
  BY DisconnectedKeeps
<1>2. u.list = t.list /\ u \in Sessions /\ Owned(u)
  BY <1>1, DisconnectedFields DEF SessionInv
<1> HIDE DEF u
<1>3. /\ v \in Sessions /\ v.list = u.list /\ v.active = u.active
  BY <1>2, PartsFreedFields
<1>4. Owned(v) /\ (u.faults = {} => v.faults = {})
  BY <1>2, PartsFreedOwned
<1> HIDE DEF v
<1>5. d = [v EXCEPT !.chains[c].alloc = FALSE]
  BY DEF ChainFreed, u, v
<1> HIDE DEF d
<1>6. /\ d.cables = v.cables /\ d.partLists = v.partLists /\ d.buses = v.buses
      /\ d.list = v.list /\ d.active = v.active /\ d.faults = v.faults
      /\ d.chains = [v.chains EXCEPT ![c].alloc = FALSE]
  BY <1>3, <1>5 DEF Sessions
<1>7. /\ v.chains \in [Chains -> ChainObjects]
      /\ d = [v EXCEPT !.chains = [v.chains EXCEPT ![c].alloc = FALSE]]
  BY <1>3, <1>5 DEF Sessions
<1>8. /\ [v.chains EXCEPT ![c].alloc = FALSE] \in [Chains -> ChainObjects]
      /\ \A x \in Chains : /\ d.chains[x].cable = v.chains[x].cable
                          /\ d.chains[x].parts = v.chains[x].parts
  <2>1. [v.chains EXCEPT ![c].alloc = FALSE] \in [Chains -> ChainObjects]
    BY <1>7 DEF ChainObjects
  <2>2. \A x \in Chains : /\ d.chains[x].cable = v.chains[x].cable
                         /\ d.chains[x].parts = v.chains[x].parts
    BY <1>6, <1>7 DEF ChainObjects
  <2> QED
    BY <2>1, <2>2
<1>9. d \in Sessions
  BY <1>3, <1>7, <1>8 DEF Sessions
<1>10. Owned(d)
  BY <1>4, <1>6, <1>8 DEF Owned
<1>11. program = "jtag" => ListedUsable(d)
  <2>1. ToSet(<<>>) = {}
    BY DEF ToSet
  <2> QED
    BY <1>2, <1>3, <1>6, <2>1 DEF ListedUsable
<1> QED
  BY <1>1, <1>2, <1>3, <1>4, <1>6, <1>9, <1>10, <1>11
  DEF SessionInv, ListedOnce, ActiveListed, d

LEMMA DeallocStep ==
    ASSUME SessionInv(s), NEW c \in Chains, Dealloc(c)
    PROVE  SessionInv(s') /\ Defined(s')
<1>1. program = "python" /\ s' = ChainFreed(s, c)
  BY DEF Dealloc
<1> QED
  BY <1>1, ChainFreedKeeps DEF Defined

LEMMA QuitStep ==
    ASSUME SessionInv(s), NEW c \in Chains, Quit(c)
    PROVE  SessionInv(s') /\ Defined(s')
<1> DEFINE t == BusesFreed(s)
<1>1. s.faults = {} /\ s' = ChainFreed(t, c)
  BY DEF Quit, Runs
<1>2. s \in Sessions /\ Owned(s) /\ ListedOnce(s)
  BY DEF SessionInv
<1>3. /\ t \in Sessions
      /\ t.chains = s.chains /\ t.cables = s.cables /\ t.partLists = s.partLists
      /\ t.list = <<>> /\ t.active = Null
      /\ s.faults \subseteq t.faults
      /\ ListedOnce(s) /\ ToSet(s.list) \subseteq LiveBuses(s) => t.faults = s.faults
  BY <1>2, BusesFreedFields
<1> HIDE DEF t
<1>4. Owned(t)
  BY <1>2, <1>3, OwnedSame
<1>5. SessionInv(t)
  <2>1. ToSet(<<>>) = {} /\ IsInjective(<<>>)
    BY DEF ToSet, IsInjective
  <2> QED
    BY <1>3, <1>4, <2>1 DEF SessionInv, ListedOnce, ActiveListed, ListedUsable
<1>6. BusesInitialize /\ program = "jtag" => t.faults = {}
  <2> SUFFICES ASSUME BusesInitialize, program = "jtag" PROVE t.faults = {}
    OBVIOUS
  <2>1. ToSet(s.list) \subseteq LiveBuses(s)
    BY <1>1, <1>2, ListedInList DEF SessionInv, ListedUsable, Usable, LiveBuses
  <2> QED
    BY <1>1, <1>2, <1>3, <2>1
<1>7. SessionInv(s') /\ (t.faults = {} => s'.faults = {})
  BY <1>1, <1>3, <1>5, ChainFreedKeeps
<1> QED
  BY <1>6, <1>7 DEF Defined

-----------------------------------------------------------------------------
(* The theorems. *)

IInv ==
    /\ program \in Programs
    /\ SessionInv(s)
    /\ Defined(s)

LEMMA InitInv == Init => IInv
<1> SUFFICES ASSUME Init PROVE IInv
  OBVIOUS
<1>1. PICK allocated \in SUBSET Chains :
        s = [chains    |-> [c \in Chains |-> [alloc |-> c \in allocated,
                                              cable |-> Null, parts |-> Null]],
             cables    |-> [k \in Cables |-> NoCable],
             partLists |-> [p \in PartLists |-> NoParts],
             buses     |-> [b \in Buses |-> NoBus],
             list      |-> <<>>,
             active    |-> Null,
             faults    |-> {}]
  BY DEF Init
<1>2. /\ s.list = <<>> /\ s.active = Null /\ s.faults = {}
      /\ \A c \in Chains : s.chains[c].cable = Null /\ s.chains[c].parts = Null
      /\ \A k \in Cables : ~s.cables[k].live
      /\ \A p \in PartLists : ~s.partLists[p].live
  BY <1>1 DEF NoCable, NoParts
<1>3. s \in Sessions
  <2>1. [c \in Chains |-> [alloc |-> c \in allocated, cable |-> Null, parts |-> Null]]
          \in [Chains -> ChainObjects]
    BY DEF ChainObjects
  <2>2. NoCable \in CableObjects /\ NoParts \in PartObjects /\ NoBus \in BusObjects
    BY SessionAssumption
    DEF NoCable, NoParts, NoBus, CableObjects, QueueStates, PartObjects, BusObjects
  <2>3. <<>> \in Seq(Buses)
    BY EmptySeq
  <2> QED
    BY <1>1, <2>1, <2>2, <2>3 DEF Sessions
<1>4. Owned(s)
  BY <1>2, SessionAssumption DEF Owned
<1>5. ToSet(<<>>) = {} /\ IsInjective(<<>>)
  BY DEF ToSet, IsInjective
<1> QED
  BY <1>2, <1>3, <1>4, <1>5
  DEF Init, IInv, SessionInv, Defined, ListedOnce, ActiveListed, ListedUsable

LEMMA StepInv == IInv /\ [Next]_vars => IInv'
<1> SUFFICES ASSUME IInv, [Next]_vars PROVE IInv'
  OBVIOUS
<1>1. CASE UNCHANGED vars
  BY <1>1 DEF vars, IInv, SessionInv, Defined
<1>2. ASSUME Next PROVE SessionInv(s') /\ Defined(s') /\ program' = program
  <2>1. PICK c \in Chains :
          \/ \E p \in Ports \cup {NoPort}, o \in ConnectOutcomes : Connect(c, p, o)
          \/ Disconnect(c) \/ UseCable(c)
          \/ DetectNone(c)
          \/ \E n \in 1 .. MaxParts, o \in BusOutcomes \cup {"none"} : Detect(c, n, o)
          \/ \E o \in PartOutcomes : AddPart(c, o)
          \/ \E o \in BusOutcomes : InitBus(c, o)
          \/ \E n \in 1 .. Len(s.list) : SetBus(c, n)
          \/ UseBus(c)
          \/ Dealloc(c) \/ Quit(c)
    BY <1>2 DEF Next
  <2>2. SessionInv(s)
    BY DEF IInv
  <2>3. ASSUME NEW p, NEW o \in ConnectOutcomes, Connect(c, p, o)
        PROVE  SessionInv(s') /\ Defined(s') /\ program' = program
    BY <2>2, <2>3, ConnectStep DEF Connect, Ends
  <2>4. CASE Disconnect(c)
    BY <2>2, <2>4, DisconnectStep DEF Disconnect, Done
  <2>5. CASE UseCable(c)
    BY <2>2, <2>5, UseCableStep DEF UseCable, Done
  <2>6. CASE DetectNone(c)
    BY <2>2, <2>6, DetectNoneStep DEF DetectNone, Done
  <2>7. ASSUME NEW n \in 1 .. MaxParts, NEW o \in BusOutcomes \cup {"none"}, Detect(c, n, o)
        PROVE  SessionInv(s') /\ Defined(s') /\ program' = program
    BY <2>2, <2>7, DetectStep DEF Detect, Done
  <2>8. ASSUME NEW o \in PartOutcomes, AddPart(c, o)
        PROVE  SessionInv(s') /\ Defined(s') /\ program' = program
    BY <2>2, <2>8, AddPartStep DEF AddPart, Done
  <2>9. ASSUME NEW o \in BusOutcomes, InitBus(c, o)
        PROVE  SessionInv(s') /\ Defined(s') /\ program' = program
    BY <2>2, <2>9, InitBusStep DEF InitBus, Ends
  <2>10. ASSUME NEW n \in 1 .. Len(s.list), SetBus(c, n)
         PROVE  SessionInv(s') /\ Defined(s') /\ program' = program
    BY <2>2, <2>10, SetBusStep DEF SetBus, Done
  <2>11. CASE UseBus(c)
    BY <2>2, <2>11, UseBusStep DEF UseBus, Done
  <2>12. CASE Dealloc(c)
    BY <2>2, <2>12, DeallocStep DEF Dealloc, Done
  <2>13. CASE Quit(c)
    BY <2>2, <2>13, QuitStep DEF Quit, Done
  <2> QED
    BY <2>1, <2>3, <2>4, <2>5, <2>6, <2>7, <2>8, <2>9, <2>10, <2>11, <2>12, <2>13
<1>3. ASSUME Next PROVE IInv'
  BY <1>2, <1>3 DEF IInv, SessionInv, Defined
<1> QED
  BY <1>1, <1>3

LEMMA Invariant == Spec => []IInv
  BY InitInv, StepInv, PTL DEF Spec

(* Every object is of its type and every pointer null or to an object of   *)
(* its kind, whatever fails.                                               *)
THEOREM SessionTyped == Spec => []TypeOK
<1>1. IInv => TypeOK
  BY DEF IInv, SessionInv, TypeOK
<1> QED
  BY <1>1, Invariant, PTL

(* Whatever commands or scripts do and whatever fails: a cable lives       *)
(* exactly as long as a chain points to it, points back to that chain, and *)
(* parts live exactly as long as a chain has them (cable.c:547-583,        *)
(* chain.c:63-168, detect.c:546-562).                                      *)
THEOREM OwnersKept == Spec => []CablesAndPartsOwned
<1>1. IInv => CablesAndPartsOwned
  BY DEF IInv, SessionInv, Owned, CablesAndPartsOwned
<1> QED
  BY <1>1, Invariant, PTL

(* If the list of buses can shrink, the active bus is one of the list      *)
(* whenever that is not empty, even with buses that failed to initialize   *)
(* (buses.c:84-141).                                                       *)
THEOREM ActiveBusIsListed ==
    ASSUME ListShrinks
    PROVE  Spec => []ActiveBusListed
<1>1. IInv => ActiveBusListed
  BY ListedInList DEF IInv, SessionInv, ActiveListed, ActiveBusListed
<1> QED
  BY <1>1, Invariant, PTL

(* If buses that are listed initialize, a bus in the list of the jtag      *)
(* command lives and drives the parts its chain has now                    *)
(* (detect.c:546-547, buses.c:184-218).                                    *)
THEOREM ListedBusesWork ==
    ASSUME BusesInitialize
    PROVE  Spec => []ListedBusesUsable
<1>1. IInv => ListedBusesUsable
  <2> SUFFICES ASSUME IInv, s.faults = {}, program = "jtag"
               PROVE  /\ ToSet(s.list) \subseteq LiveBuses(s)
                      /\ \A i \in DOMAIN s.list :
                           LET bus == s.buses[s.list[i]]
                           IN  /\ s.chains[bus.chain].parts = bus.parts
                               /\ s.partLists[bus.parts].live
    BY DEF ListedBusesUsable
  <2>1. \A b \in ToSet(s.list) : b \in Buses /\ Usable(s, b)
    BY ListedInList DEF IInv, SessionInv, ListedUsable
  <2>2. \A i \in DOMAIN s.list : s.list[i] \in ToSet(s.list)
    BY DEF ToSet
  <2> QED
    BY <2>1, <2>2 DEF Usable, LiveBuses
<1> QED
  BY <1>1, Invariant, PTL

(* Without the three failures named, no sequence of jtag's commands frees  *)
(* an object twice or uses it after it was freed (cable.c:110-124,         *)
(* chain.c:63-168, buses.c:84-218).                                        *)
THEOREM NothingFreedUsed ==
    ASSUME QueuesPaired, BusesInitialize, ListShrinks
    PROVE  Spec => []NothingFreedIsUsed
<1>1. IInv => NothingFreedIsUsed
  BY DEF IInv, Defined, NothingFreedIsUsed
<1> QED
  BY <1>1, Invariant, PTL

=============================================================================
