---------------------------- MODULE CableProofs ----------------------------
(***************************************************************************)
(* A cable with deferred activities implements the one that carries them   *)
(* out at once: proofs about `Cable' and `EagerCable', for chains of any   *)
(* length and any activities.                                              *)
(*                                                                         *)
(* The argument is that what is left to do, carried out now, always leads  *)
(* to the same line and the same results.  Running one activity moves it   *)
(* from the queue to the line; combining several moves them all, and       *)
(* is right because a transfer of their bits passes through the lines      *)
(* each of them would have left (lemma Combines).                          *)
(***************************************************************************)
EXTENDS Cable, LineProofs

(* The activities of the calls of src/tap/cable.c. *)
ClockActs == [action : {"CLOCK"}, tms : Bit, tdi : Bit, n : Nat]
TransferActs == [action : {"TRANSFER"}, in : Seq(Bit), keep : BOOLEAN]
GetTdoActs == [action : {"GET_TDO"}]
GetSignalActs == [action : {"GET_SIGNAL"}, sig : Signals]
SetSignalActs ==
    [action : {"SET_SIGNAL"}, mask : SUBSET Signals, val : SUBSET Signals]

(* Those that can be carried out later without a flush from within. *)
LaterActs == ClockActs \cup TransferActs \cup GetTdoActs \cup GetSignalActs

(* What callers may ask for.  A deferred set_signal is left out: it is     *)
(* carried out with a mask that nobody set (generic.c:139), so that no     *)
(* cable that carries it out at once is implemented.  The results fit the  *)
(* queue of results: one_by_one gives them up when they do not.            *)
Callers ==
    /\ Deferrable \subseteq LaterActs
    /\ Immediate \subseteq LaterActs \cup SetSignalActs
    /\ MaxPending <= DoneMax

ResultKinds == {"TRANSFER", "GET_TDO"} \cup Signals

(* Results, as callers see them and as the cable stores them. *)
Results == [kind : ResultKinds, value : Bit \cup Seq(Bit)]
Stored == [kind : ResultKinds, value : Bit \cup Seq(Bit), res : Nat]

Shown(q) == [i \in DOMAIN q |-> [kind |-> q[i].kind, value |-> q[i].value]]

-----------------------------------------------------------------------------
(* Sequences of results. *)

(* Results are shown one by one. *)
LEMMA ShownType ==
    ASSUME NEW a \in Seq(Stored)
    PROVE  /\ Shown(a) \in Seq(Results)
           /\ Len(Shown(a)) = Len(a)
           /\ \A i \in 1 .. Len(a) :
                Shown(a)[i] = [kind |-> a[i].kind, value |-> a[i].value]
<1>1. Len(a) \in Nat /\ DOMAIN a = 1 .. Len(a) /\ \A i \in 1 .. Len(a) : a[i] \in Stored
  BY LenProperties, ElementOfSeq
<1> DEFINE s == Shown(a)
           n == Len(a)
<1>2. s \in [1 .. n -> Results] /\ \A i \in 1 .. n : s[i] = [kind |-> a[i].kind, value |-> a[i].value]
  BY <1>1 DEF Shown, Stored, Results
<1> HIDE DEF s, n
<1>3. n \in Nat
  BY <1>1 DEF n
<1>4. s \in Seq(Results) /\ Len(s) = n
  BY <1>2, <1>3
<1> QED
  BY <1>2, <1>4 DEF s, n

(* ... also when they are appended. *)
LEMMA ShownConcat ==
    ASSUME NEW a \in Seq(Stored), NEW b \in Seq(Stored)
    PROVE  Shown(a \o b) = Shown(a) \o Shown(b)
<1> DEFINE c == a \o b
           s == Shown(c)
           t == Shown(a)
           u == Shown(b)
<1>1. /\ c \in Seq(Stored) /\ Len(c) = Len(a) + Len(b)
      /\ \A i \in 1 .. Len(a) + Len(b) : c[i] = IF i <= Len(a) THEN a[i] ELSE b[i - Len(a)]
      /\ Len(a) \in Nat /\ Len(b) \in Nat
  BY ConcatProperties, LenProperties
<1>2. /\ t \in Seq(Results) /\ Len(t) = Len(a)
      /\ \A i \in 1 .. Len(a) : t[i] = [kind |-> a[i].kind, value |-> a[i].value]
  BY ShownType
<1>3. /\ u \in Seq(Results) /\ Len(u) = Len(b)
      /\ \A i \in 1 .. Len(b) : u[i] = [kind |-> b[i].kind, value |-> b[i].value]
  BY ShownType
<1> HIDE DEF c, t, u
<1>4. /\ s \in Seq(Results) /\ Len(s) = Len(c)
      /\ \A i \in 1 .. Len(c) : s[i] = [kind |-> c[i].kind, value |-> c[i].value]
  BY <1>1, ShownType
<1> HIDE DEF s
<1>5. /\ t \o u \in Seq(Results) /\ Len(t \o u) = Len(t) + Len(u)
      /\ \A i \in 1 .. Len(t) + Len(u) :
            (t \o u)[i] = IF i <= Len(t) THEN t[i] ELSE u[i - Len(t)]
  <2>1. t \in Seq(Results) /\ u \in Seq(Results)
    BY <1>2, <1>3
  <2> QED
    BY <2>1, ConcatProperties
<1> DEFINE v == t \o u
<1> HIDE DEF v
<1>6. ASSUME NEW i \in 1 .. Len(s) PROVE s[i] = v[i]
  <2>1. i \in 1 .. Len(a) + Len(b) /\ i \in Nat
    BY <1>1, <1>4
  <2>2. CASE i <= Len(a)
    <3>1. i \in 1 .. Len(a) /\ i \in 1 .. Len(t) + Len(u)
      BY <1>1, <1>2, <1>3, <2>1, <2>2
    <3>2. s[i] = [kind |-> a[i].kind, value |-> a[i].value]
      BY <1>1, <1>4, <2>1, <2>2
    <3>3. v[i] = t[i]
      BY <1>2, <1>5, <2>2, <3>1 DEF v
    <3> QED
      BY <1>2, <3>1, <3>2, <3>3
  <2>3. CASE ~(i <= Len(a))
    <3> DEFINE k == i - Len(a)
    <3>1. k \in 1 .. Len(b) /\ i \in 1 .. Len(t) + Len(u)
      BY <1>1, <1>2, <1>3, <2>1, <2>3
    <3>2. s[i] = [kind |-> b[k].kind, value |-> b[k].value]
      BY <1>1, <1>4, <2>1, <2>3
    <3>3. v[i] = u[k]
      BY <1>2, <1>5, <2>3, <3>1 DEF v
    <3> HIDE DEF k
    <3> QED
      BY <1>3, <3>1, <3>2, <3>3
  <2> QED
    BY <2>2, <2>3
<1>7. Len(s) = Len(v)
  BY <1>1, <1>2, <1>3, <1>4, <1>5 DEF v
<1>8. s = v
  BY <1>4, <1>5, <1>6, <1>7, SeqEqual DEF v
<1> QED
  BY <1>8 DEF s, v, c, t, u

(* The oldest and the others. *)
LEMMA ShownTail ==
    ASSUME NEW a \in Seq(Stored)
    PROVE  /\ Shown(a) = <<>> <=> a = <<>>
           /\ a # <<>> => /\ Shown(Tail(a)) = Tail(Shown(a))
                          /\ Head(Shown(a)).kind = Head(a).kind
                          /\ Head(Shown(a)).value = Head(a).value
<1> DEFINE s == Shown(a)
<1>1. /\ s \in Seq(Results) /\ Len(s) = Len(a) /\ Len(a) \in Nat
      /\ \A i \in 1 .. Len(a) : s[i] = [kind |-> a[i].kind, value |-> a[i].value]
  BY ShownType, LenProperties
<1> HIDE DEF s
<1>2. s = <<>> <=> a = <<>>
  BY <1>1, EmptySeq
<1>3. ASSUME a # <<>>
      PROVE  Shown(Tail(a)) = Tail(s) /\ Head(s).kind = Head(a).kind
             /\ Head(s).value = Head(a).value
  <2>1. /\ Len(a) # 0 /\ Tail(a) \in Seq(Stored) /\ Len(Tail(a)) = Len(a) - 1
        /\ Head(a) = a[1] /\ \A i \in 1 .. Len(a) - 1 : Tail(a)[i] = a[i + 1]
    BY <1>1, <1>3, HeadTailProperties, EmptySeq
  <2>2. /\ s # <<>> /\ Tail(s) \in Seq(Results) /\ Len(Tail(s)) = Len(s) - 1
        /\ Head(s) = s[1] /\ \A i \in 1 .. Len(s) - 1 : Tail(s)[i] = s[i + 1]
    BY <1>1, <1>2, <1>3, HeadTailProperties, EmptySeq
  <2> DEFINE b == Tail(a)
             t == Tail(s)
             u == Shown(b)
  <2>3. b \in Seq(Stored)
    BY <2>1
  <2>4. /\ u \in Seq(Results) /\ Len(u) = Len(b)
        /\ \A i \in 1 .. Len(b) : u[i] = [kind |-> b[i].kind, value |-> b[i].value]
    BY <2>3, ShownType
  <2> HIDE DEF u
  <2>5. ASSUME NEW i \in 1 .. Len(u) PROVE u[i] = t[i]
    <3>1. i \in 1 .. Len(b) /\ i \in 1 .. Len(a) - 1 /\ i \in 1 .. Len(s) - 1
          /\ i + 1 \in 1 .. Len(a)
      BY <1>1, <2>1, <2>4
    <3>2. u[i] = [kind |-> b[i].kind, value |-> b[i].value] /\ b[i] = a[i + 1]
      BY <2>1, <2>4, <3>1
    <3>3. t[i] = s[i + 1]
      BY <2>2, <3>1
    <3> HIDE DEF b, t
    <3> QED
      BY <1>1, <3>1, <3>2, <3>3
  <2>6. u = t
    BY <1>1, <2>1, <2>2, <2>4, <2>5, SeqEqual
  <2>7. 1 \in 1 .. Len(a)
    BY <1>1, <2>1
  <2>8. Shown(Tail(a)) = Tail(s)
    BY <2>6 DEF u
  <2>9. s[1] = [kind |-> a[1].kind, value |-> a[1].value]
    BY <1>1, <2>7
  <2> HIDE DEF b, t
  <2>10. Head(s).kind = Head(a).kind /\ Head(s).value = Head(a).value
    BY <2>1, <2>2, <2>9
  <2> QED
    BY <2>8, <2>10
<1> QED
  BY <1>2, <1>3 DEF s

-----------------------------------------------------------------------------
(* Activities carried out one after the other. *)

After(st, act) ==
    [line |-> Effect(act, st.line), results |-> st.results \o ResultOf(act, st.line)]

(* f: the line and the results before the first and after each of the      *)
(* first n activities of q.                                                *)
Ran(f, st, q, n) ==
    f = [i \in 0 .. n |-> IF i = 0 THEN st ELSE After(f[i - 1], q[i])]

Carried(st, q) == (CHOOSE f : Ran(f, st, q, Len(q)))[Len(q)]

(* There is such a function for every number of activities ... *)
LEMMA RanExists ==
    ASSUME NEW st, NEW q, NEW n \in Nat
    PROVE  \E f : Ran(f, st, q, n)
<1> DEFINE S == {m \in Nat : \E f : Ran(f, st, q, m)}
<1>1. 0 \in S
  <2> DEFINE f == [i \in 0 .. 0 |-> st]
  <2>1. Ran(f, st, q, 0)
    BY DEF Ran
  <2> QED
    BY <2>1
<1>2. ASSUME NEW m \in Nat, m \in S PROVE m + 1 \in S
  <2>1. PICK f : Ran(f, st, q, m)
    BY <1>2
  <2> DEFINE g == [i \in 0 .. m + 1 |-> IF i = m + 1 THEN After(f[m], q[i]) ELSE f[i]]
  <2>2. Ran(g, st, q, m + 1)
    BY <2>1 DEF Ran
  <2> QED
    BY <2>2
<1> QED
  BY <1>1, <1>2, SetInduction

(* ... and what is carried out is its last value. *)
LEMMA CarriedIs ==
    ASSUME NEW st, NEW q, Len(q) \in Nat
    PROVE  \E f : Ran(f, st, q, Len(q)) /\ Carried(st, q) = f[Len(q)]
<1> DEFINE g == CHOOSE f : Ran(f, st, q, Len(q))
<1>1. Ran(g, st, q, Len(q))
  BY RanExists
<1>2. Carried(st, q) = g[Len(q)]
  BY DEF Carried
<1> QED
  BY <1>1, <1>2

(* Nothing to do changes nothing, ... *)
LEMMA CarriedEmpty ==
    ASSUME NEW st
    PROVE  Carried(st, <<>>) = st
<1>1. Len(<<>>) = 0
  OBVIOUS
<1>2. PICK f : Ran(f, st, <<>>, Len(<<>>)) /\ Carried(st, <<>>) = f[Len(<<>>)]
  BY <1>1, CarriedIs
<1> QED
  BY <1>1, <1>2 DEF Ran

(* ... two queues that agree as far as both go are carried out alike, ... *)
LEMMA RanAgree ==
    ASSUME NEW st, NEW q, NEW p, NEW n \in Nat, NEW m \in Nat, NEW f, NEW g,
           Ran(f, st, q, n), Ran(g, st, p, m), n <= m,
           \A i \in 1 .. n : q[i] = p[i]
    PROVE  f[n] = g[n]
<1> DEFINE S == {i \in Nat : i <= n => f[i] = g[i]}
<1>1. 0 \in S
  BY DEF Ran
<1>2. ASSUME NEW i \in Nat, i \in S PROVE i + 1 \in S
  <2> SUFFICES ASSUME i + 1 <= n PROVE f[i + 1] = g[i + 1]
    OBVIOUS
  <2>1. f[i + 1] = After(f[i], q[i + 1]) /\ g[i + 1] = After(g[i], p[i + 1])
    BY DEF Ran
  <2> QED
    BY <1>2, <2>1
<1>3. n \in S
  <2> HIDE DEF S
  <2> QED
    BY <1>1, <1>2, SetInduction
<1> QED
  BY <1>3

(* ... and one more activity comes last. *)
LEMMA CarriedAppend ==
    ASSUME NEW st, NEW S, NEW q \in Seq(S), NEW act \in S
    PROVE  Carried(st, Append(q, act)) = After(Carried(st, q), act)
<1> DEFINE p == Append(q, act)
           n == Len(q)
<1>1. /\ n \in Nat /\ Len(p) = n + 1
      /\ \A i \in 1 .. n : q[i] = p[i]
      /\ p[n + 1] = act
  BY LenProperties, AppendProperties
<1> HIDE DEF p, n
<1>2. PICK f : Ran(f, st, q, n) /\ Carried(st, q) = f[n]
  BY <1>1, CarriedIs DEF n
<1>3. PICK g : Ran(g, st, p, n + 1) /\ Carried(st, p) = g[n + 1]
  BY <1>1, CarriedIs
<1>4. f[n] = g[n]
  BY <1>1, <1>2, <1>3, RanAgree
<1>5. g[n + 1] = After(g[n], p[n + 1])
  BY <1>1, <1>3 DEF Ran
<1> QED
  BY <1>1, <1>2, <1>3, <1>4, <1>5 DEF p

(* What is left of a queue is carried out from where its beginning ends. *)
LEMMA CarriedFrom ==
    ASSUME NEW st, NEW S, NEW q \in Seq(S), NEW k \in 0 .. Len(q), NEW f,
           Ran(f, st, q, Len(q)), NEW p \in Seq(S), Len(p) = Len(q) - k,
           \A i \in 1 .. Len(p) : p[i] = q[k + i]
    PROVE  Carried(f[k], p) = Carried(st, q)
<1>1. Len(q) \in Nat /\ Len(p) \in Nat
  BY LenProperties
<1>2. PICK g : Ran(g, f[k], p, Len(p)) /\ Carried(f[k], p) = g[Len(p)]
  BY <1>1, CarriedIs
<1> DEFINE T == {i \in Nat : i <= Len(p) => g[i] = f[k + i]}
<1>3. 0 \in T
  BY <1>1, <1>2 DEF Ran
<1>4. ASSUME NEW i \in Nat, i \in T PROVE i + 1 \in T
  <2> SUFFICES ASSUME i + 1 <= Len(p) PROVE g[i + 1] = f[k + (i + 1)]
    OBVIOUS
  <2>1. g[i + 1] = After(g[i], p[i + 1])
    BY <1>1, <1>2 DEF Ran
  <2>2. f[k + (i + 1)] = After(f[k + i], q[k + (i + 1)])
    <3> DEFINE j == k + (i + 1)
    <3>1. j \in 0 .. Len(q) /\ j # 0 /\ j - 1 = k + i
      BY <1>1
    <3> HIDE DEF j
    <3>2. f[j] = After(f[j - 1], q[j])
      BY <3>1 DEF Ran
    <3> QED
      BY <3>1, <3>2 DEF j
  <2>3. p[i + 1] = q[k + (i + 1)] /\ g[i] = f[k + i]
    BY <1>1, <1>4
  <2> QED
    BY <2>1, <2>2, <2>3
<1>5. Len(p) \in T
  BY <1>1, <1>3, <1>4, SetInduction
<1>6. g[Len(p)] = f[Len(q)]
  BY <1>1, <1>5
<1>7. PICK h : Ran(h, st, q, Len(q)) /\ Carried(st, q) = h[Len(q)]
  BY <1>1, CarriedIs
<1>8. h[Len(q)] = f[Len(q)]
  BY <1>1, <1>7, RanAgree
<1> QED
  BY <1>2, <1>6, <1>7, <1>8

(* The first activity. *)
LEMMA CarriedHead ==
    ASSUME NEW st, NEW S, NEW q \in Seq(S), q # <<>>
    PROVE  Carried(After(st, Head(q)), Tail(q)) = Carried(st, q)
<1>1. /\ Len(q) \in Nat /\ Len(q) # 0 /\ Tail(q) \in Seq(S) /\ Len(Tail(q)) = Len(q) - 1
      /\ Head(q) = q[1] /\ \A i \in 1 .. Len(Tail(q)) : Tail(q)[i] = q[i + 1]
  BY LenProperties, HeadTailProperties, EmptySeq
<1> DEFINE p == Tail(q)
<1> HIDE DEF p
<1>2. PICK f : Ran(f, st, q, Len(q))
  BY <1>1, RanExists
<1>3. f[1] = After(st, Head(q))
  BY <1>1, <1>2 DEF Ran
<1>4. 1 \in 0 .. Len(q) /\ p \in Seq(S) /\ Len(p) = Len(q) - 1
      /\ \A i \in 1 .. Len(p) : p[i] = q[1 + i]
  BY <1>1 DEF p
<1>5. Carried(f[1], p) = Carried(st, q)
  BY <1>2, <1>4, CarriedFrom
<1> QED
  BY <1>3, <1>5 DEF p

-----------------------------------------------------------------------------
(* Sequences of sequences. *)

(* The first n are sequences over S; the first k agree; b begins with a. *)
SeqsOf(S, ss, n) == \A i \in 1 .. n : ss[i] \in Seq(S)
Agree(t, ss, k) == \A i \in 1 .. k : t[i] = ss[i]
Begins(a, b) == Len(a) <= Len(b) /\ \A p \in 1 .. Len(a) : b[p] = a[p]

(* What a sequence of sequences is joined to depends only on them. *)
LEMMA FlatUpto ==
    ASSUME NEW ss, NEW n \in Nat, NEW u, Joined(u, ss, n),
           NEW t, NEW k \in 0 .. n, Len(t) = k, Agree(t, ss, k)
    PROVE  Flat(t) = u[k]
<1> DEFINE v == CHOOSE w : Joined(w, t, Len(t))
<1>1. Joined(v, t, Len(t))
  BY JoinedExists
<1>2. Flat(t) = v[Len(t)]
  BY DEF Flat, Joined
<1> HIDE DEF v
<1> DEFINE S == {i \in Nat : i <= k => v[i] = u[i]}
<1>3. 0 \in S
  BY <1>1 DEF Joined
<1>4. ASSUME NEW i \in Nat, i \in S PROVE i + 1 \in S
  <2> SUFFICES ASSUME i + 1 <= k PROVE v[i + 1] = u[i + 1]
    OBVIOUS
  <2> DEFINE j == i + 1
  <2>1. j \in 0 .. k /\ j \in 0 .. n /\ j # 0 /\ j - 1 = i /\ j \in 1 .. k
    OBVIOUS
  <2> HIDE DEF j
  <2>2. v[j] = v[j - 1] \o t[j] /\ u[j] = u[j - 1] \o ss[j]
    BY <1>1, <2>1, Zenon DEF Joined
  <2>3. v[i] = u[i]
    BY <1>4, <2>1
  <2>4. t[j] = ss[j]
    BY <2>1 DEF Agree
  <2> QED
    BY <2>1, <2>2, <2>3, <2>4 DEF j
<1>5. k \in S
  <2> HIDE DEF S
  <2> QED
    BY <1>3, <1>4, SetInduction
<1> QED
  BY <1>2, <1>5

(* One more is appended. *)
LEMMA JoinedStep ==
    ASSUME NEW ss, NEW n \in Nat, NEW u, Joined(u, ss, n), NEW i \in 1 .. n
    PROVE  u[i] = u[i - 1] \o ss[i]
<1>1. i \in 0 .. n /\ i # 0
  OBVIOUS
<1> QED
  BY <1>1, Zenon DEF Joined

(* Where the elements go. *)
LEMMA JoinedTypes ==
    ASSUME NEW S, NEW ss, NEW n \in Nat, NEW u, Joined(u, ss, n),
           SeqsOf(S, ss, n), NEW k \in 0 .. n
    PROVE  u[k] \in Seq(S) /\ Len(u[k]) \in Nat
<1> DEFINE T == {i \in Nat : i <= n => u[i] \in Seq(S)}
<1>1. 0 \in T
  <2>1. u[0] = <<>>
    BY DEF Joined
  <2> QED
    BY <2>1, EmptySeq
<1>2. ASSUME NEW i \in Nat, i \in T PROVE i + 1 \in T
  <2> SUFFICES ASSUME i + 1 <= n PROVE u[i + 1] \in Seq(S)
    OBVIOUS
  <2>1. u[i] \in Seq(S) /\ ss[i + 1] \in Seq(S) /\ i + 1 \in 1 .. n /\ (i + 1) - 1 = i
    BY <1>2 DEF SeqsOf
  <2>2. u[i + 1] = u[i] \o ss[i + 1]
    <3> DEFINE j == i + 1
    <3>1. j \in 1 .. n /\ j - 1 = i
      BY <2>1
    <3> HIDE DEF j
    <3>2. u[j] = u[j - 1] \o ss[j]
      BY <3>1, JoinedStep
    <3> QED
      BY <3>1, <3>2 DEF j
  <2> QED
    BY <2>1, <2>2, ConcatProperties
<1>3. k \in T
  <2>1. Nat \subseteq T
    <3> HIDE DEF T
    <3> QED
      BY <1>1, <1>2, SetInduction
  <2> QED
    BY <2>1
<1> QED
  BY <1>3, LenProperties

(* ... and stay: what is joined later begins with what was before. *)
LEMMA JoinedPlace ==
    ASSUME NEW S, NEW ss, NEW n \in Nat, NEW u, Joined(u, ss, n),
           SeqsOf(S, ss, n), NEW i \in 0 .. n
    PROVE  Begins(u[i], u[n])
<1>1. \A j \in 0 .. n : u[j] \in Seq(S) /\ Len(u[j]) \in Nat
  BY JoinedTypes
<1> DEFINE Good(m) == /\ Len(u[i]) <= Len(u[m])
                      /\ \A p \in 1 .. Len(u[i]) : u[m][p] = u[i][p]
           T == {m \in Nat : i <= m /\ m <= n => Good(m)}
<1>2. 0 \in T
  <2> SUFFICES ASSUME i <= 0 PROVE Good(0)
    OBVIOUS
  <2>1. i = 0
    OBVIOUS
  <2> QED
    BY <1>1, <2>1
<1>3. ASSUME NEW m \in Nat, m \in T PROVE m + 1 \in T
  <2> SUFFICES ASSUME i <= m + 1, m + 1 <= n PROVE Good(m + 1)
    OBVIOUS
  <2>1. CASE i = m + 1
    BY <1>1, <2>1
  <2>2. CASE i <= m
    <3>1. Good(m)
      BY <1>3, <2>2
    <3> DEFINE a == u[m]
               b == ss[m + 1]
               c == u[m + 1]
    <3>2. a \in Seq(S) /\ b \in Seq(S) /\ c = a \o b
      <4> DEFINE j == m + 1
      <4>1. j \in 1 .. n /\ j - 1 = m /\ m \in 0 .. n
        OBVIOUS
      <4> HIDE DEF j
      <4>2. u[j] = u[j - 1] \o ss[j]
        BY <4>1, JoinedStep
      <4> QED
        BY <1>1, <4>1, <4>2 DEF j, SeqsOf
    <3>3. Len(a) \in Nat /\ Len(b) \in Nat /\ Len(u[i]) \in Nat
      BY <1>1, <3>2, LenProperties
    <3> DEFINE d == u[i]
    <3>4. Len(d) <= Len(a) /\ \A p \in 1 .. Len(d) : a[p] = d[p]
      BY <3>1
    <3> HIDE DEF a, b, c, d, Good
    <3>5. /\ Len(c) = Len(a) + Len(b)
          /\ \A p \in 1 .. Len(a) + Len(b) : c[p] = IF p <= Len(a) THEN a[p] ELSE b[p - Len(a)]
      BY <3>2, ConcatProperties
    <3>6. Len(d) <= Len(c) /\ \A p \in 1 .. Len(d) : c[p] = d[p]
      <4>1. Len(d) \in Nat
        BY <3>3 DEF d
      <4> QED
        BY <3>3, <3>4, <3>5, <4>1
    <3> QED
      BY <3>6 DEF c, d, Good
  <2> QED
    BY <2>1, <2>2
<1>4. n \in T
  <2> HIDE DEF T
  <2> QED
    BY <1>2, <1>3, SetInduction
<1> QED
  BY <1>4 DEF Begins

-----------------------------------------------------------------------------
(* Parts of a transfer. *)

(* The k bits after the first c are b; those after the first c are w. *)
Repeats(in, c, k, b) == \A i \in 1 .. k : in[c + i] = b
Follow(in, c, w) == \A i \in 1 .. Len(w) : in[c + i] = w[i]

(* One more bit. *)
LEMMA ShiftedStep ==
    ASSUME NEW l, NEW in, NEW n \in Nat, NEW f, Shifted(f, l, in, n),
           NEW i \in Nat, i + 1 <= n
    PROVE  f[0] = l /\ f[i + 1] = Pulse(f[i], 0, in[i + 1])
  BY DEF Shifted

(* Clocks with TMS low are the part of a transfer that has their bits, ... *)
LEMMA ClocksInTransfer ==
    ASSUME NEW l, NEW in, NEW n \in Nat, NEW h, Shifted(h, l, in, n),
           NEW c \in Nat, NEW k \in Nat, c + k <= n, NEW b, Repeats(in, c, k, b)
    PROVE  DriverClock(h[c], 0, b, k) = h[c + k]
<1>1. PICK f : Clocked(f, h[c], 0, b, k) /\ DriverClock(h[c], 0, b, k) = f[k]
  BY DriverClockIs
<1> DEFINE T == {i \in Nat : i <= k => f[i] = h[c + i]}
<1>2. 0 \in T
  BY <1>1 DEF Clocked
<1>3. ASSUME NEW i \in Nat, i \in T PROVE i + 1 \in T
  <2> SUFFICES ASSUME i + 1 <= k PROVE f[i + 1] = h[c + (i + 1)]
    OBVIOUS
  <2> DEFINE j == c + (i + 1)
  <2>1. f[i + 1] = Pulse(f[i], 0, b)
    BY <1>1 DEF Clocked
  <2>2. j \in 0 .. n /\ j # 0 /\ j - 1 = c + i
    OBVIOUS
  <2>3. in[j] = b /\ f[i] = h[c + i]
    BY <1>3 DEF Repeats
  <2> HIDE DEF j
  <2>4. h[j] = Pulse(h[j - 1], 0, in[j])
    BY <2>2 DEF Shifted
  <2> QED
    BY <2>1, <2>2, <2>3, <2>4 DEF j
<1>4. k \in T
  <2> HIDE DEF T
  <2> QED
    BY <1>2, <1>3, SetInduction
<1> QED
  BY <1>1, <1>4

(* ... and so are the transfers it was combined from. *)
LEMMA TransferInTransfer ==
    ASSUME NEW l, NEW in, NEW n \in Nat, NEW h, Shifted(h, l, in, n),
           NEW c \in Nat, NEW w \in Seq(Bit), c + Len(w) <= n, Follow(in, c, w)
    PROVE  DriverTransfer(h[c], w) =
                [line |-> h[c + Len(w)],
                 out  |-> [i \in 1 .. Len(w) |-> Tdo(h[(c + i) - 1])]]
<1> DEFINE k == Len(w)
<1>1. k \in Nat
  BY LenProperties
<1>2. PICK f : /\ Shifted(f, h[c], w, k)
               /\ DriverTransfer(h[c], w) =
                    [line |-> f[k], out |-> [i \in 1 .. k |-> Tdo(f[i - 1])]]
  BY DriverTransferGives
<1>3. c + k <= n /\ \A i \in 1 .. k : in[c + i] = w[i]
  BY DEF Follow
<1> HIDE DEF k
<1> DEFINE T == {i \in Nat : i <= k => f[i] = h[c + i]}
<1>4. 0 \in T
  BY <1>1, <1>2 DEF Shifted
<1>5. ASSUME NEW i \in Nat, i \in T PROVE i + 1 \in T
  <2> SUFFICES ASSUME i + 1 <= k PROVE f[i + 1] = h[c + (i + 1)]
    OBVIOUS
  <2> DEFINE j == c + (i + 1)
  <2>1. f[i + 1] = Pulse(f[i], 0, w[i + 1])
    BY <1>1, <1>2, ShiftedStep
  <2>2. j \in 0 .. n /\ j # 0 /\ j - 1 = c + i
    BY <1>1, <1>3
  <2>3. in[j] = w[i + 1] /\ f[i] = h[c + i]
    BY <1>1, <1>3, <1>5
  <2> HIDE DEF j
  <2>4. h[j] = Pulse(h[j - 1], 0, in[j])
    BY <2>2 DEF Shifted
  <2>5. h[j] = Pulse(h[c + i], 0, w[i + 1])
    BY <2>2, <2>3, <2>4
  <2>6. h[j] = f[i + 1]
    BY <2>1, <2>3, <2>5
  <2> QED
    BY <2>6 DEF j
<1>6. Nat \subseteq T
  <2> HIDE DEF T
  <2> QED
    BY <1>4, <1>5, SetInduction
<1>7. f[k] = h[c + k]
  BY <1>1, <1>6
<1>8. ASSUME NEW i \in 1 .. k PROVE Tdo(f[i - 1]) = Tdo(h[(c + i) - 1])
  <2>1. i - 1 \in Nat /\ i - 1 <= k /\ c + (i - 1) = (c + i) - 1
    BY <1>1
  <2> QED
    BY <1>6, <2>1
<1>9. [i \in 1 .. k |-> Tdo(f[i - 1])] = [i \in 1 .. k |-> Tdo(h[(c + i) - 1])]
  BY <1>8
<1> QED
  BY <1>2, <1>7, <1>9 DEF k

-----------------------------------------------------------------------------
(* Activities combined into one transfer. *)

(* What generic.c:322-371 picks for an activity whose bits follow the first *)
(* `before' of the transfer x.                                             *)
PickedAt(x, before, act) ==
    CASE act.action = "GET_TDO" ->
            <<[kind |-> "GET_TDO",
               value |-> IF before < Len(x.out) THEN x.out[before + 1] ELSE Tdo(x.line),
               res |-> 0]>>
      [] act.action = "TRANSFER" /\ act.keep ->
            <<[kind |-> "TRANSFER",
               value |-> SubSeq(x.out, before + 1, before + Len(act.in)),
               res |-> Len(x.out)]>>
      [] OTHER -> <<>>

(* The results of a combined transfer, activity by activity. *)
LEMMA PickedIs ==
    ASSUME NEW n, NEW x
    PROVE  Picked(n, x) =
                Flat([j \in 1 .. n |-> PickedAt(x, Len(Combined(j - 1)), todo[j])])
  BY DEF Picked, PickedAt

(* The bits of an activity. *)
LEMMA TdiBitsType ==
    ASSUME NEW act \in LaterActs
    PROVE  TdiBits(act) \in Seq(Bit) /\ Len(TdiBits(act)) \in Nat
<1>1. CASE act \in ClockActs
  <2> DEFINE k == act.n
             s == [i \in 1 .. k |-> act.tdi]
  <2>1. act.action = "CLOCK" /\ k \in Nat /\ act.tdi \in Bit
    BY <1>1 DEF ClockActs
  <2>2. TdiBits(act) = s
    BY <2>1 DEF TdiBits
  <2>3. s \in [1 .. k -> Bit]
    BY <2>1
  <2> HIDE DEF s, k
  <2>4. s \in Seq(Bit)
    BY <2>1, <2>3
  <2> QED
    BY <2>2, <2>4, LenProperties
<1>2. CASE act \in TransferActs
  <2>1. act.action = "TRANSFER" /\ act.in \in Seq(Bit)
    BY <1>2 DEF TransferActs
  <2> QED
    BY <2>1, LenProperties DEF TdiBits
<1>3. CASE act \in GetTdoActs \cup GetSignalActs
  <2>1. TdiBits(act) = <<>>
    BY <1>3 DEF GetTdoActs, GetSignalActs, TdiBits
  <2> QED
    BY <2>1, EmptySeq
<1> QED
  BY <1>1, <1>2, <1>3 DEF LaterActs

(* No result and one. *)
LEMMA ShownOne ==
    /\ Shown(<<>>) = <<>>
    /\ \A k, v, r : Shown(<<[kind |-> k, value |-> v, res |-> r]>>) = <<[kind |-> k, value |-> v]>>
<1>1. Shown(<<>>) = <<>>
  BY DEF Shown
<1>2. ASSUME NEW k, NEW v, NEW r
      PROVE  Shown(<<[kind |-> k, value |-> v, res |-> r]>>) = <<[kind |-> k, value |-> v]>>
  BY DEF Shown
<1> QED
  BY <1>1, <1>2

(* What is picked are results. *)
LEMMA PickedType ==
    ASSUME NEW x, x.out \in Seq(Bit), Tdo(x.line) \in Bit,
           NEW before \in Nat, NEW act \in LaterActs,
           before + Len(TdiBits(act)) <= Len(x.out)
    PROVE  PickedAt(x, before, act) \in Seq(Stored) /\ Len(PickedAt(x, before, act)) <= 1
<1>1. Len(x.out) \in Nat /\ \A i \in 1 .. Len(x.out) : x.out[i] \in Bit
  BY LenProperties, ElementOfSeq
<1>2. ASSUME NEW r \in Stored PROVE <<r>> \in Seq(Stored) /\ Len(<<r>>) <= 1
  OBVIOUS
<1>3. CASE act.action = "GET_TDO"
  <2> DEFINE v == IF before < Len(x.out) THEN x.out[before + 1] ELSE Tdo(x.line)
             r == [kind |-> "GET_TDO", value |-> v, res |-> 0]
  <2>1. v \in Bit
    <3>1. before < Len(x.out) => before + 1 \in 1 .. Len(x.out)
      BY <1>1
    <3> QED
      BY <1>1, <3>1
  <2>2. PickedAt(x, before, act) = <<r>>
    BY <1>3 DEF PickedAt
  <2> HIDE DEF v
  <2>3. r \in Stored
    BY <2>1 DEF Stored, ResultKinds
  <2> QED
    BY <1>2, <2>2, <2>3
<1>4. CASE act.action = "TRANSFER" /\ act.keep
  <2> DEFINE v == SubSeq(x.out, before + 1, before + Len(act.in))
             r == [kind |-> "TRANSFER", value |-> v, res |-> Len(x.out)]
  <2>1. act.in \in Seq(Bit) /\ Len(act.in) \in Nat /\ before + Len(act.in) <= Len(x.out)
    <3>1. TdiBits(act) = act.in
      BY <1>4 DEF TdiBits
    <3>2. act.in \in Seq(Bit)
      BY <3>1, TdiBitsType
    <3> QED
      BY <3>1, <3>2, LenProperties
  <2>2. v \in Seq(Bit)
    <3>1. before + 1 \in Int /\ before + Len(act.in) \in Int
          /\ \A i \in before + 1 .. before + Len(act.in) : x.out[i] \in Bit
      BY <1>1, <2>1
    <3> QED
      BY <3>1, SubSeqProperties
  <2>3. PickedAt(x, before, act) = <<r>>
    BY <1>4 DEF PickedAt
  <2> HIDE DEF v
  <2>4. r \in Stored
    BY <1>1, <2>2 DEF Stored, ResultKinds
  <2> QED
    BY <1>2, <2>3, <2>4
<1>5. CASE act.action # "GET_TDO" /\ ~(act.action = "TRANSFER" /\ act.keep)
  <2>1. PickedAt(x, before, act) = <<>>
    BY <1>5 DEF PickedAt
  <2> QED
    BY <2>1, EmptySeq
<1> QED
  BY <1>3, <1>4, <1>5

(* A part of a sequence. *)
LEMMA PartIs ==
    ASSUME NEW T, NEW N \in Nat, NEW t, \A i \in 1 .. N : t[i] \in T,
           NEW c \in Nat, NEW k \in Nat, c + k <= N,
           NEW o \in [1 .. k -> T], \A i \in 1 .. k : o[i] = t[c + i]
    PROVE  SubSeq(t, c + 1, c + k) = o
<1> DEFINE m == c + 1
           n == c + k
           q == SubSeq(t, m, n)
<1>1. o \in Seq(T) /\ Len(o) = k
  OBVIOUS
<1>2. m \in Int /\ n \in Int /\ \A i \in m .. n : t[i] \in T
  OBVIOUS
<1>3. n - m + 1 = k /\ (m <= n <=> k # 0)
  OBVIOUS
<1>4. \A i \in 1 .. k : m + i - 1 = c + i
  OBVIOUS
<1> HIDE DEF m, n
<1>5. /\ q \in Seq(T)
      /\ Len(q) = IF m <= n THEN n - m + 1 ELSE 0
      /\ \A i \in 1 .. n - m + 1 : q[i] = t[m + i - 1]
  BY <1>2, SubSeqProperties
<1> HIDE DEF q
<1>6. Len(q) = k
  BY <1>3, <1>5
<1>7. \A i \in 1 .. Len(q) : q[i] = o[i]
  BY <1>3, <1>4, <1>5, <1>6
<1>8. q = o
  BY <1>1, <1>5, <1>6, <1>7, SeqEqual
<1> QED
  BY <1>8 DEF q, m, n

(* The transfer of N bits that passes the lines h. *)
Through(x, h, N) ==
    Len(x.out) = N /\ x.line = h[N] /\ \A i \in 1 .. N : x.out[i] = Tdo(h[i - 1])

(* An activity that a transfer does on the way: the line it leaves is one  *)
(* the transfer passes, and its result is what is picked.                  *)
LEMMA CombinedOne ==
    ASSUME NEW l, NEW all \in Seq(Bit), NEW N, N = Len(all),
           NEW h, Shifted(h, l, all, N),
           NEW x, Through(x, h, N),
           NEW act \in LaterActs, Combinable(act),
           NEW c \in Nat, NEW w, w = TdiBits(act), c + Len(w) <= N, Follow(all, c, w)
    PROVE  /\ Effect(act, h[c]) = h[c + Len(w)]
           /\ ResultOf(act, h[c]) = Shown(PickedAt(x, c, act))
<1>1. N \in Nat /\ w \in Seq(Bit) /\ Len(w) \in Nat /\ c <= N
  BY LenProperties, TdiBitsType
<1>2. Len(x.out) = N /\ x.line = h[N] /\ \A i \in 1 .. N : x.out[i] = Tdo(h[i - 1])
  BY DEF Through
<1>3. CASE act \in ClockActs
  <2>1. act.action = "CLOCK" /\ act.tms = 0 /\ act.n \in Nat
    BY <1>3 DEF ClockActs, Combinable
  <2> DEFINE k == act.n
             s == [i \in 1 .. k |-> act.tdi]
  <2>2. w = s
    BY <2>1 DEF TdiBits
  <2>3. Len(w) = k /\ \A i \in 1 .. k : w[i] = act.tdi
    <3>1. s \in [1 .. k -> {act.tdi}] /\ \A i \in 1 .. k : s[i] = act.tdi
      OBVIOUS
    <3> HIDE DEF s
    <3>2. Len(s) = k
      BY <2>1, <3>1
    <3> QED
      BY <2>2, <3>1, <3>2
  <2>4. Effect(act, h[c]) = DriverClock(h[c], 0, act.tdi, k)
    BY <2>1 DEF Effect
  <2>5. c + k <= N /\ k \in Nat /\ Repeats(all, c, k, act.tdi)
    BY <2>1, <2>3 DEF Repeats, Follow
  <2> HIDE DEF k
  <2>6. DriverClock(h[c], 0, act.tdi, k) = h[c + k]
    BY <1>1, <2>5, ClocksInTransfer
  <2>7. ResultOf(act, h[c]) = <<>> /\ PickedAt(x, c, act) = <<>>
    BY <2>1 DEF ResultOf, PickedAt
  <2> QED
    BY <2>3, <2>4, <2>6, <2>7, ShownOne
<1>4. CASE act \in TransferActs
  <2>1. act.action = "TRANSFER" /\ act.in \in Seq(Bit) /\ act.keep \in BOOLEAN /\ w = act.in
    BY <1>4 DEF TransferActs, TdiBits
  <2> DEFINE d == DriverTransfer(h[c], w)
             k == Len(w)
             o == [i \in 1 .. k |-> Tdo(h[(c + i) - 1])]
  <2>2. d = [line |-> h[c + k], out |-> o]
    BY <1>1, TransferInTransfer
  <2>3. Effect(act, h[c]) = d.line /\ d.line = h[c + k]
    BY <2>1, <2>2 DEF Effect
  <2>4. CASE ~act.keep
    <3>1. ResultOf(act, h[c]) = <<>> /\ PickedAt(x, c, act) = <<>>
      BY <2>1, <2>4 DEF ResultOf, PickedAt
    <3> QED
      BY <2>3, <3>1, ShownOne
  <2>5. CASE act.keep
    <3> DEFINE v == SubSeq(x.out, c + 1, c + k)
    <3>1. ResultOf(act, h[c]) = <<[kind |-> "TRANSFER", value |-> d.out]>>
      BY <2>1, <2>5 DEF ResultOf
    <3>2. PickedAt(x, c, act) =
            <<[kind |-> "TRANSFER", value |-> v, res |-> Len(x.out)]>>
      BY <2>1, <2>5 DEF PickedAt
    <3>3. d.out = o
      BY <2>2
    <3>4. v = o
      <4> DEFINE T == {Tdo(h[i - 1]) : i \in 1 .. N}
                 t == x.out
      <4>1. \A i \in 1 .. N : t[i] = Tdo(h[i - 1]) /\ t[i] \in T
        BY <1>2
      <4>2. k \in Nat /\ c + k <= N
        BY <1>1
      <4>3. o \in [1 .. k -> T] /\ \A i \in 1 .. k : o[i] = t[c + i]
        <5>1. ASSUME NEW i \in 1 .. k PROVE t[c + i] = Tdo(h[(c + i) - 1]) /\ t[c + i] \in T
          <6>1. c + i \in 1 .. N
            BY <4>2
          <6> QED
            BY <4>1, <6>1
        <5> HIDE DEF T, t
        <5> QED
          BY <5>1
      <4> HIDE DEF T, t, k, o
      <4> QED
        BY <1>1, <4>1, <4>2, <4>3, PartIs DEF t
    <3> HIDE DEF v
    <3>5. Shown(PickedAt(x, c, act)) = <<[kind |-> "TRANSFER", value |-> v]>>
      BY <3>2, ShownOne
    <3> QED
      BY <2>3, <3>1, <3>3, <3>4, <3>5
  <2> QED
    BY <2>1, <2>4, <2>5
<1>5. CASE act \in GetTdoActs
  <2>1. act.action = "GET_TDO" /\ w = <<>>
    BY <1>5 DEF GetTdoActs, TdiBits
  <2>2. Len(w) = 0 /\ c + Len(w) = c
    BY <2>1
  <2>3. Effect(act, h[c]) = h[c]
    BY <2>1 DEF Effect
  <2>4. ResultOf(act, h[c]) = <<[kind |-> "GET_TDO", value |-> Tdo(h[c])]>>
    BY <2>1 DEF ResultOf
  <2> DEFINE v == IF c < Len(x.out) THEN x.out[c + 1] ELSE Tdo(x.line)
  <2>5. PickedAt(x, c, act) = <<[kind |-> "GET_TDO", value |-> v, res |-> 0]>>
    BY <2>1 DEF PickedAt
  <2>6. v = Tdo(h[c])
    <3>1. CASE c < N
      <4>1. c + 1 \in 1 .. N /\ (c + 1) - 1 = c
        BY <1>1, <3>1
      <4> DEFINE e == c + 1
      <4>2. e \in 1 .. N /\ e - 1 = c
        BY <4>1
      <4> HIDE DEF e
      <4>3. x.out[e] = Tdo(h[e - 1])
        BY <1>2, <4>2
      <4> QED
        BY <1>2, <3>1, <4>2, <4>3 DEF e
    <3>2. CASE c = N
      BY <1>1, <1>2, <3>2
    <3> QED
      BY <1>1, <3>1, <3>2
  <2> HIDE DEF v
  <2>7. Shown(PickedAt(x, c, act)) = <<[kind |-> "GET_TDO", value |-> v]>>
    BY <2>5, ShownOne
  <2> QED
    BY <2>2, <2>3, <2>4, <2>6, <2>7
<1>6. act \notin GetSignalActs
  BY DEF GetSignalActs, Combinable
<1> QED
  BY <1>3, <1>4, <1>5, <1>6 DEF LaterActs

(* The prefix that is combined. *)
LEMMA PrefixIs ==
    ASSUME todo \in Seq(LaterActs)
    PROVE  /\ PrefixLength \in 0 .. Len(todo)
           /\ \A i \in 1 .. PrefixLength : Combinable(todo[i])
<1> DEFINE L == Len(todo)
           T == {n \in 0 .. L : n = L \/ ~Combinable(todo[n + 1])}
<1>1. L \in Nat
  BY LenProperties
<1> HIDE DEF L
<1>2. T \in SUBSET Nat /\ L \in T
  BY <1>1
<1>3. PICK n \in T : \A m \in T : ~(m < n)
  <2> HIDE DEF T
  <2>1. T # {}
    BY <1>2
  <2> QED
    BY <1>2, <2>1, LeastNat
<1>4. ASSUME NEW i \in 1 .. n PROVE Combinable(todo[i])
  <2> DEFINE m == i - 1
  <2>1. m \in 0 .. L /\ m < n /\ m # L /\ m + 1 = i
    BY <1>1
  <2> HIDE DEF m
  <2>2. m \notin T
    BY <1>3, <2>1
  <2>3. Combinable(todo[m + 1])
    BY <2>1, <2>2
  <2> QED
    BY <2>1, <2>3
<1> DEFINE P(p) == /\ \A i \in 1 .. p : Combinable(todo[i])
                   /\ p = L \/ ~Combinable(todo[p + 1])
<1>5. PrefixLength = CHOOSE p \in 0 .. L : P(p)
  BY DEF PrefixLength, L
<1>6. n \in 0 .. L /\ P(n)
  BY <1>4
<1>7. PrefixLength \in 0 .. L /\ P(PrefixLength)
  <2> HIDE DEF P
  <2> QED
    BY <1>5, <1>6, Zenon
<1> QED
  BY <1>7 DEF L

BitsOf(q) == [i \in DOMAIN q |-> TdiBits(q[i])]

(* The bits before each activity are those of the activities before it. *)
LEMMA CombinedIs ==
    ASSUME todo \in Seq(LaterActs), NEW n \in 0 .. Len(todo),
           NEW u, Joined(u, BitsOf(todo), n)
    PROVE  /\ SeqsOf(Bit, BitsOf(todo), n)
           /\ \A i \in 1 .. n : BitsOf(todo)[i] = TdiBits(todo[i])
           /\ \A k \in 0 .. n : Combined(k) = u[k]
<1> DEFINE ss == BitsOf(todo)
<1>1. n \in Nat /\ DOMAIN todo = 1 .. Len(todo) /\ Len(todo) \in Nat
      /\ \A i \in 1 .. Len(todo) : todo[i] \in LaterActs
  BY LenProperties, ElementOfSeq
<1>2. \A i \in 1 .. n : ss[i] = TdiBits(todo[i]) /\ ss[i] \in Seq(Bit)
  BY <1>1, TdiBitsType DEF BitsOf
<1> HIDE DEF ss
<1>3. ASSUME NEW k \in 0 .. n PROVE Combined(k) = u[k]
  <2> DEFINE t == [i \in 1 .. k |-> TdiBits(todo[i])]
  <2>1. t \in [1 .. k -> Seq(Bit)] /\ \A i \in 1 .. k : t[i] = ss[i]
    BY <1>2
  <2>2. Combined(k) = Flat(t)
    BY DEF Combined
  <2> HIDE DEF t
  <2>3. Len(t) = k
    BY <1>1, <2>1
  <2>4. Joined(u, ss, n) /\ Agree(t, ss, k)
    BY <2>1 DEF ss, Agree
  <2>5. Flat(t) = u[k]
    BY <1>1, <2>1, <2>3, <2>4, FlatUpto
  <2> QED
    BY <2>2, <2>5
<1> QED
  BY <1>2, <1>3 DEF ss, SeqsOf

(* Results joined in either order are the same. *)
LEMMA StoredAssociative ==
    ASSUME NEW a \in Seq(Stored), NEW b \in Seq(Stored), NEW d \in Seq(Stored)
    PROVE  (a \o b) \o d = a \o (b \o d)
  BY ConcatAssociative

(* Combining the first activities is carrying them out one after the       *)
(* other: it leaves the same line, and what is picked are their results.   *)
LEMMA Combines ==
    ASSUME line \in Lines, todo \in Seq(LaterActs), done \in Seq(Stored),
           NEW n \in 0 .. Len(todo), \A i \in 1 .. n : Combinable(todo[i]),
           NEW x, x = DriverTransfer(line, Combined(n)),
           NEW f, Ran(f, [line |-> line, results |-> Shown(done)], todo, Len(todo))
    PROVE  /\ x.line \in Lines
           /\ Picked(n, x) \in Seq(Stored)
           /\ Len(Picked(n, x)) <= n
           /\ f[n] = [line |-> x.line, results |-> Shown(done \o Picked(n, x))]
<1>1. n \in Nat /\ Len(todo) \in Nat /\ \A i \in 1 .. Len(todo) : todo[i] \in LaterActs
  BY LenProperties, ElementOfSeq
<1> DEFINE ss == BitsOf(todo)
<1>2. PICK u : Joined(u, ss, n)
  BY <1>1, JoinedExists
<1>3. /\ SeqsOf(Bit, ss, n)
      /\ \A i \in 1 .. n : ss[i] = TdiBits(todo[i])
      /\ \A k \in 0 .. n : Combined(k) = u[k]
  BY <1>2, CombinedIs
<1> HIDE DEF ss
<1> DEFINE all == u[n]
           N == Len(all)
<1>4. all \in Seq(Bit) /\ N \in Nat /\ Combined(n) = all
  BY <1>1, <1>2, <1>3, JoinedTypes
<1>5. PICK h : /\ Shifted(h, line, all, N)
               /\ DriverTransfer(line, all) =
                    [line |-> h[N], out |-> [i \in 1 .. N |-> Tdo(h[i - 1])]]
  BY <1>4, DriverTransferGives
<1>6. x.line = h[N] /\ \A i \in 1 .. N : x.out[i] = Tdo(h[i - 1])
  BY <1>4, <1>5
<1>7. x.line \in Lines /\ x.out \in Seq(Bit) /\ Len(x.out) = N /\ Tdo(x.line) \in Bit
  <2> HIDE DEF all, N
  <2>1. x.line \in Lines
    BY <1>4, TransferStays
  <2>2. x.out \in Seq(Bit) /\ Len(x.out) = Len(all)
    BY <1>4, TransferTypes
  <2> QED
    BY <2>1, <2>2, TdoHeld DEF N
<1> HIDE DEF all, N
(* Where the bits of activity i are. *)
<1> DEFINE c(i) == Len(u[i - 1])
<1>8. ASSUME NEW i \in 1 .. n
      PROVE  /\ c(i) \in Nat
             /\ Len(u[i]) = c(i) + Len(ss[i])
             /\ c(i) + Len(ss[i]) <= N
             /\ Follow(all, c(i), ss[i])
  <2>1. i - 1 \in 0 .. n /\ i \in 0 .. n /\ ss[i] \in Seq(Bit)
    BY <1>1, <1>3 DEF SeqsOf
  <2>2. u[i - 1] \in Seq(Bit) /\ Len(u[i - 1]) \in Nat /\ u[i] \in Seq(Bit)
    <3>1. n \in Nat /\ Joined(u, ss, n) /\ SeqsOf(Bit, ss, n)
      BY <1>1, <1>2, <1>3
    <3>2. u[i] \in Seq(Bit)
      BY <2>1, <3>1, JoinedTypes
    <3> DEFINE m == i - 1
    <3>3. m \in 0 .. n
      BY <2>1
    <3> HIDE DEF m
    <3>4. u[m] \in Seq(Bit) /\ Len(u[m]) \in Nat
      BY <3>1, <3>3, JoinedTypes
    <3> QED
      BY <3>2, <3>4 DEF m
  <2>4. u[i] = u[i - 1] \o ss[i]
    BY <1>1, <1>2, JoinedStep
  <2>5. Len(u[i]) <= Len(u[n]) /\ \A p \in 1 .. Len(u[i]) : u[n][p] = u[i][p]
    <3>1. Begins(u[i], u[n])
      BY <1>1, <1>2, <1>3, <2>1, JoinedPlace
    <3> QED
      BY <3>1 DEF Begins
  <2> DEFINE a == u[i - 1]
             b == ss[i]
             d == u[i]
  <2>3. a \in Seq(Bit) /\ b \in Seq(Bit) /\ d = a \o b /\ Len(a) \in Nat /\ Len(b) \in Nat
        /\ \A p \in 1 .. Len(d) : all[p] = d[p]
    BY <2>1, <2>2, <2>4, <2>5, LenProperties DEF all
  <2>7. Len(d) <= N
    BY <2>5 DEF N, all
  <2> HIDE DEF a, b, d
  <2>6. Len(d) = Len(a) + Len(b)
    BY <2>3, ConcatProperties
  <2>8. \A p \in 1 .. Len(a) + Len(b) : d[p] = IF p <= Len(a) THEN a[p] ELSE b[p - Len(a)]
    BY <2>3, ConcatProperties
  <2>9. ASSUME NEW p \in 1 .. Len(b) PROVE all[Len(a) + p] = b[p]
    <3> DEFINE m == Len(a) + p
    <3>1. m \in 1 .. Len(d) /\ ~(m <= Len(a)) /\ m - Len(a) = p /\ m \in 1 .. Len(a) + Len(b)
      BY <2>3, <2>6
    <3> HIDE DEF m
    <3>2. all[m] = b[p]
      BY <2>3, <2>8, <3>1
    <3> QED
      BY <3>2 DEF m
  <2>10. Follow(all, Len(a), b)
    BY <2>9 DEF Follow
  <2> QED
    BY <2>2, <2>3, <2>6, <2>7, <2>10 DEF a, b, d
(* The first activities one by one. *)
<1> DEFINE p == [i \in 1 .. n |-> PickedAt(x, Len(Combined(i - 1)), todo[i])]
<1>9. ASSUME NEW i \in 1 .. n
      PROVE  /\ p[i] \in Seq(Stored) /\ Len(p[i]) \in Nat /\ Len(p[i]) <= 1
             /\ Effect(todo[i], h[Len(u[i - 1])]) = h[Len(u[i])]
             /\ ResultOf(todo[i], h[Len(u[i - 1])]) = Shown(p[i])
  <2> DEFINE act == todo[i]
             k == c(i)
             w == ss[i]
  <2>1. act \in LaterActs /\ Combinable(act) /\ w = TdiBits(act)
    BY <1>1, <1>3
  <2>2. k \in Nat /\ Len(u[i]) = k + Len(w) /\ k + Len(w) <= N /\ Follow(all, k, w)
    BY <1>8
  <2>3. p[i] = PickedAt(x, k, act)
    <3>1. i - 1 \in 0 .. n
      BY <1>1
    <3>2. Combined(i - 1) = u[i - 1]
      BY <1>3, <3>1
    <3> QED
      BY <3>2
  <2> HIDE DEF p, k, w, act
  <2>4. /\ Effect(act, h[k]) = h[k + Len(w)]
        /\ ResultOf(act, h[k]) = Shown(PickedAt(x, k, act))
    <3>1. all \in Seq(Bit) /\ N = Len(all) /\ Shifted(h, line, all, N)
          /\ Through(x, h, N)
      BY <1>4, <1>5, <1>6, <1>7 DEF N, Through
    <3> QED
      BY <2>1, <2>2, <3>1, CombinedOne
  <2>5. PickedAt(x, k, act) \in Seq(Stored) /\ Len(PickedAt(x, k, act)) <= 1
    <3>1. k + Len(TdiBits(act)) <= Len(x.out)
      BY <1>7, <2>1, <2>2
    <3> QED
      BY <1>7, <2>1, <2>2, <3>1, PickedType
  <2> QED
    BY <2>2, <2>3, <2>4, <2>5, LenProperties DEF k, act
<1>10. PICK v : Joined(v, p, n)
  BY <1>1, JoinedExists
<1>11. Picked(n, x) = v[n]
  <2>1. Picked(n, x) = Flat(p)
    BY PickedIs
  <2>2. p \in [1 .. n -> Seq(Stored)]
    <3>1. p = [i \in 1 .. n |-> p[i]] /\ DOMAIN p = 1 .. n
      OBVIOUS
    <3> HIDE DEF p
    <3> QED
      BY <1>9, <3>1
  <2> HIDE DEF p
  <2>3. Len(p) = n /\ Agree(p, p, n)
    BY <1>1, <2>2 DEF Agree
  <2>4. Flat(p) = v[n]
    BY <1>1, <1>10, <2>3, FlatUpto
  <2> QED
    BY <2>1, <2>4
<1> HIDE DEF p
<1>12. SeqsOf(Stored, p, n)
  BY <1>9 DEF SeqsOf
<1> DEFINE Good(j) ==
        /\ v[j] \in Seq(Stored) /\ Len(v[j]) \in Nat /\ Len(v[j]) <= j
        /\ f[j] = [line |-> h[Len(u[j])], results |-> Shown(done \o v[j])]
<1> DEFINE T == {j \in Nat : j <= n => Good(j)}
<1>13. 0 \in T
  <2>1. v[0] = <<>> /\ u[0] = <<>>
    BY <1>1, <1>2, <1>10 DEF Joined
  <2>2. f[0] = [line |-> line, results |-> Shown(done)]
    BY <1>1 DEF Ran
  <2>3. h[0] = line
    BY <1>4, <1>5 DEF Shifted
  <2>4. done \o <<>> = done /\ <<>> \in Seq(Stored) /\ Len(<<>>) = 0
    BY ConcatEmptySeq, EmptySeq
  <2>5. done \o v[0] = done /\ v[0] \in Seq(Stored) /\ Len(v[0]) = 0 /\ h[Len(u[0])] = line
    <3>1. done \o v[0] = done /\ v[0] \in Seq(Stored)
      BY <2>1, <2>4, Zenon
    <3>2. Len(v[0]) = 0 /\ Len(u[0]) = 0
      BY <2>1, <2>4, Zenon
    <3> QED
      BY <2>3, <3>1, <3>2, Zenon
  <2>6. f[0] = [line |-> h[Len(u[0])], results |-> Shown(done \o v[0])]
    BY <2>2, <2>5, Zenon
  <2>7. Len(v[0]) \in Nat /\ Len(v[0]) <= 0
    <3>1. Len(v[0]) = 0
      BY <2>5
    <3> HIDE DEF Good, T
    <3> QED
      BY <3>1
  <2>8. Good(0)
    BY <2>5, <2>6, <2>7, Zenon
  <2> HIDE DEF Good
  <2> QED
    BY <2>8
<1>14. ASSUME NEW j \in Nat, j \in T PROVE j + 1 \in T
  <2> SUFFICES ASSUME j + 1 <= n PROVE Good(j + 1)
    OBVIOUS
  <2> DEFINE i == j + 1
             act == todo[i]
             s == v[j]
             t == v[i]
             o == p[i]
             k == Len(u[j])
  <2>1. i \in 1 .. n /\ i - 1 = j /\ i \in 0 .. n /\ i \in 0 .. Len(todo) /\ i # 0
    BY <1>1
  <2>2. s \in Seq(Stored) /\ Len(s) \in Nat /\ Len(s) <= j
        /\ f[j] = [line |-> h[k], results |-> Shown(done \o s)]
    BY <1>14
  <2> HIDE DEF i, act, s, t, o, k, Good, T
  <2>3. t = s \o o
    <3>1. v[i] = v[i - 1] \o p[i]
      BY <1>1, <1>10, <2>1, JoinedStep
    <3> QED
      BY <2>1, <3>1 DEF s, t, o
  <2>4. /\ o \in Seq(Stored) /\ Len(o) \in Nat /\ Len(o) <= 1
        /\ Effect(act, h[k]) = h[Len(u[i])]
        /\ ResultOf(act, h[k]) = Shown(o)
    BY <1>9, <2>1 DEF o, act, k
  <2>5. t \in Seq(Stored) /\ Len(t) = Len(s) + Len(o)
    BY <2>2, <2>3, <2>4, ConcatProperties
  <2>6. f[i] = After(f[j], act)
    <3>1. f[i] = After(f[i - 1], todo[i])
      BY <2>1 DEF Ran
    <3> QED
      BY <2>1, <3>1, Zenon DEF act
  <2>7. f[i] = [line |-> h[Len(u[i])], results |-> Shown(done \o s) \o Shown(o)]
    <3>1. f[j].line = h[k] /\ f[j].results = Shown(done \o s)
      BY <2>2
    <3>2. f[i] = [line |-> Effect(act, h[k]), results |-> Shown(done \o s) \o ResultOf(act, h[k])]
      BY <2>6, <3>1, Zenon DEF After
    <3> QED
      BY <2>4, <3>2, Zenon
  <2>8. Shown(done \o s) \o Shown(o) = Shown(done \o t)
    <3>1. (done \o s) \o o = done \o (s \o o)
      <4>1. done \in Seq(Stored) /\ s \in Seq(Stored) /\ o \in Seq(Stored)
        BY <2>2, <2>4
      <4> QED
        BY <4>1, StoredAssociative
    <3>2. done \o s \in Seq(Stored)
      BY <2>2, ConcatProperties
    <3>3. Shown((done \o s) \o o) = Shown(done \o s) \o Shown(o)
      BY <2>4, <3>2, ShownConcat
    <3> QED
      BY <2>3, <3>1, <3>3
  <2>9. Len(t) \in Nat /\ Len(t) <= i
    BY <2>2, <2>4, <2>5 DEF i
  <2>10. Good(i)
    BY <2>5, <2>7, <2>8, <2>9 DEF Good, t
  <2> QED
    BY <2>10 DEF i
<1>15. Good(n)
  <2>1. n \in T
    <3> HIDE DEF T
    <3> QED
      BY <1>1, <1>13, <1>14, SetInduction
  <2> QED
    BY <1>1, <2>1
<1> QED
  BY <1>6, <1>7, <1>11, <1>15 DEF N, all

-----------------------------------------------------------------------------
(* The states the cable can be in. *)

Requests ==
    [op : {"do"}, act : Immediate, how : {"COMPLETELY"}, fallback : BOOLEAN]
    \cup [op : {"late"}, kind : Kinds, how : {"TO_OUTPUT"}, fallback : BOOLEAN]
    \cup [op : {"flush"}, how : Amounts, fallback : BOOLEAN]

(* No flush is made from within a flush, and what is under way fits the    *)
(* queue of results, so that none is purged.                               *)
CableInv ==
    /\ line \in Lines
    /\ todo \in Seq(Deferrable)
    /\ done \in Seq(Stored)
    /\ room \in Nat /\ DoneMax <= room
    /\ Len(todo) + Len(done) <= MaxPending
    /\ unwinding = <<>>
    /\ call = NoCall \/ call \in Requests
    /\ faults \subseteq {"lost", "double_free", "leak", "out_of_bounds"}

-----------------------------------------------------------------------------
(* What activities do. *)

(* Activities leave a line, ... *)
LEMMA EffectType ==
    ASSUME NEW act \in LaterActs \cup SetSignalActs, NEW l \in Lines
    PROVE  Effect(act, l) \in Lines
<1>1. CASE act \in ClockActs
  <2>1. act.action = "CLOCK" /\ act.tms \in Bit /\ act.tdi \in Bit /\ act.n \in Nat
    BY <1>1 DEF ClockActs
  <2>2. DriverClock(l, act.tms, act.tdi, act.n) \in Lines
    BY <2>1, ClocksAgree
  <2> QED
    BY <2>1, <2>2 DEF Effect
<1>2. CASE act \in TransferActs
  <2>1. act.action = "TRANSFER" /\ act.in \in Seq(Bit)
    BY <1>2 DEF TransferActs
  <2>2. DriverTransfer(l, act.in).line \in Lines
    BY <2>1, TransferStays
  <2> QED
    BY <2>1, <2>2 DEF Effect
<1>3. CASE act \in GetTdoActs \cup GetSignalActs
  BY <1>3 DEF GetTdoActs, GetSignalActs, Effect
<1>4. CASE act \in SetSignalActs
  <2>1. act.action = "SET_SIGNAL" /\ act.mask \in SUBSET Signals /\ act.val \in SUBSET Signals
    BY <1>4 DEF SetSignalActs
  <2> DEFINE m == act.mask
             v == act.val
             k == [l EXCEPT !.high = (@ \ m) \cup (v \cap m)]
  <2>2. k \in Lines
    BY <2>1 DEF Lines
  <2>3. DriverSetSignal(l, m, v) =
            [k EXCEPT !.tap = IF HeldInReset(k) THEN "TEST_LOGIC_RESET" ELSE @]
    BY DEF DriverSetSignal
  <2>4. "TEST_LOGIC_RESET" \in TapStates
    BY DEF TapStates
  <2> HIDE DEF k
  <2>5. DriverSetSignal(l, m, v) \in Lines
    BY <2>2, <2>3, <2>4 DEF Lines
  <2> QED
    BY <2>1, <2>5 DEF Effect
<1> QED
  BY <1>1, <1>2, <1>3, <1>4 DEF LaterActs

(* ... and give one result or none. *)
LEMMA ResultType ==
    ASSUME NEW act \in LaterActs, NEW l \in Lines
    PROVE  ResultOf(act, l) = <<>> \/ \E r \in Results : ResultOf(act, l) = <<r>>
<1>1. CASE act \in ClockActs
  BY <1>1 DEF ClockActs, ResultOf
<1>2. CASE act \in TransferActs
  <2>1. act.action = "TRANSFER" /\ act.in \in Seq(Bit) /\ act.keep \in BOOLEAN
    BY <1>2 DEF TransferActs
  <2> DEFINE o == DriverTransfer(l, act.in).out
             r == [kind |-> "TRANSFER", value |-> o]
  <2>2. o \in Seq(Bit)
    BY <2>1, TransferTypes
  <2>3. ResultOf(act, l) = IF act.keep THEN <<r>> ELSE <<>>
    BY <2>1 DEF ResultOf
  <2> HIDE DEF o
  <2>4. r \in Results
    BY <2>2 DEF Results, ResultKinds
  <2> QED
    BY <2>3, <2>4
<1>3. CASE act \in GetTdoActs
  <2> DEFINE r == [kind |-> "GET_TDO", value |-> Tdo(l)]
  <2>1. ResultOf(act, l) = <<r>>
    BY <1>3 DEF GetTdoActs, ResultOf
  <2>2. r \in Results
    BY TdoHeld DEF Results, ResultKinds
  <2> QED
    BY <2>1, <2>2
<1>4. CASE act \in GetSignalActs
  <2> DEFINE v == DriverGetSignal(l, act.sig)
             r == [kind |-> act.sig, value |-> v]
  <2>1. ResultOf(act, l) = <<r>> /\ act.sig \in Signals
    BY <1>4 DEF GetSignalActs, ResultOf
  <2>2. v \in Bit
    BY DEF DriverGetSignal, Bit
  <2> HIDE DEF v
  <2>3. r \in Results
    BY <2>1, <2>2 DEF Results, ResultKinds
  <2> QED
    BY <2>1, <2>3
<1> QED
  BY <1>1, <1>2, <1>3, <1>4 DEF LaterActs

(* The result of an activity done on its own is what is stored. *)
LEMMA DoneItemsShown ==
    ASSUME NEW act \in LaterActs, line \in Lines
    PROVE  /\ DoneItems(act) \in Seq(Stored)
           /\ Len(DoneItems(act)) <= 1
           /\ Shown(DoneItems(act)) = ResultOf(act, line)
<1> DEFINE q == ResultOf(act, line)
           m == Len(TdiBits(act))
<1>1. m \in Nat
  BY TdiBitsType
<1>2. DoneItems(act) = [i \in DOMAIN q |-> [kind |-> q[i].kind, value |-> q[i].value, res |-> m]]
  BY DEF DoneItems
<1> HIDE DEF m
<1>3. CASE q = <<>>
  <2>1. DoneItems(act) = <<>>
    BY <1>2, <1>3
  <2> QED
    BY <1>3, <2>1, ShownOne, EmptySeq
<1>4. CASE q # <<>>
  <2>1. PICK r \in Results : q = <<r>>
    BY <1>4, ResultType
  <2> DEFINE d == [kind |-> r.kind, value |-> r.value, res |-> m]
  <2> HIDE DEF q
  <2>2. DoneItems(act) = <<d>>
    BY <1>2, <2>1
  <2>3. d \in Stored
    BY <1>1 DEF Stored, Results
  <2>4. r = [kind |-> r.kind, value |-> r.value]
    BY DEF Results
  <2>5. Shown(<<d>>) = <<r>>
    BY <2>4, ShownOne
  <2> HIDE DEF d
  <2>6. <<d>> \in Seq(Stored) /\ Len(<<d>>) = 1
    BY <2>3
  <2> QED
    BY <2>1, <2>2, <2>5, <2>6 DEF q
<1> QED
  BY <1>3, <1>4

-----------------------------------------------------------------------------
(* The steps: each leaves what is owed to the line and to the callers as   *)
(* it is, or does what the eager cable does.                               *)

Now == [line |-> line, results |-> Shown(done)]

(* The refinement mapping: what is left to do, carried out from now on. *)
LEMMA DrainedIs ==
    /\ Drained = Carried(Now, todo)
    /\ Drained' = Carried(Now', todo')
<1>1. Drained = Carried(Now, todo)
  BY DEF Drained, Carried, Ran, After, Shown, Now
<1>2. Drained' = Carried(Now', todo')
  BY DEF Drained, Carried, Ran, After, Shown, Now
<1> QED
  BY <1>1, <1>2

(* What the invariant says of the queues. *)
LEMMA InvFacts ==
    ASSUME Callers, CableInv
    PROVE  /\ todo \in Seq(LaterActs) /\ Len(todo) \in Nat
           /\ done \in Seq(Stored) /\ Len(done) \in Nat
           /\ todo # <<>> => /\ Head(todo) \in LaterActs /\ Head(todo) \in Deferrable
                             /\ Head(todo).action # "SET_SIGNAL"
                             /\ Len(todo) # 0 /\ ~NoSpace
                             /\ Tail(todo) \in Seq(Deferrable) /\ Len(Tail(todo)) = Len(todo) - 1
<1>1. todo \in Seq(LaterActs)
  BY SeqMonotonic DEF Callers, CableInv
<1>2. Len(todo) \in Nat /\ done \in Seq(Stored) /\ Len(done) \in Nat
  BY <1>1, LenProperties DEF CableInv
<1>3. ASSUME todo # <<>>
      PROVE  /\ Head(todo) \in LaterActs /\ Head(todo) \in Deferrable
             /\ Head(todo).action # "SET_SIGNAL"
             /\ Len(todo) # 0 /\ ~NoSpace
             /\ Tail(todo) \in Seq(Deferrable) /\ Len(Tail(todo)) = Len(todo) - 1
  <2>1. todo \in Seq(Deferrable)
    BY DEF CableInv
  <2>2. /\ Head(todo) \in Deferrable /\ Tail(todo) \in Seq(Deferrable)
        /\ Len(Tail(todo)) = Len(todo) - 1
    BY <1>3, <2>1, HeadTailProperties
  <2>3. Head(todo) \in LaterActs
    BY <2>2 DEF Callers
  <2>4. Head(todo).action # "SET_SIGNAL"
    BY <2>3 DEF LaterActs, ClockActs, TransferActs, GetTdoActs, GetSignalActs
  <2>5. Len(todo) # 0
    BY <1>1, <1>2, <1>3, EmptySeq
  <2>6. /\ room \in Nat /\ DoneMax <= room /\ Len(todo) + Len(done) <= MaxPending
        /\ MaxPending <= DoneMax /\ MaxPending \in Nat /\ DoneMax \in Nat
    BY CableAssumption DEF CableInv, Callers
  <2>7. ~NoSpace
    BY <1>2, <2>5, <2>6 DEF NoSpace
  <2> QED
    BY <2>2, <2>3, <2>4, <2>5, <2>7
<1> QED
  BY <1>1, <1>2, <1>3

(* A new cable. *)
LEMMA InvInit == Init => CableInv /\ Drained = [line |-> line, results |-> <<>>]
<1> SUFFICES ASSUME Init PROVE CableInv /\ Drained = [line |-> line, results |-> <<>>]
  OBVIOUS
<1>1. todo = <<>> /\ done = <<>> /\ line \in Lines /\ room = DoneMax /\ call = NoCall
      /\ unwinding = <<>> /\ faults = {}
  BY DEF Init
<1>2. <<>> \in Seq(Deferrable) /\ <<>> \in Seq(Stored) /\ Len(<<>>) = 0
  BY EmptySeq
<1>3. DoneMax \in Nat /\ MaxPending \in Nat
  BY CableAssumption
<1>4. Len(todo) + Len(done) <= MaxPending
  BY <1>1, <1>2, <1>3
<1>5. CableInv
  BY <1>1, <1>2, <1>3, <1>4 DEF CableInv
<1>6. Shown(done) = <<>>
  BY <1>1, ShownOne
<1>7. Drained = Now
  BY <1>1, DrainedIs, CarriedEmpty
<1> QED
  BY <1>5, <1>6, <1>7 DEF Now

(* A deferred activity is one more to do. *)
LEMMA DeferStep ==
    ASSUME Callers, CableInv, NEW act \in Deferrable, Defer(act)
    PROVE  /\ CableInv' /\ Drained' = After(Drained, act)
           /\ ret' = <<"ok">> /\ faults' = faults
<1>1. /\ todo' = Append(todo, act) /\ Len(todo) + Len(done) < MaxPending
      /\ call' = [op |-> "flush", how |-> "OPTIONALLY", fallback |-> FALSE]
      /\ ret' = <<"ok">> /\ line' = line /\ done' = done /\ room' = room
      /\ unwinding' = unwinding /\ faults' = faults
  BY DEF Defer
<1>2. todo \in Seq(Deferrable) /\ act \in Deferrable
  BY DEF CableInv
<1>3. todo' \in Seq(Deferrable) /\ Len(todo') = Len(todo) + 1
  BY <1>1, <1>2, AppendProperties
<1>4. Len(todo) \in Nat /\ Len(done) \in Nat /\ MaxPending \in Nat
  BY InvFacts, CableAssumption
<1>5. Len(todo') + Len(done') <= MaxPending
  BY <1>1, <1>3, <1>4
<1>6. call' \in Requests
  BY <1>1 DEF Requests, Amounts
<1>7. CableInv'
  BY <1>1, <1>3, <1>5, <1>6 DEF CableInv
<1>8. Now' = Now
  BY <1>1 DEF Now
<1>9. Drained' = After(Drained, act)
  BY <1>1, <1>2, <1>8, DrainedIs, CarriedAppend
<1> QED
  BY <1>1, <1>7, <1>9

(* Calls begin without changing anything else. *)
LEMMA BeginStep ==
    ASSUME Callers, CableInv,
           \/ \E act \in Immediate : BeginImmediate(act)
           \/ \E kind \in Kinds : BeginLate(kind)
           \/ \E how \in Amounts : BeginFlush(how)
    PROVE  CableInv' /\ Drained' = Drained /\ ret' = <<"void">> /\ faults' = faults
<1>1. /\ ret' = <<"void">> /\ line' = line /\ todo' = todo /\ done' = done /\ room' = room
      /\ unwinding' = unwinding /\ faults' = faults
  BY DEF BeginImmediate, BeginLate, BeginFlush
<1>2. call' \in Requests
  <2>1. ASSUME NEW act \in Immediate, BeginImmediate(act) PROVE call' \in Requests
    BY <2>1 DEF BeginImmediate, Requests
  <2>2. ASSUME NEW kind \in Kinds, BeginLate(kind) PROVE call' \in Requests
    BY <2>2 DEF BeginLate, Requests
  <2>3. ASSUME NEW how \in Amounts, BeginFlush(how) PROVE call' \in Requests
    BY <2>3 DEF BeginFlush, Requests
  <2> QED
    BY <2>1, <2>2, <2>3
<1>3. CableInv'
  BY <1>1, <1>2 DEF CableInv
<1>4. Drained' = Drained
  BY <1>1, DrainedIs DEF Now
<1> QED
  BY <1>1, <1>3, <1>4

(* Nothing is deferred for want of memory, a flush falls back to one by    *)
(* one, a flush is over: only the call changes.                            *)
LEMMA CallOnly ==
    ASSUME CableInv, DeferFails \/ CombineFails \/ FinishFlush
    PROVE  CableInv' /\ Drained' = Drained /\ faults' = faults
<1>1. /\ line' = line /\ todo' = todo /\ done' = done /\ room' = room
      /\ unwinding' = unwinding /\ faults' = faults
  BY DEF DeferFails, CombineFails, FinishFlush
<1>2. call' = NoCall \/ call' \in Requests
  <2>1. CASE DeferFails
    BY <2>1 DEF DeferFails, CableInv
  <2>2. CASE CombineFails
    <3>1. call' = [call EXCEPT !.fallback = TRUE] /\ call # NoCall
      BY <2>2 DEF CombineFails, Flushing
    <3>2. call \in Requests
      BY <3>1 DEF CableInv
    <3> QED
      BY <3>1, <3>2 DEF Requests
  <2>3. CASE FinishFlush
    BY <2>3 DEF FinishFlush
  <2> QED
    BY <2>1, <2>2, <2>3
<1>3. CableInv'
  BY <1>1, <1>2 DEF CableInv
<1>4. Drained' = Drained
  BY <1>1, DrainedIs DEF Now
<1> QED
  BY <1>1, <1>3, <1>4

(* The oldest activity is carried out. *)
LEMMA DoOneStep ==
    ASSUME Callers, CableInv, DoOne
    PROVE  CableInv' /\ Drained' = Drained /\ ret' = ret /\ faults' = faults
<1> DEFINE act == Head(todo)
           d == DoneItems(act)
<1>1. /\ todo # <<>> /\ todo' = Tail(todo)
      /\ ret' = ret /\ room' = room /\ call' = call /\ unwinding' = unwinding
  BY DEF DoOne
<1>2. /\ todo \in Seq(LaterActs) /\ Len(todo) \in Nat
      /\ done \in Seq(Stored) /\ Len(done) \in Nat
      /\ act \in LaterActs /\ Len(todo) # 0 /\ ~NoSpace
      /\ Tail(todo) \in Seq(Deferrable) /\ Len(Tail(todo)) = Len(todo) - 1
  BY <1>1, InvFacts
<1>3. line' = Effect(act, line) /\ done' = done \o d /\ faults' = faults
  BY <1>2 DEF DoOne
<1>4. line \in Lines /\ line' \in Lines
  BY <1>2, <1>3, EffectType DEF CableInv
<1>5. d \in Seq(Stored) /\ Len(d) <= 1 /\ Shown(d) = ResultOf(act, line) /\ Len(d) \in Nat
  BY <1>2, <1>4, DoneItemsShown, LenProperties
<1> HIDE DEF d, act
<1>6. done' \in Seq(Stored) /\ Len(done') = Len(done) + Len(d)
  BY <1>2, <1>3, <1>5, ConcatProperties
<1>7. Len(todo') + Len(done') <= MaxPending
  <2>1. Len(todo) + Len(done) <= MaxPending /\ MaxPending \in Nat
    BY CableAssumption DEF CableInv
  <2>2. Len(todo') = Len(todo) - 1
    BY <1>1, <1>2
  <2> QED
    BY <1>2, <1>5, <1>6, <2>1, <2>2
<1>8. CableInv'
  BY <1>1, <1>2, <1>3, <1>4, <1>6, <1>7 DEF CableInv
<1>9. Now' = After(Now, act)
  <2>1. Shown(done') = Shown(done) \o Shown(d)
    BY <1>2, <1>3, <1>5, ShownConcat
  <2>2. Now.line = line /\ Now.results = Shown(done)
    BY DEF Now
  <2>3. Now' = [line |-> line', results |-> Shown(done')]
    BY DEF Now
  <2> QED
    BY <1>3, <1>5, <2>1, <2>2, <2>3 DEF After
<1>10. Drained' = Drained
  BY <1>1, <1>2, <1>9, DrainedIs, CarriedHead DEF act
<1> QED
  BY <1>1, <1>3, <1>8, <1>10

(* The results of a transfer fit into the done queue. *)
LEMMA CombineFits ==
    ASSUME Callers, CableInv
    PROVE  Len(done \o Picked(PrefixLength, DriverTransfer(line, Combined(PrefixLength)))) \in 0 .. room
<1> DEFINE n == PrefixLength
           x == DriverTransfer(line, Combined(n))
           v == Picked(n, x)
<1>1. /\ todo \in Seq(LaterActs) /\ Len(todo) \in Nat
      /\ done \in Seq(Stored) /\ Len(done) \in Nat /\ line \in Lines
  BY InvFacts DEF CableInv
<1>2. n \in 0 .. Len(todo) /\ \A i \in 1 .. n : Combinable(todo[i])
  BY <1>1, PrefixIs
<1>3. PICK f : Ran(f, Now, todo, Len(todo))
  BY <1>1, RanExists
<1>4. Ran(f, [line |-> line, results |-> Shown(done)], todo, Len(todo))
  BY <1>3 DEF Now
<1> HIDE DEF n
<1>5. v \in Seq(Stored) /\ Len(v) <= n
  <2>1. x = DriverTransfer(line, Combined(n))
    OBVIOUS
  <2> HIDE DEF x
  <2> QED
    BY <1>1, <1>2, <1>4, <2>1, Combines
<1> HIDE DEF x, v
<1>6. Len(done \o v) = Len(done) + Len(v) /\ Len(v) \in Nat
  BY <1>1, <1>5, ConcatProperties, LenProperties
<1>7. /\ Len(todo) + Len(done) <= MaxPending /\ MaxPending \in Nat /\ MaxPending <= DoneMax
      /\ DoneMax \in Nat /\ DoneMax <= room /\ room \in Nat
  BY CableAssumption DEF CableInv, Callers
<1> QED
  BY <1>1, <1>2, <1>5, <1>6, <1>7 DEF n, x, v

(* No flush finds the done queue full. *)
LEMMA NoOverflow ==
    ASSUME Callers, CableInv
    PROVE  ~CombineOverflows
<1> DEFINE results == done \o Picked(PrefixLength, DriverTransfer(line, Combined(PrefixLength)))
<1>1. Len(results) <= room /\ room \in Nat /\ Len(results) \in Nat
  BY CombineFits DEF CableInv
<1>2. room .. Len(results) - 1 = {}
  BY <1>1
<1> QED
  BY <1>2 DEF CombineOverflows

(* What is left of the queue is carried out from where its first items led. *)
LEMMA QueueCarried ==
    ASSUME todo \in Seq(LaterActs), NEW k \in 0 .. Len(todo), NEW f,
           Ran(f, Now, todo, Len(todo)), NEW p \in Seq(LaterActs), Len(p) = Len(todo) - k,
           \A i \in 1 .. Len(p) : p[i] = todo[k + i]
    PROVE  Carried(f[k], p) = Carried(Now, todo)
  BY CarriedFrom

(* Several are carried out by one transfer. *)
LEMMA CombineStep ==
    ASSUME Callers, CableInv, Combine
    PROVE  CableInv' /\ Drained' = Drained /\ ret' = ret /\ faults' = faults
<1> DEFINE n == PrefixLength
           x == DriverTransfer(line, Combined(n))
           v == Picked(n, x)
           L == Len(todo)
<1>1. /\ line' = x.line /\ done' = done \o v /\ room' = RoomFor(Len(done'))
      /\ todo' = SubSeq(todo, n + 1, Len(todo))
      /\ ret' = ret /\ call' = call /\ unwinding' = unwinding /\ faults' = faults
  BY DEF Combine
<1>2. /\ todo \in Seq(LaterActs) /\ todo \in Seq(Deferrable) /\ L \in Nat
      /\ done \in Seq(Stored) /\ Len(done) \in Nat /\ line \in Lines
  BY InvFacts DEF CableInv
<1>3. n \in 0 .. L /\ \A i \in 1 .. n : Combinable(todo[i])
  BY <1>2, PrefixIs
<1>4. PICK f : Ran(f, Now, todo, L)
  BY <1>2, RanExists
<1> HIDE DEF n, x, v, L
<1>5. /\ x.line \in Lines /\ v \in Seq(Stored) /\ Len(v) <= n
      /\ f[n] = [line |-> x.line, results |-> Shown(done \o v)]
  <2>1. Ran(f, [line |-> line, results |-> Shown(done)], todo, Len(todo))
    BY <1>4 DEF Now, L
  <2>2. n \in 0 .. Len(todo) /\ x = DriverTransfer(line, Combined(n))
    BY <1>3 DEF L, x
  <2> QED
    BY <1>2, <1>3, <2>1, <2>2, Combines DEF v
<1>6. Now' = f[n]
  BY <1>1, <1>5 DEF Now
(* What is left. *)
<1>7. /\ todo' \in Seq(Deferrable) /\ Len(todo') = L - n
      /\ \A i \in 1 .. L - n : todo'[i] = todo[n + i]
  <2> DEFINE m == n + 1
             q == SubSeq(todo, m, L)
  <2>1. m \in Int /\ L \in Int /\ \A i \in m .. L : todo[i] \in Deferrable
    <3>1. \A i \in 1 .. L : todo[i] \in Deferrable
      BY <1>2, ElementOfSeq DEF L
    <3> QED
      BY <1>2, <1>3, <3>1
  <2>2. L - m + 1 = L - n /\ (m <= L <=> L - n # 0) /\ L - n \in Nat
        /\ \A i \in 1 .. L - n : m + i - 1 = n + i
    BY <1>2, <1>3
  <2>3. todo' = q
    BY <1>1 DEF L
  <2> HIDE DEF m
  <2>4. /\ q \in Seq(Deferrable)
        /\ Len(q) = IF m <= L THEN L - m + 1 ELSE 0
        /\ \A i \in 1 .. L - m + 1 : q[i] = todo[m + i - 1]
    BY <2>1, SubSeqProperties
  <2> HIDE DEF q
  <2>5. Len(q) = L - n
    BY <2>2, <2>4
  <2>6. \A i \in 1 .. L - n : q[i] = todo[n + i]
    BY <2>2, <2>4
  <2> QED
    BY <2>3, <2>4, <2>5, <2>6
<1>8. Drained' = Drained
  <2> DEFINE p == todo'
  <2>1. p \in Seq(LaterActs) /\ Len(p) = Len(todo) - n /\ \A i \in 1 .. Len(p) : p[i] = todo[n + i]
    BY <1>7, SeqMonotonic DEF Callers, L
  <2>2. n \in 0 .. Len(todo) /\ Ran(f, Now, todo, Len(todo))
    BY <1>3, <1>4 DEF L
  <2> HIDE DEF p
  <2>3. Carried(f[n], p) = Carried(Now, todo)
    BY <1>2, <2>1, <2>2, QueueCarried
  <2> QED
    BY <1>6, <2>3, DrainedIs DEF p
(* The results fit. *)
<1>9. done' \in Seq(Stored) /\ Len(done') = Len(done) + Len(v) /\ Len(v) \in Nat
  BY <1>1, <1>2, <1>5, ConcatProperties, LenProperties
<1>10. Len(todo') + Len(done') <= MaxPending
  <2>1. L + Len(done) <= MaxPending /\ MaxPending \in Nat
    BY CableAssumption DEF CableInv, L
  <2> QED
    BY <1>2, <1>3, <1>5, <1>7, <1>9, <2>1
<1>11. room' \in Nat /\ DoneMax <= room'
  <2> DEFINE k == Len(done')
             P(r) == /\ (r - room) % Grow = 0
                     /\ r >= k
                     /\ r = room \/ r - Grow < k
  <2>1. /\ room \in Nat /\ DoneMax \in Nat /\ DoneMax <= room /\ Grow \in Nat /\ Grow > 0
        /\ MaxPending \in Nat /\ MaxPending <= DoneMax
    BY CableAssumption DEF CableInv, Callers
  <2>2. k \in Nat /\ k <= room
    <3>1. Len(todo') \in Nat /\ k \in Nat
      BY <1>2, <1>3, <1>5, <1>7, <1>9
    <3> QED
      BY <1>10, <2>1, <3>1
  <2>3. room' = CHOOSE r \in room .. room + k * Grow : P(r)
    BY <1>1 DEF RoomFor
  <2> HIDE DEF k
  <2>4. k * Grow \in Nat
    BY <2>1, <2>2
  <2> DEFINE top == room + k * Grow
  <2>5. room \in room .. top
    BY <2>1, <2>4
  <2>6. P(room)
    <3>1. room - room = 0 /\ 0 % Grow = 0
      BY <2>1
    <3> QED
      BY <2>1, <2>2, <3>1
  <2> HIDE DEF P, top
  <2>7. room' \in room .. top
    BY <2>3, <2>5, <2>6, Zenon DEF top
  <2> QED
    BY <2>1, <2>7
<1>12. CableInv'
  BY <1>1, <1>5, <1>7, <1>9, <1>10, <1>11 DEF CableInv
<1> QED
  BY <1>1, <1>8, <1>12

(* When the rest of a call that wants the results or the hardware is done, *)
(* nothing is left in the queue.                                           *)
LEMMA NothingLeftToDo ==
    ASSUME CableInv, Finishing("do") \/ Finishing("late")
    PROVE  todo = <<>> /\ Drained = Now
<1>1. call \in Requests /\ call.how # "OPTIONALLY" /\ unwinding = <<>> /\ ~Flushing /\ call # NoCall
  BY DEF Finishing, CableInv, Requests
<1>2. todo = <<>>
  BY <1>1 DEF Flushing
<1> QED
  BY <1>2, DrainedIs, CarriedEmpty

(* A call that drives the hardware at once finds all before it done. *)
LEMMA ImmediateStep ==
    ASSUME Callers, CableInv, FinishImmediate
    PROVE  /\ CableInv' /\ faults' = faults
           /\ call.act \in Immediate
           /\ ret' = ImmediateValue(call.act, Drained.line)
           /\ Drained' = [line |-> Effect(call.act, Drained.line), results |-> Drained.results]
<1>1. /\ Finishing("do") /\ line' = Effect(call.act, line) /\ ret' = ImmediateValue(call.act, line)
      /\ call' = NoCall /\ todo' = todo /\ done' = done /\ room' = room
      /\ unwinding' = unwinding /\ faults' = faults
  BY DEF FinishImmediate
<1>2. call \in Requests /\ call.op = "do"
  BY <1>1 DEF Finishing, CableInv
<1>3. call.act \in Immediate
  BY <1>2 DEF Requests
<1>4. line' \in Lines
  <2>1. call.act \in LaterActs \cup SetSignalActs
    BY <1>3 DEF Callers
  <2> QED
    BY <1>1, <2>1, EffectType DEF CableInv
<1>5. CableInv'
  BY <1>1, <1>4 DEF CableInv
<1>6. todo = <<>> /\ Drained = Now
  BY <1>1, NothingLeftToDo
<1>7. Drained' = Now'
  BY <1>1, <1>6, DrainedIs, CarriedEmpty
<1>8. Now.line = line /\ Now.results = Shown(done)
  BY DEF Now
<1>9. Now' = [line |-> line', results |-> Shown(done)]
  BY <1>1 DEF Now
<1> QED
  BY <1>1, <1>3, <1>5, <1>6, <1>7, <1>8, <1>9

(* A call that fetches gets the oldest result owed, or the level now. *)
LEMMA LateStep ==
    ASSUME Callers, CableInv, FinishLate
    PROVE  /\ CableInv' /\ call.kind \in Kinds
           /\ Drained'.line = Drained.line
           /\ \/ /\ Drained.results # <<>> /\ Head(Drained.results).kind = call.kind
                 /\ ret' = StoredValue(call.kind, Head(Drained.results))
                 /\ Drained'.results = Tail(Drained.results)
                 /\ faults' = faults
              \/ /\ ~(Drained.results # <<>> /\ Head(Drained.results).kind = call.kind)
                 /\ ret' = LiveValue(call.kind, Drained.line)
                 /\ Drained'.results = <<>>
                 /\ done # <<>> => Head(done).kind # call.kind
<1>1. /\ Finishing("late") /\ call' = NoCall /\ line' = line /\ todo' = todo /\ room' = room
      /\ unwinding' = unwinding
  BY DEF FinishLate
<1>2. call \in Requests /\ call.op = "late"
  BY <1>1 DEF Finishing, CableInv
<1>3. call.kind \in Kinds
  BY <1>2 DEF Requests
<1>4. todo = <<>> /\ Drained = Now
  BY <1>1, NothingLeftToDo
<1>5. Drained' = Now'
  BY <1>1, <1>4, DrainedIs, CarriedEmpty
<1>6. /\ Drained.line = line /\ Drained.results = Shown(done)
      /\ Drained'.line = line' /\ Drained'.results = Shown(done')
  BY <1>4, <1>5 DEF Now
<1>7. done \in Seq(Stored) /\ Len(done) \in Nat /\ Len(todo) \in Nat /\ MaxPending \in Nat
      /\ Len(todo) + Len(done) <= MaxPending
  BY InvFacts, CableAssumption DEF CableInv
<1>8. CASE done # <<>> /\ Head(done).kind = call.kind
  <2>1. ret' = StoredValue(call.kind, Head(done)) /\ done' = Tail(done) /\ faults' = faults
    BY <1>8 DEF FinishLate
  <2>2. Tail(done) \in Seq(Stored) /\ Len(Tail(done)) = Len(done) - 1
    BY <1>7, <1>8, HeadTailProperties
  <2>3. Len(todo') + Len(done') <= MaxPending
    BY <1>1, <1>7, <2>1, <2>2
  <2>4. CableInv'
    BY <1>1, <2>1, <2>2, <2>3 DEF CableInv
  <2>5. /\ Shown(done) # <<>> /\ Shown(Tail(done)) = Tail(Shown(done))
        /\ Head(Shown(done)).kind = Head(done).kind
        /\ Head(Shown(done)).value = Head(done).value
    BY <1>7, <1>8, ShownTail
  <2>6. ret' = StoredValue(call.kind, Head(Shown(done)))
    BY <2>1, <2>5 DEF StoredValue
  <2> QED
    BY <1>1, <1>3, <1>6, <1>8, <2>1, <2>4, <2>5, <2>6
<1>9. CASE ~(done # <<>> /\ Head(done).kind = call.kind)
  <2>1. /\ ret' = LiveValue(call.kind, line) /\ done' = <<>>
        /\ faults' = faults \cup
                (IF done = <<>> THEN {}
                 ELSE {"lost"} \cup PurgeFaults(Tail(done)) \cup
                      (IF Head(done).kind = "TRANSFER" THEN {"leak"} ELSE {}))
    BY <1>9 DEF FinishLate
  <2>2. <<>> \in Seq(Stored) /\ Len(<<>>) = 0
    BY EmptySeq
  <2>3. Len(todo') + Len(done') <= MaxPending
    BY <1>1, <1>7, <2>1, <2>2
  <2>4. faults' \subseteq {"lost", "double_free", "leak", "out_of_bounds"}
    BY <2>1 DEF CableInv, PurgeFaults
  <2>5. CableInv'
    BY <1>1, <2>1, <2>2, <2>3, <2>4 DEF CableInv
  <2>6. Shown(done') = <<>>
    BY <2>1, ShownOne
  <2>7. ~(Shown(done) # <<>> /\ Head(Shown(done)).kind = call.kind)
    BY <1>7, <1>9, ShownTail
  <2> QED
    BY <1>1, <1>3, <1>6, <1>9, <2>1, <2>5, <2>6, <2>7
<1> QED
  BY <1>8, <1>9

(* Steps that change nothing. *)
LEMMA Stutter ==
    ASSUME CableInv, UNCHANGED vars
    PROVE  CableInv' /\ Drained' = Drained /\ ret' = ret /\ faults' = faults
<1>1. /\ line' = line /\ todo' = todo /\ done' = done /\ room' = room /\ call' = call
      /\ unwinding' = unwinding /\ ret' = ret /\ faults' = faults
  BY DEF vars
<1>2. CableInv'
  BY <1>1 DEF CableInv
<1>3. Drained' = Drained
  BY <1>1, DrainedIs DEF Now
<1> QED
  BY <1>1, <1>2, <1>3

(* Nothing is carried out from within a flush. *)
LEMMA NoNesting ==
    ASSUME Callers, CableInv
    PROVE  ~Unwind /\ \A mask \in SUBSET Signals : ~DoSetSignal(mask)
<1>1. ~Unwind
  BY DEF Unwind, Flushing, CableInv
<1>2. \A mask \in SUBSET Signals : ~DoSetSignal(mask)
  BY InvFacts DEF DoSetSignal
<1> QED
  BY <1>1, <1>2

-----------------------------------------------------------------------------
(* The eager cable. *)

(* Its hardware is that of the cable. *)
LEMMA SameActivities ==
    ASSUME NEW act, NEW l, NEW kind, NEW r
    PROVE  /\ Eager!Effect(act, l) = Effect(act, l)
           /\ Eager!ResultOf(act, l) = ResultOf(act, l)
           /\ Eager!ImmediateValue(act, l) = ImmediateValue(act, l)
           /\ Eager!LiveValue(kind, l) = LiveValue(kind, l)
           /\ Eager!StoredValue(kind, r) = StoredValue(kind, r)
           /\ Eager!Lines = Lines
<1>1. Eager!Effect(act, l) = Effect(act, l)
  BY DEF Eager!Effect, Effect, Eager!DriverClock, DriverClock, Eager!DriverTransfer,
         DriverTransfer, Eager!DriverSetSignal, DriverSetSignal, Eager!Pulse, Pulse,
         Eager!HeldInReset, HeldInReset, Eager!IeeeNext, IeeeNext, Eager!Ieee, Ieee,
         Eager!Tdo, Tdo, Eager!ShiftStates, ShiftStates
<1>2. Eager!ResultOf(act, l) = ResultOf(act, l)
  BY DEF Eager!ResultOf, ResultOf, Eager!DriverTransfer, DriverTransfer, Eager!Pulse, Pulse,
         Eager!HeldInReset, HeldInReset, Eager!IeeeNext, IeeeNext, Eager!Ieee, Ieee,
         Eager!Tdo, Tdo, Eager!ShiftStates, ShiftStates, Eager!DriverGetSignal, DriverGetSignal
<1>3. Eager!ImmediateValue(act, l) = ImmediateValue(act, l)
  BY DEF Eager!ImmediateValue, ImmediateValue, Eager!DriverTransfer, DriverTransfer,
         Eager!Pulse, Pulse, Eager!HeldInReset, HeldInReset, Eager!IeeeNext, IeeeNext,
         Eager!Ieee, Ieee, Eager!Tdo, Tdo, Eager!ShiftStates, ShiftStates,
         Eager!DriverGetSignal, DriverGetSignal
<1>4. Eager!LiveValue(kind, l) = LiveValue(kind, l)
  BY DEF Eager!LiveValue, LiveValue, Eager!Tdo, Tdo, Eager!DriverGetSignal, DriverGetSignal
<1>5. Eager!StoredValue(kind, r) = StoredValue(kind, r)
  BY DEF Eager!StoredValue, StoredValue
<1>6. Eager!Lines = Lines
  BY DEF Eager!Lines, Lines, Eager!TapStates, TapStates, Eager!Bit, Bit,
         Eager!Signals, Signals
<1> QED
  BY <1>1, <1>2, <1>3, <1>4, <1>5, <1>6

(* Every step of the cable is one of the eager cable, or none. *)
LEMMA EagerStep ==
    ASSUME Callers, CableInv, [Next]_vars
    PROVE  CableInv' /\ [Eager!Next]_Eager!vars
<1> DEFINE l == Drained.line
           r == Drained.results
<1>1. ASSUME NEW act \in Deferrable, Defer(act) PROVE CableInv' /\ Eager!Next
  <2>1. CableInv' /\ Drained' = After(Drained, act) /\ ret' = <<"ok">>
    BY <1>1, DeferStep
  <2>2. Drained'.line = Effect(act, l) /\ Drained'.results = r \o ResultOf(act, l)
    BY <2>1 DEF After
  <2>3. Eager!Defer(act)
    BY <2>1, <2>2, SameActivities DEF Eager!Defer
  <2> QED
    BY <2>1, <2>3 DEF Eager!Next
<1>2. ASSUME DeferFails PROVE CableInv' /\ Eager!Next
  <2>1. CableInv' /\ Drained' = Drained
    BY <1>2, CallOnly
  <2>2. ret' = <<"fail">>
    BY <1>2 DEF DeferFails
  <2> QED
    BY <2>1, <2>2 DEF Eager!Next, Eager!Refuse
<1>3. ASSUME \/ \E act \in Immediate : BeginImmediate(act)
             \/ \E kind \in Kinds : BeginLate(kind)
             \/ \E how \in Amounts : BeginFlush(how)
      PROVE  CableInv' /\ Eager!Next
  <2>1. CableInv' /\ Drained' = Drained /\ ret' = <<"void">>
    BY <1>3, BeginStep
  <2> QED
    BY <2>1 DEF Eager!Next, Eager!Flush
<1>4. ASSUME DoOne \/ Combine \/ CombineFails \/ FinishFlush \/ UNCHANGED vars
      PROVE  CableInv' /\ UNCHANGED Eager!vars
  <2>1. ret' = ret
    BY <1>4 DEF DoOne, Combine, CombineFails, FinishFlush, vars
  <2>2. CableInv' /\ Drained' = Drained
    BY <1>4, DoOneStep, CombineStep, CallOnly, Stutter
  <2> QED
    BY <2>1, <2>2 DEF Eager!vars
<1>5. ASSUME FinishImmediate PROVE CableInv' /\ Eager!Next
  <2> DEFINE act == call.act
  <2>1. /\ CableInv' /\ act \in Immediate /\ ret' = ImmediateValue(act, l)
        /\ Drained' = [line |-> Effect(act, l), results |-> r]
    BY <1>5, ImmediateStep
  <2>2. Drained'.line = Effect(act, l) /\ Drained'.results = r
    BY <2>1
  <2> HIDE DEF act
  <2>3. Eager!Do(act)
    BY <2>1, <2>2, SameActivities DEF Eager!Do
  <2> QED
    BY <2>1, <2>3 DEF Eager!Next
<1>6. ASSUME FinishLate PROVE CableInv' /\ Eager!Next
  <2> DEFINE kind == call.kind
  <2>1. /\ CableInv' /\ kind \in Kinds /\ Drained'.line = l
        /\ \/ /\ r # <<>> /\ Head(r).kind = kind
              /\ ret' = StoredValue(kind, Head(r)) /\ Drained'.results = Tail(r)
           \/ /\ ~(r # <<>> /\ Head(r).kind = kind)
              /\ ret' = LiveValue(kind, l) /\ Drained'.results = <<>>
    BY <1>6, LateStep
  <2> HIDE DEF kind
  <2>2. Eager!Fetch(kind) \/ Eager!FetchNone(kind)
    BY <2>1, SameActivities DEF Eager!Fetch, Eager!FetchNone
  <2> QED
    BY <2>1, <2>2 DEF Eager!Next
<1> QED
  BY <1>1, <1>2, <1>3, <1>4, <1>5, <1>6, NoNesting, NoOverflow DEF Next

(* The cable starts as the eager one does. *)
LEMMA EagerInit == Init => CableInv /\ Eager!Init
<1> SUFFICES ASSUME Init PROVE CableInv /\ Eager!Init
  OBVIOUS
<1>1. CableInv /\ Drained = [line |-> line, results |-> <<>>]
  BY InvInit
<1>2. line \in Lines /\ ret = <<"void">>
  BY DEF Init
<1> QED
  BY <1>1, <1>2, SameActivities DEF Eager!Init

(* What results are owed when none is to come. *)
LEMMA OwedIs ==
    ASSUME done \in Seq(Stored), todo = <<>>
    PROVE  /\ done = <<>> => Owed = <<>>
           /\ done # <<>> => Head(Owed) = Head(done).kind
<1> DEFINE kinds == [i \in DOMAIN done |-> done[i].kind]
           later == [i \in DOMAIN todo |->
                        IF todo[i].action = "GET_SIGNAL" THEN <<todo[i].sig>>
                        ELSE IF todo[i].action = "GET_TDO" THEN <<"GET_TDO">>
                        ELSE IF todo[i].action = "TRANSFER" /\ todo[i].keep
                        THEN <<"TRANSFER">> ELSE <<>>]
           n == Len(done)
<1>1. n \in Nat /\ (n = 0 <=> done = <<>>) /\ DOMAIN done = 1 .. n
      /\ \A i \in 1 .. n : done[i] \in Stored
  BY LenProperties, EmptySeq, ElementOfSeq
<1>2. kinds \in [1 .. n -> ResultKinds]
  BY <1>1 DEF Stored
<1>3. Len(later) = 0
  OBVIOUS
<1>4. Flat(later) = <<>>
  <2> HIDE DEF later
  <2>1. PICK u : Joined(u, later, 0)
    BY JoinedExists
  <2>2. Agree(later, later, 0)
    BY DEF Agree
  <2>3. Flat(later) = u[0]
    BY <1>3, <2>1, <2>2, FlatUpto
  <2> QED
    BY <2>1, <2>3 DEF Joined
<1>5. Owed = kinds \o Flat(later)
  BY DEF Owed
<1>8. done # <<>> => kinds[1] = Head(done).kind
  BY <1>1, HeadTailProperties
<1> HIDE DEF kinds, later, n
<1>6. kinds \in Seq(ResultKinds) /\ Len(kinds) = n
  BY <1>1, <1>2
<1>7. Owed = kinds
  BY <1>4, <1>5, <1>6, ConcatEmptySeq
<1> QED
  BY <1>1, <1>6, <1>7, <1>8, EmptySeq, HeadTailProperties

(* Only a call that wants another result than the oldest gives any up. *)
LEMMA LossStep ==
    ASSUME Callers, CableInv, [Next]_vars, faults' # faults
    PROVE  Finishing("late") /\ (Owed = <<>> \/ Head(Owed) # call.kind)
<1>1. ASSUME NEW act \in Deferrable, Defer(act) PROVE FALSE
  BY <1>1, DeferStep
<1>2. \A act \in Immediate : ~BeginImmediate(act)
  BY BeginStep
<1>3. \A kind \in Kinds : ~BeginLate(kind)
  BY BeginStep
<1>4. \A how \in Amounts : ~BeginFlush(how)
  BY BeginStep
<1>5. ~DeferFails /\ ~DoOne /\ ~Combine /\ ~CombineFails /\ ~FinishFlush /\ ~FinishImmediate
      /\ ~UNCHANGED vars
  BY CallOnly, DoOneStep, CombineStep, ImmediateStep, Stutter
<1>6. FinishLate
  BY <1>1, <1>2, <1>3, <1>4, <1>5, NoNesting, NoOverflow DEF Next
<1>7. Finishing("late")
  BY <1>6 DEF FinishLate
<1>8. done # <<>> => Head(done).kind # call.kind
  BY <1>6, LateStep
<1>9. todo = <<>> /\ done \in Seq(Stored)
  BY <1>7, NothingLeftToDo DEF CableInv
<1> QED
  BY <1>7, <1>8, <1>9, OwedIs

-----------------------------------------------------------------------------

(* The states the cable can be in: results are typed and fit, and no flush *)
(* is made from within a flush.                                            *)
THEOREM CableInvariant ==
    ASSUME Callers
    PROVE  Spec => []CableInv
<1>1. Init => CableInv
  BY EagerInit
<1>2. CableInv /\ [Next]_vars => CableInv'
  BY EagerStep
<1> QED
  BY <1>1, <1>2, PTL DEF Spec

(* Deferring activities cannot be observed: whatever is deferred, combined *)
(* and flushed when, by either algorithm and with memory running out at    *)
(* any moment, the hardware and the callers see what they would if every   *)
(* activity were carried out at once (generic.c:86-381, cable.c:203-646).  *)
THEOREM DeferringUnobservable ==
    ASSUME Callers
    PROVE  Spec => EagerSpec
<1>1. Init => CableInv /\ Eager!Init
  BY EagerInit
<1>2. CableInv /\ [Next]_vars => CableInv' /\ [Eager!Next]_Eager!vars
  BY EagerStep
<1> QED
  BY <1>1, <1>2, PTL DEF Spec, EagerSpec, Eager!Spec

(* Results are given up, or a queue is left, only by a _late call that does *)
(* not ask for the oldest result owed (cable.c:333-339, 394-407, 458,       *)
(* generic.c:97-108, 332, 351).                                             *)
THEOREM ResultsKept ==
    ASSUME Callers
    PROVE  Spec => NothingLost
<1>1. Init => CableInv
  BY EagerInit
<1>2. CableInv /\ [Next]_vars => CableInv'
  BY EagerStep
<1>3. CableInv /\ [Next]_vars =>
        [faults' # faults =>
            Finishing("late") /\ (Owed = <<>> \/ Head(Owed) # call.kind)]_vars
  BY LossStep
<1> QED
  BY <1>1, <1>2, <1>3, PTL DEF Spec, NothingLost
=============================================================================
