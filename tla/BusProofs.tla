------------------------------ MODULE BusProofs ------------------------------
(***************************************************************************)
(* The access functions of the drivers whose buses are not multiplexed keep *)
(* what is said of a bus, and never make two drive a line, for any banks,   *)
(* locations, boards and data.                                             *)
(***************************************************************************)
EXTENDS ParallelBus, TLAPS

(* Drivers with one chip select, and those that set only that of the bank.  *)
OneSelect ==
    {"prototype", "ppc405ep", "ppc440gx_ebc8", "mpc8313", "mpc824x", "lh7a400", "jopcyc",
     "zefant_xs3", "sharc_21065L", "sharc_21369_ezkit", "pxa2x0"}

(* Drivers that set all the chip selects by the bank. *)
AllSelects ==
    {"sa1110", "sh7727", "sh7750r", "sh7751r", "mpc5200", "blackfin", "slsup3"}

(* The bank used with a driver that sets one chip select. *)
Home(n) == IF n = "pxa2x0" THEN CHOOSE b \in Banks : Reach[n] \subseteq {b} ELSE 0

(* Each driver is used with the banks it can address, and a read sequence    *)
(* leaves a bank only if the driver selects the bank for each read.          *)
Addressable ==
    /\ \A n \in Names \ (AllSelects \cup Muxed) :
        n = "pxa2x0" \/ Reach[n] \subseteq {0}
    /\ "pxa2x0" \in Names => \E b \in Banks : Reach["pxa2x0"] \subseteq {b}
    /\ Crossing \subseteq {"slsup3"}

(* Drivers whose access functions are those the theorems are about. *)
Settled == Names \ (Muxed \cup {"h7202"})

-----------------------------------------------------------------------------
(* The shape of the access functions.                                        *)

Fields == {"sel", "lines", "capture"}
LineNames == {"oe", "we", "ale", "addr", "data"}

Leaves(s, l) == l \notin DOMAIN s.lines
Sets(s, l, v) == l \in DOMAIN s.lines /\ s.lines[l] = v

(* A shift of a driver with one chip select asserts no other. *)
Homely(n, s) ==
    /\ DOMAIN s = Fields /\ DOMAIN s.lines \subseteq LineNames
    /\ DOMAIN s.sel \subseteq Banks
    /\ \A c \in DOMAIN s.sel : s.sel[c] \in BOOLEAN
    /\ n \in OneSelect => \A c \in DOMAIN s.sel : s.sel[c] => c = Home(n)

(* A shift selects a bank. *)
Picks(n, s, b) ==
    \/ s.sel = OneOf(b)
    \/ n \in OneSelect /\ b = Home(n) /\ s.sel = Only(b)

(* It keeps the bank selected. *)
Stays(s) == DOMAIN s.sel = {}

(* A read sequence starts: the lines are let go of, given what that means.   *)
Starts(n, a, q, float) ==
    /\ q = <<q[1]>>
    /\ Homely(n, q[1]) /\ Picks(n, q[1], a.bank)
    /\ Sets(q[1], "oe", TRUE) /\ Sets(q[1], "we", FALSE) /\ Sets(q[1], "addr", a.word)
    /\ Sets(q[1], "data", float)
    /\ ~q[1].capture

(* It goes on. *)
GoesOn(n, a, q, float) ==
    /\ q = <<q[1]>>
    /\ Homely(n, q[1])
    /\ Picks(n, q[1], a.bank) \/ (Stays(q[1]) /\ n # "slsup3")
    /\ Leaves(q[1], "oe") \/ Sets(q[1], "oe", TRUE)
    /\ Leaves(q[1], "we") \/ Sets(q[1], "we", FALSE)
    /\ Sets(q[1], "addr", a.word)
    /\ Leaves(q[1], "data") \/ Sets(q[1], "data", float)
    /\ q[1].capture

(* It ends. *)
Ends(n, q) ==
    /\ q = <<q[1]>>
    /\ Homely(n, q[1])
    /\ Sets(q[1], "oe", FALSE) /\ Leaves(q[1], "we") /\ Leaves(q[1], "data")
    /\ q[1].capture

(* A write: everything but the write enable; the write enable; its release.  *)
Prepares(n, a, s, datum) ==
    /\ Homely(n, s) /\ Picks(n, s, a.bank)
    /\ Sets(s, "oe", FALSE)
    /\ Leaves(s, "we") \/ Sets(s, "we", FALSE)
    /\ Sets(s, "addr", a.word)
    /\ Sets(s, "data", datum)
    /\ ~s.capture

Strobes(n, a, s, datum) ==
    /\ Homely(n, s)
    /\ Picks(n, s, a.bank) \/ Stays(s)
    /\ Sets(s, "we", TRUE)
    /\ Leaves(s, "addr") \/ Sets(s, "addr", a.word)
    /\ Leaves(s, "data") \/ Sets(s, "data", datum)
    /\ ~s.capture

Finishes(n, s) ==
    /\ Homely(n, s)
    /\ Sets(s, "we", FALSE)
    /\ Leaves(s, "oe") \/ Sets(s, "oe", FALSE)
    /\ Leaves(s, "data")
    /\ ~s.capture

(* The output is enabled with the write enable only if it is disabled next.  *)
Quiets(s, t) ==
    Leaves(s, "oe") \/ Sets(s, "oe", FALSE) \/ (Sets(s, "oe", TRUE) /\ Sets(t, "oe", FALSE))

Writes(n, a, q, datum) ==
    /\ q = <<q[1], q[2], q[3]>>
    /\ Prepares(n, a, q[1], datum)
    /\ Strobes(n, a, q[2], datum)
    /\ Finishes(n, q[3])
    /\ Quiets(q[2], q[3])

Fits(n, D) ==
    /\ \A a \in Address : a.bank \in Reach[n] =>
        /\ Starts(n, a, D.start[a], Float)
        /\ GoesOn(n, a, D.next[a], Float)
        /\ Writes(n, a, D.write[a], Given)
    /\ Ends(n, D.end)

-----------------------------------------------------------------------------
(* The invariant.                                                            *)

Wide == Width(name, board, seen)
Across(d) == [h \in Wide |-> d]

(* No driver with one chip select asserts another; no line is driven that    *)
(* the driver does not know of.                                              *)
Shape(p) ==
    /\ DOMAIN p = LineNames \cup {"sel"}
    /\ p.sel \in [Banks -> BOOLEAN]
    /\ p.oe \in BOOLEAN /\ p.we \in BOOLEAN
    /\ DOMAIN p.data = Lines
    /\ name \in OneSelect => \A c \in Banks : p.sel[c] => c = Home(name)
    /\ \A h \in board : p.data[h] # Float => h \in Wide

(* Nothing is read or written. *)
Quiet(p) == ~p.oe /\ ~p.we

(* A location is read. *)
Reads(p, a) ==
    /\ p.oe /\ ~p.we
    /\ Selected(p) = {a.bank}
    /\ p.addr = a.word
    /\ \A h \in board : p.data[h] = Float

(* It would be written if the write enable were asserted. *)
Ready(p, a, d) ==
    /\ ~p.oe /\ ~p.we
    /\ Selected(p) = {a.bank}
    /\ p.addr = a.word
    /\ \A h \in board : h \in Wide => p.data[h] = d

Written(a, d) == Wide = board => mem[a] = [h \in board |-> d]

(* Where a write is. *)
Writing3 == Quiet(cells) /\ Writes(name, call.at, todo, Across(call.datum))

Writing2 ==
    /\ todo = <<todo[1], todo[2]>>
    /\ Ready(cells, call.at, call.datum)
    /\ Strobes(name, call.at, todo[1], Across(call.datum))
    /\ Finishes(name, todo[2])
    /\ Quiets(todo[1], todo[2])

Writing1 ==
    /\ todo = <<todo[1]>>
    /\ Finishes(name, todo[1])
    /\ cells.we
    /\ ~cells.oe \/ Sets(todo[1], "oe", FALSE)
    /\ Written(call.at, call.datum)

(* What is under way. *)
UnderWay ==
    \/ /\ call.op = "read_start" /\ ~call.reads
       /\ addressed = Nowhere /\ call.then \in Reachable
       /\ Starts(name, call.then, todo, Across(Float))
    \/ /\ call.op = "read_next" /\ call.reads
       /\ addressed # Nowhere /\ call.then \in Reachable
       /\ addressed.bank = call.then.bank \/ name \in Crossing
       /\ GoesOn(name, call.then, todo, Across(Float))
    \/ /\ call.op = "read_end" /\ call.reads
       /\ addressed # Nowhere /\ call.then = Nowhere
       /\ Ends(name, todo)
    \/ /\ call.op = "write" /\ ~call.reads
       /\ addressed = Nowhere /\ call.then = Nowhere
       /\ call.at \in Reachable /\ call.datum \in Fresh
       /\ Writing3 \/ Writing2 \/ Writing1

Driven ==
    /\ pins = cells
    /\ Shape(cells)
    /\ addressed \in Reachable \cup {Nowhere}
    /\ addressed # Nowhere => Reads(cells, addressed)
    /\ addressed = Nowhere /\ call.op # "write" => Quiet(cells)
    /\ IF call = Idle THEN todo = << >>
       ELSE call.width = Wide /\ UnderWay

BusInv ==
    /\ name \in Names /\ board \in Boards
    /\ seen \in {board, Unseen} /\ (Captured => seen = board)
    /\ mem \in [Address -> [board -> Data]]
    /\ name \in Settled => Driven

-----------------------------------------------------------------------------
(* PROOFS: the access functions have these shapes.                           *)

(* What does not set a chip select keeps them all. *)
LEMMA KeepIsEmpty == DOMAIN Keep = {}
BY DEF Keep

(* What the ways of releasing set. *)
LEMMA Released ==
    ASSUME 0 \in Banks, NEW r \in {Keep, AllReleased, FirstReleased}
    PROVE  DOMAIN r \subseteq Banks /\ \A c \in DOMAIN r : r[c] = FALSE
<1>1. CASE r = Keep
  BY <1>1, KeepIsEmpty
<1>2. CASE r = AllReleased
  BY <1>2 DEF AllReleased
<1>3. CASE r = FirstReleased
  BY <1>3 DEF FirstReleased
<1> QED
  BY <1>1, <1>2, <1>3

(* What the ways of selecting a bank set. *)
LEMMA Asserted ==
    ASSUME NEW b \in Banks, NEW s, s = OneOf(b) \/ s = Only(b)
    PROVE  DOMAIN s \subseteq Banks /\ \A c \in DOMAIN s : s[c] = (c = b)
<1>1. CASE s = OneOf(b)
  BY <1>1 DEF OneOf
<1>2. CASE s = Only(b)
  BY <1>2 DEF Only
<1> QED
  BY <1>1, <1>2

(* The one bank used with a driver that sets one chip select. *)
LEMMA HomeReached ==
    ASSUME BusAssumption, Addressable, NEW n \in Names \cap OneSelect, NEW b \in Reach[n]
    PROVE  b = Home(n)
<1>1. CASE n = "pxa2x0"
  <2>1. \E x \in Banks : Reach[n] \subseteq {x}
    BY <1>1 DEF Addressable
  <2>2. Reach[n] \subseteq {CHOOSE x \in Banks : Reach[n] \subseteq {x}}
    BY <2>1
  <2> QED
    BY <1>1, <2>2 DEF Home
<1>2. CASE n # "pxa2x0"
  <2>1. n \notin AllSelects \cup Muxed
    BY DEF OneSelect, AllSelects, Muxed
  <2> QED
    BY <1>2, <2>1 DEF Addressable, Home
<1> QED
  BY <1>1, <1>2

(* Access functions that are those of Plain, a bank being selected as S says. *)
IsPlain(D, S, r, w) ==
    /\ \A a \in Address :
        /\ D.start[a] = <<Out(S[a.bank], Reading(a))>>
        /\ D.next[a] = <<In(Keep, [addr |-> a.word])>>
        /\ D.write[a] = <<Out(S[a.bank], Writing(a)), Out(Keep, [we |-> TRUE]),
                          Out(w, [we |-> FALSE])>>
    /\ D.end = <<In(r, [oe |-> FALSE])>>

(* A driver selects as S says. *)
SelectsBy(n, S) ==
    \A b \in Reach[n] : S[b] = OneOf(b) \/ (n \in OneSelect /\ S[b] = Only(b))

(* A shift that releases, or that selects a bank a driver is used with. *)
LEMMA ReleaseHomely ==
    ASSUME BusAssumption, NEW n \in Names, NEW r \in {Keep, AllReleased, FirstReleased},
           NEW s, s.sel = r, DOMAIN s = Fields, DOMAIN s.lines \subseteq LineNames
    PROVE  Homely(n, s)
BY Released DEF Homely, BusAssumption

LEMMA SelectHomely ==
    ASSUME BusAssumption, Addressable, NEW n \in Names, NEW b \in Reach[n],
           NEW s, DOMAIN s = Fields, DOMAIN s.lines \subseteq LineNames,
           s.sel = OneOf(b) \/ (n \in OneSelect /\ s.sel = Only(b))
    PROVE  Homely(n, s) /\ Picks(n, s, b)
<1>1. b \in Banks
  BY DEF BusAssumption
<1>2. DOMAIN s.sel \subseteq Banks /\ \A c \in DOMAIN s.sel : s.sel[c] = (c = b)
  BY <1>1, Asserted
<1>3. n \in OneSelect => b = Home(n)
  BY HomeReached
<1>4. Homely(n, s)
  BY <1>2, <1>3 DEF Homely
<1>5. Picks(n, s, b)
  BY <1>3 DEF Picks
<1> QED
  BY <1>4, <1>5

(* What Plain's read functions are. *)
LEMMA PlainStarts ==
    ASSUME BusAssumption, Addressable, NEW n \in Names, NEW a \in Address, a.bank \in Reach[n],
           NEW sel, sel = OneOf(a.bank) \/ (n \in OneSelect /\ sel = Only(a.bank))
    PROVE  Starts(n, a, <<Out(sel, Reading(a))>>, Float)
<1> DEFINE s == Out(sel, Reading(a))
<1>1. /\ s.sel = sel /\ ~s.capture /\ DOMAIN s = Fields /\ DOMAIN s.lines \subseteq LineNames
      /\ Sets(s, "oe", TRUE) /\ Sets(s, "we", FALSE) /\ Sets(s, "addr", a.word)
      /\ Sets(s, "data", Float)
  BY DEF Out, Fields, Reading, LineNames, Sets
<1>2. <<s>>[1] = s
  OBVIOUS
<1> HIDE DEF s
<1>3. Homely(n, s) /\ Picks(n, s, a.bank)
  BY <1>1, SelectHomely
<1> QED
  BY <1>1, <1>2, <1>3 DEF Starts, s

LEMMA PlainGoesOn ==
    ASSUME BusAssumption, NEW n \in Names, NEW a \in Address, n # "slsup3"
    PROVE  GoesOn(n, a, <<In(Keep, [addr |-> a.word])>>, Float)
<1> DEFINE s == In(Keep, [addr |-> a.word])
<1>1. /\ s.sel = Keep /\ s.capture /\ DOMAIN s = Fields /\ DOMAIN s.lines \subseteq LineNames
      /\ Leaves(s, "oe") /\ Leaves(s, "we") /\ Sets(s, "addr", a.word) /\ Leaves(s, "data")
  BY DEF In, Fields, LineNames, Sets, Leaves
<1>2. <<s>>[1] = s
  OBVIOUS
<1> HIDE DEF s
<1>3. Homely(n, s) /\ Stays(s)
  BY <1>1, ReleaseHomely, KeepIsEmpty DEF Stays
<1> QED
  BY <1>1, <1>2, <1>3 DEF GoesOn, s

LEMMA PlainEnds ==
    ASSUME BusAssumption, NEW n \in Names, NEW r \in {Keep, AllReleased, FirstReleased}
    PROVE  Ends(n, <<In(r, [oe |-> FALSE])>>)
<1> DEFINE s == In(r, [oe |-> FALSE])
<1>1. /\ s.sel = r /\ s.capture /\ DOMAIN s = Fields /\ DOMAIN s.lines \subseteq LineNames
      /\ Sets(s, "oe", FALSE) /\ Leaves(s, "we") /\ Leaves(s, "data")
  BY DEF In, Fields, LineNames, Sets, Leaves
<1>2. <<s>>[1] = s
  OBVIOUS
<1> HIDE DEF s
<1>3. Homely(n, s)
  BY <1>1, ReleaseHomely
<1> QED
  BY <1>1, <1>2, <1>3 DEF Ends, s

(* What the shifts of Plain's write function are. *)
LEMMA PlainPrepares ==
    ASSUME BusAssumption, Addressable, NEW n \in Names, NEW a \in Address, a.bank \in Reach[n],
           NEW sel, sel = OneOf(a.bank) \/ (n \in OneSelect /\ sel = Only(a.bank)),
           NEW lines, lines = Writing(a) \/ lines = [oe |-> FALSE, addr |-> a.word, data |-> Given]
    PROVE  Prepares(n, a, Out(sel, lines), Given)
<1> DEFINE s == Out(sel, lines)
<1>1. /\ s.sel = sel /\ ~s.capture /\ DOMAIN s = Fields /\ DOMAIN s.lines \subseteq LineNames
      /\ Sets(s, "oe", FALSE) /\ (Leaves(s, "we") \/ Sets(s, "we", FALSE))
      /\ Sets(s, "addr", a.word) /\ Sets(s, "data", Given)
  BY DEF Out, Fields, Writing, LineNames, Sets, Leaves
<1> HIDE DEF s
<1>2. Homely(n, s) /\ Picks(n, s, a.bank)
  BY <1>1, SelectHomely
<1> QED
  BY <1>1, <1>2 DEF Prepares, s

LEMMA PlainStrobes ==
    ASSUME BusAssumption, NEW n \in Names, NEW a \in Address
    PROVE  Strobes(n, a, Out(Keep, [we |-> TRUE]), Given) /\ Leaves(Out(Keep, [we |-> TRUE]), "oe")
<1> DEFINE s == Out(Keep, [we |-> TRUE])
<1>1. /\ s.sel = Keep /\ ~s.capture /\ DOMAIN s = Fields /\ DOMAIN s.lines \subseteq LineNames
      /\ Leaves(s, "oe") /\ Sets(s, "we", TRUE) /\ Leaves(s, "addr") /\ Leaves(s, "data")
  BY DEF Out, Fields, LineNames, Sets, Leaves
<1> HIDE DEF s
<1>2. Homely(n, s) /\ Stays(s)
  BY <1>1, ReleaseHomely, KeepIsEmpty DEF Stays
<1> QED
  BY <1>1, <1>2 DEF Strobes, s

LEMMA PlainFinishes ==
    ASSUME BusAssumption, NEW n \in Names, NEW r \in {Keep, AllReleased, FirstReleased},
           NEW lines, lines = [we |-> FALSE] \/ lines = [oe |-> FALSE, we |-> FALSE]
    PROVE  /\ Finishes(n, Out(r, lines))
           /\ lines = [oe |-> FALSE, we |-> FALSE] => Sets(Out(r, lines), "oe", FALSE)
<1> DEFINE s == Out(r, lines)
<1>1. /\ s.sel = r /\ ~s.capture /\ DOMAIN s = Fields /\ DOMAIN s.lines \subseteq LineNames
      /\ (Leaves(s, "oe") \/ Sets(s, "oe", FALSE)) /\ Sets(s, "we", FALSE) /\ Leaves(s, "data")
      /\ lines = [oe |-> FALSE, we |-> FALSE] => Sets(s, "oe", FALSE)
  BY DEF Out, Fields, LineNames, Sets, Leaves
<1> HIDE DEF s
<1>2. Homely(n, s)
  BY <1>1, ReleaseHomely
<1> QED
  BY <1>1, <1>2 DEF Finishes, s

(* Three shifts that write. *)
LEMMA ThreeWrite ==
    ASSUME NEW n, NEW a, NEW s, NEW t, NEW u, NEW datum,
           Prepares(n, a, s, datum), Strobes(n, a, t, datum), Finishes(n, u), Quiets(t, u)
    PROVE  Writes(n, a, <<s, t, u>>, datum)
<1>1. <<s, t, u>>[1] = s /\ <<s, t, u>>[2] = t /\ <<s, t, u>>[3] = u
  OBVIOUS
<1> QED
  BY <1>1 DEF Writes

LEMMA PlainWrites ==
    ASSUME BusAssumption, Addressable, NEW n \in Names, NEW a \in Address, a.bank \in Reach[n],
           NEW sel, sel = OneOf(a.bank) \/ (n \in OneSelect /\ sel = Only(a.bank)),
           NEW lines, lines = Writing(a) \/ lines = [oe |-> FALSE, addr |-> a.word, data |-> Given],
           NEW r \in {Keep, AllReleased, FirstReleased}
    PROVE  Writes(n, a, <<Out(sel, lines), Out(Keep, [we |-> TRUE]), Out(r, [we |-> FALSE])>>, Given)
<1>1. Prepares(n, a, Out(sel, lines), Given)
  BY PlainPrepares
<1>2. Strobes(n, a, Out(Keep, [we |-> TRUE]), Given) /\ Leaves(Out(Keep, [we |-> TRUE]), "oe")
  BY PlainStrobes
<1>3. Finishes(n, Out(r, [we |-> FALSE]))
  BY PlainFinishes
<1>4. Quiets(Out(Keep, [we |-> TRUE]), Out(r, [we |-> FALSE]))
  BY <1>2 DEF Quiets
<1> QED
  BY <1>1, <1>2, <1>3, <1>4, ThreeWrite

LEMMA PlainFits ==
    ASSUME BusAssumption, Addressable, NEW n \in Names, n # "slsup3",
           NEW D, NEW S, NEW r \in {Keep, AllReleased, FirstReleased},
           NEW w \in {Keep, AllReleased, FirstReleased}, IsPlain(D, S, r, w), SelectsBy(n, S)
    PROVE  Fits(n, D)
<1>1. ASSUME NEW a \in Address, a.bank \in Reach[n]
      PROVE  Starts(n, a, D.start[a], Float) /\ GoesOn(n, a, D.next[a], Float)
             /\ Writes(n, a, D.write[a], Given)
  <2>1. S[a.bank] = OneOf(a.bank) \/ (n \in OneSelect /\ S[a.bank] = Only(a.bank))
    BY <1>1 DEF SelectsBy
  <2>2. Starts(n, a, D.start[a], Float)
    BY <1>1, <2>1, PlainStarts DEF IsPlain
  <2>3. GoesOn(n, a, D.next[a], Float)
    BY <1>1, PlainGoesOn DEF IsPlain
  <2>4. Writes(n, a, D.write[a], Given)
    BY <1>1, <2>1, PlainWrites DEF IsPlain
  <2> QED
    BY <2>2, <2>3, <2>4
<1>2. Ends(n, D.end)
  BY PlainEnds DEF IsPlain
<1> QED
  BY <1>1, <1>2 DEF Fits

(* Where only the first bank is used. *)
LEMMA OneBank ==
    ASSUME BusAssumption, Addressable, NEW n \in Names,
           n \notin AllSelects \cup Muxed \cup {"pxa2x0"}, NEW b \in Reach[n]
    PROVE  b = 0 /\ b \in Banks
BY DEF Addressable, BusAssumption

(* The ways of selecting it are the same then. *)
LEMMA SelectsZero ==
    /\ Boot(0) = OneOf(0)
    /\ Single(0) = Only(0)
    /\ SingleOf(0) = Only(0)
<1>1. SingleOf(0) = Only(0)
  BY DEF SingleOf, Only
<1> QED
  BY <1>1 DEF Boot, Single, Only

(* Drivers with one chip select, for the first bank. *)
LEMMA SingleSelects ==
    ASSUME BusAssumption, Addressable, NEW n \in Names \cap OneSelect, n # "pxa2x0"
    PROVE  SelectsBy(n, [b \in Banks |-> Single(b)]) /\ SelectsBy(n, [b \in Banks |-> SingleOf(b)])
<1>1. n \notin AllSelects \cup Muxed \cup {"pxa2x0"}
  BY DEF OneSelect, AllSelects, Muxed
<1>2. \A b \in Reach[n] : b = 0 /\ b \in Banks
  BY <1>1, OneBank
<1> QED
  BY <1>2, SelectsZero DEF SelectsBy

(* Drivers that always select the first bank. *)
LEMMA BootSelects ==
    ASSUME BusAssumption, Addressable, NEW n \in Names,
           n \notin AllSelects \cup Muxed \cup {"pxa2x0"}
    PROVE  SelectsBy(n, [b \in Banks |-> Boot(b)])
<1>1. \A b \in Reach[n] : b = 0 /\ b \in Banks
  BY OneBank
<1> QED
  BY <1>1, SelectsZero DEF SelectsBy

(* Drivers that select any bank. *)
LEMMA BankSelects ==
    ASSUME BusAssumption, NEW n \in Names
    PROVE  /\ SelectsBy(n, [b \in Banks |-> OneOf(b)])
           /\ n \in OneSelect => SelectsBy(n, [b \in Banks |-> Only(b)])
<1>1. \A b \in Reach[n] : b \in Banks
  BY DEF BusAssumption
<1> QED
  BY <1>1 DEF SelectsBy

(* Plain is what it says. *)
LEMMA PlainIsPlain ==
    ASSUME NEW r, NEW w
    PROVE  /\ IsPlain(Plain(Single, r, w), [b \in Banks |-> Single(b)], r, w)
           /\ IsPlain(Plain(SingleOf, r, w), [b \in Banks |-> SingleOf(b)], r, w)
           /\ IsPlain(Plain(Boot, r, w), [b \in Banks |-> Boot(b)], r, w)
           /\ IsPlain(Plain(OneOf, r, w), [b \in Banks |-> OneOf(b)], r, w)
           /\ IsPlain(Plain(Only, r, w), [b \in Banks |-> Only(b)], r, w)
<1>1. IsPlain(Plain(Single, r, w), [b \in Banks |-> Single(b)], r, w)
  BY DEF IsPlain, Plain, Address
<1>2. IsPlain(Plain(SingleOf, r, w), [b \in Banks |-> SingleOf(b)], r, w)
  BY DEF IsPlain, Plain, Address
<1>3. IsPlain(Plain(Boot, r, w), [b \in Banks |-> Boot(b)], r, w)
  BY DEF IsPlain, Plain, Address
<1>4. IsPlain(Plain(OneOf, r, w), [b \in Banks |-> OneOf(b)], r, w)
  BY DEF IsPlain, Plain, Address
<1>5. IsPlain(Plain(Only, r, w), [b \in Banks |-> Only(b)], r, w)
  BY DEF IsPlain, Plain, Address
<1> QED
  BY <1>1, <1>2, <1>3, <1>4, <1>5

(* The drivers whose functions are Plain's, by how they select and release. *)
LEMMA PlainDrivers ==
    /\ \A n \in {"prototype", "ppc405ep", "ppc440gx_ebc8", "mpc8313", "mpc824x", "jopcyc", "zefant_xs3"} :
          Drivers[n] = Plain(Single, FirstReleased, FirstReleased)
    /\ Drivers["lh7a400"] = Plain(SingleOf, FirstReleased, FirstReleased)
    /\ Drivers["sharc_21065L"] = Plain(Single, FirstReleased, Keep)
    /\ Drivers["pxa2x0"] = Plain(Only, FirstReleased, Keep)
    /\ \A n \in {"bscoach", "au1500"} : Drivers[n] = Plain(Boot, AllReleased, AllReleased)
    /\ Drivers["mpc837x"] = Plain(Boot, AllReleased, Keep)
    /\ Drivers["bcm1250"] = Plain(Boot, FirstReleased, Keep)
    /\ Drivers["sa1110"] = Plain(OneOf, AllReleased, AllReleased)
    /\ \A n \in {"sh7727", "sh7750r", "sh7751r", "mpc5200"} :
          Drivers[n] = Plain(OneOf, AllReleased, Keep)
<1> DEFINE P == Plain(Single, FirstReleased, FirstReleased)
<1>1. Prototype = P /\ Ppc405ep = P /\ Ppc440gx = P /\ Mpc8313 = P /\ Mpc824x = P
      /\ Jopcyc = P /\ ZefantXs3 = P
  BY DEF Prototype, Ppc405ep, Ppc440gx, Mpc8313, Mpc824x, Jopcyc, ZefantXs3
<1> HIDE DEF P
<1>2. \A n \in {"prototype", "ppc405ep", "ppc440gx_ebc8", "mpc8313", "mpc824x", "jopcyc", "zefant_xs3"} :
          Drivers[n] = P
  BY <1>1 DEF Drivers
<1>3. Drivers["lh7a400"] = Lh7a400 /\ Drivers["sharc_21065L"] = Sharc21065l /\ Drivers["pxa2x0"] = Pxa2x0
  BY DEF Drivers
<1>4. Drivers["bscoach"] = Bscoach /\ Drivers["au1500"] = Au1500 /\ Drivers["mpc837x"] = Mpc837x
      /\ Drivers["bcm1250"] = Bcm1250 /\ Drivers["sa1110"] = Sa1110
  BY DEF Drivers
<1>5. Drivers["sh7727"] = Sh7727 /\ Drivers["sh7750r"] = Sh7750r /\ Drivers["sh7751r"] = Sh7751r
      /\ Drivers["mpc5200"] = Mpc5200
  BY DEF Drivers
<1>6. /\ Lh7a400 = Plain(SingleOf, FirstReleased, FirstReleased)
      /\ Sharc21065l = Plain(Single, FirstReleased, Keep)
      /\ Pxa2x0 = Plain(Only, FirstReleased, Keep)
  BY DEF Lh7a400, Sharc21065l, Pxa2x0
<1>7. /\ Bscoach = Plain(Boot, AllReleased, AllReleased) /\ Au1500 = Plain(Boot, AllReleased, AllReleased)
      /\ Mpc837x = Plain(Boot, AllReleased, Keep) /\ Bcm1250 = Plain(Boot, FirstReleased, Keep)
      /\ Sa1110 = Plain(OneOf, AllReleased, AllReleased)
  BY DEF Bscoach, Au1500, Mpc837x, Bcm1250, Sa1110
<1>8. /\ Sh7727 = Plain(OneOf, AllReleased, Keep) /\ Sh7750r = Plain(OneOf, AllReleased, Keep)
      /\ Sh7751r = Plain(OneOf, AllReleased, Keep) /\ Mpc5200 = Plain(OneOf, AllReleased, Keep)
  BY DEF Sh7727, Sh7750r, Sh7751r, Mpc5200
<1> QED
  BY <1>2, <1>3, <1>4, <1>5, <1>6, <1>7, <1>8 DEF P

(* The other drivers. *)
LEMMA OtherDrivers ==
    /\ \A n \in {"ixp425", "ixp435", "ixp465", "tx4925"} : Drivers[n] = Expansion
    /\ Drivers["sharc_21369_ezkit"] = Sharc21369
    /\ Drivers["slsup3"] = Slsup3
    /\ Drivers["blackfin"] = Blackfin
    /\ Drivers["s3c4510x"] = S3c4510
<1>1. Drivers["ixp425"] = Ixp425 /\ Drivers["ixp435"] = Ixp435 /\ Drivers["ixp465"] = Ixp465
      /\ Drivers["tx4925"] = Tx4925
  BY DEF Drivers
<1>2. Ixp425 = Expansion /\ Ixp435 = Expansion /\ Ixp465 = Expansion /\ Tx4925 = Expansion
  BY DEF Ixp425, Ixp435, Ixp465, Tx4925
<1>3. Drivers["sharc_21369_ezkit"] = Sharc21369 /\ Drivers["slsup3"] = Slsup3
      /\ Drivers["blackfin"] = Blackfin /\ Drivers["s3c4510x"] = S3c4510
  BY DEF Drivers
<1> QED
  BY <1>1, <1>2, <1>3

LEMMA PlainDriversFit ==
    ASSUME BusAssumption, Addressable, NEW n \in Names,
           n \in {"prototype", "ppc405ep", "ppc440gx_ebc8", "mpc8313", "mpc824x", "jopcyc", "zefant_xs3",
                  "lh7a400", "sharc_21065L", "pxa2x0", "bscoach", "au1500", "mpc837x", "bcm1250",
                  "sa1110", "sh7727", "sh7750r", "sh7751r", "mpc5200"}
    PROVE  Fits(n, Drivers[n])
<1> DEFINE Rel == {Keep, AllReleased, FirstReleased}
<1>0. n # "slsup3"
  OBVIOUS
<1>1. ASSUME NEW S, NEW r \in Rel, NEW w \in Rel, IsPlain(Drivers[n], S, r, w), SelectsBy(n, S)
      PROVE  Fits(n, Drivers[n])
  BY <1>0, <1>1, PlainFits
<1>2. CASE n \in {"prototype", "ppc405ep", "ppc440gx_ebc8", "mpc8313", "mpc824x", "jopcyc", "zefant_xs3"}
  <2>1. n \in OneSelect /\ n # "pxa2x0"
    BY <1>2 DEF OneSelect
  <2>2. SelectsBy(n, [b \in Banks |-> Single(b)])
    BY <2>1, SingleSelects
  <2>3. IsPlain(Drivers[n], [b \in Banks |-> Single(b)], FirstReleased, FirstReleased)
    BY <1>2, PlainDrivers, PlainIsPlain
  <2> QED
    BY <1>1, <2>2, <2>3
<1>3. CASE n = "lh7a400"
  <2>1. n \in OneSelect /\ n # "pxa2x0"
    BY <1>3 DEF OneSelect
  <2>2. SelectsBy(n, [b \in Banks |-> SingleOf(b)])
    BY <2>1, SingleSelects
  <2>3. IsPlain(Drivers[n], [b \in Banks |-> SingleOf(b)], FirstReleased, FirstReleased)
    BY <1>3, PlainDrivers, PlainIsPlain
  <2> QED
    BY <1>1, <2>2, <2>3
<1>4. CASE n = "sharc_21065L"
  <2>1. n \in OneSelect /\ n # "pxa2x0"
    BY <1>4 DEF OneSelect
  <2>2. SelectsBy(n, [b \in Banks |-> Single(b)])
    BY <2>1, SingleSelects
  <2>3. IsPlain(Drivers[n], [b \in Banks |-> Single(b)], FirstReleased, Keep)
    BY <1>4, PlainDrivers, PlainIsPlain
  <2> QED
    BY <1>1, <2>2, <2>3
<1>5. CASE n = "pxa2x0"
  <2>1. SelectsBy(n, [b \in Banks |-> Only(b)])
    BY <1>5, BankSelects DEF OneSelect
  <2>2. IsPlain(Drivers[n], [b \in Banks |-> Only(b)], FirstReleased, Keep)
    BY <1>5, PlainDrivers, PlainIsPlain
  <2> QED
    BY <1>1, <2>1, <2>2
<1>6. CASE n \in {"bscoach", "au1500", "mpc837x", "bcm1250"}
  <2>1. n \notin AllSelects \cup Muxed \cup {"pxa2x0"}
    BY <1>6 DEF AllSelects, Muxed
  <2>2. SelectsBy(n, [b \in Banks |-> Boot(b)])
    BY <2>1, BootSelects
  <2>3. \E r \in Rel, w \in Rel : IsPlain(Drivers[n], [b \in Banks |-> Boot(b)], r, w)
    BY <1>6, PlainDrivers, PlainIsPlain
  <2> QED
    BY <1>1, <2>2, <2>3
<1>7. CASE n \in {"sa1110", "sh7727", "sh7750r", "sh7751r", "mpc5200"}
  <2>1. SelectsBy(n, [b \in Banks |-> OneOf(b)])
    BY BankSelects
  <2>2. \E r \in Rel, w \in Rel : IsPlain(Drivers[n], [b \in Banks |-> OneOf(b)], r, w)
    BY <1>7, PlainDrivers, PlainIsPlain
  <2> QED
    BY <1>1, <2>1, <2>2
<1> QED
  BY <1>2, <1>3, <1>4, <1>5, <1>6, <1>7

(* A read that selects the bank as well. *)
LEMMA PicksGoesOn ==
    ASSUME BusAssumption, Addressable, NEW n \in Names, NEW a \in Address, a.bank \in Reach[n],
           NEW sel, sel = OneOf(a.bank) \/ (n \in OneSelect /\ sel = Only(a.bank)),
           NEW lines, lines = [addr |-> a.word] \/ lines = Reading(a)
    PROVE  GoesOn(n, a, <<In(sel, lines)>>, Float)
<1> DEFINE s == In(sel, lines)
<1>1. /\ s.sel = sel /\ s.capture /\ DOMAIN s = Fields /\ DOMAIN s.lines \subseteq LineNames
      /\ (Leaves(s, "oe") \/ Sets(s, "oe", TRUE)) /\ (Leaves(s, "we") \/ Sets(s, "we", FALSE))
      /\ Sets(s, "addr", a.word) /\ (Leaves(s, "data") \/ Sets(s, "data", Float))
  BY DEF In, Fields, Reading, LineNames, Sets, Leaves
<1>2. <<s>>[1] = s
  OBVIOUS
<1> HIDE DEF s
<1>3. Homely(n, s) /\ Picks(n, s, a.bank)
  BY <1>1, SelectHomely
<1> QED
  BY <1>1, <1>2, <1>3 DEF GoesOn, s

LEMMA ExpansionFits ==
    ASSUME BusAssumption, Addressable, NEW n \in Names,
           n \in {"ixp425", "ixp435", "ixp465", "tx4925"}
    PROVE  Fits(n, Drivers[n])
<1>1. Drivers[n] = Expansion
  BY OtherDrivers
<1>2. n \notin AllSelects \cup Muxed \cup {"pxa2x0"} /\ n # "slsup3"
  BY DEF AllSelects, Muxed
<1>3. ASSUME NEW a \in Address, a.bank \in Reach[n]
      PROVE  /\ Starts(n, a, Expansion.start[a], Float)
             /\ GoesOn(n, a, Expansion.next[a], Float)
             /\ Writes(n, a, Expansion.write[a], Given)
  <2>1. Boot(a.bank) = OneOf(a.bank)
    BY <1>2, <1>3, OneBank, SelectsZero
  <2>2. /\ Expansion.start[a] = <<Out(Boot(a.bank), Reading(a))>>
        /\ Expansion.next[a] = <<In(Keep, [addr |-> a.word])>>
        /\ Expansion.write[a] = <<Out(Boot(a.bank), [oe |-> FALSE, addr |-> a.word, data |-> Given]),
                                  Out(Keep, [we |-> TRUE]), Out(AllReleased, [we |-> FALSE])>>
    BY DEF Expansion, Plain
  <2>3. Starts(n, a, Expansion.start[a], Float)
    BY <1>3, <2>1, <2>2, PlainStarts
  <2>4. GoesOn(n, a, Expansion.next[a], Float)
    BY <1>2, <2>2, PlainGoesOn
  <2>5. Writes(n, a, Expansion.write[a], Given)
    BY <1>3, <2>1, <2>2, PlainWrites
  <2> QED
    BY <2>3, <2>4, <2>5
<1>4. Expansion.end = <<In(AllReleased, [oe |-> FALSE])>>
  BY DEF Expansion, Plain
<1>5. Ends(n, Expansion.end)
  BY <1>4, PlainEnds
<1> QED
  BY <1>1, <1>3, <1>5 DEF Fits

LEMMA Slsup3Fits ==
    ASSUME BusAssumption, Addressable, "slsup3" \in Names
    PROVE  Fits("slsup3", Drivers["slsup3"])
<1> DEFINE n == "slsup3"
<1>1. ASSUME NEW a \in Address, a.bank \in Reach[n]
      PROVE  /\ Starts(n, a, Slsup3.start[a], Float)
             /\ GoesOn(n, a, Slsup3.next[a], Float)
             /\ Writes(n, a, Slsup3.write[a], Given)
  <2>1. /\ Slsup3.start[a] = <<Out(OneOf(a.bank), Reading(a))>>
        /\ Slsup3.next[a] = <<In(OneOf(a.bank), [addr |-> a.word])>>
        /\ Slsup3.write[a] = <<Out(OneOf(a.bank), Writing(a)), Out(Keep, [we |-> TRUE]),
                               Out(Keep, [we |-> FALSE])>>
    BY DEF Slsup3, Plain
  <2>2. Starts(n, a, Slsup3.start[a], Float)
    BY <1>1, <2>1, PlainStarts
  <2>3. GoesOn(n, a, Slsup3.next[a], Float)
    BY <1>1, <2>1, PicksGoesOn
  <2>4. Writes(n, a, Slsup3.write[a], Given)
    BY <1>1, <2>1, PlainWrites
  <2> QED
    BY <2>2, <2>3, <2>4
<1>2. Slsup3.end = <<In(Keep, [oe |-> FALSE])>>
  BY DEF Slsup3, Plain
<1>3. Ends(n, Slsup3.end)
  BY <1>2, PlainEnds
<1> QED
  BY <1>1, <1>3, OtherDrivers DEF Fits

LEMMA SharcFits ==
    ASSUME BusAssumption, Addressable, "sharc_21369_ezkit" \in Names
    PROVE  Fits("sharc_21369_ezkit", Drivers["sharc_21369_ezkit"])
<1> DEFINE n == "sharc_21369_ezkit"
<1>1. n \in OneSelect /\ n # "slsup3" /\ n \notin AllSelects \cup Muxed \cup {"pxa2x0"}
  BY DEF OneSelect, AllSelects, Muxed
<1>2. ASSUME NEW a \in Address, a.bank \in Reach[n]
      PROVE  /\ Starts(n, a, Sharc21369.start[a], Float)
             /\ GoesOn(n, a, Sharc21369.next[a], Float)
             /\ Writes(n, a, Sharc21369.write[a], Given)
  <2>1. SingleOf(a.bank) = Only(a.bank)
    BY <1>1, <1>2, OneBank, SelectsZero
  <2>2. /\ Sharc21369.start[a] = <<Out(SingleOf(a.bank), Reading(a))>>
        /\ Sharc21369.next[a] = <<In(SingleOf(a.bank), [addr |-> a.word])>>
        /\ Sharc21369.write[a] = <<Out(SingleOf(a.bank), Writing(a)), Out(Keep, [we |-> TRUE]),
                                   Out(Keep, [we |-> FALSE])>>
    BY DEF Sharc21369, Plain
  <2>3. Starts(n, a, Sharc21369.start[a], Float)
    BY <1>1, <1>2, <2>1, <2>2, PlainStarts
  <2>4. GoesOn(n, a, Sharc21369.next[a], Float)
    BY <1>1, <1>2, <2>1, <2>2, PicksGoesOn
  <2>5. Writes(n, a, Sharc21369.write[a], Given)
    <3>1. n \in OneSelect /\ Keep \in {Keep, AllReleased, FirstReleased}
      BY <1>1
    <3>2. Writes(n, a, <<Out(Only(a.bank), Writing(a)), Out(Keep, [we |-> TRUE]),
                         Out(Keep, [we |-> FALSE])>>, Given)
      BY <1>2, <3>1, PlainWrites
    <3> QED
      BY <2>1, <2>2, <3>2
  <2> QED
    BY <2>3, <2>4, <2>5
<1>3. Ends(n, Sharc21369.end)
  <2> DEFINE s == In(Single(0), [oe |-> FALSE])
  <2>1. Sharc21369.end = <<s>>
    BY DEF Sharc21369, Plain
  <2>2. /\ s.sel = Only(0) /\ s.capture /\ DOMAIN s = Fields /\ DOMAIN s.lines \subseteq LineNames
        /\ Sets(s, "oe", FALSE) /\ Leaves(s, "we") /\ Leaves(s, "data")
    BY SelectsZero DEF In, Fields, LineNames, Sets, Leaves
  <2>3. <<s>>[1] = s
    OBVIOUS
  <2> HIDE DEF s
  <2>4. Home(n) = 0 /\ 0 \in Banks
    BY DEF Home, BusAssumption
  <2>5. DOMAIN Only(0) \subseteq Banks /\ \A c \in DOMAIN Only(0) : Only(0)[c] = (c = 0)
    BY <2>4, Asserted
  <2>6. Homely(n, s)
    BY <2>2, <2>4, <2>5 DEF Homely
  <2> QED
    BY <2>1, <2>2, <2>3, <2>6 DEF Ends
<1> QED
  BY <1>2, <1>3, OtherDrivers DEF Fits

LEMMA BlackfinFits ==
    ASSUME BusAssumption, Addressable, "blackfin" \in Names
    PROVE  Fits("blackfin", Drivers["blackfin"])
<1> DEFINE n == "blackfin"
<1>1. ASSUME NEW a \in Address, a.bank \in Reach[n]
      PROVE  /\ Starts(n, a, Blackfin.start[a], Float)
             /\ GoesOn(n, a, Blackfin.next[a], Float)
             /\ Writes(n, a, Blackfin.write[a], Given)
  <2> DEFINE t == Out(Keep, [we |-> TRUE, oe |-> TRUE])
             u == Out(AllReleased, [we |-> FALSE, oe |-> FALSE])
  <2>1. /\ Blackfin.start[a] = <<Out(OneOf(a.bank), Reading(a))>>
        /\ Blackfin.next[a] = <<In(Keep, [addr |-> a.word])>>
        /\ Blackfin.write[a] = <<Out(OneOf(a.bank), Writing(a)), t, u>>
    BY DEF Blackfin, Plain
  <2>2. Starts(n, a, Blackfin.start[a], Float)
    BY <1>1, <2>1, PlainStarts
  <2>3. GoesOn(n, a, Blackfin.next[a], Float)
    BY <1>1, <2>1, PlainGoesOn
  <2>4. Prepares(n, a, Out(OneOf(a.bank), Writing(a)), Given)
    BY <1>1, PlainPrepares
  <2>5. Strobes(n, a, t, Given)
    <3>1. /\ t.sel = Keep /\ ~t.capture /\ DOMAIN t = Fields /\ DOMAIN t.lines \subseteq LineNames
          /\ Sets(t, "we", TRUE) /\ Leaves(t, "addr") /\ Leaves(t, "data")
      BY DEF Out, Fields, LineNames, Sets, Leaves
    <3> HIDE DEF t
    <3>2. Homely(n, t) /\ Stays(t)
      BY <3>1, ReleaseHomely, KeepIsEmpty DEF Stays
    <3> QED
      BY <3>1, <3>2 DEF Strobes
  <2>6. Finishes(n, u) /\ Sets(u, "oe", FALSE) /\ Sets(t, "oe", TRUE)
    <3>0. Sets(t, "oe", TRUE)
      BY DEF Out, Sets
    <3>1. [we |-> FALSE, oe |-> FALSE] = [oe |-> FALSE, we |-> FALSE]
      OBVIOUS
    <3> QED
      BY <3>0, <3>1, PlainFinishes
  <2>7. Writes(n, a, Blackfin.write[a], Given)
    BY <2>1, <2>4, <2>5, <2>6, ThreeWrite DEF Quiets
  <2> QED
    BY <2>2, <2>3, <2>7
<1>2. Blackfin.end = <<In(AllReleased, [oe |-> FALSE])>>
  BY DEF Blackfin, Plain
<1>3. Ends(n, Blackfin.end)
  BY <1>2, PlainEnds
<1> QED
  BY <1>1, <1>3, OtherDrivers DEF Fits

LEMMA S3c4510Fits ==
    ASSUME BusAssumption, Addressable, "s3c4510x" \in Names
    PROVE  Fits("s3c4510x", Drivers["s3c4510x"])
<1> DEFINE n == "s3c4510x"
<1>1. n \notin AllSelects \cup Muxed \cup {"pxa2x0"}
  BY DEF AllSelects, Muxed
<1>2. ASSUME NEW a \in Address, a.bank \in Reach[n]
      PROVE  /\ Starts(n, a, S3c4510.start[a], Float)
             /\ GoesOn(n, a, S3c4510.next[a], Float)
             /\ Writes(n, a, S3c4510.write[a], Given)
  <2> DEFINE t == Out(Boot(0), [Writing(a) EXCEPT !.we = TRUE])
             u == Out(AllReleased, [oe |-> FALSE, we |-> FALSE])
  <2>1. a.bank = 0 /\ Boot(0) = OneOf(a.bank) /\ Boot(a.bank) = OneOf(a.bank)
    BY <1>1, <1>2, OneBank, SelectsZero
  <2>2. /\ S3c4510.start[a] = <<Out(Boot(a.bank), Reading(a))>>
        /\ S3c4510.next[a] = <<In(Boot(0), Reading(a))>>
        /\ S3c4510.write[a] = <<Out(Boot(0), Writing(a)), t, u>>
    BY DEF S3c4510, Plain
  <2>3. Starts(n, a, S3c4510.start[a], Float)
    BY <1>2, <2>1, <2>2, PlainStarts
  <2>4. GoesOn(n, a, S3c4510.next[a], Float)
    BY <1>2, <2>1, <2>2, PicksGoesOn
  <2>5. Prepares(n, a, Out(Boot(0), Writing(a)), Given)
    BY <1>2, <2>1, PlainPrepares
  <2>6. Strobes(n, a, t, Given) /\ Sets(t, "oe", FALSE)
    <3>1. /\ t.sel = OneOf(a.bank) /\ ~t.capture /\ DOMAIN t = Fields /\ DOMAIN t.lines \subseteq LineNames
          /\ Sets(t, "we", TRUE) /\ Sets(t, "oe", FALSE) /\ Sets(t, "addr", a.word)
          /\ Sets(t, "data", Given)
      BY <2>1 DEF Out, Fields, Writing, LineNames, Sets
    <3> HIDE DEF t
    <3>2. Homely(n, t) /\ Picks(n, t, a.bank)
      BY <1>2, <3>1, SelectHomely
    <3> QED
      BY <3>1, <3>2 DEF Strobes
  <2>7. Finishes(n, u)
    BY PlainFinishes
  <2>8. Writes(n, a, S3c4510.write[a], Given)
    BY <2>2, <2>5, <2>6, <2>7, ThreeWrite DEF Quiets
  <2> QED
    BY <2>3, <2>4, <2>8
<1>3. S3c4510.end = <<In(AllReleased, [oe |-> FALSE])>>
  BY DEF S3c4510, Plain
<1>4. Ends(n, S3c4510.end)
  BY <1>3, PlainEnds
<1> QED
  BY <1>2, <1>4, OtherDrivers DEF Fits

(* All of them. *)
LEMMA DriversFit ==
    ASSUME BusAssumption, Addressable, NEW n \in Settled
    PROVE  Fits(n, Drivers[n])
<1>1. n \in Names /\ n \in DOMAIN Drivers \ (Muxed \cup {"h7202"})
  BY DEF Settled, BusAssumption
<1>2. n \in {"prototype", "ppc405ep", "ppc440gx_ebc8", "mpc8313", "mpc824x", "jopcyc", "zefant_xs3",
             "lh7a400", "sharc_21065L", "pxa2x0", "bscoach", "au1500", "mpc837x", "bcm1250",
             "sa1110", "sh7727", "sh7750r", "sh7751r", "mpc5200"}
      \/ n \in {"ixp425", "ixp435", "ixp465", "tx4925"}
      \/ n \in {"slsup3", "sharc_21369_ezkit", "blackfin", "s3c4510x"}
  BY <1>1 DEF Drivers, Muxed
<1> QED
  BY <1>1, <1>2, PlainDriversFit, ExpansionFits, Slsup3Fits, SharcFits, BlackfinFits, S3c4510Fits

-----------------------------------------------------------------------------
(* What a shift puts on the pins.                                            *)

(* The width a driver finds is one of the board's lines, and covers those of *)
(* them that are used once strapping pins have been captured.                *)
LEMMA WideLines ==
    ASSUME BusAssumption, BusInv
    PROVE  Wide \subseteq Lines /\ board \subseteq Lines /\ (seen = board => Wide = board)
<1>1. board \subseteq Lines
  BY DEF BusAssumption, BusInv
<1>2. board # Unseen
  BY <1>1 DEF Lines, Unseen
<1>3. name \in Strapped => UnseenWidth(name) \subseteq Lines
  BY DEF UnseenWidth, Strapped, Lines
<1>4. seen = board => Wide = board
  BY <1>2 DEF Wide, Width
<1> QED
  BY <1>1, <1>3, <1>4 DEF Wide, Width

(* A shift of one of the drivers. *)
Moves(s) ==
    /\ Homely(name, s)
    /\ \A l \in {"oe", "we"} : Leaves(s, l) \/ Sets(s, l, TRUE) \/ Sets(s, l, FALSE)
    /\ Leaves(s, "data") \/ \E d : Sets(s, "data", Across(d))

(* The lines it sets change, the others do not. *)
LEMMA SetIs ==
    ASSUME BusAssumption, BusInv, Shape(cells), NEW s, Moves(s)
    PROVE  /\ Shape(Set(s))
           /\ \A l \in {"oe", "we", "addr"} :
                 Set(s)[l] = IF Leaves(s, l) THEN cells[l] ELSE s.lines[l]
           /\ \A c \in Banks : Set(s).sel[c] = IF c \in DOMAIN s.sel THEN s.sel[c] ELSE cells.sel[c]
           /\ Leaves(s, "data") => Set(s).data = cells.data
           /\ \A d : Sets(s, "data", Across(d)) =>
                 \A h \in Lines : Set(s).data[h] = IF h \in Wide THEN d ELSE cells.data[h]
<1> DEFINE p == Set(s)
           over == Over(s.lines, cells)
           sel == Over(s.sel, cells.sel)
           data == IF "data" \in DOMAIN s.lines THEN Over(s.lines.data, cells.data) ELSE cells.data
<1>1. p = [over EXCEPT !.sel = sel, !.data = data]
  BY DEF Set
<1>2. DOMAIN over = LineNames \cup {"sel"}
  BY DEF Over, Shape, Moves, Homely
<1>3. \A l \in LineNames : over[l] = IF Leaves(s, l) THEN cells[l] ELSE s.lines[l]
  BY <1>2 DEF Over, Leaves
<1>4. DOMAIN p = LineNames \cup {"sel"}
  BY <1>1, <1>2
<1> HIDE DEF over
<1>5. p.sel = sel /\ p.data = data /\ \A l \in {"oe", "we", "addr"} : p[l] = over[l]
  <2> HIDE DEF sel, data
  <2>1. {"sel", "data", "oe", "we", "addr"} \subseteq DOMAIN over
    BY <1>2 DEF LineNames
  <2> QED
    BY <1>1, <2>1
<1>6. \A l \in {"oe", "we", "addr"} : p[l] = IF Leaves(s, l) THEN cells[l] ELSE s.lines[l]
  BY <1>3, <1>5 DEF LineNames
<1>7. DOMAIN sel = Banks /\ \A c \in Banks : sel[c] = IF c \in DOMAIN s.sel THEN s.sel[c] ELSE cells.sel[c]
  BY DEF Over, Shape, Moves, Homely
<1>8. \A c \in Banks : sel[c] \in BOOLEAN
  BY <1>7 DEF Shape, Moves, Homely
<1>9. sel = [c \in Banks |-> sel[c]]
  BY DEF Over, Shape, Moves, Homely
<1>10. p.sel \in [Banks -> BOOLEAN]
  <2> HIDE DEF sel, p
  <2> QED
    BY <1>5, <1>8, <1>9
<1>11. p.oe \in BOOLEAN /\ p.we \in BOOLEAN
  <2> HIDE DEF p
  <2> QED
    BY <1>6 DEF Shape, Moves, Sets, Leaves
<1>12. Leaves(s, "data") => p.data = cells.data
  <2> HIDE DEF p
  <2> QED
    BY <1>5 DEF Leaves
<1>13. ASSUME NEW d, Sets(s, "data", Across(d))
       PROVE  DOMAIN p.data = Lines /\ \A h \in Lines : p.data[h] = IF h \in Wide THEN d ELSE cells.data[h]
  <2>1. p.data = Over(Across(d), cells.data)
    <3> HIDE DEF p
    <3> QED
      BY <1>5, <1>13 DEF Sets
  <2>2. DOMAIN Across(d) = Wide /\ \A h \in Wide : Across(d)[h] = d
    BY DEF Across
  <2>3. DOMAIN cells.data = Lines
    BY DEF Shape
  <2> HIDE DEF p
  <2> QED
    BY <2>1, <2>2, <2>3, WideLines DEF Over
<1> HIDE DEF p, sel, data
<1>14. DOMAIN p.data = Lines
  BY <1>12, <1>13 DEF Moves, Shape
<1>15. name \in OneSelect => \A c \in Banks : p.sel[c] => c = Home(name)
  BY <1>5, <1>7 DEF Shape, Moves, Homely
<1>16. \A h \in board : p.data[h] # Float => h \in Wide
  BY <1>12, <1>13, WideLines DEF Moves, Shape
<1>17. Shape(p)
  BY <1>4, <1>10, <1>11, <1>14, <1>15, <1>16 DEF Shape
<1>18. \A c \in Banks : p.sel[c] = IF c \in DOMAIN s.sel THEN s.sel[c] ELSE cells.sel[c]
  BY <1>5, <1>7
<1> QED
  BY <1>6, <1>12, <1>13, <1>17, <1>18 DEF p

(* The bank a shift selects is the only one selected after it. *)
LEMMA PicksSelects ==
    ASSUME BusAssumption, BusInv, Shape(cells), NEW s, Moves(s), NEW b \in Banks, Picks(name, s, b)
    PROVE  Selected(Set(s)) = {b}
<1> DEFINE p == Set(s)
<1>1. \A c \in Banks : p.sel[c] = IF c \in DOMAIN s.sel THEN s.sel[c] ELSE cells.sel[c]
  BY SetIs
<1>2. \A c \in DOMAIN s.sel : s.sel[c] = (c = b)
  BY Asserted DEF Picks
<1>3. b \in DOMAIN s.sel
  BY DEF Picks, OneOf, Only
<1>4. \A c \in Banks : c \notin DOMAIN s.sel /\ cells.sel[c] => c = b
  BY DEF Picks, OneOf, Shape
<1>5. \A c \in Banks : p.sel[c] <=> c = b
  BY <1>1, <1>2, <1>3, <1>4
<1> HIDE DEF p
<1>6. Selected(p) = {b}
  BY <1>5 DEF Selected
<1> QED
  BY <1>6 DEF p

(* A shift that leaves the chip selects alone. *)
LEMMA StaysSelects ==
    ASSUME BusAssumption, BusInv, Shape(cells), NEW s, Moves(s), Stays(s)
    PROVE  Selected(Set(s)) = Selected(cells)
<1>1. \A c \in Banks : Set(s).sel[c] = cells.sel[c]
  BY SetIs DEF Stays
<1> QED
  BY <1>1 DEF Selected

(* The data lines after a shift that sets them, on the board. *)
LEMMA DataIs ==
    ASSUME BusAssumption, BusInv, Shape(cells), NEW s, Moves(s), NEW d, Sets(s, "data", Across(d))
    PROVE  /\ \A h \in board : h \in Wide => Set(s).data[h] = d
           /\ d = Float => \A h \in board : Set(s).data[h] = Float
<1>1. \A h \in Lines : Set(s).data[h] = IF h \in Wide THEN d ELSE cells.data[h]
  BY SetIs
<1>2. board \subseteq Lines
  BY WideLines
<1>3. \A h \in board : cells.data[h] # Float => h \in Wide
  BY DEF Shape
<1> QED
  BY <1>1, <1>2, <1>3

(* What a read sequence starts with reads. *)
LEMMA StartsReads ==
    ASSUME BusAssumption, BusInv, Shape(cells), NEW a \in Address,
           Starts(name, a, todo, Across(Float))
    PROVE  Moves(todo[1]) /\ Reads(Set(todo[1]), a)
<1> DEFINE s == todo[1]
           p == Set(s)
<1>1. Moves(s)
  BY DEF Starts, Moves
<1>2. p.oe /\ ~p.we /\ p.addr = a.word
  <2>1. \A l \in {"oe", "we", "addr"} : p[l] = IF Leaves(s, l) THEN cells[l] ELSE s.lines[l]
    BY <1>1, SetIs
  <2> HIDE DEF p
  <2> QED
    BY <2>1 DEF Starts, Sets, Leaves
<1>3. Selected(p) = {a.bank}
  BY <1>1, PicksSelects DEF Starts, Address
<1>4. \A h \in board : p.data[h] = Float
  BY <1>1, DataIs DEF Starts
<1> HIDE DEF p
<1> QED
  BY <1>1, <1>2, <1>3, <1>4 DEF Reads, p

(* What it goes on with reads on. *)
LEMMA GoesOnReads ==
    ASSUME BusAssumption, Addressable, BusInv, Shape(cells), NEW a \in Address, NEW b,
           Reads(cells, b), b.bank = a.bank \/ name \in Crossing,
           GoesOn(name, a, todo, Across(Float))
    PROVE  Moves(todo[1]) /\ Reads(Set(todo[1]), a)
<1> DEFINE s == todo[1]
           p == Set(s)
<1>1. Moves(s)
  BY DEF GoesOn, Moves
<1>2. p.oe /\ ~p.we /\ p.addr = a.word
  <2>1. \A l \in {"oe", "we", "addr"} : p[l] = IF Leaves(s, l) THEN cells[l] ELSE s.lines[l]
    BY <1>1, SetIs
  <2> HIDE DEF p
  <2> QED
    BY <2>1 DEF GoesOn, Sets, Leaves, Reads
<1>3. Selected(p) = {a.bank}
  <2>1. CASE Picks(name, s, a.bank)
    BY <1>1, <2>1, PicksSelects DEF Address
  <2>2. CASE Stays(s) /\ name # "slsup3"
    <3>1. b.bank = a.bank
      BY <2>2 DEF Addressable
    <3> QED
      BY <1>1, <2>2, <3>1, StaysSelects DEF Reads
  <2> QED
    BY <2>1, <2>2 DEF GoesOn
<1>4. \A h \in board : p.data[h] = Float
  <2>1. CASE Leaves(s, "data")
    <3>1. p.data = cells.data
      BY <1>1, <2>1, SetIs
    <3> HIDE DEF p
    <3> QED
      BY <3>1 DEF Reads
  <2>2. CASE Sets(s, "data", Across(Float))
    BY <1>1, <2>2, DataIs
  <2> QED
    BY <2>1, <2>2 DEF GoesOn
<1> HIDE DEF p
<1> QED
  BY <1>1, <1>2, <1>3, <1>4 DEF Reads, p

(* What it ends with is quiet. *)
LEMMA EndsQuiet ==
    ASSUME BusAssumption, BusInv, Shape(cells), ~cells.we, Ends(name, todo)
    PROVE  Moves(todo[1]) /\ Quiet(Set(todo[1]))
<1> DEFINE s == todo[1]
           p == Set(s)
<1>1. Moves(s)
  BY DEF Ends, Moves
<1>2. \A l \in {"oe", "we", "addr"} : p[l] = IF Leaves(s, l) THEN cells[l] ELSE s.lines[l]
  BY <1>1, SetIs
<1> HIDE DEF p
<1>3. ~p.oe /\ ~p.we
  BY <1>2 DEF Ends, Sets, Leaves
<1> QED
  BY <1>1, <1>3 DEF Quiet, p

(* The first shift of a write prepares it. *)
LEMMA PreparesReady ==
    ASSUME BusAssumption, BusInv, Shape(cells), ~cells.we, NEW a \in Address, NEW d, NEW s,
           Prepares(name, a, s, Across(d))
    PROVE  Moves(s) /\ Ready(Set(s), a, d)
<1> DEFINE p == Set(s)
<1>1. Moves(s)
  BY DEF Prepares, Moves
<1>2. ~p.oe /\ ~p.we /\ p.addr = a.word
  <2>1. \A l \in {"oe", "we", "addr"} : p[l] = IF Leaves(s, l) THEN cells[l] ELSE s.lines[l]
    BY <1>1, SetIs
  <2> HIDE DEF p
  <2> QED
    BY <2>1 DEF Prepares, Sets, Leaves
<1>3. Selected(p) = {a.bank}
  BY <1>1, PicksSelects DEF Prepares, Address
<1>4. \A h \in board : h \in Wide => p.data[h] = d
  BY <1>1, DataIs DEF Prepares
<1> HIDE DEF p
<1> QED
  BY <1>1, <1>2, <1>3, <1>4 DEF Ready, p

(* The second asserts the write enable, and nothing else changes that a      *)
(* memory looks at.                                                          *)
LEMMA StrobesWrite ==
    ASSUME BusAssumption, BusInv, Shape(cells), NEW a \in Address, NEW d, Ready(cells, a, d),
           NEW s, NEW t, Strobes(name, a, s, Across(d)), Quiets(s, t)
    PROVE  /\ Moves(s)
           /\ Set(s).we /\ Set(s).addr = a.word /\ Selected(Set(s)) = {a.bank}
           /\ \A h \in board : h \in Wide => Set(s).data[h] = d
           /\ ~Set(s).oe \/ Sets(t, "oe", FALSE)
<1> DEFINE p == Set(s)
<1>1. Moves(s)
  BY DEF Strobes, Quiets, Moves
<1>2. p.we /\ p.addr = a.word /\ (~p.oe \/ Sets(t, "oe", FALSE))
  <2>1. \A l \in {"oe", "we", "addr"} : p[l] = IF Leaves(s, l) THEN cells[l] ELSE s.lines[l]
    BY <1>1, SetIs
  <2> HIDE DEF p
  <2> QED
    BY <2>1 DEF Strobes, Sets, Leaves, Ready, Quiets
<1>3. Selected(p) = {a.bank}
  <2>1. CASE Picks(name, s, a.bank)
    BY <1>1, <2>1, PicksSelects DEF Address
  <2>2. CASE Stays(s)
    BY <1>1, <2>2, StaysSelects DEF Ready
  <2> QED
    BY <2>1, <2>2 DEF Strobes
<1>4. \A h \in board : h \in Wide => p.data[h] = d
  <2>1. CASE Leaves(s, "data")
    <3>1. p.data = cells.data
      BY <1>1, <2>1, SetIs
    <3> HIDE DEF p
    <3> QED
      BY <3>1 DEF Ready
  <2>2. CASE Sets(s, "data", Across(d))
    BY <1>1, <2>2, DataIs
  <2> QED
    BY <2>1, <2>2 DEF Strobes
<1> QED
  BY <1>1, <1>2, <1>3, <1>4

(* The third releases it. *)
LEMMA FinishesQuiet ==
    ASSUME BusAssumption, BusInv, Shape(cells), NEW s, Finishes(name, s),
           ~cells.oe \/ Sets(s, "oe", FALSE)
    PROVE  Moves(s) /\ Quiet(Set(s))
<1> DEFINE p == Set(s)
<1>1. Moves(s)
  BY DEF Finishes, Moves
<1>2. \A l \in {"oe", "we", "addr"} : p[l] = IF Leaves(s, l) THEN cells[l] ELSE s.lines[l]
  BY <1>1, SetIs
<1> HIDE DEF p
<1>3. ~p.oe /\ ~p.we
  BY <1>2 DEF Finishes, Sets, Leaves
<1> QED
  BY <1>1, <1>3 DEF Quiet, p

-----------------------------------------------------------------------------
(* The shifts of an access function, the data lines being those of the width *)
(* the driver finds.                                                         *)

(* A shift with its data lines resolved. *)
Line(s, d) ==
    [s EXCEPT !.lines = IF "data" \in DOMAIN s.lines
                        THEN [s.lines EXCEPT !.data = [h \in Wide |-> IF s.lines.data = Given THEN d
                                                                     ELSE s.lines.data]]
                        ELSE s.lines]

(* A shift and its like with the data lines resolved. *)
Alike(s, t, d) ==
    /\ DOMAIN t = Fields /\ t.sel = s.sel /\ t.capture = s.capture
    /\ DOMAIN t.lines = DOMAIN s.lines
    /\ \A l \in LineNames : Leaves(t, l) <=> Leaves(s, l)
    /\ \A l \in {"oe", "we", "addr"} : l \in DOMAIN s.lines => t.lines[l] = s.lines[l]
    /\ Sets(s, "data", Float) => Sets(t, "data", Across(Float))
    /\ Sets(s, "data", Given) => Sets(t, "data", Across(d))

(* Its other fields and lines stay. *)
LEMMA LineIs ==
    ASSUME NEW s, DOMAIN s = Fields, NEW d
    PROVE  Alike(s, Line(s, d), d)
<1> DEFINE lines == IF "data" \in DOMAIN s.lines
                    THEN [s.lines EXCEPT !.data = [h \in Wide |-> IF s.lines.data = Given THEN d
                                                                  ELSE s.lines.data]]
                    ELSE s.lines
           t == Line(s, d)
<1>1. DOMAIN t = Fields /\ t.sel = s.sel /\ t.capture = s.capture /\ t.lines = lines
  <2>1. t = [s EXCEPT !.lines = lines]
    BY DEF Line
  <2> HIDE DEF t, lines
  <2> QED
    BY <2>1 DEF Fields
<1>2. DOMAIN lines = DOMAIN s.lines
  OBVIOUS
<1>3. \A l \in DOMAIN lines : l # "data" => lines[l] = s.lines[l]
  OBVIOUS
<1>4. "data" \in DOMAIN s.lines =>
          lines.data = [h \in Wide |-> IF s.lines.data = Given THEN d ELSE s.lines.data]
  OBVIOUS
<1>5. Float # Given
  BY DEF Float, Given
<1>6. "data" \in DOMAIN s.lines /\ s.lines.data = Float => lines.data = Across(Float)
  <2> HIDE DEF lines
  <2> QED
    BY <1>4, <1>5 DEF Across
<1>7. "data" \in DOMAIN s.lines /\ s.lines.data = Given => lines.data = Across(d)
  <2> HIDE DEF lines
  <2> QED
    BY <1>4 DEF Across
<1> HIDE DEF t, lines
<1>8. \A l \in {"oe", "we", "addr"} : l \in DOMAIN s.lines => t.lines[l] = s.lines[l]
  BY <1>1, <1>2, <1>3
<1>9. \A l : Leaves(t, l) <=> Leaves(s, l)
  BY <1>1, <1>2 DEF Leaves
<1>10. Sets(s, "data", Float) => Sets(t, "data", Across(Float))
  BY <1>1, <1>2, <1>6 DEF Sets
<1>11. Sets(s, "data", Given) => Sets(t, "data", Across(d))
  BY <1>1, <1>2, <1>7 DEF Sets
<1> QED
  BY <1>1, <1>2, <1>8, <1>9, <1>10, <1>11 DEF t, Alike

(* A shift keeps its shape. *)
LEMMA LineHomely ==
    ASSUME NEW s, Homely(name, s), NEW d
    PROVE  Homely(name, Line(s, d))
BY LineIs DEF Homely, Alike

(* The shifts of the access functions, resolved. *)
LEMMA OneResolved ==
    ASSUME NEW q, q = <<q[1]>>, NEW d
    PROVE  Resolved(q, d) = <<Line(q[1], d)>>
<1>1. DOMAIN q = {1}
  OBVIOUS
<1>2. Resolved(q, d) = [i \in {1} |-> Line(q[i], d)]
  BY <1>1 DEF Resolved, Line, Wide
<1> QED
  BY <1>2

LEMMA ThreeResolved ==
    ASSUME NEW q, q = <<q[1], q[2], q[3]>>, NEW d
    PROVE  Resolved(q, d) = <<Line(q[1], d), Line(q[2], d), Line(q[3], d)>>
<1>1. DOMAIN q = 1 .. 3
  OBVIOUS
<1>2. Resolved(q, d) = [i \in 1 .. 3 |-> Line(q[i], d)]
  BY <1>1 DEF Resolved, Line, Wide
<1> QED
  BY <1>2

LEMMA StartsResolved ==
    ASSUME NEW q, NEW a, Starts(name, a, q, Float), NEW d
    PROVE  Starts(name, a, Resolved(q, d), Across(Float))
<1> DEFINE R == Resolved(q, d)
<1>1. R = <<Line(q[1], d)>>
  BY OneResolved DEF Starts
<1>2. R = <<R[1]>> /\ R[1] = Line(q[1], d)
  BY <1>1
<1>3. Homely(name, q[1]) /\ DOMAIN q[1] = Fields
  BY DEF Starts, Homely
<1> HIDE DEF R
<1>4. Homely(name, R[1])
  BY <1>2, <1>3, LineHomely
<1>5. Alike(q[1], R[1], d)
  BY <1>2, <1>3, LineIs
<1> QED
  BY <1>2, <1>4, <1>5 DEF Starts, Alike, Sets, Leaves, LineNames, Picks, R

LEMMA GoesOnResolved ==
    ASSUME NEW q, NEW a, GoesOn(name, a, q, Float), NEW d
    PROVE  GoesOn(name, a, Resolved(q, d), Across(Float))
<1> DEFINE R == Resolved(q, d)
<1>1. R = <<Line(q[1], d)>>
  BY OneResolved DEF GoesOn
<1>2. R = <<R[1]>> /\ R[1] = Line(q[1], d)
  BY <1>1
<1>3. Homely(name, q[1]) /\ DOMAIN q[1] = Fields
  BY DEF GoesOn, Homely
<1> HIDE DEF R
<1>4. Homely(name, R[1])
  BY <1>2, <1>3, LineHomely
<1>5. Alike(q[1], R[1], d)
  BY <1>2, <1>3, LineIs
<1> QED
  BY <1>2, <1>4, <1>5 DEF GoesOn, Alike, Sets, Leaves, LineNames, Picks, Stays, R

LEMMA EndsResolved ==
    ASSUME NEW q, Ends(name, q), NEW d
    PROVE  Ends(name, Resolved(q, d))
<1> DEFINE R == Resolved(q, d)
<1>1. R = <<Line(q[1], d)>>
  BY OneResolved DEF Ends
<1>2. R = <<R[1]>> /\ R[1] = Line(q[1], d)
  BY <1>1
<1>3. Homely(name, q[1]) /\ DOMAIN q[1] = Fields
  BY DEF Ends, Homely
<1> HIDE DEF R
<1>4. Homely(name, R[1])
  BY <1>2, <1>3, LineHomely
<1>5. Alike(q[1], R[1], d)
  BY <1>2, <1>3, LineIs
<1> QED
  BY <1>2, <1>4, <1>5 DEF Ends, Alike, Sets, Leaves, LineNames, R

LEMMA WritesResolved ==
    ASSUME NEW q, NEW a, Writes(name, a, q, Given), NEW d
    PROVE  Writes(name, a, Resolved(q, d), Across(d))
<1> DEFINE R == Resolved(q, d)
<1>1. R = <<Line(q[1], d), Line(q[2], d), Line(q[3], d)>>
  BY ThreeResolved DEF Writes
<1>2. /\ R = <<R[1], R[2], R[3]>>
      /\ R[1] = Line(q[1], d) /\ R[2] = Line(q[2], d) /\ R[3] = Line(q[3], d)
  BY <1>1
<1>3. \A i \in 1 .. 3 : Homely(name, q[i]) /\ DOMAIN q[i] = Fields
  BY DEF Writes, Prepares, Strobes, Finishes, Homely
<1> HIDE DEF R
<1>4. Homely(name, R[1]) /\ Homely(name, R[2]) /\ Homely(name, R[3])
  BY <1>2, <1>3, LineHomely
<1>0. Alike(q[1], R[1], d) /\ Alike(q[2], R[2], d) /\ Alike(q[3], R[3], d)
  BY <1>2, <1>3, LineIs
<1>5. Prepares(name, a, R[1], Across(d))
  <2>1. Prepares(name, a, q[1], Given)
    BY DEF Writes
  <2> QED
    BY <1>4, <1>0, <2>1 DEF Prepares, Picks, Alike, Sets, Leaves, LineNames
<1>6. Strobes(name, a, R[2], Across(d))
  <2>1. Strobes(name, a, q[2], Given)
    BY DEF Writes
  <2> QED
    BY <1>4, <1>0, <2>1 DEF Strobes, Picks, Stays, Alike, Sets, Leaves, LineNames
<1>7. Finishes(name, R[3])
  <2>1. Finishes(name, q[3])
    BY DEF Writes
  <2> QED
    BY <1>4, <1>0, <2>1 DEF Finishes, Alike, Sets, Leaves, LineNames
<1>8. Quiets(R[2], R[3])
  <2>1. Quiets(q[2], q[3])
    BY DEF Writes
  <2> QED
    BY <1>0, <2>1 DEF Quiets, Alike, Sets, Leaves, LineNames
<1> QED
  BY <1>2, <1>5, <1>6, <1>7, <1>8 DEF Writes, R

-----------------------------------------------------------------------------
(* The invariant holds at first, and an access function that begins keeps it. *)

(* No location is nowhere. *)
LEMMA NowhereElse == Nowhere \notin Address
BY DEF Nowhere, Address

LEMMA InitInv ==
    ASSUME BusAssumption, Init
    PROVE  BusInv
<1>1. name \in Names /\ board \in Boards /\ seen = (IF Captured THEN board ELSE Unseen)
  BY DEF Init
<1>2. mem \in [Address -> [board -> Data]]
  BY DEF Init, Data
<1>3. addressed = Nowhere /\ call = Idle /\ todo = << >>
  BY DEF Init
<1>4. Driven
  <2>1. /\ DOMAIN cells = LineNames \cup {"sel"}
        /\ cells.sel = AllReleased /\ cells.oe = FALSE /\ cells.we = FALSE
        /\ cells.data = [h \in Lines |-> Float]
    BY DEF Init, LineNames
  <2>2. board \subseteq Lines
    BY <1>1 DEF BusAssumption
  <2>3. Shape(cells)
    BY <2>1, <2>2 DEF Shape, AllReleased
  <2>4. pins = cells
    BY DEF Init
  <2>5. Quiet(cells)
    BY <2>1 DEF Quiet
  <2> QED
    BY <1>3, <2>3, <2>4, <2>5 DEF Driven
<1> QED
  BY <1>1, <1>2, <1>3, <1>4 DEF BusInv

(* What an access function that begins leaves alone. *)
LEMMA BeginIs ==
    ASSUME BusInv, NEW script, NEW d, NEW op, NEW at, NEW then, Begin(script, d, op, at, then)
    PROVE  /\ call = Idle /\ todo' = Resolved(script, d)
           /\ call' # Idle /\ call'.op = op /\ (call'.reads <=> op \in {"read_next", "read_end"})
           /\ call'.width = Wide /\ call'.at = at /\ call'.datum = d /\ call'.then = then
           /\ Wide' = Wide /\ \A x : Across(x)' = Across(x)
           /\ UNCHANGED <<name, board, seen, cells, pins, mem, addressed, answer>>
<1>1. call' = [op |-> op, reads |-> op \in {"read_next", "read_end"},
               width |-> Wide, at |-> at, datum |-> d, then |-> then]
  BY DEF Begin, Wide
<1>2. call' # Idle
  <2>1. "at" \in DOMAIN call' /\ "at" \notin DOMAIN Idle
    BY <1>1 DEF Idle
  <2> QED
    BY <2>1
<1>3. UNCHANGED <<name, board, seen, cells, pins, mem, addressed, answer>>
  BY DEF Begin
<1>4. Wide' = Wide
  BY <1>3 DEF Wide
<1>5. \A x : Across(x)' = Across(x)
  BY <1>4 DEF Across
<1>6. call'.reads <=> op \in {"read_next", "read_end"}
  BY <1>1
<1>7. call'.op = op /\ call'.width = Wide /\ call'.at = at /\ call'.datum = d /\ call'.then = then
  BY <1>1
<1> QED
  BY <1>2, <1>3, <1>4, <1>5, <1>6, <1>7 DEF Begin

(* So what is under way decides. *)
LEMMA BeginInv ==
    ASSUME BusInv, NEW script, NEW d, NEW op, NEW at, NEW then \in Reachable \cup {Nowhere},
           Begin(script, d, op, at, then), name \in Settled => UnderWay'
    PROVE  BusInv'
<1>1. UNCHANGED <<name, board, seen, cells, pins, mem, addressed>> /\ call = Idle
      /\ call' # Idle /\ call'.width = Wide /\ call'.then = then /\ Wide' = Wide
  BY BeginIs
<1>2. Reachable' = Reachable
  BY <1>1 DEF Reachable
<1>3. name' \in Names /\ board' \in Boards /\ seen' \in {board', Unseen} /\ (Captured => seen' = board')
  BY <1>1, <1>2 DEF BusInv
<1>4. mem' \in [Address -> [board' -> Data]]
  BY <1>1 DEF BusInv
<1>5. ASSUME name \in Settled
      PROVE  Driven'
  <2>1. Driven
    BY <1>5 DEF BusInv
  <2>2. call.op # "write"
    BY <1>1 DEF Idle
  <2>3. Shape(cells)'
    BY <1>1, <2>1 DEF Driven, Shape
  <2>6. addressed' \in Reachable' \cup {Nowhere}
    BY <1>1, <1>2, <2>1 DEF Driven
  <2>4. (addressed # Nowhere => Reads(cells, addressed))'
    BY <1>1, <2>1 DEF Driven, Reads, Selected
  <2>5. (addressed = Nowhere /\ call.op # "write" => Quiet(cells))'
    BY <1>1, <2>1, <2>2 DEF Driven, Quiet
  <2> QED
    BY <1>1, <1>5, <2>1, <2>3, <2>4, <2>5, <2>6 DEF Driven
<1> QED
  BY <1>1, <1>3, <1>4, <1>5 DEF BusInv, Settled

(* The driver's own functions have its shapes. *)
LEMMA ReachableFit ==
    ASSUME BusAssumption, Addressable, BusInv, name \in Settled, NEW a \in Reachable
    PROVE  /\ Starts(name, a, Drivers[name].start[a], Float)
           /\ GoesOn(name, a, Drivers[name].next[a], Float)
           /\ Writes(name, a, Drivers[name].write[a], Given)
BY DriversFit DEF Fits, Reachable

LEMMA ReadStartInv ==
    ASSUME BusAssumption, Addressable, BusInv, NEW a \in Reachable, ReadStart(a)
    PROVE  BusInv'
<1> DEFINE q == Drivers[name].start[a]
<1>1. Begin(q, Zero, "read_start", a, a) /\ addressed = Nowhere
  BY DEF ReadStart
<1>2. ASSUME name \in Settled
      PROVE  UnderWay'
  <2>1. Starts(name, a, q, Float)
    BY <1>2, ReachableFit
  <2> HIDE DEF q
  <2>2. Starts(name, a, todo', Across(Float)')
    BY <1>1, <2>1, StartsResolved, BeginIs
  <2>3. call'.op = "read_start" /\ ~call'.reads /\ call'.then = a /\ addressed' = Nowhere
        /\ name' = name
    BY <1>1, BeginIs
  <2> QED
    BY <2>2, <2>3 DEF UnderWay, Reachable
<1> HIDE DEF q
<1> QED
  BY <1>1, <1>2, BeginInv

LEMMA ReadNextInv ==
    ASSUME BusAssumption, Addressable, BusInv, NEW a \in Reachable, ReadNext(a)
    PROVE  BusInv'
<1> DEFINE q == Drivers[name].next[a]
<1>1. Begin(q, Zero, "read_next", a, a) /\ addressed # Nowhere
      /\ (a.bank = addressed.bank \/ name \in Crossing)
  BY DEF ReadNext
<1>2. ASSUME name \in Settled
      PROVE  UnderWay'
  <2>1. GoesOn(name, a, q, Float)
    BY <1>2, ReachableFit
  <2> HIDE DEF q
  <2>2. GoesOn(name, a, todo', Across(Float)')
    BY <1>1, <2>1, GoesOnResolved, BeginIs
  <2>3. call'.op = "read_next" /\ call'.reads /\ call'.then = a /\ addressed' = addressed
        /\ name' = name
    BY <1>1, BeginIs
  <2> QED
    BY <1>1, <2>2, <2>3 DEF UnderWay, Reachable
<1> HIDE DEF q
<1> QED
  BY <1>1, <1>2, BeginInv

LEMMA ReadEndInv ==
    ASSUME BusAssumption, Addressable, BusInv, ReadEnd
    PROVE  BusInv'
<1> DEFINE q == Drivers[name].end
<1>1. Begin(q, Zero, "read_end", addressed, Nowhere) /\ addressed # Nowhere
  BY DEF ReadEnd
<1>2. ASSUME name \in Settled
      PROVE  UnderWay'
  <2>1. Ends(name, q)
    BY <1>2, DriversFit DEF Fits
  <2> HIDE DEF q
  <2>2. Ends(name, todo')
    BY <1>1, <2>1, EndsResolved, BeginIs
  <2>3. call'.op = "read_end" /\ call'.reads /\ call'.then = Nowhere /\ addressed' = addressed
        /\ name' = name
    BY <1>1, BeginIs
  <2> QED
    BY <1>1, <2>2, <2>3 DEF UnderWay
<1> HIDE DEF q
<1> QED
  BY <1>1, <1>2, BeginInv

LEMMA WriteInv ==
    ASSUME BusAssumption, Addressable, BusInv, NEW a \in Reachable, NEW d \in Fresh, Write(a, d)
    PROVE  BusInv'
<1> DEFINE q == Drivers[name].write[a]
<1>1. Begin(q, d, "write", a, Nowhere) /\ addressed = Nowhere
  BY DEF Write
<1>2. ASSUME name \in Settled
      PROVE  UnderWay'
  <2>1. Writes(name, a, q, Given)
    BY <1>2, ReachableFit
  <2> HIDE DEF q
  <2>2. Writes(name, a, todo', Across(d)')
    BY <1>1, <2>1, WritesResolved, BeginIs
  <2>3. /\ call'.op = "write" /\ ~call'.reads /\ call'.then = Nowhere /\ addressed' = Nowhere
        /\ call'.at = a /\ call'.datum = d /\ name' = name /\ cells' = cells /\ call = Idle
    BY <1>1, BeginIs
  <2>4. Quiet(cells)
    BY <1>1, <1>2, <2>3 DEF BusInv, Driven, Idle
  <2>5. Across(call.datum)' = Across(d)'
    BY <2>3 DEF Across
  <2>6. Writing3'
    BY <2>2, <2>3, <2>4, <2>5 DEF Writing3, Quiet
  <2>7. call'.at \in Reachable'
    BY <2>3 DEF Reachable
  <2> QED
    BY <2>3, <2>6, <2>7 DEF UnderWay
<1> HIDE DEF q
<1> QED
  BY <1>1, <1>2, BeginInv

-----------------------------------------------------------------------------
(* A shift.                                                                  *)

(* What it does. *)
LEMMA ShiftIs ==
    ASSUME Shift, NEW s, s = Head(todo)
    PROVE  /\ todo # << >> /\ todo' = Tail(todo)
           /\ cells' = Set(s) /\ pins' = Set(s) /\ UNCHANGED <<name, board>>
           /\ seen' = IF s.capture THEN board ELSE seen
           /\ call' = IF Len(todo) = 1 THEN Idle ELSE call
           /\ addressed' = IF Len(todo) = 1 THEN call.then ELSE addressed
           /\ \E held : \E words \in WordsWritten(Set(s), held) : mem' = Stored(Set(s), words)
           /\ s.capture => got' = [h \in board |-> Level(h)]
           /\ ~(Len(todo) = 1 /\ call.reads) => answer' = answer
           /\ Len(todo) = 1 /\ call.reads =>
                 \E width \in {Width(name, board, seen'), call.width} : answer' = Result(got', width)
BY DEF Shift

(* The types stay. *)
LEMMA StoredType ==
    ASSUME mem \in [Address -> [board -> Data]], NEW p, NEW words
    PROVE  Stored(p, words) \in [Address -> [board -> Data]]
<1>1. \A h : (IF p.data[h] \in Fresh THEN p.data[h] ELSE Unknown) \in Data
  BY DEF Data
<1>2. [h \in board |-> IF p.data[h] \in Fresh THEN p.data[h] ELSE Unknown] \in [board -> Data]
  BY <1>1
<1> QED
  BY <1>2 DEF Stored

LEMMA ShiftTypes ==
    ASSUME BusAssumption, BusInv, Shift
    PROVE  /\ (name \in Names /\ board \in Boards)'
           /\ (seen \in {board, Unseen} /\ (Captured => seen = board))'
           /\ (mem \in [Address -> [board -> Data]])'
<1> DEFINE s == Head(todo)
<1>1. /\ UNCHANGED <<name, board>>
      /\ seen' = IF s.capture THEN board ELSE seen
      /\ \E words : mem' = Stored(Set(s), words)
  BY ShiftIs
<1> HIDE DEF s
<1>2. mem' \in [Address -> [board -> Data]]
  BY <1>1, StoredType DEF BusInv
<1> QED
  BY <1>1, <1>2 DEF BusInv

(* Nothing is stored without the write enable. *)
LEMMA NothingStored ==
    ASSUME mem \in [Address -> [board -> Data]], NEW p, ~p.we, NEW held,
           NEW words \in WordsWritten(p, held)
    PROVE  Stored(p, words) = mem
<1>1. words = {}
  BY DEF WordsWritten
<1>2. Stored(p, words) = [a \in Address |-> mem[a]]
  BY <1>1 DEF Stored
<1> QED
  BY <1>2

(* With it, what is on the lines is stored where they point to, however the  *)
(* pins change.                                                              *)
LEMMA OneStored ==
    ASSUME name \notin Muxed, mem \in [Address -> [board -> Data]], NEW a \in Address, NEW p,
           Selected(p) = {a.bank}, p.addr = a.word, ~pins.we => pins.addr = a.word,
           NEW held, NEW words \in WordsWritten(p, held), p.we
    PROVE  Stored(p, words) =
               [mem EXCEPT ![a] = [h \in board |-> IF p.data[h] \in Fresh THEN p.data[h] ELSE Unknown]]
<1>1. words = {a.word}
  BY DEF WordsWritten, Word
<1>2. \A x \in Address : x.bank \in Selected(p) /\ x.word \in words <=> x = a
  BY <1>1 DEF Address
<1> DEFINE D == [h \in board |-> IF p.data[h] \in Fresh THEN p.data[h] ELSE Unknown]
<1>3. Stored(p, words) = [x \in Address |-> IF x.bank \in Selected(p) /\ x.word \in words
                                            THEN D ELSE mem[x]]
  BY DEF Stored
<1> HIDE DEF D
<1>4. Stored(p, words) = [x \in Address |-> IF x = a THEN D ELSE mem[x]]
  BY <1>2, <1>3
<1>5. Stored(p, words) = [mem EXCEPT ![a] = D]
  BY <1>4
<1> QED
  BY <1>5 DEF D

(* The lines show what is stored where the read sequence points to. *)
LEMMA LevelIs ==
    ASSUME BusInv, name \in Settled, addressed # Nowhere
    PROVE  \A h \in board : Level(h) = mem[addressed][h]
<1>1. Driven /\ name \notin Muxed
  BY DEF BusInv, Settled
<1>2. addressed \in Address /\ Reads(pins, addressed)
  BY <1>1 DEF Driven, Reachable
<1>3. Answering = {addressed.bank}
  BY <1>2 DEF Answering, Reads
<1>4. addressed.bank \in Banks /\ addressed = [bank |-> addressed.bank, word |-> addressed.word]
  BY <1>2 DEF Address
<1>5. \E b \in Banks : Answering = {b}
  BY <1>3, <1>4
<1>6. (CHOOSE b \in Banks : Answering = {b}) = addressed.bank
  BY <1>3, <1>5
<1>7. Word(pins, latch) = addressed.word
  BY <1>1, <1>2 DEF Word, Reads
<1>8. ASSUME NEW h \in board
      PROVE  Level(h) = mem[addressed][h]
  <2>1. pins.data[h] = Float
    BY <1>2 DEF Reads
  <2>2. Level(h) = mem[[bank |-> addressed.bank, word |-> addressed.word]][h]
    BY <1>5, <1>6, <1>7, <2>1 DEF Level
  <2> QED
    BY <1>4, <2>2
<1> QED
  BY <1>8

(* What the register holds keeps its shape, whatever is captured. *)
LEMMA ShiftShape ==
    ASSUME BusAssumption, BusInv, Shape(cells), Shift, NEW s, s = Head(todo), Moves(s)
    PROVE  /\ Shape(cells)' /\ pins' = cells'
           /\ ~s.capture => Wide' = Wide
           /\ Captured => Wide' = board /\ Wide = board
<1>1. cells' = Set(s) /\ pins' = Set(s) /\ UNCHANGED <<name, board>>
      /\ seen' = IF s.capture THEN board ELSE seen
  BY ShiftIs
<1>2. board # Unseen
  BY WideLines DEF Unseen, Lines
<1>3. seen' = board => Wide' = board
  BY <1>1, <1>2 DEF Wide, Width
<1>4. ~s.capture => Wide' = Wide
  BY <1>1 DEF Wide
<1>5. \A h \in board : h \in Wide => h \in Wide'
  BY <1>1, <1>3, <1>4
<1>6. Shape(Set(s))
  BY SetIs
<1>7. Shape(cells)'
  <2> DEFINE p == Set(s)
  <2> HIDE DEF p
  <2>1. Shape(p) /\ cells' = p
    BY <1>1, <1>6 DEF p
  <2> QED
    BY <1>1, <1>5, <2>1 DEF Shape
<1>8. Captured => Wide' = board /\ Wide = board
  BY <1>1, <1>3, WideLines DEF BusInv
<1> QED
  BY <1>1, <1>4, <1>7, <1>8

(* The one shift left of an access function. *)
LEMMA LastIs ==
    ASSUME Shift, todo = <<todo[1]>>
    PROVE  /\ Head(todo) = todo[1] /\ Len(todo) = 1 /\ todo' = << >>
           /\ call' = Idle /\ addressed' = call.then
<1>1. Head(todo) = todo[1] /\ Len(todo) = 1 /\ Tail(todo) = << >>
  <2> DEFINE x == todo[1]
  <2>1. todo = <<x>>
    OBVIOUS
  <2> HIDE DEF x
  <2>2. Head(todo) = x /\ Len(todo) = 1 /\ Tail(todo) = << >>
    BY <2>1
  <2> QED
    BY <2>2 DEF x
<1>2. /\ todo' = Tail(todo)
      /\ call' = IF Len(todo) = 1 THEN Idle ELSE call
      /\ addressed' = IF Len(todo) = 1 THEN call.then ELSE addressed
  BY ShiftIs
<1> QED
  BY <1>1, <1>2

(* What is under way when it is one of the reads, or a write. *)
Starting ==
    /\ call.op = "read_start" /\ ~call.reads
    /\ addressed = Nowhere /\ call.then \in Reachable
    /\ Starts(name, call.then, todo, Across(Float))
Going ==
    /\ call.op = "read_next" /\ call.reads
    /\ addressed # Nowhere /\ call.then \in Reachable
    /\ addressed.bank = call.then.bank \/ name \in Crossing
    /\ GoesOn(name, call.then, todo, Across(Float))
Ending ==
    /\ call.op = "read_end" /\ call.reads
    /\ addressed # Nowhere /\ call.then = Nowhere
    /\ Ends(name, todo)

(* A shift of a settled driver. *)
Shifting ==
    /\ BusAssumption /\ Addressable /\ BusInv
    /\ name \in Settled /\ Driven /\ Shift

(* A read sequence starts without anything being read or written. *)
LEMMA StartingShift ==
    ASSUME Shifting, Starting
    PROVE  Driven' /\ mem' = mem /\ answer' = answer /\ addressed' \in Address
<1> DEFINE s == todo[1]
<1>1. todo = <<todo[1]>>
  BY DEF Starting, Starts
<1>2. Head(todo) = s /\ Len(todo) = 1 /\ todo' = << >> /\ call' = Idle /\ addressed' = call.then
  BY <1>1, LastIs DEF Shifting
<1>3. call.then \in Reachable /\ call.then \in Address /\ call.then # Nowhere
  BY NowhereElse DEF Starting, Reachable
<1>4. Moves(s) /\ Reads(Set(s), call.then)
  BY <1>3, StartsReads DEF Shifting, Starting, Driven
<1>5. Shape(cells)' /\ pins' = cells'
  BY <1>2, <1>4, ShiftShape DEF Shifting, Driven
<1>6. /\ cells' = Set(s) /\ UNCHANGED <<name, board>> /\ answer' = answer
      /\ \E held : \E words \in WordsWritten(Set(s), held) : mem' = Stored(Set(s), words)
  BY <1>2, ShiftIs DEF Shifting, Starting
<1> HIDE DEF s
<1>7. mem' = mem
  <2>1. ~Set(s).we
    BY <1>4 DEF Reads
  <2> QED
    BY <1>6, <2>1, NothingStored DEF Shifting, BusInv
<1>9. Reads(cells', addressed')
  BY <1>2, <1>4, <1>6 DEF Reads, Selected
<1>10. Driven'
  BY <1>2, <1>3, <1>5, <1>6, <1>9 DEF Driven, Reachable, Reads, Selected
<1> QED
  BY <1>2, <1>3, <1>6, <1>7, <1>10

(* What is read, the width being the board's. *)
LEMMA ResultIs ==
    ASSUME BusInv, NEW a \in Address, NEW levels,
           levels = [h \in board |-> mem[a][h]]
    PROVE  Result(levels, board) = mem[a]
<1>1. mem[a] \in [board -> Data]
  BY DEF BusInv
<1>2. Result(levels, board) = [h \in board |-> mem[a][h]]
  BY DEF Result
<1> QED
  BY <1>1, <1>2

(* A read takes what is stored where the sequence points to. *)
LEMMA ReadTakes ==
    ASSUME Shifting, addressed # Nowhere, call.reads, call.width = Wide, Captured,
           todo = <<todo[1]>>, todo[1].capture
    PROVE  answer' = mem[addressed]
<1> DEFINE s == todo[1]
<1>1. Head(todo) = s /\ Len(todo) = 1
  BY LastIs DEF Shifting
<1>2. /\ s.capture => got' = [h \in board |-> Level(h)]
      /\ seen' = IF s.capture THEN board ELSE seen
      /\ \E width \in {Width(name, board, seen'), call.width} : answer' = Result(got', width)
  BY <1>1, ShiftIs DEF Shifting
<1>3. seen' = board /\ seen = board /\ board # Unseen
  BY <1>2, WideLines DEF Shifting, BusInv, Unseen, Lines
<1>4. Width(name, board, seen') = board /\ Wide = board
  BY <1>3 DEF Width, Wide
<1>5. answer' = Result(got', board)
  BY <1>2, <1>4
<1>6. got' = [h \in board |-> mem[addressed][h]]
  BY <1>2, LevelIs DEF Shifting
<1>7. addressed \in Address
  BY DEF Shifting, Driven, Reachable
<1> QED
  BY <1>5, <1>6, <1>7, ResultIs DEF Shifting

(* It goes on: what is stored where it pointed to is answered, and it points *)
(* to the next location.                                                     *)
LEMMA GoingShift ==
    ASSUME Shifting, Going, call.width = Wide
    PROVE  /\ Driven' /\ mem' = mem /\ addressed' \in Address
           /\ Captured => answer' = mem[addressed]
<1> DEFINE s == todo[1]
<1>1. todo = <<todo[1]>> /\ s.capture
  BY DEF Going, GoesOn
<1>2. Head(todo) = s /\ Len(todo) = 1 /\ todo' = << >> /\ call' = Idle /\ addressed' = call.then
  BY <1>1, LastIs DEF Shifting
<1>3. call.then \in Reachable /\ call.then \in Address /\ call.then # Nowhere
  BY NowhereElse DEF Going, Reachable
<1>4. Moves(s) /\ Reads(Set(s), call.then)
  BY <1>3, GoesOnReads DEF Shifting, Going, Driven
<1>5. Shape(cells)' /\ pins' = cells'
  BY <1>2, <1>4, ShiftShape DEF Shifting, Driven
<1>6. /\ cells' = Set(s) /\ UNCHANGED <<name, board>>
      /\ \E held : \E words \in WordsWritten(Set(s), held) : mem' = Stored(Set(s), words)
  BY <1>2, ShiftIs DEF Shifting
<1>7. Captured => answer' = mem[addressed]
  BY <1>1, ReadTakes DEF Going
<1> HIDE DEF s
<1>8. mem' = mem
  <2>1. ~Set(s).we
    BY <1>4 DEF Reads
  <2> QED
    BY <1>6, <2>1, NothingStored DEF Shifting, BusInv
<1>9. Reads(cells', addressed')
  BY <1>2, <1>4, <1>6 DEF Reads, Selected
<1>10. Driven'
  BY <1>2, <1>3, <1>5, <1>6, <1>9 DEF Driven, Reachable, Reads, Selected
<1> QED
  BY <1>2, <1>3, <1>7, <1>8, <1>10

(* It ends. *)
LEMMA EndingShift ==
    ASSUME Shifting, Ending, call.width = Wide
    PROVE  /\ Driven' /\ mem' = mem /\ addressed' = Nowhere
           /\ Captured => answer' = mem[addressed]
<1> DEFINE s == todo[1]
<1>1. todo = <<todo[1]>> /\ s.capture
  BY DEF Ending, Ends
<1>2. Head(todo) = s /\ Len(todo) = 1 /\ todo' = << >> /\ call' = Idle /\ addressed' = Nowhere
  BY <1>1, LastIs DEF Shifting, Ending
<1>3. ~cells.we
  BY DEF Shifting, Driven, Ending, Reads
<1>4. Moves(s) /\ Quiet(Set(s))
  BY <1>3, EndsQuiet DEF Shifting, Ending, Driven
<1>5. Shape(cells)' /\ pins' = cells'
  BY <1>2, <1>4, ShiftShape DEF Shifting, Driven
<1>6. /\ cells' = Set(s) /\ UNCHANGED <<name, board>>
      /\ \E held : \E words \in WordsWritten(Set(s), held) : mem' = Stored(Set(s), words)
  BY <1>2, ShiftIs DEF Shifting
<1>7. Captured => answer' = mem[addressed]
  BY <1>1, ReadTakes DEF Ending
<1> HIDE DEF s
<1>8. mem' = mem
  <2>1. ~Set(s).we
    BY <1>4 DEF Quiet
  <2> QED
    BY <1>6, <2>1, NothingStored DEF Shifting, BusInv
<1>9. Quiet(cells')
  BY <1>4, <1>6 DEF Quiet
<1>10. Driven'
  BY <1>2, <1>5, <1>9 DEF Driven, Quiet
<1> QED
  BY <1>2, <1>7, <1>8, <1>10

(* A write that is under way. *)
Written1 ==
    /\ call.op = "write" /\ ~call.reads
    /\ addressed = Nowhere /\ call.then = Nowhere
    /\ call.at \in Reachable /\ call.datum \in Fresh

(* Its first shift stores nothing. *)
LEMMA FirstWriteShift ==
    ASSUME Shifting, Written1, call # Idle, call.width = Wide, Writing3
    PROVE  /\ Driven' /\ mem' = mem /\ call' = call
           /\ UNCHANGED <<addressed, answer>>
<1> DEFINE s == todo[1] t == todo[2] u == todo[3]
           a == call.at d == call.datum
<1>1. todo = <<s, t, u>> /\ Prepares(name, a, s, Across(d)) /\ Strobes(name, a, t, Across(d))
      /\ Finishes(name, u) /\ Quiets(t, u) /\ ~cells.we
  BY DEF Writing3, Writes, Quiet
<1>2. a \in Address /\ Shape(cells)
  BY DEF Written1, Reachable, Shifting, Driven
<1>3. Moves(s) /\ Ready(Set(s), a, d)
  <2> HIDE DEF s, t, u, a, d
  <2> QED
    BY <1>1, <1>2, PreparesReady DEF Shifting
<1>4. Head(todo) = s /\ Len(todo) = 3 /\ Tail(todo) = <<t, u>>
  <2> HIDE DEF s, t, u
  <2> QED
    BY <1>1
<1>5. Shape(cells)' /\ pins' = cells' /\ Wide' = Wide
  <2>1. ~s.capture
    BY <1>1 DEF Prepares
  <2> QED
    BY <1>2, <1>3, <1>4, <2>1, ShiftShape DEF Shifting
<1>6. /\ cells' = Set(s) /\ UNCHANGED <<name, board>> /\ answer' = answer
      /\ todo' = <<t, u>> /\ call' = call /\ addressed' = addressed
      /\ \E held : \E words \in WordsWritten(Set(s), held) : mem' = Stored(Set(s), words)
  <2>1. /\ cells' = Set(s) /\ UNCHANGED <<name, board>> /\ todo' = Tail(todo)
        /\ call' = IF Len(todo) = 1 THEN Idle ELSE call
        /\ addressed' = IF Len(todo) = 1 THEN call.then ELSE addressed
        /\ \E held : \E words \in WordsWritten(Set(s), held) : mem' = Stored(Set(s), words)
        /\ ~(Len(todo) = 1 /\ call.reads) => answer' = answer
    BY <1>4, ShiftIs DEF Shifting
  <2> QED
    BY <1>4, <2>1
<1>7. mem' = mem
  <2> HIDE DEF s
  <2>1. ~Set(s).we
    BY <1>3 DEF Ready
  <2> QED
    BY <1>6, <2>1, NothingStored DEF Shifting, BusInv
<1>8. Writing2'
  <2>1. todo' = <<todo'[1], todo'[2]>> /\ todo'[1] = t /\ todo'[2] = u
    <3> HIDE DEF t, u
    <3> QED
      BY <1>6
  <2>2. Ready(cells, call.at, call.datum)'
    <3> DEFINE p == Set(s)
    <3> HIDE DEF p
    <3>1. Ready(p, call.at, call.datum) /\ cells' = p /\ call' = call /\ Wide' = Wide /\ board' = board
      BY <1>3, <1>5, <1>6 DEF p
    <3> QED
      BY <3>1 DEF Ready, Selected
  <2>3. Across(call.datum)' = Across(d)
    BY <1>5, <1>6 DEF Across
  <2>4. Strobes(name', call'.at, todo'[1], Across(call.datum)')
    BY <1>1, <1>6, <2>1, <2>3
  <2>5. Finishes(name', todo'[2]) /\ Quiets(todo'[1], todo'[2])
    BY <1>1, <1>6, <2>1
  <2> HIDE DEF s, t, u
  <2> QED
    BY <2>1, <2>2, <2>4, <2>5 DEF Writing2
<1>9. UnderWay'
  BY <1>6, <1>8 DEF UnderWay, Written1, Reachable
<1>10. Driven'
  BY <1>5, <1>6, <1>9 DEF Driven, Written1
<1> QED
  BY <1>6, <1>7, <1>10

(* Its second stores its datum where it is told to. *)
LEMMA SecondWriteShift ==
    ASSUME Shifting, Written1, call # Idle, call.width = Wide, Writing2
    PROVE  /\ Driven' /\ call' = call
           /\ \A x \in Address \ {call.at} : mem'[x] = mem[x]
           /\ UNCHANGED <<addressed, answer>>
<1> DEFINE s == todo[1] t == todo[2] p == Set(s)
           D == [h \in board |-> IF p.data[h] \in Fresh THEN p.data[h] ELSE Unknown]
<1>1. todo = <<s, t>> /\ Ready(cells, call.at, call.datum)
      /\ Strobes(name, call.at, s, Across(call.datum)) /\ Finishes(name, t) /\ Quiets(s, t)
  BY DEF Writing2
<1>2. call.at \in Address /\ Shape(cells) /\ pins = cells /\ name \notin Muxed
      /\ mem \in [Address -> [board -> Data]]
  BY DEF Written1, Reachable, Shifting, Driven, Settled, BusInv
<1>3. /\ Moves(s) /\ p.we /\ p.addr = call.at.word /\ Selected(p) = {call.at.bank}
      /\ \A h \in board : h \in Wide => p.data[h] = call.datum
      /\ ~p.oe \/ Sets(t, "oe", FALSE)
  <2> HIDE DEF s, t
  <2>1. ASSUME NEW a \in Address, NEW d, Ready(cells, a, d), Strobes(name, a, s, Across(d))
        PROVE  /\ Moves(s)
               /\ Set(s).we /\ Set(s).addr = a.word /\ Selected(Set(s)) = {a.bank}
               /\ \A h \in board : h \in Wide => Set(s).data[h] = d
               /\ ~Set(s).oe \/ Sets(t, "oe", FALSE)
    <3>1. BusAssumption /\ BusInv /\ Shape(cells) /\ Quiets(s, t)
      BY <1>1, <1>2 DEF Shifting
    <3> QED
      BY <2>1, <3>1, StrobesWrite
  <2> QED
    BY <1>1, <1>2, <2>1
<1>4. Head(todo) = s /\ Len(todo) = 2 /\ Tail(todo) = <<t>>
  <2> HIDE DEF s, t
  <2> QED
    BY <1>1
<1>5. Shape(cells)' /\ pins' = cells' /\ Wide' = Wide
  <2>1. ~s.capture
    BY <1>1 DEF Strobes
  <2> QED
    BY <1>2, <1>3, <1>4, <2>1, ShiftShape DEF Shifting
<1>6. /\ cells' = p /\ UNCHANGED <<name, board>> /\ answer' = answer
      /\ todo' = <<t>> /\ call' = call /\ addressed' = addressed
      /\ \E held : \E words \in WordsWritten(p, held) : mem' = Stored(p, words)
  <2>1. /\ cells' = p /\ UNCHANGED <<name, board>> /\ todo' = Tail(todo)
        /\ call' = IF Len(todo) = 1 THEN Idle ELSE call
        /\ addressed' = IF Len(todo) = 1 THEN call.then ELSE addressed
        /\ \E held : \E words \in WordsWritten(p, held) : mem' = Stored(p, words)
        /\ ~(Len(todo) = 1 /\ call.reads) => answer' = answer
    BY <1>4, ShiftIs DEF Shifting
  <2> HIDE DEF p
  <2> QED
    BY <1>4, <2>1
<1> HIDE DEF p
<1>7. mem' = [mem EXCEPT ![call.at] = D]
  <2>1. ~pins.we => pins.addr = call.at.word
    BY <1>1, <1>2 DEF Ready
  <2>2. PICK held : \E words \in WordsWritten(p, held) : mem' = Stored(p, words)
    BY <1>6
  <2>3. PICK words \in WordsWritten(p, held) : mem' = Stored(p, words)
    BY <2>2
  <2>4. Stored(p, words) = [mem EXCEPT ![call.at] = D]
    BY <1>2, <1>3, <2>1, OneStored
  <2> QED
    BY <2>3, <2>4
<1>8. Wide = board => D = [h \in board |-> call.datum]
  <2>1. call.datum \in Fresh
    BY DEF Written1
  <2> QED
    BY <1>3, <2>1
<1>9. mem'[call.at] = D /\ \A x \in Address \ {call.at} : mem'[x] = mem[x]
  <2> HIDE DEF D
  <2> QED
    BY <1>2, <1>7
<1>10. Written(call.at, call.datum)'
  <2> HIDE DEF D
  <2> QED
    BY <1>5, <1>6, <1>8, <1>9 DEF Written
<1>11. Writing1'
  <2>1. todo' = <<todo'[1]>> /\ todo'[1] = t
    <3> HIDE DEF t
    <3> QED
      BY <1>6
  <2>2. Finishes(name', todo'[1]) /\ cells'.we /\ (~cells'.oe \/ Sets(todo'[1], "oe", FALSE))
    BY <1>1, <1>3, <1>6, <2>1
  <2> HIDE DEF t
  <2> QED
    BY <1>10, <2>1, <2>2 DEF Writing1
<1>12. UnderWay'
  BY <1>6, <1>11 DEF UnderWay, Written1, Reachable
<1>13. Driven'
  BY <1>5, <1>6, <1>12 DEF Driven, Written1
<1> QED
  BY <1>6, <1>9, <1>13

(* Its third ends it. *)
LEMMA LastWriteShift ==
    ASSUME Shifting, Written1, call # Idle, call.width = Wide, Writing1
    PROVE  /\ Driven' /\ mem' = mem /\ UNCHANGED <<addressed, answer, board>>
           /\ Captured => mem[call.at] = [h \in board |-> call.datum]
<1> DEFINE s == todo[1] p == Set(s)
<1>1. todo = <<todo[1]>> /\ Finishes(name, s) /\ (~cells.oe \/ Sets(s, "oe", FALSE))
      /\ Written(call.at, call.datum)
  BY DEF Writing1
<1>2. Head(todo) = s /\ Len(todo) = 1 /\ todo' = << >> /\ call' = Idle /\ addressed' = Nowhere
  BY <1>1, LastIs DEF Shifting, Written1
<1>3. Moves(s) /\ Quiet(p)
  BY <1>1, FinishesQuiet DEF Shifting, Driven
<1>4. Shape(cells)' /\ pins' = cells' /\ (Captured => Wide = board)
  BY <1>2, <1>3, ShiftShape DEF Shifting, Driven
<1>5. /\ cells' = p /\ UNCHANGED <<name, board>> /\ answer' = answer
      /\ \E held : \E words \in WordsWritten(p, held) : mem' = Stored(p, words)
  <2>1. ~(Len(todo) = 1 /\ call.reads)
    BY DEF Written1
  <2> QED
    BY <1>2, <2>1, ShiftIs DEF Shifting
<1> HIDE DEF p
<1>6. mem' = mem
  <2>1. ~p.we
    BY <1>3 DEF Quiet
  <2> QED
    BY <1>5, <2>1, NothingStored DEF Shifting, BusInv
<1>7. Quiet(cells')
  BY <1>3, <1>5 DEF Quiet
<1>8. Driven'
  BY <1>2, <1>4, <1>7 DEF Driven, Quiet
<1>9. addressed' = addressed
  BY <1>2 DEF Written1
<1> QED
  BY <1>1, <1>4, <1>5, <1>6, <1>8, <1>9 DEF Written

(* What a shift of a settled driver does to what is read and written. *)
Moved ==
    \/ addressed = Nowhere /\ addressed' \in Address /\ mem' = mem /\ answer' = answer
       /\ call.op # "write"
    \/ addressed # Nowhere /\ addressed' \in Address \cup {Nowhere} /\ mem' = mem
       /\ (Captured => answer' = mem[addressed]) /\ call.op # "write"
    \/ /\ call.op = "write" /\ call.at \in Address /\ UNCHANGED <<addressed, answer, board>>
       /\ \A x \in Address \ {call.at} : mem'[x] = mem[x]
       /\ call' = Idle /\ Captured => mem'[call.at] = [h \in board |-> call.datum]

LEMMA ShiftMoves ==
    ASSUME Shifting
    PROVE  Driven' /\ Moved
<1>1. call # Idle /\ call.width = Wide /\ UnderWay
  <2>1. todo # << >>
    BY ShiftIs DEF Shifting
  <2> QED
    BY <2>1 DEF Shifting, Driven
<1>2. CASE Starting
  BY <1>2, StartingShift DEF Moved, Starting
<1>3. CASE Going
  BY <1>1, <1>3, GoingShift DEF Moved, Going
<1>4. CASE Ending
  BY <1>1, <1>4, EndingShift DEF Moved, Ending
<1>5. CASE Written1 /\ Writing3
  <2>1. Driven' /\ mem' = mem /\ call' = call /\ UNCHANGED <<addressed, answer>>
    BY <1>1, <1>5, FirstWriteShift
  <2>2. UNCHANGED board
    BY ShiftIs DEF Shifting
  <2> QED
    BY <1>1, <1>5, <2>1, <2>2 DEF Moved, Written1, Reachable
<1>6. CASE Written1 /\ Writing2
  <2>1. Driven' /\ call' = call /\ UNCHANGED <<addressed, answer>>
        /\ \A x \in Address \ {call.at} : mem'[x] = mem[x]
    BY <1>1, <1>6, SecondWriteShift
  <2>2. UNCHANGED board
    BY ShiftIs DEF Shifting
  <2> QED
    BY <1>1, <1>6, <2>1, <2>2 DEF Moved, Written1, Reachable
<1>7. CASE Written1 /\ Writing1
  <2>1. /\ Driven' /\ mem' = mem /\ UNCHANGED <<addressed, answer, board>>
        /\ Captured => mem[call.at] = [h \in board |-> call.datum]
    BY <1>1, <1>7, LastWriteShift
  <2> QED
    BY <1>7, <2>1 DEF Moved, Written1, Reachable
<1>8. Starting \/ Going \/ Ending \/ (Written1 /\ Writing3) \/ (Written1 /\ Writing2)
      \/ (Written1 /\ Writing1)
  BY <1>1 DEF UnderWay, Starting, Going, Ending, Written1
<1> QED
  BY <1>2, <1>3, <1>4, <1>5, <1>6, <1>7, <1>8

LEMMA ShiftInv ==
    ASSUME BusAssumption, Addressable, BusInv, Shift
    PROVE  BusInv'
<1>1. name' = name
  BY ShiftIs
<1>2. name \in Settled => Driven'
  BY ShiftMoves DEF Shifting, BusInv
<1> QED
  BY <1>1, <1>2, ShiftTypes DEF BusInv

-----------------------------------------------------------------------------
(* The theorems.                                                             *)

LEMMA NextInv ==
    ASSUME BusAssumption, Addressable, BusInv, [Next]_vars
    PROVE  BusInv'
<1>1. CASE Shift
  BY <1>1, ShiftInv
<1>2. ASSUME NEW a \in Reachable, ReadStart(a)
      PROVE  BusInv'
  BY <1>2, ReadStartInv
<1>3. ASSUME NEW a \in Reachable, ReadNext(a)
      PROVE  BusInv'
  BY <1>3, ReadNextInv
<1>4. ASSUME NEW a \in Reachable, NEW d \in Fresh, Write(a, d)
      PROVE  BusInv'
  BY <1>4, WriteInv
<1>5. CASE ReadEnd
  BY <1>5, ReadEndInv
<1>6. CASE UNCHANGED vars
  <2>1. UNCHANGED <<name, board, seen, cells, pins, mem, call, todo, addressed>>
    BY <1>6 DEF vars
  <2>2. Wide' = Wide /\ Reachable' = Reachable /\ \A x : Across(x)' = Across(x)
    BY <2>1 DEF Wide, Reachable, Across
  <2>3. Shape(cells)' = Shape(cells)
    BY <2>1, <2>2 DEF Shape
  <2>4. Writing1' = Writing1 /\ Writing2' = Writing2 /\ Writing3' = Writing3
    BY <2>1, <2>2 DEF Writing1, Writing2, Writing3, Written, Ready, Selected, Quiet, Across
  <2>5. UnderWay' = UnderWay
    BY <2>1, <2>2, <2>4 DEF UnderWay, Across
  <2>6. Driven' = Driven
    BY <2>1, <2>2, <2>3, <2>5 DEF Driven, Reads, Selected, Quiet
  <2> QED
    BY <2>1, <2>6 DEF BusInv
<1> QED
  BY <1>1, <1>2, <1>3, <1>4, <1>5, <1>6 DEF Next

(* Between two shifts the pins are as the function under way left them, and  *)
(* the shifts it has left are what it takes to end as it should: BusInv, the *)
(* invariant that the theorems below rest on.                                *)
THEOREM BusInvariant ==
    ASSUME Addressable
    PROVE  Spec => []BusInv
<1>1. Init => BusInv
  BY BusAssumption, InitInv
<1>2. BusInv /\ [Next]_vars => BusInv'
  BY BusAssumption, NextInv
<1> QED
  BY <1>1, <1>2, PTL DEF Spec

(* Two memories, or a memory and the part, never drive the same data line    *)
(* (NoContention), whatever was done before, with any driver whose bus is    *)
(* not multiplexed but h7202.                                                *)
THEOREM OneDrives ==
    ASSUME Addressable, "h7202" \notin Names
    PROVE  Spec => []NoContention
<1>1. ASSUME BusInv
      PROVE  NoContention
  <2>1. CASE name \in Muxed
    BY <2>1 DEF NoContention
  <2>2. CASE name \notin Muxed
    <3>1. Driven
      BY <1>1, <2>2 DEF BusInv, Settled
    <3>2. CASE Answering = {}
      BY <3>2 DEF NoContention
    <3>3. CASE Answering # {}
      <4>1. cells.oe /\ ~cells.we /\ Answering = Selected(cells)
        BY <3>1, <3>3 DEF Answering, Driven
      <4>2. addressed # Nowhere
        <5>1. addressed = Nowhere => call.op = "write"
          BY <3>1, <4>1 DEF Driven, Quiet
        <5>2. call.op = "write" => Writing3 \/ Writing2 \/ Writing1
          BY <3>1 DEF Driven, UnderWay, Idle
        <5>3. ~(Writing3 \/ Writing2 \/ Writing1)
          BY <4>1 DEF Writing3, Writing2, Writing1, Quiet, Ready
        <5> QED
          BY <5>1, <5>2, <5>3
      <4>3. Reads(cells, addressed) /\ pins = cells
        BY <3>1, <4>2 DEF Driven
      <4> QED
        BY <4>1, <4>3 DEF Reads, NoContention
    <3> QED
      BY <3>2, <3>3
  <2> QED
    BY <2>1, <2>2
<1> QED
  BY <1>1, BusInvariant, PTL

(* A shift does what the memory promised does. *)
LEMMA ShiftMemory ==
    ASSUME BusAssumption, Addressable, Captured, BusInv, name \in Settled, Shift
    PROVE  [Memory!Next]_(Memory!vars) /\ Stores
<1>1. Moved /\ Driven
  BY ShiftMoves DEF Shifting, BusInv
<1>2. DOMAIN mem = Address /\ mem \in [Address -> [board -> Data]] /\ mem' \in [Address -> [board' -> Data]]
  BY ShiftTypes DEF BusInv
<1>3. CASE addressed = Nowhere /\ addressed' \in Address /\ mem' = mem /\ answer' = answer
           /\ call.op # "write"
  <2>1. Memory!ReadStart(addressed')
    BY <1>3 DEF Memory!ReadStart
  <2>2. Memory!Next
    BY <1>3, <2>1 DEF Memory!Next
  <2> QED
    BY <1>3, <2>2 DEF Stores
<1>4. CASE addressed # Nowhere /\ addressed' \in Address \cup {Nowhere} /\ mem' = mem
           /\ answer' = mem[addressed] /\ call.op # "write"
  <2>1. Memory!ReadEnd \/ \E a \in Address : Memory!ReadNext(a)
    BY <1>4 DEF Memory!ReadEnd, Memory!ReadNext
  <2>2. Memory!Next
    BY <2>1 DEF Memory!Next
  <2> QED
    BY <1>4, <2>2 DEF Stores
<1>5. CASE /\ call.op = "write" /\ call.at \in Address /\ UNCHANGED <<addressed, answer, board>>
           /\ \A x \in Address \ {call.at} : mem'[x] = mem[x]
           /\ call' = Idle => mem'[call.at] = [h \in board |-> call.datum]
  <2>1. mem' = [mem EXCEPT ![call.at] = mem'[call.at]]
    BY <1>2, <1>5
  <2>2. Memory!Write(call.at, mem'[call.at])
    BY <1>5, <2>1 DEF Memory!Write
  <2>3. Memory!Next
    BY <1>5, <2>2 DEF Memory!Next
  <2> QED
    BY <1>5, <2>3 DEF Stores
<1> QED
  BY <1>1, <1>3, <1>4, <1>5 DEF Moved

(* A function that begins reads and writes nothing. *)
LEMMA BeginMemory ==
    ASSUME BusInv, NEW script, NEW d, NEW op, NEW at, NEW then, Begin(script, d, op, at, then)
    PROVE  [Memory!Next]_(Memory!vars) /\ Stores
<1>1. call = Idle /\ UNCHANGED <<mem, addressed, answer>>
  BY BeginIs
<1>2. call.op # "write"
  BY <1>1 DEF Idle
<1> QED
  BY <1>1, <1>2 DEF Memory!vars, Stores

(* The access functions of the drivers whose buses are not multiplexed, but  *)
(* for h7202, read what is stored where the access before pointed to and     *)
(* write their datum where they are told to and nowhere else (MemorySpec),   *)
(* whatever was done before, strapping pins having been captured.            *)
THEOREM AccessesTrue ==
    ASSUME Addressable, Captured, Names \cap (Muxed \cup {"h7202"}) = {}
    PROVE  Spec => MemorySpec
<1>1. ASSUME Init
      PROVE  Memory!Init
  BY <1>1 DEF Init, Memory!Init
<1>2. ASSUME BusInv, [Next]_vars
      PROVE  [Memory!Next]_(Memory!vars) /\ [Stores]_vars
  <2>1. name \in Settled
    BY <1>2 DEF BusInv, Settled
  <2>2. CASE Shift
    BY <1>2, <2>1, <2>2, BusAssumption, ShiftMemory
  <2>3. CASE \E script, d, op, at, then : Begin(script, d, op, at, then)
    BY <1>2, <2>3, BeginMemory
  <2>4. CASE UNCHANGED vars
    BY <2>4 DEF vars, Memory!vars
  <2>5. ASSUME NEW a, ReadStart(a) \/ ReadNext(a) \/ \E d \in Fresh : Write(a, d)
        PROVE  \E script, d, op, at, then : Begin(script, d, op, at, then)
    BY <2>5 DEF ReadStart, ReadNext, Write
  <2>6. ReadEnd => \E script, d, op, at, then : Begin(script, d, op, at, then)
    BY DEF ReadEnd
  <2> QED
    BY <1>2, <2>2, <2>3, <2>4, <2>5, <2>6 DEF Next
<1>3. Spec => []BusInv
  BY BusInvariant
<1> QED
  BY <1>1, <1>2, <1>3, PTL DEF Spec, MemorySpec, Memory!Spec

=============================================================================
