------------------------------- MODULE MCJam -------------------------------
(* Jam on a chain of two cells, with three families of programs: sequences  *)
(* of statements that clock the chain; programs of two procedures and a     *)
(* data block, written from trees whose meaning is computed as well; and    *)
(* bodies with jumps, stack statements and mistakes.                        *)
EXTENDS Jam

Num(n) == [is |-> "const", value |-> n]
Var(name) == [is |-> "var", name |-> name]
Op(op, left, right) == [is |-> "op", op |-> op, left |-> left, right |-> right]
Lit(bits) == [is |-> "bits", bits |-> bits]
Arr(name) == [is |-> "array", name |-> name]
PartOf(name, from, to) == [is |-> "part", name |-> name, from |-> Num(from), to |-> Num(to)]
El(name, e) == [is |-> "element", name |-> name, index |-> e]

ActionOf(name, procedures) == [is |-> "ACTION", name |-> name, procedures |-> procedures]
Always(name) == [name |-> name, when |-> "ALWAYS"]
Optional(name) == [name |-> name, when |-> "OPTIONAL"]
Procedure(name, uses) == [is |-> "PROCEDURE", name |-> name, uses |-> uses]
DataOf(name) == [is |-> "DATA", name |-> name]
LabelOf(name) == [is |-> "LABEL", name |-> name]
Just(instruction) == [is |-> instruction]
Named(instruction, name) == [is |-> instruction, name |-> name]
Place(instruction, at, e) == [is |-> instruction, name |-> at.name, at |-> at, value |-> e]
Of(instruction, name, e) == [is |-> instruction, name |-> name, at |-> None, value |-> e]
PopTo(at) == [is |-> "POP", name |-> at.name, at |-> IF at.is = "var" THEN None ELSE at]
Array(instruction, name, size, values) ==
    [is |-> instruction, name |-> name, size |-> Num(size), values |-> [n \in DOMAIN values |-> Num(values[n])]]
BitsOf(name, size) == Array("BITS", name, size, <<>>)
PrintOf(e) == [is |-> "PRINT", value |-> e]
ExportOf(e) == [is |-> "EXPORT", value |-> e]
IfThen(e, st) == [is |-> "IF", value |-> e, then |-> st]
ExitWith(e) == [is |-> "EXIT", value |-> e]
ForTo(name, a, b, s) ==
    [is |-> "FOR", name |-> name, start |-> Num(a), stop |-> Num(b), step |-> Num(s)]
PushOf(e) == [is |-> "PUSH", value |-> e]

WaitFor(s, unit, n, end) == [is |-> "WAIT", wait |-> s, unit |-> unit, count |-> Num(n), end |-> end]
StopAt(instruction, s) == [is |-> instruction, state |-> s]
PadWith(instruction, n, data) == [is |-> instruction, count |-> Num(n), data |-> data]
ScanOf(instruction, n, data) ==
    [is |-> instruction, count |-> Num(n), data |-> data, capture |-> None, expect |-> None, mask |-> None,
     result |-> "none"]

(* The bare program: one action of one procedure. *)
OneProcedure(body) ==
    <<ActionOf("go", <<Always("p")>>), Procedure("p", <<>>)>> \o body \o <<Just("ENDPROC")>>

-----------------------------------------------------------------------------
(* Programs that clock the chain. *)

Clock ==
    {[is |-> "STATE", states |-> <<"PAUSE_IR">>],
     [is |-> "STATE", states |-> <<"TEST_LOGIC_RESET", "PAUSE_DR">>],
     WaitFor("PAUSE_IR", "CYCLES", 2, "RUN_TEST_IDLE"),
     WaitFor("RUN_TEST_IDLE", "MICROSECONDS", 1, "PAUSE_DR"),
     WaitFor("TEST_LOGIC_RESET", "CYCLES", 1, "TEST_LOGIC_RESET"),
     StopAt("DRSTOP", "PAUSE_DR"), StopAt("DRSTOP", "TEST_LOGIC_RESET"),
     StopAt("IRSTOP", "PAUSE_IR"), StopAt("IRSTOP", "PAUSE_DR"),
     PadWith("PREDR", 1, None), PadWith("POSTDR", 2, Lit(<<0, 1>>)),
     PadWith("PREIR", 1, Lit(<<0>>)), PadWith("POSTIR", 1, None),
     ScanOf("IRSCAN", 2, Lit(<<1, 0>>)),
     [ScanOf("DRSCAN", 3, Lit(<<0, 1, 1>>)) EXCEPT !.capture = PartOf("a", 3, 1)],
     [ScanOf("DRSCAN", 3, PartOf("a", 3, 1)) EXCEPT
         !.capture = PartOf("a", 2, 0), !.expect = Lit(<<0, 1, 1>>), !.mask = Lit(<<1, 0, 1>>), !.result = "b"],
     [ScanOf("IRSCAN", 2, Lit(<<0, 1, 1>>)) EXCEPT
         !.expect = Lit(<<1, 0, 0>>), !.mask = Lit(<<1, 1, 1>>), !.result = "b"]}

MCClock ==
    {OneProcedure(<<BitsOf("a", 4), Of("BOOLEAN", "b", Num(0))>> \o body) :
        body \in [1 .. 3 -> Clock]}

-----------------------------------------------------------------------------
(* Trees: what is said, set, called, repeated, done on a condition.         *)

SayT(e) == [is |-> "say", e |-> e]
SetT(name, e) == [is |-> "set", name |-> name, e |-> e]
IfT(e, t) == [is |-> "if", e |-> e, t |-> t]
SetAtT(at, e) == [is |-> "setat", at |-> at, e |-> e]
CopyT(at, part) == [is |-> "copy", at |-> at, part |-> part]
CallT == [is |-> "call"]
ExitT(n) == [is |-> "exit", n |-> n]
LoopT(name, a, b, s, body) ==
    [is |-> "loop", name |-> name, a |-> a, b |-> b, s |-> s, body |-> body]

(* Bodies have loops within loops, and no deeper. *)
Rewrite(body, f(_)) == FlattenSeq([n \in DOMAIN body |-> f(body[n])])
Loops(body, f(_)) ==
    LET outer(t) == IF t.is = "loop" THEN f(t) ELSE <<t>>
    IN  Rewrite(Rewrite(body, outer), outer)

(* The text of a body. *)
TextOf(body) ==
    LET opened(t) == <<ForTo(t.name, t.a, t.b, t.s)>> \o t.body \o <<Named("NEXT", t.name)>>
        simple(t) ==
            CASE t.is = "say"  -> PrintOf(t.e)
              [] t.is = "set"  -> Of("ASSIGN", t.name, t.e)
              [] t.is = "setat" -> Place("ASSIGN", t.at, t.e)
              [] t.is = "copy" -> Place("ASSIGN", t.at, t.part)
              [] t.is = "call" -> Named("CALL", "q")
              [] t.is = "exit" -> ExitWith(Num(t.n))
              [] OTHER         -> t
        st(t) == <<IF t.is = "if" THEN IfThen(t.e, simple(t.t)) ELSE simple(t)>>
    IN  Rewrite(Loops(body, opened), st)

(* What it means: its loops are unrolled, its calls replaced by the code    *)
(* of q, and its conditions made into skips over what they guard.           *)
CodeOf(body, q) ==
    LET round(t, v)  == <<SetT(t.name, Num(v))>> \o t.body
        rounds(t)    == FlattenSeq([n \in 1 .. Quotient(t.b - t.a, t.s) + 1 |->
                                       round(t, t.a + (n - 1) * t.s)])
        inlined(t)   == IF t.is = "call" THEN <<SetT("j", Num(0))>> \o q ELSE <<t>>
        code(t)      == IF t.is # "if" THEN inlined(t)
                        ELSE <<[is |-> "unless", e |-> t.e, n |-> Len(inlined(t.t))]>> \o inlined(t.t)
    IN  Rewrite(Loops(body, rounds), code)

(* q calls itself three times at most. *)
CodeOfCalled(body) == FoldLeft(LAMBDA q, n : CodeOf(body, q), <<>>, <<1, 2, 3, 4>>)

ValueIn(mem, e) ==
    LET scalar(y) == IF y.is = "const" THEN y.value ELSE mem[y.name]
        v(y) == IF y.is = "element" THEN mem[y.name][scalar(y.index) + 1] ELSE scalar(y)
    IN  IF e.is # "op" THEN v(e)
        ELSE CASE e.op = "ADD" -> v(e.left) + v(e.right)
               [] e.op = "SUB" -> v(e.left) - v(e.right)
               [] e.op = "EQUALITY" -> Truth(v(e.left) = v(e.right))
               [] e.op = "GREATER_THAN" -> Truth(v(e.left) > v(e.right))

(* Version 2 names the last element of a part first. *)
CopiedTo(mem, to, from) ==
    LET by == from.to.value - to.to.value
    IN  [n \in DOMAIN mem[to.name] |->
            IF n - 1 \in to.to.value .. to.from.value THEN mem[from.name][n + by] ELSE mem[to.name][n]]

Meaning(k, t) ==
    CASE k.done # NotDone -> k
      [] k.done = NotDone /\ k.skip > 0 -> [k EXCEPT !.skip = @ - 1]
      [] OTHER ->
            CASE t.is = "say"    -> [k EXCEPT !.said = Append(@, ValueIn(k.mem, t.e))]
              [] t.is = "set"    -> [k EXCEPT !.mem[t.name] = ValueIn(k.mem, t.e)]
              [] t.is = "setat"  -> [k EXCEPT !.mem[t.at.name][ValueIn(k.mem, t.at.index) + 1] =
                                                  ValueIn(k.mem, t.e)]
              [] t.is = "copy"   -> [k EXCEPT !.mem[t.at.name] = CopiedTo(k.mem, t.at, t.part)]
              [] t.is = "exit"   -> [k EXCEPT !.done = t.n]
              [] t.is = "unless" -> [k EXCEPT !.skip = IF ValueIn(k.mem, t.e) # 0 THEN 0 ELSE t.n]

x == Var("x")
MainBodies ==
    {<<SayT(x), CallT, SayT(x)>>,
     <<LoopT("i", 0, 1, 1, <<CallT, SayT(Var("i"))>>), SayT(x)>>,
     <<LoopT("i", 2, 0, -1, <<LoopT("k", 1, 3, 2, <<SayT(Op("SUB", Var("k"), Var("i")))>>),
                              IfT(Op("EQUALITY", Var("i"), Num(1)), CallT)>>)>>,
     <<SetT("i", x), CallT, IfT(Op("GREATER_THAN", x, Var("i")), ExitT(3)), SayT(Num(7))>>}
WithArrays ==
    {<<LoopT("i", 0, 2, 1, <<SetAtT(El("t", Var("i")), Op("ADD", El("t", Var("i")), x)), CallT>>),
       SayT(El("t", Num(0))), SayT(Op("SUB", El("t", Num(2)), El("t", Num(1))))>>,
     <<LoopT("k", 0, 3, 1, <<SetAtT(El("m", Var("k")), Op("EQUALITY", Var("k"), Num(1)))>>), CallT,
       CopyT(PartOf("m", 3, 2), PartOf("m", 1, 0)), CopyT(PartOf("m", 1, 0), PartOf("c", 2, 1)),
       LoopT("k", 0, 3, 1, <<SayT(El("m", Var("k")))>>)>>}
WithoutData == {<<CallT, SayT(Num(7)), CallT>>}
CalledBodies ==
    {<<SetT("x", Op("ADD", x, Num(1)))>>,
     <<SayT(x), SetT("x", Op("SUB", x, Num(1))), IfT(Op("GREATER_THAN", x, Num(0)), CallT), SayT(Num(5))>>,
     <<LoopT("j", 0, 2, 1, <<SetT("x", Op("ADD", x, Var("j")))>>),
       IfT(Op("GREATER_THAN", x, Num(7)), ExitT(4)), SayT(Var("j"))>>,
     <<SayT(Var("j")), SetT("j", x), SayT(Var("j"))>>}

Orders == {<<1, 2, 3>>, <<1, 3, 2>>, <<2, 1, 3>>, <<2, 3, 1>>, <<3, 1, 2>>, <<3, 2, 1>>}
Lists == {<<Always("p")>>, <<Always("p"), Always("q")>>, <<Optional("q"), Always("q"), Always("p")>>}

Trees == [main : MainBodies, called : CalledBodies, order : Orders, list : Lists,
          uses : {<<"d", "q">>, <<"q", "d">>}]
         \cup [main : WithArrays, called : {<<SetT("x", Op("ADD", x, Num(1)))>>}, order : Orders,
               list : Lists, uses : {<<"d", "q">>}]
         \cup [main : WithoutData, called : CalledBodies, order : Orders, list : Lists,
               uses : {<<"q">>}]

Text(tree) ==
    LET p == <<Procedure("p", tree.uses), Of("INTEGER", "i", Num(0)), Of("INTEGER", "k", Num(0)), BitsOf("m", 4)>>
             \o TextOf(tree.main) \o <<Just("ENDPROC")>>
        q == <<Procedure("q", <<"d">>), Of("INTEGER", "j", Num(0))>>
             \o TextOf(tree.called) \o <<Just("ENDPROC")>>
        d == <<DataOf("d"), Of("INTEGER", "x", Num(2)), Array("INTS", "t", 3, <<7, 6, 5>>),
               Array("BITS", "c", 3, <<1, 0, 1>>), Just("ENDDATA")>>
        blocks == <<p, q, d>>
    IN  <<ActionOf("other", <<Always("p")>>), ActionOf("go", tree.list)>>
        \o blocks[tree.order[1]] \o blocks[tree.order[2]] \o blocks[tree.order[3]]

(* What a program means: its procedures one after the other. *)
MeaningOf(tree) ==
    LET start == [mem |-> [x |-> 2, i |-> 0, j |-> 0, k |-> 0,
                           t |-> <<5, 6, 7>>, c |-> <<1, 0, 1>>, m |-> <<0, 0, 0, 0>>],
                  said |-> <<>>, done |-> NotDone, skip |-> 0]
        body(p) == CASE p.when = "OPTIONAL" -> <<>>
                     [] p.when # "OPTIONAL" /\ p.name = "p" -> tree.main
                     [] p.when # "OPTIONAL" /\ p.name = "q" -> <<CallT>>
        code(p) == CodeOf(body(p), CodeOfCalled(tree.called))
    IN  FoldLeft(Meaning, start, Rewrite(tree.list, code))

Meant == {[text |-> Text(tree), means |-> MeaningOf(tree)] : tree \in Trees}

(* A program of procedures, loops, calls and data says what it means: what *)
(* it has said is always the beginning of that, and in the end it has said *)
(* all of it, without an error, and has the exit code it means.            *)
SaysWhatItMeans ==
    \A p \in Meant :
        text = p.text =>
            /\ IsPrefix(said, p.means.said)
            /\ ended => /\ said = p.means.said /\ status = "SUCCESS"
                        /\ done = IF p.means.done = NotDone THEN 0 ELSE p.means.done

-----------------------------------------------------------------------------
(* Jumps, values on the stack, version 1, and mistakes. *)

i == Var("i")
I == Of("INTEGER", "i", Num(0))

(* Bodies for either version. *)
Bodies3 ==
    {(* A jump back and one ahead over a label, out of no loop. *)
     <<I, Named("GOTO", "ahead"), LabelOf("back"), PrintOf(i), ExitWith(Num(1)),
       LabelOf("ahead"), Of("BOOLEAN", "b", Num(1)), IfThen(Var("b"), Named("GOTO", "back"))>>,
     (* Values through the stack, in a loop. *)
     <<I, ForTo("i", 0, 1, 1), PushOf(i), PushOf(Num(5)), PopTo(Var("i")), PopTo(Var("i")),
       Named("NEXT", "i"), PrintOf(Op("DIV", Num(-7), Num(2)))>>,
     (* A jump out of a loop leaves its record. *)
     <<I, ForTo("i", 0, 1, 1), Named("GOTO", "out"), Named("NEXT", "i"), LabelOf("out")>>,
     (* Mistakes. *)
     <<I, Named("NEXT", "i")>>, <<I, PopTo(Var("i"))>>, <<I, ForTo("i", 0, 1, 0)>>,
     <<I, ForTo("i", 0, 1, 1), PopTo(Var("i"))>>,
     <<I, PushOf(Num(2)), Of("BOOLEAN", "b", Num(0)), PopTo(Var("b"))>>,
     <<Named("GOTO", "nowhere")>>, <<I, I>>, <<Of("BOOLEAN", "b", Num(2))>>,
     <<I, PrintOf(Op("DIV", i, Num(0)))>>, <<PrintOf(Var("unknown"))>>, <<Just("CRC")>>,
     <<I, Of("BOOLEAN", "b", Op("LESS_THAN", i, Num(1))), PrintOf(Op("ADD", i, Var("b")))>>,
     <<I, Of("BOOLEAN", "b", Op("NOT", i, i))>>,
     <<PrintOf(Op("UMINUS", Num(7), Num(0))), PrintOf(Op("ABS", Num(-7), Num(0))),
       PrintOf(Op("MOD", Num(-7), Num(2))), PrintOf(Op("MULT", Num(-7), Num(2))),
       PrintOf(Op("NOT", Num(1), Num(0))), PrintOf(Op("OR", Num(1), Num(0))),
       PrintOf(Op("INEQUALITY", Num(3), Num(4))), PrintOf(Op("LESS_OR_EQUAL", Num(3), Num(4))),
       PrintOf(Op("GREATER_OR_EQUAL", Num(3), Num(4))), PrintOf(Op("AND", Num(3), Num(1)))>>,
     <<PrintOf(Op("LOG2", Num(5), Num(0))), PrintOf(Op("LOG2", Num(8), Num(0))),
       PrintOf(Op("SQRT", Num(8), Num(0))), PrintOf(Op("CIEL", Num(8), Num(0))),
       PrintOf(Op("LEFT_SHIFT", Num(-5), Num(2))), PrintOf(Op("RIGHT_SHIFT", Num(-5), Num(1))),
       PrintOf(Op("BITWISE_NOT", Num(5), Num(0))), PrintOf(Op("BITWISE_AND", Num(-2), Num(7))),
       PrintOf(Op("BITWISE_OR", Num(-8), Num(5))), PrintOf(Op("BITWISE_XOR", Num(-1), Num(5))),
       PrintOf(Op("INT", Num(1), Num(0))), PrintOf(Op("FLOOR", Num(8), Num(0)))>>,
     <<PrintOf(Op("LOG2", Num(0), Num(0)))>>, <<PrintOf(Op("SQRT", Num(-4), Num(0)))>>,
     <<ExitWith(Num(40000))>>,
     (* More records than the stack holds. *)
     <<I, LabelOf("more"), PushOf(i), Named("GOTO", "more")>>,
     <<BitsOf("a", 1), ScanOf("DRSCAN", 2, Lit(<<1, 0>>)),
       [ScanOf("DRSCAN", 2, Lit(<<1, 0>>)) EXCEPT !.capture = Arr("a")]>>,
     (* Less than an array has, and no number of bits. *)
     <<BitsOf("a", 3), Of("BOOLEAN", "b", Num(1)), ScanOf("DRSCAN", 2, Arr("a")),
       [ScanOf("IRSCAN", 1, Arr("a")) EXCEPT !.count = Var("b")]>>,
     (* Five bits, two digits. *)
     <<BitsOf("a", 5), [ScanOf("DRSCAN", 5, Lit(<<1, 0, 1, 1, 0>>)) EXCEPT !.capture = Arr("a")],
       ExportOf(Arr("a")), ExportOf(Num(9)), ExportOf(Arr("b"))>>,
     (* Elements, behind the last one, of a scalar, of the wrong type, as a *)
     (* part, and values that are too few or that are there already.        *)
     <<Array("INTS", "t", 2, <<3, 4>>), PushOf(Num(9)), PopTo(El("t", Num(0))), PrintOf(El("t", Num(0))),
       PrintOf(El("t", Num(1))), PrintOf(El("t", Num(2)))>>,
     <<I, PrintOf(El("i", Num(0)))>>,
     <<BitsOf("a", 2), Of("BOOLEAN", "b", Num(0)), PrintOf(El("a", Var("b")))>>,
     <<BitsOf("a", 2), PrintOf(El("a", Num(1))), ExportOf(El("a", Num(1)))>>,
     <<Array("INTS", "t", 2, <<3>>)>>,
     <<Array("BITS", "c", 3, <<1, 0, 0>>), PrintOf(El("c", Num(0))), PushOf(Num(1)), PopTo(El("c", Num(0)))>>,
     <<I, LabelOf("more"), Array("INTS", "t", 1, <<3>>), IfThen(Op("EQUALITY", El("t", Num(0)), Num(3)),
       Named("GOTO", "more"))>>,
     <<LabelOf("more"), Array("BITS", "c", 1, <<1>>), Named("GOTO", "more")>>,
     (* A part to scan, to pad with, and outside. *)
     <<BitsOf("a", 4), ScanOf("DRSCAN", 2, PartOf("a", 2, 1)), ScanOf("DRSCAN", 2, PartOf("a", 1, 2)),
       PadWith("PREDR", 1, PartOf("a", 0, 0)), ExportOf(PartOf("a", 4, 0))>>,
     <<PadWith("PREIR", -1, None)>>, <<PadWith("POSTIR", 2, Lit(<<1>>))>>}

(* Assignments to arrays, of each version. *)
Assigning(let) ==
    {<<BitsOf("a", 4), Array("BITS", "c", 3, <<0, 1, 1>>), Place(let, Arr("a"), Lit(<<1, 1>>)),
       Place(let, El("a", Num(3)), Num(1)), PrintOf(El("a", Num(0))), PrintOf(El("a", Num(3))),
       Place(let, PartOf("a", 3, 2), PartOf("c", 1, 0)), PrintOf(El("a", Num(3))),
       Place(let, El("c", Num(0)), Num(1))>>,
     (* Onto itself. *)
     <<BitsOf("a", 4), Place(let, El("a", Num(0)), Num(1)),
       Place(let, PartOf("a", 3, 1), PartOf("a", 2, 0)), Place(let, PartOf("a", 1, 3), PartOf("a", 0, 2)),
       PrintOf(El("a", Num(3)))>>,
     <<Array("INTS", "t", 2, <<>>), Place(let, El("t", Num(1)), Num(7)), PrintOf(El("t", Num(1))),
       Place(let, El("t", Num(2)), Num(7))>>,
     <<Array("INTS", "t", 2, <<>>), Place(let, Arr("t"), Lit(<<1>>))>>,
     <<BitsOf("a", 2), Place(let, El("a", Num(0)), Num(2))>>}

(* Version 1: calls of labels. *)
Paddings == [is |-> "PADDING", counts |-> <<Num(1), Num(0), Num(0), Num(2)>>]
Version1 ==
    {<<Just("REM"), I, Named("CALL", "sub"), PrintOf(i), ExitWith(Num(0)),
       LabelOf("sub"), Of("LET", "i", Op("ADD", i, Num(1))), Just("RETURN")>>,
     <<I, Just("RETURN")>>, <<Of("LET", "i", Num(1))>>,
     <<Paddings, ScanOf("IRSCAN", 1, Lit(<<0>>)), ScanOf("DRSCAN", 1, Lit(<<1>>)), ExitWith(Num(0))>>,
     <<Of("BOOLEAN", "b", Num(0)), Just("FREQUENCY")>>} \cup Assigning("LET")

(* Version 2: blocks that are not there, not allowed or not blocks. *)
Version2 ==
    {<<Just("NOTE")>>,
     <<Just("NOTE"), ActionOf("other", <<>>)>>,
     <<ActionOf("go", <<>>)>>,
     <<ActionOf("go", <<Always("missing")>>), Procedure("p", <<>>), Just("ENDPROC")>>,
     <<ActionOf("other", <<>>), Procedure("p", <<>>), Just("ENDPROC")>>,
     <<ActionOf("go", <<Always("p")>>), Procedure("p", <<"missing">>), Just("ENDPROC")>>,
     OneProcedure(<<Named("CALL", "q"), Just("ENDPROC"), Procedure("q", <<>>)>>),
     OneProcedure(<<Named("CALL", "p")>>),
     (* A use that is no block. *)
     <<LabelOf("top"), ActionOf("go", <<Always("p")>>), Procedure("p", <<"top">>), Just("ENDPROC")>>,
     (* A constant array in a procedure that is called twice. *)
     <<ActionOf("go", <<Always("p"), Always("p")>>), Procedure("p", <<>>), Array("BITS", "c", 1, <<1>>),
       Just("ENDPROC")>>,
     OneProcedure(<<I, IfThen(i, Just("CRC")), Of("LET", "i", i)>>),
     OneProcedure(<<[WaitFor("PAUSE_DR", "CYCLES", 1, "RUN_TEST_IDLE") EXCEPT !.is = "TRST"]>>),
     <<ActionOf("go", <<Always("p"), Always("q")>>), Procedure("p", <<>>), ExitWith(Num(6)),
       Just("ENDPROC"), Procedure("q", <<"d">>), Just("ENDPROC"),
       DataOf("d"), Of("INTEGER", "x", Num(1)), Just("ENDDATA")>>}
    \cup {OneProcedure(b) : b \in Assigning("ASSIGN")}

MCOthers == Bodies3 \cup Version1 \cup Version2 \cup {OneProcedure(b) : b \in Bodies3}

MCPrograms == MCClock \cup {p.text : p \in Meant} \cup MCOthers

(* A part that does not begin with the array is captured and compared.     *)
MCCapture ==
    {OneProcedure(<<BitsOf("a", 4), Array("BITS", "e", 4, <<1, 1, 1, 0>>), Array("BITS", "m", 4, <<1, 1, 1, 1>>),
                    Of("BOOLEAN", "b", Num(0)),
                    [ScanOf("DRSCAN", 2, Lit(<<1, 0>>)) EXCEPT
                        !.capture = PartOf("a", from + 1, from), !.expect = PartOf("e", 1, 0),
                        !.mask = PartOf("m", 1, 0), !.result = "b"]>>) : from \in 0 .. 2}

(* A part of an array of two bytes is exported. *)
MCExport ==
    {OneProcedure(<<Array("BITS", "a", 16, <<0, 0, 0, 0, 0, 0, 0, 0, 0, 0, 0, 0, 0, 0, 1, 0>>),
                    ExportOf(PartOf("a", from + 3, from))>>) : from \in 0 .. 1}

-----------------------------------------------------------------------------
(* A chain whose state is known and one whose state is not. *)
MCStarts ==
    {[chain |-> s.chain,
      line |-> [tap |-> s.tap, cells |-> <<0, 1>>, high |-> {"TRST"}, wired |-> TRUE]] :
        s \in {[chain |-> "RUN_TEST_IDLE", tap |-> "RUN_TEST_IDLE"],
                [chain |-> Unknown, tap |-> "SHIFT_DR"]}}
=============================================================================
