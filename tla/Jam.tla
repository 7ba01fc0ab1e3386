-------------------------------- MODULE Jam --------------------------------
(***************************************************************************)
(* The STAPL player: stapl/jamexec.c, stapl/jamstack.c and the call of it  *)
(* in stapl/stapl.c.  A program is a sequence of statements.  Statements   *)
(* are executed one at a time; the loops of urj_jam_call_procedure and     *)
(* urj_jam_process_uses_item, which execute statements of their own, and   *)
(* that of urj_jam_process_action are frames.                              *)
(*                                                                         *)
(* Left out: VECTOR and VMAP (which UrJTAG does not support), names that   *)
(* are called although they are no procedures, which the code follows all  *)
(* the same, and what reaches behind the elements of an array, which the   *)
(* code does not refuse in scans, in comparisons, when a part is exported, *)
(* and in POP; arrays have elements, and parts name their bounds the right *)
(* way round.                                                              *)
(***************************************************************************)
EXTENDS JamJtag, JamSymbols

CONSTANTS Programs,     \* texts: sequences of statements
          Asked,        \* the action the user asks for
          Depth,        \* JAMC_MAX_NESTING_DEPTH
          Starts        \* chain and line before: a set of [chain, line]

ASSUME DepthAssumption == Depth \in Nat \ {0}

VARIABLES
    text,
    version,    \* urj_jam_version: 0 until a statement tells
    phase,      \* urj_jam_phase
    block,      \* urj_jam_current_block
    pos,        \* urj_jam_current_file_position
    next,       \* urj_jam_next_statement_position
    again,      \* the statement behind THEN, or None
    stack,      \* urj_jam_stack
    symbols,    \* urj_jam_symbol_table
    frames,     \* the functions under way
    status,     \* the status they return
    done,       \* the exit code, or NotDone
    said,       \* what PRINT and EXPORT said
    jtag,       \* the JTAG side and the hardware
    ended       \* urj_jam_execute has returned

reading == <<pos, next, again>>
place == <<phase, block, frames>>
memory == <<stack, symbols>>
vars == <<text, version, phase, block, pos, next, again, stack, symbols, frames,
          status, done, said, jtag, ended>>

None == [is |-> "none"]
NotDone == 32768        \* larger than every exit code

Init ==
    /\ text \in Programs
    /\ version = 0 /\ phase = "UNKNOWN" /\ block = NoBlock
    /\ pos = 1 /\ next = 1 /\ again = None
    /\ stack = <<>> /\ symbols = <<>> /\ frames = <<>>
    /\ status = "SUCCESS" /\ done = NotDone /\ said = <<>> /\ ended = FALSE
    /\ \E s \in Starts : jtag = InitJtag(s.chain, s.line)

-----------------------------------------------------------------------------
(* The statement under way. *)

Top == frames[Len(frames)]
In(kind) == frames # <<>> /\ Top.is = kind

(* The conditions of the loops that execute statements. *)
Running ==
    /\ status = "SUCCESS"
    /\ \/ (frames = <<>> \/ In("procedure")) /\ done = NotDone
       \/ In("data")

Present == again # None \/ pos \in DOMAIN text
Statement == IF again # None THEN again ELSE text[pos]
NextPosition == IF again # None THEN pos ELSE pos + 1
Here == NextPosition - 1        \* urj_jam_current_statement_position

(* The statements that belong to one version of the language only. *)
Only2 == {"ACTION", "PROCEDURE", "DATA", "FREQUENCY", "ASSIGN"}
Only1 == {"LET", "RETURN", "PADDING"}
Tells2 == (Only2 \ {"ASSIGN"}) \cup {"ENDPROC", "ENDDATA", "TRST"}
Tells1 == Only1 \cup {"BOOLEAN", "BITS", "CALL", "GOTO"}

VersionAfter ==
    IF version # 0 THEN version
    ELSE IF Statement.is \in Tells2 THEN 2 ELSE IF Statement.is \in Tells1 THEN 1 ELSE 0

Scope ==
    [version |-> IF Running /\ Present THEN VersionAfter ELSE version, block |-> block,
     checking |-> In("call") \/ In("data")]

TypeOf(name) ==
    IF GetSymbol(symbols, Scope, name) = "SUCCESS" THEN symbols[name].type ELSE "ILLEGAL"

Phases ==
    CASE Statement.is \in {"ENDPROC", "ENDDATA", "LABEL", "REM"} ->
             {"UNKNOWN", "NOTE", "ACTION", "PROCEDURE", "DATA"}
      [] Statement.is = "NOTE" -> {"UNKNOWN", "NOTE"}
      [] Statement.is = "ACTION" -> {"UNKNOWN", "NOTE", "ACTION"}
      [] Statement.is \in {"DATA", "INTEGER", "BOOLEAN", "INTS", "BITS"} -> {"PROCEDURE", "DATA"}
      [] OTHER -> {"PROCEDURE"}

(* Why a statement is refused whatever its arguments are. *)
Refusal ==
    IF Statement.is = "CRC" THEN "PHASE_ERROR"
    ELSE IF \/ VersionAfter # 2 /\ Statement.is \in Only2
            \/ VersionAfter = 2 /\ Statement.is \in Only1
            \/ Statement.is = "ASSIGN" /\ TypeOf(Statement.name) \notin VariableTypes
    THEN "SYNTAX_ERROR"
    ELSE IF VersionAfter = 2 /\ phase \notin Phases
    THEN IF Statement.is \in BlockTypes /\ phase = "ACTION" THEN "ACTION_NOT_FOUND"
         ELSE "PHASE_ERROR"
    ELSE "SUCCESS"

Executing(instructions) ==
    /\ Running /\ Present
    /\ Statement.is \in instructions
    /\ Refusal = "SUCCESS"
    /\ version' = VersionAfter
    /\ UNCHANGED <<text, ended>>

JumpTo(position) == pos' = position /\ next' = NextPosition /\ again' = None
Proceed == JumpTo(NextPosition)

FirstFailure(results) ==
    LET failed == SelectSeq(results, LAMBDA s : s # "SUCCESS")
    IN  IF failed = <<>> THEN "SUCCESS" ELSE Head(failed)

IntegerValue(e) == EvaluateAs(Ints, symbols, Scope, e)
TypeStatus(name, types) ==
    LET got == GetSymbol(symbols, Scope, name)
    IN  IF got = "SUCCESS" /\ symbols[name].type \notin types THEN "TYPE_MISMATCH" ELSE got

-----------------------------------------------------------------------------
(* The stack.  A full one can be neither looked at nor popped. *)

PeekAt(records) == IF Len(records) < Depth THEN Len(records) ELSE 0
TopIs(kind) == PeekAt(stack) # 0 /\ stack[PeekAt(stack)].is = kind
Popped == SubSeq(stack, 1, Len(stack) - 1)
PushStatus == IF Len(stack) < Depth THEN "SUCCESS" ELSE "OUT_OF_MEMORY"
Pushed(record) == IF Len(stack) < Depth THEN Append(stack, record) ELSE stack
CallRecord(position) == [is |-> "CALL", position |-> position]

-----------------------------------------------------------------------------
(* Declarations and values. *)

Remark ==
    /\ Executing({"NOTE", "REM", "FREQUENCY"})
    /\ phase' = IF Statement.is = "NOTE" /\ phase = "UNKNOWN" THEN "NOTE" ELSE phase
    /\ Proceed
    /\ UNCHANGED <<block, frames, stack, symbols, status, done, said, jtag>>

Label ==
    /\ Executing({"LABEL"})
    /\ LET added == AddSymbol(symbols, Scope, "LABEL", Statement.name, 0, Here)
       IN  status' = added.status /\ symbols' = added.symbols
    /\ Proceed
    /\ UNCHANGED <<phase, block, frames, stack, done, said, jtag>>

(* The name and its first value go to the symbol table. *)
Declared(init) ==
    /\ LET added == AddSymbol(symbols, Scope, Statement.is, Statement.name, init.value, Here)
       IN  IF init.status = "SUCCESS"
           THEN status' = added.status /\ symbols' = added.symbols
           ELSE status' = init.status /\ UNCHANGED symbols
    /\ Proceed
    /\ UNCHANGED <<place, stack, done, said, jtag>>

(* The values of an array, which are as many as its elements; version 2    *)
(* gives the last one first.                                               *)
Given(types, known, size) ==
    LET value(n) == EvaluateAs(types, known, Scope, Statement.values[n])
        missing  == Len(Statement.values) # size
        given    == [n \in DOMAIN Statement.values |-> value(n).value]
    IN  [status |-> FirstFailure([n \in DOMAIN Statement.values |-> value(n).status]
                                 \o <<IF missing THEN "SYNTAX_ERROR" ELSE "SUCCESS">>),
         value  |-> IF VersionAfter = 2 THEN Reverse(given) ELSE given]

(* An array has no value until its declaration gives it one.  One that has *)
(* is left alone, and refused if it is an integer array.                   *)
DeclaredArray(types, typeOfConstants) ==
    LET type  == Statement.is
        name  == Statement.name
        size  == IntegerValue(Statement.size)
        added == AddSymbol(symbols, Scope, type, name, <<>>, Here)
        zero  == [added.symbols EXCEPT ![name].value = [n \in 1 .. size.value |-> 0]]
        given == Given(types, zero, size.value)
    IN  /\ IF size.status # "SUCCESS" \/ added.status # "SUCCESS"
           THEN status' = FirstFailure(<<size.status, added.status>>) /\ UNCHANGED symbols
           ELSE IF added.symbols[name].value # <<>>
           THEN status' = (IF type = "INTS" THEN "SYNTAX_ERROR" ELSE "SUCCESS") /\ UNCHANGED symbols
           ELSE IF Statement.values = <<>> THEN status' = "SUCCESS" /\ symbols' = zero
           ELSE /\ status' = given.status
                /\ symbols' = [zero EXCEPT ![name].type = typeOfConstants, ![name].value = given.value]
        /\ Proceed
        /\ UNCHANGED <<place, stack, done, said, jtag>>

Integer ==
    \/ Executing({"INTEGER"}) /\ Declared(EvaluateAs(Ints, symbols, Scope, Statement.value))
    \/ Executing({"INTS"}) /\ DeclaredArray(Ints, "INTS")

Boolean ==
    \/ Executing({"BOOLEAN"}) /\ Declared(EvaluateAs(Bools, symbols, Scope, Statement.value))
    \/ Executing({"BITS"}) /\ DeclaredArray(Bools, "CONST_BITS")

(* Places of values: None is the scalar itself, an element has an index.   *)
TargetStatus(name, at) ==
    IF at # None /\ TypeOf(name) = "CONST_BITS" THEN "ASSIGN_TO_CONST"
    ELSE TypeStatus(name, IF at = None THEN {"INTEGER", "BOOLEAN"} ELSE {"INTS", "BITS"})

TargetType(name, at) == IF at = None THEN TypeOf(name) ELSE ElementType(TypeOf(name))
Index(at) == IF at = None THEN Result("INTEGER", 0) ELSE IntegerValue(at.index)

Put(name, at, value) ==
    IF at = None THEN [symbols EXCEPT ![name].value = value]
    ELSE [symbols EXCEPT ![name].value[Index(at).value + 1] = value]

(* urj_jam_process_assignment, of scalars and elements. *)
Assign ==
    /\ Executing({"LET", "ASSIGN"}) /\ (Statement.at = None \/ Statement.at.is = "element")
    /\ LET name    == Statement.name
           r       == Evaluate(symbols, Scope, Statement.value)
           fits    == Assignable(TargetType(name, Statement.at), r)
           outside == /\ Statement.at # None /\ TypeOf(name) \in ArrayTypes
                      /\ Index(Statement.at).value \notin 0 .. Len(symbols[name].value) - 1
       IN  /\ status' = FirstFailure(<<TargetStatus(name, Statement.at), Index(Statement.at).status, r.status,
                                       IF ~fits THEN "TYPE_MISMATCH" ELSE "SUCCESS",
                                       IF outside THEN "BOUNDS_ERROR" ELSE "SUCCESS">>)
           /\ symbols' = IF status' = "SUCCESS" THEN Put(name, Statement.at, r.value) ELSE symbols
    /\ Proceed
    /\ UNCHANGED <<place, stack, done, said, jtag>>

(* urj_jam_copy_array_subrange: one bit after the other, also when the     *)
(* parts overlap.                                                          *)
Copied(from, name, first, count) ==
    LET bit(known, n) == LET source == Bits(known, Scope, from) IN source.bits[source.first + n]
    IN  FoldLeft(LAMBDA known, n : [known EXCEPT ![name].value[first + n] = bit(known, n)],
                 symbols, [n \in 1 .. count |-> n])

Length(part) == part.last - part.first + 1
Shorter(a, b) == IF Length(a) < Length(b) THEN Length(a) ELSE Length(b)

(* urj_jam_process_assignment, of parts: what fits is copied.  All of an   *)
(* array may be named here in version 1 as well.                           *)
AssignBits ==
    /\ Executing({"LET", "ASSIGN"}) /\ Statement.at # None /\ Statement.at.is # "element"
    /\ LET name  == Statement.name
           known == FirstFailure(<<TargetStatus(name, Statement.at),
                                   IF TypeOf(name) = "INTS" THEN "SYNTAX_ERROR" ELSE "SUCCESS">>)
           to    == IF Statement.at.is = "array"
                    THEN Part("SUCCESS", <<>>, 0, Len(symbols[name].value) - 1)
                    ELSE Bits(symbols, Scope, Statement.at)
           from  == Bits(symbols, Scope, Statement.value)
       IN  /\ status' =
                   IF known # "SUCCESS" THEN known
                   ELSE FirstFailure(<<to.status, from.status,
                                       IF Shorter(from, to) <= 0 THEN "BOUNDS_ERROR" ELSE "SUCCESS">>)
           /\ symbols' = IF status' = "SUCCESS"
                         THEN Copied(Statement.value, name, to.first, Shorter(from, to)) ELSE symbols
    /\ Proceed
    /\ UNCHANGED <<place, stack, done, said, jtag>>

Says(r, value) ==
    /\ status' = r.status
    /\ said' = IF r.status = "SUCCESS" THEN Append(said, value) ELSE said
    /\ Proceed
    /\ UNCHANGED <<place, memory, done, jtag>>

PrintValue ==
    /\ Executing({"PRINT"})
    /\ LET r == Evaluate(symbols, Scope, Statement.value) IN Says(r, r.value)

(* urj_jam_export_boolean_array, of one line: hexadecimal digits, those of *)
(* the high bits first.                                                    *)
Digits(bits) ==
    LET count == (Len(bits) + 3) \div 4
        bit(i) == IF i \in DOMAIN bits THEN bits[i] ELSE 0
    IN  [k \in 1 .. count |->
            LET low == 4 * (count - k)
            IN  bit(low + 1) + 2 * bit(low + 2) + 4 * bit(low + 3) + 8 * bit(low + 4)]

(* What begins with a name and a bracket is taken for a Boolean array.  A  *)
(* part is looked for at as many bytes behind the first as it has bits     *)
(* before it.                                                              *)
Exported(part) == SubSeq(part.bits, 8 * part.first + 1, 8 * part.first + Length(part))

Export ==
    /\ Executing({"EXPORT"})
    /\ IF Statement.value.is \in {"array", "part", "element"}
       THEN LET r == Bits(symbols, Scope, Statement.value) IN Says(r, Digits(Exported(r)))
       ELSE LET r == Evaluate(symbols, Scope, Statement.value) IN Says(r, r.value)

-----------------------------------------------------------------------------
(* Control within a block. *)

If ==
    /\ Executing({"IF"})
    /\ LET r == EvaluateAs(Bools, symbols, Scope, Statement.value)
       IN  /\ status' = r.status
           /\ again' = IF r.status = "SUCCESS" /\ r.value # 0 THEN Statement.then ELSE None
    /\ pos' = NextPosition /\ next' = NextPosition
    /\ UNCHANGED <<place, memory, done, said, jtag>>

Exit ==
    /\ Executing({"EXIT"})
    /\ LET r == IntegerValue(Statement.value)
       IN  IF r.status # "SUCCESS" THEN status' = r.status /\ UNCHANGED done
           ELSE IF r.value \notin -32767 .. 32767 THEN status' = "INTEGER_OVERFLOW" /\ UNCHANGED done
           ELSE done' = r.value /\ UNCHANGED status
    /\ Proceed
    /\ UNCHANGED <<place, memory, said, jtag>>

(* A step of zero is found before its type is looked at. *)
ForStatus(start, stop, step) ==
    FirstFailure(<<start.status, stop.status,
                   IF Evaluate(symbols, Scope, Statement.step) \in {Result(t, 0) : t \in Ints \cup Bools}
                   THEN "SYNTAX_ERROR" ELSE step.status,
                   TypeStatus(Statement.name, {"INTEGER"}), PushStatus>>)

For ==
    /\ Executing({"FOR"})
    /\ LET start == IntegerValue(Statement.start)
           stop  == IntegerValue(Statement.stop)
           step  == IntegerValue(Statement.step)
       IN  /\ status' = ForStatus(start, stop, step)
           /\ IF status' = "SUCCESS"
              THEN /\ symbols' = [symbols EXCEPT ![Statement.name].value = start.value]
                   /\ stack' = Pushed([is |-> "FOR", iterator |-> Statement.name,
                                       position |-> NextPosition, stop |-> stop.value,
                                       step |-> step.value])
              ELSE UNCHANGED memory
    /\ Proceed
    /\ UNCHANGED <<place, done, said, jtag>>

(* A slip: one round too many. *)
CompletedLate(loop, value) ==
    \/ loop.step > 0 /\ value > loop.stop
    \/ loop.step < 0 /\ value < loop.stop

Completed(loop, value) ==
    \/ loop.step > 0 /\ value >= loop.stop
    \/ loop.step < 0 /\ value <= loop.stop

Next1 ==
    /\ Executing({"NEXT"})
    /\ LET known == TypeStatus(Statement.name, {"INTEGER"})
           loop  == stack[Len(stack)]
           value == symbols[Statement.name].value
       IN  IF known # "SUCCESS" THEN status' = known /\ Proceed /\ UNCHANGED memory
           ELSE IF ~TopIs("FOR") \/ loop.iterator # Statement.name
           THEN status' = "NEXT_UNEXPECTED" /\ Proceed /\ UNCHANGED memory
           ELSE IF Completed(loop, value)
           THEN stack' = Popped /\ Proceed /\ UNCHANGED <<symbols, status>>
           ELSE /\ symbols' = [symbols EXCEPT ![Statement.name].value = value + loop.step]
                /\ JumpTo(loop.position)
                /\ UNCHANGED <<stack, status>>
    /\ UNCHANGED <<place, done, said, jtag>>

Push ==
    /\ Executing({"PUSH"})
    /\ LET r == Evaluate(symbols, Scope, Statement.value)
       IN  /\ status' = FirstFailure(<<r.status, PushStatus>>)
           /\ stack' = IF r.status = "SUCCESS" THEN Pushed([is |-> "PUSH", value |-> r.value]) ELSE stack
    /\ Proceed
    /\ UNCHANGED <<place, symbols, done, said, jtag>>

FitsVariable(name, at, value) ==
    /\ TargetStatus(name, at) = "SUCCESS" /\ Index(at).status = "SUCCESS"
    /\ Assignable(TargetType(name, at), Result(TypeOfValue(value), value))

(* urj_jam_process_pop: the type of the variable is compared last, and an  *)
(* index with nothing.                                                     *)
Pop ==
    /\ Executing({"POP"})
    /\ IF TopIs("PUSH")
       THEN LET value == stack[Len(stack)].value
                fits  == FitsVariable(Statement.name, Statement.at, value)
            IN  /\ stack' = Popped
                /\ status' = IF fits THEN "SUCCESS" ELSE "TYPE_MISMATCH"
                /\ symbols' = IF fits THEN Put(Statement.name, Statement.at, value) ELSE symbols
       ELSE status' = "POP_UNEXPECTED" /\ UNCHANGED memory
    /\ Proceed
    /\ UNCHANGED <<place, done, said, jtag>>

-----------------------------------------------------------------------------
(* Jumps and calls of labels. *)

(* The labels ahead of a statement, read in order of their positions until *)
(* the one asked for; in version 2 not beyond the procedure.               *)
LabelsAhead(name) ==
    LET ahead(i) == {k \in NextPosition .. Len(text) : k <= i /\ text[k].is = "LABEL"}
        found == {i \in ahead(Len(text)) :
                    /\ text[i].name = name
                    /\ \A k \in ahead(i) \ {i} : text[k].name # name
                    /\ VersionAfter = 2 =>
                          \A k \in NextPosition .. i : text[k].is # "ENDPROC"}
        read(i) ==
            FoldLeft(LAMBDA r, k : IF r.status = "SUCCESS"
                                   THEN AddSymbol(r.symbols, Scope, "LABEL", text[k].name, 0, k) ELSE r,
                     [status |-> "SUCCESS", symbols |-> symbols],
                     SetToSortSeq(ahead(i), <))
    IN  IF found = {} THEN [status |-> "UNDEFINED_SYMBOL", symbols |-> symbols, at |-> 0]
        ELSE LET i == CHOOSE i \in found : TRUE
             IN  [status |-> IF read(i).status = "SUCCESS" THEN "SUCCESS" ELSE "UNDEFINED_SYMBOL",
                  symbols |-> read(i).symbols, at |-> i]

(* Where a GOTO or CALL leads: 0 is nowhere, for names of other things.    *)
Destination(name) ==
    LET got == GetSymbol(symbols, Scope, name)
    IN  IF got = "UNDEFINED_SYMBOL" THEN LabelsAhead(name)
        ELSE [status |-> got, symbols |-> symbols,
              at |-> IF TypeOf(name) = "LABEL" THEN symbols[name].position ELSE 0]

Goto1 ==
    /\ Executing({"GOTO"})
    /\ LET d == Destination(Statement.name)
       IN  /\ status' = d.status /\ symbols' = d.symbols
           /\ IF d.status = "SUCCESS" /\ d.at # 0 THEN JumpTo(d.at) ELSE Proceed
    /\ UNCHANGED <<place, stack, done, said, jtag>>

CallLabel ==
    /\ Executing({"CALL"}) /\ version' # 2
    /\ LET d     == Destination(Statement.name)
           jumps == d.status = "SUCCESS" /\ d.at # 0
       IN  /\ symbols' = d.symbols
           /\ status' = IF jumps THEN PushStatus ELSE d.status
           /\ stack' = IF jumps THEN Pushed(CallRecord(NextPosition)) ELSE stack
           /\ IF jumps THEN JumpTo(d.at) ELSE Proceed
    /\ UNCHANGED <<place, done, said, jtag>>

-----------------------------------------------------------------------------
(* Blocks: PROCEDURE and DATA. *)

(* urj_jam_process_procedure, urj_jam_process_data: of the statement at i. *)
BlockAdded(known, i) ==
    LET st    == text[i]
        added == AddSymbol(known, Scope, st.is, st.name, 0, i)
        got   == IF added.status = "SUCCESS" THEN GetSymbol(added.symbols, Scope, st.name)
                 ELSE added.status
    IN  [status |-> got,
         symbols |-> IF got = "SUCCESS" /\ st.is = "PROCEDURE" /\ added.symbols[st.name].uses = <<>>
                     THEN [added.symbols EXCEPT ![st.name].uses = st.uses] ELSE added.symbols]

Block ==
    /\ Executing(BlockTypes)
    /\ LET added == BlockAdded(symbols, Here)
       IN  status' = added.status /\ symbols' = added.symbols
    /\ Proceed
    /\ UNCHANGED <<place, stack, done, said, jtag>>

(* The search ahead for a block, which adds all blocks it passes; the name *)
(* is looked up behind statements of the given types.                      *)
BlockAhead(name, types) ==
    LET look(r, i) ==
            LET added == BlockAdded(r.symbols, i)
                got   == GetSymbol(added.symbols, Scope, name)
            IN  IF r.status # "UNDEFINED_SYMBOL" \/ text[i].is \notin BlockTypes THEN r
                ELSE [status  |-> IF added.status # "SUCCESS" THEN added.status
                                  ELSE IF text[i].is \in types THEN got ELSE r.status,
                      symbols |-> added.symbols, behind |-> i + 1]
        r == FoldLeft(look, [status |-> "UNDEFINED_SYMBOL", symbols |-> symbols, behind |-> pos],
                      [k \in 1 .. Len(text) - pos + 1 |-> pos + k - 1])
    IN  [r EXCEPT !.status = IF @ = "SUCCESS" THEN @ ELSE "UNDEFINED_SYMBOL"]

(* A block by its name, with the file read as far as was needed.           *)
BlockFound(name, types) ==
    LET got == GetSymbol(symbols, Scope, name)
    IN  IF got = "UNDEFINED_SYMBOL" THEN BlockAhead(name, types)
        ELSE [status |-> got, symbols |-> symbols, behind |-> pos]

(* A slip: only calls from actions go through the uses list. *)
CallFrameFromAction(name, known, ret) ==
    [is |-> "call", name |-> name, uses |-> IF In("action") THEN known[name].uses ELSE <<>>,
     ret |-> ret, block |-> block, phase |-> phase]

(* The frame of urj_jam_call_procedure before its loop: the uses list is   *)
(* gone through first.  ret: return_position.                              *)
CallFrame(name, known, ret) ==
    [is |-> "call", name |-> name, uses |-> known[name].uses, ret |-> ret,
     block |-> block, phase |-> phase]

(* An action without procedures is entered all the same, but not the end   *)
(* of the program.                                                         *)
Action ==
    /\ Executing({"ACTION"})
    /\ phase' = IF Statement.name = Asked THEN "PROCEDURE" ELSE "ACTION"
    /\ frames' = IF Statement.name = Asked /\ Statement.procedures # <<>>
                 THEN Append(frames, [is |-> "action", rest |-> Statement.procedures]) ELSE frames
    /\ Proceed
    /\ UNCHANGED <<block, memory, status, done, said, jtag>>

(* The loop of urj_jam_process_action.  It does not look at done: what an  *)
(* EXIT left to call is prepared and left at once.  The list of values     *)
(* that ask for OPTIONAL or decline RECOMMENDED procedures is empty.       *)
NextProcedure ==
    /\ status = "SUCCESS" /\ In("action") /\ Top.rest # <<>>
    /\ LET p     == Head(Top.rest)
           found == BlockFound(p.name, {"PROCEDURE"})
           rest  == [frames EXCEPT ![Len(frames)].rest = Tail(@)]
       IN  IF p.when = "OPTIONAL"
           THEN frames' = rest /\ UNCHANGED <<symbols, status, pos, next>>
           ELSE /\ status' = found.status /\ symbols' = found.symbols
                /\ pos' = found.behind
                /\ next' = IF found.behind # pos THEN found.behind ELSE next
                /\ frames' = IF found.status = "SUCCESS"
                             THEN Append(rest, CallFrame(p.name, found.symbols, next)) ELSE frames
    /\ UNCHANGED <<text, version, phase, block, again, stack, done, said, jtag, ended>>

ActionEnds ==
    /\ status = "SUCCESS" /\ In("action") /\ Top.rest = <<>>
    /\ done' = IF done = NotDone THEN 0 ELSE done
    /\ frames' = <<>>
    /\ UNCHANGED <<text, version, phase, block, reading, memory, status, said, jtag, ended>>

(* urj_jam_call_procedure_from_procedure.  The blocks of the uses list are *)
(* known: they were looked up when the procedure was called.               *)
CallProcedure ==
    /\ Executing({"CALL"}) /\ version' = 2
    /\ LET allowed == InProcedure(symbols, Scope) /\
                      Statement.name \in {block} \cup UsesList(symbols, Scope)
           got     == GetSymbol(symbols, Scope, Statement.name)
       IN  /\ allowed => TypeOf(Statement.name) # "DATA"
           /\ status' = IF allowed THEN got ELSE "SCOPE_ERROR"
           /\ frames' = IF status' = "SUCCESS"
                        THEN Append(frames, CallFrame(Statement.name, symbols, NextPosition)) ELSE frames
    /\ Proceed
    /\ UNCHANGED <<phase, block, memory, done, said, jtag>>

(* urj_jam_process_uses_item: a procedure is only looked up, a data block  *)
(* that has not been is executed.  A known name of something else has no   *)
(* block_position.                                                         *)
NextUse ==
    /\ status = "SUCCESS" /\ In("call") /\ Top.uses # <<>>
    /\ LET name  == Head(Top.uses)
           found == BlockFound(name, BlockTypes)
           rest  == [frames EXCEPT ![Len(frames)].uses = Tail(@)]
           used  == found.symbols[name]
           data  == [is |-> "data", name |-> name, original |-> PeekAt(stack),
                     block |-> block, phase |-> phase]
       IN  /\ symbols' = found.symbols
           /\ IF found.status # "SUCCESS" \/ used.type \notin BlockTypes
              THEN /\ status' = IF found.status # "SUCCESS" THEN found.status ELSE "INTERNAL_ERROR"
                   /\ UNCHANGED <<frames, pos, next, block, phase, stack>>
              ELSE IF used.type = "DATA" /\ used.value = 0
              THEN /\ status' = PushStatus /\ stack' = Pushed(CallRecord(next))
                   /\ frames' = Append(rest, data)
                   /\ pos' = used.position
                   /\ next' = IF found.behind # pos THEN found.behind ELSE next
                   /\ block' = name /\ phase' = "DATA"
              ELSE /\ frames' = rest
                   /\ pos' = found.behind
                   /\ next' = IF found.behind # pos THEN found.behind ELSE next
                   /\ UNCHANGED <<block, phase, stack, status>>
    /\ UNCHANGED <<text, version, again, done, said, jtag, ended>>

EnterProcedure ==
    /\ status = "SUCCESS" /\ In("call") /\ Top.uses = <<>>
    /\ status' = PushStatus /\ stack' = Pushed(CallRecord(Top.ret))
    /\ frames' = [frames EXCEPT ![Len(frames)] =
                     [is |-> "procedure", name |-> Top.name, original |-> PeekAt(stack),
                      block |-> Top.block, phase |-> Top.phase]]
    /\ pos' = symbols[Top.name].position
    /\ block' = Top.name /\ phase' = "PROCEDURE"
    /\ UNCHANGED <<text, version, next, again, symbols, done, said, jtag, ended>>

(* The procedure under way is left by an EXIT; its record stays.           *)
LeaveProcedure ==
    /\ status = "SUCCESS" /\ In("procedure") /\ done # NotDone
    /\ block' = Top.block /\ phase' = Top.phase
    /\ frames' = SubSeq(frames, 1, Len(frames) - 1)
    /\ UNCHANGED <<text, version, reading, memory, status, done, said, jtag, ended>>

Ends == [procedure |-> "ENDPROC", data |-> "ENDDATA"]

(* A slip: the stack is looked at before the record is popped. *)
LeavesBefore(records) ==
    /\ frames # <<>> /\ Ends[Top.is] = Statement.is
    /\ Top.original = PeekAt(stack)

(* Whether an end ends the loop of the frame as well. *)
Leaves(records) ==
    /\ frames # <<>> /\ Ends[Top.is] = Statement.is
    /\ Top.original = PeekAt(records)

(* urj_jam_process_return and the condition behind it. *)
Return ==
    /\ Executing({"RETURN", "ENDPROC", "ENDDATA"})
    /\ IF ~TopIs("CALL")
       THEN status' = "RETURN_UNEXPECTED" /\ Proceed /\ UNCHANGED <<stack, symbols, place>>
       ELSE /\ stack' = Popped
            /\ JumpTo(stack[Len(stack)].position)
            /\ IF Leaves(stack')
               THEN /\ block' = Top.block /\ phase' = Top.phase
                    /\ frames' = SubSeq(frames, 1, Len(frames) - 1)
                    /\ symbols' = IF In("data") THEN [symbols EXCEPT ![Top.name].value = 1] ELSE symbols
               ELSE UNCHANGED <<place, symbols>>
            /\ UNCHANGED status
    /\ UNCHANGED <<done, said, jtag>>

-----------------------------------------------------------------------------
(* Statements that clock the chain. *)

JtagStatement(instructions) ==
    /\ Executing(instructions)
    /\ Proceed
    /\ UNCHANGED <<place, stack, done, said>>

Completes(j) == jtag' = j /\ status' = IF j.ok THEN "SUCCESS" ELSE "INTERNAL_ERROR"

(* STATE: one state after the other; without success no further. *)
State ==
    /\ JtagStatement({"STATE"})
    /\ Completes(FoldLeft(LAMBDA j, s : IF j.ok THEN Goto(j, s) ELSE j, jtag, Statement.states))
    /\ UNCHANGED symbols

(* An end state of Run-Test/Idle is taken for the lack of one.             *)
Onwards(waited) ==
    IF waited.ok /\ Statement.end # "RUN_TEST_IDLE" THEN Goto(waited, Statement.end) ELSE waited

Waits(instruction) ==
    /\ JtagStatement({instruction})
    /\ LET r == IntegerValue(Statement.count)
       IN  IF r.status # "SUCCESS" THEN status' = r.status /\ UNCHANGED jtag
           ELSE Completes(Onwards(IF Statement.unit = "CYCLES"
                                  THEN WaitCycles(jtag, r.value, Statement.wait)
                                  ELSE WaitMicroseconds(jtag, Statement.wait)))
    /\ UNCHANGED symbols

Wait == Waits("WAIT")

(* urj_jam_process_trst does nothing but wait. *)
Trst == Waits("TRST")

Path(instruction) == IF instruction \in {"DRSTOP", "PREDR", "POSTDR", "DRSCAN"} THEN "DR" ELSE "IR"

Stop ==
    /\ JtagStatement({"DRSTOP", "IRSTOP"})
    /\ jtag' = SetStop(jtag, Path(Statement.is), Statement.state)
    /\ UNCHANGED <<symbols, status>>

CountStatus(r) ==
    IF r.status # "SUCCESS" THEN r.status
    ELSE IF r.value \in 0 .. 1000 THEN "SUCCESS" ELSE "SYNTAX_ERROR"

PrePost ==
    /\ JtagStatement({"PREDR", "PREIR", "POSTDR", "POSTIR"})
    /\ LET count == IntegerValue(Statement.count)
           bits  == IF Statement.data = None THEN Part("SUCCESS", <<>>, 0, -1)
                    ELSE Bits(symbols, Scope, Statement.data)
           data  == IF Statement.data = None THEN <<>> ELSE BitsFrom(bits, count.value)
           short == Statement.data # None /\ bits.last < bits.first + count.value - 1
       IN  /\ status' = FirstFailure(<<CountStatus(count), bits.status,
                                       IF short THEN "BOUNDS_ERROR" ELSE "SUCCESS">>)
           /\ jtag' = IF status' # "SUCCESS" THEN jtag
                      ELSE IF Statement.is \in {"PREDR", "PREIR"}
                      THEN SetPreamble(jtag, Path(Statement.is), count.value, data)
                      ELSE SetPostamble(jtag, Path(Statement.is), count.value, data)
    /\ UNCHANGED symbols

(* PADDING: before and after data, before and after instructions. *)
Pad ==
    /\ JtagStatement({"PADDING"})
    /\ LET n(i) == IntegerValue(Statement.counts[i])
       IN  /\ status' = FirstFailure([i \in 1 .. 4 |-> CountStatus(n(i))])
           /\ jtag' = IF status' # "SUCCESS" THEN jtag
                      ELSE SetPostamble(SetPreamble(
                               SetPostamble(SetPreamble(jtag, "DR", n(1).value, <<>>), "DR", n(2).value, <<>>),
                               "IR", n(3).value, <<>>), "IR", n(4).value, <<>>)
    /\ UNCHANGED symbols

(* DRSCAN and IRSCAN, with CAPTURE and COMPARE, which IRSCAN has only one  *)
(* of.  A part that is compared is as long as the data; of literals the    *)
(* rest is left.                                                           *)
FitStatus(e, part, count) ==
    LET last == IF e.is = "bits" /\ part.last > count - 1 THEN count - 1 ELSE part.last
    IN  IF part.status # "SUCCESS" THEN part.status
        ELSE IF last = part.first + count - 1 THEN "SUCCESS" ELSE "BOUNDS_ERROR"

ArrayStatus(e, count) ==
    IF e = None THEN "SUCCESS" ELSE FitStatus(e, Bits(symbols, Scope, e), count)

CaptureStatus(st, count) ==
    IF st.capture = None THEN "SUCCESS"
    ELSE IF st.capture.is = "bits" \/ (st.is = "IRSCAN" /\ st.expect # None) THEN "SYNTAX_ERROR"
    ELSE ArrayStatus(st.capture, count)

(* A slip: the mask is not used. *)
MatchesAllBits(out, expected, mask) == \A i \in DOMAIN out : out[i] = expected[i]

Matches(out, expected, mask) == \A i \in DOMAIN out : mask[i] = 1 => out[i] = expected[i]

(* The bits go to their place in the array, also of one that is constant.  *)
Captured(known, st, out) ==
    IF st.capture = None THEN known
    ELSE LET first == Bits(known, Scope, st.capture).first
         IN  [known EXCEPT ![st.capture.name].value =
                 [n \in DOMAIN @ |-> IF n - first \in DOMAIN out THEN out[n - first] ELSE @[n]]]

(* The comparison begins at the index where the capture does, in what is   *)
(* expected and in the mask as well.                                       *)
Compared(known, st, out) ==
    LET shift == IF st.capture = None THEN 0 ELSE Bits(known, Scope, st.capture).first
        value(part) == SubSeq(part.bits, part.first + shift + 1, part.first + shift + Len(out))
    IN  IF st.expect = None THEN known
        ELSE [known EXCEPT ![st.result].value =
                 Truth(Matches(out, value(Bits(known, Scope, st.expect)), value(Bits(known, Scope, st.mask))))]

(* A data scan tells no failures apart before it looks for COMPARE. *)
ToldAs(instruction, failure) ==
    IF failure # "SUCCESS" /\ instruction = "DRSCAN" THEN "SYNTAX_ERROR" ELSE failure

ScanStatus(st, count) ==
    LET before == FirstFailure(<<count.status, Bits(symbols, Scope, st.data).status,
                                 CaptureStatus(st, count.value)>>)
    IN  FirstFailure(<<ToldAs(st.is, before), ArrayStatus(st.expect, count.value), ArrayStatus(st.mask, count.value),
                       IF st.expect = None THEN "SUCCESS" ELSE TypeStatus(st.result, {"BOOLEAN"})>>)

(* As many bits of the data as the statement counts. *)
ScanData(known, st) == BitsFrom(Bits(known, Scope, st.data), IntegerValue(st.count).value)

Ran(st, j) ==
    /\ Completes(j)
    /\ symbols' = IF j.ok THEN Compared(Captured(symbols, st, j.captured), st, j.captured) ELSE symbols

Scans(instruction) ==
    /\ JtagStatement({instruction})
    /\ LET st      == Statement
           checked == ScanStatus(st, IntegerValue(st.count))
       IN  IF checked # "SUCCESS" THEN status' = checked /\ UNCHANGED <<jtag, symbols>>
           ELSE Ran(st, Scan(jtag, Path(st.is), ScanData(symbols, st)))

DrScan == Scans("DRSCAN")
IrScan == Scans("IRSCAN")
ScanStatement == DrScan \/ IrScan

-----------------------------------------------------------------------------
(* The end. *)

Refuse ==
    /\ Running /\ Present /\ Refusal # "SUCCESS"
    /\ status' = Refusal /\ version' = VersionAfter
    /\ UNCHANGED <<text, place, reading, memory, done, said, jtag, ended>>

EndOfFile ==
    /\ Running /\ ~Present
    /\ status' = "UNEXPECTED_END"
    /\ UNCHANGED <<text, version, place, reading, memory, done, said, jtag, ended>>

Finish ==
    /\ ~ended
    /\ (status # "SUCCESS" \/ (frames = <<>> /\ done # NotDone))
    /\ ended' = TRUE /\ frames' = <<>>
    /\ jtag' = FreePadding(jtag, TRUE)
    /\ UNCHANGED <<text, version, phase, block, reading, memory, status, done, said>>

Ended == ended /\ UNCHANGED vars

Data == Remark \/ Label \/ Integer \/ Boolean \/ Assign \/ AssignBits \/ PrintValue \/ Export
Control == If \/ Exit \/ For \/ Next1 \/ Push \/ Pop \/ Goto1 \/ CallLabel \/ Return
Blocks == Block \/ Action \/ NextProcedure \/ ActionEnds \/ CallProcedure \/ NextUse
          \/ EnterProcedure \/ LeaveProcedure
Clocking == State \/ Wait \/ Trst \/ Stop \/ PrePost \/ Pad \/ ScanStatement
Ending == Refuse \/ EndOfFile \/ Finish

Next == Data \/ Control \/ Blocks \/ Clocking \/ Ending \/ Ended
Spec == Init /\ [][Next]_vars

-----------------------------------------------------------------------------
(* Properties. *)

(* What the player takes to be the state of the controllers is their       *)
(* state, and the state of the chain is no other, however the statements   *)
(* have led there; it reaches every state it goes to.                      *)
JamStateTrue ==
    /\ jtag.ok
    /\ jtag.state # Unknown => jtag.line.tap = jtag.state
    /\ jtag.chain # Unknown => jtag.line.tap = jtag.chain

Calls == SelectSeq([i \in DOMAIN stack |-> i], LAMBDA i : stack[i].is = "CALL")
Bodies == SelectSeq(frames, LAMBDA f : f.is \in {"procedure", "data"})

(* In a program with actions the call records of the stack are those of    *)
(* the procedures and the data blocks under way, each right above what was *)
(* on the stack when its block was entered: loops and values left on the   *)
(* stack are always those of the innermost block.                          *)
CallsOnStack ==
    version = 2 /\ status = "SUCCESS" /\ done = NotDone =>
        Calls = [k \in DOMAIN Bodies |-> Bodies[k].original + 1]

(* A block runs only when each data block it uses has been run: its        *)
(* variables have their values.                                            *)
DataReady ==
    status = "SUCCESS" /\ In("procedure") =>
        \A name \in ToSet(symbols[Top.name].uses) :
            symbols[name].type = "DATA" => symbols[name].value = 1

(* A scan shifts the preamble, its data and the postamble through the      *)
(* chain and nothing else, ends in the stop state, captures what the cells *)
(* at the place of its data held, into the part named and nowhere else,    *)
(* and finds a match when that is what was expected under the mask.        *)
Scanned ==
    LET st     == Statement
        path   == Path(st.is)
        data   == ScanData(symbols, st)
        value(known, e) == BitsFrom(Bits(known, Scope, e), Len(data))
        others(known) == [n \in DOMAIN known[st.capture.name].value \
                              (Bits(known, Scope, st.capture).first + 1 .. Bits(known, Scope, st.capture).last + 1) |->
                          known[st.capture.name].value[n]]
        stream == jtag.line.cells \o jtag.pre[path] \o data \o jtag.post[path]
        first  == Len(jtag.pre[path]) + 1
        out    == SubSeq(stream, first, first + Len(data) - 1)
    IN  /\ jtag'.line.cells = SubSeq(stream, Len(stream) - Cells + 1, Len(stream))
        /\ jtag'.line.tap = jtag.stop[path]
        /\ st.capture # None => value(symbols', st.capture) = out /\ others(symbols') = others(symbols)
        /\ st.expect # None =>
               symbols'[st.result].value =
                   Truth(\A i \in DOMAIN out :
                             \/ value(symbols', st.mask)[i] = 0
                             \/ out[i] = value(symbols', st.expect)[i])

ScansExchange ==
    [][ScanStatement /\ status' = "SUCCESS" /\ jtag.line.tap \notin ShiftStates => Scanned]_vars

(* EXPORT of a Boolean array gives the bits of the part it names, from the *)
(* first one to the last.                                                  *)
ExportTrue ==
    [][Export /\ status' = "SUCCESS" /\ Statement.value.is \in {"array", "part"} =>
           LET part == Bits(symbols, Scope, Statement.value)
           IN  Last(said') = Digits(BitsFrom(part, Length(part)))]_vars
=============================================================================
