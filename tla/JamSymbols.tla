----------------------------- MODULE JamSymbols -----------------------------
(***************************************************************************)
(* The names and the expressions of STAPL programs: stapl/jamsym.c and     *)
(* stapl/jamexp.c.  A status is the name of a JAM_RETURN_TYPE.             *)
(***************************************************************************)
EXTENDS Integers, SequencesExt, TLC

NoBlock == "no block"
BlockTypes == {"PROCEDURE", "DATA"}

(* Integer arrays; Boolean arrays, and those that were declared with       *)
(* values, which are constants.                                            *)
BooleanArrays == {"BITS", "CONST_BITS"}
ArrayTypes == BooleanArrays \cup {"INTS"}
VariableTypes == ArrayTypes \cup {"INTEGER", "BOOLEAN"}

(* A symbol table is a function from names to records of what is named.    *)
(* value: of a variable, of an array its elements from the one of index 0, *)
(* of a DATA block whether it has been run; uses: the list of a PROCEDURE; *)
(* parent: the block under way when the symbol was added.  The code keeps  *)
(* arrays and uses lists on a heap and a pointer to them in value, which   *)
(* has 32 bits: here as on hosts whose pointers fit, or all is lost.       *)
Symbol(type, value, position, parent) ==
    [type |-> type, value |-> value, uses |-> <<>>, position |-> position,
     parent |-> parent]

(* scope.version, scope.block, scope.checking: urj_jam_version,            *)
(* urj_jam_current_block, urj_jam_checking_uses_list.                      *)

InProcedure(symbols, scope) ==
    scope.block # NoBlock /\ symbols[scope.block].type = "PROCEDURE"

InData(symbols, scope) ==
    scope.block # NoBlock /\ symbols[scope.block].type = "DATA"

UsesList(symbols, scope) ==
    IF InProcedure(symbols, scope) THEN ToSet(symbols[scope.block].uses) ELSE {}

InScope(symbols, scope, name) ==
    LET s == symbols[name]
    IN  \/ scope.version # 2
        \/ scope.checking /\ s.type \in BlockTypes
        \/ s.parent \in {NoBlock, scope.block}
        \/ name = scope.block
        \/ (IF s.type = "PROCEDURE" THEN name ELSE s.parent) \in UsesList(symbols, scope)

(* urj_jam_get_symbol_record. *)
GetSymbol(symbols, scope, name) ==
    IF name \notin DOMAIN symbols THEN "UNDEFINED_SYMBOL"
    ELSE IF InScope(symbols, scope, name) THEN "SUCCESS" ELSE "SCOPE_ERROR"

(* urj_jam_add_symbol: the same name may be added again from the same      *)
(* statement, as in loops; that gives it its value, but for blocks and     *)
(* outside procedures in version 2.  An array that has become constant may *)
(* be added again in a data block only.                                    *)
AddSymbol(symbols, scope, type, name, value, position) ==
    IF name \notin DOMAIN symbols
    THEN [status |-> "SUCCESS",
          symbols |-> (name :> Symbol(type, value, position, scope.block)) @@ symbols]
    ELSE IF symbols[name].position # position
            \/ symbols[name].type \notin {type} \cup
                   (IF type = "BITS" /\ InData(symbols, scope) THEN {"CONST_BITS"} ELSE {})
    THEN [status |-> "REDEFINED_SYMBOL", symbols |-> symbols]
    ELSE IF scope.version # 2 \/ (type \notin BlockTypes /\ InProcedure(symbols, scope))
    THEN [status |-> "SUCCESS", symbols |-> [symbols EXCEPT ![name].value = value]]
    ELSE [status |-> "SUCCESS", symbols |-> symbols]

-----------------------------------------------------------------------------
(* Expressions: [is |-> "const", value], [is |-> "var", name],             *)
(* [is |-> "element", name, index], or [is |-> "op", op, left, right].     *)

Ints == {"INTEGER", "INT_OR_BOOL"}
Bools == {"BOOLEAN", "INT_OR_BOOL"}

Result(type, value) == [status |-> "SUCCESS", type |-> type, value |-> value]
Failure(status) == [status |-> status, type |-> "ILLEGAL", value |-> 0]

TypeOfValue(v) == IF v \in {0, 1} THEN "INT_OR_BOOL" ELSE "INTEGER"

(* urj_jam_yylex: a constant or the name of a scalar. *)
Scalar(symbols, scope, e) ==
    IF e.is = "const" THEN Result(TypeOfValue(e.value), e.value)
    ELSE LET s == GetSymbol(symbols, scope, e.name)
         IN  IF s # "SUCCESS" THEN Failure(s)
             ELSE IF symbols[e.name].type \in {"INTEGER", "BOOLEAN"}
             THEN Result(symbols[e.name].type, symbols[e.name].value)
             ELSE Failure("SYNTAX_ERROR")

ElementType(type) == IF type = "INTS" THEN "INTEGER" ELSE "BOOLEAN"

(* urj_jam_get_array_value: the element of an array at an index. *)
ElementAt(array, at) ==
    IF array.type \notin ArrayTypes THEN Failure("SYNTAX_ERROR")
    ELSE IF at.status # "SUCCESS" THEN at
    ELSE IF at.type \notin Ints THEN Failure("TYPE_MISMATCH")
    ELSE IF at.value \notin 0 .. Len(array.value) - 1 THEN Failure("BOUNDS_ERROR")
    ELSE Result(ElementType(array.type), array.value[at.value + 1])

Element(symbols, scope, e) ==
    LET s == GetSymbol(symbols, scope, e.name)
    IN  IF s # "SUCCESS" THEN Failure(s)
        ELSE ElementAt(symbols[e.name], Scalar(symbols, scope, e.index))

Operand(symbols, scope, e) ==
    IF e.is = "element" THEN Element(symbols, scope, e) ELSE Scalar(symbols, scope, e)

Truth(p) == IF p THEN 1 ELSE 0

(* urj_jam_exp_eval, but for numbers made of bits, overflow of 32, shifts   *)
(* by less than 0, and what CIEL makes of a quotient or a root.  An operator *)
(* of one operand looks at the left one only, but for FLOOR, which wants two *)
(* numbers and is given one: it always fails.  MOD is C's, by other than 0.  *)
Magnitude(x) == IF x < 0 THEN -x ELSE x
Quotient(a, b) ==
    IF (a < 0) = (b < 0) THEN Magnitude(a) \div Magnitude(b)
    ELSE -(Magnitude(a) \div Magnitude(b))

Unary == {"UMINUS", "ABS", "NOT", "BITWISE_NOT", "LOG2", "SQRT", "CIEL"}

(* A word of 16 bits stands for the 32 of an integer. *)
WordSize == 16
BitOf(n, i) == (n \div 2^i) % 2
Bitwise(a, b, bits) ==
    LET set(i)    == BitOf(a, i) + BitOf(b, i) \in bits
        weight(i) == IF ~set(i) THEN 0 ELSE IF i = WordSize - 1 THEN -(2^i) ELSE 2^i
    IN  FoldSet(LAMBDA i, sum : weight(i) + sum, 0, 0 .. WordSize - 1)

(* The logarithm is rounded up, the root down. *)
Logarithm(a) == CHOOSE n \in 0 .. a : a <= 2^n /\ (n = 0 \/ 2^(n - 1) < a)
Root(a) == CHOOSE n \in 0 .. a : n * n <= a /\ a < (n + 1) * (n + 1)

Defined(op, a) ==
    /\ op = "LOG2" => a > 0
    /\ op = "SQRT" => a >= 0

Arithmetic(op, a, b) ==
    CASE op = "UMINUS" -> -a
      [] op = "ABS"    -> Magnitude(a)
      [] op = "ADD"    -> a + b
      [] op = "SUB"    -> a - b
      [] op = "MULT"   -> a * b
      [] op = "DIV"    -> Quotient(a, b)
      [] op = "MOD"    -> a - b * Quotient(a, b)
      [] op = "LOG2"   -> Logarithm(a)
      [] op = "SQRT"   -> Root(a)
      [] op = "CIEL"   -> a
      [] op = "LEFT_SHIFT"  -> a * 2^b
      [] op = "RIGHT_SHIFT" -> a \div 2^b
      [] op = "BITWISE_NOT" -> -a - 1
      [] op = "BITWISE_AND" -> Bitwise(a, b, {2})
      [] op = "BITWISE_OR"  -> Bitwise(a, b, {1, 2})
      [] op = "BITWISE_XOR" -> Bitwise(a, b, {1})

Numeric == {"UMINUS", "ABS", "ADD", "SUB", "MULT", "DIV", "MOD", "LOG2", "SQRT", "CIEL", "LEFT_SHIFT",
            "RIGHT_SHIFT", "BITWISE_NOT", "BITWISE_AND", "BITWISE_OR", "BITWISE_XOR"}

Logic(op, a, b) ==
    CASE op = "NOT" -> a = 0
      [] op = "AND" -> a # 0 /\ b # 0
      [] op = "OR"  -> a # 0 \/ b # 0

Comparison(op, a, b) ==
    CASE op = "EQUALITY"         -> a = b
      [] op = "INEQUALITY"       -> a # b
      [] op = "GREATER_THAN"     -> a > b
      [] op = "LESS_THAN"        -> a < b
      [] op = "GREATER_OR_EQUAL" -> a >= b
      [] op = "LESS_OR_EQUAL"    -> a <= b

Apply(op, a, b) ==
    LET both(types) == a.type \in types /\ (op \in Unary \/ b.type \in types)
    IN  CASE op \in Numeric /\ both(Ints) ->
                 IF op = "DIV" /\ b.value = 0 THEN Failure("DIVIDE_BY_ZERO")
                 ELSE IF ~Defined(op, a.value) THEN Failure("INTEGER_OVERFLOW")
                 ELSE Result("INTEGER", Arithmetic(op, a.value, b.value))
          [] op = "INT" -> Result("INTEGER", a.value)
          [] op \in {"NOT", "AND", "OR"} /\ both(Bools) ->
                 Result("BOOLEAN", Truth(Logic(op, a.value, b.value)))
          [] \/ op \in {"EQUALITY", "INEQUALITY"} /\ (both(Ints) \/ both(Bools))
             \/ op \in {"GREATER_THAN", "LESS_THAN", "GREATER_OR_EQUAL", "LESS_OR_EQUAL"} /\ both(Ints) ->
                 Result("BOOLEAN", Truth(Comparison(op, a.value, b.value)))
          [] OTHER -> Failure("TYPE_MISMATCH")

(* urj_jam_evaluate_expression. *)
Operation(op, a, b) ==
    IF a.status # "SUCCESS" THEN a ELSE IF b.status # "SUCCESS" THEN b ELSE Apply(op, a, b)

Evaluate(symbols, scope, e) ==
    IF e.is # "op" THEN Operand(symbols, scope, e)
    ELSE Operation(e.op, Operand(symbols, scope, e.left), Operand(symbols, scope, e.right))

OfType(types, r) ==
    IF r.status = "SUCCESS" /\ r.type \notin types THEN Failure("TYPE_MISMATCH") ELSE r

EvaluateAs(types, symbols, scope, e) == OfType(types, Evaluate(symbols, scope, e))

(* Whether a value of a type may be assigned to a variable. *)
Assignable(type, r) == r.type \in {type, "INT_OR_BOOL"}

-----------------------------------------------------------------------------
(* Boolean arrays as arguments: [is |-> "bits", bits], the literal;        *)
(* [is |-> "part", name, from, to]; [is |-> "array", name], nothing        *)
(* between the brackets.                                                   *)

(* urj_jam_get_array_subrange: version 2 names the last one first, and     *)
(* lets nothing stand for all.                                             *)
Bounds(version, from, to) ==
    [status |-> IF from.status # "SUCCESS" THEN from.status ELSE to.status,
     first |-> IF version = 2 THEN to.value ELSE from.value,
     last |-> IF version = 2 THEN from.value ELSE to.value]

Subrange(symbols, scope, e, size) ==
    IF e.is # "part"
    THEN [status |-> IF e.is = "array" /\ scope.version = 2 THEN "SUCCESS" ELSE "SYNTAX_ERROR",
          first |-> 0, last |-> size - 1]
    ELSE Bounds(scope.version, EvaluateAs(Ints, symbols, scope, e.from),
                EvaluateAs(Ints, symbols, scope, e.to))

(* urj_jam_get_array_argument: all elements, and which of them are meant.  *)
Part(status, bits, first, last) ==
    [status |-> status, bits |-> bits, first |-> first, last |-> last]
NoPart(status) == Part(status, <<>>, 0, -1)

PartIn(array, range) ==
    IF array.type \notin BooleanArrays THEN NoPart("TYPE_MISMATCH")
    ELSE IF range.status # "SUCCESS" THEN NoPart(range.status)
    ELSE IF ~({range.first, range.last} \subseteq 0 .. Len(array.value) - 1)
    THEN NoPart("BOUNDS_ERROR")
    ELSE Part("SUCCESS", array.value, range.first, range.last)

Bits(symbols, scope, e) ==
    IF e.is = "bits" THEN Part("SUCCESS", e.bits, 0, Len(e.bits) - 1)
    ELSE IF GetSymbol(symbols, scope, e.name) # "SUCCESS"
    THEN NoPart(GetSymbol(symbols, scope, e.name))
    ELSE PartIn(symbols[e.name], Subrange(symbols, scope, e, Len(symbols[e.name].value)))

(* So many bits of a part, from its first one; the code does not look      *)
(* where the part or the array ends.                                       *)
BitsFrom(part, count) == SubSeq(part.bits, part.first + 1, part.first + count)
=============================================================================
