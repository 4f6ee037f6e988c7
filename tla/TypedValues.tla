---------------------------- MODULE TypedValues -----------------------------
(***************************************************************************)
(* The straight-line code of StackCode as values of the value IR, with     *)
(* their types, and the instructions -O1 emits for each value              *)
(* (compiler/value_ir/value_ir.c, compiler/backend_m68k/optimized.c).      *)
(*                                                                         *)
(* ValueIR models joins and loops on words of one type; here there are no  *)
(* phis, and the widths and signs of the types decide what may be folded   *)
(* and which short form of an instruction does the same as the long one.   *)
(* Of the registers only those of the parameters are modelled: a value is  *)
(* computed from its left operand in a destination, combined with a        *)
(* source.                                                                 *)
(***************************************************************************)
EXTENDS StackCode

CONSTANTS
    QuickLimit,     \* the greatest addq.l and subq.l operand (8)
    ShiftLimit      \* the greatest immediate shift (8)

ASSUME QuickAssumption == {QuickLimit, ShiftLimit} \subseteq Nat \ {0}

VARIABLES
    values,         \* the value table; the first ones are the parameters
    result          \* the value the function returns; 0 if refused

valueVars == <<values, result>>
allVars == <<parserVars, codeVars, valueVars>>
-----------------------------------------------------------------------------
(* Making values.  An operator takes the table vs and returns the table it *)
(* leaves and a value in it; value 0 stands for a refused program.         *)

Value(op, type, left, right, imm, place) ==
    [op |-> op, type |-> type, left |-> left, right |-> right, imm |-> imm,
     place |-> place]
Yields(vs, id) == [values |-> vs, id |-> id]
AddValue(vs, value) == Yields(Append(vs, value), Len(vs) + 1)

(* Mutant: constants are not brought to their type.                        *)
MutantMakeConstant(vs, type, word) ==
    AddValue(vs, Value("const", type, 0, 0, Wrap(word), 0))

MakeConstant(vs, type, word) ==
    AddValue(vs, Value("const", type, 0, 0, Normalize(type, word), 0))

IsConstant(vs, id) == vs[id].op = "const"
Is(vs, id, word) == IsConstant(vs, id) /\ vs[id].imm = word

MakeNeg(vs, id) ==
    CASE vs[id].op = "const" ->
           MakeConstant(vs, vs[id].type, Negated(vs[id].imm))
      [] vs[id].op = "neg" -> Yields(vs, vs[id].left)
      [] OTHER -> AddValue(vs, Value("neg", vs[id].type, id, 0, 0, 0))

MakeNormalize(vs, id, type) ==
    CASE vs[id].type = type -> Yields(vs, id)
      [] vs[id].type # type /\ IsConstant(vs, id) ->
           MakeConstant(vs, type, vs[id].imm)
      [] OTHER -> AddValue(vs, Value("normalize", type, id, 0, 0, 0))

(* Mutant: any subtraction of like operands is folded, divisions too.      *)
MutantShortcut(vs, op, type, l, r) ==
    IF op \in {"sub", "div", "div_u"} /\ l = r THEN <<0>> ELSE <<>>

(* What make_binary knows of a result without both operands: <<word>>.     *)
Shortcut(vs, op, type, l, r) ==
    CASE op = "sub" /\ l = r -> <<0>>
      [] op = "mul" /\ Is(vs, r, 0) -> <<0>>
      [] op \in Comparisons /\ l = r ->
           <<Truth(op \in {"eq", "le", "ge", "le_u", "ge_u"})>>
      [] OTHER -> <<>>

(* The operand that is the result.                                         *)
Neutral(vs, op, r) ==
    \/ op \in {"add", "sub"} /\ Is(vs, r, 0)
    \/ op \in {"mul", "div", "div_u"} /\ Is(vs, r, 1)

(* make_binary, once a lone constant of a sum or product is on the right.  *)
Fold(vs, op, l, r, place) ==
    LET operands == vs[l].type
        type == IF op \in Comparisons THEN "bool" ELSE operands
        known == Shortcut(vs, op, operands, l, r)
    IN  CASE op \in Divisions /\ Is(vs, r, 0) -> Yields(vs, 0)
          [] ~(op \in Divisions /\ Is(vs, r, 0)) ->
               IF IsConstant(vs, l) /\ IsConstant(vs, r)
               THEN MakeConstant(vs, type,
                                 Apply(op, operands, vs[l].imm, vs[r].imm))
               ELSE IF Neutral(vs, op, r) THEN Yields(vs, l)
               ELSE IF known # <<>> THEN MakeConstant(vs, type, known[1])
               ELSE IF op = "div" /\ Is(vs, r, Modulus - 1)
                    THEN MakeNeg(vs, l)
               ELSE AddValue(vs, Value(op, type, l, r, 0, place))

MakeOperation(vs, op, l, r, place) ==
    IF op \in {"add", "mul"} /\ IsConstant(vs, l) /\ ~IsConstant(vs, r)
    THEN Fold(vs, op, r, l, place) ELSE Fold(vs, op, l, r, place)

(* lower_block_values, one instruction: ids instead of words.              *)
LowerValue(b, i) ==
    LET size == Len(b.stack)
        Under(n) == SubSeq(b.stack, 1, size - n)
        Leave(made, n) ==
            [b EXCEPT !.values = made.values,
                      !.stack = Append(Under(n), made.id),
                      !.refused = made.id = 0]
    IN  IF b.refused THEN b
        ELSE CASE i.opcode = "push" ->
                    Leave(MakeConstant(b.values, i.type, Pushed(i)), 0)
               [] i.opcode = "parameter" -> Leave(Yields(b.values, i.value), 0)
               [] i.opcode = "local" ->
                    Leave(Yields(b.values, b.locals[i.value]), 0)
               [] i.opcode = "store" ->
                    [b EXCEPT !.stack = Under(1),
                              !.locals[i.value] = b.stack[size]]
               [] i.opcode = "neg" ->
                    Leave(MakeNeg(b.values, b.stack[size]), 1)
               [] i.opcode = "normalize" ->
                    Leave(MakeNormalize(b.values, b.stack[size], i.type), 1)
               [] i.opcode \in Arithmetic \cup Comparisons ->
                    Leave(MakeOperation(b.values, i.opcode, b.stack[size - 1],
                                        b.stack[size], i.place), 2)
               [] i.opcode = "return" ->
                    [b EXCEPT !.stack = Under(1), !.result = b.stack[size]]

Parameters ==
    [p \in 1 .. ParameterCount |->
        Value("param", signature.parameters[p], 0, 0, 0, 0)]

BuildValues ==
    FoldLeft(LowerValue,
             [values |-> Parameters, stack |-> <<>>, result |-> 0,
              locals |-> [l \in 1 .. local_count |-> 0], refused |-> FALSE],
             code)
-----------------------------------------------------------------------------
(* mark_live_values: the result, the divisions that may fault, and what    *)
(* they need.                                                              *)

(* Mutant: a division nobody uses is not computed.                         *)
MutantMayFault(id) == FALSE

MayFault(id) == values[id].op \in Divisions
                /\ ~IsConstant(values, values[id].right)

Live ==
    LET ids == DOMAIN values
        live[id \in ids] == \/ id = result \/ MayFault(id)
                            \/ \E user \in ids :
                                  /\ user > id /\ live[user]
                                  /\ id \in {values[user].left,
                                             values[user].right}
    IN  {id \in ids : live[id]}
-----------------------------------------------------------------------------
(* The parameters: scalars stay in the registers of the ABI, addresses are *)
(* copied to data registers no live scalar is in.                          *)

LiveParameters(address) ==
    SelectSeq([p \in 1 .. ParameterCount |-> p],
              LAMBDA p : p \in Live /\ IsAddress(p) = address)

(* Mutant: a register is free if no address is in it.                      *)
MutantFree(homes) ==
    (0 .. Registers - 1)
    \ {homes[p] : p \in {q \in DOMAIN homes : IsAddress(q)}}

Free(homes) == (0 .. Registers - 1) \ Range(homes)

(* build_allocation_plan, as far as parameters go.                         *)
Homes ==
    LET Place(homes, p) == homes @@ (p :> IF IsAddress(p) THEN Min(Free(homes))
                                          ELSE ClassIndex(p))
    IN  FoldLeft(Place, <<>>, LiveParameters(FALSE) \o LiveParameters(TRUE))

(* The data registers after the prologue (emit_address_parameter_copies).  *)
DataAtEntry ==
    LET Copy(data, p) == [data EXCEPT ![Homes[p]] = Arriving(argument, p)]
    IN  FoldLeft(Copy, Passed(argument, FALSE), LiveParameters(TRUE))

(* What validate_value_function asks of the constants.                     *)
ConstantsValid ==
    \A id \in DOMAIN values :
        IsConstant(values, id) =>
            Acceptable(values[id].type, values[id].imm)
-----------------------------------------------------------------------------
(* The instructions of a value.  Each combines the destination, where the  *)
(* left operand already is, with a word: an immediate, the source register *)
(* or another one.                                                         *)

Immediate(op, word) == [op |-> op, from |-> "immediate", word |-> word]
Register(op, from) == [op |-> op, from |-> from, word |-> 0]

(* addq.l and subq.l for small constants and small negative ones           *)
(* (emit_add_immediate, emit_sub_immediate).                               *)
Quick(op, opposite, word) ==
    IF word >= Modulus - QuickLimit THEN Immediate(opposite, Negated(word))
    ELSE Immediate(op, word)

(* Mutant: the power of two next below is taken.                           *)
MutantShifts(word) == {s \in 1 .. ShiftLimit : 2 ^ s <= word}

(* power_of_two_shift *)
Shifts(word) == {s \in 1 .. ShiftLimit : 2 ^ s = word}

(* Mutant: three times a value, even in the register that holds the value. *)
MutantTimesThree(word, in_place) == word = 3

TimesThree(word, in_place) == word = 3 /\ ~in_place

(* emit_multiply by a constant; in_place: the destination is the register  *)
(* of the left operand, which then is overwritten.                         *)
Multiply(word, in_place) ==
    IF word = 2 THEN <<Register("add.l", "destination")>>
    ELSE IF TimesThree(word, in_place)
         THEN <<Register("add.l", "destination"),
                Register("add.l", IF in_place THEN "destination" ELSE "left")>>
    ELSE IF Shifts(word) # {}
         THEN <<Immediate("lsl.l", CHOOSE s \in Shifts(word) : TRUE)>>
    ELSE <<Immediate("muls.l", word)>>

(* The arithmetic of emit_value.                                           *)
Instructions(v, in_place) ==
    IF v.op = "neg" THEN <<Register("neg.l", "source")>>
    ELSE IF v.op = "normalize" THEN <<>>
    ELSE IF ~IsConstant(values, v.right)
         THEN <<Register(MachineOp(v.op), "source")>>
    ELSE LET word == values[v.right].imm
         IN  CASE v.op = "add" -> <<Quick("add.l", "sub.l", word)>>
               [] v.op = "sub" -> <<Quick("sub.l", "add.l", word)>>
               [] v.op = "mul" -> Multiply(word, in_place)
               [] v.op \in Divisions ->
                    <<Immediate(MachineOp(v.op), word)>>

(* The word of an operand, given those computed so far.                    *)
WordOf(env, id) ==
    CASE values[id].op = "const" -> Native(values[id].type, values[id].imm)
      [] values[id].op = "param" -> DataAtEntry[Homes[id]]
      [] OTHER -> env[id]

(* A value computed: a divisor that is no constant is tested first, and    *)
(* arithmetic is brought back to the type.                                 *)
Compute(state, id, in_place) ==
    LET v    == values[id]
        left == WordOf(state.env, v.left)
        source == IF v.op \in {"neg", "normalize"} THEN 0
                  ELSE WordOf(state.env, v.right)
        Do(d, i) == Operation(i.op, d, CASE i.from = "immediate" -> i.word
                                         [] i.from = "source" -> source
                                         [] i.from = "destination" -> d
                                         [] i.from = "left" -> left)
        word == IF v.op \in Comparisons
                THEN Test(ConditionCode(v.op), left, source)
                ELSE Normalizing(v.type, FoldLeft(Do, left,
                                                  Instructions(v, in_place)))
    IN  IF \/ state.outcome # Running \/ id \notin Live
           \/ v.op \in {"const", "param"}
        THEN state
        ELSE IF /\ v.op \in Divisions /\ ~IsConstant(values, v.right)
                /\ source = 0
             THEN [state EXCEPT !.outcome = Fault(v.place)]
        ELSE [state EXCEPT !.env[id] = word]

(* What the -O1 code does for the arguments of the call.                   *)
OptimizedOutcome(in_place) ==
    LET Do(state, id) == Compute(state, id, in_place)
        end == FoldLeft(Do, [env |-> [id \in DOMAIN values |-> Unset],
                             outcome |-> Running],
                        [id \in 1 .. Len(values) |-> id])
    IN  IF end.outcome # Running THEN end.outcome
        ELSE Returned(WordOf(end.env, result))
-----------------------------------------------------------------------------
ValuesInit == StackInit /\ values = <<>> /\ result = 0

(* miga80_build_value_ir, and the call.                                    *)
Compile ==
    /\ Call
    /\ values' = BuildValues.values
    /\ result' = IF BuildValues.refused THEN 0 ELSE BuildValues.result

ValuesNext == \/ (Parse \/ Lower \/ Step) /\ UNCHANGED valueVars
              \/ Compile

ValuesSpec == ValuesInit /\ [][ValuesNext]_allVars
-----------------------------------------------------------------------------
(* Properties                                                              *)

(* Whatever was folded, left out or written in a short form, and wherever  *)
(* the parameters were put, -O1 code does what the evaluator does for      *)
(* every type: the same word, or the fault of the same place.  It is       *)
(* refused only if the evaluator faults (make_binary,                      *)
(* make_normalize_integer, build_allocation_plan, emit_value).             *)
ConstantFormsAgree ==
    pc > 0 /\ outcome # Running =>
        IF result = 0 THEN outcome[1] = "division by zero"
        ELSE /\ ConstantsValid
             /\ \A in_place \in BOOLEAN :
                   OptimizedOutcome(in_place) = NativeOutcome
=============================================================================
