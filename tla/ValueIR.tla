------------------------------ MODULE ValueIR -------------------------------
(***************************************************************************)
(* Construction of the value IR (compiler/value_ir/value_ir.c).            *)
(*                                                                         *)
(* The blocks of ControlLowering become values in single-assignment form:  *)
(* one phi per local at a join, one per assigned local at a loop header,   *)
(* completed when the latch is lowered.  Expressions are folded as they    *)
(* are lowered, then trivial phis are removed, then the live values are    *)
(* marked.  One step is one block, one phi or one pass.                    *)
(*                                                                         *)
(* Types are left out: every local is a word of Width bits (i32) or, for a *)
(* condition, 0 or 1.  Value ids count from 1; 0 is MIGA80_INVALID_VALUE.  *)
(***************************************************************************)
EXTENDS LoweredFlow

CONSTANTS
    Width,          \* the bits of a word
    Locals,         \* the locals of the function
    ParameterCount,
    Declarations,   \* choices of initial expressions for the locals
    ResultOf        \* the expression the function returns

ASSUME WidthAssumption == Width \in Nat \ {0}
ASSUME ParametersAssumption == ParameterCount \in Nat

VARIABLES
    declared,       \* the local declarations that open the entry block
    pass,           \* "analyze", "lower", "simplify", "run" or "rejected"
    dominators,     \* analyze_loops: the blocks that dominate a block
    latch,          \* loop_latch of a header; NoBlock elsewhere
    values,         \* the table of values
    span,           \* the ids of the values a block defines
    exit_locals,    \* the value of each local at the end of a block
    loop_phis,      \* the phi of each local in a header; 0 for none
    condition,      \* the value a block branches on
    result,         \* the value the function returns
    work,           \* the blocks lowered so far, in order
    cursor,         \* the next index remove_trivial_loop_phis looks at
    live            \* the live values

buildVars == <<pass, dominators, latch, values, span, exit_locals, loop_phis,
               condition, result, work, cursor, live>>
-----------------------------------------------------------------------------
(* Words                                                                   *)

Modulus == 2 ^ Width
Word == 0 .. Modulus - 1
MinusOne == Modulus - 1

(* Mutant: sums and products keep their carry.                             *)
MutantWrap(n) == n

Wrap(n) == n % Modulus
Signed(n) == IF 2 * n >= Modulus THEN n - Modulus ELSE n
Magnitude(n) == IF n < 0 THEN 0 - n ELSE n

(* miga80_divide_i32: quotients are truncated toward zero, and the least   *)
(* word divided by -1 is itself.                                           *)
Quotient(a, b) ==
    LET q == Magnitude(Signed(a)) \div Magnitude(Signed(b))
    IN  Wrap(IF (Signed(a) < 0) # (Signed(b) < 0) THEN 0 - q ELSE q)

Truth(test) == IF test THEN 1 ELSE 0

Apply(op, a, b) ==
    CASE op = "add" -> Wrap(a + b)
      [] op = "sub" -> Wrap(a - b)
      [] op = "mul" -> Wrap(a * b)
      [] op = "div" -> Quotient(a, b)
      [] op = "eq"  -> Truth(a = b)
      [] op = "lt"  -> Truth(Signed(a) < Signed(b))
-----------------------------------------------------------------------------
(* Making values.  An operator takes the table vs and returns the table it *)
(* leaves and the id of the value; id 0 stands for a failed compilation.   *)

Value(op, left, right, imm) ==
    [op |-> op, left |-> left, right |-> right, imm |-> imm, from |-> <<>>]
Phi(left, right, from) ==
    [op |-> "phi", left |-> left, right |-> right, imm |-> 0, from |-> from]

Made(vs, id)  == [values |-> vs, id |-> id]
AddValue(vs, value) == Made(Append(vs, value), Len(vs) + 1)
MakeConstant(vs, n) == AddValue(vs, Value("const", 0, 0, n))
Failed(vs) == Made(vs, 0)

IsConstant(vs, id) == vs[id].op = "const"
Is(vs, id, n) == IsConstant(vs, id) /\ vs[id].imm = n

MakeNeg(vs, operand) ==
    IF IsConstant(vs, operand)
    THEN MakeConstant(vs, Wrap(0 - vs[operand].imm))
    ELSE IF vs[operand].op = "neg" THEN Made(vs, vs[operand].left)
    ELSE AddValue(vs, Value("neg", operand, 0, 0))

(* make_binary once the constant operand of a sum or product is on the     *)
(* right.                                                                  *)
Fold(vs, op, l, r) ==
    IF op = "div" /\ Is(vs, r, 0) THEN Failed(vs)
    ELSE IF IsConstant(vs, l) /\ IsConstant(vs, r)
         THEN MakeConstant(vs, Apply(op, vs[l].imm, vs[r].imm))
    ELSE IF \/ op \in {"add", "sub"} /\ Is(vs, r, 0)
            \/ op \in {"mul", "div"} /\ Is(vs, r, 1)
         THEN Made(vs, l)
    ELSE IF (op = "sub" /\ l = r) \/ (op = "mul" /\ Is(vs, r, 0))
         THEN MakeConstant(vs, 0)
    ELSE IF op = "div" /\ Is(vs, r, MinusOne) THEN MakeNeg(vs, l)
    ELSE IF op \in {"eq", "lt"} /\ l = r
         THEN MakeConstant(vs, Truth(op = "eq"))
    ELSE AddValue(vs, Value(op, l, r, 0))

MakeBinary(vs, op, l, r) ==
    IF op \in {"add", "mul"} /\ IsConstant(vs, l) /\ ~IsConstant(vs, r)
    THEN Fold(vs, op, r, l) ELSE Fold(vs, op, l, r)

(* The stack code of an expression, lowered.                               *)
RECURSIVE LowerExpression(_, _, _)
LowerExpression(e, locals, vs) ==
    CASE e.op = "const" -> MakeConstant(vs, e.value)
      [] e.op = "param" -> Made(vs, e.index)
      [] e.op = "local" -> Made(vs, locals[e.name])
      [] e.op = "neg" ->
           LET operand == LowerExpression(e.left, locals, vs)
           IN  IF operand.id = 0 THEN operand
               ELSE MakeNeg(operand.values, operand.id)
      [] OTHER ->
           LET left  == LowerExpression(e.left, locals, vs)
               right == LowerExpression(e.right, locals, left.values)
           IN  IF left.id = 0 THEN left
               ELSE IF right.id = 0 THEN right
               ELSE MakeBinary(right.values, e.op, left.id, right.id)
-----------------------------------------------------------------------------
(* Merging the locals at the entry of a block                              *)

(* Predecessors in the order build_predecessors finds them.                *)
Predecessors(b) == SetToSortSeq(Preds(b), LAMBDA p, q : p < q)
Preheader(b) == CHOOSE p \in Preds(b) : p # latch[b]

StoresIn(b, header) ==
    {program[code[b][k]].arg.to : k \in
        {k \in DOMAIN code[b] : Kind(code[b][k]) = "assign"}}

(* Mutant: only the assignments in the header count.                       *)
MutantAssignedLocals(header) == StoresIn(header, header)

(* loop_assigned_locals, over the region the lowering declared.            *)
AssignedLocals(header) ==
    UNION {StoresIn(b, header) : b \in DeclaredLoop(header)}

LocalOrder == CHOOSE s \in [1 .. Cardinality(Locals) -> Locals] :
                  Range(s) = Locals

(* Mutant: the value of the first predecessor is taken for both.           *)
MutantMakePhi(vs, left, right, from) == Made(vs, left)

MakePhi(vs, left, right, from) ==
    IF left = right THEN Made(vs, left)
    ELSE AddValue(vs, Phi(left, right, from))

(* The value of local l at the entry of block b.                           *)
MergeLocal(b, l, vs) ==
    IF latch[b] # NoBlock
    THEN LET initial == exit_locals[Preheader(b)][l]
         IN  IF l \notin AssignedLocals(b) THEN Made(vs, initial)
             ELSE AddValue(vs, Phi(initial, 0, <<Preheader(b), latch[b]>>))
    ELSE LET preds == Predecessors(b)
         IN  IF Len(preds) = 1 THEN Made(vs, exit_locals[preds[1]][l])
             ELSE MakePhi(vs, exit_locals[preds[1]][l],
                          exit_locals[preds[2]][l], preds)

MergeLocals(b) ==
    FoldLeft(LAMBDA state, l :
                LET merged == MergeLocal(b, l, state.values)
                IN  [values |-> merged.values,
                     locals |-> (l :> merged.id) @@ state.locals],
             [values |-> values, locals |-> <<>>], LocalOrder)

(* The declarations of the entry block.                                    *)
DeclareLocals ==
    FoldLeft(LAMBDA state, l :
                LET made == LowerExpression(declared[l], <<>>, state.values)
                IN  [values |-> made.values,
                     locals |-> (l :> made.id) @@ state.locals],
             [values |-> values, locals |-> <<>>], LocalOrder)
-----------------------------------------------------------------------------
(* Lowering a block                                                        *)

ExpressionOf(statement) ==
    CASE statement.kind = "assign" -> statement.arg.value
      [] statement.kind = "return" -> ResultOf
      [] OTHER -> statement.arg

(* lower_block_values after the merge: the statements in turn.  test is    *)
(* the value of the last condition or result.                              *)
LowerStatement(state, p) ==
    LET statement == program[p]
        made == LowerExpression(ExpressionOf(statement), state.locals,
                                state.values)
    IN  IF state.failed \/ made.id = 0 THEN [state EXCEPT !.failed = TRUE]
        ELSE IF statement.kind = "assign"
             THEN [state EXCEPT !.values = made.values,
                                !.locals[statement.arg.to] = made.id]
             ELSE [state EXCEPT !.values = made.values, !.test = made.id]

EntryOf(b) == IF b = 0 THEN DeclareLocals ELSE MergeLocals(b)

LoweredBlock(b, entry) ==
    FoldLeft(LowerStatement,
             [values |-> entry.values, locals |-> entry.locals,
              test |-> 0, failed |-> FALSE],
             code[b])

(* finalize_loop_phis: the phis of the header whose latch this is.         *)
Finalized(vs, b, locals) ==
    LET completes(id) == \E h \in Blocks : \E l \in Locals :
                             latch[h] = b /\ loop_phis[h][l] = id
        local(id) == CHOOSE l \in Locals : \E h \in Blocks :
                         latch[h] = b /\ loop_phis[h][l] = id
    IN  [id \in DOMAIN vs |->
            IF completes(id) THEN [vs[id] EXCEPT !.right = locals[local(id)]]
            ELSE vs[id]]

(* The next block whose predecessors but the latch are lowered, in the     *)
(* passes over the block table.                                            *)
ReadyBlocks ==
    {b \in Blocks : b \notin Range(work)
                    /\ Preds(b) \ {latch[b]} \subseteq Range(work)}
NextBlock ==
    LET ahead == {b \in ReadyBlocks : work = <<>> \/ b > Last(work)}
    IN  Min(IF ahead # {} THEN ahead ELSE ReadyBlocks)

(* analyze_loops; LoweredFlow shows that it accepts every CFG.             *)
AnalyzeLoops ==
    /\ phase = "lowered" /\ pass = "analyze"
    /\ dominators' = Dominators
    /\ latch' = [b \in AllBlocks |->
                    IF b \in Headers(dominators')
                    THEN CHOOSE p \in Latches(dominators', b) : TRUE
                    ELSE NoBlock]
    /\ pass' = "lower"
    /\ UNCHANGED <<values, span, exit_locals, loop_phis, condition, result,
                   work, cursor, live>>

LowerBlock ==
    /\ pass = "lower" /\ ReadyBlocks # {}
    /\ LET b == NextBlock
           entry == EntryOf(b)
           lowered == LoweredBlock(b, entry)
           final == Finalized(lowered.values, b, lowered.locals)
       IN  IF lowered.failed
           THEN /\ pass' = "rejected"
                /\ UNCHANGED <<values, span, exit_locals, loop_phis,
                               condition, result, work>>
           ELSE /\ values' = final
                /\ span' = [span EXCEPT ![b] = Len(values) + 1 .. Len(final)]
                /\ exit_locals' = [exit_locals EXCEPT ![b] = lowered.locals]
                /\ loop_phis' =
                      [loop_phis EXCEPT ![b] = [l \in Locals |->
                          IF latch[b] # NoBlock /\ l \in AssignedLocals(b)
                          THEN entry.locals[l] ELSE 0]]
                /\ condition' = [condition EXCEPT ![b] =
                                     IF Len(succ[b]) = 2 THEN lowered.test
                                     ELSE 0]
                /\ result' = IF succ[b] = <<>> THEN lowered.test ELSE result
                /\ work' = Append(work, b)
                /\ UNCHANGED pass
    /\ UNCHANGED <<dominators, latch, cursor, live>>

LoweringDone ==
    /\ pass = "lower" /\ ReadyBlocks = {}
    /\ pass' = IF Range(work) = Blocks THEN "simplify" ELSE "rejected"
    /\ UNCHANGED <<dominators, latch, values, span, exit_locals, loop_phis,
                   condition, result, work, cursor, live>>
-----------------------------------------------------------------------------
(* remove_trivial_loop_phis                                                *)

(* A phi that can only ever have one value other than itself.              *)
Trivial(id) ==
    /\ values[id].op = "phi"
    /\ \/ values[id].left = values[id].right
       \/ id \in {values[id].left, values[id].right}

(* Mutant: the operand from the latch, though it may be the phi itself.    *)
MutantReplacement(id) == values[id].right

Replacement(id) == IF values[id].left = id THEN values[id].right
                   ELSE values[id].left

TrivialPhis == {id \in DOMAIN values : Trivial(id)}

(* Mutant: a replaced phi stays a phi.                                     *)
MutantRetired(phi) == phi

(* What is left of a replaced phi.                                         *)
Retired(phi) == Value("const", 0, 0, 0)

(* replace_value, in the operands, the conditions and the result.          *)
RemoveTrivialPhi ==
    /\ pass = "simplify" /\ TrivialPhis # {}
    /\ LET ahead == {id \in TrivialPhis : id >= cursor}
           replaced == Min(IF ahead # {} THEN ahead ELSE TrivialPhis)
           renamed(id) == IF id = replaced THEN Replacement(replaced) ELSE id
       IN  /\ values' = [id \in DOMAIN values |->
                            IF id = replaced THEN Retired(values[id])
                            ELSE [values[id] EXCEPT !.left  = renamed(@),
                                                    !.right = renamed(@)]]
           /\ condition' = [b \in AllBlocks |-> renamed(condition[b])]
           /\ result' = renamed(result)
           /\ cursor' = replaced + 1
    /\ UNCHANGED <<pass, dominators, latch, span, exit_locals, loop_phis,
                   work, live>>
-----------------------------------------------------------------------------
(* mark_live_values                                                        *)

(* Mutant: conditions are not roots.                                       *)
MutantRoots ==
    {result} \cup {id \in DOMAIN values :
                      values[id].op = "div"
                      /\ ~IsConstant(values, values[id].right)}

(* The result, the conditions, and the divisions that may fault.           *)
Roots ==
    {result}
    \cup {condition[b] : b \in {b \in Blocks : Len(succ[b]) = 2}}
    \cup {id \in DOMAIN values :
             values[id].op = "div" /\ ~IsConstant(values, values[id].right)}

Operands(id) == {values[id].left, values[id].right} \ {0}

RECURSIVE Marked(_)
Marked(ids) ==
    LET more == UNION {Operands(id) : id \in ids} \ ids
    IN  IF more = {} THEN ids ELSE Marked(ids \cup more)

MarkLive ==
    /\ pass = "simplify" /\ TrivialPhis = {}
    /\ live' = Marked(Roots)
    /\ pass' = "run"
    /\ UNCHANGED <<dominators, latch, values, span, exit_locals, loop_phis,
                   condition, result, work, cursor>>
-----------------------------------------------------------------------------
NoLocals == [l \in Locals |-> 0]

BuildInit ==
    /\ declared \in Declarations
    /\ pass = "analyze"
    /\ dominators = <<>>
    /\ latch = [b \in AllBlocks |-> NoBlock]
    /\ values = [i \in 1 .. ParameterCount |-> Value("param", 0, 0, i)]
    /\ span = [b \in AllBlocks |-> {}]
    /\ exit_locals = [b \in AllBlocks |-> NoLocals]
    /\ loop_phis = [b \in AllBlocks |-> NoLocals]
    /\ condition = [b \in AllBlocks |-> 0]
    /\ result = 0
    /\ work = <<>>
    /\ cursor = 1
    /\ live = {}

Build == \/ AnalyzeLoops \/ LowerBlock \/ LoweringDone
         \/ RemoveTrivialPhi \/ MarkLive
-----------------------------------------------------------------------------
(* Properties                                                              *)

Ids == DOMAIN values
Built == pass = "run"

(* The block that defines a value; parameters and constants are available  *)
(* everywhere (a constant is written into the instruction that uses it).   *)
Available(id, b) ==
    \/ values[id].op \in {"param", "const"}
    \/ \E d \in dominators[b] : id \in span[d]

(* Single-assignment form: whatever the control flow, a live value is      *)
(* computed after its operands on every path.  An operand of a phi is      *)
(* available at the end of the predecessor it comes from, those are the    *)
(* block's predecessors, and both operands are there (merge_local_values,  *)
(* finalize_loop_phis).                                                    *)
DefinitionsDominateUses ==
    Built =>
        /\ \A b \in Blocks : \A id \in span[b] \cap live :
              IF values[id].op = "phi"
              THEN /\ Range(values[id].from) = Preds(b)
                   /\ Available(values[id].left, values[id].from[1])
                   /\ Available(values[id].right, values[id].from[2])
              ELSE \A operand \in Operands(id) :
                      /\ Available(operand, b)
                      /\ operand \in span[b] => operand < id
        /\ \A b \in Blocks : condition[b] # 0 => Available(condition[b], b)

(* The removal ends: each of its steps removes a phi for good, and no step *)
(* of it makes one (the do loop of remove_trivial_loop_phis).              *)
Phis == {id \in Ids : values[id].op = "phi"}
RemovalEnds ==
    [][pass = "simplify" => \/ pass' = "run" /\ Phis' = Phis
                            \/ Phis' \subseteq Phis /\ Phis' # Phis]_buildVars
=============================================================================
