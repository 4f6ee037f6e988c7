---------------------------- MODULE CompiledRun -----------------------------
(***************************************************************************)
(* A source function and its value IR, run side by side.                   *)
(*                                                                         *)
(* The source is run by miga80_evaluate_ir (compiler/ir/ir.c), one block   *)
(* at a time; the value IR the way -O1 code executes it                    *)
(* (compiler/backend_m68k/optimized.c): the phis of the edge first, then   *)
(* the live values of the block in order.  Where a value lives is          *)
(* abstracted here.  The evaluator's budget of blocks is left out.         *)
(***************************************************************************)
EXTENDS ValueIR

CONSTANT Arguments      \* the arguments a call may have: sequences of words

VARIABLES
    argument,   \* the arguments of the call
    at,         \* the block the evaluator enters next
    locals,     \* its locals
    outcome,    \* Running, Fault or the word returned
    o1_at,      \* the block the compiled code enters next
    came,       \* the block it comes from
    env,        \* the words of the values computed so far
    o1_outcome  \* as outcome, or Exception, the processor's own trap

runVars == <<argument, at, locals, outcome, o1_at, came, env, o1_outcome>>
allVars == <<vars, declared, buildVars, runVars>>

Running == <<"running">>
Returned(n) == <<"return", n>>
Fault == <<"division by zero">>
Exception == <<"exception">>

Undefined == 0 - 1      \* no value computed yet
-----------------------------------------------------------------------------
(* miga80_evaluate_ir.  An expression yields <<word>>, or <<>> for a fault *)

RECURSIVE Eval(_, _)
Eval(e, state) ==
    CASE e.op = "const" -> <<e.value>>
      [] e.op = "param" -> <<argument[e.index]>>
      [] e.op = "local" -> <<state[e.name]>>
      [] e.op = "neg" -> LET operand == Eval(e.left, state)
                         IN  IF operand = <<>> THEN <<>>
                             ELSE <<Wrap(0 - operand[1])>>
      [] OTHER -> LET left  == Eval(e.left, state)
                      right == Eval(e.right, state)
                  IN  IF <<>> \in {left, right} THEN <<>>
                      ELSE IF e.op = "div" /\ right[1] = 0 THEN <<>>
                      ELSE <<Apply(e.op, left[1], right[1])>>

(* One statement, from the locals and the test made so far.                *)
Execute(state, p) ==
    LET statement == program[p]
        e == ExpressionOf(statement)
        word == Eval(e, state.locals)
    IN  IF state.faulted \/ word = <<>> THEN [state EXCEPT !.faulted = TRUE]
        ELSE IF statement.kind = "assign"
             THEN [state EXCEPT !.locals[statement.arg.to] = word[1]]
             ELSE [state EXCEPT !.test = word[1]]

SourceBlock ==
    FoldLeft(Execute, [locals |-> locals, test |-> 0, faulted |-> FALSE],
             code[at])

Target(block, test) ==
    succ[block][IF Len(succ[block]) = 2 /\ test = 0 THEN 2 ELSE 1]

StepSource ==
    IF outcome # Running THEN UNCHANGED <<at, locals, outcome>>
    ELSE LET run == SourceBlock
         IN  /\ locals' = run.locals
             /\ outcome' = IF run.faulted THEN Fault
                           ELSE IF succ[at] = <<>> THEN Returned(run.test)
                           ELSE Running
             /\ at' = IF outcome' = Running THEN Target(at, run.test) ELSE at
-----------------------------------------------------------------------------
(* The compiled code                                                       *)

Read(e, id) == IF IsConstant(values, id) THEN values[id].imm ELSE e[id]

(* The phis of the block receive their operands all at once (PhiEdgeCopy). *)
EnterBlock ==
    [id \in Ids |->
        IF id \in span[o1_at] \cap live /\ values[id].op = "phi"
        THEN Read(env, IF values[id].from[1] = came THEN values[id].left
                       ELSE values[id].right)
        ELSE env[id]]

(* One value.  A divisor that is not a constant is tested before the       *)
(* division (emit_division); a constant one is not.                        *)
Compute(state, id) ==
    LET value == values[id]
        left  == Read(state.env, value.left)
        right == Read(state.env, value.right)
    IN  IF \/ state.outcome # Running
           \/ id \notin span[o1_at] \cap live
           \/ value.op \in {"phi", "const"}
        THEN state
        ELSE IF value.op = "neg"
             THEN [state EXCEPT !.env[id] = Wrap(0 - left)]
        ELSE IF value.op = "div" /\ right = 0
             THEN [state EXCEPT !.outcome =
                      IF IsConstant(values, value.right) THEN Exception
                      ELSE Fault]
        ELSE [state EXCEPT !.env[id] = Apply(value.op, left, right)]

CompiledBlock ==
    FoldLeft(Compute, [env |-> EnterBlock, outcome |-> Running],
             [id \in 1 .. Len(values) |-> id])

StepCompiled ==
    IF o1_outcome # Running THEN UNCHANGED <<o1_at, came, env, o1_outcome>>
    ELSE LET run == CompiledBlock
         IN  /\ env' = run.env
             /\ o1_outcome' =
                   IF run.outcome # Running THEN run.outcome
                   ELSE IF succ[o1_at] = <<>>
                        THEN Returned(Read(run.env, result))
                   ELSE Running
             /\ came' = o1_at
             /\ o1_at' = IF o1_outcome' # Running THEN o1_at
                         ELSE Target(o1_at,
                                     IF condition[o1_at] = 0 THEN 0
                                     ELSE Read(run.env, condition[o1_at]))
-----------------------------------------------------------------------------
NoRun == /\ argument = <<>>
         /\ at = 0 /\ locals = <<>> /\ outcome = Running
         /\ o1_at = 0 /\ came = NoBlock /\ env = <<>> /\ o1_outcome = Running

CompileInit == Init /\ BuildInit /\ NoRun

Lower == Next /\ UNCHANGED <<declared, buildVars, runVars>>
BuildStep == Build /\ UNCHANGED <<vars, declared, runVars>>

(* A call of the compiled function.                                        *)
Call ==
    /\ pass = "run" /\ argument = <<>>
    /\ argument' \in Arguments
    /\ locals' = [l \in Locals |->
                     IF declared[l].op = "const" THEN declared[l].value
                     ELSE argument'[declared[l].index]]
    /\ env' = [id \in Ids |-> IF values[id].op = "param" THEN argument'[id]
                              ELSE Undefined]
    /\ UNCHANGED <<vars, declared, buildVars, at, outcome, o1_at, came,
                   o1_outcome>>

Run ==
    /\ argument # <<>>
    /\ outcome = Running \/ o1_outcome = Running
    /\ StepSource /\ StepCompiled
    /\ UNCHANGED <<vars, declared, buildVars, argument>>

CompileNext == Lower \/ BuildStep \/ Call \/ Run

CompileSpec == CompileInit /\ [][CompileNext]_allVars
-----------------------------------------------------------------------------
(* Properties                                                              *)

(* A divisor that is found to be zero after the division was made: the     *)
(* only divisions by a constant zero, since make_binary refuses the others *)
LateZeroDivisor ==
    \E id \in Ids : values[id].op = "div" /\ Is(values, values[id].right, 0)

(* Compiled code does what the evaluator says: it takes the same path,     *)
(* returns the same word, and stops for a division by zero where the       *)
(* evaluator does, in spite of folding, of phis left out and of values     *)
(* not computed (miga80_build_value_ir, emit_value).                       *)
AgreesWithEvaluator ==
    ~LateZeroDivisor /\ argument # <<>> => /\ at = o1_at
                                           /\ outcome = o1_outcome

(* The locals on every path: a value the function still uses, and that a   *)
(* local had at the end of a block, holds when a run comes from there what *)
(* the evaluator has stored in the local, the second time round a loop as  *)
(* the first.  So there is a phi wherever a local may have changed, the    *)
(* latch completes it with the local's own value, and the phis taken away  *)
(* later leave their readers with the same word (merge_local_values,       *)
(* finalize_loop_phis, remove_trivial_loop_phis).                          *)
LocalsFollowed ==
    ~LateZeroDivisor /\ came # NoBlock /\ Running \in {outcome, o1_outcome} =>
        \A l \in Locals : LET id == exit_locals[came][l]
                          IN id \in live => Read(env, id) = locals[l]

(* A fault is met by every function, also by those left out above: "a      *)
(* dynamic division remains live even when its result is overwritten,      *)
(* because its zero-divisor fault is observable"                           *)
(* (documentation/MIGA-Lua-compiler-bootstrap.md).                         *)
DivisionFaultsObserved ==
    argument # <<>> /\ outcome = Fault => o1_outcome = Fault
=============================================================================
