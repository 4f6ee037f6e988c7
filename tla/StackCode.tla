----------------------------- MODULE StackCode ------------------------------
(***************************************************************************)
(* A parsed function as typed stack code (compiler/ir/ir.c), run by the    *)
(* evaluator (miga80_evaluate_ir) and, side by side, as the machine code   *)
(* that -O0 makes of each instruction                                      *)
(* (compiler/backend_m68k/backend.c).                                      *)
(*                                                                         *)
(* The code is the straight line of one block; jumps between blocks are    *)
(* the subject of LoweredFlow and CompiledRun.  The forms of a push and    *)
(* of a store are one instruction here: its type tells them apart.         *)
(* A place in the source is the number of the AST node or statement made   *)
(* there.                                                                  *)
(***************************************************************************)
EXTENDS FrontEnd

CONSTANTS
    Samples,    \* the words calls are made with
    Registers   \* data registers, and as many of addresses

ASSUME SamplesAssumption == Samples \subseteq Word
ASSUME RegistersAssumption == /\ Registers \in Nat
                              /\ MaxScalars + MaxAddresses <= Registers

VARIABLES
    code,       \* the instructions of the entry block
    argument,   \* the arguments of the call
    pc,         \* the next instruction
    stack,      \* the evaluator's stack and locals
    locals,
    outcome,    \* Running, Returned or Fault
    cpu         \* the processor and its memory

codeVars == <<code, argument, pc, stack, locals, outcome, cpu>>

Unset == 0 - 1      \* a word nothing has been written to

Running == <<"running">>
Returned(w) == <<"return", w>>
Fault(place) == <<"division by zero", place>>
-----------------------------------------------------------------------------
(* Lowering                                                                *)

Instruction(opcode, type, value, place) ==
    [opcode |-> opcode, type |-> type, value |-> value, place |-> place]

(* Mutant: the right operand is lowered first.                             *)
MutantOperands(left, right) == right \o left

(* Operands are pushed from left to right.                                 *)
Operands(left, right) == left \o right

(* lower_node, the operands being lowered; a comparison carries the type   *)
(* of its operands.                                                        *)
NodeCode(lowered, n) ==
    LET node == nodes[n]
        Place(opcode, type) == <<Instruction(opcode, type, node.value, n)>>
    IN  CASE node.kind \in {"literal", "truth"} \cup PoolTypes ->
               Place("push", node.type)
          [] node.kind \in {"parameter", "local"} ->
               Place(node.kind, node.type)
          [] node.kind \in {"neg", "normalize"} ->
               lowered[node.left] \o Place(node.kind, node.type)
          [] node.kind \in Arithmetic ->
               Operands(lowered[node.left], lowered[node.right])
               \o Place(node.kind, node.type)
          [] node.kind \in Comparisons ->
               Operands(lowered[node.left], lowered[node.right])
               \o Place(node.kind, nodes[node.left].type)

LowerNode ==
    LET lowered[n \in DOMAIN nodes] == NodeCode(lowered, n)
    IN  lowered

(* lower_statement_list, for the statements that are no control flow.      *)
Ending(s) ==
    IF s.local = 0 THEN Instruction("return", signature.result, 0, 0)
    ELSE Instruction("store", signature.locals[s.local], s.local, 0)

LowerStatements ==
    LET lowered[k \in 0 .. Len(statements)] ==
            IF k = 0 THEN <<>>
            ELSE lowered[k - 1] \o LowerNode[statements[k].expression]
                                \o <<Ending(statements[k])>>
    IN  lowered

(* validate_block_stack: the types on the stack after an instruction, or   *)
(* <<"invalid">>.                                                          *)
After(types, i) ==
    LET size == Len(types)
        Under(n) == SubSeq(types, 1, size - n)
        Ends(n, type) == size >= n /\ \A k \in size - n + 1 .. size :
                                          types[k] = type
        valid ==
            CASE i.opcode = "push" ->
                   /\ size < MaxNodes
                   /\ IF i.type \in PoolTypes
                      THEN /\ i.value <= Len(pool)
                           /\ pool[i.value].type = i.type
                      ELSE Canonical(i.type, i.value)
              [] i.opcode = "parameter" ->
                   /\ size < MaxNodes /\ i.value <= ParameterCount
                   /\ signature.parameters[i.value] = i.type
              [] i.opcode = "local" ->
                   /\ size < MaxNodes /\ i.value <= local_count
                   /\ signature.locals[i.value] = i.type
              [] i.opcode = "store" ->
                   /\ types = <<i.type>> /\ i.value <= local_count
                   /\ signature.locals[i.value] = i.type
              [] i.opcode = "neg" -> i.type \in SignedTypes /\ Ends(1, i.type)
              [] i.opcode = "normalize" ->
                   i.type \in IntegerTypes /\ Ends(1, "i32")
              [] i.opcode \in Arithmetic \cup Comparisons ->
                   /\ Ends(2, i.type)
                   /\ i.opcode \notin Equalities => i.type \in IntegerTypes
                   /\ i.opcode \in {"div", "lt", "le", "gt", "ge"} =>
                         i.type \in SignedTypes
                   /\ i.opcode \in {"div_u", "lt_u", "le_u", "gt_u", "ge_u"}
                         => i.type \notin SignedTypes
              [] i.opcode = "return" ->
                   types = <<i.type>> /\ i.type = signature.result
    IN  IF types = <<"invalid">> \/ ~valid THEN <<"invalid">>
        ELSE CASE i.opcode \in {"push", "parameter", "local"} ->
                    Append(types, i.type)
               [] i.opcode \in {"store", "return"} -> <<>>
               [] i.opcode = "neg" -> types
               [] i.opcode = "normalize" -> Append(Under(1), i.type)
               [] i.opcode \in Arithmetic -> Under(1)
               [] i.opcode \in Comparisons -> Append(Under(2), "bool")

(* The types on the stack after each number of instructions.               *)
StackTypes(instructions) ==
    LET types[k \in 0 .. Len(instructions)] ==
            IF k = 0 THEN <<>> ELSE After(types[k - 1], instructions[k])
    IN  types

(* miga80_validate_constant_pool: no text twice.                           *)
PoolValid ==
    /\ Len(pool) <= MaxPoolEntries /\ BytesUsed(pool) <= MaxPoolBytes
    /\ IsInjective(pool)

(* The registers, the pool, MIGA80_MAX_IR_INSTRUCTIONS and the types.      *)
Valid(instructions) ==
    /\ Passable /\ PoolValid
    /\ Len(instructions) <= MaxNodes + 3 * MaxStatements
    /\ StackTypes(instructions)[Len(instructions)] = <<>>
-----------------------------------------------------------------------------
(* The 68020, as much of it as the compiler uses: a source word s is       *)
(* combined with a destination word d.                                     *)

LowBits(w, bits) == w % 2 ^ bits
Extended(w, bits) ==
    IF LowBits(w, bits) >= 2 ^ (bits - 1)
    THEN LowBits(w, bits) + Modulus - 2 ^ bits ELSE LowBits(w, bits)

(* divs.l: the quotient truncated toward zero; on overflow the destination *)
(* stays as it is.                                                         *)
SignedQuotient(d, s) ==
    LET n == Signed(d)
        m == Signed(s)
        q == (IF n < 0 THEN 0 - n ELSE n) \div (IF m < 0 THEN 0 - m ELSE m)
    IN  IF n = 0 - SignBit /\ m = 0 - 1 THEN d
        ELSE Wrap(IF (n < 0) # (m < 0) THEN 0 - q ELSE q)

Operation(op, d, s) ==
    CASE op = "add.l"  -> Wrap(d + s)
      [] op = "sub.l"  -> Wrap(d - s)
      [] op = "muls.l" -> Wrap(Signed(d) * Signed(s))
      [] op = "divs.l" -> SignedQuotient(d, s)
      [] op = "divu.l" -> d \div s
      [] op = "lsl.l"  -> Wrap(d * 2 ^ s)
      [] op = "neg.l"  -> Wrap(0 - d)
      [] op = "extb.l" -> Extended(d, Byte)
      [] op = "ext.l"  -> Extended(d, Half)
      [] op = "and.l"  -> d % (s + 1)     \* a mask of low bits

(* cmp.l and the conditions of Scc, from the flags of the subtraction.     *)
Condition(cc, d, s) ==
    LET difference == Wrap(d - s)
        negative == difference >= SignBit
        zero     == difference = 0
        carry    == d < s
        overflow == Signed(d) - Signed(s) # Signed(difference)
    IN  CASE cc = "seq" -> zero
          [] cc = "sne" -> ~zero
          [] cc = "slt" -> negative # overflow
          [] cc = "sle" -> zero \/ negative # overflow
          [] cc = "sgt" -> ~zero /\ negative = overflow
          [] cc = "sge" -> negative = overflow
          [] cc = "scs" -> carry
          [] cc = "sls" -> carry \/ zero
          [] cc = "shi" -> ~carry /\ ~zero
          [] cc = "scc" -> ~carry

(* cmp.l, Scc and and.l #1: Scc writes the low byte only.                  *)
Test(cc, d, s) ==
    ((d - LowBits(d, Byte))
     + (IF Condition(cc, d, s) THEN 2 ^ Byte - 1 ELSE 0)) % 2

(* Mutant: sne where seq is meant.                                         *)
MutantConditionCode(opcode) ==
    CASE opcode \in {"eq", "ne"} -> "sne" [] OTHER -> "slt"

ConditionCode(opcode) ==
    CASE opcode = "eq"   -> "seq"  [] opcode = "ne"   -> "sne"
      [] opcode = "lt"   -> "slt"  [] opcode = "le"   -> "sle"
      [] opcode = "gt"   -> "sgt"  [] opcode = "ge"   -> "sge"
      [] opcode = "lt_u" -> "scs"  [] opcode = "le_u" -> "sls"
      [] opcode = "gt_u" -> "shi"  [] opcode = "ge_u" -> "scc"

MachineOp(opcode) ==
    CASE opcode = "add" -> "add.l"   [] opcode = "sub"   -> "sub.l"
      [] opcode = "mul" -> "muls.l"  [] opcode = "div"   -> "divs.l"
      [] opcode = "neg" -> "neg.l"   [] opcode = "div_u" -> "divu.l"

(* Mutant: unsigned bytes are extended like signed ones.                   *)
MutantNormalizing(type, d) ==
    CASE type \in {"i8", "u8"}   -> Operation("extb.l", d, 0)
      [] type \in {"i16", "u16"} -> Operation("ext.l", d, 0)
      [] OTHER -> d

(* miga80_emit_gnu_m68k_normalize_integer                                  *)
Normalizing(type, d) ==
    CASE type = "i8"  -> Operation("extb.l", d, 0)
      [] type = "u8"  -> Operation("and.l", d, 2 ^ Byte - 1)
      [] type = "i16" -> Operation("ext.l", d, 0)
      [] type = "u16" -> Operation("and.l", d, 2 ^ Half - 1)
      [] OTHER        -> d
-----------------------------------------------------------------------------
(* Strings and symbols.  To the evaluator a string is the number of its    *)
(* entry, to the processor the address of its descriptor: a multiple of    *)
(* the alignment.  A symbol is its number to both.                         *)

Alignment == 4

(* The descriptors of a full pool have different addresses.                *)
ASSUME AddressAssumption == Alignment * (MaxPoolEntries + 1) <= Modulus

AddressOf(entry) == Wrap(Alignment * entry)

(* The word the processor has for a word of the evaluator.                 *)
Native(type, w) == IF type \in AddressTypes THEN AddressOf(w) ELSE w

(* The word that a push is for.                                            *)
Pushed(i) == IF i.type = "symbol" THEN SymbolId(pool, i.value) ELSE i.value

(* The members of a set of the first n numbers, in increasing order.       *)
InOrder(set, n) ==
    LET order[k \in 0 .. n] ==
            IF k = 0 THEN <<>>
            ELSE IF k \in set THEN Append(order[k - 1], k) ELSE order[k - 1]
    IN  order[n]

(* The registers of a class as the caller leaves them: its arguments from  *)
(* left to right in D0.. or A0..                                           *)
Passed(arguments, address) ==
    LET class == InOrder({p \in 1 .. ParameterCount :
                             IsAddress(p) = address}, ParameterCount)
    IN  [r \in 0 .. Registers - 1 |->
            IF r + 1 \notin DOMAIN class THEN Unset
            ELSE LET p == class[r + 1]
                 IN  Native(signature.parameters[p], arguments[p])]

(* The register that is read for a parameter.                              *)
Arriving(arguments, p) == Passed(arguments, IsAddress(p))[ClassIndex(p)]
-----------------------------------------------------------------------------
(* The code of -O0.  Memory is numbered in words downward from A6; a7 is   *)
(* the word the stack pointer points at.                                   *)

FrameWords == ParameterCount + local_count

(* Mutant: locals start where the parameters do.                           *)
MutantSlotOfLocal(local) == local

SlotOfLocal(local) == ParameterCount + local

Push(c, w) == [c EXCEPT !.a7 = c.a7 + 1, !.memory[c.a7 + 1] = w]
Popped(c, n) == [c EXCEPT !.a7 = c.a7 - n]
TopWord(c) == c.memory[c.a7]

(* tst.l d1, beq .divzero                                                  *)
Trap(c, i) == i.opcode \in Divisions /\ TopWord(c) = 0

(* What the code of one instruction does.  A binary operation pops d1,     *)
(* then d0; a result is brought back to its type and pushed.               *)
StepMachine(c, i) ==
    LET d1 == TopWord(c)
        d0 == c.memory[c.a7 - 1]
    IN  CASE i.opcode = "push" -> Push(c, Native(i.type, Pushed(i)))
          [] i.opcode = "parameter" -> Push(c, c.memory[i.value])
          [] i.opcode = "local" -> Push(c, c.memory[SlotOfLocal(i.value)])
          [] i.opcode = "store" ->
               [Popped(c, 1) EXCEPT !.memory[SlotOfLocal(i.value)] =
                                        TopWord(c)]
          [] i.opcode = "neg" ->
               Push(Popped(c, 1),
                    Normalizing(i.type, Operation("neg.l", TopWord(c), 0)))
          [] i.opcode = "normalize" ->
               Push(Popped(c, 1), Normalizing(i.type, TopWord(c)))
          [] i.opcode \in Arithmetic ->
               IF Trap(c, i) THEN [c EXCEPT !.outcome = Fault(i.place)]
               ELSE Push(Popped(c, 2),
                         Normalizing(i.type,
                                     Operation(MachineOp(i.opcode), d0, d1)))
          [] i.opcode \in Comparisons ->
               Push(Popped(c, 2), Test(ConditionCode(i.opcode), d0, d1))
          [] i.opcode = "return" -> [c EXCEPT !.outcome = Returned(TopWord(c))]
-----------------------------------------------------------------------------
(* The evaluator                                                           *)

(* One instruction, on a record of the stack, the locals and the outcome.  *)
Evaluate(e, i) ==
    LET size  == Len(e.stack)
        top   == e.stack[size]
        left  == e.stack[size - 1]
        Under(n) == SubSeq(e.stack, 1, size - n)
    IN  CASE i.opcode = "push" -> [e EXCEPT !.stack = Append(@, Pushed(i))]
          [] i.opcode = "parameter" ->
               [e EXCEPT !.stack = Append(@, argument[i.value])]
          [] i.opcode = "local" ->
               [e EXCEPT !.stack = Append(@, e.locals[i.value])]
          [] i.opcode = "store" ->
               [e EXCEPT !.stack = Under(1), !.locals[i.value] = top]
          [] i.opcode = "neg" ->
               [e EXCEPT !.stack = Append(Under(1),
                                          Normalize(i.type, Negated(top)))]
          [] i.opcode = "normalize" ->
               [e EXCEPT !.stack = Append(Under(1), Normalize(i.type, top))]
          [] i.opcode \in Arithmetic \cup Comparisons ->
               IF Faults(i.opcode, top)
               THEN [e EXCEPT !.outcome = Fault(i.place)]
               ELSE [e EXCEPT !.stack =
                        Append(Under(2), Apply(i.opcode, i.type, left, top))]
          [] i.opcode = "return" ->
               [e EXCEPT !.outcome = Returned(e.stack[1])]
-----------------------------------------------------------------------------
NoCode ==
    /\ code = <<>> /\ argument = <<>> /\ pc = 0
    /\ stack = <<>> /\ locals = <<>> /\ outcome = Running /\ cpu = <<>>

StackInit == Init /\ NoCode

Parse == ParseNext /\ UNCHANGED codeVars

(* miga80_lower_function                                                   *)
Lower ==
    /\ mode = "parsed"
    /\ code' = LowerStatements[Len(statements)]
    /\ mode' = IF Valid(code') THEN "compiled" ELSE "rejected"
    /\ UNCHANGED <<signature, current, tokens, frames, operand, nodes, pool,
                   statement, statements, local_count>>
    /\ UNCHANGED <<argument, pc, stack, locals, outcome, cpu>>

(* What the evaluator accepts as an argument: strings of the pool, symbols *)
(* it knows, canonical words of the other types.                           *)
Acceptable(type, w) ==
    CASE type = "string" -> w \in DOMAIN pool /\ pool[w].type = "string"
      [] type = "symbol" -> \E e \in DOMAIN pool : /\ pool[e].type = "symbol"
                                                   /\ SymbolId(pool, e) = w
      [] OTHER -> Canonical(type, w)

(* A call: the evaluator checks the arguments, and the prologue stores     *)
(* the registers in the frame.                                             *)
Call ==
    /\ mode = "compiled" /\ pc = 0
    /\ argument' \in [1 .. ParameterCount -> Samples]
    /\ \A p \in 1 .. ParameterCount :
          Acceptable(signature.parameters[p], argument'[p])
    /\ pc' = 1
    /\ locals' = [l \in 1 .. local_count |-> Unset]
    /\ cpu' = [a7 |-> FrameWords, outcome |-> Running,
               memory |-> [k \in 1 .. FrameWords + MaxNodes |->
                              IF k <= ParameterCount
                              THEN Arriving(argument', k) ELSE Unset]]
    /\ UNCHANGED <<parserVars, code, stack, outcome>>

Step ==
    /\ pc # 0 /\ Running \in {outcome, cpu.outcome}
    /\ LET e == Evaluate([stack |-> stack, locals |-> locals,
                          outcome |-> outcome], code[pc])
       IN  stack' = e.stack /\ locals' = e.locals /\ outcome' = e.outcome
    /\ cpu' = StepMachine(cpu, code[pc])
    /\ pc' = pc + 1
    /\ UNCHANGED <<parserVars, code, argument>>

StackNext == Parse \/ Lower \/ Call \/ Step

StackSpec == StackInit /\ [][StackNext]_<<parserVars, codeVars>>
-----------------------------------------------------------------------------
(* Properties                                                              *)

(* The parser's arithmetic is the evaluator's.  A constant the parser has  *)
(* computed for a node (to convert it or to refuse it as a divisor) is     *)
(* what the code of that node leaves on the stack, whatever the arguments, *)
(* and a conversion never changes the number (constant_i32,                *)
(* coerce_constant).                                                       *)
ConstantsExact ==
    pc > 1 /\ outcome = Running /\ code[pc - 1].place # 0 =>
        LET node == code[pc - 1].place
            known == Constants(nodes)[node]
        IN  known # <<>> =>
                /\ Last(stack) = known[1]
                /\ nodes[node].kind = "normalize" =>
                      known = Constants(nodes)[nodes[node].left]

(* What the function means, in integers and texts: operands from left to   *)
(* right, results brought into the range of their type by adding or        *)
(* subtracting its size, quotients truncated toward zero, strings and      *)
(* symbols equal if their texts are.  A meaning is <<number>>, <<text>>,   *)
(* or <<"fault", node>> for the first division by zero.                    *)
Symbols == InOrder({e \in DOMAIN pool : pool[e].type = "symbol"}, Len(pool))
Denotes(type, w) ==
    CASE type = "string" -> pool[w].text
      [] type = "symbol" -> pool[Symbols[w]].text
      [] type \in SignedTypes -> Signed(w)
      [] OTHER -> w
InRange(type, n) ==
    LET size == 2 ^ BitsOf(type)
    IN  IF type \in SignedTypes /\ n % size >= size \div 2
        THEN (n % size) - size ELSE n % size
Truncated(n, m) ==
    LET magnitude == (IF n < 0 THEN 0 - n ELSE n)
                     \div (IF m < 0 THEN 0 - m ELSE m)
    IN  IF (n < 0) # (m < 0) THEN 0 - magnitude ELSE magnitude
Compared(kind, n, m) ==
    CASE kind = "eq"             -> n = m
      [] kind = "ne"             -> n # m
      [] kind \in {"lt", "lt_u"} -> n < m
      [] kind \in {"le", "le_u"} -> n <= m
      [] kind \in {"gt", "gt_u"} -> n > m
      [] kind \in {"ge", "ge_u"} -> n >= m
Result(kind, n, m) ==
    CASE kind = "add"      -> n + m
      [] kind = "sub"      -> n - m
      [] kind = "mul"      -> n * m
      [] kind \in Divisions   -> Truncated(n, m)
      [] kind \in Comparisons -> Truth(Compared(kind, n, m))

NodeMeaning(meaning, env, n) ==
    LET node  == nodes[n]
        left  == meaning[node.left]
        right == meaning[node.right]
    IN  CASE node.kind \in {"literal", "truth"} -> <<node.value>>
          [] node.kind \in PoolTypes -> <<pool[node.value].text>>
          [] node.kind = "parameter" ->
               <<Denotes(node.type, argument[node.value])>>
          [] node.kind = "local" -> <<env[node.value]>>
          [] node.kind = "normalize" -> left
          [] node.kind = "neg" ->
               IF Len(left) = 2 THEN left
               ELSE <<InRange(node.type, 0 - left[1])>>
          [] node.kind \in Arithmetic \cup Comparisons ->
               IF Len(left) = 2 THEN left
               ELSE IF Len(right) = 2 THEN right
               ELSE IF node.kind \in Divisions /\ right[1] = 0
                    THEN <<"fault", n>>
               ELSE IF node.kind \in Comparisons
                    THEN <<Result(node.kind, left[1], right[1])>>
               ELSE <<InRange(node.type,
                              Result(node.kind, left[1], right[1]))>>

MeaningOfNode(env) ==
    LET meaning[n \in DOMAIN nodes] == NodeMeaning(meaning, env, n)
    IN  meaning

(* The values of the locals, and how the function has ended.               *)
Execute(before, s) ==
    LET m == MeaningOfNode(before.env)[s.expression]
    IN  IF before.end # <<>> THEN before
        ELSE IF Len(m) = 2 \/ s.local = 0 THEN [before EXCEPT !.end = m]
        ELSE [before EXCEPT !.env[s.local] = m[1]]

(* After each number of statements.                                        *)
Meaning ==
    LET after[k \in 0 .. Len(statements)] ==
            IF k = 0
            THEN [env |-> [l \in 1 .. local_count |-> 0], end |-> <<>>]
            ELSE Execute(after[k - 1], statements[k])
    IN  after

(* What the parser accepts passes the validation that ends                 *)
(* miga80_lower_function, with its limits on instructions and stack, and a *)
(* call of it returns what the source means, or faults at the division the *)
(* source faults at, whatever the types, the conversions, the order in     *)
(* which operands are pushed and the numbers the texts have got            *)
(* (intern_pool_literal, lower_node, validate_ir, miga80_evaluate_ir).     *)
MeaningKept ==
    /\ mode # "rejected"
    /\ pc > 0 /\ outcome # Running =>
        IF outcome[1] = "return"
        THEN Meaning[Len(statements)].end
                 = <<Denotes(signature.result, outcome[2])>>
        ELSE Meaning[Len(statements)].end = <<"fault", outcome[2]>>

(* The outcome in words of the processor: D0, or A0 for a string.          *)
NativeOutcome ==
    IF outcome[1] = "return"
    THEN Returned(Native(signature.result, outcome[2])) ELSE outcome

(* -O0 code follows the evaluator instruction by instruction: the same     *)
(* words on the stack, the same parameters and locals in the frame below   *)
(* it, the same result or the same fault at the same place; and every word *)
(* is canonical for its type, as the ABI asks (miga80_emit_gnu_m68k).      *)
StackCodeAgrees ==
    pc > 0 =>
        /\ NativeOutcome = cpu.outcome
        /\ outcome = Running =>
              LET words == argument \o locals \o stack
                  types == signature.parameters
                           \o SubSeq(signature.locals, 1, local_count)
                           \o StackTypes(code)[pc - 1]
              IN  /\ Len(words) = cpu.a7 /\ Len(types) = cpu.a7
                  /\ \A k \in 1 .. cpu.a7 :
                        cpu.memory[k] = IF words[k] = Unset THEN Unset
                                        ELSE Native(types[k], words[k])
        /\ outcome[1] = "return" => Canonical(signature.result, outcome[2])
        /\ \A l \in DOMAIN locals :
              locals[l] # Unset => Canonical(signature.locals[l], locals[l])
=============================================================================
