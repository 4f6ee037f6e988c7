------------------------------ MODULE FrontEnd ------------------------------
(***************************************************************************)
(* The statements and typed expressions of a function                      *)
(* (compiler/frontend/frontend.c).                                         *)
(*                                                                         *)
(* The author writes one token after another; the parser looks at one of   *)
(* them, current.  The calls of the recursive descent that hold an         *)
(* operation and wait for its right operand are the sequence `frames': an  *)
(* activation that only passes its operand on is left out.  Control        *)
(* statements are the subject of ControlLowering; the text of tokens is    *)
(* left out.                                                               *)
(***************************************************************************)
EXTENDS TypedWords, SequencesExt

CONSTANTS
    Authors,        \* choices of parameter types, types of the locals,
                    \* result type, integer literals, operators, and
                    \* string and symbol literals with their spellings
    MaxScalars,     \* MIGA80_ABI_MAX_SCALAR_ARGUMENTS
    MaxAddresses,   \* MIGA80_ABI_MAX_ADDRESS_ARGUMENTS
    MaxPoolEntries, \* MIGA80_MAX_POOL_ENTRIES
    MaxPoolBytes,   \* MIGA80_MAX_POOL_BYTES
    MaxNodes,       \* MIGA80_MAX_AST_NODES
    MaxStatements,  \* MIGA80_MAX_STATEMENTS
    MaxFrames       \* the nesting an author uses

OperatorKinds == {"==", "!=", "<", "<=", ">", ">=", "+", "-", "*", "/"}

(* What an author writes; the lexer refuses literals that are negative as  *)
(* i32.                                                                    *)
ASSUME LiteralsAssumption ==
    \A a \in Authors : a.literals \subseteq 0 .. SignBit - 1
ASSUME AuthorsAssumption ==
    \A a \in Authors :
        /\ {Len(a.parameters), Len(a.locals)} \subseteq Nat
        /\ a.parameters \in [1 .. Len(a.parameters) -> Types]
        /\ a.locals \in [1 .. Len(a.locals) -> Types]
        /\ a.result \in Types
        /\ a.operators \subseteq OperatorKinds
        /\ \A n \in DOMAIN a.spellings :
              /\ n \in Nat
              /\ a.spellings[n].type \in PoolTypes
              /\ Len(a.spellings[n].text) \in Nat
ASSUME LimitsAssumption ==
    {MaxScalars, MaxAddresses, MaxPoolEntries, MaxPoolBytes, MaxNodes,
     MaxStatements, MaxFrames} \subseteq Nat

VARIABLES
    signature,      \* what the author declares and writes with
    mode,           \* what the parser expects, or "parsed" or "refused"
    current,        \* the token it looks at
    tokens,         \* the tokens of the expression before it (history)
    frames,
    operand,        \* the expression just parsed: a node
    nodes,          \* the table of AST nodes
    pool,           \* the string and symbol literals, each text once
    statement,      \* the statement whose expression is being parsed
    statements,
    local_count

parserVars == <<signature, mode, current, tokens, frames, operand, nodes,
                pool, statement, statements, local_count>>
-----------------------------------------------------------------------------
(* Tokens                                                                  *)

Token(kind, value) == [kind |-> kind, value |-> value]
Mark(kind) == Token(kind, 0)

(* Names are numbered: parameters, then locals in the order declared.      *)
ParameterCount == Len(signature.parameters)
Names == 1 .. ParameterCount + Len(signature.locals)
DeclaredNames == 1 .. ParameterCount + local_count

(* A parameter is passed in the register class of its type.                *)
IsAddress(p) == signature.parameters[p] \in AddressTypes

(* Mutant: the scalars are counted for both classes.                       *)
MutantClassIndex(p) == Cardinality({q \in 1 .. p - 1 : ~IsAddress(q)})

(* parameter_class_index: the parameters of its class before it.           *)
ClassIndex(p) == Cardinality({q \in 1 .. p - 1 : IsAddress(q) = IsAddress(p)})

(* Each class has registers for so many (parse_parameter).                 *)
Passable == \A p \in 1 .. ParameterCount :
                ClassIndex(p) < IF IsAddress(p) THEN MaxAddresses
                                ELSE MaxScalars

(* A literal is numbered by its spelling: several may spell one text.      *)
Spelling(n) == signature.spellings[n]

OperandTokens ==
    {Token("int", n) : n \in signature.literals}
    \cup {Token("name", n) : n \in Names}
    \cup {Token(Spelling(n).type, n) : n \in DOMAIN signature.spellings}
    \cup {Mark("true"), Mark("("), Mark("-"), Mark(")")}
OperatorTokens == {Mark(k) : k \in signature.operators \cup {")", ";"}}

(* Mutant: a sum binds as tightly as a product.                            *)
MutantLevel(kind) ==
    CASE kind \in {"*", "/", "+", "-"} -> 3
      [] kind \in OperatorKinds -> 1
      [] OTHER -> 0

(* The function of the descent that reads an operator: parse_multiply 3,   *)
(* parse_add 2, parse_expression 1.                                        *)
Level(kind) == CASE kind \in {"*", "/"} -> 3
                 [] kind \in {"+", "-"} -> 2
                 [] kind \in OperatorKinds -> 1
                 [] OTHER -> 0

Frame(kind, level, left) == [kind |-> kind, level |-> level, left |-> left]
Top == frames[Len(frames)]
Pop == SubSeq(frames, 1, Len(frames) - 1)
-----------------------------------------------------------------------------
(* AST nodes.  An operator takes the table ns and returns the one it       *)
(* leaves and a node in it; node 0 stands for a refused program.           *)

Node(kind, type, left, right, value) ==
    [kind |-> kind, type |-> type, left |-> left, right |-> right,
     value |-> value]
Made(ns, id) == [nodes |-> ns, id |-> id]
AddNode(ns, node) == IF Len(ns) = MaxNodes THEN Made(ns, 0)
                     ELSE Made(Append(ns, node), Len(ns) + 1)

(* Mutant: quotients are rounded down.                                     *)
MutantFolded(op, a, b) ==
    IF op = "div" /\ b < SignBit THEN Wrap(Signed(a) \div b)
    ELSE Apply(op, "i32", a, b)

(* The arithmetic of constant_i32: that of i32, for constants are i32      *)
(* until they are converted.                                               *)
Folded(op, a, b) == Apply(op, "i32", a, b)

(* constant_i32: <<word>>, or <<>> for what is not constant.               *)
Constants(ns) ==
    LET value[n \in DOMAIN ns] ==
            LET node  == ns[n]
                left  == value[node.left]
                right == value[node.right]
            IN  CASE node.kind = "literal" -> <<node.value>>
                  [] node.kind = "neg" ->
                       IF left = <<>> THEN <<>> ELSE <<Negated(left[1])>>
                  [] node.kind = "normalize" ->
                       IF left = <<>> THEN <<>>
                       ELSE <<Normalize(node.type, left[1])>>
                  [] node.kind \in Arithmetic ->
                       IF left = <<>> THEN <<>>
                       ELSE IF right = <<>> THEN <<>>
                       ELSE IF Faults(node.kind, right[1]) THEN <<>>
                       ELSE <<Folded(node.kind, left[1], right[1])>>
                  [] OTHER -> <<>>
    IN  value

(* Mutant: only the upper limit of a narrow type is looked at.             *)
MutantCoerced(ns, n, type) ==
    IF ns[n].type = type THEN Made(ns, n)
    ELSE IF ns[n].type # "i32" \/ Constants(ns)[n] = <<>> THEN Made(ns, 0)
    ELSE AddNode(ns, Node("normalize", type, n, 0, 0))

(* coerce_constant: an i32 constant becomes a value of a narrow type that  *)
(* can hold it.                                                            *)
Coerced(ns, n, type) ==
    IF ns[n].type = type THEN Made(ns, n)
    ELSE IF \/ type \notin IntegerTypes
            \/ ns[n].type # "i32" \/ Constants(ns)[n] = <<>>
         THEN Made(ns, 0)
    ELSE IF ~Fits(type, Constants(ns)[n][1]) THEN Made(ns, 0)
    ELSE AddNode(ns, Node("normalize", type, n, 0, 0))

(* The operands of an operator, the i32 one of the two brought to the type *)
(* of the other (require_matching_integers, parse_expression).             *)
Matched(ns, l, r) ==
    LET lt == ns[l].type
        rt == ns[r].type
        left  == Coerced(ns, l, rt)
        right == Coerced(ns, r, lt)
        Pair(made, a, b) == [nodes |-> made.nodes, left |-> a, right |-> b,
                             same |-> made.id # 0]
    IN  CASE lt = rt -> Pair(Made(ns, l), l, r)
          [] lt # rt /\ lt = "i32" -> Pair(left, left.id, r)
          [] lt # rt /\ lt # "i32" -> Pair(right, l, right.id)

(* Mutant: division is signed whatever the type.                           *)
MutantKindOf(op, type) ==
    CASE op = "/"  -> "div"
      [] op = "+"  -> "add"
      [] op = "-"  -> "sub"
      [] op = "*"  -> "mul"
      [] op = "<"  -> IF type \in SignedTypes THEN "lt" ELSE "lt_u"
      [] OTHER -> "eq"

(* The AST kind of an operator on operands of a type.                      *)
KindOf(op, type) ==
    LET Either(kind, unsigned) ==
            IF type \in SignedTypes THEN kind ELSE unsigned
    IN  CASE op = "+"  -> "add"
          [] op = "-"  -> "sub"
          [] op = "*"  -> "mul"
          [] op = "/"  -> Either("div", "div_u")
          [] op = "==" -> "eq"
          [] op = "!=" -> "ne"
          [] op = "<"  -> Either("lt", "lt_u")
          [] op = "<=" -> Either("le", "le_u")
          [] op = ">"  -> Either("gt", "gt_u")
          [] op = ">=" -> Either("ge", "ge_u")

(* "division by zero in constant expression"                               *)
ZeroDivisor(ns, op, r) == op = "/" /\ Constants(ns)[r] = <<0>>

MakeUnary(ns, n) ==
    IF ns[n].type \notin SignedTypes THEN Made(ns, 0)
    ELSE AddNode(ns, Node("neg", ns[n].type, n, 0, 0))

(* The loops of parse_multiply, parse_add and parse_expression, once the   *)
(* right operand is there.                                                 *)
MakeBinary(ns, op, l, r) ==
    LET m    == Matched(ns, l, r)
        type == m.nodes[m.left].type
        kind == KindOf(op, type)
    IN  IF \/ ~m.same
           \/ kind \notin Equalities /\ type \notin IntegerTypes
           \/ ZeroDivisor(m.nodes, op, m.right)
        THEN Made(ns, 0)
        ELSE AddNode(m.nodes,
                     Node(kind, IF kind \in Comparisons THEN "bool" ELSE type,
                          m.left, m.right, 0))
-----------------------------------------------------------------------------
(* The constant pool.                                                      *)

Entry(type, text) == [type |-> type, text |-> text]
Interned(entries, id) == [pool |-> entries, id |-> id]

(* The bytes of the texts together.                                        *)
BytesUsed(entries) ==
    LET bytes[k \in 0 .. Len(entries)] ==
            IF k = 0 THEN 0 ELSE bytes[k - 1] + Len(entries[k].text)
    IN  bytes[Len(entries)]

(* Mutant: a text is looked up whatever its type.                          *)
MutantIntern(entries, type, text) ==
    LET same == {e \in DOMAIN entries : entries[e].text = text}
    IN  IF same # {} THEN Interned(entries, CHOOSE e \in same : TRUE)
        ELSE Interned(Append(entries, Entry(type, text)), Len(entries) + 1)

(* intern_pool_literal: the entry of a text, a new one the first time.     *)
(* Entries are numbered from 1, as the evaluator numbers strings.          *)
Intern(entries, type, text) ==
    LET same == {e \in DOMAIN entries : entries[e] = Entry(type, text)}
    IN  CASE same # {} -> Interned(entries, CHOOSE e \in same : TRUE)
          [] same = {} ->
               IF \/ Len(entries) = MaxPoolEntries
                  \/ BytesUsed(entries) + Len(text) > MaxPoolBytes
               THEN Interned(entries, 0)
               ELSE Interned(Append(entries, Entry(type, text)),
                             Len(entries) + 1)

(* miga80_pool_symbol_id: symbols are numbered in the order of the pool.   *)
SymbolId(entries, e) ==
    Cardinality({k \in 1 .. e : entries[k].type = "symbol"})
-----------------------------------------------------------------------------
Init ==
    /\ signature \in Authors
    /\ mode = IF Passable THEN "statement" ELSE "refused"
    /\ current = Mark(";")
    /\ tokens = <<>>
    /\ frames = <<>>
    /\ operand = 0
    /\ nodes = <<>>
    /\ pool = <<>>
    /\ statement = <<>>
    /\ statements = <<>>
    /\ local_count = 0

Refuse ==
    /\ mode' = "refused"
    /\ UNCHANGED <<signature, current, tokens, frames, operand, nodes, pool,
                   statement, statements, local_count>>

(* A statement up to its expression: kind, the local it sets.              *)
Begin(kind, local) ==
    /\ mode' = "operand"
    /\ statement' = <<kind, local>>
    /\ tokens' = <<>>
    /\ current' \in OperandTokens
    /\ UNCHANGED <<signature, frames, operand, nodes, pool, statements,
                   local_count>>

(* local name: type = ...  The name exists after the initializer only.     *)
BeginLocal(name) ==
    /\ mode = "statement" /\ local_count < Len(signature.locals)
    /\ IF name \in DeclaredNames THEN Refuse
       ELSE /\ name = ParameterCount + local_count + 1
            /\ Begin("local", local_count + 1)

(* name = ... and name /= ... (parse_assignment): no parameter, and only   *)
(* what is declared.                                                       *)
BeginAssign(kind, name) ==
    /\ mode = "statement"
    /\ IF name <= ParameterCount \/ name \notin DeclaredNames THEN Refuse
       ELSE Begin(kind, name - ParameterCount)

BeginReturn ==
    /\ mode = "statement"
    /\ Begin("return", 0)
-----------------------------------------------------------------------------
(* The parser moves on to the next token.                                  *)
Advance(next, choices) ==
    /\ mode' = next
    /\ current' \in choices
    /\ tokens' = Append(tokens, current)

NewNode(made, entries, next, choices) ==
    IF made.id = 0 THEN Refuse
    ELSE /\ nodes' = made.nodes
         /\ pool' = entries
         /\ operand' = made.id
         /\ Advance(next, choices)
         /\ UNCHANGED <<signature, frames, statement, statements, local_count>>

TypeOfName(name) ==
    IF name <= ParameterCount THEN signature.parameters[name]
    ELSE signature.locals[name - ParameterCount]

(* A literal or a name (parse_primary).                                    *)
Primary ==
    /\ mode = "operand" /\ current.kind \in {"int", "true", "name"}
    /\ LET node ==
             CASE current.kind = "int" ->
                    Node("literal", "i32", 0, 0, current.value)
               [] current.kind = "true" -> Node("truth", "bool", 0, 0, 1)
               [] current.kind = "name" /\ current.value <= ParameterCount ->
                    Node("parameter", TypeOfName(current.value), 0, 0,
                         current.value)
               [] current.kind = "name" /\ current.value > ParameterCount ->
                    Node("local", TypeOfName(current.value), 0, 0,
                         current.value - ParameterCount)
       IN  IF current.kind = "name" /\ current.value \notin DeclaredNames
           THEN Refuse
           ELSE NewNode(AddNode(nodes, node), pool, "operator",
                        OperatorTokens)

(* "text" or symbol("text"), which is one token here (parse_primary).      *)
PoolLiteral ==
    /\ mode = "operand" /\ current.kind \in PoolTypes
    /\ LET text == Spelling(current.value).text
           interned == Intern(pool, current.kind, text)
       IN  IF interned.id = 0 THEN Refuse
           ELSE NewNode(AddNode(nodes, Node(current.kind, current.kind, 0, 0,
                                            interned.id)),
                        interned.pool, "operator", OperatorTokens)

(* A minus sign or a parenthesis before an operand.                        *)
Prefix ==
    /\ mode = "operand" /\ current.kind \in {"-", "("}
    /\ Len(frames) < MaxFrames
    /\ frames' = Append(frames, IF current.kind = "-" THEN Frame("neg", 4, 0)
                                ELSE Frame("(", 0, 0))
    /\ Advance("operand", OperandTokens)
    /\ UNCHANGED <<signature, operand, nodes, pool, statement, statements,
                   local_count>>

NoOperand == mode = "operand" /\ current.kind = ")" /\ Refuse

(* Mutant: an operator of the same level goes to the right operand.        *)
MutantReturns == Top.level > Level(current.kind)

(* The function that waits has its right operand: what comes next does not *)
(* belong to it.                                                           *)
Returns == Top.level >= Level(current.kind)

Waiting == frames # <<>> /\ Top.kind # "("

(* It makes its node.                                                      *)
Combine ==
    /\ mode = "operator" /\ Waiting /\ Returns
    /\ LET made == IF Top.kind = "neg" THEN MakeUnary(nodes, operand)
                   ELSE MakeBinary(nodes, Top.kind, Top.left, operand)
       IN  IF made.id = 0 THEN Refuse
           ELSE /\ nodes' = made.nodes
                /\ operand' = made.id
                /\ frames' = Pop
                /\ UNCHANGED <<signature, mode, current, tokens, pool,
                               statement, statements, local_count>>

Operator ==
    /\ mode = "operator" /\ current.kind \in OperatorKinds
    /\ Waiting => ~Returns
    /\ Len(frames) < MaxFrames
    /\ frames' = Append(frames, Frame(current.kind, Level(current.kind),
                                      operand))
    /\ Advance("operand", OperandTokens)
    /\ UNCHANGED <<signature, operand, nodes, pool, statement, statements,
                   local_count>>

(* ")" closes a parenthesis; a missing or superfluous one ends parsing.    *)
CloseParenthesis ==
    /\ mode = "operator" /\ ~Waiting
    /\ current.kind \notin OperatorKinds
    /\ (frames = <<>>) # (current.kind = ";")
    /\ IF frames = <<>> \/ current.kind = ";" THEN Refuse
       ELSE /\ frames' = Pop
            /\ Advance("operator", OperatorTokens)
            /\ UNCHANGED <<signature, operand, nodes, pool, statement,
                           statements, local_count>>
-----------------------------------------------------------------------------
(* The expression is complete.                                             *)
ExpressionEnds == mode = "operator" /\ frames = <<>> /\ current.kind = ";"

(* require_type, and the statement enters the table.                       *)
Complete(made, local, next) ==
    IF made.id = 0 \/ Len(statements) = MaxStatements THEN Refuse
    ELSE /\ nodes' = made.nodes
         /\ statements' = Append(statements, [local |-> local,
                                              expression |-> made.id])
         /\ statement' = <<>> /\ operand' = 0 /\ tokens' = <<>>
         /\ mode' = next
         /\ UNCHANGED <<signature, current, frames, pool>>

EndLocal ==
    /\ ExpressionEnds /\ statement[1] = "local"
    /\ LET made == Coerced(nodes, operand, signature.locals[local_count + 1])
       IN  /\ Complete(made, local_count + 1, "statement")
           /\ mode' = "statement" => local_count' = local_count + 1

EndAssign ==
    /\ ExpressionEnds /\ statement[1] = "assign"
    /\ Complete(Coerced(nodes, operand, signature.locals[statement[2]]),
                statement[2], "statement")
    /\ UNCHANGED local_count

(* name /= divisor: the read of the target is made after the divisor.      *)
EndDivideAssign ==
    /\ ExpressionEnds /\ statement[1] = "divide"
    /\ UNCHANGED local_count
    /\ LET local   == statement[2]
           type    == signature.locals[local]
           divisor == Coerced(nodes, operand, type)
           target  == AddNode(divisor.nodes, Node("local", type, 0, 0, local))
           refused == \/ type \notin IntegerTypes \/ divisor.id = 0
                      \/ ZeroDivisor(divisor.nodes, "/", divisor.id)
                      \/ target.id = 0
       IN  IF refused THEN Refuse
           ELSE Complete(AddNode(target.nodes,
                                 Node(KindOf("/", type), type, target.id,
                                      divisor.id, 0)),
                         local, "statement")

EndReturn ==
    /\ ExpressionEnds /\ statement[1] = "return"
    /\ Complete(Coerced(nodes, operand, signature.result), 0, "parsed")
    /\ UNCHANGED local_count

ParseNext ==
    \/ \E name \in Names : \/ BeginLocal(name)
                           \/ \E kind \in {"assign", "divide"} :
                                 BeginAssign(kind, name)
    \/ BeginReturn
    \/ Primary \/ PoolLiteral \/ Prefix \/ NoOperand \/ Combine \/ Operator
    \/ CloseParenthesis
    \/ EndLocal \/ EndAssign \/ EndDivideAssign \/ EndReturn

ParseSpec == Init /\ [][ParseNext]_parserVars
-----------------------------------------------------------------------------
(* Properties                                                              *)

(* The reading of tokens i..j by the rules of the language: the last       *)
(* operator outside parentheses divides them, a comparison before a sum    *)
(* before a product.                                                       *)
Depth(i, k) == Cardinality({q \in i .. k - 1 : tokens[q].kind = "("})
               - Cardinality({q \in i .. k : tokens[q].kind = ")"})
Infix(i, j) ==
    {k \in i + 1 .. j : /\ tokens[k].kind \in OperatorKinds
                        /\ tokens[k - 1].kind \notin OperatorKinds \cup {"("}
                        /\ Depth(i, k) = 0}
Divider(i, j) ==
    LET Of(kinds) == {k \in Infix(i, j) : tokens[k].kind \in kinds}
        sums == Of({"+", "-"})
        compared == Infix(i, j) \ (sums \cup Of({"*", "/"}))
        loosest == IF compared # {} THEN compared
                   ELSE IF sums # {} THEN sums ELSE Infix(i, j)
    IN  CHOOSE k \in loosest : \A q \in loosest : q <= k

Reads ==
    LET reads[n \in DOMAIN nodes, i, j \in DOMAIN tokens] ==
            LET node == nodes[n]
            IN  IF node.kind = "normalize" THEN reads[node.left, i, j]
                ELSE IF Infix(i, j) # {}
                     THEN /\ node.kind \in Arithmetic \cup Comparisons
                          /\ LET k == Divider(i, j)
                             IN  /\ node.kind = KindOf(tokens[k].kind,
                                                       nodes[node.left].type)
                                 /\ reads[node.left, i, k - 1]
                                 /\ reads[node.right, k + 1, j]
                ELSE IF tokens[i].kind = "-"
                     THEN node.kind = "neg" /\ reads[node.left, i + 1, j]
                ELSE IF tokens[i].kind = "("
                     THEN reads[n, i + 1, j - 1]
                ELSE IF tokens[i].kind \in PoolTypes
                     THEN /\ i = j /\ node.kind = tokens[i].kind
                          /\ pool[node.value] = Spelling(tokens[i].value)
                ELSE /\ i = j
                     /\ node.value = CASE tokens[i].kind = "true" -> 1
                                       [] node.kind = "local" ->
                                            tokens[i].value - ParameterCount
                                       [] OTHER -> tokens[i].value
    IN  reads

(* Operators bind and associate as the language says, wherever unary minus *)
(* and parentheses stand and whatever conversions are put in between       *)
(* (parse_expression, parse_add, parse_multiply, parse_unary).             *)
ParsedAsWritten ==
    ExpressionEnds => Reads[operand, 1, Len(tokens)]
=============================================================================
