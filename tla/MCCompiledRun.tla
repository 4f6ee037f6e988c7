--------------------------- MODULE MCCompiledRun ----------------------------
(* Every function of a few statements over two locals and one parameter,   *)
(* compiled and called.                                                    *)
EXTENDS CompiledRun

CONSTANTS x, y, none

Const(n) == [op |-> "const", value |-> n]
Param    == [op |-> "param", index |-> 1]
Local(l) == [op |-> "local", name |-> l]
Binary(op, left, right) == [op |-> op, left |-> left, right |-> right]
Set(l, e) == [to |-> l, value |-> e]

MCLocals == {x, y}
MCAssigns == {Set(x, Local(x)), Set(x, Local(y)),
              Set(y, Binary("div", Param, Local(x))),
              Set(y, Binary("sub", Local(x), Local(y))),
              Set(x, Binary("add", Const(1), Local(x)))}
MCConditions == {Binary("lt", Local(y), Param), Binary("eq", Local(x), Local(y))}
MCDeclarations == {(x :> Const(0)) @@ (y :> Param),
                   (x :> Param) @@ (y :> Const(1))}
MCResult == Binary("sub", Local(x), Binary("mul", Const(2), Local(y)))
MCArguments == {<<n>> : n \in {0, 1, 3, 4, 7}}
=============================================================================
