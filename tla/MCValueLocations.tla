-------------------------- MODULE MCValueLocations --------------------------
(* Every function of a few statements over three locals and a parameter,     *)
(* placed in three registers, of which a function with a frame can use two.*)
EXTENDS ValueLocations

CONSTANTS x, y, z, none

Const(n) == [op |-> "const", value |-> n]
Param    == [op |-> "param", index |-> 1]
Local(l) == [op |-> "local", name |-> l]
Binary(op, left, right) == [op |-> op, left |-> left, right |-> right]
Set(l, e) == [to |-> l, value |-> e]

MCLocals == {x, y, z}
MCAssigns == {Set(z, Local(x)), Set(x, Local(y)), Set(y, Local(z)),
              Set(y, Binary("add",
                            Binary("mul", Local(x), Const(3)),
                            Binary("mul", Binary("add", Local(y), Param),
                                          Binary("sub", Local(x), Local(y)))))}
MCConditions == {Binary("lt", Local(y), Local(x))}
MCDeclarations == {(x :> Param) @@ (y :> Const(1)) @@ (z :> Const(0))}
MCResult == Binary("sub", Binary("add", Param, Local(x)),
                   Binary("mul", Binary("sub", Local(x), Param), Local(y)))

(* A loop around a product by a constant that is known as one only when    *)
(* its phi is removed.                                                     *)
LateAssigns == {Set(x, Local(x)),
                Set(y, Binary("mul", Local(x), Binary("add", Param, Local(y))))}
LateDeclarations == {(x :> Const(3)) @@ (y :> Param) @@ (z :> Const(0))}
=============================================================================
