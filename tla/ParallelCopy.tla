---------------------------- MODULE ParallelCopy ----------------------------
(***************************************************************************)
(* What crossing a control-flow edge promises.  Every phi of the successor *)
(* block receives, in ONE step, the value its operand had when the         *)
(* predecessor ended: the assignments of an edge are simultaneous, so a    *)
(* phi that reads another phi of the same block sees its old value.        *)
(* PhiEdgeCopy implements this step with one move at a time.               *)
(***************************************************************************)
CONSTANTS
    Loc,        \* the places a value may live in
    Edges,      \* the edges: sequences of records [dst, src] over Loc
    Frames      \* the contents of Loc when the edge is entered

VARIABLES
    edge,       \* the edge being crossed
    mem,        \* the contents of every place
    taken       \* TRUE once the edge is crossed

vars == <<edge, mem, taken>>

(* The places an edge assigns, and the operand it assigns to each.         *)
Destinations(e) == {e[i].dst : i \in DOMAIN e}
SourceOf(e, d)  == e[CHOOSE i \in DOMAIN e : e[i].dst = d].src

Transfer(e, m) ==
    [l \in Loc |-> IF l \in Destinations(e) THEN m[SourceOf(e, l)] ELSE m[l]]

Init == /\ edge \in Edges
        /\ mem \in Frames
        /\ taken = FALSE

TakeEdge == /\ ~taken
            /\ mem' = Transfer(edge, mem)
            /\ taken' = TRUE
            /\ UNCHANGED edge

Spec == Init /\ [][TakeEdge]_vars /\ WF_vars(TakeEdge)
=============================================================================
