--------------------------- MODULE MCPhiEdgeCopy ----------------------------
(* PhiEdgeCopy over every edge with up to four phis.  The moves do not     *)
(* look at the data, so one frame in which each place holds its own name   *)
(* tells every wrong move from the right one.                              *)
EXTENDS PhiEdgeCopy, TLC

CONSTANTS reg, temp, none

MCFixed == {reg}
MCValue == (0 .. NSlots - 1) \cup {reg, temp}
MCFrames == {[l \in (0 .. NSlots - 1) \cup {reg, temp} |-> l]}

(* Every choice of operands for phis listed in slot order; a phi that      *)
(* keeps its own slot stands for an edge that does not assign it.          *)
MCEdges ==
    {[i \in 1 .. NSlots |->
        [dst |-> IF up THEN i - 1 ELSE NSlots - i, src |-> s[i - 1]]] :
        up \in BOOLEAN,
        s \in [0 .. NSlots - 1 -> (0 .. NSlots - 1) \cup {reg}]}
=============================================================================
