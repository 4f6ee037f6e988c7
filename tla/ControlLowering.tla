-------------------------- MODULE ControlLowering ---------------------------
(***************************************************************************)
(* Lowering of structured control flow to basic blocks                     *)
(* (compiler/ir/ir.c: lower_statement_list and its helpers).               *)
(*                                                                         *)
(* The statements of a function arrive one token at a time; which comes    *)
(* next is the choice of the program's author.  The recursion of the C     *)
(* function on nested statement lists is the sequence `frames'.  A token   *)
(* performs the code the C function runs at that point; merging the        *)
(* break and continue edges of a loop takes one step per edge.             *)
(***************************************************************************)
EXTENDS Integers, Sequences, FiniteSets

CONSTANTS
    MaxBlocks,      \* MIGA80_MAX_BASIC_BLOCKS
    MaxStatements,  \* MIGA80_MAX_STATEMENTS, the return included
    Assigns,        \* the assignments a program may contain
    Conditions,     \* the conditions of its if and while statements
    NoBlock,        \* MIGA80_INVALID_BLOCK
    NoEdge          \* no pending edge

AllBlocks == 0 .. MaxBlocks - 1

ASSUME BoundsAssumption == /\ MaxBlocks \in Nat \ {0}
                           /\ MaxStatements \in Nat \ {0}
ASSUME NoBlockAssumption == NoBlock \notin AllBlocks
ASSUME NoEdgeAssumption == NoEdge \notin AllBlocks \X {1, 2}

VARIABLES
    program,      \* the tokens lowered so far (history)
    phase,        \* "lowering", "lowered" or "rejected"
    block_count,
    succ,         \* the successors of a block; NoBlock until patched
    code,         \* the tokens whose instructions a block holds
    finished,     \* the blocks that have their terminator
    loops,        \* block_loop_membership: the loops a block belongs to
    layout,       \* the blocks in the order of their first instruction
    current,      \* current_block; NoBlock after break and continue
    control,      \* control_edges: pending break and continue edges
    active,       \* active_loops: the headers of the open loops
    frames,       \* the statements whose lists are being lowered
    funnel        \* build_control_funnel in progress: empty or one record

vars == <<program, phase, block_count, succ, code, finished, loops, layout,
          current, control, active, frames, funnel>>
cfg  == <<block_count, succ, code, finished, loops, layout>>
-----------------------------------------------------------------------------
(* Helpers                                                                 *)

Top == frames[Len(frames)]
Pop == SubSeq(frames, 1, Len(frames) - 1)
Position == Len(program) + 1

Statement == {"assign", "if", "while", "break", "continue", "return"}
StatementCount ==
    Cardinality({p \in DOMAIN program : program[p].kind \in Statement})

Token(kind, arg) == program' = Append(program, [kind |-> kind, arg |-> arg])

(* The next token is lowered into an open statement list.                  *)
Ready == phase = "lowering" /\ funnel = <<>>

(* A statement starts: the author may write one more before the return.    *)
NextStatement(kind) ==
    /\ Ready
    /\ StatementCount < MaxStatements - (IF kind = "return" THEN 0 ELSE 1)
    /\ current # NoBlock

(* Mutant: the table is checked once, for the first block created.         *)
MutantRoom(n) == block_count < MaxBlocks

(* create_block fails when the table is full, and compilation with it.     *)
Room(n) == block_count + n <= MaxBlocks
Reject  == phase' = "rejected"
           /\ UNCHANGED <<cfg, current, control, active, frames, funnel>>

(* patch_edge *)
Patch(s, edge, target) == [s EXCEPT ![edge[1]][edge[2]] = target]

(* The blocks of the set bs join the loops of ls.                          *)
Declare(bs, ls) == [b \in AllBlocks |-> IF b \in bs THEN ls ELSE loops[b]]

(* Mutant: the loop takes every pending edge, those of outer loops too.    *)
MutantFunnelStart(frame) == 1

(* The first of the pending edges that belong to the loop of a frame.      *)
FunnelStart(frame) == frame.control_start + 1

(* build_control_funnel: what it looks at, one after the other, and where  *)
(* the edges of its kind are to lead.                                      *)
Funnel(kind, implicit, target, exit_block) ==
    << [kind       |-> kind,
        index      |-> FunnelStart(Top),
        implicit   |-> implicit,
        pending    |-> NoEdge,
        target     |-> target,
        exit_block |-> exit_block] >>

Offered(f) ==
    IF f.implicit = NoEdge THEN control
    ELSE Append(control, [kind |-> f.kind, edge |-> f.implicit])

(* Mutant: the pending edges of outer loops count as the loop's own.       *)
MutantLoopFrame(header) ==
    [kind |-> "while", header_block |-> header, control_start |-> 0,
     outer_loops |-> active]

(* What the lowering of a loop remembers while it lowers the body.         *)
LoopFrame(header) ==
    [kind |-> "while", header_block |-> header,
     control_start |-> Len(control), outer_loops |-> active]

(* control_edge_count = control_start                                      *)
ControlOfOuterLoops == SubSeq(control, 1, Top.control_start)

(* Mutant: the closed loop stays active.                                   *)
MutantOuterLoops == active

(* active_loops of the statement after the loop                            *)
OuterLoops == Top.outer_loops

(* Mutant: the end of the then list is patched only when the end of the    *)
(* else list is.                                                           *)
MutantJoinThen(s, join_block) ==
    IF current = NoBlock \/ Top.then_edge = NoEdge THEN s
    ELSE Patch(s, Top.then_edge, join_block)

(* The end of the then list, if control reaches it, enters the join.       *)
JoinThen(s, join_block) ==
    IF Top.then_edge = NoEdge THEN s ELSE Patch(s, Top.then_edge, join_block)

(* Mutant: the body is begun before the header.                            *)
MutantBeginLoop(header, body) == layout \o <<body, header>>

BeginLoop(header, body) == layout \o <<header, body>>

(* Mutant: the latch tests the condition again and leaves the loop itself. *)
MutantLatchSuccessors(f) == <<Top.header_block, f.exit_block>>

LatchSuccessors(f) == <<Top.header_block>>

(* Mutant: an edge of the other kind is looked at again.                   *)
MutantSkipped(f) == f

Skipped(f) == [f EXCEPT !.index = @ + 1]

HasEdge == funnel[1].index <= Len(Offered(funnel[1]))
-----------------------------------------------------------------------------
(* miga80_lower_function: the entry block is open.                         *)
Init ==
    /\ program = <<>>
    /\ phase = "lowering"
    /\ block_count = 1
    /\ succ = [b \in AllBlocks |-> <<>>]
    /\ code = [b \in AllBlocks |-> <<>>]
    /\ finished = {}
    /\ loops = [b \in AllBlocks |-> {}]
    /\ layout = <<0>>
    /\ current = 0
    /\ control = <<>>
    /\ active = {}
    /\ frames = <<>>
    /\ funnel = <<>>

Assign(a) ==
    /\ NextStatement("assign")
    /\ Token("assign", a)
    /\ code' = [code EXCEPT ![current] = Append(@, Position)]
    /\ UNCHANGED <<phase, block_count, succ, finished, loops, layout,
                   current, control, active, frames, funnel>>

(* if c then: the branch closes the current block.                         *)
If(c) ==
    /\ NextStatement("if")
    /\ Token("if", c)
    /\ IF ~Room(2) THEN Reject
       ELSE LET then_block == block_count
                else_block == block_count + 1
            IN  /\ block_count' = block_count + 2
                /\ code' = [code EXCEPT ![current] = Append(@, Position)]
                /\ succ' = [succ EXCEPT ![current] =
                                            <<then_block, else_block>>]
                /\ finished' = finished \cup {current}
                /\ loops' = Declare({then_block, else_block}, active)
                /\ layout' = Append(layout, then_block)
                /\ current' = then_block
                /\ frames' = Append(frames, [kind |-> "then",
                                             else_block |-> else_block])
                /\ UNCHANGED <<phase, control, active, funnel>>

(* else: the end of the then list, if control reaches it, jumps to a join  *)
(* that does not exist yet.                                                *)
Else ==
    /\ Ready
    /\ frames # <<>> /\ Top.kind = "then"
    /\ Token("else", NoEdge)
    /\ LET falls_through == current # NoBlock
       IN  /\ succ' = IF falls_through
                      THEN [succ EXCEPT ![current] = <<NoBlock>>] ELSE succ
           /\ finished' = IF falls_through
                          THEN finished \cup {current} ELSE finished
           /\ frames' = Append(Pop, [kind |-> "else",
                                     then_edge |-> IF falls_through
                                                   THEN <<current, 1>>
                                                   ELSE NoEdge])
    /\ layout' = Append(layout, Top.else_block)
    /\ current' = Top.else_block
    /\ UNCHANGED <<phase, block_count, code, loops, control, active, funnel>>

(* end of if: a join block exists only if one of the lists reaches it.     *)
EndIf ==
    /\ Ready
    /\ frames # <<>> /\ Top.kind = "else"
    /\ Token("end", NoEdge)
    /\ IF current = NoBlock /\ Top.then_edge = NoEdge
       THEN /\ frames' = Pop
            /\ UNCHANGED <<phase, cfg, current, control, active, funnel>>
       ELSE IF ~Room(1) THEN Reject
       ELSE LET join_block == block_count
                opened == IF current = NoBlock THEN succ
                          ELSE [succ EXCEPT ![current] = <<join_block>>]
            IN  /\ block_count' = block_count + 1
                /\ succ' = JoinThen(opened, join_block)
                /\ finished' = finished \cup ({current} \ {NoBlock})
                /\ loops' = Declare({join_block}, active)
                /\ layout' = Append(layout, join_block)
                /\ current' = join_block
                /\ frames' = Pop
                /\ UNCHANGED <<phase, code, control, active, funnel>>

(* while c do: the condition has a block of its own, the header.           *)
While(c) ==
    /\ NextStatement("while")
    /\ Token("while", c)
    /\ IF ~Room(2) THEN Reject
       ELSE LET header_block == block_count
                body_block   == block_count + 1
            IN  /\ block_count' = block_count + 2
                /\ succ' = [succ EXCEPT ![current] = <<header_block>>,
                                        ![header_block] =
                                            <<body_block, NoBlock>>]
                /\ code' = [code EXCEPT ![header_block] = <<Position>>]
                /\ finished' = finished \cup {current, header_block}
                /\ active' = active \cup {header_block}
                /\ loops' = Declare({header_block, body_block}, active')
                /\ layout' = BeginLoop(header_block, body_block)
                /\ current' = body_block
                /\ frames' = Append(frames, LoopFrame(header_block))
                /\ UNCHANGED <<phase, control, funnel>>

(* end of while: a latch exists only if something continues the loop.      *)
EndWhile ==
    /\ Ready
    /\ frames # <<>> /\ Top.kind = "while"
    /\ Token("end", NoEdge)
    /\ LET falls_through == current # NoBlock
           latched == \/ falls_through
                      \/ \E i \in FunnelStart(Top) .. Len(control) :
                            control[i].kind = "continue"
           exit_block == IF latched THEN block_count + 1 ELSE block_count
       IN  IF ~Room(IF latched THEN 2 ELSE 1) THEN Reject
           ELSE /\ block_count' = exit_block + 1
                /\ succ' = IF falls_through
                           THEN [succ EXCEPT ![current] = <<NoBlock>>]
                           ELSE succ
                /\ finished' = finished \cup ({current} \ {NoBlock})
                /\ loops' = [Declare({block_count}, active)
                                EXCEPT ![exit_block] = OuterLoops]
                /\ funnel' =
                      IF latched
                      THEN Funnel("continue",
                                  IF falls_through THEN <<current, 1>>
                                  ELSE NoEdge,
                                  block_count, exit_block)
                      ELSE Funnel("break", <<Top.header_block, 2>>,
                                  exit_block, exit_block)
                /\ current' = NoBlock
                /\ UNCHANGED <<phase, code, layout, control, active, frames>>

(* Mutant: the edges all enter the target, without merge blocks.           *)
MutantFunnelEdge ==
    /\ phase = "lowering"
    /\ funnel # <<>> /\ funnel[1].index <= Len(Offered(funnel[1]))
    /\ LET f    == funnel[1]
           edge == Offered(f)[f.index].edge
           fits == Offered(f)[f.index].kind = f.kind
       IN  /\ succ' = IF fits /\ f.pending # NoEdge
                      THEN Patch(succ, f.pending, f.target) ELSE succ
           /\ funnel' = << [f EXCEPT !.index = @ + 1,
                                     !.pending = IF fits THEN edge ELSE @] >>
    /\ UNCHANGED <<program, phase, block_count, code, finished, loops, layout,
                   current, control, active, frames>>

(* One round of the loop of build_control_funnel, or the implicit edge.    *)
(* add_funnel_edge: the first edge waits; every further one is merged with *)
(* the waiting edge in a new block, whose exit then waits.                 *)
FunnelEdge ==
    /\ phase = "lowering"
    /\ funnel # <<>> /\ HasEdge
    /\ UNCHANGED <<program, code, current, control, active, frames>>
    /\ LET f    == funnel[1]
           edge == Offered(f)[f.index].edge
           merge_block == block_count
       IN  IF Offered(f)[f.index].kind # f.kind
           THEN /\ funnel' = << Skipped(f) >>
                /\ UNCHANGED <<phase, block_count, succ, finished, loops,
                               layout>>
           ELSE IF f.pending = NoEdge
           THEN /\ funnel' = << [f EXCEPT !.index = @ + 1,
                                          !.pending = edge] >>
                /\ UNCHANGED <<phase, block_count, succ, finished, loops,
                               layout>>
           ELSE IF ~Room(1)
           THEN /\ phase' = "rejected"
                /\ UNCHANGED <<block_count, succ, finished, loops, layout,
                               funnel>>
           ELSE /\ block_count' = block_count + 1
                /\ succ' = [Patch(Patch(succ, f.pending, merge_block),
                                  edge, merge_block)
                               EXCEPT ![merge_block] = <<NoBlock>>]
                /\ finished' = finished \cup {merge_block}
                /\ loops' = Declare({merge_block}, active)
                /\ layout' = Append(layout, merge_block)
                /\ funnel' = << [f EXCEPT !.index = @ + 1,
                                          !.pending = <<merge_block, 1>>] >>
                /\ UNCHANGED phase

(* The one edge left of the continue funnel enters the latch, which jumps  *)
(* back to the header; then the break edges are merged.                    *)
CloseContinueFunnel ==
    /\ phase = "lowering"
    /\ funnel # <<>> /\ ~HasEdge
    /\ funnel[1].kind = "continue"
    /\ LET f == funnel[1]
       IN  /\ succ' = [Patch(succ, f.pending, f.target)
                          EXCEPT ![f.target] = LatchSuccessors(f)]
           /\ finished' = finished \cup {f.target}
           /\ layout' = Append(layout, f.target)
           /\ funnel' = Funnel("break", <<Top.header_block, 2>>,
                               f.exit_block, f.exit_block)
    /\ UNCHANGED <<program, phase, block_count, code, loops, current,
                   control, active, frames>>

(* The one edge left of the break funnel leaves the loop.                  *)
CloseBreakFunnel ==
    /\ phase = "lowering"
    /\ funnel # <<>> /\ ~HasEdge
    /\ funnel[1].kind = "break"
    /\ LET f == funnel[1]
       IN  /\ succ' = Patch(succ, f.pending, f.exit_block)
           /\ layout' = Append(layout, f.exit_block)
           /\ current' = f.exit_block
    /\ control' = ControlOfOuterLoops
    /\ active' = OuterLoops
    /\ frames' = Pop
    /\ funnel' = <<>>
    /\ UNCHANGED <<program, phase, block_count, code, finished, loops>>

(* break and continue (record_loop_control); outside a loop the parser     *)
(* and the lowering both refuse them.                                      *)
LoopControl(kind) ==
    /\ NextStatement(kind)
    /\ Token(kind, NoEdge)
    /\ IF active = {} THEN Reject
       ELSE /\ succ' = [succ EXCEPT ![current] = <<NoBlock>>]
            /\ finished' = finished \cup {current}
            /\ control' = Append(control, [kind |-> kind,
                                           edge |-> <<current, 1>>])
            /\ current' = NoBlock
            /\ UNCHANGED <<phase, block_count, code, loops, layout, active,
                           frames, funnel>>

(* A statement follows break, continue or an if whose lists both end in    *)
(* one: parse_control_statement_list or lower_statement_list refuses it.   *)
StatementAfterTerminator ==
    /\ Ready
    /\ current = NoBlock
    /\ StatementCount < MaxStatements
    /\ \E kind \in Statement \ {"return"} : Token(kind, NoEdge)
    /\ Reject

Return ==
    /\ NextStatement("return")
    /\ frames = <<>>
    /\ Token("return", NoEdge)
    /\ code' = [code EXCEPT ![current] = Append(@, Position)]
    /\ finished' = finished \cup {current}
    /\ phase' = "lowered"
    /\ UNCHANGED <<block_count, succ, loops, layout, current, control,
                   active, frames, funnel>>

Compiler == FunnelEdge \/ CloseContinueFunnel \/ CloseBreakFunnel

Next ==
    \/ \E a \in Assigns : Assign(a)
    \/ \E c \in Conditions : If(c)
    \/ Else
    \/ EndIf
    \/ \E c \in Conditions : While(c)
    \/ EndWhile
    \/ \E kind \in {"break", "continue"} : LoopControl(kind)
    \/ StatementAfterTerminator
    \/ Return
    \/ Compiler

(* The compiler goes on while it has work; the author may stop.            *)
Spec == Init /\ [][Next]_vars /\ WF_vars(Compiler)
-----------------------------------------------------------------------------
(* Properties                                                              *)

Edge == AllBlocks \X {1, 2}

TypeOK ==
    /\ phase \in {"lowering", "lowered", "rejected"}
    /\ block_count \in 1 .. MaxBlocks
    /\ succ \in [AllBlocks -> UNION {[1 .. n -> AllBlocks \cup {NoBlock}] :
                                         n \in 0 .. 2}]
    /\ code \in [AllBlocks -> Seq(DOMAIN program)]
    /\ finished \subseteq 0 .. block_count - 1
    /\ loops \in [AllBlocks -> SUBSET AllBlocks]
    /\ layout \in Seq(0 .. block_count - 1)
    /\ current \in AllBlocks \cup {NoBlock}
    /\ control \in Seq([kind : {"break", "continue"}, edge : Edge])
    /\ active \subseteq 0 .. block_count - 1
    /\ \A f \in DOMAIN frames : frames[f].kind \in {"then", "else", "while"}
    /\ Len(funnel) <= 1

(* The edges that enter a block.                                           *)
Incoming(b) == {e \in Edge : e[2] \in DOMAIN succ[e[1]] /\ succ[e[1]][e[2]] = b}

(* However many breaks, continues and branches meet, no block gets more    *)
(* than the two predecessors a value IR block has room for                 *)
(* (build_control_funnel; value_ir.c build_predecessors).                  *)
AtMostTwoPredecessors ==
    \A b \in AllBlocks : Cardinality(Incoming(b)) <= 2

(* MIGA80_MAX_CFG_JOINS: the value table has room for the phis of          *)
(* (blocks - 1) / 3 joins, so lowering may create no more joins than that; *)
(* and a function that needs more blocks than the table has is refused     *)
(* before one is written past its end (create_block).                      *)
Joins == {b \in AllBlocks : Cardinality(Incoming(b)) = 2}
JoinBudget ==
    /\ block_count <= MaxBlocks
    /\ phase = "lowered" => 3 * Cardinality(Joins) <= block_count - 1

(* A successor, once known, never changes: no pending edge is patched      *)
(* twice and no terminator is written over another (patch_edge).           *)
EdgesPatchedOnce ==
    [][\A b \in AllBlocks : \A i \in DOMAIN succ[b] :
          succ[b][i] # NoBlock => /\ i \in DOMAIN succ'[b]
                                  /\ succ'[b][i] = succ[b][i]]_vars

(* Merging the edges of a loop always ends (build_control_funnel).         *)
FunnelEnds == funnel # <<>> ~> (funnel = <<>> \/ phase = "rejected")
=============================================================================
