---------------------------- MODULE LoweredFlow -----------------------------
(***************************************************************************)
(* What the blocks of ControlLowering mean, and whether the passes that    *)
(* read them accept them: miga80_validate_ir (compiler/ir/ir.c) and the    *)
(* loop analysis and the work list of miga80_build_value_ir                *)
(* (compiler/value_ir/value_ir.c).                                         *)
(***************************************************************************)
EXTENDS ControlLowering, SequencesExt

Blocks == 0 .. block_count - 1
Succ(b) == {succ[b][i] : i \in DOMAIN succ[b]}
Preds(b) == {p \in Blocks : b \in Succ(p)}
-----------------------------------------------------------------------------
(* The meaning of the tokens, by the rules of the language.  A position is *)
(* observable if executing it does something: an assignment, the test of a *)
(* condition, the return.                                                  *)

Kind(p) == program[p].kind
Opens(p) == Kind(p) \in {"if", "while"}
Depth(p) == Cardinality({q \in 1 .. p - 1 : Opens(q)})
            - Cardinality({q \in 1 .. p - 1 : Kind(q) = "end"})
After(p, kind) ==
    Min({q \in DOMAIN program : q > p /\ Kind(q) = kind
                                /\ Depth(q) = Depth(p) + 1})
ElseOf(p) == After(p, "else")
EndOf(p)  == After(p, "end")

(* The innermost statement, or loop, around a position.                    *)
Around(p) == Max({q \in 1 .. p - 1 : Opens(q) /\ EndOf(q) >= p})
LoopAround(p) == Max({q \in 1 .. p - 1 : Kind(q) = "while" /\ EndOf(q) > p})

RECURSIVE Observable(_)
Observable(p) ==
    CASE Kind(p) \in {"assign", "if", "while", "return"} -> p
      [] Kind(p) = "else"     -> Observable(EndOf(Around(p)) + 1)
      [] Kind(p) = "end"      -> IF Kind(Around(p)) = "while" THEN Around(p)
                                 ELSE Observable(p + 1)
      [] Kind(p) = "break"    -> Observable(EndOf(LoopAround(p)) + 1)
      [] Kind(p) = "continue" -> LoopAround(p)

(* What follows the test of a condition.                                   *)
OnTrue(p)  == Observable(p + 1)
OnFalse(p) == Observable((IF Kind(p) = "if" THEN ElseOf(p) ELSE EndOf(p)) + 1)
-----------------------------------------------------------------------------
(* The meaning of the blocks.                                              *)

(* The first thing that happens from block b on; 0 if nothing does within  *)
(* the given number of jumps.                                              *)
RECURSIVE Reached(_, _)
Reached(b, jumps) ==
    IF code[b] # <<>> THEN code[b][1]
    ELSE IF jumps = 0 \/ succ[b] = <<>> THEN 0
    ELSE Reached(succ[b][1], jumps - 1)
From(b) == Reached(b, block_count)

(* The blocks do what the tokens say: every observable position is in one  *)
(* place, execution starts at the first one, and each is followed by what  *)
(* follows it in the source, for both outcomes of a condition              *)
(* (lower_statement_list).                                                 *)
FlowMatchesSource ==
    phase = "lowered" =>
        /\ From(0) = Observable(1)
        /\ \A p \in DOMAIN program :
              Observable(p) = p =>
                  Cardinality({<<b, k>> \in Blocks \X DOMAIN program :
                                  k \in DOMAIN code[b] /\ code[b][k] = p}) = 1
        /\ \A b \in Blocks : \A k \in DOMAIN code[b] :
              LET p == code[b][k]
              IN  CASE Kind(p) = "assign" ->
                         Observable(p + 1) = IF k < Len(code[b])
                                             THEN code[b][k + 1]
                                             ELSE From(succ[b][1])
                    [] Kind(p) \in {"if", "while"} ->
                         /\ k = Len(code[b]) /\ Len(succ[b]) = 2
                         /\ From(succ[b][1]) = OnTrue(p)
                         /\ From(succ[b][2]) = OnFalse(p)
                    [] Kind(p) = "return" ->
                         k = Len(code[b]) /\ succ[b] = <<>>
-----------------------------------------------------------------------------
(* miga80_validate_ir: every block has its instructions, in one piece and  *)
(* outside every other block, its successors are known, and the true       *)
(* branch of a condition is the block that comes next in memory.           *)
RankOf(b) == CHOOSE r \in DOMAIN layout : layout[r] = b

ValidIR ==
    /\ finished = Blocks
    /\ Len(layout) = block_count /\ Range(layout) = Blocks
    /\ \A b \in Blocks : Succ(b) \subseteq Blocks
    /\ \A b \in Blocks : loops[b] \subseteq Blocks
    /\ \A b \in Blocks :
          Len(succ[b]) = 2 => RankOf(succ[b][1]) = RankOf(b) + 1

-----------------------------------------------------------------------------
(* analyze_loops                                                           *)

(* One pass of the dominator computation: the sets change in place, block  *)
(* after block.                                                            *)
Pass(dominators) ==
    FoldLeft(LAMBDA dom, b :
                IF b = 0 THEN dom
                ELSE [dom EXCEPT ![b] =
                         {b} \cup {d \in Blocks : \A p \in Preds(b) :
                                                     d \in dom[p]}],
             dominators, [i \in 1 .. block_count |-> i - 1])

RECURSIVE Iterate(_)
Iterate(dominators) ==
    LET updated == Pass(dominators)
    IN  IF updated = dominators THEN dominators ELSE Iterate(updated)

Dominators == Iterate([b \in Blocks |-> IF b = 0 THEN {0} ELSE Blocks])

(* loop_latch and loop_preheader of a header, given the dominators.        *)
Latches(dom, h) == {b \in Preds(h) : h \in dom[b]}
Preheaders(dom, h) == Preds(h) \ Latches(dom, h)
Headers(dom) == {h \in Blocks : Latches(dom, h) # {}}

(* The natural loop of a back edge: what reaches the latch without passing *)
(* the header.                                                             *)
RECURSIVE Body(_, _)
Body(h, found) ==
    LET more == UNION {Preds(b) : b \in found \ {h}} \ found
    IN  IF more = {} THEN found ELSE Body(h, found \cup more)

DeclaredLoop(h) == {b \in Blocks : h \in loops[b]}

LoopIsNormal(dom, h) ==
    LET latch == CHOOSE b \in Latches(dom, h) : TRUE
        declared == DeclaredLoop(h)
    IN  /\ Cardinality(Latches(dom, h)) = 1
        /\ Cardinality(Incoming(h)) = 2
        /\ Cardinality(Preheaders(dom, h)) = 1
        /\ succ[latch] = <<h>> /\ code[latch] = <<>>
        /\ {h, latch} \subseteq declared
        /\ Preheaders(dom, h) \cap declared = {}
        /\ Body(h, {h, latch}) \subseteq declared
        /\ Cardinality(UNION {Succ(b) : b \in declared} \ declared) = 1

(* Whatever the nesting of loops, breaks and continues, the later passes   *)
(* accept what lower_statement_list builds: the validation that ends       *)
(* miga80_lower_function passes, and the loop analysis of the value IR     *)
(* finds the loops it can handle: every block reachable, one latch, one    *)
(* preheader and one exit per loop, and the region declared by the         *)
(* lowering around the natural loop (miga80_validate_ir, analyze_loops).   *)
AnalysisAccepts ==
    phase = "lowered" =>
        /\ ValidIR
        /\ \A b \in Blocks \ {0} : Preds(b) # {}
        /\ LET dom == Dominators
           IN  \A h \in Headers(dom) : LoopIsNormal(dom, h)
-----------------------------------------------------------------------------
(* The work list of miga80_build_value_ir: blocks are lowered in index     *)
(* order, pass after pass, once every predecessor but the latch is done.   *)
ProcessedPass(dom, done) ==
    FoldLeft(LAMBDA d, b :
                IF b \notin Range(d)
                   /\ Preds(b) \ Latches(dom, b) \subseteq Range(d)
                THEN Append(d, b) ELSE d,
             done, [i \in 1 .. block_count |-> i - 1])

RECURSIVE ProcessedFrom(_, _)
ProcessedFrom(dom, done) ==
    LET more == ProcessedPass(dom, done)
    IN  IF more = done THEN done ELSE ProcessedFrom(dom, more)
ProcessingOrder(dom) == ProcessedFrom(dom, <<>>)

(* The work list never stalls, values are made before the blocks that use  *)
(* them, and the emission order (build_block_layout_order) also has every  *)
(* block after the blocks that dominate it, which register allocation      *)
(* needs to find a place for each live-in value.                           *)
OrdersRespectDominance ==
    phase = "lowered" =>
        LET dom   == Dominators
            order == ProcessingOrder(dom)
            Before(seq, a, b) == \E i, j \in DOMAIN seq :
                                    seq[i] = a /\ seq[j] = b /\ i < j
        IN  /\ Range(order) = Blocks
            /\ \A b \in Blocks : \A d \in dom[b] \ {b} :
                  Before(order, d, b) /\ Before(layout, d, b)
=============================================================================
