------------------------ MODULE ControlLowering_proof ------------------------
(***************************************************************************)
(* Proof about the blocks that ControlLowering builds, for any number of   *)
(* blocks and statements and any program: none gets more than two          *)
(* predecessors, no successor is overwritten, and there are no more joins  *)
(* than the table of values has room for.                                  *)
(***************************************************************************)
EXTENDS ControlLowering, TLAPS, FiniteSetTheorems, SequenceTheorems

(* The edges into a block and the edges without a target, for any table s  *)
(* of successors.                                                          *)
EdgesInto(s, b) == {e \in Edge : e[2] \in DOMAIN s[e[1]] /\ s[e[1]][e[2]] = b}
Waiting(s) == {e \in Edge : /\ e[2] \in DOMAIN s[e[1]]
                            /\ s[e[1]][e[2]] = NoBlock}
-----------------------------------------------------------------------------
(***************************************************************************)
(* The inductive invariant.                                                *)
(***************************************************************************)
Blocks == 0 .. block_count - 1

Frame == [kind : {"then"}, else_block : AllBlocks]
         \cup [kind : {"else"}, then_edge : Edge \cup {NoEdge}]
         \cup [kind : {"while"}, header_block : AllBlocks,
               control_start : Nat, outer_loops : SUBSET AllBlocks]
FunnelRecord == [kind : {"continue", "break"}, index : Nat \ {0},
                 implicit : Edge \cup {NoEdge}, pending : Edge \cup {NoEdge},
                 target : AllBlocks, exit_block : AllBlocks]

Loop(k) == k \in DOMAIN frames /\ frames[k].kind = "while"
Then(k) == k \in DOMAIN frames /\ frames[k].kind = "then"

Typed ==
    /\ TypeOK
    /\ program \in Seq([kind : Statement \cup {"else", "end"},
                        arg : Assigns \cup Conditions \cup {NoEdge}])
    /\ frames \in Seq(Frame)
    /\ \/ funnel = <<>>
       \/ funnel = <<funnel[1]>> /\ funnel[1] \in FunnelRecord

(* Every block that is spoken of has been created; the loops and the else  *)
(* lists that are open are different blocks.                               *)
BlocksKnown ==
    /\ current \in Blocks \cup {NoBlock}
    /\ \A k \in DOMAIN frames :
          /\ Loop(k) => frames[k].header_block \in Blocks
          /\ Loop(k) => frames[k].outer_loops \subseteq Blocks
          /\ Then(k) => frames[k].else_block \in Blocks \ {current}
    /\ \A j, k \in DOMAIN frames : j # k =>
          /\ Loop(j) /\ Loop(k) =>
                frames[j].header_block # frames[k].header_block
          /\ Then(j) /\ Then(k) => frames[j].else_block # frames[k].else_block

(* The pending edges of a loop follow those of the loops around it.        *)
StartsOrdered ==
    \A k \in DOMAIN frames : Loop(k) =>
        /\ frames[k].control_start <= Len(control)
        /\ \A j \in 1 .. k : Loop(j) =>
              frames[j].control_start <= frames[k].control_start

(* A funnel works for the innermost statement, a loop; it leads to new     *)
(* blocks and has an edge for its target, or will come to one.             *)
FunnelSound ==
    funnel # <<>> =>
        LET f == funnel[1]
        IN  /\ Loop(Len(frames)) /\ current = NoBlock
            /\ f.index > Top.control_start
            /\ {f.target, f.exit_block} \subseteq Blocks
            /\ f.kind = "break" =>
                  /\ f.target = f.exit_block
                  /\ f.implicit = <<Top.header_block, 2>>
            /\ f.kind = "continue" => f.target # f.exit_block
            /\ \A k \in DOMAIN frames :
                  /\ Loop(k) => frames[k].header_block
                                   \notin {f.target, f.exit_block}
                  /\ Then(k) => frames[k].else_block
                                   \notin {f.target, f.exit_block}
            /\ \/ f.pending # NoEdge
               \/ \E i \in f.index .. Len(Offered(f)) :
                     Offered(f)[i].kind = f.kind

(* Blocks that are not finished have no successors.                        *)
Unwritten ==
    /\ \A b \in AllBlocks \ Blocks : succ[b] = <<>>
    /\ current # NoBlock => succ[current] = <<>>
    /\ \A k \in DOMAIN frames : Then(k) => succ[frames[k].else_block] = <<>>
    /\ funnel # <<>> => /\ succ[funnel[1].target] = <<>>
                        /\ succ[funnel[1].exit_block] = <<>>

(* The edges that lowering still has to patch, and where it remembers      *)
(* them: the breaks and continues that no funnel has taken yet ...         *)
LiveControl(k) ==
    /\ k \in DOMAIN control
    /\ funnel # <<>> =>
          \/ k <= Top.control_start
          \/ k >= funnel[1].index /\ control[k].kind = funnel[1].kind
          \/ funnel[1].kind = "continue" /\ control[k].kind = "break"
(* ... the ends of then lists and the exits of loops ...                   *)
FrameEdge(k) == IF Loop(k) THEN <<frames[k].header_block, 2>>
                ELSE frames[k].then_edge
OpenFrame(k) ==
    /\ k \in DOMAIN frames
    /\ \/ frames[k].kind = "else" /\ frames[k].then_edge # NoEdge
       \/ Loop(k) /\ \/ k < Len(frames) \/ funnel = <<>>
                     \/ funnel[1].kind = "continue"
                     \/ funnel[1].index <= Len(control) + 1
(* ... the end of a loop's body, and the one edge a funnel is left with.   *)
LiveImplicit ==
    /\ funnel # <<>> /\ funnel[1].kind = "continue"
    /\ funnel[1].implicit # NoEdge
    /\ funnel[1].index <= Len(control) + 1
LivePending == funnel # <<>> /\ funnel[1].pending # NoEdge

(* All of them still wait, and none is remembered twice.                   *)
EdgesWait ==
    /\ \A k \in DOMAIN control :
          LiveControl(k) => control[k].edge \in Waiting(succ)
    /\ \A k \in DOMAIN frames :
          OpenFrame(k) => FrameEdge(k) \in Waiting(succ)
    /\ LiveImplicit => funnel[1].implicit \in Waiting(succ)
    /\ LivePending => funnel[1].pending \in Waiting(succ)

EdgesDistinct ==
    /\ \A j, k \in DOMAIN control : LiveControl(j) /\ LiveControl(k) /\ j # k
          => control[j].edge # control[k].edge
    /\ \A j, k \in DOMAIN frames : OpenFrame(j) /\ OpenFrame(k) /\ j # k
          => FrameEdge(j) # FrameEdge(k)
    /\ \A j \in DOMAIN control, k \in DOMAIN frames :
          LiveControl(j) /\ OpenFrame(k) => control[j].edge # FrameEdge(k)
    /\ LiveImplicit =>
          /\ \A k \in DOMAIN control :
                LiveControl(k) => control[k].edge # funnel[1].implicit
          /\ \A k \in DOMAIN frames :
                OpenFrame(k) => FrameEdge(k) # funnel[1].implicit
    /\ LivePending =>
          /\ \A k \in DOMAIN control :
                LiveControl(k) => control[k].edge # funnel[1].pending
          /\ \A k \in DOMAIN frames :
                OpenFrame(k) => FrameEdge(k) # funnel[1].pending
          /\ LiveImplicit => funnel[1].implicit # funnel[1].pending

(* How many edges enter a block; the header of a loop without its latch    *)
(* has room for the edge back.                                             *)
AtMostOne(s, b) == \E e \in Edge : EdgesInto(s, b) \subseteq {e}
AtMostTwo(s, b) == \E e1, e2 \in Edge : EdgesInto(s, b) \subseteq {e1, e2}
NotClosed(k) == Loop(k) /\ \/ k < Len(frames) \/ funnel = <<>>
                           \/ funnel[1].kind = "continue"
FewEntries ==
    /\ \A b \in AllBlocks : AtMostTwo(succ, b)
    /\ \A b \in AllBlocks \ Blocks : EdgesInto(succ, b) = {}
    /\ \A k \in DOMAIN frames :
          NotClosed(k) => AtMostOne(succ, frames[k].header_block)
    /\ funnel # <<>> => /\ EdgesInto(succ, funnel[1].target) = {}
                        /\ EdgesInto(succ, funnel[1].exit_block) = {}

Shape == /\ BlocksKnown /\ StartsOrdered /\ FunnelSound /\ Unwritten
         /\ EdgesWait /\ EdgesDistinct /\ FewEntries
IInv == Typed /\ Shape
-----------------------------------------------------------------------------
(***************************************************************************)
(* What patching an edge and writing a terminator do to the successors.    *)
(***************************************************************************)
Row == UNION {[1 .. n -> AllBlocks \cup {NoBlock}] : n \in 0 .. 2}

LEMMA Rows ==
  /\ <<>> \in Row
  /\ \A x \in AllBlocks \cup {NoBlock} : <<x>> \in Row
  /\ \A x, y \in AllBlocks \cup {NoBlock} : <<x, y>> \in Row
<1>1. <<>> \in [1 .. 0 -> AllBlocks \cup {NoBlock}]
  OBVIOUS
<1>2. \A x \in AllBlocks \cup {NoBlock} :
         <<x>> \in [1 .. 1 -> AllBlocks \cup {NoBlock}]
  OBVIOUS
<1>3. \A x, y \in AllBlocks \cup {NoBlock} :
         <<x, y>> \in [1 .. 2 -> AllBlocks \cup {NoBlock}]
  OBVIOUS
<1> QED BY <1>1, <1>2, <1>3 DEF Row

LEMMA RowTyped ==
  ASSUME NEW q \in Row
  PROVE  /\ DOMAIN q \in {{}, {1}, {1, 2}}
         /\ \A i \in DOMAIN q : q[i] \in AllBlocks \cup {NoBlock}
         /\ DOMAIN q = {} => q = <<>>
<1>1. PICK n \in 0 .. 2 : q \in [1 .. n -> AllBlocks \cup {NoBlock}]
  BY DEF Row
<1>2. 1 .. 0 = {} /\ 1 .. 1 = {1} /\ 1 .. 2 = {1, 2} /\ n \in {0, 1, 2}
  OBVIOUS
<1>3. ASSUME DOMAIN q = {}
      PROVE  q = <<>>
  <2>1. q \in [{} -> AllBlocks \cup {NoBlock}]
    BY <1>1, <1>3
  <2>2. <<>> \in [{} -> AllBlocks \cup {NoBlock}]
    OBVIOUS
  <2> QED BY <2>1, <2>2
<1> QED BY <1>1, <1>2, <1>3

LEMMA Patched ==
  ASSUME NEW s \in [AllBlocks -> Row], NEW p \in Edge,
         NEW t \in AllBlocks
  PROVE  /\ Patch(s, p, t) \in [AllBlocks -> Row]
         /\ \A b \in AllBlocks : s[b] = <<>> => Patch(s, p, t)[b] = <<>>
         /\ \A b \in AllBlocks \ {t} :
               EdgesInto(Patch(s, p, t), b) \subseteq EdgesInto(s, b)
         /\ EdgesInto(Patch(s, p, t), t) \subseteq EdgesInto(s, t) \cup {p}
         /\ Waiting(s) \ {p} \subseteq Waiting(Patch(s, p, t))
<1> DEFINE q == [s[p[1]] EXCEPT ![p[2]] = t]
           s2 == Patch(s, p, t)
<1>1. p[1] \in AllBlocks /\ p[2] \in {1, 2} /\ p = <<p[1], p[2]>>
  BY DEF Edge
<1>2. s2 = [s EXCEPT ![p[1]] = q]
  BY DEF Patch
<1>3. DOMAIN q = DOMAIN s[p[1]]
      /\ \A i \in DOMAIN q : q[i] = IF i = p[2] THEN t ELSE s[p[1]][i]
  OBVIOUS
<1>4. q \in Row
  <2>1. PICK n \in 0 .. 2 : s[p[1]] \in [1 .. n -> AllBlocks \cup {NoBlock}]
    BY <1>1 DEF Row
  <2>2. q \in [1 .. n -> AllBlocks \cup {NoBlock}]
    BY <2>1
  <2> QED BY <2>2 DEF Row
<1>5. s2 \in [AllBlocks -> Row]
  BY <1>1, <1>2, <1>4
<1>6. \A b \in AllBlocks : s2[b] = IF b = p[1] THEN q ELSE s[b]
  BY <1>1, <1>2
<1>7. ASSUME NEW b \in AllBlocks, s[b] = <<>>
      PROVE  s2[b] = <<>>
  <2>1. CASE b = p[1]
    <3>1. DOMAIN s[b] = {}
      BY <1>7
    <3>2. q = <<>>
      BY <1>3, <1>4, <2>1, <3>1, RowTyped
    <3> QED BY <1>6, <2>1, <3>2
  <2>2. CASE b # p[1]
    BY <1>6, <1>7, <2>2
  <2> QED BY <2>1, <2>2
<1>8. ASSUME NEW b \in AllBlocks, NEW e \in EdgesInto(s2, b)
      PROVE  e \in EdgesInto(s, b) \/ (b = t /\ e = p)
  <2>1. /\ e \in Edge /\ e[2] \in DOMAIN s2[e[1]] /\ s2[e[1]][e[2]] = b
        /\ e[1] \in AllBlocks /\ e[2] \in {1, 2} /\ e = <<e[1], e[2]>>
    BY <1>8 DEF EdgesInto, Edge
  <2>2. CASE e[1] # p[1]
    BY <1>6, <2>1, <2>2 DEF EdgesInto
  <2>3. CASE e[1] = p[1] /\ e[2] # p[2]
    <3>1. e[2] \in DOMAIN q /\ q[e[2]] = b
      BY <1>6, <2>1, <2>3
    <3>2. e[2] \in DOMAIN s[e[1]] /\ s[e[1]][e[2]] = b
      BY <1>3, <2>3, <3>1
    <3> QED BY <2>1, <3>2 DEF EdgesInto
  <2>4. CASE e[1] = p[1] /\ e[2] = p[2]
    <3>1. e = p
      BY <1>1, <2>1, <2>4
    <3>2. b = t
      BY <1>3, <1>6, <2>1, <2>4
    <3> QED BY <3>1, <3>2
  <2> QED BY <2>2, <2>3, <2>4
<1>9. ASSUME NEW e \in Waiting(s), e # p
      PROVE  e \in Waiting(s2)
  <2>1. /\ e \in Edge /\ e[2] \in DOMAIN s[e[1]] /\ s[e[1]][e[2]] = NoBlock
        /\ e[1] \in AllBlocks /\ e[2] \in {1, 2} /\ e = <<e[1], e[2]>>
    BY <1>9 DEF Waiting, Edge
  <2>2. CASE e[1] # p[1]
    BY <1>6, <2>1, <2>2 DEF Waiting
  <2>3. CASE e[1] = p[1]
    <3>1. e[2] # p[2]
      BY <1>1, <1>9, <2>1, <2>3
    <3>2. e[2] \in DOMAIN q /\ q[e[2]] = NoBlock
      BY <1>3, <2>1, <2>3, <3>1
    <3> QED BY <1>6, <2>1, <2>3, <3>2 DEF Waiting
  <2> QED BY <2>2, <2>3
<1> QED BY <1>5, <1>7, <1>8, <1>9

(* Patching an edge that waits changes no successor that is known.         *)
LEMMA PatchedOnce ==
  ASSUME NEW s \in [AllBlocks -> Row], NEW p \in Waiting(s), NEW t,
         NEW b \in AllBlocks, NEW i \in DOMAIN s[b], s[b][i] # NoBlock
  PROVE  i \in DOMAIN Patch(s, p, t)[b] /\ Patch(s, p, t)[b][i] = s[b][i]
<1>1. /\ p[1] \in AllBlocks /\ p[2] \in DOMAIN s[p[1]]
      /\ s[p[1]][p[2]] = NoBlock
  BY DEF Waiting, Edge
<1>2. b # p[1] \/ i # p[2]
  BY <1>1
<1> DEFINE q == [s[p[1]] EXCEPT ![p[2]] = t]
<1>3. Patch(s, p, t) = [s EXCEPT ![p[1]] = q]
  BY DEF Patch
<1>4. CASE b # p[1]
  BY <1>1, <1>3, <1>4
<1>5. CASE b = p[1]
  <2>1. Patch(s, p, t)[b] = q
    BY <1>1, <1>3, <1>5
  <2>2. i \in DOMAIN q /\ q[i] = s[b][i]
    BY <1>2, <1>5
  <2> QED BY <2>1, <2>2
<1> QED BY <1>4, <1>5

(* A block that had no successors gets one, or two.                        *)
LEMMA WrittenOne ==
  ASSUME NEW s, NEW c \in AllBlocks, NEW x, NEW s2, s2[c] = <<x>>,
         \A b \in AllBlocks : b # c => s2[b] = s[b]
  PROVE  /\ \A b : b # x => EdgesInto(s2, b) \subseteq EdgesInto(s, b)
         /\ EdgesInto(s2, x) \subseteq EdgesInto(s, x) \cup {<<c, 1>>}
<1>1. ASSUME NEW b, NEW e \in EdgesInto(s2, b)
      PROVE  e \in EdgesInto(s, b) \/ (e = <<c, 1>> /\ b = x)
  <2>1. /\ e \in Edge /\ e[2] \in DOMAIN s2[e[1]] /\ s2[e[1]][e[2]] = b
        /\ e[1] \in AllBlocks /\ e[2] \in {1, 2} /\ e = <<e[1], e[2]>>
    BY <1>1 DEF EdgesInto, Edge
  <2>2. CASE e[1] # c
    BY <2>1, <2>2 DEF EdgesInto
  <2>3. CASE e[1] = c
    BY <2>1, <2>3
  <2> QED BY <2>2, <2>3
<1> QED BY <1>1

LEMMA WrittenTwo ==
  ASSUME NEW s, NEW c \in AllBlocks, NEW x, NEW y, NEW s2, s2[c] = <<x, y>>,
         \A b \in AllBlocks : b # c => s2[b] = s[b]
  PROVE  /\ \A b : b \notin {x, y} =>
               EdgesInto(s2, b) \subseteq EdgesInto(s, b)
         /\ \A b : b # y =>
               EdgesInto(s2, b) \subseteq EdgesInto(s, b) \cup {<<c, 1>>}
         /\ \A b : b # x =>
               EdgesInto(s2, b) \subseteq EdgesInto(s, b) \cup {<<c, 2>>}
<1>1. ASSUME NEW b, NEW e \in EdgesInto(s2, b)
      PROVE  \/ e \in EdgesInto(s, b)
             \/ e = <<c, 1>> /\ b = x
             \/ e = <<c, 2>> /\ b = y
  <2>1. /\ e \in Edge /\ e[2] \in DOMAIN s2[e[1]] /\ s2[e[1]][e[2]] = b
        /\ e[1] \in AllBlocks /\ e[2] \in {1, 2} /\ e = <<e[1], e[2]>>
    BY <1>1 DEF EdgesInto, Edge
  <2>2. CASE e[1] # c
    BY <2>1, <2>2 DEF EdgesInto
  <2>3. CASE e[1] = c
    <3>1. e[2] = 1 => b = x
      BY <2>1, <2>3
    <3>2. e[2] = 2 => b = y
      BY <2>1, <2>3
    <3> QED BY <2>1, <2>3, <3>1, <3>2
  <2> QED BY <2>2, <2>3
<1> QED BY <1>1

LEMMA WrittenWaiting ==
  ASSUME NEW s \in [AllBlocks -> Row], NEW c \in AllBlocks, s[c] = <<>>,
         NEW s2 \in [AllBlocks -> Row],
         \A b \in AllBlocks : b # c => s2[b] = s[b]
  PROVE  Waiting(s) \subseteq Waiting(s2) \ {<<c, 1>>, <<c, 2>>}
<1>1. ASSUME NEW e \in Waiting(s)
      PROVE  e \in Waiting(s2) /\ e \notin {<<c, 1>>, <<c, 2>>}
  <2>1. /\ e \in Edge /\ e[2] \in DOMAIN s[e[1]] /\ s[e[1]][e[2]] = NoBlock
        /\ e[1] \in AllBlocks
    BY <1>1 DEF Waiting, Edge
  <2>2. e[1] # c
    BY <2>1
  <2> QED BY <2>1, <2>2 DEF Waiting
<1> QED BY <1>1

LEMMA WaitingNow ==
  ASSUME NEW c \in AllBlocks, NEW s
  PROVE  /\ s[c] = <<NoBlock>> => <<c, 1>> \in Waiting(s)
         /\ \A x : s[c] = <<x, NoBlock>> => <<c, 2>> \in Waiting(s)
BY DEF Waiting, Edge
-----------------------------------------------------------------------------
(***************************************************************************)
(* Sequences that grow and shrink at their end.                            *)
(***************************************************************************)
LEMMA SeqGrows ==
  ASSUME NEW S, NEW T, S \subseteq T, NEW q \in Seq(S)
  PROVE  q \in Seq(T)
OBVIOUS

LEMMA Element ==
  ASSUME NEW S, NEW q \in Seq(S), NEW i \in 1 .. Len(q)
  PROVE  q[i] \in S
OBVIOUS

LEMMA Pushed ==
  ASSUME NEW S, NEW q \in Seq(S), NEW x \in S
  PROVE  /\ Append(q, x) \in Seq(S)
         /\ Len(Append(q, x)) = Len(q) + 1
         /\ DOMAIN Append(q, x) = 1 .. Len(q) + 1
         /\ \A k \in DOMAIN q : Append(q, x)[k] = q[k]
         /\ Append(q, x)[Len(q) + 1] = x
         /\ Append(q, x) # <<>>
OBVIOUS

LEMMA Popped ==
  ASSUME NEW S, NEW q \in Seq(S), NEW n \in 0 .. Len(q)
  PROVE  /\ SubSeq(q, 1, n) \in Seq(S)
         /\ Len(SubSeq(q, 1, n)) = n
         /\ DOMAIN SubSeq(q, 1, n) = 1 .. n
         /\ \A k \in 1 .. n : SubSeq(q, 1, n)[k] = q[k]
OBVIOUS

(* Every token adds to the history.                                        *)
Kinds == Statement \cup {"else", "end"}
Args == Assigns \cup Conditions \cup {NoEdge}

LEMMA ProgramGrows ==
  ASSUME Typed, NEW kind \in Kinds, NEW arg \in Args, Token(kind, arg)
  PROVE  /\ program' \in Seq([kind : Kinds, arg : Args])
         /\ Position \in DOMAIN program'
         /\ code \in [AllBlocks -> Seq(DOMAIN program')]
<1>1. [kind |-> kind, arg |-> arg] \in [kind : Kinds, arg : Args]
  OBVIOUS
<1>2. program \in Seq([kind : Kinds, arg : Args])
  BY DEF Typed, Kinds, Args
<1>3. /\ program' \in Seq([kind : Kinds, arg : Args])
      /\ DOMAIN program' = 1 .. Len(program) + 1
  BY <1>1, <1>2, Pushed DEF Token
<1>4. DOMAIN program \subseteq DOMAIN program' /\ Position \in DOMAIN program'
  BY <1>2, <1>3 DEF Position
<1>5. \A b \in AllBlocks : code[b] \in Seq(DOMAIN program')
  BY <1>4, SeqGrows DEF Typed, TypeOK
<1> QED BY <1>3, <1>4, <1>5 DEF Typed, TypeOK

(* Nothing but the blocks, the pending edges and the stacks matters to the *)
(* shape.                                                                  *)
LEMMA ShapeKept ==
  ASSUME Shape,
         UNCHANGED <<block_count, succ, current, control, frames, funnel>>
  PROVE  Shape'
<1> USE DEF Blocks, Top, Loop, Then
<1>1. BlocksKnown' /\ StartsOrdered'
  BY DEF Shape, BlocksKnown, StartsOrdered
<1>2. FunnelSound'
  BY DEF Shape, FunnelSound, Offered
<1>3. Unwritten' /\ FewEntries'
  BY DEF Shape, Unwritten, FewEntries, NotClosed
<1>4. EdgesWait' /\ EdgesDistinct'
  BY DEF Shape, EdgesWait, EdgesDistinct, LiveControl, OpenFrame, FrameEdge,
         LiveImplicit, LivePending
<1> QED BY <1>1, <1>2, <1>3, <1>4 DEF Shape
-----------------------------------------------------------------------------
(***************************************************************************)
(* Every action preserves the invariant.                                   *)
(***************************************************************************)
LEMMA IInvInit == Init => IInv
<1> SUFFICES ASSUME Init
             PROVE  IInv
  OBVIOUS
<1> USE DEF Init
<1>0. 0 \in AllBlocks /\ NoBlock \notin AllBlocks
  BY BoundsAssumption, NoBlockAssumption DEF AllBlocks
<1>1. TypeOK
  <2>1. succ \in [AllBlocks -> Row]
    BY Rows
  <2>2. block_count \in 1 .. MaxBlocks /\ layout \in Seq(0 .. block_count - 1)
    BY BoundsAssumption
  <2> QED BY <1>0, <2>1, <2>2 DEF TypeOK, Row
<1>2. Typed
  BY <1>1 DEF Typed
<1>3. BlocksKnown /\ StartsOrdered /\ FunnelSound /\ Unwritten
  BY <1>0 DEF BlocksKnown, StartsOrdered, FunnelSound, Unwritten, Blocks,
              Loop, Then
<1>4. EdgesWait /\ EdgesDistinct
  BY DEF EdgesWait, EdgesDistinct, LiveImplicit, LivePending
<1>5. FewEntries
  <2>1. \A b \in AllBlocks : EdgesInto(succ, b) = {}
    BY DEF EdgesInto, Edge
  <2>2. <<0, 1>> \in Edge
    BY <1>0 DEF Edge
  <2> QED BY <2>1, <2>2 DEF FewEntries, AtMostTwo, NotClosed, Loop
<1> QED BY <1>2, <1>3, <1>4, <1>5 DEF IInv, Shape

LEMMA RejectedStep ==
  ASSUME IInv, Reject, NEW kind \in Kinds, NEW arg \in Args, Token(kind, arg)
  PROVE  IInv'
<1>1. Typed'
  <2>1. /\ program' \in Seq([kind : Kinds, arg : Args])
        /\ code' \in [AllBlocks -> Seq(DOMAIN program')]
    BY ProgramGrows DEF IInv, Reject, cfg
  <2>2. TypeOK'
    BY <2>1 DEF IInv, Typed, TypeOK, Reject, cfg
  <2> QED BY <2>1, <2>2 DEF IInv, Typed, Reject, Kinds, Args, cfg
<1>2. Shape'
  BY ShapeKept DEF IInv, Reject, cfg
<1> QED BY <1>1, <1>2 DEF IInv

(* The token joins the code of the current block.                          *)
LEMMA CodeGrows ==
  ASSUME IInv, current # NoBlock, NEW kind \in Kinds, NEW arg \in Args,
         Token(kind, arg)
  PROVE  [code EXCEPT ![current] = Append(@, Position)]
            \in [AllBlocks -> Seq(DOMAIN program')]
<1>1. /\ Position \in DOMAIN program'
      /\ code \in [AllBlocks -> Seq(DOMAIN program')]
  BY ProgramGrows DEF IInv
<1>2. current \in AllBlocks
  BY DEF IInv, Typed, TypeOK
<1>3. Append(code[current], Position) \in Seq(DOMAIN program')
  BY <1>1, <1>2, Pushed
<1> QED BY <1>1, <1>2, <1>3

LEMMA AssignStep == ASSUME IInv, NEW a \in Assigns, Assign(a)
                    PROVE  IInv'
<1>1. "assign" \in Kinds /\ a \in Args
  BY DEF Kinds, Statement, Args
<1>2. program' \in Seq([kind : Kinds, arg : Args])
  BY <1>1, ProgramGrows DEF IInv, Assign
<1>3. code' \in [AllBlocks -> Seq(DOMAIN program')]
  BY <1>1, CodeGrows DEF Assign, NextStatement
<1>4. Typed'
  BY <1>2, <1>3 DEF IInv, Typed, TypeOK, Assign, Kinds, Args
<1>5. Shape'
  BY ShapeKept DEF IInv, Assign
<1> QED BY <1>4, <1>5 DEF IInv

LEMMA ReturnStep == ASSUME IInv, Return
                    PROVE  IInv'
<1>1. "return" \in Kinds /\ NoEdge \in Args
  BY DEF Kinds, Statement, Args
<1>2. program' \in Seq([kind : Kinds, arg : Args])
  BY <1>1, ProgramGrows DEF IInv, Return
<1>3. code' \in [AllBlocks -> Seq(DOMAIN program')]
  BY <1>1, CodeGrows DEF Return, NextStatement
<1>4. finished' \subseteq 0 .. block_count - 1
  BY DEF IInv, Shape, BlocksKnown, Blocks, Typed, TypeOK, Return,
         NextStatement
<1>5. Typed'
  BY <1>2, <1>3, <1>4 DEF IInv, Typed, TypeOK, Return, Kinds, Args
<1>6. Shape'
  BY ShapeKept DEF IInv, Return
<1> QED BY <1>5, <1>6 DEF IInv

(* A block that has not been created is nobody's successor and has none.   *)
LEMMA Fresh ==
  ASSUME IInv, NEW b \in AllBlocks \ Blocks
  PROVE  /\ succ[b] = <<>> /\ EdgesInto(succ, b) = {}
         /\ b # NoBlock /\ b # current
         /\ \A k \in DOMAIN frames : /\ Loop(k) => frames[k].header_block # b
                                    /\ Then(k) => frames[k].else_block # b
BY NoBlockAssumption DEF IInv, Shape, Unwritten, FewEntries, BlocksKnown

(* Blocks are created in the order of their numbers.                       *)
LEMMA OneCreated ==
  ASSUME IInv, Room(1), block_count' = block_count + 1
  PROVE  /\ block_count' \in 1 .. MaxBlocks /\ block_count \in AllBlocks \ Blocks
         /\ Blocks' = Blocks \cup {block_count} /\ Blocks \subseteq AllBlocks
<1>1. block_count \in 1 .. MaxBlocks /\ MaxBlocks \in Nat
  BY BoundsAssumption DEF IInv, Typed, TypeOK
<1> QED BY <1>1 DEF Room, AllBlocks, Blocks

LEMMA TwoCreated ==
  ASSUME IInv, Room(2), block_count' = block_count + 2
  PROVE  /\ block_count' \in 1 .. MaxBlocks
         /\ block_count \in AllBlocks \ Blocks
         /\ block_count + 1 \in AllBlocks \ Blocks
         /\ block_count # block_count + 1
         /\ Blocks' = Blocks \cup {block_count, block_count + 1}
         /\ Blocks \subseteq AllBlocks
<1>1. block_count \in 1 .. MaxBlocks /\ MaxBlocks \in Nat
  BY BoundsAssumption DEF IInv, Typed, TypeOK
<1> QED BY <1>1 DEF Room, AllBlocks, Blocks

(* One more edge into a block.                                             *)
LEMMA Entered ==
  ASSUME NEW s, NEW t, NEW b, NEW p \in Edge,
         EdgesInto(t, b) \subseteq EdgesInto(s, b) \cup {p}
  PROVE  /\ AtMostOne(s, b) => AtMostTwo(t, b)
         /\ EdgesInto(s, b) = {} => AtMostOne(t, b) /\ AtMostTwo(t, b)
BY DEF AtMostOne, AtMostTwo

LEMMA NotEntered ==
  ASSUME NEW s, NEW t, NEW b, EdgesInto(t, b) \subseteq EdgesInto(s, b)
  PROVE  /\ AtMostOne(s, b) => AtMostOne(t, b)
         /\ AtMostTwo(s, b) => AtMostTwo(t, b)
BY DEF AtMostOne, AtMostTwo

LEMMA IfStep == ASSUME IInv, NEW c \in Conditions, If(c)
                PROVE  IInv'
<1>1. "if" \in Kinds /\ c \in Args
  BY DEF Kinds, Statement, Args
<1>2. CASE ~Room(2)
  BY <1>1, <1>2, RejectedStep DEF If
<1>3. CASE Room(2)
  <2> DEFINE t == block_count
             e == block_count + 1
             x == [kind |-> "then", else_block |-> e]
  <2>1. /\ Token("if", c) /\ Ready /\ current # NoBlock
        /\ block_count' = block_count + 2
        /\ code' = [code EXCEPT ![current] = Append(@, Position)]
        /\ succ' = [succ EXCEPT ![current] = <<t, e>>]
        /\ finished' = finished \cup {current}
        /\ loops' = Declare({t, e}, active)
        /\ layout' = Append(layout, t)
        /\ current' = t
        /\ frames' = Append(frames, x)
        /\ UNCHANGED <<phase, control, active, funnel>>
    BY <1>3 DEF If, NextStatement
  <2>2. /\ block_count' \in 1 .. MaxBlocks
        /\ t \in AllBlocks \ Blocks /\ e \in AllBlocks \ Blocks /\ t # e
        /\ Blocks' = Blocks \cup {t, e}
        /\ current \in Blocks /\ Blocks \subseteq AllBlocks
    <3>1. current \in Blocks
      BY <2>1 DEF IInv, Shape, BlocksKnown
    <3> QED BY <1>3, <2>1, <3>1, TwoCreated
  <2>3. /\ succ \in [AllBlocks -> Row] /\ succ[current] = <<>>
        /\ <<t, e>> \in Row /\ succ[t] = <<>> /\ succ[e] = <<>>
        /\ NoBlock \notin {t, e} /\ current \notin {t, e}
    BY <2>1, <2>2, Rows, Fresh DEF IInv, Typed, TypeOK, Row, Shape, Unwritten
  <2>4. /\ succ' \in [AllBlocks -> Row]
        /\ \A b \in AllBlocks : b # current => succ'[b] = succ[b]
        /\ \A b \in AllBlocks \ {t, e} :
              EdgesInto(succ', b) \subseteq EdgesInto(succ, b)
        /\ EdgesInto(succ', t) \subseteq EdgesInto(succ, t) \cup {<<current, 1>>}
        /\ EdgesInto(succ', e) \subseteq EdgesInto(succ, e) \cup {<<current, 2>>}
        /\ Waiting(succ) \subseteq Waiting(succ')
    <3>1. current \in AllBlocks /\ t \in AllBlocks /\ e \in AllBlocks /\ t # e
      BY <2>2
    <3>2. /\ succ' \in [AllBlocks -> Row] /\ succ'[current] = <<t, e>>
          /\ \A b \in AllBlocks : b # current => succ'[b] = succ[b]
      BY <2>1, <2>3, <3>1
    <3> HIDE DEF t, e
    <3>3. succ \in [AllBlocks -> Row] /\ succ[current] = <<>>
      BY <2>3
    <3>4. \A s \in [AllBlocks -> Row] :
             (\A b \in AllBlocks : b # current => s[b] = succ[b])
             => Waiting(succ) \subseteq Waiting(s)
      BY <3>1, <3>3, WrittenWaiting
    <3>5. Waiting(succ) \subseteq Waiting(succ')
      BY <3>2, <3>4
    <3> QED BY <2>3, <3>1, <3>2, <3>5, WrittenTwo
  <2>5. /\ frames \in Seq(Frame) /\ x \in Frame
        /\ frames' \in Seq(Frame)
        /\ Len(frames') = Len(frames) + 1
        /\ DOMAIN frames = 1 .. Len(frames) /\ Len(frames) \in Nat
        /\ DOMAIN frames' = 1 .. Len(frames) + 1
        /\ \A k \in DOMAIN frames : frames'[k] = frames[k]
        /\ frames'[Len(frames) + 1] = x
    <3>1. frames \in Seq(Frame) /\ x \in Frame
      BY <2>2 DEF IInv, Typed, Frame
    <3> HIDE DEF x
    <3> QED BY <2>1, <3>1, Pushed
  <2>6. Typed'
    <3>1. program' \in Seq([kind : Kinds, arg : Args])
      BY <1>1, <2>1, ProgramGrows DEF IInv
    <3>2. code' \in [AllBlocks -> Seq(DOMAIN program')]
      BY <1>1, <2>1, CodeGrows
    <3>3. layout' \in Seq(0 .. block_count' - 1)
      <4>1. layout \in Seq(Blocks')
        BY <2>2, SeqGrows DEF IInv, Typed, TypeOK, Blocks
      <4> QED BY <2>1, <2>2, <4>1, Pushed DEF Blocks
    <3>4. loops' \in [AllBlocks -> SUBSET AllBlocks]
      BY <2>1, <2>2 DEF IInv, Typed, TypeOK, Declare, Blocks
    <3>5. finished' \subseteq 0 .. block_count' - 1
          /\ active' \subseteq 0 .. block_count' - 1
      BY <2>1, <2>2 DEF IInv, Typed, TypeOK, Blocks
    <3>6. \A k \in DOMAIN frames' : frames'[k].kind \in {"then", "else", "while"}
      BY <2>5 DEF Frame
    <3>7. TypeOK'
      BY <2>1, <2>2, <2>4, <3>2, <3>3, <3>4, <3>5, <3>6
         DEF IInv, Typed, TypeOK, Row
    <3> QED BY <2>1, <2>5, <3>1, <3>7 DEF IInv, Typed, Kinds, Args
  <2>7. funnel = <<>> /\ funnel' = <<>>
    BY <2>1 DEF Ready
  <2>8. BlocksKnown'
    BY <2>1, <2>2, <2>5, Fresh DEF IInv, Shape, BlocksKnown, Loop, Then
  <2>9. StartsOrdered'
    BY <2>1, <2>5 DEF IInv, Shape, StartsOrdered, Loop
  <2>10. FunnelSound'
    BY <2>7 DEF FunnelSound
  <2>11. Unwritten'
    <3>1. \A k \in DOMAIN frames : Then(k) => /\ frames[k].else_block # current
                                             /\ frames[k].else_block \in AllBlocks
      BY <2>2 DEF IInv, Shape, BlocksKnown
    <3> QED BY <2>1, <2>2, <2>3, <2>4, <2>5, <2>7, <3>1
            DEF IInv, Shape, Unwritten, Then
  <2>12. EdgesWait'
    <3>1. \A k \in DOMAIN control' :
             LiveControl(k)' => control'[k].edge \in Waiting(succ')
      BY <2>1, <2>4, <2>7 DEF IInv, Shape, EdgesWait, LiveControl
    <3>2. \A k \in DOMAIN frames' : OpenFrame(k)' =>
             /\ k \in DOMAIN frames /\ OpenFrame(k)
             /\ FrameEdge(k)' = FrameEdge(k)
      <4> SUFFICES ASSUME NEW k \in DOMAIN frames', OpenFrame(k)'
                   PROVE  /\ k \in DOMAIN frames /\ OpenFrame(k)
                          /\ FrameEdge(k)' = FrameEdge(k)
        OBVIOUS
      <4>1. frames'[k].kind \in {"else", "while"}
        BY DEF OpenFrame, Loop
      <4>2. k \in DOMAIN frames /\ frames'[k] = frames[k]
        BY <2>5, <4>1
      <4> QED BY <2>5, <2>7, <4>2 DEF OpenFrame, FrameEdge, Loop
    <3> QED BY <2>4, <2>7, <3>1, <3>2
            DEF IInv, Shape, EdgesWait, LiveImplicit, LivePending
  <2>13. EdgesDistinct'
    BY <2>1, <2>5, <2>7
       DEF IInv, Shape, EdgesDistinct, LiveControl, OpenFrame, FrameEdge, Loop,
           LiveImplicit, LivePending
  <2>14. FewEntries'
    <3>1. <<current, 1>> \in Edge /\ <<current, 2>> \in Edge
      BY <2>2 DEF Edge
    <3>2. EdgesInto(succ, t) = {} /\ EdgesInto(succ, e) = {}
      BY <2>2, Fresh
    <3>3. \A b \in AllBlocks : AtMostTwo(succ', b)
      <4> SUFFICES ASSUME NEW b \in AllBlocks
                   PROVE  AtMostTwo(succ', b)
        OBVIOUS
      <4>1. CASE b = t
        BY <2>4, <3>1, <3>2, <4>1, Entered
      <4>2. CASE b = e
        BY <2>4, <3>1, <3>2, <4>2, Entered
      <4>3. CASE b \notin {t, e}
        BY <2>4, <4>3, NotEntered DEF IInv, Shape, FewEntries
      <4> QED BY <4>1, <4>2, <4>3
    <3>4. \A b \in AllBlocks \ Blocks' : EdgesInto(succ', b) = {}
      BY <2>2, <2>4 DEF IInv, Shape, FewEntries
    <3>5. \A k \in DOMAIN frames' :
             NotClosed(k)' => AtMostOne(succ', frames'[k].header_block)
      <4> SUFFICES ASSUME NEW k \in DOMAIN frames', NotClosed(k)'
                   PROVE  AtMostOne(succ', frames'[k].header_block)
        OBVIOUS
      <4>1. k \in DOMAIN frames /\ NotClosed(k) /\ Loop(k)
        BY <2>5, <2>7 DEF NotClosed, Loop
      <4>2. frames[k].header_block \in AllBlocks \ {t, e}
        BY <2>2, <4>1 DEF IInv, Shape, BlocksKnown
      <4> QED BY <2>4, <2>5, <4>1, <4>2, NotEntered DEF IInv, Shape, FewEntries
    <3> QED BY <2>7, <3>3, <3>4, <3>5 DEF FewEntries
  <2> QED BY <2>6, <2>8, <2>9, <2>10, <2>11, <2>12, <2>13, <2>14
          DEF IInv, Shape
<1> QED BY <1>2, <1>3

(* Control leaves the current block for a block that is not known yet.     *)
LEMMA LeftOpen ==
  ASSUME IInv, current # NoBlock,
         succ' = [succ EXCEPT ![current] = <<NoBlock>>]
  PROVE  /\ succ' \in [AllBlocks -> Row] /\ current \in AllBlocks
         /\ \A b \in AllBlocks : b # current => succ'[b] = succ[b]
         /\ \A b \in AllBlocks : EdgesInto(succ', b) \subseteq EdgesInto(succ, b)
         /\ Waiting(succ) \subseteq Waiting(succ') \ {<<current, 1>>}
         /\ <<current, 1>> \in Waiting(succ')
         /\ <<current, 1>> \in Edge
<1>1. succ \in [AllBlocks -> Row] /\ current \in AllBlocks
  BY DEF IInv, Typed, TypeOK, Row
<1>2. succ[current] = <<>>
  BY DEF IInv, Shape, Unwritten
<1>3. <<NoBlock>> \in Row
  BY Rows
<1>4. /\ succ' \in [AllBlocks -> Row] /\ succ'[current] = <<NoBlock>>
      /\ \A b \in AllBlocks : b # current => succ'[b] = succ[b]
  BY <1>1, <1>3
<1>5. \A b : b # NoBlock => EdgesInto(succ', b) \subseteq EdgesInto(succ, b)
  <2>1. \A s \in [AllBlocks -> Row] :
           /\ \A b \in AllBlocks : b # current => s[b] = succ[b]
           /\ s[current] = <<NoBlock>>
           => \A b : b # NoBlock => EdgesInto(s, b) \subseteq EdgesInto(succ, b)
    BY <1>1, <1>2, WrittenOne
  <2> QED BY <1>4, <2>1
<1>6. Waiting(succ) \subseteq Waiting(succ') \ {<<current, 1>>, <<current, 2>>}
  BY <1>1, <1>2, <1>4, WrittenWaiting
<1>7. <<current, 1>> \in Waiting(succ')
  BY <1>1, <1>4, WaitingNow
<1> QED BY <1>1, <1>4, <1>5, <1>6, <1>7, NoBlockAssumption DEF Edge

LEMMA FramesTyped ==
  ASSUME IInv
  PROVE  /\ frames \in Seq(Frame) /\ Len(frames) \in Nat
         /\ DOMAIN frames = 1 .. Len(frames)
         /\ 1 .. Len(frames) - 1 \subseteq DOMAIN frames
         /\ \A k \in DOMAIN frames :
               /\ frames[k] \in Frame
               /\ k \in Nat /\ k <= Len(frames)
               /\ k = Len(frames) \/ k \in 1 .. Len(frames) - 1
         /\ frames # <<>> => Len(frames) \in DOMAIN frames
BY DEF IInv, Typed

LEMMA FrameKinds ==
  ASSUME NEW q \in Seq(Frame)
  PROVE  \A k \in DOMAIN q : q[k].kind \in {"then", "else", "while"}
<1>1. \A k \in DOMAIN q : q[k] \in Frame
  OBVIOUS
<1>2. \A f \in Frame : f.kind \in {"then", "else", "while"}
  BY DEF Frame
<1> QED BY <1>1, <1>2

(* Replacing the innermost statement, and leaving it.                      *)
LEMMA TopReplaced ==
  ASSUME NEW S, NEW q \in Seq(S), q # <<>>, NEW x \in S
  PROVE  /\ Append(SubSeq(q, 1, Len(q) - 1), x) \in Seq(S)
         /\ Len(Append(SubSeq(q, 1, Len(q) - 1), x)) = Len(q)
         /\ \A k \in 1 .. Len(q) - 1 :
               Append(SubSeq(q, 1, Len(q) - 1), x)[k] = q[k]
         /\ Append(SubSeq(q, 1, Len(q) - 1), x)[Len(q)] = x
<1>1. Len(q) \in Nat \ {0} /\ Len(q) - 1 \in 0 .. Len(q)
  OBVIOUS
<1>2. /\ SubSeq(q, 1, Len(q) - 1) \in Seq(S)
      /\ Len(SubSeq(q, 1, Len(q) - 1)) = Len(q) - 1
      /\ DOMAIN SubSeq(q, 1, Len(q) - 1) = 1 .. Len(q) - 1
      /\ \A k \in 1 .. Len(q) - 1 : SubSeq(q, 1, Len(q) - 1)[k] = q[k]
  BY <1>1, Popped
<1> DEFINE p == SubSeq(q, 1, Len(q) - 1)
<1> HIDE DEF p
<1>3. /\ Append(p, x) \in Seq(S) /\ Len(Append(p, x)) = Len(q)
      /\ \A k \in 1 .. Len(q) - 1 : Append(p, x)[k] = q[k]
      /\ Append(p, x)[Len(q)] = x
  <2>1. /\ p \in Seq(S) /\ Len(p) = Len(q) - 1
        /\ DOMAIN p = 1 .. Len(q) - 1
        /\ \A k \in 1 .. Len(q) - 1 : p[k] = q[k]
    BY <1>2 DEF p
  <2>2. /\ Append(p, x) \in Seq(S)
        /\ Len(Append(p, x)) = Len(p) + 1
        /\ \A k \in DOMAIN p : Append(p, x)[k] = p[k]
        /\ Append(p, x)[Len(p) + 1] = x
    BY <2>1, Pushed
  <2> QED BY <1>1, <2>1, <2>2
<1> QED BY <1>3 DEF p

LEMMA ElseStep == ASSUME IInv, Else
                  PROVE  IInv'
<1> DEFINE n == Len(frames)
           falls == current # NoBlock
           x == [kind |-> "else",
                 then_edge |-> IF falls THEN <<current, 1>> ELSE NoEdge]
           opened == Top.else_block
<1>1. /\ Token("else", NoEdge) /\ funnel = <<>> /\ frames # <<>>
      /\ Top.kind = "then"
      /\ succ' = IF falls THEN [succ EXCEPT ![current] = <<NoBlock>>] ELSE succ
      /\ finished' = IF falls THEN finished \cup {current} ELSE finished
      /\ frames' = Append(Pop, x)
      /\ layout' = Append(layout, opened)
      /\ current' = opened
      /\ UNCHANGED <<phase, block_count, code, loops, control, active, funnel>>
  BY DEF Else, Ready
<1>2. /\ frames \in Seq(Frame) /\ n \in Nat \ {0} /\ DOMAIN frames = 1 .. n
      /\ Then(n) /\ frames[n].else_block = opened
  BY <1>1, FramesTyped DEF Top, Then
<1>3. /\ opened \in Blocks /\ opened \in AllBlocks /\ opened # current
      /\ opened # NoBlock /\ Blocks \subseteq AllBlocks /\ Blocks' = Blocks
      /\ current \in Blocks \cup {NoBlock}
  <2>1. opened \in Blocks /\ opened # current /\ current \in Blocks \cup {NoBlock}
    BY <1>2 DEF IInv, Shape, BlocksKnown
  <2>2. Blocks \subseteq AllBlocks /\ Blocks' = Blocks
    BY <1>1, BoundsAssumption DEF IInv, Typed, TypeOK, Blocks, AllBlocks
  <2> QED BY <2>1, <2>2, NoBlockAssumption
<1>4. /\ succ' \in [AllBlocks -> Row]
      /\ \A b \in AllBlocks : b # current => succ'[b] = succ[b]
      /\ \A b \in AllBlocks : EdgesInto(succ', b) \subseteq EdgesInto(succ, b)
      /\ Waiting(succ) \subseteq Waiting(succ')
      /\ falls => /\ <<current, 1>> \in Waiting(succ') \ Waiting(succ)
                  /\ <<current, 1>> \in Edge
  <2>1. CASE falls
    <3>1. succ' = [succ EXCEPT ![current] = <<NoBlock>>]
      BY <1>1, <2>1
    <3> QED BY <2>1, <3>1, LeftOpen
  <2>2. CASE ~falls
    BY <1>1, <2>2 DEF IInv, Typed, TypeOK, Row
  <2> QED BY <2>1, <2>2
<1>5. /\ x \in Frame /\ x.kind = "else"
      /\ x.then_edge = IF falls THEN <<current, 1>> ELSE NoEdge
  BY <1>4 DEF Frame
<1>6. /\ frames' \in Seq(Frame) /\ Len(frames') = n /\ DOMAIN frames' = 1 .. n
      /\ \A k \in 1 .. n - 1 : k \in DOMAIN frames /\ frames'[k] = frames[k]
      /\ frames'[n] = x
      /\ \A k \in 1 .. n : k = n \/ k \in 1 .. n - 1
  <2> HIDE DEF x
  <2>1. frames \in Seq(Frame) /\ frames # <<>> /\ x \in Frame
        /\ frames' = Append(SubSeq(frames, 1, Len(frames) - 1), x)
    BY <1>1, <1>2, <1>5 DEF Pop
  <2>2. /\ frames' \in Seq(Frame) /\ Len(frames') = n
        /\ \A k \in 1 .. n - 1 : frames'[k] = frames[k]
        /\ frames'[n] = x
    BY <2>1, TopReplaced
  <2>3. DOMAIN frames' = 1 .. n
    BY <2>2
  <2> QED BY <1>2, <2>2, <2>3, FramesTyped
<1> HIDE DEF x
<1>16. /\ \A k : Loop(k)' => /\ Loop(k) /\ k \in 1 .. n - 1
                             /\ k \in DOMAIN frames /\ frames'[k] = frames[k]
       /\ \A k : Then(k)' => /\ Then(k) /\ k \in 1 .. n - 1
                             /\ k \in DOMAIN frames /\ frames'[k] = frames[k]
  BY <1>5, <1>6 DEF Loop, Then
<1>7. Typed'
  <2>1. /\ program' \in Seq([kind : Kinds, arg : Args])
        /\ code \in [AllBlocks -> Seq(DOMAIN program')]
    <3>1. "else" \in Kinds /\ NoEdge \in Args
      BY DEF Kinds, Args
    <3> QED BY <1>1, <3>1, ProgramGrows DEF IInv
  <2>2. layout' \in Seq(0 .. block_count' - 1)
    BY <1>1, <1>3, Pushed DEF IInv, Typed, TypeOK, Blocks
  <2>3. finished' \subseteq 0 .. block_count' - 1
    BY <1>1, <1>3 DEF IInv, Typed, TypeOK, Blocks
  <2>4. \A k \in DOMAIN frames' : frames'[k].kind \in {"then", "else", "while"}
    BY <1>6, FrameKinds
  <2>5. TypeOK'
    BY <1>1, <1>3, <1>4, <2>1, <2>2, <2>3, <2>4 DEF IInv, Typed, TypeOK, Row
  <2> QED BY <1>1, <1>6, <2>1, <2>5 DEF IInv, Typed, Kinds, Args
<1>8. BlocksKnown'
  <2>1. \A k : Then(k)' => frames[k].else_block # opened
    BY <1>2, <1>16 DEF IInv, Shape, BlocksKnown
  <2> QED BY <1>1, <1>3, <1>16, <2>1 DEF IInv, Shape, BlocksKnown
<1>9. StartsOrdered'
  BY <1>1, <1>5, <1>6 DEF IInv, Shape, StartsOrdered, Loop
<1>10. FunnelSound'
  BY <1>1 DEF FunnelSound
<1>11. Unwritten'
  <2>1. \A k \in DOMAIN frames : Then(k) => /\ frames[k].else_block # current
                                           /\ frames[k].else_block \in AllBlocks
    BY <1>3 DEF IInv, Shape, BlocksKnown
  <2>2. \A b \in AllBlocks \ Blocks : b # current
    BY <1>3, NoBlockAssumption
  <2>3. succ'[opened] = <<>>
    BY <1>2, <1>3, <1>4 DEF IInv, Shape, Unwritten
  <2>4. \A k : Then(k)' => succ'[frames'[k].else_block] = <<>>
    BY <1>4, <1>16, <2>1 DEF IInv, Shape, Unwritten
  <2>5. \A b \in AllBlocks \ Blocks : succ'[b] = <<>>
    BY <1>4, <2>2 DEF IInv, Shape, Unwritten
  <2> QED BY <1>1, <1>3, <2>3, <2>4, <2>5 DEF Unwritten
<1>12. \A k \in DOMAIN frames' : OpenFrame(k)' =>
          \/ /\ k \in 1 .. n - 1 /\ OpenFrame(k)
             /\ FrameEdge(k)' = FrameEdge(k)
          \/ k = n /\ falls /\ FrameEdge(k)' = <<current, 1>>
  <2> SUFFICES ASSUME NEW k \in DOMAIN frames', OpenFrame(k)'
               PROVE  \/ /\ k \in 1 .. n - 1 /\ OpenFrame(k)
                         /\ FrameEdge(k)' = FrameEdge(k)
                      \/ k = n /\ falls /\ FrameEdge(k)' = <<current, 1>>
    OBVIOUS
  <2>1. CASE k = n
    BY <1>5, <1>6, <2>1 DEF OpenFrame, FrameEdge, Loop
  <2>2. CASE k \in 1 .. n - 1
    BY <1>1, <1>6, <2>2 DEF OpenFrame, FrameEdge, Loop
  <2> QED BY <1>6, <2>1, <2>2
<1>13. EdgesWait'
  <2>1. \A k \in DOMAIN control' :
           LiveControl(k)' => control'[k].edge \in Waiting(succ')
    BY <1>1, <1>4 DEF IInv, Shape, EdgesWait, LiveControl
  <2>2. \A k \in DOMAIN frames' :
           OpenFrame(k)' => FrameEdge(k)' \in Waiting(succ')
    BY <1>4, <1>6, <1>12 DEF IInv, Shape, EdgesWait
  <2> QED BY <1>1, <2>1, <2>2 DEF EdgesWait, LiveImplicit, LivePending
<1>14. EdgesDistinct'
  <2>1. \A k \in DOMAIN control :
           LiveControl(k)' => LiveControl(k) /\ control[k].edge \in Waiting(succ)
    BY <1>1 DEF IInv, Shape, EdgesWait, LiveControl
  <2>2. \A k \in 1 .. n - 1 : OpenFrame(k) => FrameEdge(k) \in Waiting(succ)
    BY <1>6 DEF IInv, Shape, EdgesWait
  <2>3. \A j, k \in DOMAIN frames' : OpenFrame(j)' /\ OpenFrame(k)' /\ j # k
           => FrameEdge(j)' # FrameEdge(k)'
    <3> SUFFICES ASSUME NEW j \in DOMAIN frames', NEW k \in DOMAIN frames',
                        OpenFrame(j)', OpenFrame(k)', j # k
                 PROVE  FrameEdge(j)' # FrameEdge(k)'
      OBVIOUS
    <3>1. CASE j # n /\ k # n
      BY <1>6, <1>12, <3>1 DEF IInv, Shape, EdgesDistinct
    <3>2. CASE j = n \/ k = n
      BY <1>4, <1>12, <2>2, <3>2
    <3> QED BY <3>1, <3>2
  <2>4. \A j \in DOMAIN control', k \in DOMAIN frames' :
           LiveControl(j)' /\ OpenFrame(k)' => control'[j].edge # FrameEdge(k)'
    <3> SUFFICES ASSUME NEW j \in DOMAIN control, NEW k \in DOMAIN frames',
                        LiveControl(j)', OpenFrame(k)'
                 PROVE  control[j].edge # FrameEdge(k)'
      BY <1>1
    <3>1. CASE k # n
      BY <1>6, <1>12, <2>1, <3>1 DEF IInv, Shape, EdgesDistinct
    <3>2. CASE k = n
      BY <1>4, <1>12, <2>1, <3>2
    <3> QED BY <3>1, <3>2
  <2>5. \A j, k \in DOMAIN control' : LiveControl(j)' /\ LiveControl(k)' /\ j # k
           => control'[j].edge # control'[k].edge
    BY <1>1, <2>1 DEF IInv, Shape, EdgesDistinct
  <2> QED BY <1>1, <2>3, <2>4, <2>5 DEF EdgesDistinct, LiveImplicit, LivePending
<1>15. FewEntries'
  <2>1. \A b \in AllBlocks : AtMostTwo(succ', b)
    BY <1>4, NotEntered DEF IInv, Shape, FewEntries
  <2>2. \A b \in AllBlocks \ Blocks' : EdgesInto(succ', b) = {}
    BY <1>3, <1>4 DEF IInv, Shape, FewEntries
  <2>3. \A k \in DOMAIN frames' :
           NotClosed(k)' => AtMostOne(succ', frames'[k].header_block)
    <3> SUFFICES ASSUME NEW k \in DOMAIN frames', NotClosed(k)'
                 PROVE  AtMostOne(succ', frames'[k].header_block)
      OBVIOUS
    <3>1. k \in 1 .. n - 1 /\ k \in DOMAIN frames /\ NotClosed(k) /\ Loop(k)
      BY <1>1, <1>5, <1>6 DEF NotClosed, Loop
    <3>2. frames[k].header_block \in AllBlocks
      BY <1>3, <3>1 DEF IInv, Shape, BlocksKnown
    <3>3. AtMostOne(succ, frames[k].header_block)
      BY <3>1 DEF IInv, Shape, FewEntries
    <3> QED BY <1>4, <1>6, <3>1, <3>2, <3>3, NotEntered
  <2> QED BY <1>1, <2>1, <2>2, <2>3 DEF FewEntries
<1> QED BY <1>7, <1>8, <1>9, <1>10, <1>11, <1>13, <1>14, <1>15 DEF IInv, Shape

LEMMA LoopControlStep ==
  ASSUME IInv, NEW kind \in {"break", "continue"}, LoopControl(kind)
  PROVE  IInv'
<1>1. kind \in Kinds /\ NoEdge \in Args
  BY DEF Kinds, Statement, Args
<1>2. CASE active = {}
  BY <1>1, <1>2, RejectedStep DEF LoopControl
<1>3. CASE active # {}
  <2> DEFINE x == [kind |-> kind, edge |-> <<current, 1>>]
             m == Len(control)
  <2>1. /\ Token(kind, NoEdge) /\ funnel = <<>> /\ current # NoBlock
        /\ succ' = [succ EXCEPT ![current] = <<NoBlock>>]
        /\ finished' = finished \cup {current}
        /\ control' = Append(control, x)
        /\ current' = NoBlock
        /\ UNCHANGED <<phase, block_count, code, loops, layout, active,
                       frames, funnel>>
    BY <1>3 DEF LoopControl, NextStatement, Ready
  <2>2. /\ succ' \in [AllBlocks -> Row] /\ current \in AllBlocks
        /\ \A b \in AllBlocks : b # current => succ'[b] = succ[b]
        /\ \A b \in AllBlocks : EdgesInto(succ', b) \subseteq EdgesInto(succ, b)
        /\ Waiting(succ) \subseteq Waiting(succ') \ {<<current, 1>>}
        /\ <<current, 1>> \in Waiting(succ')
        /\ <<current, 1>> \in Edge
    BY <2>1, LeftOpen
  <2>3. Blocks' = Blocks /\ current \in Blocks /\ Blocks \subseteq AllBlocks
    <3>1. Blocks \subseteq AllBlocks /\ Blocks' = Blocks
      BY <2>1, BoundsAssumption DEF IInv, Typed, TypeOK, Blocks, AllBlocks
    <3> QED BY <2>1, <3>1 DEF IInv, Shape, BlocksKnown
  <2>4. /\ control' \in Seq([kind : {"break", "continue"}, edge : Edge])
        /\ m \in Nat /\ DOMAIN control = 1 .. m /\ DOMAIN control' = 1 .. m + 1
        /\ Len(control') = m + 1
        /\ \A k \in DOMAIN control : control'[k] = control[k]
        /\ control'[m + 1].edge = <<current, 1>>
        /\ \A k \in 1 .. m + 1 : k = m + 1 \/ k \in 1 .. m
    <3>1. /\ control \in Seq([kind : {"break", "continue"}, edge : Edge])
          /\ x \in [kind : {"break", "continue"}, edge : Edge]
          /\ x.edge = <<current, 1>>
      BY <2>2 DEF IInv, Typed, TypeOK
    <3> HIDE DEF x
    <3>2. /\ control' \in Seq([kind : {"break", "continue"}, edge : Edge])
          /\ DOMAIN control' = 1 .. m + 1 /\ Len(control') = m + 1
          /\ \A k \in DOMAIN control : control'[k] = control[k]
          /\ control'[m + 1] = x
      BY <2>1, <3>1, Pushed
    <3> QED BY <3>1, <3>2
  <2>5. Typed'
    <3>1. /\ program' \in Seq([kind : Kinds, arg : Args])
          /\ code \in [AllBlocks -> Seq(DOMAIN program')]
      BY <1>1, <2>1, ProgramGrows DEF IInv
    <3>2. finished' \subseteq 0 .. block_count' - 1
      BY <2>1, <2>3 DEF IInv, Typed, TypeOK, Blocks
    <3>3. TypeOK'
      BY <2>1, <2>2, <2>4, <3>1, <3>2 DEF IInv, Typed, TypeOK, Row
    <3> QED BY <2>1, <3>1, <3>3 DEF IInv, Typed, Kinds, Args
  <2>6. /\ \A k : Loop(k)' <=> Loop(k)
        /\ \A k : Then(k)' <=> Then(k)
    BY <2>1 DEF Loop, Then
  <2>7. BlocksKnown'
    BY <2>1, <2>3, <2>6, NoBlockAssumption DEF IInv, Shape, BlocksKnown
  <2>8. StartsOrdered'
    <3>1. \A k \in DOMAIN frames :
             Loop(k) => frames[k].control_start \in Nat
      BY FramesTyped DEF Frame, Loop
    <3>2. \A k \in DOMAIN frames : Loop(k) => frames[k].control_start <= m
      BY DEF IInv, Shape, StartsOrdered
    <3>3. \A k \in DOMAIN frames : Loop(k) => frames[k].control_start <= m + 1
      BY <2>4, <3>1, <3>2
    <3> QED BY <2>1, <2>4, <2>6, <3>3 DEF IInv, Shape, StartsOrdered
  <2>9. FunnelSound'
    BY <2>1 DEF FunnelSound
  <2>10. Unwritten'
    <3>1. \A k \in DOMAIN frames : Then(k) => /\ frames[k].else_block # current
                                             /\ frames[k].else_block \in AllBlocks
      BY <2>3 DEF IInv, Shape, BlocksKnown
    <3> QED BY <2>1, <2>2, <2>3, <2>6, <3>1 DEF IInv, Shape, Unwritten
  <2>11. /\ \A k : OpenFrame(k)' => /\ OpenFrame(k) /\ k \in DOMAIN frames
                                    /\ FrameEdge(k)' = FrameEdge(k)
                                    /\ FrameEdge(k) \in Waiting(succ)
         /\ \A k \in DOMAIN control :
               LiveControl(k) /\ control[k].edge \in Waiting(succ)
    <3>1. \A k : OpenFrame(k)' => /\ OpenFrame(k) /\ k \in DOMAIN frames
                                  /\ FrameEdge(k)' = FrameEdge(k)
      BY <2>1, <2>6 DEF OpenFrame, FrameEdge
    <3>2. \A k \in DOMAIN control : LiveControl(k)
      BY <2>1 DEF LiveControl
    <3> QED BY <3>1, <3>2 DEF IInv, Shape, EdgesWait
  <2>12. EdgesWait'
    BY <2>1, <2>2, <2>4, <2>11 DEF EdgesWait, LiveImplicit, LivePending
  <2>13. EdgesDistinct'
    <3>1. \A j, k \in DOMAIN control' : j # k
             => control'[j].edge # control'[k].edge
      <4> SUFFICES ASSUME NEW j \in DOMAIN control', NEW k \in DOMAIN control',
                          j # k
                   PROVE  control'[j].edge # control'[k].edge
        OBVIOUS
      <4>1. CASE j # m + 1 /\ k # m + 1
        BY <2>4, <2>11, <4>1 DEF IInv, Shape, EdgesDistinct
      <4>2. CASE j = m + 1 \/ k = m + 1
        BY <2>2, <2>4, <2>11, <4>2
      <4> QED BY <4>1, <4>2
    <3>2. \A j \in DOMAIN control', k \in DOMAIN frames' :
             OpenFrame(k)' => control'[j].edge # FrameEdge(k)'
      <4> SUFFICES ASSUME NEW j \in DOMAIN control', NEW k \in DOMAIN frames,
                          OpenFrame(k)'
                   PROVE  control'[j].edge # FrameEdge(k)
        BY <2>1, <2>11
      <4>1. CASE j # m + 1
        BY <2>4, <2>11, <4>1 DEF IInv, Shape, EdgesDistinct
      <4>2. CASE j = m + 1
        BY <2>2, <2>4, <2>11, <4>2
      <4> QED BY <4>1, <4>2
    <3>3. \A j, k \in DOMAIN frames' : OpenFrame(j)' /\ OpenFrame(k)' /\ j # k
             => FrameEdge(j)' # FrameEdge(k)'
      BY <2>11 DEF IInv, Shape, EdgesDistinct
    <3> QED BY <2>1, <3>1, <3>2, <3>3
            DEF EdgesDistinct, LiveImplicit, LivePending
  <2>14. FewEntries'
    <3>1. \A b \in AllBlocks : AtMostTwo(succ', b)
      BY <2>2, NotEntered DEF IInv, Shape, FewEntries
    <3>2. \A b \in AllBlocks \ Blocks' : EdgesInto(succ', b) = {}
      BY <2>2, <2>3 DEF IInv, Shape, FewEntries
    <3>3. \A k \in DOMAIN frames' :
             NotClosed(k)' => AtMostOne(succ', frames'[k].header_block)
      <4> SUFFICES ASSUME NEW k \in DOMAIN frames, NotClosed(k)'
                   PROVE  AtMostOne(succ', frames[k].header_block)
        BY <2>1
      <4>1. NotClosed(k) /\ Loop(k)
        BY <2>1, <2>6 DEF NotClosed
      <4>2. frames[k].header_block \in AllBlocks
        BY <2>3, <4>1 DEF IInv, Shape, BlocksKnown
      <4>3. AtMostOne(succ, frames[k].header_block)
        BY <4>1 DEF IInv, Shape, FewEntries
      <4> QED BY <2>2, <4>2, <4>3, NotEntered
    <3> QED BY <2>1, <3>1, <3>2, <3>3 DEF FewEntries
  <2> QED BY <2>5, <2>7, <2>8, <2>9, <2>10, <2>12, <2>13, <2>14
          DEF IInv, Shape
<1> QED BY <1>2, <1>3

LEMMA StatementAfterTerminatorStep ==
  ASSUME IInv, StatementAfterTerminator
  PROVE  IInv'
<1>1. PICK kind \in Statement \ {"return"} : Token(kind, NoEdge)
  BY DEF StatementAfterTerminator
<1>2. kind \in Kinds /\ NoEdge \in Args
  BY DEF Kinds, Args
<1> QED BY <1>1, <1>2, RejectedStep DEF StatementAfterTerminator

(* Both lists of an if enter the block that follows them.                  *)
Continued(t) == IF current = NoBlock THEN succ
                ELSE [succ EXCEPT ![current] = <<t>>]

LEMMA Joined ==
  ASSUME IInv, NEW t \in AllBlocks \ Blocks, NEW p \in Edge \cup {NoEdge},
         NEW s2, s2 = IF p = NoEdge THEN Continued(t)
                      ELSE Patch(Continued(t), p, t)
  PROVE  /\ s2 \in [AllBlocks -> Row]
         /\ \A b \in AllBlocks : succ[b] = <<>> /\ b # current => s2[b] = <<>>
         /\ \A b \in AllBlocks \ {t} : EdgesInto(s2, b) \subseteq EdgesInto(succ, b)
         /\ AtMostTwo(s2, t)
         /\ Waiting(succ) \ {p} \subseteq Waiting(s2)
<1> DEFINE s == Continued(t)
<1>1. /\ succ \in [AllBlocks -> Row] /\ current \in AllBlocks \cup {NoBlock}
      /\ EdgesInto(succ, t) = {} /\ t \in AllBlocks
  BY Fresh DEF IInv, Typed, TypeOK, Row
<1>2. /\ s \in [AllBlocks -> Row]
      /\ \A b \in AllBlocks : succ[b] = <<>> /\ b # current => s[b] = <<>>
      /\ \A b \in AllBlocks \ {t} : EdgesInto(s, b) \subseteq EdgesInto(succ, b)
      /\ AtMostOne(s, t)
      /\ Waiting(succ) \subseteq Waiting(s)
  <2>1. CASE current = NoBlock
    <3>1. s = succ
      BY <2>1 DEF Continued
    <3>2. <<t, 1>> \in Edge
      BY <1>1 DEF Edge
    <3>3. AtMostOne(s, t)
      BY <1>1, <3>1, <3>2 DEF AtMostOne
    <3> QED BY <1>1, <3>1, <3>3
  <2>2. CASE current # NoBlock
    <3>1. s = [succ EXCEPT ![current] = <<t>>] /\ current \in AllBlocks
      BY <1>1, <2>2 DEF Continued
    <3>2. succ[current] = <<>>
      BY <2>2 DEF IInv, Shape, Unwritten
    <3>3. <<t>> \in Row /\ t \in AllBlocks \cup {NoBlock}
      BY <1>1, Rows
    <3>4. /\ s \in [AllBlocks -> Row] /\ s[current] = <<t>>
          /\ \A b \in AllBlocks : b # current => s[b] = succ[b]
      BY <1>1, <3>1, <3>3
    <3>5. /\ \A b : b # t => EdgesInto(s, b) \subseteq EdgesInto(succ, b)
          /\ EdgesInto(s, t) \subseteq EdgesInto(succ, t) \cup {<<current, 1>>}
      BY <1>1, <3>1, <3>2, <3>3, <3>4, WrittenOne
    <3>6. Waiting(succ) \subseteq Waiting(s)
      BY <1>1, <3>1, <3>2, <3>4, WrittenWaiting
    <3>7. <<current, 1>> \in Edge
      BY <3>1 DEF Edge
    <3>8. AtMostOne(s, t)
      BY <1>1, <3>5, <3>7, Entered
    <3> QED BY <3>4, <3>5, <3>6, <3>8
  <2> QED BY <2>1, <2>2
<1> HIDE DEF s
<1>3. CASE p = NoEdge
  <2>1. AtMostTwo(s, t)
    BY <1>2 DEF AtMostOne, AtMostTwo
  <2> QED BY <1>2, <1>3, <2>1 DEF s
<1>4. CASE p # NoEdge
  <2>1. p \in Edge /\ s2 = Patch(s, p, t)
    BY <1>4 DEF s
  <2>2. /\ s2 \in [AllBlocks -> Row]
        /\ \A b \in AllBlocks : s[b] = <<>> => s2[b] = <<>>
        /\ \A b \in AllBlocks \ {t} :
              EdgesInto(s2, b) \subseteq EdgesInto(s, b)
        /\ EdgesInto(s2, t) \subseteq EdgesInto(s, t) \cup {p}
        /\ Waiting(s) \ {p} \subseteq Waiting(s2)
    <3>1. s \in [AllBlocks -> Row] /\ t \in AllBlocks
      BY <1>1, <1>2
    <3>2. /\ Patch(s, p, t) \in [AllBlocks -> Row]
          /\ \A b \in AllBlocks : s[b] = <<>> => Patch(s, p, t)[b] = <<>>
          /\ \A b \in AllBlocks \ {t} :
                EdgesInto(Patch(s, p, t), b) \subseteq EdgesInto(s, b)
          /\ EdgesInto(Patch(s, p, t), t) \subseteq EdgesInto(s, t) \cup {p}
          /\ Waiting(s) \ {p} \subseteq Waiting(Patch(s, p, t))
      BY <2>1, <3>1, Patched
    <3> QED BY <2>1, <3>2
  <2>3. AtMostTwo(s2, t)
    BY <1>2, <2>1, <2>2, Entered
  <2> QED BY <1>2, <2>2, <2>3
<1> QED BY <1>3, <1>4

(* The innermost statement ends.                                           *)
LEMMA TopGone ==
  ASSUME IInv, frames # <<>>, frames' = Pop
  PROVE  /\ frames' \in Seq(Frame) /\ Len(frames') = Len(frames) - 1
         /\ DOMAIN frames' = 1 .. Len(frames) - 1
         /\ \A k \in DOMAIN frames' : /\ k \in DOMAIN frames
                                      /\ k # Len(frames) /\ k < Len(frames)
                                      /\ frames'[k] = frames[k]
         /\ \A k : Loop(k)' => Loop(k) /\ k \in DOMAIN frames'
         /\ \A k : Then(k)' => Then(k) /\ k \in DOMAIN frames'
<1>1. frames \in Seq(Frame) /\ Len(frames) - 1 \in 0 .. Len(frames)
      /\ DOMAIN frames = 1 .. Len(frames) /\ Len(frames) \in Nat
  BY FramesTyped
<1>2. /\ frames' \in Seq(Frame) /\ Len(frames') = Len(frames) - 1
      /\ DOMAIN frames' = 1 .. Len(frames) - 1
      /\ \A k \in 1 .. Len(frames) - 1 : frames'[k] = frames[k]
  BY <1>1, Popped DEF Pop
<1>3. \A k \in DOMAIN frames' : /\ k \in DOMAIN frames
                                /\ k # Len(frames) /\ k < Len(frames)
                                /\ frames'[k] = frames[k]
  BY <1>1, <1>2
<1> QED BY <1>2, <1>3 DEF Loop, Then

LEMMA EndIfStep == ASSUME IInv, EndIf
                   PROVE  IInv'
<1> DEFINE n == Len(frames)
           p == Top.then_edge
<1>1. "end" \in Kinds /\ NoEdge \in Args
  BY DEF Kinds, Args
<1>2. /\ Token("end", NoEdge) /\ funnel = <<>> /\ frames # <<>>
      /\ frames[n].kind = "else" /\ p = frames[n].then_edge
      /\ n \in DOMAIN frames
  BY FramesTyped DEF EndIf, Ready, Top
<1>3. p \in Edge \cup {NoEdge}
  BY <1>2, FramesTyped DEF Frame
<1>4. Blocks \subseteq AllBlocks /\ NoBlock \notin Blocks
  <2>1. Blocks \subseteq AllBlocks
    BY BoundsAssumption DEF IInv, Typed, TypeOK, Blocks, AllBlocks
  <2> QED BY <2>1, NoBlockAssumption
<1>5. CASE ~(current = NoBlock /\ p = NoEdge) /\ ~Room(1)
  <2>1. Reject
    BY <1>5 DEF EndIf
  <2> QED BY <1>1, <1>2, <2>1, RejectedStep
<1>6. /\ \A k \in DOMAIN control :
            LiveControl(k) /\ control[k].edge \in Waiting(succ) \ {p}
      /\ \A k \in DOMAIN frames : k # n /\ OpenFrame(k) =>
            FrameEdge(k) \in Waiting(succ) \ {p}
  <2>1. \A k \in DOMAIN control : LiveControl(k)
    BY <1>2 DEF LiveControl
  <2>2. p # NoEdge => OpenFrame(n) /\ FrameEdge(n) = p
    BY <1>2 DEF OpenFrame, FrameEdge, Loop
  <2>3. /\ \A k \in DOMAIN control : control[k].edge \in Waiting(succ)
        /\ \A k \in DOMAIN frames :
              OpenFrame(k) => FrameEdge(k) \in Waiting(succ)
    BY <2>1 DEF IInv, Shape, EdgesWait
  <2>4. p # NoEdge => /\ \A k \in DOMAIN control : control[k].edge # p
                      /\ \A k \in DOMAIN frames :
                            k # n /\ OpenFrame(k) => FrameEdge(k) # p
    BY <1>2, <2>1, <2>2 DEF IInv, Shape, EdgesDistinct
  <2>5. NoEdge \notin Waiting(succ)
    BY NoEdgeAssumption DEF Waiting, Edge
  <2> QED BY <2>1, <2>3, <2>4, <2>5
<1>7. CASE (current = NoBlock /\ p = NoEdge) \/ Room(1)
  <2> DEFINE joins == ~(current = NoBlock /\ p = NoEdge)
             t == block_count
  <2>1. /\ frames' = Pop
        /\ UNCHANGED <<phase, code, control, active, funnel>>
        /\ ~joins => UNCHANGED <<cfg, current>>
        /\ joins => /\ Room(1)
                    /\ block_count' = block_count + 1
                    /\ succ' = JoinThen(Continued(t), t)
                    /\ finished' = finished \cup ({current} \ {NoBlock})
                    /\ loops' = Declare({t}, active)
                    /\ layout' = Append(layout, t)
                    /\ current' = t
    <3>1. CASE joins
      BY <1>7, <3>1 DEF EndIf, Continued
    <3>2. CASE ~joins
      <4>1. /\ frames' = Pop
            /\ UNCHANGED <<phase, cfg, current, control, active, funnel>>
        BY <3>2 DEF EndIf
      <4> QED BY <3>2, <4>1 DEF cfg
    <3> QED BY <3>1, <3>2
  <2>2. joins => /\ block_count' \in 1 .. MaxBlocks
                 /\ t \in AllBlocks \ Blocks
                 /\ Blocks' = Blocks \cup {t}
    BY <2>1, OneCreated
  <2>3. /\ block_count' \in 1 .. MaxBlocks
        /\ Blocks \subseteq Blocks' /\ Blocks' \subseteq AllBlocks
        /\ current' \in Blocks' \cup {NoBlock}
        /\ current' \in Blocks => current' = current
    <3>1. CASE joins
      BY <1>4, <2>1, <2>2, <3>1
    <3>2. CASE ~joins
      BY <1>4, <2>1, <3>2 DEF cfg, Blocks, IInv, Typed, TypeOK, Shape, BlocksKnown
    <3> QED BY <3>1, <3>2
  <2>4. /\ succ' \in [AllBlocks -> Row]
        /\ \A b \in AllBlocks : succ[b] = <<>> /\ b # current => succ'[b] = <<>>
        /\ \A b \in AllBlocks :
              b \in Blocks \/ b \notin Blocks' =>
                 EdgesInto(succ', b) \subseteq EdgesInto(succ, b)
        /\ \A b \in AllBlocks : AtMostTwo(succ', b)
        /\ Waiting(succ) \ {p} \subseteq Waiting(succ')
    <3>1. CASE joins
      <4>1. succ' = IF p = NoEdge THEN Continued(t)
                    ELSE Patch(Continued(t), p, t)
        BY <2>1, <3>1 DEF JoinThen
      <4>2. t \in AllBlocks \ Blocks
        BY <2>2, <3>1
      <4> HIDE DEF t, p
      <4>3. /\ succ' \in [AllBlocks -> Row]
            /\ \A b \in AllBlocks : succ[b] = <<>> /\ b # current => succ'[b] = <<>>
            /\ \A b \in AllBlocks \ {t} :
                  EdgesInto(succ', b) \subseteq EdgesInto(succ, b)
            /\ AtMostTwo(succ', t)
            /\ Waiting(succ) \ {p} \subseteq Waiting(succ')
        BY <1>3, <4>1, <4>2, Joined
      <4>4. \A b \in AllBlocks : AtMostTwo(succ', b)
        BY <4>3, NotEntered DEF IInv, Shape, FewEntries
      <4> QED BY <2>2, <3>1, <4>3, <4>4
    <3>2. CASE ~joins
      BY <2>1, <3>2 DEF IInv, Typed, TypeOK, Row, cfg, Shape, FewEntries
    <3> QED BY <3>1, <3>2
  <2>5. /\ frames' \in Seq(Frame) /\ Len(frames') = n - 1
        /\ DOMAIN frames' = 1 .. n - 1
        /\ \A k \in DOMAIN frames' : /\ k \in DOMAIN frames
                                     /\ k # n /\ k < n
                                     /\ frames'[k] = frames[k]
        /\ \A k : Loop(k)' => Loop(k) /\ k \in DOMAIN frames'
        /\ \A k : Then(k)' => Then(k) /\ k \in DOMAIN frames'
    BY <1>2, <2>1, TopGone
  <2>6. Typed'
    <3>1. /\ program' \in Seq([kind : Kinds, arg : Args])
          /\ code \in [AllBlocks -> Seq(DOMAIN program')]
      BY <1>1, <1>2, ProgramGrows DEF IInv
    <3>2. /\ layout' \in Seq(Blocks') /\ finished' \subseteq Blocks'
          /\ loops' \in [AllBlocks -> SUBSET AllBlocks]
          /\ active' \subseteq Blocks'
      <4>1. /\ layout \in Seq(Blocks) /\ finished \subseteq Blocks
            /\ active \subseteq Blocks /\ loops \in [AllBlocks -> SUBSET AllBlocks]
            /\ current \in Blocks \cup {NoBlock}
        BY DEF IInv, Typed, TypeOK, Blocks, Shape, BlocksKnown
      <4>2. CASE joins
        <5>1. layout \in Seq(Blocks') /\ t \in Blocks'
          BY <2>2, <2>3, <4>1, <4>2, SeqGrows
        <5>2. layout' \in Seq(Blocks')
          BY <2>1, <4>2, <5>1, Pushed
        <5>3. loops' \in [AllBlocks -> SUBSET AllBlocks]
          BY <1>4, <2>1, <4>1, <4>2 DEF Declare
        <5> QED BY <2>1, <2>3, <4>1, <4>2, <5>2, <5>3
      <4>3. CASE ~joins
        BY <2>1, <2>3, <4>1, <4>3, SeqGrows DEF cfg, Blocks
      <4> QED BY <4>2, <4>3
    <3>3. \A k \in DOMAIN frames' : frames'[k].kind \in {"then", "else", "while"}
      BY <2>5, FrameKinds
    <3>4. TypeOK'
      BY <2>1, <2>3, <2>4, <3>1, <3>2, <3>3
         DEF IInv, Typed, TypeOK, Row, Blocks
    <3> QED BY <2>1, <2>5, <3>1, <3>4 DEF IInv, Typed, Kinds, Args
  <2>7. BlocksKnown'
    BY <2>1, <2>3, <2>5 DEF IInv, Shape, BlocksKnown
  <2>8. StartsOrdered'
    BY <2>1, <2>5 DEF IInv, Shape, StartsOrdered
  <2>9. FunnelSound'
    BY <1>2, <2>1 DEF FunnelSound
  <2>10. Unwritten'
    <3>1. \A k : Then(k)' => succ'[frames'[k].else_block] = <<>>
      <4>1. \A k : Then(k)' => /\ frames[k].else_block \in Blocks \ {current}
                               /\ succ[frames[k].else_block] = <<>>
        BY <2>5 DEF IInv, Shape, BlocksKnown, Unwritten
      <4> QED BY <1>4, <2>4, <2>5, <4>1
    <3>2. \A b \in AllBlocks \ Blocks' : succ'[b] = <<>>
      <4>1. \A b \in AllBlocks \ Blocks' : succ[b] = <<>> /\ b # current
        BY <2>3, Fresh
      <4> QED BY <2>4, <4>1
    <3>3. current' # NoBlock => succ'[current'] = <<>>
      <4>1. CASE joins
        BY <2>1, <2>2, <2>4, <4>1, Fresh
      <4>2. CASE ~joins
        BY <2>1, <4>2 DEF cfg
      <4> QED BY <4>1, <4>2
    <3> QED BY <1>2, <2>1, <3>1, <3>2, <3>3 DEF Unwritten
  <2>11. \A k \in DOMAIN frames' : OpenFrame(k)' =>
             /\ OpenFrame(k) /\ FrameEdge(k)' = FrameEdge(k)
             /\ FrameEdge(k) \in Waiting(succ) \ {p}
    <3>1. \A k \in DOMAIN frames' : OpenFrame(k)' =>
             OpenFrame(k) /\ FrameEdge(k)' = FrameEdge(k)
      BY <1>2, <2>5 DEF OpenFrame, FrameEdge, Loop
    <3> QED BY <1>6, <2>5, <3>1
  <2>12. EdgesWait'
    BY <1>2, <1>6, <2>1, <2>4, <2>11 DEF EdgesWait, LiveImplicit, LivePending
  <2>13. EdgesDistinct'
    BY <1>2, <1>6, <2>1, <2>5, <2>11
       DEF IInv, Shape, EdgesDistinct, LiveImplicit, LivePending
  <2>14. FewEntries'
    <3>1. \A b \in AllBlocks \ Blocks' : EdgesInto(succ', b) = {}
      BY <2>3, <2>4 DEF IInv, Shape, FewEntries
    <3>2. \A k \in DOMAIN frames' :
             NotClosed(k)' => AtMostOne(succ', frames'[k].header_block)
      <4> SUFFICES ASSUME NEW k \in DOMAIN frames', NotClosed(k)'
                   PROVE  AtMostOne(succ', frames[k].header_block)
        BY <2>5
      <4>1. NotClosed(k) /\ Loop(k) /\ k \in DOMAIN frames
        BY <1>2, <2>1, <2>5 DEF NotClosed
      <4>2. frames[k].header_block \in Blocks
        BY <4>1 DEF IInv, Shape, BlocksKnown
      <4>3. AtMostOne(succ, frames[k].header_block)
        BY <4>1 DEF IInv, Shape, FewEntries
      <4>4. EdgesInto(succ', frames[k].header_block)
               \subseteq EdgesInto(succ, frames[k].header_block)
        BY <1>4, <2>4, <4>2
      <4> QED BY <4>3, <4>4, NotEntered
    <3> QED BY <1>2, <2>1, <2>4, <3>1, <3>2 DEF FewEntries
  <2> QED BY <2>6, <2>7, <2>8, <2>9, <2>10, <2>12, <2>13, <2>14
          DEF IInv, Shape
<1> QED BY <1>5, <1>7

(* The header of a new loop: entered once, and its exit is not known.      *)
Begun(h, y) == [succ EXCEPT ![current] = <<h>>, ![h] = <<y, NoBlock>>]

LEMMA HeaderWritten ==
  ASSUME IInv, current \in Blocks, NEW h \in AllBlocks \ Blocks,
         NEW y \in AllBlocks \ Blocks, h # y, Blocks \subseteq AllBlocks,
         NEW s2, s2 = Begun(h, y)
  PROVE  /\ s2 \in [AllBlocks -> Row]
         /\ \A b \in AllBlocks \ {current, h} : s2[b] = succ[b]
         /\ \A b \in AllBlocks \ {h, y} :
               EdgesInto(s2, b) \subseteq EdgesInto(succ, b)
         /\ AtMostOne(s2, h) /\ AtMostOne(s2, y)
         /\ Waiting(succ) \subseteq Waiting(s2) \ {<<h, 2>>}
         /\ <<h, 2>> \in Waiting(s2)
<1> DEFINE s == [succ EXCEPT ![current] = <<h>>]
<1>1. /\ succ \in [AllBlocks -> Row] /\ current \in AllBlocks
      /\ succ[current] = <<>> /\ succ[h] = <<>> /\ h # current
      /\ EdgesInto(succ, h) = {} /\ EdgesInto(succ, y) = {}
      /\ h \in AllBlocks /\ y \in AllBlocks
      /\ NoBlock \notin {h, y}
  BY Fresh, NoBlockAssumption DEF IInv, Typed, TypeOK, Row, Shape, Unwritten
<1>2. <<h>> \in Row /\ <<y, NoBlock>> \in Row
  BY <1>1, Rows
<1>3. s \in [AllBlocks -> Row]
      /\ \A b \in AllBlocks : s[b] = IF b = current THEN <<h>> ELSE succ[b]
  BY <1>1, <1>2
<1>4. s2 = [s EXCEPT ![h] = <<y, NoBlock>>]
  BY DEF Begun
<1> HIDE DEF s
<1>5. s2 \in [AllBlocks -> Row]
      /\ \A b \in AllBlocks : s2[b] = IF b = h THEN <<y, NoBlock>> ELSE s[b]
  BY <1>2, <1>3, <1>4
<1>6. /\ s[current] = <<h>> /\ s[h] = <<>>
      /\ \A b \in AllBlocks : b # current => s[b] = succ[b]
      /\ s2[h] = <<y, NoBlock>>
      /\ \A b \in AllBlocks : b # h => s2[b] = s[b]
      /\ s \in [AllBlocks -> Row] /\ s2 \in [AllBlocks -> Row]
  BY <1>1, <1>3, <1>5
<1>7. /\ \A b : b # h => EdgesInto(s, b) \subseteq EdgesInto(succ, b)
      /\ EdgesInto(s, h) \subseteq EdgesInto(succ, h) \cup {<<current, 1>>}
  <2>1. h \in AllBlocks \cup {NoBlock}
    BY <1>1
  <2> QED BY <1>1, <1>6, <2>1, WrittenOne
<1>8. Waiting(succ) \subseteq Waiting(s)
  BY <1>1, <1>6, WrittenWaiting
<1>9. /\ \A b : b \notin {y, NoBlock} =>
            EdgesInto(s2, b) \subseteq EdgesInto(s, b)
      /\ EdgesInto(s2, y) \subseteq EdgesInto(s, y) \cup {<<h, 1>>}
  <2>1. /\ s \in [AllBlocks -> Row] /\ s2 \in [AllBlocks -> Row]
        /\ h \in AllBlocks /\ s[h] = <<>> /\ s2[h] = <<y, NoBlock>>
        /\ \A b \in AllBlocks : b # h => s2[b] = s[b]
        /\ y \in AllBlocks /\ y # NoBlock
        /\ NoBlock \in AllBlocks \cup {NoBlock}
    BY <1>1, <1>6
  <2>2. \A b : b \notin {y, NoBlock} =>
           EdgesInto(s2, b) \subseteq EdgesInto(s, b)
    BY <2>1, WrittenTwo
  <2>3. EdgesInto(s2, y) \subseteq EdgesInto(s, y) \cup {<<h, 1>>}
    BY <2>1, WrittenTwo
  <2> QED BY <2>2, <2>3
<1>10. Waiting(s) \subseteq Waiting(s2) \ {<<h, 2>>} /\ <<h, 2>> \in Waiting(s2)
  <2>1. /\ s \in [AllBlocks -> Row] /\ s2 \in [AllBlocks -> Row]
        /\ h \in AllBlocks /\ s[h] = <<>>
        /\ \A b \in AllBlocks : b # h => s2[b] = s[b]
    BY <1>1, <1>6
  <2>2. Waiting(s) \subseteq Waiting(s2) \ {<<h, 1>>, <<h, 2>>}
    BY <2>1, WrittenWaiting
  <2>3. <<h, 2>> \in Waiting(s2)
    BY <1>1, <1>6, WaitingNow
  <2> QED BY <2>2, <2>3
<1>11. AtMostOne(s2, h) /\ AtMostOne(s2, y)
  <2>1. <<current, 1>> \in Edge /\ <<h, 1>> \in Edge
    BY <1>1 DEF Edge
  <2>2. EdgesInto(s2, h) \subseteq {<<current, 1>>}
    BY <1>1, <1>7, <1>9
  <2>3. EdgesInto(s2, y) \subseteq {<<h, 1>>}
    BY <1>1, <1>7, <1>9
  <2> QED BY <2>1, <2>2, <2>3 DEF AtMostOne
<1>12. \A b \in AllBlocks \ {h, y} :
          EdgesInto(s2, b) \subseteq EdgesInto(succ, b)
  BY <1>7, <1>9, NoBlockAssumption
<1> QED BY <1>6, <1>8, <1>10, <1>11, <1>12

LEMMA WhileStep == ASSUME IInv, NEW c \in Conditions, While(c)
                   PROVE  IInv'
<1>1. "while" \in Kinds /\ c \in Args
  BY DEF Kinds, Statement, Args
<1>2. CASE ~Room(2)
  BY <1>1, <1>2, RejectedStep DEF While
<1>3. CASE Room(2)
  <2> DEFINE h == block_count
             y == block_count + 1
             x == LoopFrame(h)
             n == Len(frames)
  <2>1. /\ Token("while", c) /\ funnel = <<>> /\ current # NoBlock
        /\ block_count' = block_count + 2
        /\ succ' = [succ EXCEPT ![current] = <<h>>, ![h] = <<y, NoBlock>>]
        /\ code' = [code EXCEPT ![h] = <<Position>>]
        /\ finished' = finished \cup {current, h}
        /\ active' = active \cup {h}
        /\ loops' = Declare({h, y}, active')
        /\ layout' = BeginLoop(h, y)
        /\ current' = y
        /\ frames' = Append(frames, x)
        /\ UNCHANGED <<phase, control, funnel>>
    BY <1>3 DEF While, NextStatement, Ready
  <2>2. /\ block_count' \in 1 .. MaxBlocks
        /\ h \in AllBlocks \ Blocks /\ y \in AllBlocks \ Blocks /\ h # y
        /\ Blocks' = Blocks \cup {h, y}
        /\ current \in Blocks /\ Blocks \subseteq AllBlocks
    <3>1. current \in Blocks
      BY <2>1 DEF IInv, Shape, BlocksKnown
    <3> QED BY <1>3, <2>1, <3>1, TwoCreated
  <2>3. /\ succ' \in [AllBlocks -> Row]
        /\ \A b \in AllBlocks \ {current, h} : succ'[b] = succ[b]
        /\ \A b \in AllBlocks \ {h, y} :
              EdgesInto(succ', b) \subseteq EdgesInto(succ, b)
        /\ AtMostOne(succ', h) /\ AtMostOne(succ', y)
        /\ Waiting(succ) \subseteq Waiting(succ') \ {<<h, 2>>}
        /\ <<h, 2>> \in Waiting(succ')
    <3>1. succ' = Begun(h, y)
      BY <2>1 DEF Begun
    <3>2. h \in AllBlocks \ Blocks /\ y \in AllBlocks \ Blocks /\ h # y
      BY <2>2
    <3>3. current \in Blocks /\ Blocks \subseteq AllBlocks
      BY <2>2
    <3> HIDE DEF h, y
    <3> QED BY <3>1, <3>2, <3>3, HeaderWritten
  <2>4. /\ control \in Seq([kind : {"break", "continue"}, edge : Edge])
        /\ active \subseteq Blocks /\ Len(control) \in Nat
    BY DEF IInv, Typed, TypeOK, Blocks
  <2>5. /\ x \in Frame /\ x.kind = "while" /\ x.header_block = h
        /\ x.control_start = Len(control) /\ x.outer_loops = active
    BY <2>2, <2>4 DEF LoopFrame, Frame
  <2> HIDE DEF x
  <2>6. /\ frames' \in Seq(Frame) /\ Len(frames') = n + 1 /\ n \in Nat
        /\ DOMAIN frames = 1 .. n
        /\ DOMAIN frames' = 1 .. n + 1
        /\ \A k \in DOMAIN frames : /\ k \in DOMAIN frames' /\ k # n + 1
                                    /\ frames'[k] = frames[k]
        /\ frames'[n + 1] = x
        /\ \A k \in DOMAIN frames' : k # n + 1 => k \in DOMAIN frames
    <3>1. frames \in Seq(Frame) /\ x \in Frame
      BY <2>5, FramesTyped
    <3>2. /\ frames' \in Seq(Frame) /\ Len(frames') = n + 1
          /\ DOMAIN frames' = 1 .. n + 1
          /\ \A k \in DOMAIN frames : frames'[k] = frames[k]
          /\ frames'[n + 1] = x
      BY <2>1, <3>1, Pushed
    <3>3. DOMAIN frames = 1 .. n /\ n \in Nat
      BY FramesTyped
    <3> QED BY <3>2, <3>3
  <2>7. /\ \A k : Loop(k)' => k = n + 1 \/ (Loop(k) /\ k \in DOMAIN frames)
        /\ \A k : Then(k)' => Then(k) /\ k \in DOMAIN frames
    BY <2>5, <2>6 DEF Loop, Then
  <2>8. Typed'
    <3>1. /\ program' \in Seq([kind : Kinds, arg : Args])
          /\ Position \in DOMAIN program'
          /\ code \in [AllBlocks -> Seq(DOMAIN program')]
      BY <1>1, <2>1, ProgramGrows DEF IInv
    <3>2. code' \in [AllBlocks -> Seq(DOMAIN program')]
      <4>1. <<Position>> \in Seq(DOMAIN program')
        BY <3>1
      <4> QED BY <2>1, <3>1, <4>1
    <3>3. layout' \in Seq(0 .. block_count' - 1)
      <4>1. layout \in Seq(Blocks') /\ <<h, y>> \in Seq(Blocks')
        BY SMTT(30), <2>2, SeqGrows DEF IInv, Typed, TypeOK, Blocks
      <4> QED BY <2>1, <4>1 DEF BeginLoop, Blocks
    <3>4. loops' \in [AllBlocks -> SUBSET AllBlocks]
      BY <2>1, <2>2, <2>4 DEF IInv, Typed, TypeOK, Declare
    <3>5. finished' \subseteq 0 .. block_count' - 1
          /\ active' \subseteq 0 .. block_count' - 1
      BY <2>1, <2>2, <2>4 DEF IInv, Typed, TypeOK, Blocks
    <3>6. \A k \in DOMAIN frames' : frames'[k].kind \in {"then", "else", "while"}
      BY <2>6, FrameKinds
    <3>7. TypeOK'
      BY <2>1, <2>2, <2>3, <3>2, <3>3, <3>4, <3>5, <3>6
         DEF IInv, Typed, TypeOK, Row
    <3> QED BY <2>1, <2>6, <3>1, <3>7 DEF IInv, Typed, Kinds, Args
  <2>9. BlocksKnown'
    <3>1. \A k \in DOMAIN frames :
             /\ Loop(k) => /\ frames[k].header_block \in Blocks
                           /\ frames[k].outer_loops \subseteq Blocks
             /\ Then(k) => frames[k].else_block \in Blocks
      BY DEF IInv, Shape, BlocksKnown
    <3>2. \A k \in DOMAIN frames' :
             /\ Loop(k)' => /\ frames'[k].header_block \in Blocks'
                            /\ frames'[k].outer_loops \subseteq Blocks'
             /\ Then(k)' => frames'[k].else_block \in Blocks' \ {current'}
      BY <2>1, <2>2, <2>4, <2>5, <2>6, <2>7, <3>1
    <3>3. \A j, k \in DOMAIN frames' : j # k /\ Loop(j)' /\ Loop(k)'
             => frames'[j].header_block # frames'[k].header_block
      BY <2>2, <2>5, <2>6, <2>7, <3>1 DEF IInv, Shape, BlocksKnown
    <3>4. \A j, k \in DOMAIN frames' : j # k /\ Then(j)' /\ Then(k)'
             => frames'[j].else_block # frames'[k].else_block
      BY <2>6, <2>7 DEF IInv, Shape, BlocksKnown
    <3> QED BY <2>1, <2>2, <3>2, <3>3, <3>4 DEF BlocksKnown
  <2>10. StartsOrdered'
    <3>1. \A k \in DOMAIN frames : Loop(k) => frames[k].control_start \in Nat
      BY FramesTyped DEF Frame, Loop
    <3> SUFFICES ASSUME NEW k \in DOMAIN frames', Loop(k)'
                 PROVE  /\ frames'[k].control_start <= Len(control)
                        /\ \A j \in 1 .. k : Loop(j)' =>
                              frames'[j].control_start
                                 <= frames'[k].control_start
      BY <2>1 DEF StartsOrdered
    <3>2. CASE k = n + 1
      BY <2>4, <2>5, <2>6, <2>7, <3>2 DEF IInv, Shape, StartsOrdered
    <3>3. CASE k # n + 1
      <4>1. Loop(k) /\ k \in DOMAIN frames /\ frames'[k] = frames[k]
        BY <2>6, <2>7, <3>3
      <4>2. \A j \in 1 .. k : j \in DOMAIN frames /\ j # n + 1
        BY <2>6, <4>1
      <4> QED BY <2>6, <2>7, <4>1, <4>2 DEF IInv, Shape, StartsOrdered
    <3> QED BY <3>2, <3>3
  <2>11. FunnelSound'
    BY <2>1 DEF FunnelSound
  <2>12. Unwritten'
    <3>1. \A k \in DOMAIN frames : Then(k) =>
             /\ frames[k].else_block \in AllBlocks \ {current, h}
             /\ succ[frames[k].else_block] = <<>>
      BY <2>2 DEF IInv, Shape, BlocksKnown, Unwritten
    <3>2. succ[y] = <<>> /\ \A b \in AllBlocks \ Blocks : succ[b] = <<>>
      BY <2>2, Fresh
    <3> QED BY <2>1, <2>2, <2>3, <2>6, <2>7, <3>1, <3>2 DEF Unwritten
  <2>13. /\ \A k \in DOMAIN frames' : OpenFrame(k)' =>
               \/ /\ k \in DOMAIN frames /\ OpenFrame(k) /\ k # n + 1
                  /\ FrameEdge(k)' = FrameEdge(k)
                  /\ FrameEdge(k) \in Waiting(succ)
               \/ k = n + 1 /\ FrameEdge(k)' = <<h, 2>>
         /\ \A k \in DOMAIN control :
               LiveControl(k) /\ control[k].edge \in Waiting(succ)
    <3>1. ASSUME NEW k \in DOMAIN frames', OpenFrame(k)', k # n + 1
          PROVE  OpenFrame(k) /\ FrameEdge(k)' = FrameEdge(k)
      <4>1. k \in DOMAIN frames /\ frames'[k] = frames[k]
        BY <2>6, <3>1
      <4> QED BY <2>1, <3>1, <4>1 DEF OpenFrame, FrameEdge, Loop
    <3>2. ASSUME NEW k \in DOMAIN frames', k = n + 1
          PROVE  FrameEdge(k)' = <<h, 2>>
      BY <2>5, <2>6, <3>2 DEF FrameEdge, Loop
    <3>3. \A k \in DOMAIN control : LiveControl(k)
      BY <2>1 DEF LiveControl
    <3> QED BY <2>6, <3>1, <3>2, <3>3 DEF IInv, Shape, EdgesWait
  <2>14. EdgesWait'
    BY <2>1, <2>3, <2>13 DEF EdgesWait, LiveImplicit, LivePending
  <2>15. EdgesDistinct'
    <3>1. \A j, k \in DOMAIN frames' : OpenFrame(j)' /\ OpenFrame(k)' /\ j # k
             => FrameEdge(j)' # FrameEdge(k)'
      <4> SUFFICES ASSUME NEW j \in DOMAIN frames', NEW k \in DOMAIN frames',
                          OpenFrame(j)', OpenFrame(k)', j # k
                   PROVE  FrameEdge(j)' # FrameEdge(k)'
        OBVIOUS
      <4>1. CASE j # n + 1 /\ k # n + 1
        BY <2>13, <4>1 DEF IInv, Shape, EdgesDistinct
      <4>2. CASE j = n + 1 \/ k = n + 1
        BY <2>3, <2>13, <4>2
      <4> QED BY <4>1, <4>2
    <3>2. \A j \in DOMAIN control, k \in DOMAIN frames' : OpenFrame(k)'
             => control[j].edge # FrameEdge(k)'
      <4> SUFFICES ASSUME NEW j \in DOMAIN control, NEW k \in DOMAIN frames',
                          OpenFrame(k)'
                   PROVE  control[j].edge # FrameEdge(k)'
        OBVIOUS
      <4>1. CASE k # n + 1
        BY <2>13, <4>1 DEF IInv, Shape, EdgesDistinct
      <4>2. CASE k = n + 1
        BY <2>3, <2>13, <4>2
      <4> QED BY <4>1, <4>2
    <3>3. \A j, k \in DOMAIN control : j # k => control[j].edge # control[k].edge
      BY <2>13 DEF IInv, Shape, EdgesDistinct
    <3> QED BY <2>1, <3>1, <3>2, <3>3
            DEF EdgesDistinct, LiveImplicit, LivePending
  <2>16. FewEntries'
    <3>1. \A b \in AllBlocks : AtMostTwo(succ', b)
      <4>1. \A b \in AllBlocks \ {h, y} : AtMostTwo(succ', b)
        BY <2>3, NotEntered DEF IInv, Shape, FewEntries
      <4>2. AtMostTwo(succ', h) /\ AtMostTwo(succ', y)
        BY <2>3 DEF AtMostOne, AtMostTwo
      <4> QED BY <4>1, <4>2
    <3>2. \A b \in AllBlocks \ Blocks' : EdgesInto(succ', b) = {}
      BY <2>2, <2>3 DEF IInv, Shape, FewEntries
    <3>3. \A k \in DOMAIN frames' :
             NotClosed(k)' => AtMostOne(succ', frames'[k].header_block)
      <4> SUFFICES ASSUME NEW k \in DOMAIN frames', NotClosed(k)'
                   PROVE  AtMostOne(succ', frames'[k].header_block)
        OBVIOUS
      <4>1. CASE k = n + 1
        BY <2>3, <2>5, <2>6, <4>1
      <4>2. CASE k # n + 1
        <5>1. NotClosed(k) /\ Loop(k) /\ k \in DOMAIN frames
          BY <2>1, <2>7, <4>2 DEF NotClosed
        <5>2. frames[k].header_block \in AllBlocks \ {h, y}
          BY <2>2, <5>1 DEF IInv, Shape, BlocksKnown
        <5>3. AtMostOne(succ, frames[k].header_block)
          BY <5>1 DEF IInv, Shape, FewEntries
        <5> QED BY <2>3, <2>6, <5>1, <5>2, <5>3, NotEntered
      <4> QED BY <4>1, <4>2
    <3> QED BY <2>1, <3>1, <3>2, <3>3 DEF FewEntries
  <2> QED BY <2>8, <2>9, <2>10, <2>11, <2>12, <2>14, <2>15, <2>16
          DEF IInv, Shape
<1> QED BY <1>2, <1>3

LEMMA EndWhileStep == ASSUME IInv, EndWhile
                      PROVE  IInv'
<1> DEFINE n == Len(frames)
           m == Len(control)
           t == block_count
           falls == current # NoBlock
           latched == \/ falls
                      \/ \E i \in FunnelStart(Top) .. m :
                            control[i].kind = "continue"
           out == IF latched THEN t + 1 ELSE t
<1>1. "end" \in Kinds /\ NoEdge \in Args
  BY DEF Kinds, Args
<1>2. /\ Token("end", NoEdge) /\ funnel = <<>> /\ frames # <<>>
      /\ Loop(n) /\ n \in DOMAIN frames /\ Top = frames[n]
  BY FramesTyped DEF EndWhile, Ready, Top, Loop
<1>3. CASE ~Room(IF latched THEN 2 ELSE 1)
  <2>1. Reject
    BY <1>3 DEF EndWhile
  <2> QED BY <1>1, <1>2, <2>1, RejectedStep
<1>4. CASE Room(IF latched THEN 2 ELSE 1)
  <2>1. /\ block_count' = out + 1
        /\ succ' = IF falls THEN [succ EXCEPT ![current] = <<NoBlock>>] ELSE succ
        /\ finished' = finished \cup ({current} \ {NoBlock})
        /\ loops' = [Declare({t}, active) EXCEPT ![out] = OuterLoops]
        /\ funnel' = IF latched
                     THEN Funnel("continue",
                                 IF falls THEN <<current, 1>> ELSE NoEdge,
                                 t, out)
                     ELSE Funnel("break", <<Top.header_block, 2>>, out, out)
        /\ current' = NoBlock
        /\ UNCHANGED <<phase, code, layout, control, active, frames>>
    BY <1>4 DEF EndWhile
  <2>2. /\ block_count' \in 1 .. MaxBlocks
        /\ t \in AllBlocks \ Blocks /\ out \in AllBlocks \ Blocks
        /\ Blocks' = Blocks \cup {t, out}
        /\ Blocks \subseteq AllBlocks
        /\ latched => out # t
        /\ ~latched => out = t
    <3>1. t \in Nat
      BY DEF IInv, Typed, TypeOK
    <3>2. CASE latched
      <4>1. block_count' = block_count + 2 /\ Room(2) /\ out = block_count + 1
        BY <1>4, <2>1, <3>1, <3>2
      <4> QED BY <3>2, <4>1, TwoCreated
    <3>3. CASE ~latched
      <4>1. block_count' = block_count + 1 /\ Room(1) /\ out = t
        BY <1>4, <2>1, <3>1, <3>3
      <4> QED BY <3>3, <4>1, OneCreated
    <3> QED BY <3>2, <3>3
  <2>3. /\ succ' \in [AllBlocks -> Row]
        /\ \A b \in AllBlocks : b # current => succ'[b] = succ[b]
        /\ \A b \in AllBlocks : EdgesInto(succ', b) \subseteq EdgesInto(succ, b)
        /\ Waiting(succ) \subseteq Waiting(succ')
        /\ falls => /\ <<current, 1>> \in Waiting(succ') \ Waiting(succ)
                    /\ <<current, 1>> \in Edge
    <3>1. CASE falls
      <4>1. succ' = [succ EXCEPT ![current] = <<NoBlock>>]
        BY <2>1, <3>1
      <4> QED BY <3>1, <4>1, LeftOpen
    <3>2. CASE ~falls
      BY <2>1, <3>2 DEF IInv, Typed, TypeOK, Row
    <3> QED BY <3>1, <3>2
  <2>4. /\ Top.header_block \in Blocks /\ Top.control_start \in Nat
        /\ Top.control_start <= m /\ m \in Nat
        /\ Top.outer_loops \subseteq AllBlocks
        /\ <<Top.header_block, 2>> \in Edge
        /\ <<Top.header_block, 2>> # NoEdge
        /\ Top' = Top
    <3>1. /\ Top.control_start \in Nat /\ Top.outer_loops \subseteq AllBlocks
      BY <1>2, FramesTyped DEF Frame, Loop
    <3>2. Top.header_block \in Blocks /\ Top.control_start <= m
      BY <1>2 DEF IInv, Shape, BlocksKnown, StartsOrdered
    <3>3. m \in Nat
      BY DEF IInv, Typed, TypeOK
    <3>4. <<Top.header_block, 2>> \in Edge
      BY <2>2, <3>2 DEF Edge
    <3>5. Top' = Top
      BY <2>1 DEF Top
    <3> QED BY <3>1, <3>2, <3>3, <3>4, <3>5, NoEdgeAssumption DEF Edge
  <2> DEFINE f == funnel'[1]
  <2>5. /\ funnel' = <<f>> /\ f \in FunnelRecord
        /\ f.index = Top.control_start + 1 /\ f.pending = NoEdge
        /\ f.exit_block = out /\ f.target = t
        /\ latched => /\ f.kind = "continue"
                      /\ f.implicit = IF falls THEN <<current, 1>> ELSE NoEdge
        /\ ~latched => /\ f.kind = "break"
                       /\ f.implicit = <<Top.header_block, 2>>
    <3>1. CASE latched
      <4> DEFINE g == [kind       |-> "continue",
                       index      |-> Top.control_start + 1,
                       implicit   |-> IF falls THEN <<current, 1>> ELSE NoEdge,
                       pending    |-> NoEdge,
                       target     |-> t,
                       exit_block |-> out]
      <4>1. funnel' = <<g>>
        BY <2>1, <3>1 DEF Funnel, FunnelStart
      <4>2. g \in FunnelRecord
        BY <2>2, <2>3, <2>4 DEF FunnelRecord
      <4> QED BY <3>1, <4>1, <4>2
    <3>2. CASE ~latched
      <4> DEFINE g == [kind       |-> "break",
                       index      |-> Top.control_start + 1,
                       implicit   |-> <<Top.header_block, 2>>,
                       pending    |-> NoEdge,
                       target     |-> out,
                       exit_block |-> out]
      <4>1. funnel' = <<g>>
        BY <2>1, <3>2 DEF Funnel, FunnelStart
      <4>2. g \in FunnelRecord
        BY <2>2, <2>4 DEF FunnelRecord
      <4> QED BY <2>2, <3>2, <4>1, <4>2
    <3> QED BY <3>1, <3>2
  <2> HIDE DEF out, f
  <2>6. funnel' # <<>>
    BY <2>5
  <2>7. Typed'
    <3>1. /\ program' \in Seq([kind : Kinds, arg : Args])
          /\ code \in [AllBlocks -> Seq(DOMAIN program')]
      BY <1>1, <1>2, ProgramGrows DEF IInv
    <3>2. /\ layout' \in Seq(Blocks') /\ finished' \subseteq Blocks'
          /\ loops' \in [AllBlocks -> SUBSET AllBlocks]
          /\ active' \subseteq Blocks'
      <4>1. /\ layout \in Seq(Blocks) /\ finished \subseteq Blocks
            /\ active \subseteq Blocks /\ loops \in [AllBlocks -> SUBSET AllBlocks]
            /\ current \in Blocks \cup {NoBlock}
        BY DEF IInv, Typed, TypeOK, Blocks, Shape, BlocksKnown
      <4>2. layout' \in Seq(Blocks')
        BY <2>1, <2>2, <4>1, SeqGrows
      <4>3. Declare({t}, active) \in [AllBlocks -> SUBSET AllBlocks]
        BY <2>2, <4>1 DEF Declare
      <4>4. loops' \in [AllBlocks -> SUBSET AllBlocks]
        BY <2>1, <2>2, <2>4, <4>3 DEF OuterLoops
      <4> QED BY <2>1, <2>2, <4>1, <4>2, <4>4
    <3>3. TypeOK'
      <4>1. Len(funnel') <= 1
        BY <2>5
      <4> QED BY <2>1, <2>2, <2>3, <3>1, <3>2, <4>1
              DEF IInv, Typed, TypeOK, Row, Blocks
    <3> QED BY <2>1, <2>5, <3>1, <3>3 DEF IInv, Typed, Kinds, Args, f
  <2>8. /\ \A k : Loop(k)' <=> Loop(k)
        /\ \A k : Then(k)' <=> Then(k)
    BY <2>1 DEF Loop, Then
  <2>9. BlocksKnown'
    BY <2>1, <2>2, <2>8, NoBlockAssumption DEF IInv, Shape, BlocksKnown
  <2>10. StartsOrdered'
    BY <2>1, <2>8 DEF IInv, Shape, StartsOrdered
  <2>11. FunnelSound'
    <3>1. Loop(Len(frames))'
      BY <1>2, <2>1 DEF Loop
    <3>2. \A k \in DOMAIN frames :
             /\ Loop(k) => frames[k].header_block \notin {t, out}
             /\ Then(k) => frames[k].else_block \notin {t, out}
      BY <2>2 DEF IInv, Shape, BlocksKnown
    <3>3. \E i \in f.index .. Len(Offered(funnel[1])') : Offered(funnel[1])'[i].kind = f.kind
      <4>1. CASE f.implicit # NoEdge
        <5>1. Offered(funnel[1])' = Append(control, [kind |-> f.kind, edge |-> f.implicit])
          BY <2>1, <4>1 DEF Offered, f
        <5>2. /\ Len(Offered(funnel[1])') = m + 1
              /\ Offered(funnel[1])'[m + 1] = [kind |-> f.kind, edge |-> f.implicit]
          BY <2>4, <5>1 DEF IInv, Typed, TypeOK
        <5>3. m + 1 \in f.index .. m + 1
          BY <2>4, <2>5
        <5> QED BY <5>2, <5>3
      <4>2. CASE f.implicit = NoEdge
        <5>1. Offered(funnel[1])' = control
          BY <2>1, <4>2 DEF Offered, f
        <5>2. latched /\ ~falls
          BY <2>3, <2>4, <2>5, <4>2, NoEdgeAssumption DEF Edge
        <5>3. \E i \in FunnelStart(Top) .. m : control[i].kind = "continue"
          BY <5>2
        <5> QED BY <2>5, <5>1, <5>2, <5>3 DEF FunnelStart
      <4> QED BY <4>1, <4>2
    <3>4. /\ f.index > Top'.control_start
          /\ {f.target, f.exit_block} \subseteq Blocks'
          /\ f.kind = "break" =>
                /\ f.target = f.exit_block
                /\ f.implicit = <<Top'.header_block, 2>>
          /\ f.kind = "continue" => f.target # f.exit_block
      BY <2>2, <2>4, <2>5
    <3>5. \A k \in DOMAIN frames' :
             /\ Loop(k)' => frames'[k].header_block
                               \notin {f.target, f.exit_block}
             /\ Then(k)' => frames'[k].else_block
                               \notin {f.target, f.exit_block}
      BY <2>1, <2>5, <2>8, <3>2
    <3> QED BY <2>1, <3>1, <3>3, <3>4, <3>5 DEF FunnelSound, f
  <2>12. Unwritten'
    <3>1. /\ \A b \in AllBlocks \ Blocks : succ[b] = <<>> /\ b # current
      BY Fresh
    <3>2. \A k \in DOMAIN frames : Then(k) =>
             /\ frames[k].else_block \in AllBlocks \ {current}
             /\ succ[frames[k].else_block] = <<>>
      BY <2>2 DEF IInv, Shape, BlocksKnown, Unwritten
    <3> QED BY <2>1, <2>2, <2>3, <2>5, <2>8, <3>1, <3>2 DEF Unwritten, f
  <2>13. /\ \A k \in DOMAIN control :
               LiveControl(k) /\ control[k].edge \in Waiting(succ)
         /\ \A k : OpenFrame(k)' => /\ OpenFrame(k) /\ k \in DOMAIN frames
                                    /\ FrameEdge(k)' = FrameEdge(k)
                                    /\ FrameEdge(k) \in Waiting(succ)
         /\ LiveImplicit' => /\ falls
                             /\ funnel'[1].implicit = <<current, 1>>
         /\ ~LivePending'
    <3>1. \A k \in DOMAIN control : LiveControl(k)
      BY <1>2 DEF LiveControl
    <3>2. \A k : OpenFrame(k)' => /\ OpenFrame(k) /\ k \in DOMAIN frames
                                  /\ FrameEdge(k)' = FrameEdge(k)
      BY <1>2, <2>1, <2>8 DEF OpenFrame, FrameEdge
    <3>3. LiveImplicit' => /\ falls
                           /\ funnel'[1].implicit = <<current, 1>>
      BY <2>5 DEF LiveImplicit, f
    <3>4. ~LivePending'
      BY <2>5 DEF LivePending, f
    <3> QED BY <3>1, <3>2, <3>3, <3>4 DEF IInv, Shape, EdgesWait
  <2>14. EdgesWait'
    BY <2>1, <2>3, <2>13 DEF EdgesWait
  <2>15. EdgesDistinct'
    <3>1. \A j, k \in DOMAIN control : j # k => control[j].edge # control[k].edge
      BY <2>13 DEF IInv, Shape, EdgesDistinct
    <3>2. \A j, k \in DOMAIN frames : OpenFrame(j)' /\ OpenFrame(k)' /\ j # k
             => FrameEdge(j) # FrameEdge(k)
      BY <2>13 DEF IInv, Shape, EdgesDistinct
    <3>3. \A j \in DOMAIN control, k \in DOMAIN frames : OpenFrame(k)'
             => control[j].edge # FrameEdge(k)
      BY <2>13 DEF IInv, Shape, EdgesDistinct
    <3> QED BY SMTT(30), <2>1, <2>3, <2>13, <3>1, <3>2, <3>3 DEF EdgesDistinct
  <2>16. FewEntries'
    <3>1. \A b \in AllBlocks : AtMostTwo(succ', b)
      BY <2>3, NotEntered DEF IInv, Shape, FewEntries
    <3>2. /\ \A b \in AllBlocks \ Blocks' : EdgesInto(succ', b) = {}
          /\ EdgesInto(succ', t) = {} /\ EdgesInto(succ', out) = {}
      BY <2>2, <2>3 DEF IInv, Shape, FewEntries
    <3>3. \A k \in DOMAIN frames' :
             NotClosed(k)' => AtMostOne(succ', frames'[k].header_block)
      <4> SUFFICES ASSUME NEW k \in DOMAIN frames, NotClosed(k)'
                   PROVE  AtMostOne(succ', frames[k].header_block)
        BY <2>1
      <4>1. NotClosed(k) /\ Loop(k)
        BY <1>2, <2>8 DEF NotClosed
      <4>2. frames[k].header_block \in AllBlocks
        BY <2>2, <4>1 DEF IInv, Shape, BlocksKnown
      <4>3. AtMostOne(succ, frames[k].header_block)
        BY <4>1 DEF IInv, Shape, FewEntries
      <4> QED BY <2>3, <4>2, <4>3, NotEntered
    <3> QED BY <2>5, <3>1, <3>2, <3>3 DEF FewEntries, f
  <2> QED BY <2>7, <2>9, <2>10, <2>11, <2>12, <2>14, <2>15, <2>16
          DEF IInv, Shape
<1> QED BY <1>3, <1>4

(* While edges are merged: the innermost statement is the loop, and what   *)
(* the funnel looks at is a break, a continue or its implicit edge.        *)
LEMMA FunnelFacts ==
  ASSUME IInv, funnel # <<>>
  PROVE  LET f == funnel[1]
             n == Len(frames)
             m == Len(control)
         IN  /\ f \in FunnelRecord /\ funnel = <<f>>
             /\ n \in Nat \ {0} /\ n \in DOMAIN frames /\ Loop(n)
             /\ Top = frames[n] /\ current = NoBlock
             /\ control \in Seq([kind : {"break", "continue"}, edge : Edge])
             /\ m \in Nat /\ DOMAIN control = 1 .. m
             /\ Top.control_start \in Nat /\ Top.control_start <= m
             /\ f.index \in Nat /\ f.index > Top.control_start
             /\ Top.header_block \in Blocks
             /\ f.target \in Blocks /\ f.exit_block \in Blocks
             /\ FrameEdge(n) = <<Top.header_block, 2>>
             /\ Blocks \subseteq AllBlocks
<1>1. /\ funnel[1] \in FunnelRecord /\ funnel = <<funnel[1]>>
  BY DEF IInv, Typed
<1>2. Loop(Len(frames)) /\ current = NoBlock
      /\ funnel[1].index > Top.control_start
      /\ funnel[1].target \in Blocks /\ funnel[1].exit_block \in Blocks
  BY DEF IInv, Shape, FunnelSound
<1>3. Len(frames) \in DOMAIN frames /\ Len(frames) \in Nat \ {0}
      /\ Top = frames[Len(frames)]
  BY <1>2, FramesTyped DEF Loop, Top
<1>4. /\ Top.control_start \in Nat
  BY <1>2, <1>3, FramesTyped DEF Frame, Loop
<1>5. Top.header_block \in Blocks /\ Top.control_start <= Len(control)
  BY <1>2, <1>3 DEF IInv, Shape, BlocksKnown, StartsOrdered
<1>6. /\ control \in Seq([kind : {"break", "continue"}, edge : Edge])
      /\ Len(control) \in Nat /\ DOMAIN control = 1 .. Len(control)
  BY DEF IInv, Typed, TypeOK
<1>7. FrameEdge(Len(frames)) = <<Top.header_block, 2>>
  BY <1>2, <1>3 DEF FrameEdge
<1>8. Blocks \subseteq AllBlocks
  BY BoundsAssumption DEF IInv, Typed, TypeOK, Blocks, AllBlocks
<1>9. funnel[1].index \in Nat
  BY <1>1 DEF FunnelRecord
<1> QED BY <1>1, <1>2, <1>3, <1>4, <1>5, <1>6, <1>7, <1>8, <1>9

LEMMA OfferedFacts ==
  ASSUME IInv, funnel # <<>>
  PROVE  LET f == funnel[1]
             m == Len(control)
         IN  /\ f.implicit = NoEdge => Len(Offered(f)) = m
             /\ f.implicit # NoEdge =>
                   /\ Len(Offered(f)) = m + 1
                   /\ Offered(f)[m + 1].kind = f.kind
                   /\ Offered(f)[m + 1].edge = f.implicit
             /\ \A i \in 1 .. m : Offered(f)[i] = control[i]
<1> DEFINE f == funnel[1]
           m == Len(control)
           x == [kind |-> f.kind, edge |-> f.implicit]
<1>1. /\ control \in Seq([kind : {"break", "continue"}, edge : Edge])
      /\ m \in Nat /\ DOMAIN control = 1 .. m
      /\ f \in FunnelRecord
  BY FunnelFacts
<1>2. CASE f.implicit = NoEdge
  BY <1>1, <1>2 DEF Offered
<1>3. CASE f.implicit # NoEdge
  <2>1. /\ x \in [kind : {"break", "continue"}, edge : Edge]
        /\ x.kind = f.kind /\ x.edge = f.implicit
    BY <1>1, <1>3 DEF FunnelRecord
  <2>2. Offered(f) = Append(control, x)
    BY <1>3 DEF Offered
  <2> HIDE DEF x
  <2>3. /\ Len(Offered(f)) = m + 1 /\ Offered(f)[m + 1] = x
        /\ \A i \in 1 .. m : Offered(f)[i] = control[i]
    BY <1>1, <2>1, <2>2, Pushed
  <2> QED BY <1>3, <2>1, <2>3
<1> QED BY <1>2, <1>3

(* The funnel goes on to the next edge; the one it leaves behind was       *)
(* pending, and is remembered nowhere else.                                *)
LEMMA Taken ==
  ASSUME IInv, funnel # <<>>, HasEdge, NEW g,
         funnel' = <<g>>, g.kind = funnel[1].kind,
         g.index = funnel[1].index + 1, g.implicit = funnel[1].implicit,
         UNCHANGED <<control, frames>>
  PROVE  LET f == funnel[1]
             o == Offered(f)[f.index]
         IN  /\ \A k : LiveControl(k)' => LiveControl(k) /\ k \in DOMAIN control
             /\ \A k : OpenFrame(k)' => OpenFrame(k) /\ k \in DOMAIN frames
             /\ \A k \in DOMAIN frames : FrameEdge(k)' = FrameEdge(k)
             /\ LiveImplicit' => LiveImplicit
             /\ o.kind = f.kind =>
                   /\ o.edge \in Waiting(succ) /\ o.edge \in Edge
                   /\ \A k : LiveControl(k)' => control[k].edge # o.edge
                   /\ \A k : OpenFrame(k)' => FrameEdge(k) # o.edge
                   /\ LiveImplicit' => f.implicit # o.edge
                   /\ LivePending => f.pending # o.edge
<1> DEFINE f == funnel[1]
           o == Offered(f)[f.index]
           m == Len(control)
           n == Len(frames)
<1>1. /\ f \in FunnelRecord /\ n \in DOMAIN frames /\ Loop(n)
      /\ m \in Nat /\ DOMAIN control = 1 .. m /\ n \in Nat \ {0}
      /\ f.index \in Nat /\ f.index > Top.control_start
      /\ Top.control_start \in Nat
      /\ FrameEdge(n) = <<Top.header_block, 2>>
  BY FunnelFacts
<1>2. /\ f.implicit = NoEdge => Len(Offered(f)) = m
      /\ f.implicit # NoEdge => /\ Len(Offered(f)) = m + 1
                                /\ Offered(f)[m + 1].kind = f.kind
                                /\ Offered(f)[m + 1].edge = f.implicit
      /\ \A i \in 1 .. m : Offered(f)[i] = control[i]
  BY OfferedFacts
<1>3. \/ f.index \in 1 .. m /\ o = control[f.index]
      \/ /\ f.index = m + 1 /\ f.implicit # NoEdge
         /\ o.kind = f.kind /\ o.edge = f.implicit
  BY SMTT(30), <1>1, <1>2 DEF HasEdge
<1>4. /\ g.kind = f.kind /\ g.index = f.index + 1 /\ g.implicit = f.implicit
      /\ funnel' = <<g>> /\ funnel'[1] = g /\ funnel' # <<>>
  OBVIOUS
<1>5. Top' = Top
  BY DEF Top
<1>6. \A k : LiveControl(k)' => LiveControl(k) /\ k \in DOMAIN control
                                /\ (o.kind = f.kind => k # f.index)
  BY <1>1, <1>3, <1>4, <1>5 DEF LiveControl
<1>7. \A k : OpenFrame(k)' =>
         /\ OpenFrame(k) /\ k \in DOMAIN frames
         /\ f.kind = "break" /\ f.index = m + 1 => k # n
  BY <1>1, <1>4 DEF OpenFrame, Loop
<1>8. \A k \in DOMAIN frames : FrameEdge(k)' = FrameEdge(k)
  BY DEF FrameEdge, Loop
<1>9. LiveImplicit' => LiveImplicit /\ f.index \in 1 .. m
  BY <1>1, <1>4 DEF LiveImplicit
<1>10. ASSUME o.kind = f.kind
       PROVE  /\ o.edge \in Waiting(succ) /\ o.edge \in Edge
              /\ \A k : LiveControl(k)' => control[k].edge # o.edge
              /\ \A k : OpenFrame(k)' => FrameEdge(k) # o.edge
              /\ LiveImplicit' => f.implicit # o.edge
              /\ LivePending => f.pending # o.edge
  <2>1. CASE f.index \in 1 .. m /\ o = control[f.index]
    <3>1. LiveControl(f.index) /\ f.index \in DOMAIN control
      BY <1>1, <1>10, <2>1 DEF LiveControl
    <3>2. o.edge \in Waiting(succ)
      BY <2>1, <3>1 DEF IInv, Shape, EdgesWait
    <3> QED BY <1>6, <1>7, <1>9, <1>10, <2>1, <3>1, <3>2
            DEF IInv, Shape, EdgesDistinct, Waiting
  <2>2. CASE f.index = m + 1 /\ f.kind = "continue" /\ o.edge = f.implicit
             /\ f.implicit # NoEdge
    <3>1. LiveImplicit /\ ~LiveImplicit'
      BY <1>1, <1>9, <2>2 DEF LiveImplicit
    <3>2. o.edge \in Waiting(succ)
      BY <2>2, <3>1 DEF IInv, Shape, EdgesWait
    <3> QED BY <1>6, <1>7, <2>2, <3>1, <3>2
            DEF IInv, Shape, EdgesDistinct, Waiting
  <2>3. CASE f.index = m + 1 /\ f.kind = "break" /\ o.edge = f.implicit
    <3>1. o.edge = FrameEdge(n)
      BY <1>1, <2>3 DEF IInv, Shape, FunnelSound
    <3>2. OpenFrame(n)
      BY <1>1, <2>3 DEF OpenFrame
    <3>3. o.edge \in Waiting(succ)
      BY <1>1, <3>1, <3>2 DEF IInv, Shape, EdgesWait
    <3>4. ~LiveImplicit'
      BY <1>9, <1>1, <2>3
    <3>5. \A k : OpenFrame(k)' => FrameEdge(k) # o.edge
      BY <1>1, <1>7, <2>3, <3>1, <3>2 DEF IInv, Shape, EdgesDistinct
    <3> QED BY <1>1, <1>6, <3>1, <3>2, <3>3, <3>4, <3>5
            DEF IInv, Shape, EdgesDistinct, Waiting
  <2> QED BY <1>1, <1>3, <2>1, <2>2, <2>3 DEF FunnelRecord
<1> QED BY <1>6, <1>7, <1>8, <1>9, <1>10

(* An edge of the other kind is passed by, or the first one waits.         *)
LEMMA PassedStep ==
  ASSUME IInv, funnel # <<>>, HasEdge, NEW g \in FunnelRecord,
         funnel' = <<g>>, g.kind = funnel[1].kind,
         g.index = funnel[1].index + 1, g.implicit = funnel[1].implicit,
         g.target = funnel[1].target, g.exit_block = funnel[1].exit_block,
         LET f == funnel[1]
             o == Offered(f)[f.index]
         IN  \/ o.kind # f.kind /\ g.pending = f.pending
             \/ o.kind = f.kind /\ f.pending = NoEdge /\ g.pending = o.edge,
         UNCHANGED <<program, phase, cfg, current, control, active, frames>>
  PROVE  IInv'
<1> DEFINE f == funnel[1]
           o == Offered(f)[f.index]
           m == Len(control)
<1>1. /\ g.kind = f.kind /\ g.index = f.index + 1 /\ g.implicit = f.implicit
      /\ g.target = f.target /\ g.exit_block = f.exit_block
      /\ funnel' = <<g>> /\ funnel'[1] = g /\ funnel' # <<>>
      /\ \/ o.kind # f.kind /\ g.pending = f.pending
         \/ o.kind = f.kind /\ f.pending = NoEdge /\ g.pending = o.edge
  OBVIOUS
<1>2. /\ UNCHANGED <<program, phase, block_count, succ, code, finished, loops,
                     layout, current, control, active, frames>>
      /\ Top' = Top /\ Blocks' = Blocks
      /\ \A k : Loop(k)' <=> Loop(k)
      /\ \A k : Then(k)' <=> Then(k)
  BY DEF cfg, Top, Blocks, Loop, Then
<1>3. /\ \A k : LiveControl(k)' => LiveControl(k) /\ k \in DOMAIN control
      /\ \A k : OpenFrame(k)' => OpenFrame(k) /\ k \in DOMAIN frames
      /\ \A k \in DOMAIN frames : FrameEdge(k)' = FrameEdge(k)
      /\ LiveImplicit' => LiveImplicit
      /\ o.kind = f.kind =>
            /\ o.edge \in Waiting(succ) /\ o.edge \in Edge
            /\ \A k : LiveControl(k)' => control[k].edge # o.edge
            /\ \A k : OpenFrame(k)' => FrameEdge(k) # o.edge
            /\ LiveImplicit' => f.implicit # o.edge
  BY <1>2, Taken
<1>4. Typed'
  BY <1>1, <1>2 DEF IInv, Typed, TypeOK
<1>5. BlocksKnown' /\ StartsOrdered'
  BY <1>2 DEF IInv, Shape, BlocksKnown, StartsOrdered
<1>6. FunnelSound'
  <2>1. /\ Loop(Len(frames)) /\ current = NoBlock
        /\ f.index > Top.control_start /\ f.index \in Nat
        /\ Top.control_start \in Nat
    BY FunnelFacts
  <2>2. \/ g.pending # NoEdge
        \/ \E i \in g.index .. Len(Offered(g)) : Offered(g)[i].kind = g.kind
    <3>1. CASE o.kind = f.kind
      BY <1>1, <1>3, <3>1, NoEdgeAssumption DEF Edge
    <3>2. CASE o.kind # f.kind /\ f.pending # NoEdge
      BY <1>1, <3>2
    <3>3. CASE o.kind # f.kind /\ f.pending = NoEdge
      <4>1. PICK i \in f.index .. Len(Offered(f)) : Offered(f)[i].kind = f.kind
        BY <3>3 DEF IInv, Shape, FunnelSound
      <4>2. i # f.index
        BY <3>3, <4>1
      <4>3. Offered(g) = Offered(f)
        BY <1>1 DEF Offered
      <4>4. i \in f.index + 1 .. Len(Offered(f))
        BY <2>1, <4>1, <4>2
      <4> QED BY <1>1, <4>1, <4>3, <4>4
    <3> QED BY <3>1, <3>2, <3>3
  <2>3. Offered(funnel[1])' = Offered(g)
    BY <1>1, <1>2 DEF Offered
  <2>4. g.index > Top.control_start
    BY <1>1, <2>1
  <2>5. Loop(Len(frames))'
    BY <1>2, <2>1 DEF Loop
  <2>6. /\ {f.target, f.exit_block} \subseteq Blocks
        /\ f.kind = "break" =>
              /\ f.target = f.exit_block
              /\ f.implicit = <<Top.header_block, 2>>
        /\ f.kind = "continue" => f.target # f.exit_block
        /\ \A k \in DOMAIN frames :
              /\ Loop(k) => frames[k].header_block
                               \notin {f.target, f.exit_block}
              /\ Then(k) => frames[k].else_block
                               \notin {f.target, f.exit_block}
    BY DEF IInv, Shape, FunnelSound
  <2> QED BY <1>1, <1>2, <2>1, <2>2, <2>3, <2>4, <2>5, <2>6 DEF FunnelSound
<1>7. Unwritten'
  BY <1>1, <1>2 DEF IInv, Shape, Unwritten
<1>8. EdgesWait'
  <2>1. LivePending' => g.pending \in Waiting(succ)
    <3>1. CASE o.kind = f.kind
      BY <1>1, <1>3, <3>1
    <3>2. CASE o.kind # f.kind
      BY <1>1, <3>2 DEF IInv, Shape, EdgesWait, LivePending
    <3> QED BY <3>1, <3>2
  <2> QED BY <1>1, <1>2, <1>3, <2>1 DEF IInv, Shape, EdgesWait
<1>9. EdgesDistinct'
  <2>1. LivePending' => /\ \A k : LiveControl(k)' => control[k].edge # g.pending
                        /\ \A k : OpenFrame(k)' => FrameEdge(k) # g.pending
                        /\ LiveImplicit' => f.implicit # g.pending
    <3>1. CASE o.kind = f.kind
      BY <1>1, <1>3, <3>1
    <3>2. CASE o.kind # f.kind
      <4>1. LivePending' => LivePending /\ g.pending = f.pending
        BY <1>1, <3>2 DEF LivePending
      <4> QED BY <1>3, <4>1 DEF IInv, Shape, EdgesDistinct
    <3> QED BY <3>1, <3>2
  <2>2. /\ \A j, k \in DOMAIN control : LiveControl(j)' /\ LiveControl(k)'
              /\ j # k => control[j].edge # control[k].edge
        /\ \A j, k \in DOMAIN frames : OpenFrame(j)' /\ OpenFrame(k)'
              /\ j # k => FrameEdge(j) # FrameEdge(k)
        /\ \A j \in DOMAIN control, k \in DOMAIN frames :
              LiveControl(j)' /\ OpenFrame(k)'
              => control[j].edge # FrameEdge(k)
    BY <1>3 DEF IInv, Shape, EdgesDistinct
  <2>3. LiveImplicit' =>
           /\ \A k \in DOMAIN control :
                 LiveControl(k)' => control[k].edge # f.implicit
           /\ \A k \in DOMAIN frames :
                 OpenFrame(k)' => FrameEdge(k) # f.implicit
    BY <1>3 DEF IInv, Shape, EdgesDistinct
  <2>4. /\ control' = control /\ DOMAIN frames' = DOMAIN frames
        /\ \A k \in DOMAIN frames : FrameEdge(k)' = FrameEdge(k)
        /\ funnel'[1].implicit = f.implicit
        /\ funnel'[1].pending = g.pending
    BY <1>1, <1>2, <1>3
  <2> HIDE DEF f
  <2>5. /\ \A j, k \in DOMAIN control' : LiveControl(j)' /\ LiveControl(k)'
              /\ j # k => control'[j].edge # control'[k].edge
        /\ \A j, k \in DOMAIN frames' : OpenFrame(j)' /\ OpenFrame(k)'
              /\ j # k => FrameEdge(j)' # FrameEdge(k)'
    BY <2>2, <2>4
  <2>6. \A j \in DOMAIN control', k \in DOMAIN frames' :
              LiveControl(j)' /\ OpenFrame(k)'
              => control'[j].edge # FrameEdge(k)'
    BY <2>2, <2>4
  <2>7. LiveImplicit' =>
          /\ \A k \in DOMAIN control' :
                LiveControl(k)' => control'[k].edge # funnel'[1].implicit
          /\ \A k \in DOMAIN frames' :
                OpenFrame(k)' => FrameEdge(k)' # funnel'[1].implicit
    BY <2>3, <2>4
  <2>8. LivePending' =>
          /\ \A k \in DOMAIN control' :
                LiveControl(k)' => control'[k].edge # funnel'[1].pending
          /\ \A k \in DOMAIN frames' :
                OpenFrame(k)' => FrameEdge(k)' # funnel'[1].pending
          /\ LiveImplicit' => funnel'[1].implicit # funnel'[1].pending
    BY <2>1, <2>4
  <2> QED BY <2>5, <2>6, <2>7, <2>8 DEF EdgesDistinct
<1>10. FewEntries'
  <2>1. \A k \in DOMAIN frames : NotClosed(k)' => NotClosed(k)
    BY <1>1, <1>2 DEF NotClosed
  <2> QED BY <1>1, <1>2, <2>1 DEF IInv, Shape, FewEntries
<1> QED BY <1>4, <1>5, <1>6, <1>7, <1>8, <1>9, <1>10 DEF IInv, Shape

(* Two pending edges enter a new block, whose one exit is pending then.    *)
Merged(p, e, t) == [Patch(Patch(succ, p, t), e, t) EXCEPT ![t] = <<NoBlock>>]

LEMMA MergeWritten ==
  ASSUME IInv, NEW p \in Edge, NEW e \in Edge, NEW t \in AllBlocks \ Blocks,
         NEW s3, s3 = Merged(p, e, t)
  PROVE  /\ s3 \in [AllBlocks -> Row]
         /\ \A b \in AllBlocks \ {t} : succ[b] = <<>> => s3[b] = <<>>
         /\ \A b \in AllBlocks \ {t} :
               EdgesInto(s3, b) \subseteq EdgesInto(succ, b)
         /\ AtMostTwo(s3, t)
         /\ Waiting(succ) \ {p, e} \subseteq Waiting(s3) \ {<<t, 1>>}
         /\ <<t, 1>> \in Waiting(s3)
<1> DEFINE s1 == Patch(succ, p, t)
           s2 == Patch(s1, e, t)
<1>1. /\ succ \in [AllBlocks -> Row] /\ t \in AllBlocks
      /\ succ[t] = <<>> /\ EdgesInto(succ, t) = {}
  BY Fresh DEF IInv, Typed, TypeOK, Row
<1>2. /\ s1 \in [AllBlocks -> Row]
      /\ \A b \in AllBlocks : succ[b] = <<>> => s1[b] = <<>>
      /\ \A b \in AllBlocks \ {t} : EdgesInto(s1, b) \subseteq EdgesInto(succ, b)
      /\ EdgesInto(s1, t) \subseteq EdgesInto(succ, t) \cup {p}
      /\ Waiting(succ) \ {p} \subseteq Waiting(s1)
  BY <1>1, Patched
<1> HIDE DEF s1
<1>3. /\ s2 \in [AllBlocks -> Row]
      /\ \A b \in AllBlocks : s1[b] = <<>> => s2[b] = <<>>
      /\ \A b \in AllBlocks \ {t} : EdgesInto(s2, b) \subseteq EdgesInto(s1, b)
      /\ EdgesInto(s2, t) \subseteq EdgesInto(s1, t) \cup {e}
      /\ Waiting(s1) \ {e} \subseteq Waiting(s2)
  BY <1>1, <1>2, Patched
<1>4. s3 = [s2 EXCEPT ![t] = <<NoBlock>>]
  BY DEF Merged, s1
<1> HIDE DEF s2
<1>5. /\ s2 \in [AllBlocks -> Row] /\ t \in AllBlocks /\ s2[t] = <<>>
      /\ s3 \in [AllBlocks -> Row] /\ s3[t] = <<NoBlock>>
      /\ \A b \in AllBlocks : b # t => s3[b] = s2[b]
  <2>1. <<NoBlock>> \in Row
    BY Rows
  <2>2. s2 \in [AllBlocks -> Row] /\ t \in AllBlocks /\ s2[t] = <<>>
    BY <1>1, <1>2, <1>3
  <2> QED BY <1>4, <2>1, <2>2
<1>6. \A b : b # NoBlock => EdgesInto(s3, b) \subseteq EdgesInto(s2, b)
  BY <1>5, WrittenOne
<1>7. Waiting(s2) \subseteq Waiting(s3) \ {<<t, 1>>, <<t, 2>>}
  BY <1>5, WrittenWaiting
<1>8. <<t, 1>> \in Waiting(s3)
  BY <1>5, WaitingNow
<1>9. \A b \in AllBlocks : EdgesInto(s3, b) \subseteq EdgesInto(s2, b)
  BY <1>6, NoBlockAssumption
<1>10. AtMostTwo(s3, t)
  <2>1. EdgesInto(s3, t) \subseteq {p, e}
    BY <1>1, <1>2, <1>3, <1>9
  <2> QED BY <2>1 DEF AtMostTwo
<1> QED BY <1>1, <1>2, <1>3, <1>5, <1>7, <1>8, <1>9, <1>10

LEMMA MergedStep ==
  ASSUME IInv, funnel # <<>>, HasEdge, Room(1), NEW g \in FunnelRecord,
         funnel' = <<g>>, g.kind = funnel[1].kind,
         g.index = funnel[1].index + 1, g.implicit = funnel[1].implicit,
         g.target = funnel[1].target, g.exit_block = funnel[1].exit_block,
         g.pending = <<block_count, 1>>,
         LET f == funnel[1]
             o == Offered(f)[f.index]
             t == block_count
         IN  /\ o.kind = f.kind /\ f.pending # NoEdge
             /\ succ' = Merged(f.pending, o.edge, t)
             /\ finished' = finished \cup {t}
             /\ loops' = Declare({t}, active)
             /\ layout' = Append(layout, t),
         block_count' = block_count + 1,
         UNCHANGED <<program, phase, code, current, control, active, frames>>
  PROVE  IInv'
<1> DEFINE f == funnel[1]
           o == Offered(f)[f.index]
           m == Len(control)
           t == block_count
           p == f.pending
           e == o.edge
<1>1. /\ g.kind = f.kind /\ g.index = f.index + 1 /\ g.implicit = f.implicit
      /\ g.target = f.target /\ g.exit_block = f.exit_block
      /\ g.pending = <<t, 1>>
      /\ funnel' = <<g>> /\ funnel'[1] = g /\ funnel' # <<>>
      /\ o.kind = f.kind /\ p # NoEdge
  OBVIOUS
<1>2. /\ Top' = Top
      /\ \A k : Loop(k)' <=> Loop(k)
      /\ \A k : Then(k)' <=> Then(k)
  BY DEF Top, Loop, Then
<1>3. /\ \A k : LiveControl(k)' => LiveControl(k) /\ k \in DOMAIN control
      /\ \A k : OpenFrame(k)' => OpenFrame(k) /\ k \in DOMAIN frames
      /\ \A k \in DOMAIN frames : FrameEdge(k)' = FrameEdge(k)
      /\ LiveImplicit' => LiveImplicit
      /\ e \in Waiting(succ) /\ e \in Edge
      /\ \A k : LiveControl(k)' => control[k].edge # e
      /\ \A k : OpenFrame(k)' => FrameEdge(k) # e
      /\ LiveImplicit' => f.implicit # e
  BY <1>1, Taken
<1>4. p \in Edge /\ LivePending
  BY <1>1, FunnelFacts DEF FunnelRecord, LivePending
<1>5. /\ \A k : LiveControl(k)' => control[k].edge \in Waiting(succ) \ {p, e}
      /\ \A k : OpenFrame(k)' => FrameEdge(k) \in Waiting(succ) \ {p, e}
      /\ LiveImplicit' => f.implicit \in Waiting(succ) \ {p, e}
  BY <1>3, <1>4 DEF IInv, Shape, EdgesWait, EdgesDistinct
<1>6. /\ block_count' \in 1 .. MaxBlocks /\ t \in AllBlocks \ Blocks
      /\ Blocks' = Blocks \cup {t} /\ Blocks \subseteq AllBlocks
  BY OneCreated
<1>7. /\ succ' \in [AllBlocks -> Row]
      /\ \A b \in AllBlocks \ {t} : succ[b] = <<>> => succ'[b] = <<>>
      /\ \A b \in AllBlocks \ {t} :
            EdgesInto(succ', b) \subseteq EdgesInto(succ, b)
      /\ AtMostTwo(succ', t)
      /\ Waiting(succ) \ {p, e} \subseteq Waiting(succ') \ {<<t, 1>>}
      /\ <<t, 1>> \in Waiting(succ')
  <2>1. succ' = Merged(p, e, t)
    OBVIOUS
  <2> HIDE DEF p, e, t
  <2> QED BY <1>3, <1>4, <1>6, <2>1, MergeWritten
<1>8. current = NoBlock /\ f.target \in Blocks /\ f.exit_block \in Blocks
  BY FunnelFacts
<1>9. Typed'
  <2>1. /\ layout' \in Seq(Blocks') /\ finished' \subseteq Blocks'
        /\ loops' \in [AllBlocks -> SUBSET AllBlocks]
        /\ active \subseteq Blocks'
    <3>1. /\ layout \in Seq(Blocks) /\ finished \subseteq Blocks
          /\ active \subseteq Blocks /\ loops \in [AllBlocks -> SUBSET AllBlocks]
      BY DEF IInv, Typed, TypeOK, Blocks
    <3>2. layout \in Seq(Blocks') /\ t \in Blocks'
      BY <1>6, <3>1, SeqGrows
    <3>3. layout' \in Seq(Blocks')
      BY <3>2, Pushed
    <3>4. loops' \in [AllBlocks -> SUBSET AllBlocks]
      BY <1>6, <3>1 DEF Declare
    <3> QED BY <1>6, <3>1, <3>3, <3>4
  <2>2. TypeOK'
    BY <1>1, <1>6, <1>7, <2>1 DEF IInv, Typed, TypeOK, Row, Blocks
  <2> QED BY <1>1, <2>2 DEF IInv, Typed
<1>10. BlocksKnown'
  BY <1>2, <1>6 DEF IInv, Shape, BlocksKnown
<1>11. StartsOrdered'
  BY <1>2 DEF IInv, Shape, StartsOrdered
<1>12. FunnelSound'
  <2>1. /\ Loop(Len(frames)) /\ f.index > Top.control_start /\ f.index \in Nat
        /\ Top.control_start \in Nat
    BY FunnelFacts
  <2>2. g.index > Top.control_start
    BY <1>1, <2>1
  <2>3. Loop(Len(frames))'
    BY <1>2, <2>1 DEF Loop
  <2>4. g.pending # NoEdge
    BY <1>1, <1>6, NoEdgeAssumption
  <2>5. /\ {f.target, f.exit_block} \subseteq Blocks
        /\ f.kind = "break" =>
              /\ f.target = f.exit_block
              /\ f.implicit = <<Top.header_block, 2>>
        /\ f.kind = "continue" => f.target # f.exit_block
        /\ \A k \in DOMAIN frames :
              /\ Loop(k) => frames[k].header_block
                               \notin {f.target, f.exit_block}
              /\ Then(k) => frames[k].else_block
                               \notin {f.target, f.exit_block}
    BY DEF IInv, Shape, FunnelSound
  <2> QED BY <1>1, <1>2, <1>6, <1>8, <2>2, <2>3, <2>4, <2>5 DEF FunnelSound
<1>13. Unwritten'
  <2>1. \A k \in DOMAIN frames : Then(k) =>
           /\ frames[k].else_block \in Blocks
           /\ succ[frames[k].else_block] = <<>>
    BY DEF IInv, Shape, BlocksKnown, Unwritten
  <2>2. succ[f.target] = <<>> /\ succ[f.exit_block] = <<>>
    BY DEF IInv, Shape, Unwritten
  <2>3. \A b \in AllBlocks \ Blocks : succ[b] = <<>>
    BY DEF IInv, Shape, Unwritten
  <2> QED BY <1>1, <1>2, <1>6, <1>7, <1>8, <2>1, <2>2, <2>3 DEF Unwritten
<1>14. EdgesWait'
  <2>1. LivePending' => g.pending \in Waiting(succ')
    BY <1>1, <1>7
  <2>2. /\ control' = control /\ DOMAIN frames' = DOMAIN frames
        /\ \A k \in DOMAIN frames : FrameEdge(k)' = FrameEdge(k)
        /\ funnel'[1].implicit = f.implicit
        /\ funnel'[1].pending = g.pending
    BY <1>1, <1>3
  <2>3. /\ \A k : LiveControl(k)' => control[k].edge \in Waiting(succ')
        /\ \A k : OpenFrame(k)' => FrameEdge(k) \in Waiting(succ')
        /\ LiveImplicit' => f.implicit \in Waiting(succ')
    BY <1>5, <1>7
  <2> HIDE DEF f
  <2> QED BY <2>1, <2>2, <2>3 DEF EdgesWait
<1>15. EdgesDistinct'
  <2>1. /\ \A k : LiveControl(k)' => control[k].edge # g.pending
        /\ \A k : OpenFrame(k)' => FrameEdge(k) # g.pending
        /\ LiveImplicit' => f.implicit # g.pending
    BY <1>1, <1>5, <1>7
  <2>2. /\ \A j, k \in DOMAIN control : LiveControl(j)' /\ LiveControl(k)'
              /\ j # k => control[j].edge # control[k].edge
        /\ \A j, k \in DOMAIN frames : OpenFrame(j)' /\ OpenFrame(k)'
              /\ j # k => FrameEdge(j) # FrameEdge(k)
        /\ \A j \in DOMAIN control, k \in DOMAIN frames :
              LiveControl(j)' /\ OpenFrame(k)'
              => control[j].edge # FrameEdge(k)
    BY <1>3 DEF IInv, Shape, EdgesDistinct
  <2>3. LiveImplicit' =>
           /\ \A k : LiveControl(k)' => control[k].edge # f.implicit
           /\ \A k : OpenFrame(k)' => FrameEdge(k) # f.implicit
    BY <1>3 DEF IInv, Shape, EdgesDistinct
  <2>4. /\ control' = control /\ DOMAIN frames' = DOMAIN frames
        /\ \A k \in DOMAIN frames : FrameEdge(k)' = FrameEdge(k)
        /\ funnel'[1].implicit = f.implicit
        /\ funnel'[1].pending = g.pending
        /\ \A k : OpenFrame(k)' => k \in DOMAIN frames
    BY <1>1, <1>3
  <2> HIDE DEF f
  <2>5. /\ \A j, k \in DOMAIN control' : LiveControl(j)' /\ LiveControl(k)'
              /\ j # k => control'[j].edge # control'[k].edge
        /\ \A j \in DOMAIN control', k \in DOMAIN frames' :
              LiveControl(j)' /\ OpenFrame(k)'
              => control'[j].edge # FrameEdge(k)'
    BY <2>2, <2>4
  <2>6. \A j, k \in DOMAIN frames' : OpenFrame(j)' /\ OpenFrame(k)'
              /\ j # k => FrameEdge(j)' # FrameEdge(k)'
    BY <2>2, <2>4
  <2>7. LiveImplicit' =>
          /\ \A k \in DOMAIN control' :
                LiveControl(k)' => control'[k].edge # funnel'[1].implicit
          /\ \A k \in DOMAIN frames' :
                OpenFrame(k)' => FrameEdge(k)' # funnel'[1].implicit
    BY <2>3, <2>4
  <2>8. /\ \A k \in DOMAIN control' :
              LiveControl(k)' => control'[k].edge # funnel'[1].pending
        /\ \A k \in DOMAIN frames' :
              OpenFrame(k)' => FrameEdge(k)' # funnel'[1].pending
        /\ LiveImplicit' => funnel'[1].implicit # funnel'[1].pending
    BY <2>1, <2>4
  <2> QED BY <2>5, <2>6, <2>7, <2>8 DEF EdgesDistinct
<1>16. FewEntries'
  <2>1. \A b \in AllBlocks : AtMostTwo(succ', b)
    <3>1. \A b \in AllBlocks \ {t} : AtMostTwo(succ', b)
      BY <1>7, NotEntered DEF IInv, Shape, FewEntries
    <3> QED BY <1>7, <3>1
  <2>2. \A b \in AllBlocks \ Blocks' : EdgesInto(succ', b) = {}
    BY <1>6, <1>7 DEF IInv, Shape, FewEntries
  <2>3. EdgesInto(succ', f.target) = {} /\ EdgesInto(succ', f.exit_block) = {}
    BY <1>6, <1>7, <1>8 DEF IInv, Shape, FewEntries
  <2>4. \A k \in DOMAIN frames' :
           NotClosed(k)' => AtMostOne(succ', frames'[k].header_block)
    <3> SUFFICES ASSUME NEW k \in DOMAIN frames, NotClosed(k)'
                 PROVE  AtMostOne(succ', frames[k].header_block)
      OBVIOUS
    <3>1. NotClosed(k) /\ Loop(k)
      BY <1>1, <1>2 DEF NotClosed
    <3>2. frames[k].header_block \in AllBlocks \ {t}
      BY <1>6, <3>1 DEF IInv, Shape, BlocksKnown
    <3>3. AtMostOne(succ, frames[k].header_block)
      BY <3>1 DEF IInv, Shape, FewEntries
    <3>4. EdgesInto(succ', frames[k].header_block)
             \subseteq EdgesInto(succ, frames[k].header_block)
      BY <1>7, <3>2
    <3> QED BY <3>3, <3>4, NotEntered
  <2> QED BY <1>1, <2>1, <2>2, <2>3, <2>4 DEF FewEntries
<1> QED BY <1>9, <1>10, <1>11, <1>12, <1>13, <1>14, <1>15, <1>16
        DEF IInv, Shape

LEMMA Pended ==
  ASSUME NEW f \in FunnelRecord, NEW e \in Edge
  PROVE  LET g == [f EXCEPT !.index = @ + 1, !.pending = e]
         IN  /\ g \in FunnelRecord /\ g.kind = f.kind /\ g.index = f.index + 1
             /\ g.implicit = f.implicit /\ g.pending = e
             /\ g.target = f.target /\ g.exit_block = f.exit_block
<1> DEFINE h == [f EXCEPT !.index = @ + 1]
           g == [h EXCEPT !.pending = e]
<1>1. /\ h \in FunnelRecord /\ h.kind = f.kind /\ h.index = f.index + 1
      /\ h.implicit = f.implicit
      /\ h.target = f.target /\ h.exit_block = f.exit_block
  BY DEF FunnelRecord
<1> HIDE DEF h
<1>2. /\ g \in FunnelRecord /\ g.kind = h.kind /\ g.index = h.index
      /\ g.implicit = h.implicit /\ g.pending = e
      /\ g.target = h.target /\ g.exit_block = h.exit_block
  BY <1>1 DEF FunnelRecord
<1>3. g = [f EXCEPT !.index = @ + 1, !.pending = e]
  BY DEF h
<1> QED BY <1>1, <1>2, <1>3

LEMMA FunnelEdgeStep == ASSUME IInv, FunnelEdge
                        PROVE  IInv'
<1> DEFINE f == funnel[1]
           o == Offered(f)[f.index]
           t == block_count
<1>1. /\ funnel # <<>> /\ HasEdge /\ phase = "lowering"
      /\ UNCHANGED <<program, code, current, control, active, frames>>
  BY DEF FunnelEdge
<1>2. f \in FunnelRecord /\ f.index \in Nat
  BY <1>1, FunnelFacts
<1>3. CASE o.kind # f.kind
  <2> DEFINE g == [f EXCEPT !.index = @ + 1]
  <2>1. /\ funnel' = <<g>>
        /\ UNCHANGED <<phase, block_count, succ, finished, loops, layout>>
    BY <1>3 DEF FunnelEdge, Skipped
  <2>2. /\ g \in FunnelRecord /\ g.kind = f.kind /\ g.index = f.index + 1
        /\ g.implicit = f.implicit /\ g.pending = f.pending
        /\ g.target = f.target /\ g.exit_block = f.exit_block
    BY <1>2 DEF FunnelRecord
  <2> HIDE DEF g
  <2> QED BY <1>1, <1>3, <2>1, <2>2, PassedStep DEF cfg
<1>4. CASE o.kind = f.kind /\ f.pending = NoEdge
  <2> DEFINE g == [f EXCEPT !.index = @ + 1, !.pending = o.edge]
  <2>1. /\ funnel' = <<g>>
        /\ UNCHANGED <<phase, block_count, succ, finished, loops, layout>>
    BY <1>4 DEF FunnelEdge
  <2>2. o.edge \in Edge
    <3>1. /\ f.implicit = NoEdge => Len(Offered(f)) = Len(control)
          /\ f.implicit # NoEdge => /\ Len(Offered(f)) = Len(control) + 1
                                    /\ Offered(f)[Len(control) + 1].edge = f.implicit
          /\ \A i \in 1 .. Len(control) : Offered(f)[i] = control[i]
      BY <1>1, OfferedFacts
    <3>2. /\ control \in Seq([kind : {"break", "continue"}, edge : Edge])
          /\ Len(control) \in Nat
          /\ f.index > Top.control_start /\ Top.control_start \in Nat
      BY <1>1, FunnelFacts
    <3>3. f.index \in 1 .. Len(control) \/ f.index = Len(control) + 1
      BY <1>1, <1>2, <3>1, <3>2 DEF HasEdge
    <3>4. CASE f.index \in 1 .. Len(control)
      <4>1. control[f.index] \in [kind : {"break", "continue"}, edge : Edge]
        BY <3>2, <3>4, Element
      <4> QED BY <3>1, <3>4, <4>1
    <3>5. CASE f.index = Len(control) + 1
      <4>1. f.implicit # NoEdge
        BY <1>1, <3>1, <3>2, <3>5 DEF HasEdge
      <4> QED BY <1>2, <3>1, <3>5, <4>1 DEF FunnelRecord
    <3> QED BY <3>3, <3>4, <3>5
  <2>3. /\ g \in FunnelRecord /\ g.kind = f.kind /\ g.index = f.index + 1
        /\ g.implicit = f.implicit /\ g.pending = o.edge
        /\ g.target = f.target /\ g.exit_block = f.exit_block
    BY <1>2, <2>2, Pended
  <2> HIDE DEF g
  <2> QED BY <1>1, <1>4, <2>1, <2>3, PassedStep DEF cfg
<1>5. CASE o.kind = f.kind /\ f.pending # NoEdge /\ ~Room(1)
  <2>1. /\ phase' = "rejected"
        /\ UNCHANGED <<block_count, succ, finished, loops, layout, funnel>>
    BY <1>5 DEF FunnelEdge
  <2>2. Typed'
    BY <1>1, <2>1 DEF IInv, Typed, TypeOK
  <2>3. Shape'
    BY <1>1, <2>1, ShapeKept DEF IInv
  <2> QED BY <2>2, <2>3 DEF IInv
<1>6. CASE o.kind = f.kind /\ f.pending # NoEdge /\ Room(1)
  <2> DEFINE g == [f EXCEPT !.index = @ + 1, !.pending = <<t, 1>>]
  <2>1. /\ block_count' = block_count + 1
        /\ succ' = Merged(f.pending, o.edge, t)
        /\ finished' = finished \cup {t}
        /\ loops' = Declare({t}, active)
        /\ layout' = Append(layout, t)
        /\ funnel' = <<g>>
        /\ UNCHANGED phase
    BY <1>6 DEF FunnelEdge, Merged
  <2>2. <<t, 1>> \in Edge
    BY <1>6, <2>1, OneCreated DEF Edge
  <2>3. /\ g \in FunnelRecord /\ g.kind = f.kind /\ g.index = f.index + 1
        /\ g.implicit = f.implicit /\ g.pending = <<t, 1>>
        /\ g.target = f.target /\ g.exit_block = f.exit_block
    BY <1>2, <2>2, Pended
  <2> HIDE DEF g
  <2> QED BY <1>1, <1>6, <2>1, <2>3, MergedStep
<1> QED BY <1>3, <1>4, <1>5, <1>6

(* A waiting edge is led to a block without predecessors.                  *)
LEMMA Closed ==
  ASSUME IInv, funnel # <<>>, ~HasEdge
  PROVE  LET f == funnel[1]
         IN  /\ f.pending \in Waiting(succ) /\ f.pending \in Edge
             /\ \A k : LiveControl(k) =>
                   control[k].edge \in Waiting(succ) \ {f.pending}
             /\ \A k : OpenFrame(k) =>
                   FrameEdge(k) \in Waiting(succ) \ {f.pending}
             /\ f.kind = "break" => f.index > Len(control) + 1
<1> DEFINE f == funnel[1]
<1>1. f \in FunnelRecord /\ f.index \in Nat
      /\ Len(control) \in Nat /\ f.index > Top.control_start
      /\ Top.control_start \in Nat
  BY FunnelFacts
<1>2. Len(Offered(f)) \in Nat
      /\ f.implicit # NoEdge => Len(Offered(f)) = Len(control) + 1
  BY <1>1, OfferedFacts
<1>3. f.index > Len(Offered(f))
  BY <1>1, <1>2 DEF HasEdge
<1>4. f.pending # NoEdge
  BY <1>1, <1>2, <1>3 DEF IInv, Shape, FunnelSound
<1>5. LivePending
  BY <1>4 DEF LivePending
<1>6. f.kind = "break" => f.index > Len(control) + 1
  <2>1. ASSUME f.kind = "break"
        PROVE  f.implicit # NoEdge
    <3>1. f.implicit = <<Top.header_block, 2>> /\ Top.header_block \in AllBlocks
      BY <2>1, FunnelFacts DEF IInv, Shape, FunnelSound
    <3> QED BY <3>1, NoEdgeAssumption
  <2> QED BY <1>2, <1>3, <2>1
<1>7. f.pending \in Edge
  BY <1>1, <1>4 DEF FunnelRecord
<1>8. f.pending \in Waiting(succ)
  BY <1>5 DEF IInv, Shape, EdgesWait
<1>9. /\ \A k : LiveControl(k) => /\ k \in DOMAIN control
                                  /\ control[k].edge \in Waiting(succ)
                                  /\ control[k].edge # f.pending
      /\ \A k : OpenFrame(k) => /\ k \in DOMAIN frames
                                /\ FrameEdge(k) \in Waiting(succ)
                                /\ FrameEdge(k) # f.pending
  <2>1. /\ \A k : LiveControl(k) => k \in DOMAIN control
        /\ \A k : OpenFrame(k) => k \in DOMAIN frames
    BY DEF LiveControl, OpenFrame
  <2> QED BY <1>5, <2>1 DEF IInv, Shape, EdgesWait, EdgesDistinct
<1> QED BY <1>6, <1>7, <1>8, <1>9

(* The latch of a loop: the waiting edge enters it, and it jumps back.     *)
Latched(p, t, h) == [Patch(succ, p, t) EXCEPT ![t] = <<h>>]

LEMMA LatchWritten ==
  ASSUME IInv, NEW p \in Edge, NEW t \in AllBlocks, NEW h \in AllBlocks, t # h,
         succ[t] = <<>>, EdgesInto(succ, t) = {}, AtMostOne(succ, h),
         NEW s2, s2 = Latched(p, t, h)
  PROVE  /\ s2 \in [AllBlocks -> Row]
         /\ \A b \in AllBlocks \ {t} : succ[b] = <<>> => s2[b] = <<>>
         /\ \A b \in AllBlocks \ {t, h} :
               EdgesInto(s2, b) \subseteq EdgesInto(succ, b)
         /\ AtMostTwo(s2, t) /\ AtMostTwo(s2, h)
         /\ Waiting(succ) \ {p} \subseteq Waiting(s2)
<1> DEFINE s1 == Patch(succ, p, t)
<1>1. succ \in [AllBlocks -> Row]
  BY DEF IInv, Typed, TypeOK, Row
<1>2. /\ s1 \in [AllBlocks -> Row]
      /\ \A b \in AllBlocks : succ[b] = <<>> => s1[b] = <<>>
      /\ \A b \in AllBlocks \ {t} : EdgesInto(s1, b) \subseteq EdgesInto(succ, b)
      /\ EdgesInto(s1, t) \subseteq EdgesInto(succ, t) \cup {p}
      /\ Waiting(succ) \ {p} \subseteq Waiting(s1)
  BY <1>1, Patched
<1>3. s2 = [s1 EXCEPT ![t] = <<h>>]
  BY DEF Latched
<1> HIDE DEF s1
<1>4. /\ s1 \in [AllBlocks -> Row] /\ t \in AllBlocks /\ s1[t] = <<>>
      /\ s2 \in [AllBlocks -> Row] /\ s2[t] = <<h>>
      /\ \A b \in AllBlocks : b # t => s2[b] = s1[b]
  <2>1. <<h>> \in Row
    BY Rows
  <2>2. s1 \in [AllBlocks -> Row] /\ s1[t] = <<>>
    BY <1>2
  <2> QED BY <1>3, <2>1, <2>2
<1>5. \A b : b # h => EdgesInto(s2, b) \subseteq EdgesInto(s1, b)
  BY <1>4, WrittenOne
<1>6. EdgesInto(s2, h) \subseteq EdgesInto(s1, h) \cup {<<t, 1>>}
  BY <1>4, WrittenOne
<1>7. Waiting(s1) \subseteq Waiting(s2) \ {<<t, 1>>, <<t, 2>>}
  BY <1>4, WrittenWaiting
<1>8. AtMostTwo(s2, t)
  <2>1. EdgesInto(s2, t) \subseteq {p}
    BY <1>2, <1>5
  <2> QED BY <2>1 DEF AtMostTwo
<1>9. AtMostTwo(s2, h)
  <2>1. EdgesInto(s2, h) \subseteq EdgesInto(succ, h) \cup {<<t, 1>>}
    BY <1>2, <1>6
  <2>2. <<t, 1>> \in Edge
    BY DEF Edge
  <2> QED BY <2>1, <2>2, Entered
<1> QED BY <1>2, <1>4, <1>5, <1>7, <1>8, <1>9

LEMMA CloseContinueFunnelStep == ASSUME IInv, CloseContinueFunnel
                                 PROVE  IInv'
<1> DEFINE f == funnel[1]
           n == Len(frames)
           m == Len(control)
           t == f.target
           x == f.exit_block
           h == Top.header_block
           g == funnel'[1]
<1>1. /\ funnel # <<>> /\ ~HasEdge /\ f.kind = "continue"
      /\ succ' = Latched(f.pending, t, h)
      /\ finished' = finished \cup {t}
      /\ layout' = Append(layout, t)
      /\ funnel' = Funnel("break", <<h, 2>>, x, x)
      /\ UNCHANGED <<program, phase, block_count, code, loops, current,
                     control, active, frames>>
  BY DEF CloseContinueFunnel, Latched, LatchSuccessors
<1>2. /\ n \in Nat \ {0} /\ n \in DOMAIN frames /\ Loop(n)
      /\ Top = frames[n] /\ current = NoBlock
      /\ m \in Nat /\ DOMAIN control = 1 .. m
      /\ Top.control_start \in Nat /\ Top.control_start <= m
      /\ h \in Blocks /\ t \in Blocks /\ x \in Blocks
      /\ Blocks \subseteq AllBlocks
      /\ FrameEdge(n) = <<h, 2>>
  BY <1>1, FunnelFacts
<1>3. /\ f.pending \in Edge
      /\ \A k : LiveControl(k) =>
            control[k].edge \in Waiting(succ) \ {f.pending}
      /\ \A k : OpenFrame(k) =>
            FrameEdge(k) \in Waiting(succ) \ {f.pending}
  BY <1>1, Closed
<1>4. /\ t # x /\ h \notin {t, x}
      /\ \A k \in DOMAIN frames :
            /\ Loop(k) => frames[k].header_block \notin {t, x}
            /\ Then(k) => frames[k].else_block \notin {t, x}
  BY <1>1, <1>2 DEF IInv, Shape, FunnelSound
<1>5. /\ succ[t] = <<>> /\ succ[x] = <<>>
      /\ EdgesInto(succ, t) = {} /\ EdgesInto(succ, x) = {}
  BY <1>1 DEF IInv, Shape, Unwritten, FewEntries
<1>6. AtMostOne(succ, h)
  BY <1>1, <1>2 DEF IInv, Shape, FewEntries, NotClosed
<1>7. /\ succ' \in [AllBlocks -> Row]
      /\ \A b \in AllBlocks \ {t} : succ[b] = <<>> => succ'[b] = <<>>
      /\ \A b \in AllBlocks \ {t, h} :
            EdgesInto(succ', b) \subseteq EdgesInto(succ, b)
      /\ AtMostTwo(succ', t) /\ AtMostTwo(succ', h)
      /\ Waiting(succ) \ {f.pending} \subseteq Waiting(succ')
  <2>1. t \in AllBlocks /\ h \in AllBlocks /\ t # h
        /\ succ' = Latched(f.pending, t, h)
    BY <1>1, <1>2, <1>4
  <2> HIDE DEF f, t, h
  <2> QED BY <1>3, <1>5, <1>6, <2>1, LatchWritten
<1>8. /\ Top' = Top /\ Blocks' = Blocks
      /\ \A k : Loop(k)' <=> Loop(k)
      /\ \A k : Then(k)' <=> Then(k)
  BY <1>1 DEF Top, Blocks, Loop, Then
<1>9. <<h, 2>> \in Edge /\ <<h, 2>> # NoEdge
  <2>1. <<h, 2>> \in Edge
    BY <1>2 DEF Edge
  <2> QED BY <2>1, NoEdgeAssumption DEF Edge
<1>10. /\ funnel' = <<g>> /\ g \in FunnelRecord
       /\ g.kind = "break" /\ g.index = Top.control_start + 1
       /\ g.implicit = <<h, 2>> /\ g.pending = NoEdge
       /\ g.target = x /\ g.exit_block = x
  <2> DEFINE r == [kind       |-> "break",
                   index      |-> Top.control_start + 1,
                   implicit   |-> <<h, 2>>,
                   pending    |-> NoEdge,
                   target     |-> x,
                   exit_block |-> x]
  <2>1. funnel' = <<r>>
    BY <1>1 DEF Funnel, FunnelStart
  <2>2. r \in FunnelRecord
    BY <1>2, <1>9 DEF FunnelRecord
  <2> QED BY <2>1, <2>2
<1> HIDE DEF f, t, x, h, g
<1>11. funnel' # <<>>
  BY <1>10
<1>12. Typed'
  <2>1. layout' \in Seq(Blocks) /\ finished' \subseteq Blocks
    BY <1>1, <1>2, Pushed DEF IInv, Typed, TypeOK, Blocks
  <2>2. Len(funnel') <= 1
    BY <1>10
  <2>3. TypeOK'
    BY <1>1, <1>7, <1>8, <2>1, <2>2 DEF IInv, Typed, TypeOK, Row, Blocks
  <2> QED BY <1>1, <1>10, <2>3 DEF IInv, Typed, g
<1>13. BlocksKnown' /\ StartsOrdered'
  BY <1>1, <1>8 DEF IInv, Shape, BlocksKnown, StartsOrdered
<1>14. FunnelSound'
  <2>1. Loop(Len(frames))'
    BY <1>1, <1>2 DEF Loop
  <2>2. \E i \in g.index .. Len(Offered(funnel[1])') :
           Offered(funnel[1])'[i].kind = g.kind
    <3>1. Offered(funnel[1])'
             = Append(control, [kind |-> g.kind, edge |-> g.implicit])
      BY <1>1, <1>9, <1>10 DEF Offered, g
    <3>2. /\ Len(Offered(funnel[1])') = m + 1
          /\ Offered(funnel[1])'[m + 1]
                = [kind |-> g.kind, edge |-> g.implicit]
      BY <1>2, <3>1 DEF IInv, Typed, TypeOK
    <3>3. m + 1 \in g.index .. m + 1
      BY <1>2, <1>10
    <3> QED BY <3>2, <3>3
  <2>3. g.index > Top.control_start
    BY <1>2, <1>10
  <2>4. {g.target, g.exit_block} \subseteq Blocks
    BY <1>2, <1>10
  <2>5. \A k \in DOMAIN frames :
           /\ Loop(k) => frames[k].header_block \notin {g.target, g.exit_block}
           /\ Then(k) => frames[k].else_block \notin {g.target, g.exit_block}
    BY <1>4, <1>10
  <2> QED BY <1>1, <1>2, <1>8, <1>10, <2>1, <2>2, <2>3, <2>4, <2>5
          DEF FunnelSound, g, h
<1>15. Unwritten'
  <2>1. \A k \in DOMAIN frames : Then(k) =>
           /\ frames[k].else_block \in Blocks
           /\ succ[frames[k].else_block] = <<>>
    BY DEF IInv, Shape, BlocksKnown, Unwritten
  <2>2. \A b \in AllBlocks \ Blocks : succ[b] = <<>>
    BY DEF IInv, Shape, Unwritten
  <2>3. succ'[x] = <<>>
    BY <1>2, <1>4, <1>5, <1>7
  <2>4. \A k : Then(k)' => succ'[frames'[k].else_block] = <<>>
    <3>1. \A k : Then(k) => k \in DOMAIN frames
      BY DEF Then
    <3> QED BY <1>1, <1>2, <1>4, <1>7, <1>8, <2>1, <3>1
  <2>5. \A b \in AllBlocks \ Blocks : succ'[b] = <<>>
    BY <1>2, <1>7, <2>2
  <2> QED BY <1>1, <1>2, <1>8, <1>10, <2>3, <2>4, <2>5 DEF Unwritten, g
<1>16. /\ \A k : LiveControl(k)' => LiveControl(k) /\ k \in DOMAIN control
       /\ \A k : OpenFrame(k)' => OpenFrame(k) /\ k \in DOMAIN frames
       /\ \A k \in DOMAIN frames : FrameEdge(k)' = FrameEdge(k)
       /\ ~LiveImplicit' /\ ~LivePending'
  <2>1. \A k : LiveControl(k)' => LiveControl(k) /\ k \in DOMAIN control
    BY <1>1, <1>8, <1>10 DEF LiveControl, f, g
  <2>2. \A k : OpenFrame(k)' => OpenFrame(k) /\ k \in DOMAIN frames
    BY <1>1, <1>8 DEF OpenFrame, f
  <2>3. \A k \in DOMAIN frames : FrameEdge(k)' = FrameEdge(k)
    BY <1>1, <1>8 DEF FrameEdge
  <2>4. ~LiveImplicit' /\ ~LivePending'
    BY <1>10 DEF LiveImplicit, LivePending, g
  <2> QED BY <2>1, <2>2, <2>3, <2>4
<1>17. EdgesWait'
  BY <1>1, <1>3, <1>7, <1>16 DEF EdgesWait
<1>18. EdgesDistinct'
  BY <1>1, <1>16 DEF IInv, Shape, EdgesDistinct
<1>19. FewEntries'
  <2>1. \A b \in AllBlocks : AtMostTwo(succ', b)
    <3>1. \A b \in AllBlocks \ {t, h} : AtMostTwo(succ', b)
      BY <1>7, NotEntered DEF IInv, Shape, FewEntries
    <3> QED BY <1>7, <3>1
  <2>2. \A b \in AllBlocks \ Blocks' : EdgesInto(succ', b) = {}
    BY <1>2, <1>7, <1>8 DEF IInv, Shape, FewEntries
  <2>3. EdgesInto(succ', x) = {}
    BY <1>2, <1>4, <1>5, <1>7
  <2>4. \A k \in DOMAIN frames' :
           NotClosed(k)' => AtMostOne(succ', frames'[k].header_block)
    <3> SUFFICES ASSUME NEW k \in DOMAIN frames, NotClosed(k)'
                 PROVE  AtMostOne(succ', frames[k].header_block)
      BY <1>1
    <3>1. NotClosed(k) /\ Loop(k) /\ k # n
      <4>1. Loop(k) /\ k < n
        BY <1>1, <1>8, <1>10, <1>11 DEF NotClosed, g
      <4> QED BY <1>2, <4>1 DEF NotClosed
    <3>2. frames[k].header_block \in AllBlocks \ {t, h}
      BY <1>2, <1>4, <3>1 DEF IInv, Shape, BlocksKnown, h
    <3>3. AtMostOne(succ, frames[k].header_block)
      BY <3>1 DEF IInv, Shape, FewEntries
    <3> QED BY <1>7, <3>2, <3>3, NotEntered
  <2> QED BY <1>10, <2>1, <2>2, <2>3, <2>4 DEF FewEntries, g
<1> QED BY <1>12, <1>13, <1>14, <1>15, <1>17, <1>18, <1>19 DEF IInv, Shape

LEMMA CloseBreakFunnelStep == ASSUME IInv, CloseBreakFunnel
                              PROVE  IInv'
<1> DEFINE f == funnel[1]
           n == Len(frames)
           x == f.exit_block
           p == f.pending
           start == Top.control_start
<1>1. /\ funnel # <<>> /\ ~HasEdge /\ f.kind = "break"
      /\ succ' = Patch(succ, p, x)
      /\ layout' = Append(layout, x)
      /\ current' = x
      /\ control' = SubSeq(control, 1, start)
      /\ active' = Top.outer_loops
      /\ frames' = Pop
      /\ funnel' = <<>>
      /\ UNCHANGED <<program, phase, block_count, code, finished, loops>>
  BY DEF CloseBreakFunnel, ControlOfOuterLoops, OuterLoops
<1>2. /\ n \in Nat \ {0} /\ n \in DOMAIN frames /\ Loop(n)
      /\ Top = frames[n] /\ frames # <<>>
      /\ control \in Seq([kind : {"break", "continue"}, edge : Edge])
      /\ DOMAIN control = 1 .. Len(control) /\ Len(control) \in Nat
      /\ start \in Nat /\ start <= Len(control)
      /\ x \in Blocks /\ x \in AllBlocks
      /\ Blocks \subseteq AllBlocks /\ Blocks' = Blocks
  <2>1. frames # <<>>
    BY <1>1, FunnelFacts
  <2>2. Blocks' = Blocks
    BY <1>1 DEF Blocks
  <2> QED BY <1>1, <2>1, <2>2, FunnelFacts
<1>3. /\ p \in Edge
      /\ \A k : LiveControl(k) => control[k].edge \in Waiting(succ) \ {p}
      /\ \A k : OpenFrame(k) => FrameEdge(k) \in Waiting(succ) \ {p}
  BY <1>1, Closed
<1>4. succ[x] = <<>> /\ EdgesInto(succ, x) = {}
  BY <1>1 DEF IInv, Shape, Unwritten, FewEntries
<1>5. /\ succ' \in [AllBlocks -> Row]
      /\ \A b \in AllBlocks : succ[b] = <<>> => succ'[b] = <<>>
      /\ \A b \in AllBlocks \ {x} : EdgesInto(succ', b) \subseteq EdgesInto(succ, b)
      /\ EdgesInto(succ', x) \subseteq EdgesInto(succ, x) \cup {p}
      /\ Waiting(succ) \ {p} \subseteq Waiting(succ')
  <2>1. succ \in [AllBlocks -> Row] /\ x \in AllBlocks
        /\ succ' = Patch(succ, p, x)
    BY <1>1, <1>2 DEF IInv, Typed, TypeOK, Row
  <2> HIDE DEF p, x
  <2> QED BY <1>3, <2>1, Patched
<1>6. /\ frames' \in Seq(Frame) /\ Len(frames') = n - 1
      /\ DOMAIN frames' = 1 .. n - 1
      /\ \A k \in DOMAIN frames' : /\ k \in DOMAIN frames
                                   /\ k # n /\ k < n
                                   /\ frames'[k] = frames[k]
      /\ \A k : Loop(k)' => Loop(k) /\ k \in DOMAIN frames'
      /\ \A k : Then(k)' => Then(k) /\ k \in DOMAIN frames'
  BY <1>1, <1>2, TopGone
<1>7. /\ control' \in Seq([kind : {"break", "continue"}, edge : Edge])
      /\ Len(control') = start /\ DOMAIN control' = 1 .. start
      /\ \A k \in DOMAIN control' : /\ k \in DOMAIN control /\ k <= start
                                    /\ control'[k] = control[k]
  <2>1. start \in 0 .. Len(control)
    BY <1>2
  <2> HIDE DEF start
  <2>2. /\ control' \in Seq([kind : {"break", "continue"}, edge : Edge])
        /\ Len(control') = start /\ DOMAIN control' = 1 .. start
        /\ \A k \in 1 .. start : control'[k] = control[k]
    <3>1. control \in Seq([kind : {"break", "continue"}, edge : Edge])
      BY <1>2
    <3>2. control' = SubSeq(control, 1, start)
      BY <1>1
    <3> QED BY <2>1, <3>1, <3>2, Popped
  <2> QED BY <1>2, <2>1, <2>2
<1> HIDE DEF x, p, start
<1>8. Typed'
  <2>1. layout' \in Seq(Blocks)
    BY <1>1, <1>2, Pushed DEF IInv, Typed, TypeOK, Blocks
  <2>2. active' \subseteq Blocks
    BY <1>1, <1>2 DEF IInv, Shape, BlocksKnown
  <2>3. \A k \in DOMAIN frames' : frames'[k].kind \in {"then", "else", "while"}
    BY <1>6, FrameKinds
  <2>4. /\ phase' \in {"lowering", "lowered", "rejected"}
        /\ block_count' \in 1 .. MaxBlocks
        /\ code' \in [AllBlocks -> Seq(DOMAIN program')]
        /\ finished' \subseteq 0 .. block_count' - 1
        /\ loops' \in [AllBlocks -> SUBSET AllBlocks]
    BY <1>1 DEF IInv, Typed, TypeOK
  <2>5. /\ current' \in AllBlocks \cup {NoBlock}
        /\ Len(funnel') <= 1
        /\ layout' \in Seq(0 .. block_count' - 1)
        /\ active' \subseteq 0 .. block_count' - 1
    BY <1>1, <1>2, <2>1, <2>2 DEF Blocks
  <2>6. succ' \in [AllBlocks -> UNION {[1 .. i -> AllBlocks \cup {NoBlock}] :
                                         i \in 0 .. 2}]
    BY <1>5 DEF Row
  <2>7. control' \in Seq([kind : {"break", "continue"}, edge : Edge])
    BY <1>7
  <2>8. TypeOK'
    BY <2>3, <2>4, <2>5, <2>6, <2>7 DEF TypeOK
  <2> QED BY <1>1, <1>6, <2>8 DEF IInv, Typed
<1>9. BlocksKnown'
  <2>1. \A k : Then(k)' => frames[k].else_block # x
    BY <1>1, <1>6 DEF IInv, Shape, FunnelSound, x
  <2> QED BY <1>1, <1>2, <1>6, <2>1 DEF IInv, Shape, BlocksKnown
<1>10. StartsOrdered'
  <2>1. \A k \in DOMAIN frames' : /\ k \in 1 .. n
                                  /\ 1 .. k \subseteq DOMAIN frames'
    BY <1>2, <1>6
  <2>2. \A k \in DOMAIN frames' : Loop(k)' => frames[k].control_start <= start
    BY <1>2, <1>6, <2>1 DEF IInv, Shape, StartsOrdered, start
  <2> QED BY <1>6, <1>7, <2>1, <2>2 DEF IInv, Shape, StartsOrdered
<1>11. FunnelSound'
  BY <1>1 DEF FunnelSound
<1>12. Unwritten'
  <2>1. \A k \in DOMAIN frames : Then(k) =>
           /\ frames[k].else_block \in Blocks
           /\ succ[frames[k].else_block] = <<>>
    BY DEF IInv, Shape, BlocksKnown, Unwritten
  <2>2. \A b \in AllBlocks \ Blocks : succ[b] = <<>>
    BY DEF IInv, Shape, Unwritten
  <2>3. \A k : Then(k)' => succ'[frames'[k].else_block] = <<>>
    BY <1>2, <1>5, <1>6, <2>1
  <2> QED BY <1>1, <1>2, <1>4, <1>5, <2>2, <2>3 DEF Unwritten
<1>13. /\ \A k \in DOMAIN control' : LiveControl(k)
       /\ \A k : OpenFrame(k)' => /\ OpenFrame(k) /\ k \in DOMAIN frames'
                                  /\ FrameEdge(k)' = FrameEdge(k)
  <2>1. \A k \in DOMAIN control' : LiveControl(k)
    BY <1>7 DEF LiveControl, start
  <2>2. ASSUME NEW k, OpenFrame(k)'
        PROVE  /\ OpenFrame(k) /\ k \in DOMAIN frames'
               /\ FrameEdge(k)' = FrameEdge(k)
    <3>1. k \in DOMAIN frames'
      BY <2>2 DEF OpenFrame
    <3>2. k \in DOMAIN frames /\ k < n /\ frames'[k] = frames[k]
      BY <1>6, <3>1
    <3> QED BY <2>2, <3>1, <3>2 DEF OpenFrame, FrameEdge, Loop
  <2> QED BY <2>1, <2>2
<1>14. EdgesWait'
  BY <1>1, <1>3, <1>5, <1>7, <1>13 DEF EdgesWait, LiveImplicit, LivePending
<1>15. EdgesDistinct'
  BY <1>1, <1>6, <1>7, <1>13
     DEF IInv, Shape, EdgesDistinct, LiveImplicit, LivePending
<1>16. FewEntries'
  <2>1. \A b \in AllBlocks : AtMostTwo(succ', b)
    <3>1. \A b \in AllBlocks \ {x} : AtMostTwo(succ', b)
      BY <1>5, NotEntered DEF IInv, Shape, FewEntries
    <3>2. AtMostTwo(succ', x)
      BY <1>3, <1>4, <1>5, Entered
    <3> QED BY <3>1, <3>2
  <2>2. \A b \in AllBlocks \ Blocks' : EdgesInto(succ', b) = {}
    BY <1>2, <1>5 DEF IInv, Shape, FewEntries
  <2>3. \A k \in DOMAIN frames' :
           NotClosed(k)' => AtMostOne(succ', frames'[k].header_block)
    <3> SUFFICES ASSUME NEW k \in DOMAIN frames', NotClosed(k)'
                 PROVE  AtMostOne(succ', frames[k].header_block)
      BY <1>6
    <3>1. NotClosed(k) /\ Loop(k) /\ k \in DOMAIN frames
      BY <1>6 DEF NotClosed
    <3>2. frames[k].header_block \in AllBlocks \ {x}
      <4>1. frames[k].header_block \in Blocks
        BY <3>1 DEF IInv, Shape, BlocksKnown
      <4>2. frames[k].header_block # x
        BY <1>1, <3>1 DEF IInv, Shape, FunnelSound, x
      <4> QED BY <1>2, <4>1, <4>2
    <3>3. AtMostOne(succ, frames[k].header_block)
      BY <3>1 DEF IInv, Shape, FewEntries
    <3> QED BY <1>5, <3>2, <3>3, NotEntered
  <2> QED BY <1>1, <2>1, <2>2, <2>3 DEF FewEntries
<1> QED BY <1>8, <1>9, <1>10, <1>11, <1>12, <1>14, <1>15, <1>16
        DEF IInv, Shape
-----------------------------------------------------------------------------
(***************************************************************************)
(* The theorems.                                                           *)
(***************************************************************************)
LEMMA NextKeeps ==
  ASSUME IInv, [Next]_vars
  PROVE  IInv'
<1>1. ASSUME NEW a \in Assigns, Assign(a)
      PROVE  IInv'
  BY <1>1, AssignStep
<1>2. ASSUME NEW c \in Conditions, If(c)
      PROVE  IInv'
  BY <1>2, IfStep
<1>3. ASSUME NEW c \in Conditions, While(c)
      PROVE  IInv'
  BY <1>3, WhileStep
<1>4. ASSUME NEW kind \in {"break", "continue"}, LoopControl(kind)
      PROVE  IInv'
  BY <1>4, LoopControlStep
<1>5. CASE Else \/ EndIf \/ EndWhile \/ StatementAfterTerminator \/ Return
  BY <1>5, ElseStep, EndIfStep, EndWhileStep,
     StatementAfterTerminatorStep, ReturnStep
<1>6. CASE Compiler
  BY <1>6, FunnelEdgeStep, CloseContinueFunnelStep, CloseBreakFunnelStep
     DEF Compiler
<1>7. CASE UNCHANGED vars
  <2>1. Typed'
    BY <1>7 DEF vars, IInv, Typed, TypeOK
  <2>2. Shape'
    BY <1>7, ShapeKept DEF vars, IInv
  <2> QED BY <2>1, <2>2 DEF IInv
<1> QED BY <1>1, <1>2, <1>3, <1>4, <1>5, <1>6, <1>7 DEF Next

LEMMA Invariance == Spec => []IInv
<1>1. IInv /\ [Next]_vars => IInv'
  BY NextKeeps
<1> QED BY IInvInit, <1>1, PTL DEF Spec

(* Every table entry and every pending edge names a block the table has.   *)
THEOREM TypeCorrect == Spec => []TypeOK
<1>1. IInv => TypeOK
  BY DEF IInv, Typed
<1> QED BY Invariance, <1>1, PTL

(* However many breaks, continues and branches meet, no block gets a third *)
(* predecessor (build_control_funnel; value_ir.c build_predecessors).      *)
THEOREM NeverThreePredecessors == Spec => []AtMostTwoPredecessors
<1>1. ASSUME IInv, NEW b \in AllBlocks
      PROVE  Cardinality(Incoming(b)) <= 2
  <2>1. PICK e1, e2 \in Edge : EdgesInto(succ, b) \subseteq {e1, e2}
    BY <1>1 DEF IInv, Shape, FewEntries, AtMostTwo
  <2>2. IsFiniteSet({e1, e2}) /\ Cardinality({e1, e2}) <= 2
    <3>1. IsFiniteSet({e1}) /\ Cardinality({e1}) = 1
      BY FS_Singleton
    <3>2. {e1, e2} = {e1} \cup {e2}
      OBVIOUS
    <3> QED BY <3>1, <3>2, FS_AddElement
  <2>3. Incoming(b) \in SUBSET {e1, e2}
    BY <2>1 DEF Incoming, EdgesInto
  <2>4. /\ Cardinality(Incoming(b)) <= Cardinality({e1, e2})
        /\ IsFiniteSet(Incoming(b))
    BY <2>2, <2>3, FS_Subset
  <2>5. Cardinality(Incoming(b)) \in Nat /\ Cardinality({e1, e2}) \in Nat
    BY <2>2, <2>4, FS_CardinalityType
  <2> QED BY <2>2, <2>4, <2>5
<1>2. IInv => AtMostTwoPredecessors
  BY <1>1 DEF AtMostTwoPredecessors
<1> QED BY Invariance, <1>2, PTL
-----------------------------------------------------------------------------
(***************************************************************************)
(* A successor that is known is never overwritten.                         *)
(***************************************************************************)
Kept(s, t) ==
    \A b \in AllBlocks : \A i \in DOMAIN s[b] :
        s[b][i] # NoBlock => i \in DOMAIN t[b] /\ t[b][i] = s[b][i]

LEMMA KeptWhenWritten ==
  ASSUME NEW s, NEW t, NEW c, s[c] = <<>>,
         \A b \in AllBlocks : b # c => t[b] = s[b]
  PROVE  Kept(s, t)
BY DEF Kept

LEMMA KeptWhenPatched ==
  ASSUME NEW s \in [AllBlocks -> Row], NEW p \in Waiting(s), NEW x
  PROVE  Kept(s, Patch(s, p, x))
BY PatchedOnce DEF Kept

LEMMA KeptTwice ==
  ASSUME NEW s, NEW t, NEW u, Kept(s, t), Kept(t, u)
  PROVE  Kept(s, u)
BY DEF Kept

LEMMA EndIfKeeps == ASSUME IInv, EndIf
                    PROVE  Kept(succ, succ')
<1> DEFINE p == Top.then_edge
           x == block_count
           n == Len(frames)
           s == Continued(x)
<1>1. CASE (current = NoBlock /\ p = NoEdge) \/ ~Room(1)
  <2>1. succ' = succ
    BY <1>1 DEF EndIf, Reject, cfg
  <2> QED BY <2>1 DEF Kept
<1>2. CASE ~(current = NoBlock /\ p = NoEdge) /\ Room(1)
  <2>1. succ' = JoinThen(s, x) /\ block_count' = block_count + 1
    BY <1>2 DEF EndIf, Continued
  <2>2. /\ succ \in [AllBlocks -> Row] /\ x \in AllBlocks
        /\ current \in AllBlocks \cup {NoBlock}
    BY <1>2, <2>1, OneCreated DEF IInv, Typed, TypeOK, Row
  <2>3. /\ s \in [AllBlocks -> Row] /\ Kept(succ, s)
        /\ Waiting(succ) \subseteq Waiting(s)
    <3>1. CASE current = NoBlock
      BY <2>2, <3>1 DEF Continued, Kept
    <3>2. CASE current # NoBlock
      <4>1. succ[current] = <<>> /\ current \in AllBlocks /\ <<x>> \in Row
        BY <2>2, <3>2, Rows DEF IInv, Shape, Unwritten
      <4>2. s = [succ EXCEPT ![current] = <<x>>]
        BY <3>2 DEF Continued
      <4>3. /\ s \in [AllBlocks -> Row]
            /\ \A b \in AllBlocks : b # current => s[b] = succ[b]
        BY <2>2, <4>1, <4>2
      <4> HIDE DEF s
      <4>4. Kept(succ, s)
        BY <4>1, <4>3, KeptWhenWritten
      <4>5. Waiting(succ) \subseteq Waiting(s)
        BY <2>2, <4>1, <4>3, WrittenWaiting
      <4> QED BY <4>3, <4>4, <4>5
    <3> QED BY <3>1, <3>2
  <2> HIDE DEF s
  <2>4. CASE p = NoEdge
    BY <2>1, <2>3, <2>4 DEF JoinThen
  <2>5. CASE p # NoEdge
    <3>1. /\ funnel = <<>> /\ frames # <<>> /\ frames[n].kind = "else"
          /\ n \in DOMAIN frames /\ p = frames[n].then_edge
      BY FramesTyped DEF EndIf, Ready, Top
    <3>2. OpenFrame(n) /\ FrameEdge(n) = p
      BY <2>5, <3>1 DEF OpenFrame, FrameEdge, Loop
    <3>3. p \in Waiting(succ)
      BY <3>1, <3>2 DEF IInv, Shape, EdgesWait
    <3>4. succ' = Patch(s, p, x)
      BY <2>1, <2>5 DEF JoinThen
    <3>5. p \in Waiting(s) /\ s \in [AllBlocks -> Row]
      BY <2>3, <3>3
    <3> HIDE DEF p, x
    <3>6. Kept(s, succ')
      BY <3>4, <3>5, KeptWhenPatched
    <3> QED BY <2>3, <3>6, KeptTwice
  <2> QED BY <2>4, <2>5
<1> QED BY <1>1, <1>2

LEMMA WhileKeeps == ASSUME IInv, NEW c \in Conditions, While(c)
                    PROVE  Kept(succ, succ')
<1> DEFINE h == block_count
           y == block_count + 1
           s == [succ EXCEPT ![current] = <<h>>]
<1>1. CASE ~Room(2)
  <2>1. succ' = succ
    BY <1>1 DEF While, Reject, cfg
  <2> QED BY <2>1 DEF Kept
<1>2. CASE Room(2)
  <2>1. /\ block_count' = block_count + 2
        /\ succ' = [s EXCEPT ![h] = <<y, NoBlock>>]
        /\ current # NoBlock
    BY <1>2 DEF While, NextStatement
  <2>2. h \in AllBlocks \ Blocks
    BY <1>2, <2>1, TwoCreated
  <2>3. /\ succ \in [AllBlocks -> Row] /\ current \in AllBlocks
        /\ succ[current] = <<>> /\ succ[h] = <<>> /\ h # current
    BY <2>1, <2>2, Fresh DEF IInv, Typed, TypeOK, Row, Shape, Unwritten
  <2>4. /\ s[h] = <<>>
        /\ \A b \in AllBlocks : b # current => s[b] = succ[b]
        /\ \A b \in AllBlocks : b # h => succ'[b] = s[b]
    BY <2>1, <2>2, <2>3
  <2> HIDE DEF s
  <2>5. Kept(succ, s)
    BY <2>3, <2>4, KeptWhenWritten
  <2>6. Kept(s, succ')
    BY <2>4, KeptWhenWritten
  <2> QED BY <2>5, <2>6, KeptTwice
<1> QED BY <1>1, <1>2

LEMMA FunnelEdgeKeeps == ASSUME IInv, FunnelEdge
                         PROVE  Kept(succ, succ')
<1> DEFINE f == funnel[1]
           o == Offered(f)[f.index]
           p == f.pending
           e == o.edge
           x == block_count
           merges == o.kind = f.kind /\ p # NoEdge /\ Room(1)
<1>1. CASE ~merges
  <2>1. succ' = succ
    BY <1>1 DEF FunnelEdge
  <2> QED BY <2>1 DEF Kept
<1>2. CASE merges
  <2> DEFINE g == [f EXCEPT !.index = @ + 1, !.pending = <<x, 1>>]
  <2>1. /\ funnel # <<>> /\ HasEdge /\ funnel' = <<g>>
        /\ block_count' = block_count + 1
        /\ succ' = Merged(p, e, x)
        /\ UNCHANGED <<control, frames>>
    BY <1>2 DEF FunnelEdge, Merged
  <2>2. x \in AllBlocks \ Blocks
    BY <1>2, <2>1, OneCreated
  <2>3. /\ g.kind = f.kind /\ g.index = f.index + 1
        /\ g.implicit = f.implicit
    <3>1. f \in FunnelRecord /\ <<x, 1>> \in Edge
      BY <2>1, <2>2, FunnelFacts DEF Edge
    <3> HIDE DEF f, x
    <3> QED BY <3>1, Pended
  <2>4. /\ LivePending
        /\ e \in Waiting(succ) /\ e \in Edge
        /\ LivePending => p # e
    <3>1. LivePending
      BY <1>2, <2>1 DEF LivePending
    <3> HIDE DEF g
    <3>2. /\ e \in Waiting(succ) /\ e \in Edge
          /\ LivePending => p # e
      BY <1>2, <2>1, <2>3, Taken
    <3> QED BY <3>1, <3>2
  <2>5. p \in Waiting(succ) /\ p \in Edge /\ p # e
    BY <2>4 DEF IInv, Shape, EdgesWait, Waiting
  <2> DEFINE s1 == Patch(succ, p, x)
             s2 == Patch(s1, e, x)
  <2>6. succ \in [AllBlocks -> Row] /\ x \in AllBlocks /\ succ[x] = <<>>
    BY <2>2, Fresh DEF IInv, Typed, TypeOK, Row
  <2>7. succ' = [s2 EXCEPT ![x] = <<NoBlock>>]
    BY <2>1 DEF Merged
  <2> HIDE DEF f, o, p, e, x, g
  <2>8. /\ s1 \in [AllBlocks -> Row] /\ s1[x] = <<>>
        /\ Waiting(succ) \ {p} \subseteq Waiting(s1)
    BY <2>5, <2>6, Patched
  <2>9. Kept(succ, s1)
    BY <2>5, <2>6, KeptWhenPatched
  <2> HIDE DEF s1
  <2>10. s2 \in [AllBlocks -> Row] /\ s2[x] = <<>>
    BY <2>4, <2>6, <2>8, Patched
  <2>11. Kept(s1, s2)
    <3>1. e \in Waiting(s1)
      BY <2>4, <2>5, <2>8
    <3> QED BY <2>8, <3>1, KeptWhenPatched
  <2> HIDE DEF s2
  <2>12. \A b \in AllBlocks : b # x => succ'[b] = s2[b]
    BY <2>6, <2>7, <2>10
  <2>13. Kept(s2, succ')
    <3>1. s2[x] = <<>>
      BY <2>10
    <3> QED BY <2>12, <3>1 DEF Kept
  <2>14. Kept(succ, s2)
    BY <2>9, <2>11, KeptTwice
  <2> QED BY <2>13, <2>14, KeptTwice
<1> QED BY <1>1, <1>2

LEMMA ClosingKeeps == ASSUME IInv, CloseContinueFunnel \/ CloseBreakFunnel
                      PROVE  Kept(succ, succ')
<1> DEFINE f == funnel[1]
           p == f.pending
           x == f.target
           s == Patch(succ, p, x)
<1>1. funnel # <<>> /\ ~HasEdge /\ f.kind \in {"continue", "break"}
  BY DEF CloseContinueFunnel, CloseBreakFunnel
<1>2. /\ p \in Waiting(succ) /\ p \in Edge
      /\ succ \in [AllBlocks -> Row] /\ succ[x] = <<>>
      /\ x \in AllBlocks /\ f.exit_block \in AllBlocks
  <2>1. /\ succ \in [AllBlocks -> Row] /\ succ[x] = <<>>
        /\ x \in AllBlocks /\ f.exit_block \in AllBlocks
    BY <1>1, FunnelFacts
       DEF IInv, Typed, TypeOK, Row, Shape, Unwritten, FunnelRecord
  <2>2. p \in Waiting(succ) /\ p \in Edge
    BY <1>1, Closed
  <2> QED BY <2>1, <2>2
<1>3. CASE CloseBreakFunnel
  <2>1. succ' = Patch(succ, p, f.exit_block)
    BY <1>3 DEF CloseBreakFunnel
  <2> HIDE DEF f, p
  <2> QED BY <1>2, <2>1, KeptWhenPatched
<1>4. CASE CloseContinueFunnel
  <2>1. succ' = [s EXCEPT ![x] = LatchSuccessors(f)]
    BY <1>4 DEF CloseContinueFunnel
  <2> HIDE DEF f, p, x
  <2>2. s \in [AllBlocks -> Row] /\ s[x] = <<>>
    BY <1>2, Patched
  <2>3. Kept(succ, s)
    BY <1>2, KeptWhenPatched
  <2> HIDE DEF s
  <2>4. \A b \in AllBlocks : b # x => succ'[b] = s[b]
    BY <1>2, <2>1, <2>2
  <2>5. Kept(s, succ')
    BY <2>2, <2>4 DEF Kept
  <2> QED BY <2>3, <2>5, KeptTwice
<1> QED BY <1>3, <1>4

(* The other actions write the terminator of the current block, if any.    *)
LEMMA CurrentWritten ==
  ASSUME IInv, \/ UNCHANGED succ
               \/ /\ current # NoBlock
                  /\ \E row : succ' = [succ EXCEPT ![current] = row]
  PROVE  Kept(succ, succ')
<1>1. CASE UNCHANGED succ
  BY <1>1 DEF Kept
<1>2. CASE /\ current # NoBlock
           /\ \E row : succ' = [succ EXCEPT ![current] = row]
  <2>1. PICK row : succ' = [succ EXCEPT ![current] = row]
    BY <1>2
  <2>2. /\ succ \in [AllBlocks -> Row] /\ succ[current] = <<>>
    BY <1>2 DEF IInv, Typed, TypeOK, Row, Shape, Unwritten
  <2>3. \A b \in AllBlocks : b # current => succ'[b] = succ[b]
    BY <2>1, <2>2
  <2> QED BY <2>2, <2>3 DEF Kept
<1> QED BY <1>1, <1>2

(* No pending edge is patched twice, and no terminator is written over     *)
(* another (patch_edge and the callers that set a terminator).             *)
THEOREM NoEdgeIsPatchedTwice == Spec => EdgesPatchedOnce
<1>1. IInv /\ [Next]_vars =>
        [\A b \in AllBlocks : \A i \in DOMAIN succ[b] :
            succ[b][i] # NoBlock => /\ i \in DOMAIN succ'[b]
                                    /\ succ'[b][i] = succ[b][i]]_vars
  <2> SUFFICES ASSUME IInv, [Next]_vars
               PROVE  Kept(succ, succ')
    BY DEF Kept
  <2>1. ASSUME NEW a \in Assigns, Assign(a)
        PROVE  UNCHANGED succ
    BY <2>1 DEF Assign
  <2>2. ASSUME NEW c \in Conditions, If(c)
        PROVE  \/ UNCHANGED succ
               \/ /\ current # NoBlock
                  /\ \E row : succ' = [succ EXCEPT ![current] = row]
    BY <2>2 DEF If, NextStatement, Reject, cfg
  <2>3. ASSUME NEW kind \in {"break", "continue"}, LoopControl(kind)
        PROVE  \/ UNCHANGED succ
               \/ /\ current # NoBlock
                  /\ \E row : succ' = [succ EXCEPT ![current] = row]
    BY <2>3 DEF LoopControl, NextStatement, Reject, cfg
  <2>4. CASE Else \/ EndWhile
    <3>1. \/ UNCHANGED succ
          \/ /\ current # NoBlock
             /\ \E row : succ' = [succ EXCEPT ![current] = row]
      BY <2>4 DEF Else, EndWhile, Reject, cfg
    <3> QED BY <3>1, CurrentWritten
  <2>5. CASE StatementAfterTerminator \/ Return \/ UNCHANGED vars
    <3>1. UNCHANGED succ
      BY <2>5 DEF StatementAfterTerminator, Return, vars, Reject, cfg
    <3> QED BY <3>1, CurrentWritten
  <2>6. CASE EndIf \/ Compiler
    BY <2>6, EndIfKeeps, FunnelEdgeKeeps, ClosingKeeps DEF Compiler
  <2> QED BY <2>1, <2>2, <2>3, <2>4, <2>5, <2>6, CurrentWritten, WhileKeeps
          DEF Next
<1> QED BY Invariance, <1>1, PTL DEF Spec, EdgesPatchedOnce
-----------------------------------------------------------------------------
(***************************************************************************)
(* Lowering creates no more joins than the value table has room for phis   *)
(* (MIGA80_MAX_CFG_JOINS), for any number of blocks and statements and any *)
(* program.                                                                *)
(*                                                                         *)
(* A finished function has at most (blocks - 1) / 3 joins.  Half-way this  *)
(* is not so: a statement list that ends in a break leaves an edge behind  *)
(* which will take part in a join, but the blocks of its if have been      *)
(* created long before.  The invariant therefore counts what is open: each *)
(* waiting edge, each else list to come and the current block have two     *)
(* thirds of a join to their credit.                                       *)
(***************************************************************************)

Thens == {k \in DOMAIN frames : frames[k].kind = "then"}

JoinCount    == Cardinality(Joins)
WaitingCount == Cardinality(Waiting(succ))
ThenCount    == Cardinality(Thens)
Open         == IF current = NoBlock THEN 0 ELSE 1
(* The blocks that EndWhile has created and no edge enters yet.            *)
Owed == IF funnel = <<>> THEN 0
        ELSE IF funnel[1].kind = "continue" THEN 2 ELSE 1

Budget == 3 * JoinCount + 2 * WaitingCount + 2 * ThenCount + 2 * Open + Owed
             <= block_count + 1

BudgetInv == Budget /\ (phase = "lowered" => current # NoBlock)
-----------------------------------------------------------------------------
(***************************************************************************)
(* Counting.                                                               *)
(***************************************************************************)
LEMMA Smaller ==
  ASSUME NEW S, NEW T, IsFiniteSet(S), T \subseteq S
  PROVE  /\ IsFiniteSet(T) /\ Cardinality(T) \in Nat
         /\ Cardinality(T) <= Cardinality(S)
<1>1. IsFiniteSet(T) /\ Cardinality(T) <= Cardinality(S)
  BY FS_Subset
<1> QED BY <1>1, FS_CardinalityType

LEMMA OneMore ==
  ASSUME NEW S, NEW T, NEW x, IsFiniteSet(S), T \subseteq S \cup {x}
  PROVE  /\ IsFiniteSet(T) /\ Cardinality(T) \in Nat
         /\ Cardinality(T) <= Cardinality(S) + 1
<1>1. /\ IsFiniteSet(S \cup {x}) /\ Cardinality(S) \in Nat
      /\ Cardinality(S \cup {x}) \in {Cardinality(S), Cardinality(S) + 1}
  BY FS_AddElement, FS_CardinalityType
<1>2. /\ IsFiniteSet(T) /\ Cardinality(T) \in Nat
      /\ Cardinality(T) <= Cardinality(S \cup {x})
  BY <1>1, Smaller
<1> QED BY <1>1, <1>2

LEMMA OneLess ==
  ASSUME NEW S, NEW T, NEW p \in S, IsFiniteSet(S), T \subseteq S \ {p}
  PROVE  /\ IsFiniteSet(T) /\ Cardinality(T) \in Nat
         /\ Cardinality(T) <= Cardinality(S) - 1
<1>1. /\ IsFiniteSet(S \ {p}) /\ Cardinality(S) \in Nat
      /\ Cardinality(S \ {p}) = Cardinality(S) - 1
  BY FS_RemoveElement, FS_CardinalityType
<1>2. /\ IsFiniteSet(T) /\ Cardinality(T) \in Nat
      /\ Cardinality(T) <= Cardinality(S \ {p})
  BY <1>1, Smaller
<1> QED BY <1>1, <1>2

LEMMA EdgesFinite == IsFiniteSet(AllBlocks) /\ IsFiniteSet(Edge)
<1>1. IsFiniteSet(AllBlocks)
  BY BoundsAssumption, FS_Interval DEF AllBlocks
<1>2. IsFiniteSet({1, 2})
  <2>1. IsFiniteSet({1}) /\ {1, 2} \subseteq {1} \cup {2}
    BY FS_Singleton
  <2> QED BY <2>1, OneMore
<1> QED BY <1>1, <1>2, FS_Product DEF Edge

LEMMA Counts ==
  ASSUME IInv
  PROVE  /\ IsFiniteSet(Joins) /\ JoinCount \in Nat
         /\ IsFiniteSet(Waiting(succ)) /\ WaitingCount \in Nat
         /\ IsFiniteSet(Thens) /\ ThenCount \in Nat
         /\ Open \in {0, 1} /\ Owed \in {0, 1, 2} /\ block_count \in Nat
<1>1. IsFiniteSet(Joins) /\ JoinCount \in Nat
  <2>1. Joins \subseteq AllBlocks
    BY DEF Joins
  <2> QED BY <2>1, EdgesFinite, Smaller DEF JoinCount
<1>2. IsFiniteSet(Waiting(succ)) /\ WaitingCount \in Nat
  <2>1. Waiting(succ) \subseteq Edge
    BY DEF Waiting
  <2> QED BY <2>1, EdgesFinite, Smaller DEF WaitingCount
<1>3. IsFiniteSet(Thens) /\ ThenCount \in Nat
  <2>1. Thens \subseteq 1 .. Len(frames) /\ Len(frames) \in Nat
    BY FramesTyped DEF Thens
  <2>2. IsFiniteSet(1 .. Len(frames))
    BY <2>1, FS_Interval
  <2> QED BY <2>1, <2>2, Smaller DEF ThenCount
<1>4. block_count \in Nat
  BY DEF IInv, Typed, TypeOK
<1> QED BY <1>1, <1>2, <1>3, <1>4 DEF Open, Owed

(***************************************************************************)
(* A block becomes a join only when a second edge enters it.               *)
(***************************************************************************)
LEMMA AtMostOneCounted ==
  ASSUME NEW s, NEW b, AtMostOne(s, b)
  PROVE  Cardinality(EdgesInto(s, b)) # 2
<1>1. PICK e : EdgesInto(s, b) \subseteq {e}
  BY DEF AtMostOne
<1>2. IsFiniteSet({e}) /\ Cardinality({e}) = 1
  BY FS_Singleton
<1>3. /\ Cardinality(EdgesInto(s, b)) \in Nat
      /\ Cardinality(EdgesInto(s, b)) <= 1
  BY <1>1, <1>2, Smaller
<1> QED BY <1>3

LEMMA JoinsBound ==
  ASSUME IInv, NEW X,
         \A b \in AllBlocks \ X : \/ EdgesInto(succ', b) \subseteq EdgesInto(succ, b)
                                  \/ AtMostOne(succ', b)
  PROVE  Joins' \subseteq Joins \cup X
<1> SUFFICES ASSUME NEW b \in Joins', b \notin X
             PROVE  b \in Joins
  OBVIOUS
<1>1. b \in AllBlocks /\ Cardinality(EdgesInto(succ', b)) = 2
  BY DEF Joins, Incoming, EdgesInto
<1>2. EdgesInto(succ', b) \subseteq EdgesInto(succ, b)
  BY <1>1, AtMostOneCounted
<1>3. PICK e1, e2 \in Edge : EdgesInto(succ, b) \subseteq {e1, e2}
  BY <1>1 DEF IInv, Shape, FewEntries, AtMostTwo
<1>4. /\ IsFiniteSet({e1} \cup {e2}) /\ Cardinality({e1} \cup {e2}) \in Nat
      /\ Cardinality({e1} \cup {e2}) <= 2
  <2>1. IsFiniteSet({e1}) /\ Cardinality({e1}) = 1
    BY FS_Singleton
  <2>2. /\ IsFiniteSet({e1} \cup {e2}) /\ Cardinality({e1} \cup {e2}) \in Nat
        /\ Cardinality({e1} \cup {e2}) <= Cardinality({e1}) + 1
    <3>1. {e1} \cup {e2} \subseteq {e1} \cup {e2}
      OBVIOUS
    <3> QED BY <2>1, <3>1, OneMore
  <2> QED BY <2>1, <2>2
<1>5. /\ IsFiniteSet(EdgesInto(succ, b))
      /\ Cardinality(EdgesInto(succ, b)) \in Nat
      /\ Cardinality(EdgesInto(succ, b)) <= 2
  <2>1. EdgesInto(succ, b) \subseteq {e1} \cup {e2}
    BY <1>3
  <2>2. /\ IsFiniteSet(EdgesInto(succ, b))
        /\ Cardinality(EdgesInto(succ, b)) \in Nat
        /\ Cardinality(EdgesInto(succ, b)) <= Cardinality({e1} \cup {e2})
    BY <1>4, <2>1, Smaller
  <2> QED BY <1>4, <2>2
<1>6. 2 <= Cardinality(EdgesInto(succ, b))
  BY <1>1, <1>2, <1>5, Smaller
<1>7. Cardinality(EdgesInto(succ, b)) = 2
  BY <1>5, <1>6
<1> QED BY <1>1, <1>7 DEF Joins, Incoming, EdgesInto

LEMMA NoNewJoin ==
  ASSUME IInv,
         \A b \in AllBlocks : \/ EdgesInto(succ', b) \subseteq EdgesInto(succ, b)
                              \/ AtMostOne(succ', b)
  PROVE  JoinCount' \in Nat /\ JoinCount' <= JoinCount
<1>1. Joins' \subseteq Joins \cup {}
  <2>1. \A b \in AllBlocks \ {} :
            \/ EdgesInto(succ', b) \subseteq EdgesInto(succ, b)
            \/ AtMostOne(succ', b)
    OBVIOUS
  <2> QED BY <2>1, JoinsBound
<1>2. Joins' \subseteq Joins
  BY <1>1
<1> QED BY <1>2, Counts, Smaller DEF JoinCount

LEMMA OneNewJoin ==
  ASSUME IInv, NEW x,
         \A b \in AllBlocks \ {x} :
            \/ EdgesInto(succ', b) \subseteq EdgesInto(succ, b)
            \/ AtMostOne(succ', b)
  PROVE  JoinCount' \in Nat /\ JoinCount' <= JoinCount + 1
<1>1. Joins' \subseteq Joins \cup {x}
  BY JoinsBound
<1> QED BY <1>1, Counts, OneMore DEF JoinCount

(***************************************************************************)
(* Which edges wait after a patch or a new terminator.                     *)
(***************************************************************************)
LEMMA WaitingPatched ==
  ASSUME NEW s \in [AllBlocks -> Row], NEW p \in Edge, NEW t \in AllBlocks
  PROVE  Waiting(Patch(s, p, t)) \subseteq Waiting(s) \ {p}
<1> DEFINE q == [s[p[1]] EXCEPT ![p[2]] = t]
<1>1. p[1] \in AllBlocks /\ p = <<p[1], p[2]>> /\ t # NoBlock
  BY NoBlockAssumption DEF Edge
<1>2. Patch(s, p, t) = [s EXCEPT ![p[1]] = q]
  BY DEF Patch
<1>3. \A b \in AllBlocks : Patch(s, p, t)[b] = IF b = p[1] THEN q ELSE s[b]
  BY <1>1, <1>2
<1>4. DOMAIN q = DOMAIN s[p[1]]
      /\ \A i \in DOMAIN q : q[i] = IF i = p[2] THEN t ELSE s[p[1]][i]
  OBVIOUS
<1> HIDE DEF q
<1> SUFFICES ASSUME NEW e \in Waiting(Patch(s, p, t))
             PROVE  e \in Waiting(s) /\ e # p
  OBVIOUS
<1>5. /\ e \in Edge /\ e[1] \in AllBlocks
      /\ e[2] \in DOMAIN Patch(s, p, t)[e[1]]
      /\ Patch(s, p, t)[e[1]][e[2]] = NoBlock
  BY DEF Waiting, Edge
<1>6. CASE e[1] = p[1]
  <2>1. e[2] \in DOMAIN q /\ q[e[2]] = NoBlock
    BY <1>3, <1>5, <1>6
  <2>2. e[2] # p[2] /\ e[2] \in DOMAIN s[e[1]] /\ s[e[1]][e[2]] = NoBlock
    BY <1>1, <1>4, <1>6, <2>1
  <2> QED BY <1>5, <2>2 DEF Waiting
<1>7. CASE e[1] # p[1]
  BY <1>3, <1>5, <1>7 DEF Waiting
<1> QED BY <1>6, <1>7

LEMMA WaitingWritten ==
  ASSUME NEW s, NEW c \in AllBlocks, NEW s2,
         \A b \in AllBlocks : b # c => s2[b] = s[b]
  PROVE  /\ \A x : s2[c] = <<x>> /\ x # NoBlock =>
                      Waiting(s2) \subseteq Waiting(s)
         /\ s2[c] = <<NoBlock>> => Waiting(s2) \subseteq Waiting(s) \cup {<<c, 1>>}
         /\ \A x, y : s2[c] = <<x, y>> /\ x # NoBlock /\ y # NoBlock =>
                         Waiting(s2) \subseteq Waiting(s)
         /\ \A x : s2[c] = <<x, NoBlock>> /\ x # NoBlock =>
                      Waiting(s2) \subseteq Waiting(s) \cup {<<c, 2>>}
<1>1. ASSUME NEW e \in Waiting(s2)
      PROVE  \/ e \in Waiting(s)
             \/ /\ e \in {<<c, 1>>, <<c, 2>>} /\ e[2] \in DOMAIN s2[c]
                /\ s2[c][e[2]] = NoBlock
  <2>1. /\ e \in Edge /\ e[1] \in AllBlocks /\ e[2] \in {1, 2}
        /\ e = <<e[1], e[2]>>
        /\ e[2] \in DOMAIN s2[e[1]] /\ s2[e[1]][e[2]] = NoBlock
    BY <1>1 DEF Waiting, Edge
  <2>2. CASE e[1] = c
    BY <2>1, <2>2
  <2>3. CASE e[1] # c
    BY <2>1, <2>3 DEF Waiting
  <2> QED BY <2>2, <2>3
<1> QED BY <1>1

LEMMA WaitingKept ==
  ASSUME IInv, Waiting(succ') \subseteq Waiting(succ)
  PROVE  WaitingCount' \in Nat /\ WaitingCount' <= WaitingCount
BY Counts, Smaller DEF WaitingCount

LEMMA WaitingMore ==
  ASSUME IInv, NEW x, Waiting(succ') \subseteq Waiting(succ) \cup {x}
  PROVE  WaitingCount' \in Nat /\ WaitingCount' <= WaitingCount + 1
BY Counts, OneMore DEF WaitingCount

LEMMA WaitingLess ==
  ASSUME IInv, NEW p \in Waiting(succ), Waiting(succ') \subseteq Waiting(succ) \ {p}
  PROVE  WaitingCount' \in Nat /\ WaitingCount' <= WaitingCount - 1
BY Counts, OneLess DEF WaitingCount

LEMMA WaitingMerged ==
  ASSUME IInv, NEW p \in Waiting(succ), NEW e \in Waiting(succ) \ {p}, NEW x,
         Waiting(succ') \subseteq ((Waiting(succ) \ {p}) \ {e}) \cup {x}
  PROVE  WaitingCount' \in Nat /\ WaitingCount' <= WaitingCount - 1
<1> DEFINE S == Waiting(succ) \ {p}
           T == S \ {e}
<1>1. /\ IsFiniteSet(S) /\ Cardinality(S) \in Nat
      /\ Cardinality(S) <= WaitingCount - 1 /\ WaitingCount \in Nat
  BY Counts, OneLess DEF WaitingCount
<1>2. /\ IsFiniteSet(T) /\ Cardinality(T) \in Nat
      /\ Cardinality(T) <= Cardinality(S) - 1
  <2>1. e \in S
    OBVIOUS
  <2> QED BY <1>1, <2>1, OneLess
<1>3. /\ WaitingCount' \in Nat
      /\ WaitingCount' <= Cardinality(T) + 1
  BY <1>2, OneMore DEF WaitingCount
<1> HIDE DEF S, T
<1> QED BY <1>1, <1>2, <1>3

LEMMA ThensKept ==
  ASSUME IInv, Thens' \subseteq Thens
  PROVE  ThenCount' \in Nat /\ ThenCount' <= ThenCount
BY Counts, Smaller DEF ThenCount
-----------------------------------------------------------------------------
(***************************************************************************)
(* Every step pays for what it creates.  The cases are those of an EndIf   *)
(* that control does not reach, of If, of Else (two), break and continue,  *)
(* EndIf (three, a merge is like the first), While, EndWhile (three), and  *)
(* of the end of the two funnels.                                          *)
(***************************************************************************)
Pays(j, w, t, o, d, b, j2, w2, t2, o2, d2, b2) ==
    \/ /\ b2 = b /\ j2 <= j /\ w2 <= w /\ t2 <= t
       /\ o2 = o /\ d2 = d
    \/ /\ b2 = b + 2 /\ j2 <= j /\ w2 <= w /\ t2 <= t + 1
       /\ o = 1 /\ o2 = 1 /\ d2 = d
    \/ /\ b2 = b /\ j2 <= j /\ w2 <= w + 1 /\ t2 <= t - 1
       /\ o = 1 /\ o2 <= 1 /\ d2 = d
    \/ /\ b2 = b /\ j2 <= j /\ w2 <= w /\ t2 <= t - 1
       /\ o = 0 /\ o2 <= 1 /\ d2 = d
    \/ /\ b2 = b /\ j2 <= j /\ w2 <= w + 1 /\ t2 <= t
       /\ o = 1 /\ o2 = 0 /\ d2 = d
    \/ /\ b2 = b + 1 /\ j2 <= j + 1 /\ w2 <= w - 1 /\ t2 <= t
       /\ o2 = o /\ d2 = d
    \/ /\ b2 = b + 1 /\ j2 <= j /\ w2 <= w /\ t2 <= t
       /\ o2 = o /\ d2 = d
    \/ /\ b2 = b + 1 /\ j2 <= j /\ w2 <= w - 1 /\ t2 <= t
       /\ o = 0 /\ o2 = 1 /\ d2 = d
    \/ /\ b2 = b + 2 /\ j2 <= j /\ w2 <= w + 1 /\ t2 <= t
       /\ o2 = o /\ d2 = d
    \/ /\ b2 = b + 2 /\ j2 <= j /\ w2 <= w + 1 /\ t2 <= t
       /\ o = 1 /\ o2 = 0 /\ d = 0 /\ d2 = 2
    \/ /\ b2 = b + 2 /\ j2 <= j /\ w2 <= w /\ t2 <= t
       /\ o = 0 /\ o2 = 0 /\ d = 0 /\ d2 = 2
    \/ /\ b2 = b + 1 /\ j2 <= j /\ w2 <= w /\ t2 <= t
       /\ o = 0 /\ o2 = 0 /\ d = 0 /\ d2 = 1
    \/ /\ b2 = b /\ j2 <= j + 1 /\ w2 <= w - 1 /\ t2 <= t
       /\ o2 = o /\ d = 2 /\ d2 = 1
    \/ /\ b2 = b /\ j2 <= j /\ w2 <= w - 1 /\ t2 <= t
       /\ o = 0 /\ o2 = 1 /\ d = 1 /\ d2 = 0

StepPays == Pays(JoinCount, WaitingCount, ThenCount, Open, Owed, block_count,
                 JoinCount', WaitingCount', ThenCount', Open', Owed',
                 block_count')

LEMMA Balanced ==
  ASSUME IInv, Budget, StepPays,
         JoinCount' \in Nat, WaitingCount' \in Nat, ThenCount' \in Nat,
         Open' \in {0, 1}, Owed' \in {0, 1, 2}, block_count' \in Nat
  PROVE  Budget'
<1>1. PICK j \in Nat, w \in Nat, t \in Nat, o \in Nat, d \in Nat, b \in Nat :
         /\ j = JoinCount /\ w = WaitingCount /\ t = ThenCount
         /\ o = Open /\ d = Owed /\ b = block_count
  BY Counts
<1>2. PICK j2 \in Nat, w2 \in Nat, t2 \in Nat, o2 \in Nat, d2 \in Nat,
           b2 \in Nat :
         /\ j2 = JoinCount' /\ w2 = WaitingCount' /\ t2 = ThenCount'
         /\ o2 = Open' /\ d2 = Owed' /\ b2 = block_count'
  OBVIOUS
<1>3. 3 * j + 2 * w + 2 * t + 2 * o + d <= b + 1
  BY <1>1 DEF Budget
<1>4. Pays(j, w, t, o, d, b, j2, w2, t2, o2, d2, b2)
  BY <1>1, <1>2 DEF StepPays
<1>5. 3 * j2 + 2 * w2 + 2 * t2 + 2 * o2 + d2 <= b2 + 1
  BY <1>3, <1>4 DEF Pays
<1> QED BY <1>2, <1>5 DEF Budget

LEMMA BudgetKept ==
  ASSUME BudgetInv,
         UNCHANGED <<block_count, succ, frames, funnel, current>>,
         phase' \in {phase, "rejected"} \/ current # NoBlock
  PROVE  BudgetInv'
<1>1. /\ JoinCount' = JoinCount /\ WaitingCount' = WaitingCount
      /\ ThenCount' = ThenCount /\ Owed' = Owed /\ Open' = Open
  BY DEF JoinCount, Joins, Incoming, WaitingCount, Waiting, ThenCount, Thens,
         Owed, Open
<1> QED BY <1>1 DEF BudgetInv, Budget

LEMMA RejectionKeeps ==
  ASSUME IInv, BudgetInv, Reject
  PROVE  BudgetInv'
BY BudgetKept DEF Reject, cfg

LEMMA IfBudget ==
  ASSUME IInv, BudgetInv, NEW c \in Conditions, If(c)
  PROVE  BudgetInv'
<1>1. CASE ~Room(2)
  BY <1>1, RejectionKeeps DEF If
<1>2. CASE Room(2)
  <2> DEFINE t == block_count
             e == block_count + 1
             x == [kind |-> "then", else_block |-> e]
  <2>1. /\ funnel = <<>> /\ current # NoBlock /\ phase = "lowering"
        /\ block_count' = block_count + 2
        /\ succ' = [succ EXCEPT ![current] = <<t, e>>]
        /\ current' = t
        /\ frames' = Append(frames, x)
        /\ UNCHANGED <<phase, funnel>>
    BY <1>2 DEF If, NextStatement, Ready
  <2>2. /\ t \in AllBlocks \ Blocks /\ e \in AllBlocks \ Blocks /\ t # e
        /\ current \in AllBlocks /\ Blocks \subseteq AllBlocks
        /\ succ \in [AllBlocks -> Row]
    BY <1>2, <2>1, TwoCreated DEF IInv, Typed, TypeOK, Row
  <2>3. /\ EdgesInto(succ, t) = {} /\ EdgesInto(succ, e) = {}
        /\ t # NoBlock /\ e # NoBlock
    BY <2>2, Fresh
  <2>4. /\ succ'[current] = <<t, e>>
        /\ \A b \in AllBlocks : b # current => succ'[b] = succ[b]
    BY <2>1, <2>2
  <2>5. Thens' \subseteq Thens \cup {Len(frames) + 1}
    <3>1. /\ frames \in Seq(Frame) /\ DOMAIN frames = 1 .. Len(frames)
          /\ Len(frames) \in Nat
      BY FramesTyped
    <3>2. x \in Frame
      BY <2>2 DEF Frame
    <3> HIDE DEF x
    <3>3. /\ DOMAIN frames' = 1 .. Len(frames) + 1
          /\ \A k \in DOMAIN frames : frames'[k] = frames[k]
      BY <2>1, <3>1, <3>2, Pushed
    <3> QED BY <3>1, <3>3 DEF Thens
  <2> HIDE DEF t, e
  <2>6. /\ Waiting(succ') \subseteq Waiting(succ)
        /\ \A b : b \notin {t, e} =>
              EdgesInto(succ', b) \subseteq EdgesInto(succ, b)
        /\ \A b : b # e => EdgesInto(succ', b) \subseteq
                              EdgesInto(succ, b) \cup {<<current, 1>>}
        /\ \A b : b # t => EdgesInto(succ', b) \subseteq
                              EdgesInto(succ, b) \cup {<<current, 2>>}
    BY <2>2, <2>3, <2>4, WaitingWritten, WrittenTwo
  <2>7. AtMostOne(succ', t) /\ AtMostOne(succ', e)
    <3>1. <<current, 1>> \in Edge /\ <<current, 2>> \in Edge
      BY <2>2 DEF Edge
    <3> QED BY <2>2, <2>3, <2>6, <3>1 DEF AtMostOne
  <2>8. JoinCount' \in Nat /\ JoinCount' <= JoinCount
    BY <2>6, <2>7, NoNewJoin
  <2>9. WaitingCount' \in Nat /\ WaitingCount' <= WaitingCount
    BY <2>6, WaitingKept
  <2>10. ThenCount' \in Nat /\ ThenCount' <= ThenCount + 1
    BY <2>5, Counts, OneMore DEF ThenCount
  <2>11. Open = 1 /\ Open' = 1 /\ Owed = 0 /\ Owed' = 0
    BY <2>1, <2>3 DEF Open, Owed
  <2>12. Budget'
    <3>1. block_count' \in Nat /\ block_count' = block_count + 2
      BY <2>1, Counts
    <3> QED BY <2>8, <2>9, <2>10, <2>11, <3>1, Balanced
            DEF BudgetInv, StepPays, Pays
  <2> QED BY <2>1, <2>12 DEF BudgetInv
<1> QED BY <1>1, <1>2

LEMMA ElseBudget ==
  ASSUME IInv, BudgetInv, Else
  PROVE  BudgetInv'
<1> DEFINE n == Len(frames)
           falls == current # NoBlock
           x == [kind |-> "else",
                 then_edge |-> IF falls THEN <<current, 1>> ELSE NoEdge]
<1>1. /\ funnel = <<>> /\ frames # <<>> /\ phase = "lowering"
      /\ Top.kind = "then"
      /\ succ' = IF falls THEN [succ EXCEPT ![current] = <<NoBlock>>] ELSE succ
      /\ frames' = Append(Pop, x)
      /\ UNCHANGED <<phase, block_count, funnel>>
  BY DEF Else, Ready
<1>2. /\ n \in DOMAIN frames /\ n \in Nat /\ DOMAIN frames = 1 .. n
      /\ n \in Thens /\ frames \in Seq(Frame) /\ n = Len(frames)
  BY <1>1, FramesTyped DEF Top, Thens
<1>3. Thens' \subseteq Thens \ {n}
  <2>1. x \in Frame /\ x.kind = "else"
    <3>1. falls => <<current, 1>> \in Edge
      BY DEF IInv, Typed, TypeOK, Edge
    <3> QED BY <3>1 DEF Frame
  <2>2. frames' = Append(SubSeq(frames, 1, Len(frames) - 1), x)
    BY <1>1 DEF Pop
  <2> HIDE DEF x
  <2>3. /\ frames' \in Seq(Frame) /\ Len(frames') = n
        /\ \A k \in 1 .. n - 1 : frames'[k] = frames[k]
        /\ frames'[n] = x
    <3>1. frames \in Seq(Frame) /\ frames # <<>> /\ x \in Frame
      BY <1>1, <1>2, <2>1
    <3> QED BY <2>2, <3>1, TopReplaced
  <2>4. DOMAIN frames' = 1 .. n
    BY <2>3
  <2>5. ASSUME NEW k \in Thens'
        PROVE  k \in Thens \ {n}
    <3>1. k \in 1 .. n /\ frames'[k].kind = "then"
      BY <2>4, <2>5 DEF Thens
    <3>2. k # n
      BY <2>1, <2>3, <3>1
    <3>3. k \in 1 .. n - 1
      <4>1. n \in Nat /\ k \in 1 .. n
        BY <1>2, <3>1
      <4> HIDE DEF n
      <4> QED BY <3>2, <4>1
    <3> QED BY <1>2, <2>3, <3>1, <3>2, <3>3 DEF Thens
  <2> QED BY <2>5
<1>4. ThenCount' \in Nat /\ ThenCount' <= ThenCount - 1
  <2> HIDE DEF n
  <2> QED BY <1>2, <1>3, Counts, OneLess DEF ThenCount
<1>5. JoinCount' \in Nat /\ JoinCount' <= JoinCount
  <2>1. \A b \in AllBlocks : EdgesInto(succ', b) \subseteq EdgesInto(succ, b)
    <3>1. CASE falls
      BY <1>1, <3>1, LeftOpen
    <3>2. CASE ~falls
      BY <1>1, <3>2
    <3> QED BY <3>1, <3>2
  <2> QED BY <2>1, NoNewJoin
<1>6. CASE falls
  <2>1. /\ current \in AllBlocks /\ succ'[current] = <<NoBlock>>
        /\ \A b \in AllBlocks : b # current => succ'[b] = succ[b]
    BY <1>1, <1>6, LeftOpen DEF IInv, Typed, TypeOK
  <2>2. WaitingCount' \in Nat /\ WaitingCount' <= WaitingCount + 1
    BY <2>1, WaitingWritten, WaitingMore
  <2>3. Open = 1 /\ Open' \in {0, 1} /\ Owed = 0 /\ Owed' = 0
    BY <1>1, <1>6 DEF Open, Owed
  <2>4. Budget'
    <3>1. block_count' \in Nat /\ block_count' = block_count
      BY <1>1, Counts
    <3> QED BY <1>4, <1>5, <2>2, <2>3, <3>1, Balanced
            DEF BudgetInv, StepPays, Pays
  <2> QED BY <1>1, <2>4 DEF BudgetInv
<1>7. CASE ~falls
  <2>1. WaitingCount' \in Nat /\ WaitingCount' <= WaitingCount
    BY <1>1, <1>7, WaitingKept
  <2>2. Open = 0 /\ Open' \in {0, 1} /\ Owed = 0 /\ Owed' = 0
    BY <1>1, <1>7 DEF Open, Owed
  <2>3. Budget'
    <3>1. block_count' \in Nat /\ block_count' = block_count
      BY <1>1, Counts
    <3> QED BY <1>4, <1>5, <2>1, <2>2, <3>1, Balanced
            DEF BudgetInv, StepPays, Pays
  <2> QED BY <1>1, <2>3 DEF BudgetInv
<1> QED BY <1>6, <1>7

LEMMA LoopControlBudget ==
  ASSUME IInv, BudgetInv, NEW kind \in {"break", "continue"}, LoopControl(kind)
  PROVE  BudgetInv'
<1>1. CASE active = {}
  BY <1>1, RejectionKeeps DEF LoopControl
<1>2. CASE active # {}
  <2>1. /\ funnel = <<>> /\ current # NoBlock /\ phase = "lowering"
        /\ succ' = [succ EXCEPT ![current] = <<NoBlock>>]
        /\ current' = NoBlock
        /\ UNCHANGED <<phase, block_count, frames, funnel>>
    BY <1>2 DEF LoopControl, NextStatement, Ready
  <2>2. /\ current \in AllBlocks /\ succ'[current] = <<NoBlock>>
        /\ \A b \in AllBlocks : b # current => succ'[b] = succ[b]
        /\ \A b \in AllBlocks : EdgesInto(succ', b) \subseteq EdgesInto(succ, b)
    BY <2>1, LeftOpen DEF IInv, Typed, TypeOK
  <2>3. JoinCount' \in Nat /\ JoinCount' <= JoinCount
    BY <2>2, NoNewJoin
  <2>4. WaitingCount' \in Nat /\ WaitingCount' <= WaitingCount + 1
    BY <2>2, WaitingWritten, WaitingMore
  <2>5. ThenCount' \in Nat /\ ThenCount' <= ThenCount
    BY <2>1, ThensKept DEF Thens
  <2>6. Open = 1 /\ Open' = 0 /\ Owed = 0 /\ Owed' = 0
    BY <2>1 DEF Open, Owed
  <2>7. Budget'
    <3>1. block_count' \in Nat /\ block_count' = block_count
      BY <2>1, Counts
    <3> QED BY <2>3, <2>4, <2>5, <2>6, <3>1, Balanced
            DEF BudgetInv, StepPays, Pays
  <2> QED BY <2>1, <2>7 DEF BudgetInv
<1> QED BY <1>1, <1>2

(* The innermost statement ends, or another than an if begins.             *)
LEMMA ThensLess ==
  ASSUME IInv, frames # <<>>, frames' = Pop
  PROVE  ThenCount' \in Nat /\ ThenCount' <= ThenCount
<1>1. Thens' \subseteq Thens
  <2>1. \A k : Then(k)' => Then(k)
    BY TopGone
  <2> QED BY <2>1 DEF Thens, Then
<1> QED BY <1>1, ThensKept

(* The then list of an if waits for its join.                              *)
LEMMA ThenEdgeWaits ==
  ASSUME IInv, funnel = <<>>, frames # <<>>, Top.kind = "else",
         Top.then_edge # NoEdge
  PROVE  Top.then_edge \in Waiting(succ) /\ Top.then_edge \in Edge
<1> DEFINE n == Len(frames)
<1>1. n \in DOMAIN frames /\ Top = frames[n]
  BY FramesTyped DEF Top
<1>2. OpenFrame(n) /\ FrameEdge(n) = Top.then_edge
  BY <1>1 DEF OpenFrame, FrameEdge, Loop
<1> QED BY <1>1, <1>2 DEF IInv, Shape, EdgesWait, Waiting

LEMMA EndIfBudget ==
  ASSUME IInv, BudgetInv, EndIf
  PROVE  BudgetInv'
<1> DEFINE p == Top.then_edge
           t == block_count
           joins == ~(current = NoBlock /\ p = NoEdge)
           s == Continued(t)
<1>1. funnel = <<>> /\ frames # <<>> /\ phase = "lowering"
      /\ Top.kind = "else"
  BY DEF EndIf, Ready
<1>2. CASE joins /\ ~Room(1)
  <2>1. Reject
    BY <1>2 DEF EndIf
  <2> QED BY <2>1, RejectionKeeps
<1>3. CASE ~joins
  <2>1. /\ frames' = Pop
        /\ UNCHANGED <<phase, cfg, current, control, active, funnel>>
    BY <1>3 DEF EndIf
  <2>2. UNCHANGED <<phase, block_count, succ, current, funnel>>
    BY <2>1 DEF cfg
  <2>3. ThenCount' \in Nat /\ ThenCount' <= ThenCount
    BY <1>1, <2>1, ThensLess
  <2>4. JoinCount' \in Nat /\ JoinCount' <= JoinCount
    BY <2>2, NoNewJoin
  <2>5. WaitingCount' \in Nat /\ WaitingCount' <= WaitingCount
    BY <2>2, WaitingKept
  <2>6. Open' = Open /\ Owed' = Owed /\ Open' \in {0, 1} /\ Owed' \in {0, 1, 2}
    BY <2>2, Counts DEF Open, Owed
  <2>7. Budget'
    <3>1. block_count' \in Nat /\ block_count' = block_count
      BY <2>2, Counts
    <3> QED BY <2>3, <2>4, <2>5, <2>6, <3>1, Balanced
            DEF BudgetInv, StepPays, Pays
  <2> QED BY <1>1, <2>2, <2>7 DEF BudgetInv
<1>4. CASE joins /\ Room(1)
  <2>1. /\ block_count' = block_count + 1
        /\ succ' = JoinThen(s, t)
        /\ current' = t /\ frames' = Pop
        /\ UNCHANGED <<phase, funnel>>
    BY <1>4 DEF EndIf, Continued
  <2>2. /\ t \in AllBlocks \ Blocks /\ t # NoBlock
        /\ EdgesInto(succ, t) = {}
        /\ succ \in [AllBlocks -> Row] /\ current \in AllBlocks \cup {NoBlock}
    BY <1>4, <2>1, OneCreated, Fresh DEF IInv, Typed, TypeOK, Row
  <2>3. p # NoEdge => p \in Waiting(succ) /\ p \in Edge
    BY <1>1, ThenEdgeWaits
  <2>4. /\ s \in [AllBlocks -> Row] /\ Waiting(s) \subseteq Waiting(succ)
        /\ \A b \in AllBlocks \ {t} : EdgesInto(s, b) \subseteq EdgesInto(succ, b)
        /\ EdgesInto(s, t) \subseteq {<<current, 1>>}
        /\ current = NoBlock => EdgesInto(s, t) = {}
        /\ current # NoBlock => <<current, 1>> \in Edge
    <3>1. CASE current = NoBlock
      BY <2>2, <3>1 DEF Continued
    <3>2. CASE current # NoBlock
      <4>1. /\ s = [succ EXCEPT ![current] = <<t>>] /\ current \in AllBlocks
            /\ <<t>> \in Row
        BY <2>2, <3>2, Rows DEF Continued
      <4>2. /\ s \in [AllBlocks -> Row] /\ s[current] = <<t>>
            /\ \A b \in AllBlocks : b # current => s[b] = succ[b]
        BY <2>2, <4>1
      <4> HIDE DEF s, t
      <4>3. Waiting(s) \subseteq Waiting(succ)
        BY <2>2, <4>1, <4>2, WaitingWritten
      <4>4. /\ \A b : b # t => EdgesInto(s, b) \subseteq EdgesInto(succ, b)
            /\ EdgesInto(s, t) \subseteq EdgesInto(succ, t) \cup {<<current, 1>>}
        BY <4>1, <4>2, WrittenOne
      <4>5. <<current, 1>> \in Edge
        BY <4>1 DEF Edge
      <4> QED BY <2>2, <3>2, <4>2, <4>3, <4>4, <4>5
    <3> QED BY <3>1, <3>2
  <2>5. ThenCount' \in Nat /\ ThenCount' <= ThenCount
    BY <1>1, <2>1, ThensLess
  <2>6. Open' = 1 /\ Owed = 0 /\ Owed' = 0
        /\ Open = IF current = NoBlock THEN 0 ELSE 1
    BY <1>1, <2>1, <2>2 DEF Open, Owed
  <2>7. block_count' \in Nat /\ block_count' = block_count + 1
    BY <2>1, Counts
  <2> HIDE DEF s
  <2>8. CASE p = NoEdge
    <3>1. succ' = s /\ current # NoBlock
      BY <1>4, <2>1, <2>8 DEF JoinThen
    <3>2. AtMostOne(succ', t)
      BY <2>4, <3>1 DEF AtMostOne
    <3>3. JoinCount' \in Nat /\ JoinCount' <= JoinCount
      BY <2>4, <3>1, <3>2, NoNewJoin
    <3>4. WaitingCount' \in Nat /\ WaitingCount' <= WaitingCount
      BY <2>4, <3>1, WaitingKept
    <3>5. Budget'
      BY <2>5, <2>6, <2>7, <3>1, <3>3, <3>4, Balanced
         DEF BudgetInv, StepPays, Pays
    <3> QED BY <1>1, <2>1, <3>5 DEF BudgetInv
  <2>9. CASE p # NoEdge
    <3>1. succ' = Patch(s, p, t)
      BY <2>1, <2>9 DEF JoinThen
    <3>2. p \in Edge /\ p \in Waiting(succ) /\ t \in AllBlocks
      BY <2>2, <2>3, <2>9
    <3> HIDE DEF p, t
    <3>3. /\ \A b \in AllBlocks \ {t} :
                EdgesInto(succ', b) \subseteq EdgesInto(succ, b)
          /\ EdgesInto(succ', t) \subseteq EdgesInto(s, t) \cup {p}
      BY <2>4, <3>1, <3>2, Patched
    <3>4. Waiting(succ') \subseteq Waiting(succ) \ {p}
      BY <2>4, <3>1, <3>2, WaitingPatched
    <3>5. WaitingCount' \in Nat /\ WaitingCount' <= WaitingCount - 1
      BY <3>2, <3>4, WaitingLess
    <3>6. CASE current = NoBlock
      <4>1. AtMostOne(succ', t)
        BY <2>4, <3>2, <3>3, <3>6 DEF AtMostOne
      <4>2. JoinCount' \in Nat /\ JoinCount' <= JoinCount
        BY <3>3, <4>1, NoNewJoin
      <4>3. Budget'
        BY <2>5, <2>6, <2>7, <3>5, <3>6, <4>2, Balanced
           DEF BudgetInv, StepPays, Pays
      <4> QED BY <1>1, <2>1, <4>3 DEF BudgetInv
    <3>7. CASE current # NoBlock
      <4>1. JoinCount' \in Nat /\ JoinCount' <= JoinCount + 1
        BY <3>3, OneNewJoin
      <4>2. Budget'
        BY <2>5, <2>6, <2>7, <3>5, <3>7, <4>1, Balanced
           DEF BudgetInv, StepPays, Pays
      <4> QED BY <1>1, <2>1, <4>2 DEF BudgetInv
    <3> QED BY <3>6, <3>7
  <2> QED BY <2>8, <2>9
<1> QED BY <1>2, <1>3, <1>4

LEMMA WhileBudget ==
  ASSUME IInv, BudgetInv, NEW c \in Conditions, While(c)
  PROVE  BudgetInv'
<1>1. CASE ~Room(2)
  BY <1>1, RejectionKeeps DEF While
<1>2. CASE Room(2)
  <2> DEFINE h == block_count
             y == block_count + 1
             x == LoopFrame(h)
             s == [succ EXCEPT ![current] = <<h>>]
  <2>1. /\ funnel = <<>> /\ current # NoBlock /\ phase = "lowering"
        /\ block_count' = block_count + 2
        /\ succ' = Begun(h, y)
        /\ current' = y
        /\ frames' = Append(frames, x)
        /\ UNCHANGED <<phase, funnel>>
    BY <1>2 DEF While, NextStatement, Ready, Begun
  <2>2. /\ h \in AllBlocks \ Blocks /\ y \in AllBlocks \ Blocks /\ h # y
        /\ Blocks \subseteq AllBlocks
    BY <1>2, <2>1, TwoCreated
  <2>3. /\ current \in Blocks /\ current \in AllBlocks
        /\ succ \in [AllBlocks -> Row] /\ h # current
        /\ h # NoBlock /\ y # NoBlock
    BY <2>1, <2>2, Fresh DEF IInv, Typed, TypeOK, Row, Shape, BlocksKnown
  <2>4. Thens' \subseteq Thens
    <3>1. frames \in Seq(Frame) /\ DOMAIN frames = 1 .. Len(frames)
          /\ Len(frames) \in Nat
      BY FramesTyped
    <3>2. x \in Frame /\ x.kind = "while"
      BY <2>2 DEF Frame, LoopFrame, IInv, Typed, TypeOK, Blocks
    <3> HIDE DEF x
    <3>3. /\ DOMAIN frames' = 1 .. Len(frames) + 1
          /\ \A k \in DOMAIN frames : frames'[k] = frames[k]
          /\ frames'[Len(frames) + 1] = x
      BY <2>1, <3>1, <3>2, Pushed
    <3> QED BY <3>1, <3>2, <3>3 DEF Thens
  <2> HIDE DEF h, y, x
  <2>5. /\ \A b \in AllBlocks \ {h, y} :
              EdgesInto(succ', b) \subseteq EdgesInto(succ, b)
        /\ AtMostOne(succ', h) /\ AtMostOne(succ', y)
    BY <2>1, <2>2, <2>3, HeaderWritten
  <2>6. Waiting(succ') \subseteq Waiting(succ) \cup {<<h, 2>>}
    <3>1. /\ s[current] = <<h>> /\ s[h] = succ[h]
          /\ \A b \in AllBlocks : b # current => s[b] = succ[b]
      BY <2>2, <2>3
    <3>2. succ' = [s EXCEPT ![h] = <<y, NoBlock>>] /\ DOMAIN s = AllBlocks
      BY <2>1, <2>3 DEF Begun
    <3> HIDE DEF s
    <3>3. /\ succ'[h] = <<y, NoBlock>>
          /\ \A b \in AllBlocks : b # h => succ'[b] = s[b]
      BY <2>2, <3>2
    <3>4. Waiting(s) \subseteq Waiting(succ)
      BY <2>3, <3>1, WaitingWritten
    <3>5. Waiting(succ') \subseteq Waiting(s) \cup {<<h, 2>>}
      BY <2>2, <2>3, <3>3, WaitingWritten
    <3> QED BY <3>4, <3>5
  <2>7. JoinCount' \in Nat /\ JoinCount' <= JoinCount
    BY <2>5, NoNewJoin
  <2>8. WaitingCount' \in Nat /\ WaitingCount' <= WaitingCount + 1
    BY <2>6, WaitingMore
  <2>9. ThenCount' \in Nat /\ ThenCount' <= ThenCount
    BY <2>4, ThensKept
  <2>10. Open = 1 /\ Open' = 1 /\ Owed = 0 /\ Owed' = 0
    BY <2>1, <2>3 DEF Open, Owed
  <2>11. Budget'
    <3>1. block_count' \in Nat /\ block_count' = block_count + 2
      BY <2>1, Counts
    <3> QED BY <2>7, <2>8, <2>9, <2>10, <3>1, Balanced
            DEF BudgetInv, StepPays, Pays
  <2> QED BY <2>1, <2>11 DEF BudgetInv
<1> QED BY <1>1, <1>2

LEMMA EndWhileBudget ==
  ASSUME IInv, BudgetInv, EndWhile
  PROVE  BudgetInv'
<1> DEFINE falls == current # NoBlock
           latched == \/ falls
                      \/ \E i \in FunnelStart(Top) .. Len(control) :
                            control[i].kind = "continue"
           out == IF latched THEN block_count + 1 ELSE block_count
<1>1. funnel = <<>> /\ frames # <<>> /\ phase = "lowering"
  BY DEF EndWhile, Ready
<1>2. CASE ~Room(IF latched THEN 2 ELSE 1)
  <2>1. Reject
    BY <1>2 DEF EndWhile
  <2> QED BY <2>1, RejectionKeeps
<1>3. CASE Room(IF latched THEN 2 ELSE 1)
  <2>1. /\ block_count' = out + 1
        /\ succ' = IF falls THEN [succ EXCEPT ![current] = <<NoBlock>>] ELSE succ
        /\ funnel' = IF latched
                     THEN Funnel("continue",
                                 IF falls THEN <<current, 1>> ELSE NoEdge,
                                 block_count, out)
                     ELSE Funnel("break", <<Top.header_block, 2>>, out, out)
        /\ current' = NoBlock
        /\ UNCHANGED <<phase, frames>>
    BY <1>3 DEF EndWhile
  <2>2. /\ Open' = 0 /\ Owed = 0
        /\ Owed' = IF latched THEN 2 ELSE 1
        /\ Open = IF falls THEN 1 ELSE 0
    BY <1>1, <2>1 DEF Open, Owed, Funnel
  <2>3. ThenCount' \in Nat /\ ThenCount' <= ThenCount
    BY <2>1, ThensKept DEF Thens
  <2>4. JoinCount' \in Nat /\ JoinCount' <= JoinCount
    <3>1. \A b \in AllBlocks : EdgesInto(succ', b) \subseteq EdgesInto(succ, b)
      <4>1. CASE falls
        BY <2>1, <4>1, LeftOpen
      <4>2. CASE ~falls
        BY <2>1, <4>2
      <4> QED BY <4>1, <4>2
    <3> QED BY <3>1, NoNewJoin
  <2>5. /\ WaitingCount' \in Nat
        /\ falls => WaitingCount' <= WaitingCount + 1
        /\ ~falls => WaitingCount' <= WaitingCount
    <3>1. CASE falls
      <4>1. /\ current \in AllBlocks /\ succ'[current] = <<NoBlock>>
            /\ \A b \in AllBlocks : b # current => succ'[b] = succ[b]
        BY <2>1, <3>1, LeftOpen DEF IInv, Typed, TypeOK
      <4> QED BY <3>1, <4>1, WaitingWritten, WaitingMore
    <3>2. CASE ~falls
      BY <2>1, <3>2, WaitingKept
    <3> QED BY <3>1, <3>2
  <2>6. /\ block_count' \in Nat
        /\ block_count' = IF latched THEN block_count + 2 ELSE block_count + 1
    BY <2>1, Counts
  <2>7. falls => latched
    OBVIOUS
  <2> HIDE DEF falls, latched
  <2>8. Budget'
    <3>1. CASE falls
      BY <2>2, <2>3, <2>4, <2>5, <2>6, <2>7, <3>1, Balanced
         DEF BudgetInv, StepPays, Pays
    <3>2. CASE ~falls /\ latched
      BY <2>2, <2>3, <2>4, <2>5, <2>6, <3>2, Balanced
         DEF BudgetInv, StepPays, Pays
    <3>3. CASE ~falls /\ ~latched
      BY <2>2, <2>3, <2>4, <2>5, <2>6, <3>3, Balanced
         DEF BudgetInv, StepPays, Pays
    <3> QED BY <3>1, <3>2, <3>3
  <2> QED BY <1>1, <2>1, <2>8 DEF BudgetInv
<1> QED BY <1>2, <1>3

LEMMA FunnelEdgeBudget ==
  ASSUME IInv, BudgetInv, FunnelEdge
  PROVE  BudgetInv'
<1> DEFINE f == funnel[1]
           o == Offered(f)[f.index]
           p == f.pending
           e == o.edge
           t == block_count
           merges == o.kind = f.kind /\ p # NoEdge
<1>1. /\ funnel # <<>> /\ HasEdge /\ phase = "lowering"
      /\ UNCHANGED <<current, control, frames>>
  BY DEF FunnelEdge
<1>2. f \in FunnelRecord /\ f.index \in Nat
  BY <1>1, FunnelFacts
<1>3. ThenCount' \in Nat /\ ThenCount' <= ThenCount /\ Open' = Open
      /\ Open' \in {0, 1}
  BY <1>1, ThensKept, Counts DEF Thens, Open
<1>4. CASE merges /\ ~Room(1)
  <2>1. /\ phase' = "rejected"
        /\ UNCHANGED <<block_count, succ, finished, loops, layout, funnel>>
    BY <1>4 DEF FunnelEdge
  <2> QED BY <1>1, <2>1, BudgetKept
<1>5. CASE ~merges
  <2>1. /\ UNCHANGED <<phase, block_count, succ>>
        /\ funnel' = << Skipped(f) >>
           \/ funnel' = << [f EXCEPT !.index = @ + 1, !.pending = e] >>
    BY <1>5 DEF FunnelEdge
  <2>2. Owed' = Owed /\ Owed' \in {0, 1, 2}
    <3>1. funnel' # <<>> /\ funnel'[1].kind = f.kind
      <4> HIDE DEF f, e
      <4>1. Skipped(f).kind = f.kind
        BY <1>2 DEF Skipped, FunnelRecord
      <4>2. [f EXCEPT !.index = @ + 1, !.pending = e].kind = f.kind
        <5> DEFINE g == [f EXCEPT !.index = @ + 1]
        <5>1. g.kind = f.kind /\ g \in FunnelRecord
          BY <1>2 DEF FunnelRecord
        <5> HIDE DEF g
        <5>2. [g EXCEPT !.pending = e].kind = g.kind
          BY <5>1 DEF FunnelRecord
        <5> QED BY <5>1, <5>2 DEF g
      <4>3. PICK g : funnel' = <<g>> /\ g.kind = f.kind
        BY <2>1, <4>1, <4>2
      <4> QED BY <4>3
    <3> QED BY <1>1, <3>1, Counts DEF Owed
  <2>3. JoinCount' \in Nat /\ JoinCount' <= JoinCount
    BY <2>1, NoNewJoin
  <2>4. WaitingCount' \in Nat /\ WaitingCount' <= WaitingCount
    BY <2>1, WaitingKept
  <2>5. Budget'
    <3>1. block_count' \in Nat /\ block_count' = block_count
      BY <2>1, Counts
    <3> QED BY <1>3, <2>2, <2>3, <2>4, <3>1, Balanced
            DEF BudgetInv, StepPays, Pays
  <2> QED BY <1>1, <2>1, <2>5 DEF BudgetInv
<1>6. CASE merges /\ Room(1)
  <2> DEFINE g == [f EXCEPT !.index = @ + 1, !.pending = <<t, 1>>]
             s1 == Patch(succ, p, t)
             s2 == Patch(s1, e, t)
  <2>1. /\ funnel' = <<g>> /\ UNCHANGED <<phase, control, frames>>
        /\ block_count' = block_count + 1
        /\ succ' = Merged(p, e, t)
    BY <1>6 DEF FunnelEdge, Merged
  <2>2. t \in AllBlocks \ Blocks /\ t \in AllBlocks
        /\ succ \in [AllBlocks -> Row]
    BY <1>6, <2>1, OneCreated DEF IInv, Typed, TypeOK, Row
  <2>3. /\ g.kind = f.kind /\ g.index = f.index + 1
        /\ g.implicit = f.implicit
    <3>1. f \in FunnelRecord /\ <<t, 1>> \in Edge
      BY <1>2, <2>2 DEF Edge
    <3> HIDE DEF f, t
    <3> QED BY <3>1, Pended
  <2>4. LivePending
    BY <1>1, <1>6 DEF LivePending
  <2>5. /\ e \in Waiting(succ) /\ e \in Edge
        /\ LivePending => p # e
    <3> HIDE DEF g
    <3> QED BY <1>1, <1>6, <2>1, <2>3, Taken
  <2>6. p \in Waiting(succ) /\ p \in Edge /\ e \in Waiting(succ) \ {p}
    BY <2>4, <2>5 DEF IInv, Shape, EdgesWait, Waiting
  <2>7. Owed' = Owed /\ Owed' \in {0, 1, 2}
    <3>1. funnel' # <<>> /\ funnel'[1].kind = f.kind
      BY <2>1, <2>3
    <3> QED BY <1>1, <3>1, Counts DEF Owed
  <2> HIDE DEF f, o, p, e, t, g
  <2>8. Waiting(succ') \subseteq ((Waiting(succ) \ {p}) \ {e}) \cup {<<t, 1>>}
    <3>1. /\ s1 \in [AllBlocks -> Row]
          /\ Waiting(s1) \subseteq Waiting(succ) \ {p}
      BY <2>2, <2>6, Patched, WaitingPatched
    <3>2. succ' = [s2 EXCEPT ![t] = <<NoBlock>>]
      BY <2>1 DEF Merged
    <3> HIDE DEF s1
    <3>3. /\ s2 \in [AllBlocks -> Row]
          /\ Waiting(s2) \subseteq Waiting(s1) \ {e}
      BY <2>2, <2>5, <3>1, Patched, WaitingPatched
    <3> HIDE DEF s2
    <3>4. /\ succ'[t] = <<NoBlock>>
          /\ \A b \in AllBlocks : b # t => succ'[b] = s2[b]
      BY <2>2, <3>2, <3>3
    <3>5. Waiting(succ') \subseteq Waiting(s2) \cup {<<t, 1>>}
      BY <2>2, <3>4, WaitingWritten
    <3> QED BY <3>1, <3>3, <3>5
  <2>9. WaitingCount' \in Nat /\ WaitingCount' <= WaitingCount - 1
    BY <2>6, <2>8, WaitingMerged
  <2>10. JoinCount' \in Nat /\ JoinCount' <= JoinCount + 1
    <3>1. \A b \in AllBlocks \ {t} :
             EdgesInto(succ', b) \subseteq EdgesInto(succ, b)
      BY <2>1, <2>2, <2>5, <2>6, MergeWritten
    <3> QED BY <3>1, OneNewJoin
  <2>11. Budget'
    <3>1. block_count' \in Nat /\ block_count' = block_count + 1
      BY <2>1, Counts
    <3> QED BY <1>3, <2>7, <2>9, <2>10, <3>1, Balanced
            DEF BudgetInv, StepPays, Pays
  <2> QED BY <1>1, <2>1, <2>11 DEF BudgetInv
<1> QED BY <1>4, <1>5, <1>6

(* The latch has one predecessor; the header becomes a join.               *)
LEMMA CloseContinueBudget ==
  ASSUME IInv, BudgetInv, CloseContinueFunnel
  PROVE  BudgetInv'
<1> DEFINE f == funnel[1]
           p == f.pending
           t == f.target
           h == Top.header_block
           s == Patch(succ, p, t)
<1>1. /\ funnel # <<>> /\ ~HasEdge /\ f.kind = "continue"
      /\ phase = "lowering"
      /\ succ' = [s EXCEPT ![t] = <<h>>]
      /\ funnel' = Funnel("break", <<h, 2>>, f.exit_block, f.exit_block)
      /\ UNCHANGED <<phase, block_count, current, frames>>
  BY DEF CloseContinueFunnel, LatchSuccessors
<1>2. /\ p \in Waiting(succ) /\ p \in Edge
      /\ succ \in [AllBlocks -> Row] /\ t \in AllBlocks /\ h \in AllBlocks
      /\ h # NoBlock /\ EdgesInto(succ, t) = {} /\ current = NoBlock
      /\ t # h
  <2>1. p \in Waiting(succ) /\ p \in Edge
    BY <1>1, Closed
  <2>2. t \in AllBlocks /\ h \in AllBlocks /\ current = NoBlock
    BY <1>1, FunnelFacts
  <2>3. EdgesInto(succ, t) = {}
    BY <1>1 DEF IInv, Shape, FewEntries
  <2>4. t # h
    BY <1>1, FunnelFacts DEF IInv, Shape, FunnelSound
  <2> QED BY <2>1, <2>2, <2>3, <2>4, NoBlockAssumption
          DEF IInv, Typed, TypeOK, Row
<1>3. Owed = 2 /\ Owed' = 1 /\ Open = 0 /\ Open' = 0
  BY <1>1, <1>2 DEF Owed, Open, Funnel
<1>4. ThenCount' \in Nat /\ ThenCount' <= ThenCount
  BY <1>1, ThensKept DEF Thens
<1> HIDE DEF f, p, t, h
<1>5. /\ s \in [AllBlocks -> Row]
      /\ \A b \in AllBlocks \ {t} : EdgesInto(s, b) \subseteq EdgesInto(succ, b)
      /\ EdgesInto(s, t) \subseteq {p}
      /\ Waiting(s) \subseteq Waiting(succ) \ {p}
  BY <1>2, Patched, WaitingPatched
<1> HIDE DEF s
<1>6. /\ succ'[t] = <<h>>
      /\ \A b \in AllBlocks : b # t => succ'[b] = s[b]
  BY <1>1, <1>2, <1>5
<1>7. /\ Waiting(succ') \subseteq Waiting(s)
      /\ \A b : b # h => EdgesInto(succ', b) \subseteq EdgesInto(s, b)
  BY <1>2, <1>6, WaitingWritten, WrittenOne
<1>8. WaitingCount' \in Nat /\ WaitingCount' <= WaitingCount - 1
  BY <1>2, <1>5, <1>7, WaitingLess
<1>9. JoinCount' \in Nat /\ JoinCount' <= JoinCount + 1
  <2>1. AtMostOne(succ', t)
    BY <1>2, <1>5, <1>7 DEF AtMostOne
  <2>2. \A b \in AllBlocks \ {h} : \/ EdgesInto(succ', b) \subseteq EdgesInto(succ, b)
                                   \/ AtMostOne(succ', b)
    BY <1>5, <1>7, <2>1
  <2> QED BY <2>2, OneNewJoin
<1>10. Budget'
  <2>1. block_count' \in Nat /\ block_count' = block_count
    BY <1>1, Counts
  <2> QED BY <1>3, <1>4, <1>8, <1>9, <2>1, Balanced
          DEF BudgetInv, StepPays, Pays
<1> QED BY <1>1, <1>10 DEF BudgetInv

LEMMA CloseBreakBudget ==
  ASSUME IInv, BudgetInv, CloseBreakFunnel
  PROVE  BudgetInv'
<1> DEFINE f == funnel[1]
           p == f.pending
           x == f.exit_block
<1>1. /\ funnel # <<>> /\ ~HasEdge /\ f.kind = "break"
      /\ phase = "lowering"
      /\ succ' = Patch(succ, p, x)
      /\ current' = x /\ frames' = Pop /\ funnel' = <<>>
      /\ UNCHANGED <<phase, block_count>>
  BY DEF CloseBreakFunnel
<1>2. /\ p \in Waiting(succ) /\ p \in Edge
      /\ succ \in [AllBlocks -> Row] /\ x \in AllBlocks
      /\ x # NoBlock /\ EdgesInto(succ, x) = {} /\ current = NoBlock
      /\ frames # <<>>
  <2>1. p \in Waiting(succ) /\ p \in Edge
    BY <1>1, Closed
  <2>2. x \in AllBlocks /\ current = NoBlock /\ frames # <<>>
    BY <1>1, FunnelFacts
  <2>3. EdgesInto(succ, x) = {}
    BY <1>1 DEF IInv, Shape, FewEntries
  <2> QED BY <2>1, <2>2, <2>3, NoBlockAssumption
          DEF IInv, Typed, TypeOK, Row
<1>3. Owed = 1 /\ Owed' = 0 /\ Open = 0 /\ Open' = 1
  BY <1>1, <1>2 DEF Owed, Open
<1>4. ThenCount' \in Nat /\ ThenCount' <= ThenCount
  BY <1>1, <1>2, ThensLess
<1> HIDE DEF f, p, x
<1>5. /\ \A b \in AllBlocks \ {x} :
            EdgesInto(succ', b) \subseteq EdgesInto(succ, b)
      /\ EdgesInto(succ', x) \subseteq {p}
      /\ Waiting(succ') \subseteq Waiting(succ) \ {p}
  BY <1>1, <1>2, Patched, WaitingPatched
<1>6. WaitingCount' \in Nat /\ WaitingCount' <= WaitingCount - 1
  BY <1>2, <1>5, WaitingLess
<1>7. JoinCount' \in Nat /\ JoinCount' <= JoinCount
  <2>1. AtMostOne(succ', x)
    BY <1>2, <1>5 DEF AtMostOne
  <2> QED BY <1>5, <2>1, NoNewJoin
<1>8. Budget'
  <2>1. block_count' \in Nat /\ block_count' = block_count
    BY <1>1, Counts
  <2> QED BY <1>3, <1>4, <1>6, <1>7, <2>1, Balanced
          DEF BudgetInv, StepPays, Pays
<1> QED BY <1>1, <1>8 DEF BudgetInv
-----------------------------------------------------------------------------
LEMMA BudgetInit == Init => IInv /\ BudgetInv
<1> SUFFICES ASSUME Init
             PROVE  IInv /\ BudgetInv
  OBVIOUS
<1>1. IInv
  BY IInvInit
<1>2. current # NoBlock /\ funnel = <<>> /\ frames = <<>> /\ block_count = 1
      /\ phase = "lowering" /\ succ = [b \in AllBlocks |-> <<>>]
  BY BoundsAssumption, NoBlockAssumption DEF Init, AllBlocks
<1>3. Waiting(succ) = {} /\ Thens = {} /\ \A b : Incoming(b) = {}
  BY <1>2 DEF Waiting, Thens, Incoming, Edge
<1>4. WaitingCount = 0 /\ ThenCount = 0 /\ JoinCount = 0
  <2>1. Cardinality({}) = 0
    BY FS_EmptySet
  <2>2. Joins = {}
    BY <1>3, <2>1 DEF Joins
  <2> QED BY <1>3, <2>1, <2>2 DEF WaitingCount, ThenCount, JoinCount
<1>5. Open = 1 /\ Owed = 0
  BY <1>2 DEF Open, Owed
<1> QED BY <1>1, <1>2, <1>4, <1>5 DEF BudgetInv, Budget

LEMMA BudgetStep ==
  ASSUME IInv, BudgetInv, [Next]_vars
  PROVE  BudgetInv'
<1>1. ASSUME NEW a \in Assigns, Assign(a)
      PROVE  BudgetInv'
  BY <1>1, BudgetKept DEF Assign
<1>2. ASSUME NEW c \in Conditions, If(c)
      PROVE  BudgetInv'
  BY <1>2, IfBudget
<1>3. ASSUME NEW c \in Conditions, While(c)
      PROVE  BudgetInv'
  BY <1>3, WhileBudget
<1>4. ASSUME NEW kind \in {"break", "continue"}, LoopControl(kind)
      PROVE  BudgetInv'
  BY <1>4, LoopControlBudget
<1>5. CASE StatementAfterTerminator
  BY <1>5, RejectionKeeps DEF StatementAfterTerminator
<1>6. CASE Return
  BY <1>6, BudgetKept DEF Return, NextStatement
<1>7. CASE UNCHANGED vars
  BY <1>7, BudgetKept DEF vars
<1> QED BY <1>1, <1>2, <1>3, <1>4, <1>5, <1>6, <1>7, ElseBudget, EndIfBudget,
           EndWhileBudget, FunnelEdgeBudget, CloseContinueBudget,
           CloseBreakBudget DEF Next, Compiler

(* Lowering never writes past the block table, and a function it has       *)
(* lowered has no more joins than a third of its blocks besides the entry  *)
(* (create_block; MIGA80_MAX_CFG_JOINS, which bounds the phis of the value *)
(* table).                                                                 *)
THEOREM JoinsWithinBudget == Spec => []JoinBudget
<1>1. IInv /\ BudgetInv /\ [Next]_vars => (IInv /\ BudgetInv)'
  BY BudgetStep, NextKeeps
<1>2. ASSUME IInv, BudgetInv
      PROVE  JoinBudget
  <2>1. block_count \in 1 .. MaxBlocks /\ MaxBlocks \in Nat
    BY <1>2, BoundsAssumption DEF IInv, Typed, TypeOK
  <2>2. ASSUME phase = "lowered"
        PROVE  3 * Cardinality(Joins) <= block_count - 1
    <3>1. PICK j \in Nat, w \in Nat, t \in Nat, d \in Nat, b \in Nat :
             /\ j = JoinCount /\ w = WaitingCount /\ t = ThenCount
             /\ d = Owed /\ b = block_count
      BY <1>2, Counts
    <3>2. Open = 1
      BY <1>2, <2>2 DEF BudgetInv, Open
    <3>3. 3 * j + 2 * w + 2 * t + 2 * 1 + d <= b + 1
      BY <1>2, <3>1, <3>2 DEF BudgetInv, Budget
    <3>4. 3 * j <= b - 1
      BY <3>3
    <3> QED BY <3>1, <3>4 DEF JoinCount
  <2> QED BY <2>1, <2>2 DEF JoinBudget
<1>3. IInv /\ BudgetInv => JoinBudget
  BY <1>2
<1> QED BY BudgetInit, <1>1, <1>3, PTL DEF Spec
=============================================================================
