--------------------------- MODULE ValueLocations ---------------------------
(***************************************************************************)
(* Where -O1 code keeps its values                                         *)
(* (compiler/backend_m68k/optimized.c): build_cfg_liveness,                *)
(* allocate_phi_slots, reserve_phi_temporary_if_needed,                    *)
(* build_allocation_plan, and the code that emit_value, emit_branch and    *)
(* emit_phi_edge make of the plan.                                         *)
(*                                                                         *)
(* The emitted code is run along every path of its blocks, whatever the    *)
(* words are: a register or frame slot holds the id of the value that was  *)
(* last put there.  Strings, which arrive in address registers, and the    *)
(* limit of 8192 slots of a frame are left out.                            *)
(***************************************************************************)
EXTENDS ValueIR

CONSTANTS
    RegisterCount,  \* MIGA80_DATA_REGISTER_COUNT
    FirstSaved      \* D3, the first register a function has to preserve

ASSUME RegisterAssumption == /\ RegisterCount \in Nat
                             /\ FirstSaved \in ParameterCount .. RegisterCount

VARIABLES
    stage,          \* "liveness", "phis", "blocks", "emitted", "refused" (by
                    \* the allocation) or "rejected" (by the emission)
    live_in, live_out,
    registers,      \* how many registers the plan may use
    plan,           \* struct allocation_plan: see PlacePhis
    allocated,      \* how many blocks of the layout are planned
    o1_block,       \* the block being run
    contents        \* the value that each place holds; 0 for another word

placeVars == <<stage, live_in, live_out, registers, plan, allocated,
               o1_block, contents>>
analysis == <<live_in, live_out>>
running == <<o1_block, contents>>

(* A place is a register or, counted from RegisterCount on, a frame slot.  *)
NoPlace == 0 - 1
Slot(n) == RegisterCount + n
IsRegister(place) == place \in 0 .. RegisterCount - 1
Scratch == RegisterCount - 1    \* MIGA80_SPILL_SCRATCH_REGISTER
Preserved == FirstSaved .. RegisterCount - 1

Op(id) == values[id].op
Commutative == {"add", "mul", "eq"}
LivePhis(b) == {id \in span[b] \cap live : Op(id) = "phi"}
Computed(b) == {id \in span[b] \cap live : Op(id) \notin {"phi", "const"}}
PhiSource(phi, pred) ==
    IF values[phi].from[1] = pred THEN values[phi].left ELSE values[phi].right
Sorted(ids) == SelectSeq([id \in DOMAIN values |-> id], LAMBDA id : id \in ids)
-----------------------------------------------------------------------------
(* build_cfg_liveness                                                      *)

(* What the end of a block reads.                                          *)
Final(b) == IF succ[b] = <<>> THEN {result} ELSE {condition[b]} \ {0}

BlockUse(b) == (Final(b) \cup UNION {Operands(id) : id \in Computed(b)})
               \ (span[b] \cap live)

LiveOut(in, b) ==
    UNION {in[s] \cup {PhiSource(phi, b) : phi \in LivePhis(s)} :
              s \in Succ(b)}

RECURSIVE LiveIn(_)
LiveIn(in) ==
    LET more == [b \in Blocks |->
                    BlockUse(b) \cup (LiveOut(in, b) \ (span[b] \cap live))]
    IN  IF more = in THEN in ELSE LiveIn(more)

Liveness ==
    /\ pass = "run" /\ stage = "liveness"
    /\ live_in' = LiveIn([b \in Blocks |-> {}])
    /\ live_out' = [b \in Blocks |-> LiveOut(live_in', b)]
    /\ stage' = "phis"
    /\ UNCHANGED <<registers, plan, allocated, running>>
-----------------------------------------------------------------------------
(* Phis: every phi has a frame slot of its own or shares one               *)

DefinedIn(id) == CHOOSE b \in Blocks : id \in span[b]

(* phi_live_blocks *)
PhiLiveBlocks(id) ==
    {DefinedIn(id)}
    \cup {b \in Blocks : id \in live_in[b] \cup live_out[b]}

(* Mutant: the phis of different blocks may share a slot.                  *)
MutantConflict(prior, id) == DefinedIn(prior) = DefinedIn(id)

Conflict(prior, id) ==
    \/ PhiLiveBlocks(prior) \cap PhiLiveBlocks(id) # {}
    \/ \E phi \in LivePhis(DefinedIn(id)) :
          prior \in {values[phi].left, values[phi].right}

(* allocate_phi_slots: the first slot without conflict, or a new one.      *)
PhiSlots ==
    FoldLeft(LAMBDA slots, id :
                LET taken == {slots[prior] : prior \in
                                 {p \in DOMAIN slots : Conflict(p, id)}}
                IN  (id :> Min(0 .. Cardinality(taken) \ taken)) @@ slots,
             <<>>, Sorted(UNION {LivePhis(b) : b \in Blocks}))

(* The phis of block s that are moved from slot to slot on the edge from p.*)
MovedPhis(slots, p, s) ==
    {phi \in LivePhis(s) :
        LET source == PhiSource(phi, p)
        IN  source \in DOMAIN slots /\ slots[source] # slots[phi]}

(* reserve_phi_temporary_if_needed: some edge moves slots in a circle      *)
(* (PhiEdgeCopy has the search).                                           *)
NeedsTemporary(slots) ==
    \E p \in Blocks : \E s \in Succ(p) :
        \E circle \in SUBSET MovedPhis(slots, p, s) \ {{}} :
            \A phi \in circle : \E next \in circle :
                slots[PhiSource(phi, p)] = slots[next]

SharedOnEdge(slots) ==
    \E p \in Blocks : \E s \in Succ(p) :
        \E phi, other \in MovedPhis(slots, p, s) :
            phi # other /\ slots[phi] = slots[other]

(* Mutant: phis do not save the scratch register they are moved through.   *)
MutantSavedForPhis(slots) == {}

SavedForPhis(slots) == IF slots = <<>> THEN {} ELSE {Scratch}

(* The start of a plan.  Parameters stay in the registers they arrive in.  *)
PlacePhis ==
    /\ stage = "phis"
    /\ LET slots == PhiSlots
           count == Cardinality(Range(slots))
                    + (IF NeedsTemporary(slots) THEN 1 ELSE 0)
       IN  /\ plan' = [place |-> [id \in Ids |->
                            IF id \in DOMAIN slots THEN Slot(slots[id])
                            ELSE IF id \in live /\ Op(id) = "param"
                                 THEN id - 1
                            ELSE NoPlace],
                       phi_slots |-> count,
                       slots |-> count,
                       saved |-> SavedForPhis(slots)]
           /\ stage' = IF SharedOnEdge(slots) THEN "refused" ELSE "blocks"
    /\ allocated' = 0
    /\ UNCHANGED <<analysis, registers, running>>
-----------------------------------------------------------------------------
(* Other values: block after block, in the order of the layout.  held is   *)
(* the set of the values that own a place.                                 *)

(* The last value of block b that reads id; the end of the block is after  *)
(* all of them.                                                            *)
LastUse(b, id) ==
    Max({0} \cup {user \in Computed(b) : id \in Operands(user)}
            \cup (IF id \in Final(b) THEN {Len(values) + 1} ELSE {}))

(* Mutant: a value is dropped after its last use in the block, though      *)
(* other blocks still need it.                                             *)
MutantDiesAt(b, id, user) == LastUse(b, id) = user

(* value_dies_at *)
DiesAt(b, id, user) == id \notin live_out[b] /\ LastUse(b, id) = user

StillOwns(b, id, user) == id \in live_out[b] \/ LastUse(b, id) >= user

OwnersAtEntry(b) == {id \in live_in[b] : Op(id) # "const"}

(* "O1 live-in register conflict", "spill conflict", "has no location"     *)
EntryConflict(b) ==
    \E id, other \in OwnersAtEntry(b) :
        \/ plan.place[id] = NoPlace
        \/ id # other /\ plan.place[id] = plan.place[other]

(* Whether the value is made by adding a value to its double, for which it *)
(* needs another register than its operand.                                *)
Triples(id) == Op(id) = "mul" /\ Is(values, values[id].right, 3)

(* One value that is not a phi: the lowest of the first places there are,  *)
(* the register or slot of an operand that dies before a free one.         *)
AllocateValue(b, state, id) ==
    LET left  == values[id].left
        right == values[id].right
        place == state.plan.place
        held  == {h \in state.held : StillOwns(b, h, id)}
        dying == {o \in Operands(id) : DiesAt(b, o, id)}
        inRegister(o) == IF o \in dying /\ IsRegister(place[o])
                         THEN {place[o]} ELSE {}
        inSlot(o) == IF o \in dying /\ place[o] >= Slot(state.plan.phi_slots)
                     THEN {place[o]} ELSE {}
        Free(places) == places \ {place[h] : h \in held}
        free == Free(0 .. registers - 1)
        preferences ==
            << IF Op(id) = "param" THEN {place[id]}
               ELSE IF Triples(id) THEN free ELSE {},
               inRegister(left),
               IF Op(id) \in Commutative THEN inRegister(right) ELSE {},
               free,
               inSlot(left), inSlot(right),
               Free(Slot(state.plan.phi_slots) .. Slot(state.plan.slots)) >>
        chosen == Min(SelectSeq(preferences, LAMBDA places : places # {})[1])
    IN  [plan |->
            [state.plan EXCEPT
                !.place[id] = chosen,
                !.slots = Max({@, chosen - RegisterCount + 1}),
                !.saved = @ \cup ({IF IsRegister(chosen) THEN chosen
                                   ELSE Scratch} \cap Preserved)],
         held |-> (held \ dying) \cup {id}]

AllocateBlock ==
    /\ stage = "blocks" /\ allocated < Len(layout)
    /\ LET b == layout[allocated + 1]
       IN  IF EntryConflict(b)
           THEN stage' = "refused" /\ UNCHANGED <<plan, allocated>>
           ELSE /\ plan' = FoldLeft(LAMBDA state, id :
                                        AllocateValue(b, state, id),
                                    [plan |-> plan,
                                     held |-> OwnersAtEntry(b)],
                                    Sorted(Computed(b))).plan
                /\ allocated' = allocated + 1
                /\ UNCHANGED stage
    /\ UNCHANGED <<analysis, registers, running>>

NeedsScratch == plan.slots # 0 /\ registers = RegisterCount

Place(id) == plan.place[id]

(* Where emit_value computes a value.                                      *)
Destination(id) == IF IsRegister(Place(id)) THEN Place(id) ELSE Scratch

(* The right operand is already there: the left one is added to it.        *)
Swapped(id) ==
    /\ Op(id) \in Commutative
    /\ Op(values[id].right) # "const"
    /\ Place(values[id].right) = Destination(id)

First(id)  == IF Swapped(id) THEN values[id].right ELSE values[id].left
Second(id) == IF Swapped(id) THEN values[id].left ELSE values[id].right

(* A product by 3 adds the left operand once more; a constant is in no     *)
(* register to add, and the emission fails (emit_multiply).                *)
Refused(id) == /\ Op(id) = "mul" /\ Is(values, Second(id), 3)
               /\ Op(values[id].left) = "const"

(* miga80_emit_gnu_m68k_o1: a plan that needs the frame is made again, to  *)
(* keep the last register free.                                            *)
PlanDone ==
    /\ stage = "blocks" /\ allocated = Len(layout)
    /\ IF NeedsScratch
       THEN /\ registers' = RegisterCount - 1
            /\ stage' = "phis"
            /\ UNCHANGED contents
       ELSE /\ stage' = IF \E b \in Blocks : \E id \in Computed(b) : Refused(id)
                        THEN "rejected" ELSE "emitted"
            /\ contents' =
                  [place \in 0 .. Slot(plan.slots) - 1 |->
                      IF place + 1 \in live /\ place < ParameterCount
                      THEN place + 1 ELSE 0]
            /\ UNCHANGED registers
    /\ UNCHANGED <<analysis, plan, allocated, o1_block>>
-----------------------------------------------------------------------------
(* The emitted code.  A step takes the contents c of the places; wrong are *)
(* the values that were not where the code reads them.                     *)

Found(c, id) == Op(id) = "const" \/ (Place(id) # NoPlace /\ c[Place(id)] = id)
Missing(c, ids) == {id \in ids : ~Found(c, id)}

(* emit_value: one operand is moved to the destination, then the other one *)
(* is read; a product by 3 reads the left one again (emit_multiply).       *)
EmitValue(state, id) ==
    LET left  == values[id].left
        moved == [state.c EXCEPT ![Destination(id)] = First(id)]
        added == [moved EXCEPT ![Destination(id)] = 0]
        again == Op(id) = "mul" /\ Is(values, Second(id), 3)
                 /\ Destination(id) # Place(left)
    IN  [c |-> [moved EXCEPT ![Destination(id)] = id, ![Place(id)] = id],
         written |-> state.written \cup {Destination(id)},
         wrong |-> state.wrong \cup Missing(state.c, {First(id)})
                   \cup Missing(moved, {Second(id)} \ {0})
                   \cup (IF again THEN Missing(added, {left}) ELSE {})]

EmitValues(b) ==
    FoldLeft(EmitValue, [c |-> contents, written |-> {}, wrong |-> {}],
             Sorted({id \in Computed(b) : Op(id) # "param"}))

(* The end of a block: the condition is tested, in the scratch register if *)
(* it is in the frame, or the result returned.                             *)
EmitEnd(b, state) ==
    LET viaScratch == succ[b] # <<>>
                      /\ \E id \in Final(b) : Place(id) >= RegisterCount
    IN  [c |-> IF viaScratch THEN [state.c EXCEPT ![Scratch] = 0]
               ELSE state.c,
         written |-> state.written
                     \cup (IF viaScratch THEN {Scratch} ELSE {}),
         wrong |-> state.wrong \cup Missing(state.c, Final(b))]

EmitBlock(b) == EmitEnd(b, EmitValues(b))

(* The phis of an edge, all at once (PhiEdgeCopy); what is read from the   *)
(* frame passes through the scratch register.                              *)
EmitEdge(c, b, s) ==
    LET phis == LivePhis(s)
        viaScratch == \E phi \in phis :
            /\ Place(PhiSource(phi, b)) >= RegisterCount
            /\ Place(PhiSource(phi, b)) # Place(phi)
    IN  [c |-> [place \in DOMAIN c |->
                   IF \E phi \in phis : Place(phi) = place
                   THEN CHOOSE phi \in phis : Place(phi) = place
                   ELSE IF viaScratch /\ place = Scratch THEN 0
                   ELSE c[place]],
         written |-> IF viaScratch THEN {Scratch} ELSE {},
         wrong |-> Missing(c, {PhiSource(phi, b) : phi \in phis})]

(* emit_branch: both ways, but for a constant condition.                   *)
EmittedEdges(b) ==
    IF condition[b] # 0 /\ IsConstant(values, condition[b])
    THEN {succ[b][IF values[condition[b]].imm # 0 THEN 1 ELSE 2]}
    ELSE Succ(b)

RunBlock ==
    /\ stage = "emitted"
    /\ \E s \in EmittedEdges(o1_block) :
          /\ contents' = EmitEdge(EmitBlock(o1_block).c, o1_block, s).c
          /\ o1_block' = s
    /\ UNCHANGED <<stage, analysis, registers, plan, allocated>>
-----------------------------------------------------------------------------
PlaceInit ==
    /\ Init /\ BuildInit
    /\ stage = "liveness"
    /\ live_in = <<>> /\ live_out = <<>>
    /\ registers = RegisterCount
    /\ plan = [place |-> <<>>, phi_slots |-> 0, slots |-> 0, saved |-> {}]
    /\ allocated = 0
    /\ o1_block = 0 /\ contents = <<>>

Lower == Next /\ UNCHANGED <<declared, buildVars, placeVars>>
BuildStep == Build /\ UNCHANGED <<vars, declared, placeVars>>
PlaceStep ==
    /\ Liveness \/ PlacePhis \/ AllocateBlock \/ PlanDone \/ RunBlock
    /\ UNCHANGED <<vars, declared, buildVars>>

PlaceNext == Lower \/ BuildStep \/ PlaceStep

PlaceSpec ==
    PlaceInit /\ [][PlaceNext]_<<vars, declared, buildVars, placeVars>>
-----------------------------------------------------------------------------
(* Properties                                                              *)

(* No plan fails: a value that is live into a block has a place when the   *)
(* block's turn comes, and no two of them have the same one, although each *)
(* value is placed once, with one block in view; the phis of an edge have  *)
(* different slots (build_allocation_plan and its error messages).         *)
AllocationSucceeds == stage # "refused"

(* On every path, around every loop, each operand is in its place when it  *)
(* is read: neither another value that shares its register or slot, nor    *)
(* the scratch register, nor the destination of the operation itself has   *)
(* replaced it (build_allocation_plan, emit_value, emit_phi_edge).         *)
OperandsInPlace ==
    stage = "emitted" =>
        LET state == EmitBlock(o1_block)
        IN  /\ state.wrong = {}
            /\ \A s \in EmittedEdges(o1_block) :
                  EmitEdge(state.c, o1_block, s).wrong = {}

(* Every register written that a function has to preserve is in the list   *)
(* its prologue saves (build_saved_register_list).                         *)
WrittenRegistersSaved ==
    stage = "emitted" =>
        LET state == EmitBlock(o1_block)
            written == state.written \cup
                UNION {EmitEdge(state.c, o1_block, s).written :
                          s \in EmittedEdges(o1_block)}
        IN  written \cap Preserved \subseteq plan.saved

(* Whatever the allocation has placed, emit_value finds code for: every    *)
(* valid function is compiled at -O1, with loop-carried values too.        *)
EmissionSucceeds == stage # "rejected"
=============================================================================
