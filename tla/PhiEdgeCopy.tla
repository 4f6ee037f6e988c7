---------------------------- MODULE PhiEdgeCopy -----------------------------
(***************************************************************************)
(* Phi transfers on one control-flow edge of -O1 code                      *)
(* (compiler/backend_m68k/optimized.c).                                    *)
(*                                                                         *)
(* Every live phi has a frame slot.  Crossing an edge must give each phi   *)
(* of the successor the value of its operand, all at once, but the 68020   *)
(* moves one long word at a time.  The compiler first decides whether the  *)
(* transfers of the edge contain a cycle and then needs one more slot      *)
(* (reserve_phi_temporary_if_needed), later emits the moves one by one,    *)
(* the safe ones first, saving a slot in the temporary when none is safe   *)
(* (emit_phi_edge).  The code emitted is a straight line, so the model     *)
(* performs each move as it is emitted.                                    *)
(***************************************************************************)
EXTENDS Integers, Sequences

CONSTANTS
    NSlots,     \* phi_slot_count: the slots 0 .. NSlots-1 hold phis
    Fixed,      \* registers, constants and ordinary spill slots: read only
    Temp,       \* the slot appended to the frame for broken cycles
    NoSlot,     \* MIGA80_NO_SPILL_SLOT
    Edges,      \* the edges a function may have
    Value,      \* long words
    Frames      \* the contents of the frame and registers at the edge

PhiSlots == 0 .. NSlots - 1
Loc == PhiSlots \cup Fixed

(* An edge lists its phis in block order.  Two live phis of a block never  *)
(* share a slot: both live blocks sets hold that block.                    *)
IsEdge(e) ==
    /\ e \in Seq([dst : PhiSlots, src : Loc])
    /\ \A i, j \in DOMAIN e : e[i].dst = e[j].dst => i = j

ASSUME NSlotsAssumption == NSlots \in Nat
ASSUME PlacesAssumption ==
    /\ Fixed \cap (PhiSlots \cup {Temp, NoSlot}) = {}
    /\ Temp \notin PhiSlots
    /\ NoSlot \notin PhiSlots
    /\ Temp # NoSlot
ASSUME EdgesAssumption == \A e \in Edges : IsEdge(e)
ASSUME FramesAssumption == Frames \subseteq [Loc \cup {Temp} -> Value]

VARIABLES
    edge,               \* the transfers of the edge, in block order
    entry,              \* the frame when the edge is entered (history)
    mem,                \* the frame and registers now
    phase,              \* "reserve", "emit", "done" or "failed"
    slot,               \* the slot the cycle search starts from
    current,            \* the slot its walk has reached
    step,               \* the steps of this walk
    phi_temporary_slot, \* the reserved slot, or NoSlot
    pending,            \* the copies still to emit
    source              \* the place each copy reads; Temp after a save

vars == <<edge, entry, mem, phase, slot, current, step,
          phi_temporary_slot, pending, source>>
walkVars == <<slot, current, step>>
copyVars == <<mem, pending, source>>
-----------------------------------------------------------------------------
(* Helpers                                                                 *)

(* Copies between two different places; a phi whose operand already lives  *)
(* in its slot costs nothing.                                              *)
Copies(e) == {i \in DOMAIN e : e[i].src # e[i].dst}

(* mapping[]: the slot-to-slot part of the edge, from destination slot to  *)
(* source slot.                                                            *)
MappedCopies(e) == {i \in Copies(e) : e[i].src \in PhiSlots}
Mapped(e, s)    == \E i \in MappedCopies(e) : e[i].dst = s
Mapping(e, s)   == e[CHOOSE i \in MappedCopies(e) : e[i].dst = s].src

First(S) == CHOOSE i \in S : \A j \in S : i <= j

(* Mutant: only the copies listed later are looked at.                     *)
MutantLaterReaders(i) ==
    \E other \in pending : other > i /\ source[other] = edge[i].dst

(* Mutant: copies already emitted still count as readers.                  *)
MutantEmittedReaders(i) ==
    \E other \in Copies(edge) \ {i} : source[other] = edge[i].dst

DestinationIsSource(i) ==
    \E other \in pending \ {i} : source[other] = edge[i].dst

SafeCopies == {i \in pending : ~DestinationIsSource(i)}
-----------------------------------------------------------------------------
(* An edge of the function.  An earlier edge may have reserved the         *)
(* temporary already, and then the search is over.                         *)
Init ==
    /\ edge \in Edges
    /\ entry \in Frames
    /\ mem = entry
    /\ phi_temporary_slot \in {Temp, NoSlot}
    /\ phase = IF phi_temporary_slot = NoSlot THEN "reserve" ELSE "emit"
    /\ slot = 0 /\ current = 0 /\ step = 0
    /\ pending = Copies(edge)
    /\ source = [i \in DOMAIN edge |-> edge[i].src]

(* for (step...) current = mapping[current];                               *)
Walk ==
    /\ phase = "reserve"
    /\ slot < NSlots /\ step < NSlots
    /\ Mapped(edge, current)
    /\ current' = Mapping(edge, current)
    /\ step' = step + 1
    /\ UNCHANGED <<edge, entry, phase, slot, phi_temporary_slot, copyVars>>

(* The walk met a slot no phi of the edge assigns: no cycle through slot.  *)
WalkEnds ==
    /\ phase = "reserve"
    /\ slot < NSlots
    /\ ~Mapped(edge, current)
    /\ slot' = slot + 1
    /\ current' = slot + 1
    /\ step' = 0
    /\ UNCHANGED <<edge, entry, phase, phi_temporary_slot, copyVars>>

(* NSlots steps without leaving the assigned slots: a cycle.               *)
ReserveTemporary ==
    /\ phase = "reserve"
    /\ slot < NSlots /\ step = NSlots
    /\ Mapped(edge, current)
    /\ phi_temporary_slot' = Temp
    /\ phase' = "emit"
    /\ UNCHANGED <<edge, entry, walkVars, copyVars>>

(* Mutant: the search gives up after the first slot.                       *)
MutantNoTemporaryNeeded ==
    /\ phase = "reserve"
    /\ slot = 1
    /\ phase' = "emit"
    /\ UNCHANGED <<edge, entry, walkVars, phi_temporary_slot, copyVars>>

NoTemporaryNeeded ==
    /\ phase = "reserve"
    /\ slot = NSlots
    /\ phase' = "emit"
    /\ UNCHANGED <<edge, entry, walkVars, phi_temporary_slot, copyVars>>

(* Mutant: the copies are emitted in the order they are listed.            *)
MutantEmitSafeCopy ==
    /\ phase = "emit"
    /\ pending # {}
    /\ LET safe == First(pending)
       IN  /\ mem' = [mem EXCEPT ![edge[safe].dst] = mem[source[safe]]]
           /\ pending' = pending \ {safe}
    /\ UNCHANGED <<edge, entry, phase, walkVars, phi_temporary_slot, source>>

(* emit_phi_copy of the first copy whose destination no pending copy reads *)
EmitSafeCopy ==
    /\ phase = "emit"
    /\ SafeCopies # {}
    /\ LET safe == First(SafeCopies)
       IN  /\ mem' = [mem EXCEPT ![edge[safe].dst] = mem[source[safe]]]
           /\ pending' = pending \ {safe}
    /\ UNCHANGED <<edge, entry, phase, walkVars, phi_temporary_slot, source>>

(* Every pending destination is still read: save the first one and let its *)
(* readers read the temporary instead.  Without a temporary the edge       *)
(* cannot be emitted and compilation fails.                                *)
BreakCycle ==
    /\ phase = "emit"
    /\ pending # {} /\ SafeCopies = {}
    /\ IF phi_temporary_slot = NoSlot
       THEN phase' = "failed" /\ UNCHANGED copyVars
       ELSE LET saved == edge[First(pending)].dst
            IN  /\ mem' = [mem EXCEPT ![phi_temporary_slot] = mem[saved]]
                /\ source' = [i \in DOMAIN edge |->
                                 IF i \in pending /\ source[i] = saved
                                 THEN phi_temporary_slot ELSE source[i]]
                /\ UNCHANGED <<phase, pending>>
    /\ UNCHANGED <<edge, entry, walkVars, phi_temporary_slot>>

Finish ==
    /\ phase = "emit"
    /\ pending = {}
    /\ phase' = "done"
    /\ UNCHANGED <<edge, entry, walkVars, phi_temporary_slot, copyVars>>

Stopped == phase \in {"done", "failed"} /\ UNCHANGED vars

Step == \/ Walk \/ WalkEnds \/ ReserveTemporary \/ NoTemporaryNeeded
        \/ EmitSafeCopy \/ BreakCycle \/ Finish

Next == Step \/ Stopped

Spec == Init /\ [][Next]_vars /\ WF_vars(Step)
-----------------------------------------------------------------------------
(* Properties                                                              *)

TypeOK ==
    /\ edge \in Edges
    /\ entry \in Frames
    /\ mem \in [Loc \cup {Temp} -> Value]
    /\ phase \in {"reserve", "emit", "done", "failed"}
    /\ slot \in 0 .. NSlots
    /\ current \in 0 .. NSlots
    /\ step \in 0 .. NSlots
    /\ phi_temporary_slot \in {Temp, NoSlot}
    /\ pending \subseteq Copies(edge)
    /\ source \in [DOMAIN edge -> Loc \cup {Temp}]

(* The moves of an edge, however ordered, amount to the simultaneous       *)
(* assignment: each phi holds what its operand held at the entry of the    *)
(* edge, and no other place but the temporary changed (emit_phi_edge).     *)
EdgeTransferCorrect ==
    phase = "done" =>
        /\ \A i \in DOMAIN edge : mem[edge[i].dst] = entry[edge[i].src]
        /\ \A l \in Loc : (\A i \in DOMAIN edge : edge[i].dst # l)
                              => mem[l] = entry[l]

(* emit_phi_edge never meets a cycle for which the separate search in      *)
(* reserve_phi_temporary_if_needed left it without a temporary slot.       *)
NeverStuck == phase # "failed"

(* One temporary is enough for any number of cycles on an edge: whenever   *)
(* emit_phi_edge must save a slot, no pending copy still reads the         *)
(* temporary saved before.                                                 *)
TemporaryFree ==
    phase = "emit" /\ pending # {} /\ SafeCopies = {}
        => \A i \in pending : source[i] # Temp

(* An edge has a cycle: some non-empty set of slots that it permutes among *)
(* themselves.                                                             *)
Closed(e, C) == \A s \in C : Mapped(e, s) /\ Mapping(e, s) \in C
HasCycle(e)  == \E C \in SUBSET PhiSlots : C # {} /\ Closed(e, C)

(* PhiEdgeCopy implements the simultaneous assignment: the moves are       *)
(* invisible until the last one has been made.                             *)
Abstract == INSTANCE ParallelCopy WITH
    Loc    <- Loc,
    Edges  <- Edges,
    Frames <- {[l \in Loc |-> f[l]] : f \in Frames},
    edge   <- edge,
    mem    <- [l \in Loc |-> IF phase = "done" THEN mem[l] ELSE entry[l]],
    taken  <- (phase = "done")
ImplementsParallelCopy == Abstract!Spec
-----------------------------------------------------------------------------
(* The inductive invariant behind the safety properties.                   *)

(* During the search nothing is emitted; a set of slots the edge permutes  *)
(* holds no slot already searched, and keeps every walk started inside it. *)
SearchInv ==
    phase = "reserve" =>
        /\ phi_temporary_slot = NoSlot
        /\ pending = Copies(edge)
        /\ \A C \in SUBSET PhiSlots : Closed(edge, C) =>
              /\ \A s \in C : slot <= s
              /\ slot \in C => current \in C

(* The search misses no cycle.                                             *)
SearchComplete ==
    phase # "reserve" /\ phi_temporary_slot = NoSlot => ~HasCycle(edge)

(* A pending copy can still fetch the value of its operand, from its own   *)
(* place or from the temporary; an emitted copy has delivered it; and what *)
(* no emitted copy assigns is as it was.                                   *)
CopyInv ==
    /\ \A i \in pending :
          /\ source[i] \in {edge[i].src, Temp}
          /\ mem[source[i]] = entry[edge[i].src]
    /\ \A i \in Copies(edge) \ pending :
          mem[edge[i].dst] = entry[edge[i].src]
    /\ \A l \in Loc :
          (\A i \in Copies(edge) \ pending : edge[i].dst # l)
              => mem[l] = entry[l]

AllEmitted == phase = "done" => pending = {}

IInv == TypeOK /\ SearchInv /\ SearchComplete /\ CopyInv /\ AllEmitted
        /\ NeverStuck
=============================================================================
