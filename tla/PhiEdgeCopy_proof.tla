------------------------- MODULE PhiEdgeCopy_proof --------------------------
(***************************************************************************)
(* Proofs about PhiEdgeCopy, for any number of slots, any edges and any    *)
(* contents of the frame.                                                  *)
(***************************************************************************)
EXTENDS PhiEdgeCopy, TLAPS, FiniteSetTheorems, FunctionTheorems,
        SequenceTheorems, WellFoundedInduction

USE DEF PhiSlots, Loc, walkVars, copyVars

(***************************************************************************)
(* Every non-empty set of naturals has a least element, so the first       *)
(* pending copy and the first safe copy exist.                             *)
(***************************************************************************)
LEMMA LeastElement ==
  ASSUME NEW S \in SUBSET Nat, S # {}
  PROVE  \E i \in S : \A j \in S : i <= j
<1> DEFINE R == {ss \in Nat \X Nat : ss[1] < ss[2]}
<1>1. IsWellFoundedOn(R, Nat)
  BY NatLessThanWellFounded DEF OpToRel
<1>2. PICK x \in S : \A y \in S : ~ (<<y, x>> \in R)
  <2> HIDE DEF R
  <2> QED BY <1>1, WFMin
<1>3. \A y \in S : x <= y
  <2> TAKE y \in S
  <2>1. x \in Nat /\ y \in Nat
    OBVIOUS
  <2>2. ~(y < x)
    BY <1>2, <2>1
  <2> QED BY <2>1, <2>2
<1> QED BY <1>3

LEMMA FirstIsMember ==
  ASSUME NEW S \in SUBSET Nat, S # {}
  PROVE  First(S) \in S
BY LeastElement DEF First

(***************************************************************************)
(* What IsEdge says of the phis of an edge: finitely many, with sources in *)
(* Loc and different destinations among the phi slots.                     *)
(***************************************************************************)
LEMMA EdgeFacts ==
  ASSUME NEW e \in Edges
  PROVE  /\ DOMAIN e \in SUBSET Nat
         /\ IsFiniteSet(DOMAIN e)
         /\ \A i \in DOMAIN e : e[i].dst \in PhiSlots /\ e[i].src \in Loc
         /\ \A i, j \in DOMAIN e : e[i].dst = e[j].dst => i = j
<1>1. IsEdge(e)
  BY EdgesAssumption
<1>2. e \in Seq([dst : PhiSlots, src : Loc])
  BY <1>1 DEF IsEdge
<1>3. DOMAIN e = 1 .. Len(e) /\ Len(e) \in Nat
  BY <1>2
<1>4. IsFiniteSet(DOMAIN e)
  BY <1>3, FS_Interval
<1>5. ASSUME NEW i \in DOMAIN e
      PROVE  e[i] \in [dst : PhiSlots, src : Loc]
  BY <1>2, <1>3, ElementOfSeq
<1> QED BY <1>1, <1>3, <1>4, <1>5 DEF IsEdge

(* The mapping of an edge, where it is defined.                            *)
LEMMA MappingFacts ==
  ASSUME NEW e \in Edges, NEW i \in MappedCopies(e)
  PROVE  /\ Mapped(e, e[i].dst)
         /\ Mapping(e, e[i].dst) = e[i].src
BY EdgeFacts DEF Mapped, Mapping, MappedCopies, Copies

LEMMA MappingType ==
  ASSUME NEW e \in Edges, NEW s, Mapped(e, s)
  PROVE  s \in PhiSlots /\ Mapping(e, s) \in PhiSlots
BY EdgeFacts DEF Mapped, Mapping, MappedCopies, Copies
-----------------------------------------------------------------------------
(***************************************************************************)
(* Type correctness.                                                       *)
(***************************************************************************)
LEMMA TypeOKInit == Init => TypeOK
<1> SUFFICES ASSUME Init PROVE TypeOK
  OBVIOUS
<1>1. edge \in Edges /\ entry \in Frames
  BY DEF Init
<1>2. mem \in [Loc \cup {Temp} -> Value]
  BY <1>1, FramesAssumption DEF Init
<1>3. source \in [DOMAIN edge -> Loc \cup {Temp}]
  BY <1>1, EdgeFacts DEF Init
<1> QED BY <1>1, <1>2, <1>3, NSlotsAssumption DEF Init, TypeOK, Copies

LEMMA TypeOKStep == TypeOK /\ [Next]_vars => TypeOK'
<1> SUFFICES ASSUME TypeOK, [Next]_vars PROVE TypeOK'
  OBVIOUS
<1> USE DEF TypeOK
<1> USE NSlotsAssumption
<1>0. /\ DOMAIN edge \in SUBSET Nat
      /\ \A i \in DOMAIN edge :
            edge[i].dst \in PhiSlots /\ edge[i].src \in Loc
      /\ pending \subseteq DOMAIN edge
  BY EdgeFacts DEF Copies
<1>1. CASE Walk
  BY <1>1, MappingType DEF Walk
<1>2. CASE WalkEnds
  BY <1>2 DEF WalkEnds
<1>3. CASE ReserveTemporary
  BY <1>3 DEF ReserveTemporary
<1>4. CASE NoTemporaryNeeded
  BY <1>4 DEF NoTemporaryNeeded
<1>5. CASE EmitSafeCopy
  <2> DEFINE safe == First(SafeCopies)
  <2>1. safe \in pending
    <3>1. SafeCopies \in SUBSET Nat /\ SafeCopies # {}
      BY <1>0, <1>5 DEF EmitSafeCopy, SafeCopies
    <3> QED BY <3>1, FirstIsMember DEF SafeCopies
  <2>2. mem[source[safe]] \in Value
    BY <1>0, <2>1
  <2>3. mem' \in [Loc \cup {Temp} -> Value]
    BY <1>5, <2>2 DEF EmitSafeCopy
  <2> HIDE DEF safe
  <2> QED BY <1>5, <2>3 DEF EmitSafeCopy
<1>6. CASE BreakCycle
  <2>1. CASE phi_temporary_slot = NoSlot
    BY <1>6, <2>1 DEF BreakCycle
  <2>2. CASE phi_temporary_slot # NoSlot
    <3> DEFINE saved == edge[First(pending)].dst
    <3>1. First(pending) \in pending
      BY <1>0, <1>6, FirstIsMember DEF BreakCycle
    <3>2. saved \in PhiSlots /\ phi_temporary_slot = Temp
      BY <1>0, <2>2, <3>1
    <3>3. mem' = [mem EXCEPT ![phi_temporary_slot] = mem[saved]]
      BY <1>6, <2>2 DEF BreakCycle
    <3>4. source' = [i \in DOMAIN edge |->
                        IF i \in pending /\ source[i] = saved
                        THEN phi_temporary_slot ELSE source[i]]
      BY <1>6, <2>2 DEF BreakCycle
    <3> HIDE DEF saved
    <3>5. mem' \in [Loc \cup {Temp} -> Value]
      BY <3>2, <3>3
    <3>6. source' \in [DOMAIN edge -> Loc \cup {Temp}]
      BY <3>2, <3>4
    <3>7. UNCHANGED <<edge, entry, phase, walkVars, phi_temporary_slot,
                      pending>>
      BY <1>6, <2>2 DEF BreakCycle
    <3> QED BY <3>5, <3>6, <3>7
  <2> QED BY <2>1, <2>2
<1>7. CASE Finish
  BY <1>7 DEF Finish
<1>8. CASE UNCHANGED vars
  BY <1>8 DEF vars
<1> QED BY <1>1, <1>2, <1>3, <1>4, <1>5, <1>6, <1>7, <1>8
        DEF Next, Step, Stopped

(* Every variable of the emission keeps its type: the copies stay copies   *)
(* of the edge and read places of the frame (emit_phi_edge).               *)
THEOREM TypeCorrect == Spec => []TypeOK
BY TypeOKInit, TypeOKStep, PTL DEF Spec
-----------------------------------------------------------------------------
(***************************************************************************)
(* The pigeonhole behind the emission loop: if every pending destination   *)
(* is read by a pending copy, then, as the destinations differ and each    *)
(* copy reads one place, every pending copy reads a pending destination.   *)
(* So the stuck copies form pure cycles and none reads the temporary.      *)
(***************************************************************************)
LEMMA StuckReadsDestinations ==
  ASSUME TypeOK, SafeCopies = {}
  PROVE  \A o \in pending : \E c \in pending : source[o] = edge[c].dst
<1> DEFINE Readers == {o \in pending :
                         \E c \in pending : source[o] = edge[c].dst}
           read == [o \in Readers |->
                      CHOOSE c \in pending : source[o] = edge[c].dst]
<1>1. /\ pending \subseteq DOMAIN edge
      /\ IsFiniteSet(pending)
      /\ \A i, j \in pending : edge[i].dst = edge[j].dst => i = j
  <2>1. pending \subseteq DOMAIN edge /\ edge \in Edges
    BY DEF TypeOK, Copies
  <2>2. IsFiniteSet(DOMAIN edge)
    BY <2>1, EdgeFacts
  <2>3. IsFiniteSet(pending)
    BY <2>1, <2>2, FS_Subset
  <2>4. \A i, j \in DOMAIN edge : edge[i].dst = edge[j].dst => i = j
    BY <2>1, EdgeFacts
  <2> QED BY <2>1, <2>3, <2>4
<1>2. \A c \in pending : \E o \in Readers : read[o] = c
  <2> TAKE c \in pending
  <2>1. PICK o \in pending : source[o] = edge[c].dst
    BY DEF SafeCopies, DestinationIsSource
  <2>2. o \in Readers
    BY <2>1
  <2>3. read[o] \in pending /\ source[o] = edge[read[o]].dst
    BY <2>1, <2>2
  <2>4. read[o] = c
    BY <1>1, <2>1, <2>3
  <2> QED BY <2>2, <2>4
<1>3. read \in Surjection(Readers, pending)
  <2>1. read \in [Readers -> pending]
    OBVIOUS
  <2> HIDE DEF read, Readers
  <2> QED BY <1>2, <2>1 DEF Surjection
<1>4. Readers \in SUBSET pending
  OBVIOUS
<1>5. Readers = pending
  <2> HIDE DEF read, Readers
  <2>1. IsFiniteSet(Readers) /\ Cardinality(Readers) <= Cardinality(pending)
    BY <1>1, <1>4, FS_Subset
  <2>2. Cardinality(pending) <= Cardinality(Readers)
    BY <1>3, <2>1, FS_Surjection
  <2>3. Cardinality(pending) \in Nat /\ Cardinality(Readers) \in Nat
    BY <1>1, <2>1, FS_CardinalityType
  <2>4. Cardinality(pending) = Cardinality(Readers)
    BY <2>1, <2>2, <2>3
  <2> QED BY <1>1, <1>4, <2>4, FS_Subset
<1> QED BY <1>5

(* One temporary serves every cycle of an edge: when emit_phi_edge saves a *)
(* slot, nothing it saved before is still waiting to be read.              *)
LEMMA StuckTemporaryFree == TypeOK => TemporaryFree
<1> SUFFICES ASSUME TypeOK, SafeCopies = {}, NEW o \in pending
             PROVE  source[o] # Temp
  BY DEF TemporaryFree
<1>1. PICK c \in pending : source[o] = edge[c].dst
  BY StuckReadsDestinations
<1>2. edge[c].dst \in PhiSlots
  BY EdgeFacts DEF TypeOK, Copies
<1> QED BY <1>1, <1>2, PlacesAssumption

(* A stuck edge has a cycle in the sense of the search.                    *)
LEMMA StuckHasCycle ==
  ASSUME TypeOK, CopyInv, pending # {}, SafeCopies = {}
  PROVE  HasCycle(edge)
<1> DEFINE C == {edge[c].dst : c \in pending}
<1>1. /\ edge \in Edges
      /\ pending \subseteq Copies(edge)
      /\ pending \subseteq DOMAIN edge
  BY DEF TypeOK, Copies
<1>2. \A c \in pending : edge[c].dst \in PhiSlots
  BY <1>1, EdgeFacts
<1>3. ASSUME NEW c \in pending
      PROVE  Mapped(edge, edge[c].dst) /\ Mapping(edge, edge[c].dst) \in C
  <2>1. PICK d \in pending : source[c] = edge[d].dst
    BY StuckReadsDestinations
  <2>2. source[c] = edge[c].src
    BY <1>2, <2>1, PlacesAssumption DEF CopyInv
  <2>3. c \in MappedCopies(edge)
    BY <1>1, <1>2, <2>1, <2>2 DEF MappedCopies
  <2>4. Mapped(edge, edge[c].dst) /\ Mapping(edge, edge[c].dst) = edge[c].src
    BY <1>1, <2>3, MappingFacts
  <2> QED BY <2>1, <2>2, <2>4
<1>4. C \in SUBSET PhiSlots /\ C # {}
  BY <1>2
<1>5. Closed(edge, C)
  BY <1>3 DEF Closed
<1> HIDE DEF C
<1> QED BY <1>4, <1>5 DEF HasCycle
-----------------------------------------------------------------------------
(***************************************************************************)
(* The inductive invariant.                                                *)
(***************************************************************************)
LEMMA IInvInit == Init => IInv
<1> SUFFICES ASSUME Init PROVE IInv
  OBVIOUS
<1>1. TypeOK
  BY TypeOKInit
<1>2. SearchInv
  BY DEF Init, SearchInv
<1>3. SearchComplete
  BY PlacesAssumption DEF Init, SearchComplete
<1>4. CopyInv
  BY DEF Init, CopyInv, Copies
<1>5. AllEmitted /\ NeverStuck
  BY DEF Init, AllEmitted, NeverStuck
<1> QED BY <1>1, <1>2, <1>3, <1>4, <1>5 DEF IInv

(* A walk inside a set the edge permutes stays inside it, and never ends.  *)
LEMMA SearchStep == IInv /\ [Next]_vars => SearchInv' /\ SearchComplete'
<1> SUFFICES ASSUME IInv, [Next]_vars PROVE SearchInv' /\ SearchComplete'
  OBVIOUS
<1> USE DEF IInv, SearchInv, SearchComplete
<1>0. TypeOK /\ NSlots \in Nat
  BY NSlotsAssumption
<1>1. CASE Walk
  <2>1. ASSUME NEW C \in SUBSET PhiSlots, Closed(edge, C), slot \in C
        PROVE  Mapping(edge, current) \in C
    BY <1>1, <2>1 DEF Walk, Closed
  <2> QED BY <1>1, <2>1 DEF Walk
<1>2. CASE WalkEnds
  <2>1. ASSUME NEW C \in SUBSET PhiSlots, Closed(edge, C)
        PROVE  \A s \in C : slot + 1 <= s
    <3>1. slot \notin C
      BY <1>2, <2>1 DEF WalkEnds, Closed
    <3>2. \A s \in C : slot <= s /\ s \in Nat
      BY <1>0, <1>2, <2>1 DEF WalkEnds
    <3> QED BY <1>0, <3>1, <3>2 DEF TypeOK
  <2> QED BY <1>2, <2>1 DEF WalkEnds
<1>3. CASE ReserveTemporary
  BY <1>3, PlacesAssumption DEF ReserveTemporary
<1>4. CASE NoTemporaryNeeded
  <2>1. ~HasCycle(edge)
    <3> SUFFICES ASSUME NEW C \in SUBSET PhiSlots, C # {}, Closed(edge, C)
                 PROVE  FALSE
      BY DEF HasCycle
    <3>1. PICK s \in C : TRUE
      OBVIOUS
    <3>2. NSlots <= s /\ s \in 0 .. NSlots - 1
      BY <1>4, <3>1 DEF NoTemporaryNeeded
    <3> QED BY <1>0, <3>2
  <2> QED BY <1>4, <2>1 DEF NoTemporaryNeeded
<1>5. CASE EmitSafeCopy
  BY <1>5 DEF EmitSafeCopy
<1>6. CASE BreakCycle
  BY <1>6 DEF BreakCycle
<1>7. CASE Finish
  BY <1>7 DEF Finish
<1>8. CASE UNCHANGED vars
  BY <1>8 DEF vars
<1> QED BY <1>1, <1>2, <1>3, <1>4, <1>5, <1>6, <1>7, <1>8
        DEF Next, Step, Stopped

(* What a pending copy will deliver survives each move.                    *)
LEMMA CopyStep == IInv /\ [Next]_vars => CopyInv'
<1> SUFFICES ASSUME IInv, [Next]_vars PROVE CopyInv'
  OBVIOUS
<1>0. /\ TypeOK /\ CopyInv
      /\ \A i \in DOMAIN edge :
            edge[i].dst \in PhiSlots /\ edge[i].src \in Loc
      /\ \A i, j \in DOMAIN edge : edge[i].dst = edge[j].dst => i = j
      /\ pending \subseteq DOMAIN edge
      /\ DOMAIN edge \in SUBSET Nat
      /\ Copies(edge) \subseteq DOMAIN edge
      /\ mem \in [Loc \cup {Temp} -> Value]
  BY EdgeFacts DEF IInv, TypeOK, Copies
<1>1. CASE Walk
  BY <1>0, <1>1 DEF Walk, CopyInv
<1>2. CASE WalkEnds
  BY <1>0, <1>2 DEF WalkEnds, CopyInv
<1>3. CASE ReserveTemporary
  BY <1>0, <1>3 DEF ReserveTemporary, CopyInv
<1>4. CASE NoTemporaryNeeded
  BY <1>0, <1>4 DEF NoTemporaryNeeded, CopyInv
<1>5. CASE EmitSafeCopy
  <2> DEFINE safe == First(SafeCopies)
  <2>1. safe \in SafeCopies
    <3>1. SafeCopies \in SUBSET Nat /\ SafeCopies # {}
      BY <1>0, <1>5 DEF EmitSafeCopy, SafeCopies
    <3> QED BY <3>1, FirstIsMember
  <2>2. /\ mem' = [mem EXCEPT ![edge[safe].dst] = mem[source[safe]]]
        /\ pending' = pending \ {safe}
        /\ UNCHANGED <<edge, entry, source>>
    BY <1>5 DEF EmitSafeCopy
  <2> HIDE DEF safe
  <2>3. /\ safe \in pending
        /\ \A i \in pending \ {safe} : source[i] # edge[safe].dst
    BY <2>1 DEF SafeCopies, DestinationIsSource
  <2>4. \A i \in pending' : /\ source'[i] \in {edge'[i].src, Temp}
                            /\ mem'[source'[i]] = entry'[edge'[i].src]
    BY <1>0, <2>2, <2>3 DEF CopyInv
  <2>5. mem'[edge[safe].dst] = entry[edge[safe].src]
    BY <1>0, <2>2, <2>3 DEF CopyInv
  <2>6. \A i \in Copies(edge) \ pending :
            mem'[edge[i].dst] = entry[edge[i].src]
    BY <1>0, <2>2, <2>3 DEF CopyInv
  <2>7. \A l \in Loc :
            (\A i \in Copies(edge) \ pending' : edge[i].dst # l)
                => mem'[l] = entry[l]
    <3> SUFFICES ASSUME NEW l \in Loc,
                        \A i \in Copies(edge) \ pending' : edge[i].dst # l
                 PROVE  mem'[l] = entry[l]
      OBVIOUS
    <3>1. edge[safe].dst # l
      BY <2>2, <2>3 DEF IInv, TypeOK
    <3>2. mem'[l] = mem[l]
      BY <1>0, <2>2, <3>1
    <3>3. \A i \in Copies(edge) \ pending : edge[i].dst # l
      BY <2>2
    <3> QED BY <1>0, <3>2, <3>3 DEF CopyInv
  <2>8. Copies(edge) \ pending' \subseteq (Copies(edge) \ pending) \cup {safe}
    BY <2>2
  <2> QED BY <2>2, <2>4, <2>5, <2>6, <2>7, <2>8 DEF CopyInv
<1>6. CASE BreakCycle
  <2>1. CASE phi_temporary_slot = NoSlot
    BY <1>0, <1>6, <2>1 DEF BreakCycle, CopyInv
  <2>2. CASE phi_temporary_slot # NoSlot
    <3> DEFINE saved == edge[First(pending)].dst
    <3>1. saved \in PhiSlots /\ phi_temporary_slot = Temp
      <4>1. First(pending) \in pending
        BY <1>0, <1>6, FirstIsMember DEF BreakCycle
      <4> QED BY <1>0, <2>2, <4>1 DEF TypeOK
    <3>2. /\ mem' = [mem EXCEPT ![Temp] = mem[saved]]
          /\ source' = [i \in DOMAIN edge |->
                           IF i \in pending /\ source[i] = saved
                           THEN Temp ELSE source[i]]
          /\ UNCHANGED <<edge, entry, pending>>
      BY <1>6, <2>2, <3>1 DEF BreakCycle
    <3> HIDE DEF saved
    <3>3. \A i \in pending : source[i] # Temp
      BY <1>0, <1>6, StuckTemporaryFree DEF BreakCycle, TemporaryFree
    <3>4. \A l \in Loc : mem'[l] = mem[l]
      BY <1>0, <3>2, PlacesAssumption
    <3>5. mem'[Temp] = mem[saved]
      BY <1>0, <3>2
    <3>6. ASSUME NEW i \in pending
          PROVE  /\ source'[i] \in {edge[i].src, Temp}
                 /\ mem'[source'[i]] = entry[edge[i].src]
      <4>1. CASE source[i] = saved
        <5>1. source'[i] = Temp
          BY <1>0, <3>2, <4>1
        <5> QED BY <1>0, <3>5, <4>1, <5>1 DEF CopyInv
      <4>2. CASE source[i] # saved
        <5>1. source'[i] = source[i] /\ source[i] = edge[i].src
          BY <1>0, <3>2, <3>3, <4>2 DEF CopyInv
        <5>2. source[i] \in Loc /\ mem[source[i]] = entry[edge[i].src]
          BY <1>0, <5>1 DEF CopyInv
        <5>3. mem'[source[i]] = mem[source[i]]
          BY <3>4, <5>2
        <5> QED BY <5>1, <5>2, <5>3
      <4> QED BY <4>1, <4>2
    <3>7. \A i \in Copies(edge) \ pending :
              mem'[edge[i].dst] = entry[edge[i].src]
      BY <1>0, <3>4 DEF CopyInv
    <3>8. \A l \in Loc :
              (\A i \in Copies(edge) \ pending : edge[i].dst # l)
                  => mem'[l] = entry[l]
      BY <1>0, <3>4 DEF CopyInv
    <3>9. Copies(edge)' = Copies(edge)
      BY <3>2 DEF Copies
    <3> QED BY <3>2, <3>6, <3>7, <3>8, <3>9 DEF CopyInv
  <2> QED BY <2>1, <2>2
<1>7. CASE Finish
  BY <1>0, <1>7 DEF Finish, CopyInv
<1>8. CASE UNCHANGED vars
  BY <1>0, <1>8 DEF vars, CopyInv
<1> QED BY <1>1, <1>2, <1>3, <1>4, <1>5, <1>6, <1>7, <1>8
        DEF Next, Step, Stopped

(* The only way to fail is a cycle the search did not find.                *)
LEMMA ProgressStep ==
  IInv /\ [Next]_vars => AllEmitted' /\ NeverStuck'
<1> SUFFICES ASSUME IInv, [Next]_vars PROVE AllEmitted' /\ NeverStuck'
  OBVIOUS
<1> USE DEF IInv, AllEmitted, NeverStuck
<1>1. CASE BreakCycle
  <2>1. HasCycle(edge) /\ phase = "emit"
    BY <1>1, StuckHasCycle DEF BreakCycle
  <2>2. phi_temporary_slot # NoSlot
    BY <2>1 DEF SearchComplete
  <2> QED BY <1>1, <2>1, <2>2 DEF BreakCycle
<1>2. CASE Finish
  BY <1>2 DEF Finish
<1>3. CASE UNCHANGED vars
  BY <1>3 DEF vars
<1> QED BY <1>1, <1>2, <1>3
        DEF Next, Step, Stopped, Walk, WalkEnds, ReserveTemporary,
            NoTemporaryNeeded, EmitSafeCopy

THEOREM Invariance == Spec => []IInv
<1>1. IInv /\ [Next]_vars => IInv'
  BY TypeOKStep, SearchStep, CopyStep, ProgressStep DEF IInv
<1> QED BY IInvInit, <1>1, PTL DEF Spec
-----------------------------------------------------------------------------
LEMMA TransferFromInvariant == IInv => EdgeTransferCorrect
<1> SUFFICES ASSUME IInv, phase = "done" PROVE EdgeTransferCorrect
  BY DEF EdgeTransferCorrect
<1>1. pending = {} /\ edge \in Edges
  BY DEF IInv, AllEmitted, TypeOK
<1>2. /\ \A i \in DOMAIN edge :
            edge[i].dst \in PhiSlots /\ edge[i].src \in Loc
      /\ \A i, j \in DOMAIN edge : edge[i].dst = edge[j].dst => i = j
  BY <1>1, EdgeFacts
<1>3. ASSUME NEW i \in DOMAIN edge
      PROVE  mem[edge[i].dst] = entry[edge[i].src]
  <2>1. CASE i \in Copies(edge)
    BY <1>1, <2>1 DEF IInv, CopyInv
  <2>2. CASE i \notin Copies(edge)
    <3>1. edge[i].src = edge[i].dst /\ edge[i].dst \in Loc
      BY <1>2, <2>2 DEF Copies
    <3>2. \A j \in Copies(edge) : edge[j].dst # edge[i].dst
      BY <1>2, <2>2 DEF Copies
    <3> QED BY <3>1, <3>2 DEF IInv, CopyInv
  <2> QED BY <2>1, <2>2
<1>4. \A l \in Loc : (\A i \in DOMAIN edge : edge[i].dst # l)
                         => mem[l] = entry[l]
  BY DEF IInv, CopyInv, Copies
<1> QED BY <1>3, <1>4 DEF EdgeTransferCorrect

(* The moves emitted for an edge amount to the simultaneous assignment of  *)
(* its phis, for any edge of any function (emit_phi_edge).                 *)
THEOREM TransferCorrect == Spec => []EdgeTransferCorrect
BY Invariance, TransferFromInvariant, PTL

(* The separate searches of reserve_phi_temporary_if_needed and            *)
(* emit_phi_edge agree: no edge fails for want of a temporary.             *)
THEOREM EmissionNeverFails == Spec => []NeverStuck
<1>1. IInv => NeverStuck
  BY DEF IInv
<1> QED BY Invariance, <1>1, PTL

(* One temporary is enough for all the cycles of an edge.                  *)
THEOREM OneTemporaryIsEnough == Spec => []TemporaryFree
BY TypeCorrect, StuckTemporaryFree, PTL
-----------------------------------------------------------------------------
(* Every behaviour of the emitted moves is, seen from outside the edge, a  *)
(* behaviour of the simultaneous assignment: Finish is the one visible     *)
(* step, every other move is a stutter (emit_phi_edge).                    *)
THEOREM Refinement ==
  Spec => Abstract!Init /\ [][Abstract!TakeEdge]_(Abstract!vars)
<1>1. Init => Abstract!Init
  <2> SUFFICES ASSUME Init PROVE Abstract!Init
    OBVIOUS
  <2>1. phase # "done"
    BY DEF Init
  <2> QED BY <2>1 DEF Init, Abstract!Init
<1>2. IInv /\ IInv' /\ [Next]_vars => [Abstract!TakeEdge]_(Abstract!vars)
  <2> SUFFICES ASSUME IInv, IInv', [Next]_vars
               PROVE  [Abstract!TakeEdge]_(Abstract!vars)
    OBVIOUS
  <2>1. UNCHANGED <<edge, entry>>
    BY DEF Next, Step, Stopped, Walk, WalkEnds, ReserveTemporary,
           NoTemporaryNeeded, EmitSafeCopy, BreakCycle, Finish, vars
  <2>2. CASE Finish
    <3>1. phase # "done" /\ phase' = "done" /\ mem' = mem
      BY <2>2 DEF Finish, copyVars
    <3>2. EdgeTransferCorrect'
      <4>1. IInv' => EdgeTransferCorrect'
        BY TransferFromInvariant, PTL
      <4> QED BY <4>1
    <3>3. /\ \A i \in DOMAIN edge : mem'[edge[i].dst] = entry[edge[i].src]
          /\ \A l \in Loc : (\A i \in DOMAIN edge : edge[i].dst # l)
                                => mem'[l] = entry[l]
      BY <2>1, <3>1, <3>2 DEF EdgeTransferCorrect
    <3>4. /\ edge \in Edges
          /\ \A i \in DOMAIN edge : edge[i].src \in Loc
      BY EdgeFacts DEF IInv, TypeOK
    <3>5. ASSUME NEW l \in Loc
          PROVE  mem'[l] = Abstract!Transfer(edge, [k \in Loc |-> entry[k]])[l]
      <4>1. CASE l \in Abstract!Destinations(edge)
        <5> DEFINE i == CHOOSE i \in DOMAIN edge : edge[i].dst = l
        <5>1. i \in DOMAIN edge /\ edge[i].dst = l
          BY <4>1 DEF Abstract!Destinations
        <5> QED BY <3>3, <3>4, <4>1, <5>1
                DEF Abstract!Transfer, Abstract!SourceOf
      <4>2. CASE l \notin Abstract!Destinations(edge)
        BY <3>3, <4>2 DEF Abstract!Transfer, Abstract!Destinations
      <4> QED BY <4>1, <4>2
    <3>6. [l \in Loc |-> mem'[l]]
             = Abstract!Transfer(edge, [l \in Loc |-> entry[l]])
      BY <3>5 DEF Abstract!Transfer
    <3> QED BY <2>1, <3>1, <3>6 DEF Abstract!TakeEdge
  <2>3. CASE phase' = phase /\ (phase = "done" => mem' = mem)
    BY <2>1, <2>3 DEF Abstract!vars
  <2>4. CASE phase # "done" /\ phase' # "done"
    BY <2>1, <2>4 DEF Abstract!vars
  <2> QED BY <2>2, <2>3, <2>4
          DEF Next, Step, Stopped, Walk, WalkEnds, ReserveTemporary,
              NoTemporaryNeeded, EmitSafeCopy, BreakCycle, vars, copyVars
<1> QED BY Invariance, <1>1, <1>2, PTL DEF Spec
=============================================================================
