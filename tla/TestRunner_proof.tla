-------------------------- MODULE TestRunner_proof --------------------------
(***************************************************************************)
(* Proof that the verdicts of TestRunner are right, for any layout of the  *)
(* memory, any budget and any programs.                                    *)
(***************************************************************************)
EXTENDS TestRunner, TLAPS, SequenceTheorems

(***************************************************************************)
(* memory.c compares the two ends of an access with those of an area; that *)
(* is to ask for every byte.                                               *)
(***************************************************************************)
LEMMA BytesInRange ==
  ASSUME NEW a \in Int, NEW w \in {1, 2, 4}, NEW s \in Int, NEW e \in Int
  PROVE  (a .. a + w - 1) \subseteq (s .. e - 1) <=> RangeWithin(a, w, s, e)
<1>1. ASSUME (a .. a + w - 1) \subseteq (s .. e - 1)
      PROVE  RangeWithin(a, w, s, e)
  <2>1. a \in a .. a + w - 1 /\ a + w - 1 \in a .. a + w - 1
    OBVIOUS
  <2>2. a \in s .. e - 1 /\ a + w - 1 \in s .. e - 1
    BY <1>1, <2>1
  <2> QED BY <2>2 DEF RangeWithin
<1>2. ASSUME RangeWithin(a, w, s, e)
      PROVE  (a .. a + w - 1) \subseteq (s .. e - 1)
  BY <1>2 DEF RangeWithin
<1> QED BY <1>1, <1>2

LEMMA AreasAreIntegers ==
  /\ VectorStart \in Int /\ VectorEnd \in Int /\ CodeStart \in Int
  /\ CodeEnd \in Int /\ DataStart \in Int /\ DataEnd \in Int
  /\ StackStart \in Int /\ StackEnd \in Int /\ GuardSize \in Int
BY RunnerAssumption

LEMMA AddressesAreIntegers == \A address \in Addresses : address \in Int
BY RunnerAssumption

(***************************************************************************)
(* So memory.c accepts exactly the accesses that are allowed.              *)
(***************************************************************************)
LEMMA AcceptedIsAllowed ==
  ASSUME NEW access, access.address \in Int, access.width \in {1, 2, 4}
  PROVE  Accepted(access) <=> Allowed(access)
<1> DEFINE a == access.address
           w == access.width
<1>1. a \in Int /\ w \in {1, 2, 4}
  OBVIOUS
<1>2. /\ Bytes(access) \subseteq (VectorStart .. VectorEnd - 1)
           <=> RangeWithin(a, w, VectorStart, VectorEnd)
      /\ Bytes(access) \subseteq (DataStart .. DataEnd - 1)
           <=> RangeWithin(a, w, DataStart, DataEnd)
      /\ Bytes(access) \subseteq (StackStart .. StackEnd - 1)
           <=> RangeWithin(a, w, StackStart, StackEnd)
      /\ Bytes(access) \subseteq (CodeStart .. CodeEnd - 1)
           <=> RangeWithin(a, w, CodeStart, CodeEnd)
  BY <1>1, AreasAreIntegers, BytesInRange DEF Bytes
<1>3. (\E area \in Areas : Bytes(access) \subseteq area) <=> Writable(a, w)
  BY <1>2 DEF Writable, Areas
<1>4. (\E area \in Areas \cup {CodeStart .. CodeEnd - 1} :
          Bytes(access) \subseteq area) <=> Readable(a, w)
  BY <1>2, <1>3 DEF Readable
<1>5. Aligned(a, w) <=> (w = 1 \/ a % 2 = 0)
  BY DEF Aligned
<1>6. CASE access.operation = "read"
  <2>1. Accepted(access) <=> Aligned(a, w) /\ Readable(a, w)
    BY <1>6 DEF Accepted
  <2>2. AreasFor(access.operation) = Areas \cup {CodeStart .. CodeEnd - 1}
    BY <1>6 DEF AreasFor
  <2> QED BY <1>4, <1>5, <2>1, <2>2 DEF Allowed
<1>7. CASE access.operation # "read"
  <2>1. Accepted(access) <=> Aligned(a, w) /\ Writable(a, w)
    BY <1>7 DEF Accepted
  <2>2. AreasFor(access.operation) = Areas
    BY <1>7 DEF AreasFor
  <2> QED BY <1>3, <1>5, <2>1, <2>2 DEF Allowed
<1> QED BY <1>6, <1>7

(***************************************************************************)
(* The inductive invariant.  While a test is under way:                    *)
(***************************************************************************)
Active == phase \in {"fetch", "instruction", "judge"}

Typed ==
    /\ suite \in Seq(Kinds)
    /\ phase \in {"prepare", "fetch", "instruction", "judge", "exit"}
    /\ phase # "exit" => suite # <<>>
    /\ pc \in Int /\ kept \in BOOLEAN
    /\ accesses \in Nat /\ executed \in Nat
    /\ history \in Seq(Int)

(* memory.c has noted the first forbidden access, and no other.            *)
FirstFault == Active => fault = breach

(* The loop has counted every instruction, goes on only without a fault,   *)
(* and ended for the reason that it gives.                                 *)
LoopExact ==
    /\ phase = "fetch" =>
          fault = NoFault /\ Len(history) = executed
          /\ executed <= MaxInstructions
    /\ phase = "instruction" =>
          executed < MaxInstructions /\ Len(history) = executed + 1
    /\ phase = "judge" =>
          /\ Len(history) = executed /\ executed <= MaxInstructions
          /\ stop # "none"
          /\ fault = NoFault => stop = StopReason
          /\ fault # NoFault => stop = "memory fault"

(* How far the programs of the runner itself have come.                    *)
GuardProgram ==
    /\ phase = "fetch" => pc = CodeStart /\ executed = 0
    /\ phase = "instruction" /\ accesses > 0 => fault # NoFault
    /\ phase = "judge" => fault # NoFault
EndlessProgram == Active => fault = NoFault /\ pc = CodeStart
SavedProgram ==
    /\ Active => fault = NoFault
    /\ Active => \/ executed = 0 /\ pc = CodeStart
                 \/ executed = 1 /\ pc = CodeStart + 2 /\ ~kept
                 \/ executed = 2 /\ pc = ReturnSentinel /\ ~kept
    /\ phase = "instruction" => executed < 2

OwnPrograms ==
    suite # <<>> =>
        /\ Test = "memory guard" => GuardProgram
        /\ Test = "instruction limit" => EndlessProgram
        /\ Test = "saved register" => SavedProgram

Inv == Typed /\ FirstFault /\ LoopExact /\ OwnPrograms

LEMMA LayoutFacts ==
  /\ CodeStart % 2 = 0 /\ CodeStart + 2 < CodeEnd - 4
  /\ ~Readable(StackEnd, 4)
  /\ MaxInstructions \in Nat /\ MaxInstructions > 2
BY LayoutAssumption DEF FaultSentinel

(***************************************************************************)
(* The two addresses at which the runner's own programs have instructions  *)
(* do not end the loop.                                                    *)
(***************************************************************************)
LEMMA OwnInstructionsRun ==
  ASSUME pc \in {CodeStart, CodeStart + 2}, executed # MaxInstructions
  PROVE  StopReason = "none"
<1>1. pc \in Int /\ pc < CodeEnd - 4 /\ pc >= CodeStart /\ pc % 2 = 0
  BY AreasAreIntegers, LayoutFacts
<1>2. IsExecutable(pc)
  BY <1>1, AreasAreIntegers DEF IsExecutable, RangeWithin, Aligned
<1>3. pc # ReturnSentinel /\ pc # FaultSentinel
  BY <1>1, AreasAreIntegers DEF ReturnSentinel, FaultSentinel
<1> QED BY <1>2, <1>3 DEF StopReason

LEMMA KnownTest ==
  ASSUME suite \in Seq(Kinds), suite # <<>>
  PROVE  Test \in Kinds
BY DEF Test

LEMMA InitInv == Init => Inv
<1> SUFFICES ASSUME Init PROVE Inv
  OBVIOUS
<1>1. Typed
  <2>1. suite \in Seq(Kinds) /\ suite # <<>>
    BY RunnerAssumption DEF Init
  <2>2. history \in Seq(Int)
    BY DEF Init
  <2>3. kept \in BOOLEAN
    BY DEF Init
  <2>4. phase = "prepare" /\ pc = 0 /\ accesses = 0 /\ executed = 0
    BY DEF Init
  <2> QED BY <2>1, <2>2, <2>3, <2>4 DEF Typed
<1>2. FirstFault /\ LoopExact
  BY DEF Init, FirstFault, LoopExact, Active
<1>3. OwnPrograms
  BY DEF Init, OwnPrograms, GuardProgram, EndlessProgram, SavedProgram,
         Active
<1> QED BY <1>1, <1>2, <1>3 DEF Inv

LEMMA PreparePreserves == Inv /\ Prepare => Inv'
<1> SUFFICES ASSUME Inv, Prepare PROVE Inv'
  OBVIOUS
<1>1. Typed'
  BY AreasAreIntegers DEF Inv, Typed, Prepare
<1>2. FirstFault' /\ LoopExact'
  <2>1. /\ phase' = "fetch" /\ fault' = NoFault /\ breach' = NoFault
        /\ executed' = 0 /\ history' = <<>>
    BY DEF Prepare
  <2> QED BY <2>1, LayoutFacts DEF FirstFault, LoopExact
<1>3. OwnPrograms'
  BY DEF Prepare, OwnPrograms, GuardProgram, EndlessProgram, SavedProgram,
         Active, Test
<1> QED BY <1>1, <1>2, <1>3 DEF Inv

LEMMA StopPreserves == Inv /\ Stop => Inv'
<1> SUFFICES ASSUME Inv, Stop PROVE Inv'
  OBVIOUS
<1>1. Typed'
  BY DEF Inv, Typed, Stop, registers, ghosts
<1>2. FirstFault'
  BY DEF Inv, FirstFault, Active, Stop, memory, ghosts
<1>3. LoopExact'
  <2>1. /\ StopReason' = StopReason /\ stop' = StopReason
        /\ StopReason # "none"
    BY DEF Stop, StopReason, registers
  <2> QED BY <2>1 DEF Inv, LoopExact, Stop, memory, ghosts
<1>4. OwnPrograms'
  <2> SUFFICES ASSUME suite' # <<>> PROVE OwnPrograms!2'
    BY DEF OwnPrograms
  <2>1. suite' = suite /\ Test' = Test /\ OwnPrograms!2
    BY DEF Stop, Test, Inv, OwnPrograms
  <2>2. ASSUME Test = "memory guard" PROVE GuardProgram'
    <3>1. pc = CodeStart /\ executed = 0
      BY <2>1, <2>2 DEF GuardProgram, Stop
    <3>2. StopReason = "none"
      BY <3>1, LayoutFacts, OwnInstructionsRun
    <3> QED BY <3>2 DEF Stop
  <2>3. ASSUME Test = "instruction limit" PROVE EndlessProgram'
    BY <2>1, <2>3 DEF EndlessProgram, Active, Stop, memory, registers
  <2>4. ASSUME Test = "saved register" PROVE SavedProgram'
    BY <2>1, <2>4 DEF SavedProgram, Active, Stop, memory, registers
  <2> QED BY <2>1, <2>2, <2>3, <2>4
<1> QED BY <1>1, <1>2, <1>3, <1>4 DEF Inv

LEMMA FetchPreserves == Inv /\ Fetch => Inv'
<1> SUFFICES ASSUME Inv, Fetch PROVE Inv'
  OBVIOUS
<1>1. Typed'
  <2>1. history' \in Seq(Int)
    BY DEF Inv, Typed, Fetch
  <2> QED BY <2>1 DEF Inv, Typed, Fetch, registers
<1>2. FirstFault'
  BY DEF Inv, FirstFault, Active, Fetch, memory
<1>3. LoopExact'
  <2>1. Len(history') = Len(history) + 1
    BY DEF Inv, Typed, Fetch
  <2>2. /\ executed # MaxInstructions /\ executed' = executed
        /\ phase = "fetch" /\ phase' = "instruction" /\ fault' = fault
    BY DEF Fetch, StopReason, memory
  <2>3. executed \in Nat /\ executed <= MaxInstructions
        /\ Len(history) = executed
    BY <2>2 DEF Inv, Typed, LoopExact
  <2> QED BY <2>1, <2>2, <2>3, LayoutFacts DEF LoopExact
<1>4. OwnPrograms'
  <2> SUFFICES ASSUME suite' # <<>> PROVE OwnPrograms!2'
    BY DEF OwnPrograms
  <2>1. suite' = suite /\ Test' = Test /\ OwnPrograms!2
    BY DEF Fetch, Test, Inv, OwnPrograms
  <2>2. ASSUME Test = "memory guard" PROVE GuardProgram'
    <3>1. phase' = "instruction" /\ accesses' = 0
      BY DEF Fetch
    <3> QED BY <3>1 DEF GuardProgram
  <2>3. ASSUME Test = "instruction limit" PROVE EndlessProgram'
    BY <2>1, <2>3 DEF EndlessProgram, Active, Fetch, memory, registers
  <2>4. ASSUME Test = "saved register" PROVE SavedProgram'
    <3>1. ~(executed = 2 /\ pc = ReturnSentinel)
      BY LayoutFacts DEF Fetch, StopReason
    <3>2. /\ phase = "fetch" /\ phase' = "instruction" /\ fault' = fault
          /\ pc' = pc /\ kept' = kept /\ executed' = executed
      BY DEF Fetch, memory, registers
    <3>3. /\ fault = NoFault
          /\ \/ executed = 0 /\ pc = CodeStart
             \/ executed = 1 /\ pc = CodeStart + 2 /\ ~kept
      BY <2>1, <2>4, <3>1, <3>2 DEF SavedProgram, Active
    <3>4. executed' < 2
      BY <3>2, <3>3
    <3> QED BY <3>2, <3>3, <3>4 DEF SavedProgram
  <2> QED BY <2>1, <2>2, <2>3, <2>4
<1> QED BY <1>1, <1>2, <1>3, <1>4 DEF Inv

(***************************************************************************)
(* What an access changes of the two records of faults.                    *)
(***************************************************************************)
LEMMA FaultRecorded ==
  ASSUME Inv, Access
  PROVE  /\ fault' = breach'
         /\ fault # NoFault => fault' # NoFault
         /\ Test = "memory guard" => fault' # NoFault
         /\ Test \in {"instruction limit", "saved register"} => FALSE
<1>1. PICK access \in TestAccesses :
         /\ fault' = IF Accepted(access) THEN fault ELSE Recorded(access)
         /\ breach' = IF Allowed(access) \/ breach # NoFault THEN breach
                      ELSE access
  BY DEF Access
<1>2. Test \in Kinds
  BY KnownTest DEF Inv, Typed, Access
<1>3. /\ access.address \in Int /\ access.width \in {1, 2, 4}
      /\ access.operation \in {"read", "write"}
  <2>1. CASE access \in Reads
    BY <2>1, AddressesAreIntegers DEF Reads
  <2>2. CASE access \in Writes
    BY <2>2, AddressesAreIntegers DEF Writes
  <2>3. CASE access = [operation |-> "read", address |-> StackEnd, width |-> 4]
    BY <2>3, AreasAreIntegers
  <2> QED BY <1>1, <2>1, <2>2, <2>3 DEF TestAccesses
<1>4. Accepted(access) <=> Allowed(access)
  BY <1>3, AcceptedIsAllowed
<1>5. access # NoFault
  BY <1>3 DEF NoFault
<1>6. fault = breach
  BY DEF Inv, FirstFault, Active, Access
<1>7. ASSUME Test = "memory guard" PROVE ~Accepted(access)
  <2>1. access = [operation |-> "read", address |-> StackEnd, width |-> 4]
    BY <1>1, <1>7 DEF TestAccesses, AnyProgram
  <2> QED BY <2>1, LayoutFacts DEF Accepted
<1>8. Test \in {"instruction limit", "saved register"} => FALSE
  BY <1>1 DEF TestAccesses, AnyProgram
<1> QED BY <1>1, <1>4, <1>5, <1>6, <1>7, <1>8 DEF Recorded

LEMMA AccessPreserves == Inv /\ Access => Inv'
<1> SUFFICES ASSUME Inv, Access PROVE Inv'
  OBVIOUS
<1>1. Typed'
  BY DEF Inv, Typed, Access, registers
<1>2. FirstFault'
  BY FaultRecorded DEF FirstFault
<1>3. LoopExact'
  BY DEF Inv, LoopExact, Access
<1>4. OwnPrograms'
  <2>1. suite' = suite /\ Test' = Test
    BY DEF Access, Test
  <2> QED BY <2>1, FaultRecorded
             DEF OwnPrograms, GuardProgram, Access
<1> QED BY <1>1, <1>2, <1>3, <1>4 DEF Inv

LEMMA InstructionEndsPreserves == Inv /\ InstructionEnds => Inv'
<1> SUFFICES ASSUME Inv, InstructionEnds PROVE Inv'
  OBVIOUS
<1>1. PICK after \in Outcomes : pc' = after.pc /\ kept' = after.kept
  BY DEF InstructionEnds
<1>2. Test \in Kinds /\ suite # <<>> /\ suite' = suite /\ Test' = Test
  BY KnownTest DEF Inv, Typed, InstructionEnds, Test
<1>3. after.pc \in Int /\ after.kept \in BOOLEAN
  <2>1. CASE AnyProgram
    <3>1. after \in [pc : Addresses, a7 : Stacks, good : BOOLEAN,
                     kept : BOOLEAN]
      BY <1>1, <2>1 DEF Outcomes
    <3> QED BY <3>1, AddressesAreIntegers
  <2>2. CASE ~AnyProgram
    <3>1. after = OwnOutcome
      BY <1>1, <2>2 DEF Outcomes
    <3>2. /\ OwnOutcome.pc \in {pc, pc + 2, ReturnSentinel}
          /\ OwnOutcome.kept \in BOOLEAN
      BY DEF OwnOutcome
    <3>3. pc \in Int /\ ReturnSentinel \in Int
      BY AreasAreIntegers DEF Inv, Typed, ReturnSentinel
    <3> QED BY <3>1, <3>2, <3>3
  <2> QED BY <2>1, <2>2
<1>4. Typed'
  <2>1. pc' \in Int /\ kept' \in BOOLEAN
    BY <1>1, <1>3
  <2>2. phase' \in {"fetch", "judge"} /\ executed' = executed + 1
        /\ history' = history /\ accesses' = accesses
    BY DEF InstructionEnds, ghosts
  <2> QED BY <1>2, <2>1, <2>2 DEF Inv, Typed
<1>5. FirstFault'
  BY DEF Inv, FirstFault, Active, InstructionEnds, memory, ghosts
<1>6. LoopExact'
  <2>1. /\ phase = "instruction" /\ executed' = executed + 1
        /\ fault' = fault /\ history' = history
    BY DEF InstructionEnds, memory, ghosts
  <2>2. /\ executed \in Nat /\ executed < MaxInstructions
        /\ Len(history) = executed + 1
    BY <2>1 DEF Inv, Typed, LoopExact
  <2>3. \/ fault # NoFault /\ phase' = "judge" /\ stop' = "memory fault"
        \/ fault = NoFault /\ phase' = "fetch"
    BY DEF InstructionEnds
  <2>4. Len(history') = executed'
    BY <2>1, <2>2
  <2>5. MaxInstructions \in Nat
    BY LayoutFacts
  <2>6. executed' <= MaxInstructions
    BY <2>1, <2>2, <2>5
  <2> QED BY <2>1, <2>3, <2>4, <2>6 DEF LoopExact
<1>7. OwnPrograms'
  <2>1. OwnPrograms!2
    BY <1>2 DEF Inv, OwnPrograms
  <2>2. ASSUME Test = "memory guard" PROVE GuardProgram'
    BY <2>1, <2>2 DEF GuardProgram, InstructionEnds, memory
  <2>3. ASSUME Test = "instruction limit" PROVE EndlessProgram'
    <3>1. after.pc = pc
      <4>1. ~AnyProgram
        BY <2>3 DEF AnyProgram
      <4>2. after = OwnOutcome
        BY <1>1, <4>1 DEF Outcomes
      <4> QED BY <2>3, <4>2 DEF OwnOutcome
    <3> QED BY <1>1, <2>1, <2>3, <3>1
               DEF EndlessProgram, Active, InstructionEnds, memory
  <2>4. ASSUME Test = "saved register" PROVE SavedProgram'
    <3>1. /\ after.pc = IF pc = CodeStart THEN pc + 2 ELSE ReturnSentinel
          /\ ~after.kept
      <4>1. ~AnyProgram
        BY <2>4 DEF AnyProgram
      <4>2. after = OwnOutcome
        BY <1>1, <4>1 DEF Outcomes
      <4> QED BY <2>4, <4>2 DEF OwnOutcome
    <3>2. fault = NoFault /\ executed' = executed + 1 /\ fault' = fault
          /\ phase' = "fetch"
      BY <2>1, <2>4 DEF SavedProgram, Active, InstructionEnds, memory
    <3>3. \/ executed = 0 /\ pc = CodeStart
          \/ executed = 1 /\ pc = CodeStart + 2
      <4>1. phase = "instruction" /\ SavedProgram
        BY <2>1, <2>4 DEF InstructionEnds
      <4> QED BY <4>1 DEF SavedProgram, Active
    <3>4. \/ executed' = 1 /\ pc' = CodeStart + 2 /\ ~kept'
          \/ executed' = 2 /\ pc' = ReturnSentinel /\ ~kept'
      BY <1>1, <3>1, <3>2, <3>3, AreasAreIntegers
    <3> QED BY <3>2, <3>4 DEF SavedProgram
  <2> QED BY <1>2, <2>2, <2>3, <2>4 DEF OwnPrograms
<1> QED BY <1>4, <1>5, <1>6, <1>7 DEF Inv

LEMMA JudgePreserves == Inv /\ Judge => Inv'
<1> SUFFICES ASSUME Inv, Judge PROVE Inv'
  OBVIOUS
<1>1. suite \in Seq(Kinds) /\ suite # <<>>
  BY DEF Inv, Typed, Judge
<1>2. suite' \in Seq(Kinds) /\ (Len(suite) > 1 => suite' # <<>>)
  <2>1. suite' = Tail(suite)
    BY DEF Judge
  <2>2. Tail(suite) \in Seq(Kinds) /\ Len(Tail(suite)) = Len(suite) - 1
    BY <1>1, HeadTailProperties
  <2>3. ASSUME Len(suite) > 1 PROVE Tail(suite) # <<>>
    <3>1. Len(suite) \in Nat /\ Len(<<>>) = 0
      BY <1>1, LenProperties
    <3>2. Len(Tail(suite)) # 0
      BY <2>2, <2>3, <3>1
    <3> QED BY <3>1, <3>2
  <2> QED BY <2>1, <2>2, <2>3
<1>3. phase' \in {"prepare", "exit"} /\ (phase' # "exit" => suite' # <<>>)
  BY <1>2 DEF Judge
<1>4. Typed'
  BY <1>2, <1>3 DEF Inv, Typed, Judge, registers, ghosts
<1>5. FirstFault' /\ LoopExact' /\ OwnPrograms'
  BY <1>3 DEF FirstFault, LoopExact, OwnPrograms, GuardProgram,
              EndlessProgram, SavedProgram, Active
<1> QED BY <1>4, <1>5 DEF Inv

(***************************************************************************)
(* Every state that the runner reaches satisfies the invariant.            *)
(***************************************************************************)
THEOREM Invariance == Spec => []Inv
<1>1. Inv /\ [Next]_vars => Inv'
  <2> SUFFICES ASSUME Inv, [Next]_vars PROVE Inv'
    OBVIOUS
  <2>1. CASE Prepare
    BY <2>1, PreparePreserves
  <2>2. CASE Stop
    BY <2>2, StopPreserves
  <2>3. CASE Fetch
    BY <2>3, FetchPreserves
  <2>4. CASE Access
    BY <2>4, AccessPreserves
  <2>5. CASE InstructionEnds
    BY <2>5, InstructionEndsPreserves
  <2>6. CASE Judge
    BY <2>6, JudgePreserves
  <2>7. CASE UNCHANGED vars
    BY <2>7 DEF vars, registers, memory, ghosts, Inv, Typed, FirstFault,
       LoopExact, OwnPrograms, GuardProgram, EndlessProgram, SavedProgram,
       Active, Test, StopReason
  <2> QED
    BY <2>1, <2>2, <2>3, <2>4, <2>5, <2>6, <2>7 DEF Next
<1> QED BY <1>1, InitInv, PTL DEF Spec

(***************************************************************************)
(* A run that ended at the return sentinel is one without a forbidden      *)
(* access and within the budget, and the other way round.                  *)
(***************************************************************************)
LEMMA ReturnedExactly ==
  ASSUME Inv, phase = "judge"
  PROVE  stop = "returned" <=> /\ breach = NoFault
                               /\ Len(history) < MaxInstructions
                               /\ pc = ReturnSentinel
<1>1. fault = breach
  BY DEF Inv, FirstFault, Active
<1>2. /\ Len(history) = executed /\ executed <= MaxInstructions
      /\ executed \in Nat
      /\ fault = NoFault => stop = StopReason
      /\ fault # NoFault => stop = "memory fault"
  BY DEF Inv, Typed, LoopExact
<1>3. MaxInstructions \in Nat
  BY LayoutFacts
<1>4. Len(history) < MaxInstructions <=> executed # MaxInstructions
  <2>1. executed \in Nat /\ executed <= MaxInstructions
    BY <1>2
  <2>2. executed < MaxInstructions <=> executed # MaxInstructions
    BY <1>3, <2>1
  <2>3. Len(history) = executed
    BY <1>2
  <2> QED BY <2>2, <2>3
<1>5. StopReason = "returned"
        <=> executed # MaxInstructions /\ pc = ReturnSentinel
  BY DEF StopReason
<1> QED BY <1>1, <1>2, <1>4, <1>5

LEMMA OwnTestsPass ==
  ASSUME Inv, phase = "judge", ~AnyProgram
  PROVE  Passed
<1>1. suite # <<>> /\ Test \in Kinds
  BY KnownTest DEF Inv, Typed
<1>2. /\ Test = "memory guard" => GuardProgram
      /\ Test = "instruction limit" => EndlessProgram
      /\ Test = "saved register" => SavedProgram
  BY <1>1 DEF Inv, OwnPrograms
<1>3. /\ fault = NoFault => stop = StopReason
      /\ fault # NoFault => stop = "memory fault"
      /\ stop # "none"
  BY DEF Inv, LoopExact
<1>4. CASE Test = "memory guard"
  <2>1. fault # NoFault
    BY <1>2, <1>4 DEF GuardProgram
  <2> QED BY <1>3, <1>4, <2>1 DEF Passed
<1>5. CASE Test = "instruction limit"
  <2>1. fault = NoFault /\ pc = CodeStart
    BY <1>2, <1>5 DEF EndlessProgram, Active
  <2>2. executed = MaxInstructions
    BY <1>3, <2>1, OwnInstructionsRun
  <2>3. stop = "instruction limit"
    BY <1>3, <2>1, <2>2 DEF StopReason
  <2> QED BY <1>5, <2>2, <2>3 DEF Passed
<1>6. CASE Test = "saved register"
  <2>1. /\ fault = NoFault
        /\ \/ executed = 0 /\ pc = CodeStart
           \/ executed = 1 /\ pc = CodeStart + 2 /\ ~kept
           \/ executed = 2 /\ pc = ReturnSentinel /\ ~kept
    BY <1>2, <1>6 DEF SavedProgram, Active
  <2>2. StopReason # "none"
    BY <1>3, <2>1
  <2>3. executed = 2 /\ pc = ReturnSentinel /\ ~kept
    BY <2>1, <2>2, OwnInstructionsRun, LayoutFacts
  <2>4. stop = "returned"
    <3>1. executed # MaxInstructions
      BY <2>3, LayoutFacts
    <3>2. StopReason = "returned"
      BY <2>3, <3>1 DEF StopReason
    <3> QED BY <1>3, <2>1, <3>2
  <2> QED BY <1>6, <2>3, <2>4 DEF Passed
<1>7. Test \in {"memory guard", "instruction limit", "saved register"}
  BY <1>1 DEF AnyProgram, Kinds
<1> QED BY <1>4, <1>5, <1>6, <1>7

(***************************************************************************)
(* The verdict on a case is right whatever its program does, and the       *)
(* tests of the runner itself pass (VerdictSound): no program that touches *)
(* what it must not, or loses its way, is reported as passed, and no other *)
(* one as failed.                                                          *)
(***************************************************************************)
THEOREM VerdictCorrect == Spec => []VerdictSound
<1>1. Inv => VerdictSound
  <2> SUFFICES ASSUME Inv, phase = "judge" PROVE VerdictSound
    BY DEF VerdictSound
  <2>1. ASSUME Test = "case"
        PROVE  Passed <=> /\ breach = NoFault
                          /\ Len(history) < MaxInstructions
                          /\ pc = ReturnSentinel /\ good /\ a7 = Top /\ kept
                          /\ GuardsIntact
    <3>1. Passed <=> /\ stop = "returned" /\ good /\ a7 = Top /\ kept
                     /\ GuardsIntact
      BY <2>1 DEF Passed
    <3> QED BY <3>1, ReturnedExactly
  <2>2. ~AnyProgram => Passed
    BY OwnTestsPass
  <2> QED BY <2>1, <2>2 DEF VerdictSound
<1> QED BY <1>1, Invariance, PTL

(***************************************************************************)
(* What is reported of a failed program is its first forbidden access, and *)
(* a fault is reported exactly if there was one (record_fault and the end  *)
(* of the loop of execute_program).                                        *)
(***************************************************************************)
THEOREM FirstFaultReported ==
  Spec => [](phase = "judge" =>
               /\ fault = breach
               /\ (stop = "memory fault") <=> (breach # NoFault))
<1>1. ASSUME Inv, phase = "judge"
      PROVE  /\ fault = breach
             /\ (stop = "memory fault") <=> (breach # NoFault)
  <2>1. fault = breach
    BY <1>1 DEF Inv, FirstFault, Active
  <2>2. StopReason # "memory fault"
    BY DEF StopReason
  <2> QED BY <1>1, <2>1, <2>2 DEF Inv, LoopExact
<1> QED BY <1>1, Invariance, PTL

(***************************************************************************)
(* Positions in the ring of the trace: each lies one after the last, and   *)
(* fewer than Capacity steps never come back to the same one.              *)
(***************************************************************************)
LEMMA Remainder ==
  ASSUME NEW c \in Nat \ {0}, NEW q \in Int, NEW r \in 0 .. c - 1,
         NEW x \in Int, x = q * c + r
  PROVE  x % c = r
<1>1. x \div c = q
  OBVIOUS
<1>2. x % c = x - c * (x \div c)
  OBVIOUS
<1> QED BY <1>1, <1>2

LEMMA NextPosition ==
  ASSUME NEW c \in Nat \ {0}, NEW n \in Nat
  PROVE  ((n % c) + 1) % c = (n + 1) % c
<1> DEFINE q == n \div c
           r == n % c
<1>1. q \in Int /\ r \in 0 .. c - 1 /\ r = n - c * q
  OBVIOUS
<1> HIDE DEF q, r
<1>2. CASE r + 1 < c
  <2>1. n + 1 = q * c + (r + 1) /\ r + 1 \in 0 .. c - 1
    BY <1>1, <1>2
  <2>2. (n + 1) % c = r + 1
    <3>1. PICK x \in Int, t \in 0 .. c - 1 :
             x = n + 1 /\ t = r + 1 /\ x = q * c + t
      BY <1>1, <2>1
    <3>2. x % c = t
      BY ZenonT(30), <1>1, <3>1, Remainder
    <3> QED BY <3>1, <3>2
  <2>3. (r + 1) % c = r + 1
    BY <2>1
  <2> QED BY <2>2, <2>3 DEF r
<1>3. CASE r + 1 = c
  <2>1. n + 1 = (q + 1) * c + 0 /\ 0 \in 0 .. c - 1 /\ q + 1 \in Int
    BY <1>1, <1>3
  <2>2. (n + 1) % c = 0
    BY <2>1, Remainder
  <2>3. c % c = 0
    OBVIOUS
  <2> QED BY <1>3, <2>2, <2>3 DEF r
<1> QED BY <1>1, <1>2, <1>3

LEMMA OtherPosition ==
  ASSUME NEW c \in Nat \ {0}, NEW n \in Nat, NEW j \in Nat,
         j < n, n - j < c
  PROVE  j % c # n % c
<1> DEFINE p == j \div c
           q == n \div c
<1>1. p \in Int /\ q \in Int
  OBVIOUS
<1>2. j % c = j - c * p /\ n % c = n - c * q
  OBVIOUS
<1> HIDE DEF p, q
<1>3. SUFFICES ASSUME j % c = n % c PROVE FALSE
  OBVIOUS
<1>4. n - j = c * (q - p)
  BY <1>1, <1>2, <1>3
<1>5. PICK d \in Int : d = q - p
  BY <1>1
<1>6. c * d > 0 /\ c * d < c
  BY <1>4, <1>5
<1>7. d >= 1 \/ d <= 0
  BY <1>5
<1>8. CASE d >= 1
  <2>1. c * d >= c
    BY <1>5, <1>8
  <2> QED BY <1>5, <1>6, <2>1
<1>9. CASE d <= 0
  <2>1. c * d <= 0
    BY <1>5, <1>9
  <2> QED BY <1>5, <1>6, <2>1
<1> QED BY <1>7, <1>8, <1>9

LEMMA ShiftedPosition ==
  ASSUME NEW c \in Nat \ {0}, NEW n \in Nat, NEW j \in Nat, n >= c
  PROVE  ((n % c) + j) % c = ((n - c) + j) % c
<1> DEFINE q == n \div c
           r == n % c
           m == r + j
           s == m \div c
           t == m % c
<1>1. q \in Int /\ r \in 0 .. c - 1 /\ r = n - c * q
  OBVIOUS
<1> HIDE DEF q, r
<1>2. m \in Nat /\ s \in Int /\ t \in 0 .. c - 1 /\ t = m - c * s
  BY <1>1
<1> HIDE DEF s, t
<1>3. (n - c) + j = ((q - 1) + s) * c + t
  BY <1>1, <1>2
<1>4. (q - 1) + s \in Int
  BY <1>1, <1>2
<1>5. PICK k \in Int : k = (q - 1) + s
  BY <1>4
<1>6. (n - c) + j = k * c + t
  BY <1>3, <1>5
<1> HIDE DEF m
<1>7. ((n - c) + j) % c = t
  <2>1. PICK x \in Int : x = (n - c) + j /\ x = k * c + t
    BY <1>6
  <2>2. x % c = t
    <3>1. t \in 0 .. c - 1
      BY <1>2
    <3>2. \A q1, y \in Int, u \in 0 .. c - 1 : y = q1 * c + u => y % c = u
      BY Remainder
    <3> QED BY <1>5, <2>1, <3>1, <3>2
  <2> QED BY <2>1, <2>2
<1> QED BY <1>7 DEF t, m, r

(***************************************************************************)
(* The buffer of the trace holds the last instructions, each at its        *)
(* position in the ring (struct trace_buffer, trace_add).                  *)
(***************************************************************************)
TraceTyped ==
    /\ trace.pcs \in [0 .. Capacity - 1 -> Int]
    /\ trace.count \in 0 .. Capacity /\ trace.next \in 0 .. Capacity - 1

TraceExact ==
    Active =>
        /\ trace.count = IF Len(history) < Capacity THEN Len(history)
                         ELSE Capacity
        /\ trace.next = Len(history) % Capacity
        /\ \A k \in 1 .. Len(history) :
              k > Len(history) - Capacity =>
                  trace.pcs[(k - 1) % Capacity] = history[k]

TraceInv == TraceTyped /\ TraceExact

LEMMA CapacityFacts == Capacity \in Nat \ {0}
BY RunnerAssumption

LEMMA PreparedTrace ==
  ASSUME TraceInv, Prepare
  PROVE  TraceInv'
<1>1. /\ trace'.pcs = [i \in DOMAIN trace.pcs |-> 0]
      /\ trace'.count = 0 /\ trace'.next = 0 /\ history' = <<>>
  BY DEF Prepare, TraceInv, TraceTyped
<1>2. TraceTyped'
  BY <1>1, CapacityFacts DEF TraceInv, TraceTyped
<1>3. 0 % Capacity = 0 /\ Len(history') = 0
  BY <1>1, CapacityFacts
<1> QED BY <1>1, <1>2, <1>3, CapacityFacts DEF TraceInv, TraceExact

LEMMA FetchedTrace ==
  ASSUME Inv, TraceInv, Fetch
  PROVE  TraceInv'
<1> DEFINE n == Len(history)
           at == trace.next
<1>1. /\ trace'.pcs = [trace.pcs EXCEPT ![at] = pc]
      /\ trace'.count = IF trace.count < Capacity THEN trace.count + 1
                        ELSE trace.count
      /\ trace'.next = (at + 1) % Capacity
      /\ history' = Append(history, pc) /\ phase = "fetch"
  BY DEF Fetch
<1>2. history \in Seq(Int) /\ pc \in Int /\ n \in Nat
  BY DEF Inv, Typed
<1>3. /\ Len(history') = n + 1 /\ history'[n + 1] = pc
      /\ \A k \in 1 .. n : history'[k] = history[k]
  BY <1>1, <1>2
<1>4. /\ trace.pcs \in [0 .. Capacity - 1 -> Int] /\ at \in 0 .. Capacity - 1
      /\ trace.count = (IF n < Capacity THEN n ELSE Capacity)
      /\ at = n % Capacity
      /\ \A k \in 1 .. n : k > n - Capacity =>
            trace.pcs[(k - 1) % Capacity] = history[k]
  BY <1>1 DEF TraceInv, TraceTyped, TraceExact, Active
<1> HIDE DEF n, at
<1>5. trace'.count = IF n + 1 < Capacity THEN n + 1 ELSE Capacity
  BY <1>1, <1>2, <1>4, CapacityFacts
<1>6. trace'.next = (n + 1) % Capacity /\ trace'.next \in 0 .. Capacity - 1
  <2>1. trace'.next = (n + 1) % Capacity
    BY <1>1, <1>2, <1>4, CapacityFacts, NextPosition
  <2> QED BY <1>2, <2>1, CapacityFacts
<1>7. ASSUME NEW k \in 1 .. n + 1, k > n + 1 - Capacity
      PROVE  trace'.pcs[(k - 1) % Capacity] = history'[k]
  <2>1. (k - 1) % Capacity \in 0 .. Capacity - 1
    BY <1>2, CapacityFacts
  <2>2. CASE k = n + 1
    <3>1. (k - 1) % Capacity = at
      BY <1>2, <1>4, <2>2
    <3> QED BY <1>1, <1>3, <1>4, <2>2, <3>1
  <2>3. CASE k \in 1 .. n
    <3>1. (k - 1) % Capacity # n % Capacity
      <4>1. k - 1 \in Nat /\ k - 1 < n /\ n - (k - 1) < Capacity
        BY <1>2, <1>7, <2>3, CapacityFacts
      <4> QED BY <1>2, <4>1, CapacityFacts, OtherPosition
    <3>2. trace'.pcs[(k - 1) % Capacity] = trace.pcs[(k - 1) % Capacity]
      BY <1>1, <1>4, <2>1, <3>1
    <3>3. k > n - Capacity
      BY <1>2, <1>7, <2>3, CapacityFacts
    <3> QED BY <1>3, <1>4, <2>3, <3>2, <3>3
  <2> QED BY <1>2, <2>2, <2>3
<1>8. TraceTyped'
  <2>1. trace'.pcs \in [0 .. Capacity - 1 -> Int]
    BY <1>1, <1>2, <1>4
  <2>2. trace'.count \in 0 .. Capacity
    BY <1>2, <1>5, CapacityFacts
  <2> QED BY <1>6, <2>1, <2>2 DEF TraceTyped
<1>9. TraceExact'
  <2>1. PICK N \in Nat : N = n + 1
    BY <1>2
  <2>2. Len(history') = N
    BY <1>3, <2>1
  <2>3. \A k \in 1 .. N :
           k > N - Capacity =>
               trace'.pcs[(k - 1) % Capacity] = history'[k]
    BY <1>2, <1>7, <2>1, CapacityFacts
  <2>4. /\ trace'.count = IF N < Capacity THEN N ELSE Capacity
        /\ trace'.next = N % Capacity
    BY <1>5, <1>6, <2>1
  <2> QED BY <2>2, <2>3, <2>4 DEF TraceExact
<1> QED BY <1>8, <1>9 DEF TraceInv

(***************************************************************************)
(* No other action touches the buffer while a test is under way.           *)
(***************************************************************************)
LEMMA KeptTrace ==
  ASSUME TraceInv, UNCHANGED <<trace, history>>, Active' => Active
  PROVE  TraceInv'
BY DEF TraceInv, TraceTyped, TraceExact

LEMMA TraceInvariance == Spec => []TraceInv
<1>1. Init => TraceInv
  <2> SUFFICES ASSUME Init PROVE TraceInv
    OBVIOUS
  <2>1. ~Active
    BY DEF Init, Active
  <2>2. TraceTyped
    BY CapacityFacts DEF Init, TraceTyped
  <2> QED BY <2>1, <2>2 DEF TraceInv, TraceExact
<1>2. Inv /\ TraceInv /\ [Next]_vars => TraceInv'
  <2> SUFFICES ASSUME Inv, TraceInv, [Next]_vars PROVE TraceInv'
    OBVIOUS
  <2>1. CASE Prepare
    BY <2>1, PreparedTrace
  <2>2. CASE Fetch
    BY <2>2, FetchedTrace
  <2>3. CASE Stop
    BY <2>3, KeptTrace DEF Stop, Active, ghosts
  <2>4. CASE Access
    BY <2>4, KeptTrace DEF Access, Active
  <2>5. CASE InstructionEnds
    BY <2>5, KeptTrace DEF InstructionEnds, Active, ghosts
  <2>6. CASE Judge
    BY <2>6, KeptTrace DEF Judge, Active, ghosts
  <2>7. CASE UNCHANGED vars
    BY <2>7, KeptTrace DEF vars, Active, ghosts
  <2> QED BY <2>1, <2>2, <2>3, <2>4, <2>5, <2>6, <2>7 DEF Next
<1> QED BY <1>1, <1>2, Invariance, PTL DEF Spec

(***************************************************************************)
(* print_trace starts at the oldest entry of the ring and prints the last  *)
(* instructions in their order.                                            *)
(***************************************************************************)
LEMMA PrintedInOrder ==
  ASSUME Inv, TraceInv, phase = "judge"
  PROVE  Printed = SubSeq(history,
                          IF Len(history) > Capacity
                          THEN Len(history) - Capacity + 1 ELSE 1,
                          Len(history))
<1> DEFINE n == Len(history)
           m == IF n > Capacity THEN n - Capacity + 1 ELSE 1
           first == (trace.next + Capacity - trace.count) % Capacity
<1>1. history \in Seq(Int) /\ n \in Nat
  BY DEF Inv, Typed
<1>2. /\ trace.count = (IF n < Capacity THEN n ELSE Capacity)
      /\ trace.next = n % Capacity
      /\ \A k \in 1 .. n : k > n - Capacity =>
            trace.pcs[(k - 1) % Capacity] = history[k]
  BY DEF TraceInv, TraceExact, Active
<1>3. \A k \in 1 .. n : history[k] \in Int
  BY <1>1
<1> HIDE DEF n
<1>4. /\ m \in Int /\ m >= 1 /\ m <= n + 1
      /\ trace.count = n - m + 1 /\ trace.count \in Nat
  BY <1>1, <1>2, CapacityFacts
<1>5. ASSUME NEW i \in 1 .. trace.count
      PROVE  trace.pcs[(first + i - 1) % Capacity] = history[m + i - 1]
  <2>1. (first + i - 1) % Capacity = (m + i - 2) % Capacity
    <3>1. CASE n < Capacity
      <4>1. first = 0 /\ m = 1
        <5>1. n % Capacity = n /\ Capacity % Capacity = 0
          BY <1>1, <3>1, CapacityFacts
        <5>2. trace.next + Capacity - trace.count = Capacity
          <6>1. trace.next = n /\ trace.count = n
            BY <1>2, <3>1, <5>1
          <6> QED BY <1>1, <6>1, CapacityFacts
        <5>3. m = 1
          BY <1>1, <3>1, CapacityFacts
        <5> QED BY <5>1, <5>2, <5>3
      <4> QED BY <4>1
    <3>2. CASE n >= Capacity
      <4>1. first = n % Capacity /\ m = n - Capacity + 1
        <5>1. n % Capacity \in 0 .. Capacity - 1
          BY <1>1, CapacityFacts
        <5>2. (n % Capacity) % Capacity = n % Capacity
          BY <5>1, CapacityFacts
        <5> QED BY <1>1, <1>2, <3>2, <5>1, <5>2, CapacityFacts
      <4>2. ((n % Capacity) + (i - 1)) % Capacity
              = ((n - Capacity) + (i - 1)) % Capacity
        <5>1. i - 1 \in Nat
          BY <1>4
        <5> QED BY <1>1, <3>2, <5>1, CapacityFacts, ShiftedPosition
      <4>3. /\ first + i - 1 = (n % Capacity) + (i - 1)
            /\ m + i - 2 = (n - Capacity) + (i - 1)
        <5>1. n % Capacity \in Int /\ i \in Int
          BY <1>1, <1>4, CapacityFacts
        <5> QED BY <1>1, <4>1, <5>1, CapacityFacts
      <4> QED BY <4>2, <4>3
    <3> QED BY <1>1, <3>1, <3>2, CapacityFacts
  <2>2. PICK k \in 1 .. n : k = m + i - 1 /\ k > n - Capacity
    BY <1>1, <1>4, CapacityFacts
  <2>3. k - 1 = m + i - 2
    BY <1>4, <2>2
  <2> QED BY <1>2, <2>1, <2>2, <2>3
<1>6. Printed = [i \in 1 .. trace.count |-> history[m + i - 1]]
  BY <1>5 DEF Printed
<1>7. /\ SubSeq(history, m, n) \in Seq(Int)
      /\ Len(SubSeq(history, m, n)) = n - m + 1
      /\ \A i \in 1 .. n - m + 1 :
            SubSeq(history, m, n)[i] = history[m + i - 1]
  <2>1. \A i \in m .. n : history[i] \in Int
    BY <1>1, <1>3, <1>4
  <2>2. (IF m <= n THEN n - m + 1 ELSE 0) = n - m + 1
    BY <1>1, <1>4
  <2> HIDE DEF m
  <2> QED BY <1>1, <1>4, <2>1, <2>2, SubSeqProperties
<1> HIDE DEF m
<1>8. SubSeq(history, m, n) = [i \in 1 .. n - m + 1 |-> history[m + i - 1]]
  BY <1>7
<1> QED BY <1>4, <1>6, <1>8 DEF m, n

(***************************************************************************)
(* A failure is reported with its cause (ReportExact): the first forbidden *)
(* access, and the last instructions, in their order, however often the    *)
(* ring of the trace has wrapped around (record_fault, trace_add,          *)
(* print_trace).                                                           *)
(***************************************************************************)
THEOREM ReportCorrect == Spec => []ReportExact
<1>1. Inv /\ TraceInv => ReportExact
  <2> SUFFICES ASSUME Inv, TraceInv, phase = "judge" PROVE ReportExact
    BY DEF ReportExact
  <2>1. fault = breach
    BY DEF Inv, FirstFault, Active
  <2>2. (stop = "memory fault") = (breach # NoFault)
    <3>1. StopReason # "memory fault"
      BY DEF StopReason
    <3> QED BY <2>1, <3>1 DEF Inv, LoopExact
  <2> QED BY <2>1, <2>2, PrintedInOrder DEF ReportExact
<1> QED BY <1>1, Invariance, TraceInvariance, PTL
=============================================================================
