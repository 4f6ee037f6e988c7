----------------------------- MODULE TestRunner -----------------------------
(***************************************************************************)
(* The instruction-level test runner (tools/miga68k-test/runner.c and      *)
(* memory.c): it prepares guarded memory, executes a program one           *)
(* instruction at a time, and judges what it finds at the end.             *)
(*                                                                         *)
(* The emulated processor is external: an instruction makes some memory    *)
(* accesses, which call back into memory.c, then changes registers and     *)
(* goes anywhere.  Of the registers the model keeps what the verdict       *)
(* reads: whether D0 (with D1 and D2 after a fault) is as expected,        *)
(* whether the preserved ones are intact, and A7.  Of the memory it keeps  *)
(* the guards of the stack.  Printing and the measured stack depth are     *)
(* left out.                                                               *)
(***************************************************************************)
EXTENDS Integers, Sequences

CONSTANTS
    VectorStart, VectorEnd, CodeStart, CodeEnd,     \* MIGA68K_..._START
    DataStart, DataEnd, StackStart, StackEnd,       \* and ..._END
    GuardSize,          \* STACK_GUARD_SIZE
    Capacity,           \* TRACE_CAPACITY
    MaxInstructions,    \* MAX_INSTRUCTIONS
    Addresses,          \* addresses a program may use
    Stacks,             \* values a program may leave in A7
    MaxAccesses,        \* bound: memory accesses of one instruction
    Suites              \* the sequences of tests that main may run

Kinds == {"case", "fault case", "memory guard", "instruction limit",
          "saved register"}

ASSUME RunnerAssumption ==
    /\ {VectorStart, VectorEnd, CodeStart, CodeEnd, DataStart, DataEnd,
        StackStart, StackEnd, GuardSize} \subseteq Nat
    /\ Addresses \subseteq Nat /\ Stacks \subseteq Nat
    /\ Capacity \in Nat \ {0} /\ MaxAccesses \in Nat
    /\ Suites \subseteq Seq(Kinds) \ {<<>>}

VARIABLES
    suite,              \* tests still to run; the first is the current one
    phase,              \* "prepare", "fetch", "instruction", "judge", "exit"
    pc, a7, good, kept, \* registers: D0 as expected, preserved ones intact
    guards,             \* the bytes of the two guards: still poison?
    fault,              \* memory_fault_text, NoFault if none
    accesses,           \* accesses of the current instruction
    executed,           \* instruction_count
    trace,              \* struct trace_buffer
    stop,               \* enum stop_reason
    failures,           \* how many tests have failed
    history,            \* what really happened: the instructions executed
    breach              \* and the first access that was not allowed

vars == <<suite, phase, pc, a7, good, kept, guards, fault, accesses,
          executed, trace, stop, failures, history, breach>>
registers == <<pc, a7, good, kept>>
memory == <<guards, fault>>
ghosts == <<history, breach>>

Top == StackEnd - GuardSize                         \* TEST_STACK_TOP
ReturnSentinel == CodeEnd - 2
FaultSentinel == CodeEnd - 4
Guard == StackStart .. StackStart + GuardSize - 1 \cup Top .. StackEnd - 1

NoFault == [operation |-> "none", address |-> 0, width |-> 0]
Reads == [operation : {"read"}, address : Addresses, width : {1, 2, 4}]
(* A program writes the poison or something else.                          *)
Writes == [operation : {"write"}, address : Addresses, width : {1, 2, 4},
           poison : BOOLEAN]
Bytes(access) == access.address .. access.address + access.width - 1
-----------------------------------------------------------------------------
(* memory.c                                                                *)

(* Mutant: only the first byte of an access is compared with the areas.    *)
MutantRangeWithin(address, width, start, end) ==
    address >= start /\ address < end

RangeWithin(address, width, start, end) ==
    address >= start /\ address + width <= end

Writable(address, width) ==
    \/ RangeWithin(address, width, VectorStart, VectorEnd)
    \/ RangeWithin(address, width, DataStart, DataEnd)
    \/ RangeWithin(address, width, StackStart, StackEnd)

Readable(address, width) ==
    \/ Writable(address, width)
    \/ RangeWithin(address, width, CodeStart, CodeEnd)

Aligned(address, width) == width = 1 \/ address % 2 = 0

IsExecutable(address) ==
    RangeWithin(address, 2, CodeStart, CodeEnd) /\ Aligned(address, 2)

Accepted(access) ==
    /\ Aligned(access.address, access.width)
    /\ IF access.operation = "read" THEN Readable(access.address, access.width)
       ELSE Writable(access.address, access.width)

(* Mutant: the last fault is kept.                                         *)
MutantRecorded(access) == access

(* record_fault *)
Recorded(access) == IF fault = NoFault THEN access ELSE fault

(* prepare_program sets up the vectors, the return address and the fault   *)
(* handler; the layout lets it.  The programs of the runner itself fit     *)
(* below the sentinels and within the budget, and nothing is mapped at the *)
(* end of the stack.                                                       *)
ASSUME LayoutAssumption ==
    /\ Aligned(Top - 4, 4)
    /\ \A address \in {VectorStart, VectorStart + 4, Top - 4, DataStart} :
          Writable(address, 4)
    /\ CodeStart % 2 = 0 /\ CodeStart + 2 < FaultSentinel
    /\ ~Readable(StackEnd, 4)
    /\ MaxInstructions \in Nat /\ MaxInstructions > 2
-----------------------------------------------------------------------------
(* What the tests are.  A "case" and a "fault case" run any program; the   *)
(* three others run a fixed one that misbehaves: it reads beyond the stack,*)
(* never ends, or changes a preserved register before it returns.          *)
Test == Head(suite)
AnyProgram == Test \in {"case", "fault case"}

TestAccesses ==
    IF AnyProgram THEN Reads \cup Writes
    ELSE IF Test = "memory guard"
         THEN {[operation |-> "read", address |-> StackEnd, width |-> 4]}
    ELSE {}

(* How an instruction may leave the registers.                             *)
OwnOutcome ==
    [pc |-> IF Test = "instruction limit" THEN pc
            ELSE IF pc = CodeStart THEN pc + 2 ELSE ReturnSentinel,
     a7 |-> IF pc = CodeStart THEN a7 ELSE Top,
     good |-> good,
     kept |-> Test # "saved register"]
Outcomes ==
    IF AnyProgram
    THEN [pc : Addresses, a7 : Stacks, good : BOOLEAN, kept : BOOLEAN]
    ELSE {OwnOutcome}
-----------------------------------------------------------------------------
Init ==
    /\ suite \in Suites
    /\ phase = "prepare"
    /\ pc = 0 /\ a7 = 0 /\ good = FALSE /\ kept = FALSE
    /\ guards = [byte \in Guard |-> FALSE]
    /\ fault = NoFault
    /\ accesses = 0 /\ executed = 0
    /\ trace = [pcs |-> [i \in 0 .. Capacity - 1 |-> 0],
                count |-> 0, next |-> 0]
    /\ stop = "none" /\ failures = 0
    /\ history = <<>> /\ breach = NoFault

(* prepare_program, with miga68k_memory_reset and the reset of the         *)
(* processor, and the head of execute_program.                             *)
Prepare ==
    /\ phase = "prepare"
    /\ phase' = "fetch"
    /\ pc' = CodeStart /\ a7' = Top - 4
    /\ good' \in BOOLEAN /\ kept' = TRUE
    /\ guards' = [byte \in Guard |-> TRUE]
    /\ fault' = NoFault
    /\ executed' = 0
    /\ trace' = [trace EXCEPT !.pcs = [i \in DOMAIN @ |-> 0],
                              !.count = 0, !.next = 0]
    /\ history' = <<>> /\ breach' = NoFault
    /\ UNCHANGED <<suite, accesses, stop, failures>>

(* The head of the loop of execute_program ends it ...                     *)
StopReason ==
    IF executed = MaxInstructions THEN "instruction limit"
    ELSE IF pc = ReturnSentinel THEN "returned"
    ELSE IF pc = FaultSentinel THEN "runtime fault"
    ELSE IF ~IsExecutable(pc) THEN "bad pc"
    ELSE "none"

Stop ==
    /\ phase = "fetch" /\ StopReason # "none"
    /\ phase' = "judge"
    /\ stop' = StopReason
    /\ UNCHANGED <<suite, registers, memory, accesses, executed, trace,
                   failures, ghosts>>

(* ... or starts an instruction, of which the hook takes note (trace_add). *)
Fetch ==
    /\ phase = "fetch" /\ StopReason = "none"
    /\ phase' = "instruction"
    /\ accesses' = 0
    /\ trace' = [pcs |-> [trace.pcs EXCEPT ![trace.next] = pc],
                 count |-> IF trace.count < Capacity THEN trace.count + 1
                           ELSE trace.count,
                 next |-> (trace.next + 1) % Capacity]
    /\ history' = Append(history, pc)
    /\ UNCHANGED <<suite, registers, memory, executed, stop, failures,
                   breach>>

(* What this module calls allowed: every byte lies in one area, and a      *)
(* write is not to the code.                                               *)
Areas == {VectorStart .. VectorEnd - 1, DataStart .. DataEnd - 1,
          StackStart .. StackEnd - 1}
AreasFor(operation) ==
    IF operation = "read" THEN Areas \cup {CodeStart .. CodeEnd - 1}
    ELSE Areas
Allowed(access) ==
    /\ access.width = 1 \/ access.address % 2 = 0
    /\ \E area \in AreasFor(access.operation) : Bytes(access) \subseteq area

(* read_value, write_value *)
Access ==
    /\ phase = "instruction" /\ accesses < MaxAccesses
    /\ accesses' = accesses + 1
    /\ \E access \in TestAccesses :
          /\ fault' = IF Accepted(access) THEN fault ELSE Recorded(access)
          /\ guards' =
                IF Accepted(access) /\ access.operation = "write"
                THEN [byte \in Guard |-> IF byte \in Bytes(access)
                                         THEN access.poison ELSE guards[byte]]
                ELSE guards
          /\ breach' = IF Allowed(access) \/ breach # NoFault THEN breach
                       ELSE access
    /\ UNCHANGED <<suite, phase, registers, executed, trace, stop, failures,
                   history>>

(* The end of m68k_execute and of the body of the loop.                    *)
InstructionEnds ==
    /\ phase = "instruction"
    /\ Test = "memory guard" => accesses > 0
    /\ \E after \in Outcomes :
          /\ pc' = after.pc /\ a7' = after.a7
          /\ good' = after.good /\ kept' = after.kept
    /\ executed' = executed + 1
    /\ IF fault # NoFault
       THEN phase' = "judge" /\ stop' = "memory fault"
       ELSE phase' = "fetch" /\ UNCHANGED stop
    /\ UNCHANGED <<suite, memory, accesses, trace, failures, ghosts>>

GuardsIntact == \A byte \in Guard : guards[byte]

(* run_case, run_fault_case, run_memory_guard_test,                        *)
(* run_instruction_limit_test, run_saved_register_guard_test               *)
Passed ==
    CASE Test = "case" -> /\ stop = "returned" /\ good /\ a7 = Top /\ kept
                          /\ GuardsIntact
      [] Test = "fault case" -> stop = "runtime fault" /\ good /\ GuardsIntact
      [] Test = "memory guard" -> stop = "memory fault" /\ fault # NoFault
      [] Test = "instruction limit" -> /\ stop = "instruction limit"
                                       /\ executed = MaxInstructions
      [] OTHER -> stop = "returned" /\ ~kept

(* main ends with the first test that fails.                               *)
Judge ==
    /\ phase = "judge"
    /\ failures' = IF Passed THEN failures ELSE failures + 1
    /\ suite' = Tail(suite)
    /\ phase' = IF Passed /\ Len(suite) > 1 THEN "prepare" ELSE "exit"
    /\ UNCHANGED <<registers, memory, accesses, executed, trace, stop, ghosts>>

Next == Prepare \/ Stop \/ Fetch \/ Access \/ InstructionEnds \/ Judge

Spec == Init /\ [][Next]_vars
-----------------------------------------------------------------------------
(* Properties                                                              *)

(* A case passes exactly if its program, in fewer instructions than the    *)
(* budget, came back to its caller with the expected result, the stack and *)
(* the registers it had to keep and the guards intact, without one         *)
(* forbidden access on the way; and the tests of the runner itself see     *)
(* what their programs do wrong, whatever the tests before them left       *)
(* behind (execute_program, run_case, prepare_program, memory.c).          *)
VerdictSound ==
    phase = "judge" =>
        /\ Test = "case" =>
              (Passed <=> /\ breach = NoFault
                          /\ Len(history) < MaxInstructions
                          /\ pc = ReturnSentinel /\ good /\ a7 = Top /\ kept
                          /\ GuardsIntact)
        /\ ~AnyProgram => Passed

(* print_trace *)
Printed ==
    LET first == (trace.next + Capacity - trace.count) % Capacity
    IN  [i \in 1 .. trace.count |-> trace.pcs[(first + i - 1) % Capacity]]

(* A failure is reported with its cause: the first forbidden access, and   *)
(* the last instructions up to the one that made it, in their order.       *)
ReportExact ==
    phase = "judge" =>
        /\ (stop = "memory fault") = (breach # NoFault)
        /\ fault = breach
        /\ Printed = SubSeq(history,
                            IF Len(history) > Capacity
                            THEN Len(history) - Capacity + 1 ELSE 1,
                            Len(history))
=============================================================================
