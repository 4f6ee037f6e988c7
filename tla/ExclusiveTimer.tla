--------------------------- MODULE ExclusiveTimer ---------------------------
(***************************************************************************)
(* One timed sample of the exclusive graphics benchmark                    *)
(* (tests/benchmark/exclusive-graphics/main.c): read_exclusive_timer, the  *)
(* kernel, read_exclusive_timer again, measured_elapsed_ticks.             *)
(*                                                                         *)
(* The timer is a pair of cascaded 16-bit CIA counters that count down     *)
(* without regard to the reader, who gets one byte at a time; any number   *)
(* of ticks may pass between two accesses, since an interrupt handler may  *)
(* run there.  The clock, which counts ticks since the start, is history.  *)
(***************************************************************************)
EXTENDS Integers, Sequences

CONSTANTS
    Byte,       \* the number of values of a byte (256)
    Initials,   \* the counts the timer may start from
    Limit,      \* eclock_hz * 10, the longest sample accepted
    MaxClock    \* bound: ticks of a whole sample

Period == Byte * Byte * Byte * Byte

ASSUME ByteAssumption == Byte \in Nat \ {0, 1}
ASSUME InitialsAssumption == Initials \subseteq 0 .. Period - 1
ASSUME LimitAssumption == Limit \in Nat
(* A sample ends before the timer has run through its whole range.         *)
ASSUME ClockAssumption == /\ MaxClock \in Nat
                          /\ MaxClock <= Period - Byte * Byte * Byte

VARIABLES
    initial,    \* the count at clock 0
    clock,      \* ticks so far
    phase,      \* "first", "kernel", "second", "accepted" or "discarded"
    stage,      \* the 16-bit read in progress: "before", "lower", "after"
    step,       \* its next access: "high", "low" or "again"
    high, low,  \* the bytes read
    upper_before, lower,
    results,    \* the values of the finished reads
    began,      \* the clock at the first access of each read
    ended       \* and at its last access

timerVars == <<initial, clock, phase, stage, step, high, low, upper_before,
          lower, results, began, ended>>
-----------------------------------------------------------------------------
(* The hardware                                                            *)

CountAt(t) == (initial - t) % Period
Count == CountAt(clock)

(* CIA timer B counts the underflows of timer A.                           *)
Counter16 == IF stage = "lower" THEN Count % (Byte * Byte)
             ELSE Count \div (Byte * Byte)

Tick ==
    /\ clock < MaxClock
    /\ phase \in {"first", "kernel", "second"}
    /\ clock' = clock + 1
    /\ UNCHANGED <<initial, phase, stage, step, high, low, upper_before,
                   lower, results, began, ended>>
-----------------------------------------------------------------------------
Reading == phase \in {"first", "second"}

TimerInit ==
    /\ initial \in Initials
    /\ clock = 0
    /\ phase = "first" /\ stage = "before" /\ step = "high"
    /\ high = 0 /\ low = 0 /\ upper_before = 0 /\ lower = 0
    /\ results = <<>> /\ began = <<>> /\ ended = <<>>

(* read_cia_timer16: high byte, low byte, high byte.                       *)
ReadHigh ==
    /\ Reading /\ step = "high"
    /\ high' = Counter16 \div Byte
    /\ step' = "low"
    /\ began' = IF Len(began) = Len(results) THEN Append(began, clock)
                ELSE began
    /\ UNCHANGED <<initial, clock, phase, stage, low, upper_before, lower,
                   results, ended>>

ReadLow ==
    /\ Reading /\ step = "low"
    /\ low' = Counter16 % Byte
    /\ step' = "again"
    /\ UNCHANGED <<initial, clock, phase, stage, high, upper_before, lower,
                   results, began, ended>>

(* Mutant: the high byte is not read a second time.                        *)
MutantHighSteady == TRUE

HighSteady == Counter16 \div Byte = high

(* Mutant: the upper word is not read a second time.                       *)
MutantUpperSteady(upper_after) == TRUE

UpperSteady(upper_after) == upper_before = upper_after

(* The high byte has changed meanwhile: the loop of read_cia_timer16.      *)
(* What a loop has read is dead in its next round, and reset here.         *)
RetryWord ==
    /\ Reading /\ step = "again"
    /\ ~HighSteady
    /\ step' = "high" /\ high' = 0 /\ low' = 0
    /\ UNCHANGED <<initial, clock, phase, stage, upper_before, lower,
                   results, began, ended>>

Word == high * Byte + low

(* A coherent word.  read_exclusive_timer reads the upper word, the lower  *)
(* one and the upper one again, until both upper words are the same.       *)
TakeWord ==
    /\ Reading /\ step = "again"
    /\ HighSteady
    /\ step' = "high" /\ high' = 0 /\ low' = 0
    /\ upper_before' = CASE stage = "before" -> Word
                         [] stage = "lower"  -> upper_before
                         [] stage = "after"  -> 0
    /\ lower' = IF stage = "lower" THEN Word ELSE 0
    /\ stage' = CASE stage = "before" -> "lower"
                  [] stage = "lower"  -> "after"
                  [] stage = "after"  -> "before"
    /\ IF stage = "after" /\ UpperSteady(Word)
       THEN /\ results' = Append(results, Word * Byte * Byte + lower)
            /\ ended' = Append(ended, clock)
            /\ phase' = IF phase = "first" THEN "kernel" ELSE "measured"
       ELSE UNCHANGED <<results, ended, phase>>
    /\ UNCHANGED <<initial, clock, began>>

(* The kernel returns, after any number of ticks.                          *)
KernelEnds ==
    /\ phase = "kernel"
    /\ phase' = "second"
    /\ UNCHANGED <<initial, clock, stage, step, high, low, upper_before,
                   lower, results, began, ended>>

(* Mutant: the difference of the counters is not reduced to a word.        *)
MutantElapsed == results[1] - results[2]

Elapsed == (results[1] - results[2]) % Period

(* measured_elapsed_ticks                                                  *)
Measure ==
    /\ phase = "measured"
    /\ phase' = IF Elapsed > Limit THEN "discarded" ELSE "accepted"
    /\ UNCHANGED <<initial, clock, stage, step, high, low,
                   upper_before, lower, results, began, ended>>

TimerNext == Tick \/ ReadHigh \/ ReadLow \/ RetryWord \/ TakeWord
             \/ KernelEnds \/ Measure
-----------------------------------------------------------------------------
(* Properties                                                              *)

(* A sample is judged by the time that has really passed between an        *)
(* instant of the first read and an instant of the second, even if the     *)
(* counter wraps in between: accepted up to the limit, and with that       *)
(* value, discarded beyond it (measured_elapsed_ticks).                    *)
ElapsedExact ==
    phase \in {"accepted", "discarded"} =>
        \E t \in began[1] .. ended[1] : \E u \in began[2] .. ended[2] :
            /\ Elapsed = u - t
            /\ phase = "accepted" <=> u - t <= Limit
=============================================================================
