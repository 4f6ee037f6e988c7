----------------------------- MODULE RasterWait -----------------------------
(***************************************************************************)
(* wait_for_raster_start and current_beam_line                             *)
(* (tests/benchmark/exclusive-graphics/main.c): DMA is switched only when  *)
(* the beam has just entered the lines before the visible picture.         *)
(*                                                                         *)
(* The number of the line has nine bits, in two registers: VPOSR holds the *)
(* highest one, VHPOSR the others.  The beam moves on between two accesses *)
(* of the program, or does not move at all.                                *)
(***************************************************************************)
EXTENDS Integers

CONSTANTS
    Low,        \* the number of values of the line in VHPOSR (256)
    Lines,      \* the lines of a frame (313)
    Start,      \* BENCH_RASTER_START_LINE
    PollLimit,  \* BENCH_RASTER_POLL_LIMIT
    MaxDrift    \* bound: lines between two accesses

(* Two values of VPOSR; the start line is in the lower part.               *)
ASSUME LinesAssumption == /\ Low \in Nat \ {0}
                          /\ Lines \in Low + 1 .. 2 * Low
                          /\ Start \in 1 .. Low - 1
(* The beam does not pass the upper part of a frame while a line is read,  *)
(* nor reach it from the start line during two reads.                      *)
ASSUME DriftAssumption == /\ MaxDrift \in Nat
                          /\ 2 * MaxDrift <= Lines - Low
                          /\ Start + 4 * MaxDrift <= Low
ASSUME PollAssumption == PollLimit \in Nat \ {0}

VARIABLES
    line,       \* the line the beam is on
    drift,      \* lines since the last access
    loop,       \* "above" or "below" the start, then "started" or "timeout"
    access,     \* the next access: "high", "low" or "again"
    high_before, low_bits,
    polls,
    passed      \* the lines of the beam since the first access (history)

waitVars == <<line, drift, loop, access, high_before, low_bits, polls,
              passed>>

Waiting == loop \in {"above", "below"}
WaitInit ==
    /\ line \in 0 .. Lines - 1
    /\ drift = 0
    /\ loop = "above" /\ access = "high"
    /\ high_before = 0 /\ low_bits = 0 /\ polls = 0
    /\ passed = {}

Beam ==
    /\ Waiting
    /\ drift < MaxDrift
    /\ line' = (line + 1) % Lines
    /\ drift' = drift + 1
    /\ passed' = passed \cup {line'}
    /\ UNCHANGED <<loop, access, high_before, low_bits, polls>>

Vposr == line \div Low

ReadVposr ==
    /\ Waiting /\ access = "high"
    /\ high_before' = Vposr
    /\ access' = "low"
    /\ passed' = {line}
    /\ drift' = 0
    /\ UNCHANGED <<line, loop, low_bits, polls>>

ReadVhposr ==
    /\ Waiting /\ access = "low"
    /\ low_bits' = line % Low
    /\ access' = "again"
    /\ drift' = 0
    /\ UNCHANGED <<line, loop, high_before, polls, passed>>

(* Mutant: the two registers are read once each.                           *)
MutantSameHalf == TRUE

SameHalf == Vposr = high_before

(* Line 255 or the last line has ended between the accesses.               *)
Retry ==
    /\ Waiting /\ access = "again"
    /\ ~SameHalf
    /\ access' = "high"
    /\ drift' = 0
    /\ UNCHANGED <<line, loop, high_before, low_bits, polls, passed>>

current_beam_line == Vposr * Low + low_bits

(* Mutant: a single wait, for the lines from the start line on.            *)
MutantKeepsWaiting == loop = "below" /\ current_beam_line < Start

KeepsWaiting == IF loop = "above" THEN current_beam_line >= Start
                ELSE current_beam_line < Start

(* Mutant: the polls are not counted while the beam is below the start.    *)
MutantCounted == loop = "above"

Counted == TRUE

(* A line has been read.  The poll is counted if the loop goes on.         *)
Poll ==
    /\ Waiting /\ access = "again"
    /\ SameHalf
    /\ access' = "high"
    /\ drift' = 0
    /\ polls' = IF KeepsWaiting /\ Counted THEN polls + 1 ELSE polls
    /\ loop' = IF KeepsWaiting
               THEN IF polls' >= PollLimit THEN "timeout" ELSE loop
               ELSE IF loop = "above" THEN "below" ELSE "started"
    /\ UNCHANGED <<line, high_before, low_bits, passed>>

Reader == ReadVposr \/ ReadVhposr \/ Retry \/ Poll

WaitNext == Beam \/ Reader

-----------------------------------------------------------------------------
(* Properties                                                              *)

(* The wait succeeds only just after the beam has entered the start line,  *)
(* at most four accesses ago, wherever it was when the wait began and      *)
(* whichever reads had to be repeated (wait_for_raster_start).             *)
StartsAtRasterStart ==
    loop = "started" => line \in Start .. Start - 1 + 4 * MaxDrift

(* The line a read returns is one the beam was on during the read: lines   *)
(* 255 and 256, or the last line and the first, are never mixed            *)
(* (current_beam_line).                                                    *)
BeamCoherent ==
    [][(Poll /\ loop' # "timeout") => current_beam_line \in passed]_waitVars

(* The wait ends, wherever the beam starts and even if it stands still:    *)
(* no retry of the read goes on for ever and the polls have a limit.       *)
WaitEnds == <>~Waiting
=============================================================================
