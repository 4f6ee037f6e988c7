------------------------ MODULE ExclusiveMeasurement ------------------------
(***************************************************************************)
(* A sample of the exclusive graphics benchmark, from the wait for the     *)
(* start of the raster to the elapsed time                                 *)
(* (tests/benchmark/exclusive-graphics/main.c: begin_batch, run_raw_case,  *)
(* run_c2p_case): the two uses of registers that have to be read piece by  *)
(* piece while the hardware changes them, one after the other.             *)
(***************************************************************************)
EXTENDS RasterWait, ExclusiveTimer

vars == <<waitVars, timerVars>>

(* begin_batch gives up if the beam does not come.  What a successful wait *)
(* has read is dead, and reset here.                                       *)
BeginSample ==
    /\ loop = "started"
    /\ loop' = "over"
    /\ line' = Start /\ drift' = 0 /\ access' = "high"
    /\ high_before' = 0 /\ low_bits' = 0 /\ polls' = 0 /\ passed' = {}
    /\ UNCHANGED timerVars

Init == WaitInit /\ TimerInit

Next == \/ WaitNext /\ UNCHANGED timerVars
        \/ BeginSample
        \/ loop = "over" /\ TimerNext /\ UNCHANGED waitVars

(* The program goes on; the beam may stand still.                          *)
Spec == Init /\ [][Next]_vars /\ WF_vars(Reader /\ UNCHANGED timerVars)
=============================================================================
