----------------------- MODULE MCExclusiveMeasurement -----------------------
(* Frames of thirteen lines, four of them in the upper half of VPOSR, and  *)
(* timers whose bytes have three values: 81 counts, four digits.           *)
EXTENDS ExclusiveMeasurement

(* Counts before a carry into each digit, after the wrap and in between.   *)
MCInitials == {1, 10, 28, 80}
=============================================================================
