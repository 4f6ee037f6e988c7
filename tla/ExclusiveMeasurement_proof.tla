--------------------- MODULE ExclusiveMeasurement_proof ---------------------
(***************************************************************************)
(* Proof about the registers that are read piece by piece, for any length  *)
(* of a frame and any poll limit: a line that has been read is one the     *)
(* beam was on, and a wait that succeeds ends just after the start line.   *)
(***************************************************************************)
EXTENDS ExclusiveMeasurement, TLAPS
-----------------------------------------------------------------------------
(***************************************************************************)
(* The inductive invariant of the wait.                                    *)
(***************************************************************************)
FrameLines == 0 .. Lines - 1

(* The line the beam is on, some lines after x.                            *)
After(x, lines) == IF x + lines < Lines THEN x + lines ELSE x + lines - Lines
Half(x) == IF x < Low THEN 0 ELSE 1
LowBits(x) == IF x < Low THEN x ELSE x - Low

WaitTyped ==
    /\ line \in FrameLines
    /\ drift \in 0 .. MaxDrift
    /\ loop \in {"above", "below", "started", "timeout", "over"}
    /\ access \in {"high", "low", "again"}

(* What has been read, of which lines, and how far the beam has moved on.  *)
ReadSoFar ==
    /\ Waiting /\ access = "low" =>
          /\ line \in passed
          /\ \E x \in FrameLines :
                high_before = Half(x) /\ line = After(x, drift)
    /\ Waiting /\ access = "again" =>
          \E x \in FrameLines, d \in 0 .. MaxDrift :
             /\ high_before = Half(x)
             /\ low_bits = LowBits(After(x, d))
             /\ After(x, d) \in passed
             /\ line = After(After(x, d), drift)

(* In the second loop the beam is at most one read beyond the start line.  *)
NearStart ==
    /\ loop = "below" =>
          /\ access = "high"  => line < Start + MaxDrift + drift
          /\ access = "low"   => line < Start + 2 * MaxDrift + drift
          /\ access = "again" => /\ line < Start + 3 * MaxDrift + drift
                                 /\ low_bits <= line /\ low_bits \in Nat
          /\ access \in {"low", "again"} => high_before = 0
    /\ loop = "started" => line \in Start .. Start - 1 + 4 * MaxDrift

WaitInv == WaitTyped /\ ReadSoFar /\ NearStart
-----------------------------------------------------------------------------
(***************************************************************************)
(* The halves of a frame.                                                  *)
(***************************************************************************)
LEMMA FrameFacts ==
  /\ Low \in Nat \ {0} /\ Lines \in Nat /\ Lines > Low /\ Lines <= 2 * Low
  /\ Start \in Nat \ {0} /\ Start < Low
  /\ MaxDrift \in Nat
  /\ 2 * MaxDrift <= Lines - Low /\ Start + 4 * MaxDrift <= Low
BY LinesAssumption, DriftAssumption

LEMMA Halves ==
  ASSUME NEW x \in FrameLines
  PROVE  /\ x \div Low = Half(x) /\ x % Low = LowBits(x)
         /\ Half(x) * Low + LowBits(x) = x
         /\ (x + 1) % Lines = After(x, 1)
<1>1. /\ Low \in Nat \ {0} /\ Lines \in Nat \ {0} /\ Lines <= 2 * Low
      /\ x \in Nat /\ x < Lines
  BY FrameFacts DEF FrameLines
<1>2. x \div Low = Half(x) /\ x % Low = LowBits(x)
  <2>1. CASE x < Low
    <3>1. x \div Low = 0 /\ x % Low = x
      BY <1>1, <2>1
    <3> QED BY <2>1, <3>1 DEF Half, LowBits
  <2>2. CASE x >= Low
    <3>1. x \div Low = 1
      BY <1>1, <2>2
    <3>2. x % Low = x - Low
      BY <1>1, <2>2
    <3> QED BY <1>1, <2>2, <3>1, <3>2 DEF Half, LowBits
  <2> QED BY <1>1, <2>1, <2>2
<1>4. (x + 1) % Lines = After(x, 1)
  <2>1. CASE x + 1 < Lines
    BY <1>1, <2>1 DEF After
  <2>2. CASE x + 1 = Lines
    BY <1>1, <2>2 DEF After
  <2> QED BY <1>1, <2>1, <2>2
<1>5. Half(x) * Low + LowBits(x) = x
  BY <1>1 DEF Half, LowBits
<1> QED BY <1>2, <1>4, <1>5

LEMMA AfterFacts ==
  ASSUME NEW x \in FrameLines, NEW d \in 0 .. MaxDrift
  PROVE  /\ After(x, d) \in FrameLines
         /\ d < MaxDrift => After(After(x, d), 1) = After(x, d + 1)
         /\ After(x, 0) = x
BY FrameFacts DEF After, FrameLines

(* If both reads of VPOSR agree, the line that is put together from the    *)
(* registers is the line of the read of VHPOSR.                            *)
LEMMA Coherent ==
  ASSUME WaitInv, Waiting, access = "again", SameHalf
  PROVE  /\ current_beam_line \in passed
         /\ current_beam_line \in FrameLines
         /\ line = After(current_beam_line, drift)
<1>1. PICK x \in FrameLines, d \in 0 .. MaxDrift :
         /\ high_before = Half(x)
         /\ low_bits = LowBits(After(x, d))
         /\ After(x, d) \in passed
         /\ line = After(After(x, d), drift)
  BY DEF WaitInv, ReadSoFar
<1> DEFINE y == After(x, d)
<1>2. y \in FrameLines /\ drift \in 0 .. MaxDrift /\ line \in FrameLines
  BY AfterFacts DEF WaitInv, WaitTyped
<1>3. Vposr = Half(line) /\ Half(line) = Half(x)
  BY <1>1, <1>2, Halves DEF SameHalf, Vposr
<1>4. Half(line) = Half(y)
  BY <1>1, <1>2, <1>3, FrameFacts DEF After, Half, FrameLines
<1>5. current_beam_line = y
  <2>1. low_bits = LowBits(y) /\ Half(y) * Low + LowBits(y) = y
    BY <1>1, <1>2, Halves
  <2> QED BY <1>3, <1>4, <2>1 DEF current_beam_line
<1> QED BY <1>1, <1>2, <1>5

(***************************************************************************)
(* Every step of the wait preserves the invariant.                         *)
(***************************************************************************)
LEMMA WaitInitInv == Init => WaitInv
<1> SUFFICES ASSUME Init PROVE WaitInv
  OBVIOUS
<1>1. WaitTyped
  BY FrameFacts DEF Init, WaitInit, WaitTyped, FrameLines
<1>2. ReadSoFar /\ NearStart
  BY DEF Init, WaitInit, ReadSoFar, NearStart
<1> QED BY <1>1, <1>2 DEF WaitInv

LEMMA BeamStep == ASSUME WaitInv, Beam
                  PROVE  WaitInv'
<1>1. /\ line \in FrameLines /\ drift \in 0 .. MaxDrift /\ drift < MaxDrift
      /\ line' = After(line, 1) /\ drift' = drift + 1
      /\ passed' = passed \cup {line'} /\ Waiting
      /\ UNCHANGED <<loop, access, high_before, low_bits>>
  BY Halves DEF WaitInv, WaitTyped, Beam
<1>2. WaitTyped'
  BY <1>1, FrameFacts DEF WaitInv, WaitTyped, After, FrameLines
<1>3. ReadSoFar'
  <2>1. ASSUME access = "low"
        PROVE  /\ line' \in passed'
               /\ \E x \in FrameLines :
                     high_before = Half(x) /\ line' = After(x, drift')
    <3>1. PICK x \in FrameLines :
             high_before = Half(x) /\ line = After(x, drift)
      BY <1>1, <2>1 DEF WaitInv, ReadSoFar
    <3>2. line' = After(x, drift')
      BY <1>1, <3>1, AfterFacts
    <3> QED BY <1>1, <3>1, <3>2
  <2>2. ASSUME access = "again"
        PROVE  \E x \in FrameLines, d \in 0 .. MaxDrift :
                  /\ high_before = Half(x)
                  /\ low_bits = LowBits(After(x, d))
                  /\ After(x, d) \in passed'
                  /\ line' = After(After(x, d), drift')
    <3>1. PICK x \in FrameLines, d \in 0 .. MaxDrift :
             /\ high_before = Half(x)
             /\ low_bits = LowBits(After(x, d))
             /\ After(x, d) \in passed
             /\ line = After(After(x, d), drift)
      BY <1>1, <2>2 DEF WaitInv, ReadSoFar
    <3>2. After(x, d) \in FrameLines
      BY AfterFacts
    <3>3. line' = After(After(x, d), drift')
      BY <1>1, <3>1, <3>2, AfterFacts
    <3> QED BY <1>1, <3>1, <3>3
  <2> QED BY <1>1, <2>1, <2>2 DEF ReadSoFar, Waiting
<1>4. NearStart'
  <2>1. ASSUME loop = "below"
        PROVE  /\ access = "high"  => line' < Start + MaxDrift + drift'
               /\ access = "low"   => line' < Start + 2 * MaxDrift + drift'
               /\ access = "again" => line' < Start + 3 * MaxDrift + drift'
               /\ access = "again" => low_bits <= line' /\ low_bits \in Nat
               /\ access \in {"low", "again"} => high_before = 0
    <3>1. /\ access = "high"  => line < Start + MaxDrift + drift
          /\ access = "low"   => line < Start + 2 * MaxDrift + drift
          /\ access = "again" => line < Start + 3 * MaxDrift + drift
          /\ access = "again" => low_bits <= line /\ low_bits \in Nat
          /\ access \in {"low", "again"} => high_before = 0
      BY <2>1 DEF WaitInv, NearStart
    <3>2. line' = line + 1
      BY <1>1, <3>1, FrameFacts DEF After, FrameLines, WaitInv, WaitTyped
    <3> QED BY <1>1, <3>1, <3>2, FrameFacts DEF FrameLines
  <2> QED BY <1>1, <2>1 DEF NearStart, Waiting
<1> QED BY <1>2, <1>3, <1>4 DEF WaitInv

LEMMA ReadVposrStep == ASSUME WaitInv, ReadVposr
                       PROVE  WaitInv'
<1>1. /\ line \in FrameLines /\ drift \in 0 .. MaxDrift
      /\ Waiting /\ access = "high"
      /\ high_before' = Half(line) /\ access' = "low" /\ drift' = 0
      /\ passed' = {line}
      /\ UNCHANGED <<line, loop, low_bits>>
  BY Halves DEF WaitInv, WaitTyped, ReadVposr, Vposr
<1>2. WaitTyped'
  BY <1>1, FrameFacts DEF WaitInv, WaitTyped
<1>3. ReadSoFar'
  <2>1. line = After(line, 0)
    BY <1>1, FrameFacts, AfterFacts
  <2> QED BY <1>1, <2>1 DEF ReadSoFar, Waiting
<1>4. NearStart'
  <2>1. ASSUME loop = "below"
        PROVE  line < Start + 2 * MaxDrift /\ Half(line) = 0
    BY <1>1, <2>1, FrameFacts DEF WaitInv, NearStart, Half, FrameLines
  <2> QED BY <1>1, <2>1, FrameFacts DEF NearStart, Waiting, FrameLines
<1> QED BY <1>2, <1>3, <1>4 DEF WaitInv

LEMMA ReadVhposrStep == ASSUME WaitInv, ReadVhposr
                        PROVE  WaitInv'
<1>1. /\ line \in FrameLines /\ drift \in 0 .. MaxDrift
      /\ Waiting /\ access = "low"
      /\ low_bits' = LowBits(line) /\ access' = "again" /\ drift' = 0
      /\ UNCHANGED <<line, loop, high_before, passed>>
  BY Halves DEF WaitInv, WaitTyped, ReadVhposr
<1>2. WaitTyped'
  BY <1>1, FrameFacts DEF WaitInv, WaitTyped
<1>3. ReadSoFar'
  <2>1. PICK x \in FrameLines :
           high_before = Half(x) /\ line = After(x, drift) /\ line \in passed
    BY <1>1 DEF WaitInv, ReadSoFar
  <2>2. line = After(line, 0)
    BY <1>1, FrameFacts, AfterFacts
  <2> QED BY <1>1, <2>1, <2>2 DEF ReadSoFar, Waiting
<1>4. NearStart'
  <2>1. ASSUME loop = "below"
        PROVE  /\ line < Start + 3 * MaxDrift /\ high_before = 0
               /\ LowBits(line) = line
    BY <1>1, <2>1, FrameFacts DEF WaitInv, NearStart, LowBits, FrameLines
  <2> QED BY <1>1, <2>1, FrameFacts DEF NearStart, Waiting, FrameLines
<1> QED BY <1>2, <1>3, <1>4 DEF WaitInv

LEMMA RetryStep == ASSUME WaitInv, Retry
                   PROVE  WaitInv'
<1>1. /\ line \in FrameLines /\ drift \in 0 .. MaxDrift
      /\ Waiting /\ access = "again" /\ ~SameHalf
      /\ access' = "high" /\ drift' = 0
      /\ UNCHANGED <<line, loop, high_before, low_bits, passed>>
  BY DEF WaitInv, WaitTyped, Retry
<1>2. loop # "below"
  <2> SUFFICES ASSUME loop = "below" PROVE SameHalf
    BY <1>1
  <2>1. high_before = 0 /\ line < Start + 3 * MaxDrift + drift
    BY <1>1 DEF WaitInv, NearStart
  <2>2. Half(line) = 0
    BY <1>1, <2>1, FrameFacts DEF Half, FrameLines
  <2> QED BY <1>1, <2>1, <2>2, Halves DEF SameHalf, Vposr
<1>3. WaitTyped'
  BY <1>1, FrameFacts DEF WaitInv, WaitTyped
<1>4. ReadSoFar' /\ NearStart'
  BY <1>1, <1>2 DEF ReadSoFar, NearStart, Waiting
<1> QED BY <1>3, <1>4 DEF WaitInv

LEMMA PollStep == ASSUME WaitInv, Poll
                  PROVE  WaitInv'
<1> DEFINE value == current_beam_line
<1>1. /\ line \in FrameLines /\ drift \in 0 .. MaxDrift
      /\ Waiting /\ access = "again" /\ SameHalf
      /\ access' = "high" /\ drift' = 0
      /\ UNCHANGED <<line, high_before, low_bits, passed>>
      /\ loop' \in {loop, "timeout", "below", "started"}
  BY DEF WaitInv, WaitTyped, Poll
<1>2. value \in FrameLines /\ line = After(value, drift)
  BY <1>1, Coherent
<1>3. loop' = "below" => value < Start
  <2>1. /\ loop = "above" => (KeepsWaiting <=> value >= Start)
        /\ loop = "below" => (KeepsWaiting <=> value < Start)
    BY DEF KeepsWaiting
  <2>2. /\ loop' = "below" /\ loop = "above" => ~KeepsWaiting
        /\ loop' = "below" /\ loop = "below" => KeepsWaiting
        /\ loop \in {"above", "below"}
    BY <1>1 DEF Poll, Waiting
  <2> HIDE DEF value
  <2> QED BY <1>2, <2>1, <2>2, FrameFacts DEF FrameLines
<1>4. loop' = "started" => loop = "below" /\ value >= Start
  <2>1. loop' = "started" => ~KeepsWaiting /\ loop = "below"
    BY <1>1 DEF Poll, Waiting
  <2> HIDE DEF value
  <2>2. loop = "below" => (KeepsWaiting <=> value < Start)
    BY DEF KeepsWaiting, value
  <2> QED BY <1>2, <2>1, <2>2, FrameFacts DEF FrameLines
<1> HIDE DEF value
<1>5. WaitTyped'
  BY <1>1, FrameFacts DEF WaitInv, WaitTyped
<1>6. ReadSoFar'
  BY <1>1 DEF ReadSoFar
<1>7. NearStart'
  <2>1. ASSUME loop' = "below"
        PROVE  line < Start + MaxDrift
    BY <1>1, <1>2, <1>3, <2>1, FrameFacts DEF After, FrameLines
  <2>2. ASSUME loop' = "started"
        PROVE  line \in Start .. Start - 1 + 4 * MaxDrift
    <3>1. line < Start + 3 * MaxDrift + drift
      BY <1>1, <1>4, <2>2 DEF WaitInv, NearStart
    <3>2. value = low_bits
      <4>1. Vposr = 0
        BY <1>1, <3>1, FrameFacts, Halves DEF Half, FrameLines, Vposr
      <4>2. low_bits \in Nat
        BY <1>1, <1>4, <2>2 DEF WaitInv, NearStart
      <4> QED BY <4>1, <4>2, FrameFacts DEF value, current_beam_line
    <3>3. low_bits <= line
      BY <1>1, <1>4, <2>2 DEF WaitInv, NearStart
    <3> QED BY <1>1, <1>2, <1>4, <2>2, <3>1, <3>2, <3>3, FrameFacts
            DEF FrameLines
  <2>3. loop' = "below" => line < Start + MaxDrift + 0
    BY <1>1, <2>1, FrameFacts DEF FrameLines
  <2> QED BY <1>1, <2>2, <2>3 DEF NearStart
<1> QED BY <1>5, <1>6, <1>7 DEF WaitInv

LEMMA WaitInvariance == Spec => []WaitInv
<1>1. WaitInv /\ [Next]_vars => WaitInv'
  <2> SUFFICES ASSUME WaitInv, [Next]_vars PROVE WaitInv'
    OBVIOUS
  <2>1. CASE WaitNext
    BY <2>1, BeamStep, ReadVposrStep, ReadVhposrStep, RetryStep, PollStep
       DEF WaitNext, Reader
  <2>2. CASE BeginSample
    <3>1. WaitTyped'
      BY <2>2, FrameFacts DEF BeginSample, WaitTyped, FrameLines
    <3> QED BY <2>2, <3>1
            DEF BeginSample, WaitInv, ReadSoFar, NearStart, Waiting
  <2>3. CASE UNCHANGED waitVars
    BY <2>3 DEF waitVars, WaitInv, WaitTyped, ReadSoFar, NearStart, Waiting
  <2> QED BY <2>1, <2>2, <2>3 DEF Next, vars
<1> QED BY WaitInitInv, <1>1, PTL DEF Spec

(* Wherever the beam is when the wait begins, and whichever reads have to  *)
(* be repeated, a wait that succeeds ends with the beam at most four       *)
(* accesses beyond the start line (wait_for_raster_start).                 *)
THEOREM StartsAtTheRaster == Spec => []StartsAtRasterStart
<1>1. WaitInv => StartsAtRasterStart
  BY DEF WaitInv, NearStart, StartsAtRasterStart
<1> QED BY WaitInvariance, <1>1, PTL

(* The halves of two lines are never put together: a line that has been    *)
(* read is one the beam was on during the read (current_beam_line).        *)
THEOREM LinesAreCoherent == Spec => BeamCoherent
<1>1. WaitInv /\ [Next]_vars
         => [(Poll /\ loop' # "timeout") => current_beam_line \in passed]_waitVars
  BY Coherent DEF Poll
<1> QED BY WaitInvariance, <1>1, PTL DEF Spec, BeamCoherent
-----------------------------------------------------------------------------
(***************************************************************************)
(* The inductive invariant of the timer.                                   *)
(***************************************************************************)
Square == Byte * Byte
Upper(t) == CountAt(t) \div Square
Lower(t) == CountAt(t) % Square
WordAt(t) == IF stage = "lower" THEN Lower(t) ELSE Upper(t)

(* A read has made its first access, at the instant Began.                 *)
Underway == Len(began) = Len(results) + 1
Began == began[Len(results) + 1]

TimerTyped ==
    /\ initial \in 0 .. Period - 1
    /\ clock \in 0 .. MaxClock
    /\ stage \in {"before", "lower", "after"}
    /\ step \in {"high", "low", "again"}
    /\ results \in Seq(Int) /\ began \in Seq(Nat) /\ ended \in Seq(Nat)
    /\ \/ phase = "first" /\ Len(results) = 0
       \/ phase \in {"kernel", "second"} /\ Len(results) = 1
       \/ phase \in {"measured", "accepted", "discarded"} /\ Len(results) = 2
    /\ Len(ended) = Len(results)
    /\ Underway \/ Len(began) = Len(results)
    /\ Underway => Reading
    /\ stage # "before" \/ step # "high" => Underway

(* The bytes of the word that is being read, since the instant t, are      *)
(* those of words the counter went through.                                *)
BytesRead(t) ==
    /\ step = "low" => \E a \in t .. clock : high = WordAt(a) \div Byte
    /\ step = "again" =>
          \E a \in t .. clock : \E m \in a .. clock :
             high = WordAt(a) \div Byte /\ low = WordAt(m) % Byte

(* The upper word has been read at p and the lower one from a to z; that   *)
(* is one of its words if the upper word does not change meanwhile.        *)
TwoWords(p, a, m, z) ==
    /\ upper_before = Upper(p)
    /\ Lower(a) \div Byte = Lower(z) \div Byte
    /\ lower = (Lower(a) \div Byte) * Byte + (Lower(m) % Byte)

WordsRead ==
    Underway =>
        /\ Began <= clock
        /\ stage = "before" => BytesRead(Began)
        /\ stage = "lower" =>
              \E p \in Began .. clock : upper_before = Upper(p) /\ BytesRead(p)
        /\ stage = "after" =>
              \E p \in Began .. clock : \E a \in p .. clock :
              \E m \in a .. clock : \E z \in m .. clock :
                 TwoWords(p, a, m, z) /\ BytesRead(z)

(* A read that is over has found the count of one of its instants.         *)
ResultsSound ==
    /\ \A i \in DOMAIN results :
          /\ ended[i] <= clock
          /\ \E t \in began[i] .. ended[i] : results[i] = CountAt(t)
    /\ Len(began) = 2 => ended[1] <= began[2]
    /\ phase = "accepted" => Elapsed <= Limit
    /\ phase = "discarded" => Elapsed > Limit

TimerInv == TimerTyped /\ WordsRead /\ ResultsSound
-----------------------------------------------------------------------------
(***************************************************************************)
(* Division.                                                               *)
(***************************************************************************)
LEMMA Divided ==
  ASSUME NEW k \in Nat \ {0}, NEW x \in Int
  PROVE  /\ x \div k \in Int /\ x % k \in Int /\ x % k \in 0 .. k - 1
         /\ x % k = x - k * (x \div k)
<1>1. x \div k \in Int
  OBVIOUS
<1>2. x % k \in Int /\ x % k \in 0 .. k - 1
  OBVIOUS
<1>3. x % k = x - k * (x \div k)
  OBVIOUS
<1> QED BY <1>1, <1>2, <1>3

LEMMA DivisionMonotone ==
  ASSUME NEW k \in Nat \ {0}, NEW x \in Int, NEW y \in Int, x <= y
  PROVE  x \div k <= y \div k
OBVIOUS

LEMMA MultipleAdded ==
  ASSUME NEW k \in Nat \ {0}, NEW x \in Int, NEW q \in Int
  PROVE  (x + q * k) \div k = x \div k + q
<1> DEFINE d == x \div k
           r == x % k
           y == x + q * k
           e == d + q
<1>1. d \in Int /\ r \in 0 .. k - 1 /\ r = x - k * d
  BY Divided
<1> HIDE DEF d, r
<1>2. y \in Int /\ e \in Int /\ y = e * k + r
  BY <1>1
<1> HIDE DEF y, e
<1>3. y \div k = e
  BY <1>1, <1>2
<1> QED BY <1>3 DEF y, e, d

(***************************************************************************)
(* The count goes down; from an instant to a later one with the same upper *)
(* digit it has not begun again from the top.                              *)
(***************************************************************************)
LEMMA TimerFacts ==
  /\ Byte \in Nat \ {0} /\ Square \in Nat \ {0} /\ Byte * Square \in Nat \ {0}
  /\ Period \in Nat \ {0} /\ MaxClock \in Nat /\ MaxClock < Period
  /\ MaxClock <= Period - Byte * Square
<1>1. Byte \in Nat \ {0}
  BY ByteAssumption
<1>2. Square \in Nat \ {0}
  BY <1>1 DEF Square
<1>3. Byte * Square \in Nat \ {0} /\ Byte * Square = Byte * Byte * Byte
  BY <1>1, <1>2 DEF Square
<1>4. Period \in Nat \ {0}
  <2>1. Period = Square * Square
    BY <1>1 DEF Period, Square
  <2> QED BY <1>2, <2>1
<1> QED BY <1>1, <1>2, <1>3, <1>4, ClockAssumption

LEMMA Counted32 ==
  ASSUME initial \in 0 .. Period - 1, NEW t \in 0 .. MaxClock
  PROVE  /\ CountAt(t) \in 0 .. Period - 1
         /\ t <= initial => CountAt(t) = initial - t
         /\ t > initial => CountAt(t) = initial - t + Period
<1>1. Period \in Nat \ {0} /\ t \in Nat /\ t < Period
  BY TimerFacts
<1> DEFINE d == initial - t
<1>2. d \in Int /\ d < Period /\ d >= 0 - Period
  BY <1>1
<1> HIDE DEF d
<1>3. CASE d >= 0
  <2>1. d % Period = d
    BY <1>1, <1>2, <1>3
  <2> QED BY <1>1, <1>2, <1>3, <2>1 DEF CountAt, d
<1>4. CASE d < 0
  <2>1. d % Period = d + Period
    BY <1>1, <1>2, <1>4
  <2> QED BY <1>1, <1>2, <1>4, <2>1 DEF CountAt, d
<1> QED BY <1>2, <1>3, <1>4

LEMMA WordTypes ==
  ASSUME initial \in 0 .. Period - 1, NEW t \in 0 .. MaxClock
  PROVE  /\ CountAt(t) \in Int /\ Upper(t) \in Int
         /\ Lower(t) \in 0 .. Square - 1
         /\ CountAt(t) = Square * Upper(t) + Lower(t)
<1>1. CountAt(t) \in Int
  BY Counted32, TimerFacts
<1>2. /\ Upper(t) \in Int /\ Lower(t) \in 0 .. Square - 1
      /\ Lower(t) = CountAt(t) - Square * Upper(t)
  BY <1>1, TimerFacts, Divided DEF Upper, Lower
<1> QED BY <1>1, <1>2, TimerFacts

LEMMA Descending ==
  ASSUME initial \in 0 .. Period - 1,
         NEW a \in 0 .. MaxClock, NEW b \in a .. MaxClock, NEW m \in a .. b,
         Upper(a) \div Byte = Upper(b) \div Byte
  PROVE  CountAt(a) >= CountAt(m) /\ CountAt(m) >= CountAt(b)
<1>1. /\ b \in 0 .. MaxClock /\ m \in 0 .. MaxClock
      /\ a \in Int /\ b \in Int /\ m \in Int /\ initial \in Int
      /\ a <= m /\ m <= b /\ b - a <= MaxClock
  BY TimerFacts
<1>2. /\ Upper(a) \in Int /\ Upper(b) \in Int
      /\ CountAt(a) \in Int /\ CountAt(b) \in Int
  BY <1>1, WordTypes
<1>3. CountAt(b) < CountAt(a) + Byte * Square
  <2> SUFFICES ASSUME CountAt(b) >= CountAt(a) + Byte * Square
               PROVE  FALSE
    BY <1>2, TimerFacts
  <2> DEFINE up == CountAt(a) + Byte * Square
  <2>1. up \div Square = Upper(a) + Byte
    BY <1>2, TimerFacts, MultipleAdded DEF Upper
  <2>2. up \in Int /\ CountAt(b) >= up
    BY <1>2, TimerFacts
  <2> HIDE DEF up
  <2>3. Upper(b) >= Upper(a) + Byte
    BY <1>2, <2>1, <2>2, TimerFacts, DivisionMonotone DEF Upper
  <2>4. (Upper(a) + 1 * Byte) \div Byte = Upper(a) \div Byte + 1
    BY <1>2, TimerFacts, MultipleAdded
  <2>5. Upper(b) \div Byte >= (Upper(a) + 1 * Byte) \div Byte
    <3>1. Upper(a) + 1 * Byte \in Int /\ Upper(b) >= Upper(a) + 1 * Byte
      BY <1>2, <2>3, TimerFacts
    <3> QED BY <1>2, <3>1, TimerFacts, DivisionMonotone
  <2>6. Upper(a) \div Byte \in Int /\ Upper(b) \div Byte \in Int
    BY <1>2, TimerFacts, Divided
  <2> QED BY <2>4, <2>5, <2>6
<1>4. /\ CountAt(a) = initial - a \/ CountAt(a) = initial - a + Period
      /\ a > initial => CountAt(a) = initial - a + Period
      /\ a <= initial => CountAt(a) = initial - a
  BY <1>1, Counted32
<1>5. /\ m > initial => CountAt(m) = initial - m + Period
      /\ m <= initial => CountAt(m) = initial - m
      /\ b > initial => CountAt(b) = initial - b + Period
      /\ b <= initial => CountAt(b) = initial - b
  BY <1>1, Counted32
<1>6. ~(a <= initial /\ b > initial)
  <2> SUFFICES ASSUME a <= initial, b > initial
               PROVE  FALSE
    OBVIOUS
  <2>1. CountAt(b) = CountAt(a) - (b - a) + Period
    BY <1>1, <1>4, <1>5, TimerFacts
  <2>2. Period - (b - a) >= Byte * Square
    BY <1>1, TimerFacts
  <2> QED BY <1>1, <1>2, <1>3, <2>1, <2>2, TimerFacts
<1> QED BY <1>1, <1>4, <1>5, <1>6, TimerFacts

(* A word whose upper byte is the same before and after is one word.       *)
LEMMA UpperWord ==
  ASSUME initial \in 0 .. Period - 1,
         NEW a \in 0 .. MaxClock, NEW b \in a .. MaxClock, NEW m \in a .. b,
         Upper(a) \div Byte = Upper(b) \div Byte
  PROVE  (Upper(a) \div Byte) * Byte + (Upper(m) % Byte) = Upper(m)
<1>1. b \in 0 .. MaxClock /\ m \in 0 .. MaxClock
  BY TimerFacts
<1>2. /\ CountAt(a) \in Int /\ CountAt(b) \in Int /\ CountAt(m) \in Int
      /\ Upper(a) \in Int /\ Upper(b) \in Int /\ Upper(m) \in Int
  BY <1>1, WordTypes
<1>3. CountAt(a) >= CountAt(m) /\ CountAt(m) >= CountAt(b)
  BY Descending
<1>4. Upper(b) <= Upper(m) /\ Upper(m) <= Upper(a)
  BY <1>2, <1>3, TimerFacts, DivisionMonotone DEF Upper
<1>5. /\ Upper(b) \div Byte <= Upper(m) \div Byte
      /\ Upper(m) \div Byte <= Upper(a) \div Byte
  BY <1>2, <1>4, TimerFacts, DivisionMonotone
<1>6. /\ Upper(a) \div Byte \in Int /\ Upper(m) \div Byte \in Int
      /\ Upper(m) % Byte \in Int
      /\ Upper(m) % Byte = Upper(m) - Byte * (Upper(m) \div Byte)
  BY <1>2, TimerFacts, Divided
<1>7. Upper(m) \div Byte = Upper(a) \div Byte
  BY <1>5, <1>6
<1> QED BY <1>2, <1>6, <1>7, TimerFacts

(* The lower word was read while the upper one did not change.             *)
LEMMA WholeCount ==
  ASSUME initial \in 0 .. Period - 1,
         NEW p \in 0 .. MaxClock, NEW a \in p .. MaxClock,
         NEW m \in a .. MaxClock, NEW z \in m .. MaxClock,
         NEW r \in z .. MaxClock,
         Upper(p) = Upper(r),
         Lower(a) \div Byte = Lower(z) \div Byte
  PROVE  Upper(p) * Square + ((Lower(a) \div Byte) * Byte + (Lower(m) % Byte))
            = CountAt(m)
<1>1. /\ a \in 0 .. MaxClock /\ m \in 0 .. MaxClock /\ z \in 0 .. MaxClock
      /\ r \in 0 .. MaxClock /\ r \in p .. MaxClock
      /\ a \in p .. r /\ m \in p .. r /\ z \in p .. r
      /\ z \in a .. MaxClock /\ m \in a .. z
  BY TimerFacts
<1>2. \A t \in {p, a, m, z, r} :
         /\ CountAt(t) \in Int /\ Upper(t) \in Int /\ Lower(t) \in Int
         /\ CountAt(t) = Square * Upper(t) + Lower(t)
  BY <1>1, WordTypes, TimerFacts
<1>3. \A t \in p .. r : CountAt(p) >= CountAt(t) /\ CountAt(t) >= CountAt(r)
  BY <1>1, Descending
<1>4. \A t \in {a, m, z} : Upper(t) = Upper(p)
  <2> SUFFICES ASSUME NEW t \in {a, m, z}
               PROVE  Upper(t) = Upper(p)
    OBVIOUS
  <2>1. CountAt(p) >= CountAt(t) /\ CountAt(t) >= CountAt(r)
    BY <1>1, <1>3
  <2>2. Upper(p) >= Upper(t) /\ Upper(t) >= Upper(r)
    BY <1>2, <2>1, TimerFacts, DivisionMonotone DEF Upper
  <2> QED BY <1>2, <2>2
<1>5. CountAt(a) >= CountAt(m) /\ CountAt(m) >= CountAt(z)
  <2>1. Upper(a) \div Byte = Upper(z) \div Byte
    BY <1>4
  <2> QED BY <1>1, <2>1, Descending
<1>6. Lower(z) <= Lower(m) /\ Lower(m) <= Lower(a)
  <2>1. /\ CountAt(a) = Square * Upper(p) + Lower(a)
        /\ CountAt(m) = Square * Upper(p) + Lower(m)
        /\ CountAt(z) = Square * Upper(p) + Lower(z)
        /\ Square * Upper(p) \in Int
    BY <1>2, <1>4, TimerFacts
  <2> QED BY <1>2, <1>5, <2>1
<1>7. /\ Lower(z) \div Byte <= Lower(m) \div Byte
      /\ Lower(m) \div Byte <= Lower(a) \div Byte
  BY <1>2, <1>6, TimerFacts, DivisionMonotone
<1>8. /\ Lower(a) \div Byte \in Int /\ Lower(m) \div Byte \in Int
      /\ Lower(m) % Byte \in Int
      /\ Lower(m) % Byte = Lower(m) - Byte * (Lower(m) \div Byte)
  BY <1>2, TimerFacts, Divided
<1>9. Lower(m) \div Byte = Lower(a) \div Byte
  BY <1>7, <1>8
<1>10. (Lower(a) \div Byte) * Byte + (Lower(m) % Byte) = Lower(m)
  BY <1>2, <1>8, <1>9, TimerFacts
<1>11. Upper(p) * Square + Lower(m) = CountAt(m)
  BY <1>2, <1>4, TimerFacts
<1> QED BY <1>10, <1>11

(* The difference of two counts is the time between them.                  *)
LEMMA TimeBetween ==
  ASSUME initial \in 0 .. Period - 1,
         NEW t \in 0 .. MaxClock, NEW u \in t .. MaxClock
  PROVE  (CountAt(t) - CountAt(u)) % Period = u - t
<1>1. /\ u \in 0 .. MaxClock /\ u - t \in Nat /\ u - t < Period
      /\ t \in Int /\ u \in Int /\ Period \in Nat \ {0} /\ initial \in Int
      /\ t <= u
  BY TimerFacts
<1>2. CountAt(t) - CountAt(u) \in {u - t, u - t - Period}
  <2>1. /\ t <= initial => CountAt(t) = initial - t
        /\ t > initial => CountAt(t) = initial - t + Period
        /\ u <= initial => CountAt(u) = initial - u
        /\ u > initial => CountAt(u) = initial - u + Period
    BY <1>1, Counted32
  <2> QED BY <1>1, <2>1
<1> DEFINE d == u - t
<1>3. d \in 0 .. Period - 1 /\ d - Period \in Int
  BY <1>1
<1> HIDE DEF d
<1>4. d % Period = d
  BY <1>1, <1>3
<1>5. (d - Period) % Period = d
  BY <1>1, <1>3
<1> QED BY <1>2, <1>4, <1>5 DEF d
-----------------------------------------------------------------------------
(***************************************************************************)
(* Every step of the timed sample preserves the invariant.                 *)
(***************************************************************************)
LEMMA Appended ==
  ASSUME NEW S, NEW q \in Seq(S), NEW x \in S
  PROVE  /\ Append(q, x) \in Seq(S) /\ Len(Append(q, x)) = Len(q) + 1
         /\ \A k \in 1 .. Len(q) : Append(q, x)[k] = q[k]
         /\ Append(q, x)[Len(q) + 1] = x
OBVIOUS

LEMMA Predecessor == ASSUME NEW n \in 0 .. 2, n + 1 = 2 PROVE n = 1
  OBVIOUS

LEMMA Element ==
  ASSUME NEW S, NEW q \in Seq(S), NEW i \in 1 .. Len(q)
  PROVE  q[i] \in S
OBVIOUS

LEMMA TimerTypes ==
  ASSUME TimerTyped
  PROVE  /\ initial \in 0 .. Period - 1 /\ clock \in Nat /\ clock <= MaxClock
         /\ clock \in 0 .. MaxClock /\ MaxClock \in Nat
         /\ Len(results) \in 0 .. 2 /\ DOMAIN results = 1 .. Len(results)
         /\ Underway => Began \in Nat
         /\ \A k \in DOMAIN results : began[k] \in Nat /\ ended[k] \in Nat
<1>1. /\ results \in Seq(Int) /\ began \in Seq(Nat) /\ ended \in Seq(Nat)
      /\ Len(results) \in 0 .. 2 /\ DOMAIN results = 1 .. Len(results)
      /\ Len(ended) = Len(results)
      /\ Underway \/ Len(began) = Len(results)
  BY SMTT(30) DEF TimerTyped
<1>2. Underway => Began \in Nat
  BY <1>1 DEF Underway, Began
<1>3. \A k \in DOMAIN results : began[k] \in Nat /\ ended[k] \in Nat
  <2>1. Len(began) \in Nat /\ Len(results) <= Len(began)
    BY <1>1 DEF Underway
  <2>2. \A k \in 1 .. Len(results) : k \in 1 .. Len(began) /\ k \in 1 .. Len(ended)
    BY <1>1, <2>1
  <2> QED BY <1>1, <2>2
<1> QED BY <1>1, <1>2, <1>3, TimerFacts DEF TimerTyped

LEMMA ResultsKept ==
  ASSUME TimerTyped, ResultsSound, clock' \in Nat, clock' >= clock,
         UNCHANGED <<initial, results, began, ended>>,
         phase' = phase \/ phase' \notin {"accepted", "discarded"}
  PROVE  ResultsSound'
<1>1. \A t : CountAt(t)' = CountAt(t)
  BY DEF CountAt
<1>2. \A i \in DOMAIN results : ended[i] <= clock'
  BY TimerTypes DEF ResultsSound
<1>3. Elapsed' = Elapsed
  BY DEF Elapsed
<1> QED BY <1>1, <1>2, <1>3 DEF ResultsSound

LEMMA WordsSame ==
  ASSUME UNCHANGED initial
  PROVE  /\ \A t : CountAt(t)' = CountAt(t)
         /\ \A t : Upper(t)' = Upper(t) /\ Lower(t)' = Lower(t)
         /\ stage' = stage => \A t : WordAt(t)' = WordAt(t)
BY DEF CountAt, Upper, Lower, WordAt

(* What has been read so far of a word is still that when the clock has    *)
(* gone on, or when the next access has been made.                         *)
LEMMA WordsKept ==
  ASSUME TimerTyped, WordsRead, clock' \in Nat, clock' >= clock,
         UNCHANGED <<initial, stage, upper_before, lower, results, began>>,
         \A t \in 0 .. clock : BytesRead(t) => BytesRead(t)'
  PROVE  WordsRead'
<1> SUFFICES ASSUME Underway
             PROVE  WordsRead'
  BY DEF WordsRead, Underway
<1>1. /\ Began \in Nat /\ Began <= clock /\ clock \in Nat
      /\ Began' = Began
  BY TimerTypes DEF WordsRead, Began
<1>2. \A t : Upper(t)' = Upper(t) /\ Lower(t)' = Lower(t)
  BY WordsSame
<1>3. ASSUME stage = "before"
      PROVE  BytesRead(Began)'
  BY <1>1, <1>3 DEF WordsRead
<1>4. ASSUME stage = "lower"
      PROVE  \E p \in Began .. clock' : upper_before = Upper(p) /\ BytesRead(p)'
  <2>1. PICK p \in Began .. clock : upper_before = Upper(p) /\ BytesRead(p)
    BY <1>4 DEF WordsRead
  <2>2. p \in Began .. clock' /\ p \in 0 .. clock
    BY <1>1
  <2> QED BY <2>1, <2>2
<1>5. ASSUME stage = "after"
      PROVE  \E p \in Began .. clock' : \E a \in p .. clock' :
             \E m \in a .. clock' : \E z \in m .. clock' :
                TwoWords(p, a, m, z)' /\ BytesRead(z)'
  <2>1. PICK p \in Began .. clock : \E a \in p .. clock :
             \E m \in a .. clock : \E z \in m .. clock :
                TwoWords(p, a, m, z) /\ BytesRead(z)
    BY <1>5 DEF WordsRead
  <2>2. PICK a \in p .. clock :
             \E m \in a .. clock : \E z \in m .. clock :
                TwoWords(p, a, m, z) /\ BytesRead(z)
    BY <2>1
  <2>3. PICK m \in a .. clock : \E z \in m .. clock :
                TwoWords(p, a, m, z) /\ BytesRead(z)
    BY <2>2
  <2>4. PICK z \in m .. clock : TwoWords(p, a, m, z) /\ BytesRead(z)
    BY <2>3
  <2>5. /\ p \in Began .. clock' /\ a \in p .. clock' /\ m \in a .. clock'
        /\ z \in m .. clock' /\ z \in 0 .. clock
    BY <1>1
  <2>6. TwoWords(p, a, m, z)' /\ BytesRead(z)'
    BY <1>2, <2>4, <2>5 DEF TwoWords
  <2> QED BY <2>5, <2>6
<1> QED BY <1>1, <1>2, <1>3, <1>4, <1>5 DEF WordsRead

LEMMA TickStep == ASSUME TimerInv, Tick
                  PROVE  TimerInv'
<1>1. /\ clock < MaxClock /\ clock' = clock + 1
      /\ clock \in Nat /\ MaxClock \in Nat
      /\ UNCHANGED <<initial, phase, stage, step, high, low, upper_before,
                     lower, results, began, ended>>
  BY TimerTypes DEF Tick, TimerInv
<1>2. TimerTyped'
  BY <1>1 DEF TimerInv, TimerTyped, Underway, Reading
<1>3. \A t \in 0 .. clock : BytesRead(t) => BytesRead(t)'
  <2> SUFFICES ASSUME NEW t \in 0 .. clock, BytesRead(t)
               PROVE  BytesRead(t)'
    OBVIOUS
  <2>1. \A a : WordAt(a)' = WordAt(a)
    BY <1>1, WordsSame
  <2>2. ASSUME step = "low"
        PROVE  \E a \in t .. clock' : high = WordAt(a) \div Byte
    <3>1. PICK a \in t .. clock : high = WordAt(a) \div Byte
      BY <2>2 DEF BytesRead
    <3> QED BY <1>1, <3>1
  <2>3. ASSUME step = "again"
        PROVE  \E a \in t .. clock' : \E m \in a .. clock' :
                  high = WordAt(a) \div Byte /\ low = WordAt(m) % Byte
    <3>1. PICK a \in t .. clock : \E m \in a .. clock :
             high = WordAt(a) \div Byte /\ low = WordAt(m) % Byte
      BY <2>3 DEF BytesRead
    <3>2. PICK m \in a .. clock :
             high = WordAt(a) \div Byte /\ low = WordAt(m) % Byte
      BY <3>1
    <3>3. a \in t .. clock' /\ m \in a .. clock'
      BY <1>1
    <3> QED BY <3>2, <3>3
  <2> QED BY <1>1, <2>1, <2>2, <2>3 DEF BytesRead
<1>4. WordsRead'
  BY <1>1, <1>3, WordsKept DEF TimerInv
<1>5. ResultsSound'
  BY <1>1, ResultsKept DEF TimerInv
<1> QED BY <1>2, <1>4, <1>5 DEF TimerInv

LEMMA ReadHighStep == ASSUME TimerInv, ReadHigh
                      PROVE  TimerInv'
<1>1. /\ Reading /\ step = "high"
      /\ high' = WordAt(clock) \div Byte /\ step' = "low"
      /\ began' = IF Underway THEN began ELSE Append(began, clock)
      /\ UNCHANGED <<initial, clock, phase, stage, low, upper_before, lower,
                     results, ended>>
  <2>1. ~Underway <=> Len(began) = Len(results)
    BY DEF TimerInv, TimerTyped, Underway
  <2> QED BY <2>1 DEF ReadHigh, Counter16, Count, WordAt, Upper, Lower, Square
<1>2. /\ clock \in Nat /\ began \in Seq(Nat) /\ Len(results) \in 0 .. 2
      /\ DOMAIN results = 1 .. Len(results)
      /\ Underway \/ Len(began) = Len(results)
  BY TimerTypes DEF TimerInv, TimerTyped
<1>3. /\ began' \in Seq(Nat) /\ Len(began') = Len(results) + 1 /\ Underway'
      /\ \A k \in DOMAIN results : began'[k] = began[k]
      /\ Began' <= clock /\ Began' \in Nat
      /\ Underway => Began' = Began
  <2>1. CASE Underway
    <3>1. Began \in Nat /\ Began <= clock
      BY <2>1, TimerTypes DEF TimerInv, WordsRead
    <3>2. began' = began /\ results' = results
      BY <1>1, <2>1
    <3> QED BY <1>2, <2>1, <3>1, <3>2 DEF Underway, Began
  <2>2. CASE ~Underway
    <3>1. Len(began) = Len(results) /\ began' = Append(began, clock)
      BY <1>1, <1>2, <2>2
    <3>2. /\ began' \in Seq(Nat) /\ Len(began') = Len(results) + 1
          /\ \A k \in 1 .. Len(results) : began'[k] = began[k]
          /\ began'[Len(results) + 1] = clock
      BY <1>2, <3>1, Appended
    <3> QED BY <1>1, <1>2, <2>2, <3>2 DEF Underway, Began
  <2> QED BY <2>1, <2>2
<1>4. TimerTyped'
  BY <1>1, <1>3 DEF TimerInv, TimerTyped, Reading
<1>5. \A t \in 0 .. clock : BytesRead(t)'
  <2>1. \A a : WordAt(a)' = WordAt(a)
    BY <1>1, WordsSame
  <2>2. \A t \in 0 .. clock : clock \in t .. clock
    BY <1>2
  <2> QED BY <1>1, <2>1, <2>2 DEF BytesRead
<1>6. WordsRead'
  <2>1. CASE Underway
    <3>1. began' = began
      BY <1>1, <2>1
    <3> QED BY <1>1, <1>2, <1>5, <3>1, WordsKept DEF TimerInv
  <2>2. CASE ~Underway
    <3>1. stage = "before"
      BY <2>2 DEF TimerInv, TimerTyped
    <3>2. Began' \in 0 .. clock
      BY <1>2, <1>3
    <3> QED BY <1>1, <1>3, <1>5, <3>1, <3>2 DEF WordsRead
  <2> QED BY <2>1, <2>2
<1>7. ResultsSound'
  <2>1. CASE Underway
    BY <1>1, <1>2, <2>1, ResultsKept DEF TimerInv
  <2>2. CASE ~Underway
    <3>1. \A t : CountAt(t)' = CountAt(t)
      BY <1>1, WordsSame
    <3>2. ASSUME Len(began') = 2
          PROVE  ended[1] <= began'[2]
      <4>1. Len(results) = 1
        <5>1. Len(results) \in 0 .. 2 /\ Len(results) + 1 = 2
          BY <1>2, <1>3, <3>2
        <5> QED BY <5>1, Predecessor
      <4>2. ended[1] <= clock
        BY <1>2, <4>1 DEF TimerInv, ResultsSound
      <4>3. began' = Append(began, clock) /\ Len(began) + 1 = 2
        BY <1>1, <1>2, <2>2, <4>1
      <4>4. began'[Len(began) + 1] = clock
        <5>1. Append(began, clock)[Len(began) + 1] = clock
          BY <1>2, Appended
        <5> QED BY <4>3, <5>1
      <4> QED BY <4>2, <4>3, <4>4
    <3>3. phase' \notin {"accepted", "discarded"}
      BY <1>1 DEF Reading
    <3> QED BY <1>1, <1>3, <3>1, <3>2, <3>3 DEF TimerInv, ResultsSound
  <2> QED BY <2>1, <2>2
<1> QED BY <1>4, <1>6, <1>7 DEF TimerInv

LEMMA ReadLowStep == ASSUME TimerInv, ReadLow
                     PROVE  TimerInv'
<1>1. /\ Reading /\ step = "low"
      /\ low' = WordAt(clock) % Byte /\ step' = "again"
      /\ UNCHANGED <<initial, clock, phase, stage, high, upper_before, lower,
                     results, began, ended>>
  BY DEF ReadLow, Counter16, Count, WordAt, Upper, Lower, Square
<1>2. clock \in Nat
  BY TimerTypes DEF TimerInv
<1>3. TimerTyped'
  BY <1>1 DEF TimerInv, TimerTyped, Reading, Underway
<1>4. \A t \in 0 .. clock : BytesRead(t) => BytesRead(t)'
  <2> SUFFICES ASSUME NEW t \in 0 .. clock, BytesRead(t)
               PROVE  BytesRead(t)'
    OBVIOUS
  <2>1. \A a : WordAt(a)' = WordAt(a)
    BY <1>1, WordsSame
  <2>2. PICK a \in t .. clock : high = WordAt(a) \div Byte
    BY <1>1 DEF BytesRead
  <2>3. clock \in a .. clock
    BY <1>2
  <2> QED BY <1>1, <2>1, <2>2, <2>3 DEF BytesRead
<1>5. WordsRead'
  BY <1>1, <1>2, <1>4, WordsKept DEF TimerInv
<1>6. ResultsSound'
  BY <1>1, <1>2, ResultsKept DEF TimerInv
<1> QED BY <1>3, <1>5, <1>6 DEF TimerInv

LEMMA RetryWordStep == ASSUME TimerInv, RetryWord
                       PROVE  TimerInv'
<1>1. /\ step = "again" /\ step' = "high"
      /\ UNCHANGED <<initial, clock, phase, stage, upper_before, lower,
                     results, began, ended>>
  BY DEF RetryWord
<1>2. clock \in Nat
  BY TimerTypes DEF TimerInv
<1>3. TimerTyped'
  BY <1>1 DEF TimerInv, TimerTyped, Reading, Underway
<1>4. \A t \in 0 .. clock : BytesRead(t)'
  BY <1>1 DEF BytesRead
<1>5. WordsRead'
  BY <1>1, <1>2, <1>4, WordsKept DEF TimerInv
<1>6. ResultsSound'
  BY <1>1, <1>2, ResultsKept DEF TimerInv
<1> QED BY <1>3, <1>5, <1>6 DEF TimerInv

LEMMA KernelEndsStep == ASSUME TimerInv, KernelEnds
                        PROVE  TimerInv'
<1>1. /\ phase = "kernel" /\ phase' = "second"
      /\ UNCHANGED <<initial, clock, stage, step, high, low, upper_before,
                     lower, results, began, ended>>
  BY DEF KernelEnds
<1>2. clock \in Nat
  BY TimerTypes DEF TimerInv
<1>3. TimerTyped' /\ ~Underway'
  BY <1>1 DEF TimerInv, TimerTyped, Reading, Underway
<1>4. ResultsSound'
  BY <1>1, <1>2, ResultsKept DEF TimerInv
<1> QED BY <1>3, <1>4 DEF TimerInv, WordsRead

LEMMA MeasureStep == ASSUME TimerInv, Measure
                     PROVE  TimerInv'
<1>1. /\ phase = "measured"
      /\ phase' = IF Elapsed > Limit THEN "discarded" ELSE "accepted"
      /\ UNCHANGED <<initial, clock, stage, step, high, low, upper_before,
                     lower, results, began, ended>>
  BY DEF Measure
<1>2. TimerTyped' /\ ~Underway'
  BY <1>1 DEF TimerInv, TimerTyped, Reading, Underway
<1>3. Elapsed \in Int /\ Limit \in Nat /\ Elapsed' = Elapsed
  <2>1. results[1] \in Int /\ results[2] \in Int
    <3>1. results \in Seq(Int) /\ Len(results) = 2
      BY <1>1 DEF TimerInv, TimerTyped
    <3>2. 1 \in 1 .. Len(results) /\ 2 \in 1 .. Len(results)
      BY <3>1
    <3> QED BY <3>1, <3>2, Element
  <2> DEFINE d == results[1] - results[2]
  <2>2. d \in Int
    BY <2>1
  <2> HIDE DEF d
  <2>3. d % Period \in Int
    BY <2>2, TimerFacts, Divided
  <2> QED BY <1>1, <2>3, LimitAssumption DEF Elapsed, d
<1>4. \A t : CountAt(t)' = CountAt(t)
  BY <1>1, WordsSame
<1>5. ResultsSound'
  BY <1>1, <1>3, <1>4 DEF TimerInv, ResultsSound
<1> QED BY <1>2, <1>5 DEF TimerInv, WordsRead

(* A coherent word is one the counter went through.                        *)
LEMMA WordTaken ==
  ASSUME TimerTyped, step = "again", HighSteady, NEW t \in 0 .. clock,
         BytesRead(t)
  PROVE  \E a \in t .. clock : \E m \in a .. clock :
            /\ WordAt(a) \div Byte = WordAt(clock) \div Byte
            /\ Word = (WordAt(a) \div Byte) * Byte + (WordAt(m) % Byte)
            /\ stage # "lower" => Word = Upper(m)
<1>1. /\ initial \in 0 .. Period - 1 /\ clock \in Nat /\ clock <= MaxClock
      /\ MaxClock \in Nat
  BY TimerTypes
<1>2. PICK a \in t .. clock : \E m \in a .. clock :
         high = WordAt(a) \div Byte /\ low = WordAt(m) % Byte
  BY DEF BytesRead
<1>3. PICK m \in a .. clock :
         high = WordAt(a) \div Byte /\ low = WordAt(m) % Byte
  BY <1>2
<1>4. WordAt(a) \div Byte = WordAt(clock) \div Byte
  BY <1>3 DEF HighSteady, Counter16, Count, WordAt, Upper, Lower, Square
<1>5. Word = (WordAt(a) \div Byte) * Byte + (WordAt(m) % Byte)
  BY <1>3 DEF Word
<1>6. stage # "lower" => Word = Upper(m)
  <2> SUFFICES ASSUME stage # "lower"
               PROVE  Word = Upper(m)
    OBVIOUS
  <2>1. \A i : WordAt(i) = Upper(i)
    BY DEF WordAt
  <2>2. Upper(a) \div Byte = Upper(clock) \div Byte
    BY <1>4, <2>1
  <2>3. a \in 0 .. MaxClock /\ clock \in a .. MaxClock /\ m \in a .. clock
    BY <1>1
  <2>4. (Upper(a) \div Byte) * Byte + (Upper(m) % Byte) = Upper(m)
    BY <1>1, <2>2, <2>3, UpperWord
  <2> QED BY <1>5, <2>1, <2>4
<1> QED BY <1>4, <1>5, <1>6

LEMMA TakeWordStep == ASSUME TimerInv, TakeWord
                      PROVE  TimerInv'
<1> DEFINE whole == Word * Byte * Byte + lower
           done == stage = "after" /\ UpperSteady(Word)
<1>1. /\ Reading /\ step = "again" /\ HighSteady /\ step' = "high"
      /\ stage = "before" => stage' = "lower" /\ upper_before' = Word
      /\ stage = "lower" => /\ stage' = "after" /\ lower' = Word
                            /\ upper_before' = upper_before
      /\ stage = "after" => stage' = "before"
      /\ UNCHANGED <<initial, clock, began>>
  BY DEF TakeWord
<1>2. /\ ~done => UNCHANGED <<results, ended, phase>>
      /\ done => /\ results' = Append(results, whole)
                 /\ ended' = Append(ended, clock)
                 /\ phase' = IF phase = "first" THEN "kernel" ELSE "measured"
  BY DEF TakeWord
<1>3. /\ initial \in 0 .. Period - 1 /\ clock \in Nat /\ clock <= MaxClock
      /\ MaxClock \in Nat /\ Len(results) \in 0 .. 2
      /\ DOMAIN results = 1 .. Len(results)
      /\ results \in Seq(Int) /\ ended \in Seq(Nat)
      /\ Len(ended) = Len(results)
      /\ stage \in {"before", "lower", "after"}
  BY TimerTypes DEF TimerInv, TimerTyped
<1>4. Underway /\ Began \in Nat /\ Began <= clock
  <2>1. Underway
    BY <1>1 DEF TimerInv, TimerTyped
  <2> QED BY <2>1, TimerTypes DEF TimerInv, WordsRead
<1>5. /\ \A t : Upper(t)' = Upper(t) /\ Lower(t)' = Lower(t)
      /\ \A t : CountAt(t)' = CountAt(t)
  BY <1>1, WordsSame
<1>6. \A t : BytesRead(t)'
  BY <1>1 DEF BytesRead
<1>7. CASE stage = "before"
  <2>1. stage' = "lower" /\ upper_before' = Word /\ ~done
    BY <1>1, <1>7
  <2>2. PICK a \in Began .. clock : \E m \in a .. clock : Word = Upper(m)
    <3>1. BytesRead(Began) /\ Began \in 0 .. clock
      BY <1>3, <1>4, <1>7 DEF TimerInv, WordsRead
    <3> QED BY <1>1, <1>7, <3>1, WordTaken DEF TimerInv
  <2>3. PICK m \in a .. clock : Word = Upper(m)
    BY <2>2
  <2>4. UNCHANGED <<results, ended, phase, began>>
    BY <1>1, <1>2, <2>1
  <2>5. TimerTyped'
    BY <1>1, <1>4, <2>1, <2>4 DEF TimerInv, TimerTyped, Reading, Underway
  <2>6. WordsRead'
    <3>1. Began' = Began /\ m \in Began .. clock
      BY <1>3, <1>4, <2>4 DEF Began
    <3> QED BY <1>1, <1>4, <1>5, <1>6, <2>1, <2>3, <3>1 DEF WordsRead
  <2>7. ResultsSound'
    BY <1>1, <1>3, <2>4, ResultsKept DEF TimerInv
  <2> QED BY <2>5, <2>6, <2>7 DEF TimerInv
<1>8. CASE stage = "lower"
  <2>1. /\ stage' = "after" /\ lower' = Word /\ ~done
        /\ upper_before' = upper_before
    BY <1>1, <1>8
  <2>2. PICK p \in Began .. clock : upper_before = Upper(p) /\ BytesRead(p)
    BY <1>4, <1>8 DEF TimerInv, WordsRead
  <2>3. PICK a \in p .. clock : \E m \in a .. clock :
           /\ Lower(a) \div Byte = Lower(clock) \div Byte
           /\ Word = (Lower(a) \div Byte) * Byte + (Lower(m) % Byte)
    <3>1. p \in 0 .. clock
      BY <1>3, <1>4
    <3>2. \A t : WordAt(t) = Lower(t)
      BY <1>8 DEF WordAt
    <3> QED BY <1>1, <2>2, <3>1, <3>2, WordTaken DEF TimerInv
  <2>4. PICK m \in a .. clock :
           /\ Lower(a) \div Byte = Lower(clock) \div Byte
           /\ Word = (Lower(a) \div Byte) * Byte + (Lower(m) % Byte)
    BY <2>3
  <2>5. UNCHANGED <<results, ended, phase, began>>
    BY <1>1, <1>2, <2>1
  <2>6. TimerTyped'
    BY <1>1, <1>4, <2>1, <2>5 DEF TimerInv, TimerTyped, Reading, Underway
  <2>7. WordsRead'
    <3>1. Began' = Began /\ clock \in m .. clock
      BY <1>3, <1>4, <2>5 DEF Began
    <3>2. TwoWords(p, a, m, clock)'
      BY <1>1, <1>5, <2>1, <2>2, <2>4 DEF TwoWords
    <3> QED BY <1>1, <1>4, <1>6, <2>1, <3>1, <3>2 DEF WordsRead
  <2>8. ResultsSound'
    BY <1>1, <1>3, <2>5, ResultsKept DEF TimerInv
  <2> QED BY <2>6, <2>7, <2>8 DEF TimerInv
<1>9. CASE stage = "after" /\ ~done
  <2>1. UNCHANGED <<results, ended, phase, began>> /\ stage' = "before"
    BY <1>1, <1>2, <1>9
  <2>2. TimerTyped'
    BY <1>1, <1>4, <2>1 DEF TimerInv, TimerTyped, Reading, Underway
  <2>3. WordsRead'
    <3>1. Began' = Began
      BY <2>1 DEF Began
    <3> QED BY <1>1, <1>4, <1>6, <2>1, <3>1 DEF WordsRead
  <2>4. ResultsSound'
    BY <1>1, <1>3, <2>1, ResultsKept DEF TimerInv
  <2> QED BY <2>2, <2>3, <2>4 DEF TimerInv
<1>10. CASE done
  <2>1. PICK p \in Began .. clock : \E a \in p .. clock :
             \E m \in a .. clock : \E z \in m .. clock :
                TwoWords(p, a, m, z) /\ BytesRead(z)
    BY <1>4, <1>10 DEF TimerInv, WordsRead
  <2>2. PICK a \in p .. clock : \E m \in a .. clock : \E z \in m .. clock :
                TwoWords(p, a, m, z) /\ BytesRead(z)
    BY <2>1
  <2>3. PICK m \in a .. clock : \E z \in m .. clock :
                TwoWords(p, a, m, z) /\ BytesRead(z)
    BY <2>2
  <2>4. PICK z \in m .. clock : TwoWords(p, a, m, z) /\ BytesRead(z)
    BY <2>3
  <2>5. PICK b \in z .. clock : \E r \in b .. clock : Word = Upper(r)
    <3>1. z \in 0 .. clock
      BY <1>3, <1>4
    <3> QED BY <1>1, <1>10, <2>4, <3>1, WordTaken DEF TimerInv
  <2>6. PICK r \in b .. clock : Word = Upper(r)
    BY <2>5
  <2>7. /\ p \in 0 .. MaxClock /\ a \in p .. MaxClock /\ m \in a .. MaxClock
        /\ z \in m .. MaxClock /\ r \in z .. MaxClock
        /\ m \in Began .. clock
    BY <1>3, <1>4
  <2>8. Upper(p) = Upper(r) /\ Word = Upper(p)
    BY <1>10, <2>4, <2>6 DEF UpperSteady, TwoWords
  <2>9. whole = CountAt(m) /\ whole \in Int
    <3>1. Upper(p) * Square + lower = CountAt(m)
      BY <1>3, <2>4, <2>7, <2>8, WholeCount DEF TwoWords
    <3>2. Upper(p) \in Int /\ CountAt(m) \in Int
      <4>1. p \in 0 .. MaxClock /\ m \in 0 .. MaxClock
        BY <2>7
      <4> QED BY <1>3, <4>1, WordTypes
    <3>3. Upper(p) * Square = Upper(p) * Byte * Byte
      BY <3>2, TimerFacts DEF Square
    <3> QED BY <2>8, <3>1, <3>2, <3>3
  <2> HIDE DEF whole
  <2>10. /\ results' \in Seq(Int) /\ Len(results') = Len(results) + 1
         /\ \A k \in 1 .. Len(results) : results'[k] = results[k]
         /\ results'[Len(results) + 1] = whole
    <3>1. results' = Append(results, whole) /\ results \in Seq(Int)
      BY <1>2, <1>3, <1>10
    <3> QED BY <2>9, <3>1, Appended
  <2>11. /\ ended' \in Seq(Nat) /\ Len(ended') = Len(results) + 1
         /\ \A k \in 1 .. Len(results) : ended'[k] = ended[k]
         /\ ended'[Len(results) + 1] = clock
    <3>1. ended' = Append(ended, clock) /\ ended \in Seq(Nat) /\ clock \in Nat
      BY <1>2, <1>3, <1>10
    <3> QED BY <1>3, <3>1, Appended
  <2>12. /\ phase \in {"first", "second"}
         /\ phase = "first" => Len(results) = 0
         /\ phase = "second" => Len(results) = 1
         /\ phase' = IF phase = "first" THEN "kernel" ELSE "measured"
         /\ Len(began) = Len(results) + 1
    BY <1>1, <1>2, <1>4, <1>10 DEF TimerInv, TimerTyped, Reading, Underway
  <2>13. TimerTyped' /\ ~Underway'
    <3>1. ~Underway' /\ Len(began') = Len(results')
      BY <1>1, <2>10, <2>12 DEF Underway
    <3>2. /\ stage' = "before" /\ step' = "high"
          /\ initial' \in 0 .. Period - 1 /\ clock' \in 0 .. MaxClock
          /\ results' \in Seq(Int) /\ began' \in Seq(Nat)
          /\ ended' \in Seq(Nat) /\ Len(ended') = Len(results')
      BY <1>1, <1>10, <2>10, <2>11 DEF TimerInv, TimerTyped
    <3>3. \/ phase' = "kernel" /\ Len(results') = 1
          \/ phase' = "measured" /\ Len(results') = 2
      <4>1. CASE phase = "first"
        <5>1. Len(results) = 0 /\ phase' = "kernel"
          BY <2>12, <4>1
        <5>2. Len(results') = 0 + 1
          BY <2>10, <5>1
        <5> QED BY <5>1, <5>2
      <4>2. CASE phase = "second"
        <5>1. Len(results) = 1 /\ phase' = "measured"
          BY <2>12, <4>2
        <5>2. Len(results') = 1 + 1
          BY <2>10, <5>1
        <5> QED BY <5>1, <5>2
      <4> QED BY <2>12, <4>1, <4>2
    <3> QED BY <3>1, <3>2, <3>3 DEF TimerTyped
  <2>14. WordsRead'
    BY <2>13 DEF WordsRead
  <2>15. ResultsSound'
    <3>1. ASSUME NEW i \in DOMAIN results'
          PROVE  /\ ended'[i] <= clock
                 /\ \E t \in began[i] .. ended'[i] : results'[i] = CountAt(t)
      <4>1. i \in 1 .. Len(results) \/ i = Len(results) + 1
        BY <1>3, <2>10, <3>1
      <4>2. CASE i \in 1 .. Len(results)
        BY <1>3, <2>10, <2>11, <4>2 DEF TimerInv, ResultsSound
      <4>3. CASE i = Len(results) + 1
        <5>1. began[i] = Began /\ ended'[i] = clock /\ results'[i] = whole
          BY <2>10, <2>11, <4>3 DEF Began
        <5> QED BY <1>3, <2>7, <2>9, <5>1
      <4> QED BY <4>1, <4>2, <4>3
    <3>2. Len(began) = 2 => ended'[1] <= began[2]
      <4> SUFFICES ASSUME Len(began) = 2
                   PROVE  ended'[1] <= began[2]
        OBVIOUS
      <4>1. Len(results) = 1
        <5>1. Len(results) \in 0 .. 2 /\ Len(results) + 1 = 2
          BY <1>3, <2>12
        <5> QED BY <5>1, Predecessor
      <4>2. ended'[1] = ended[1]
        BY <2>11, <4>1
      <4> QED BY <4>2 DEF TimerInv, ResultsSound
    <3> QED BY <1>1, <1>5, <2>12, <3>1, <3>2 DEF ResultsSound
  <2> QED BY <2>13, <2>14, <2>15 DEF TimerInv
<1> QED BY <1>3, <1>7, <1>8, <1>9, <1>10

LEMMA TimerInvariance == Spec => []TimerInv
<1>1. Init => TimerInv
  <2> SUFFICES ASSUME Init PROVE TimerInv
    OBVIOUS
  <2>1. /\ initial \in 0 .. Period - 1 /\ clock = 0 /\ phase = "first"
        /\ stage = "before" /\ step = "high"
        /\ results = <<>> /\ began = <<>> /\ ended = <<>>
    BY InitialsAssumption DEF Init, TimerInit
  <2>2. ~Underway
    BY <2>1 DEF Underway
  <2>3. TimerTyped
    BY <2>1, <2>2, TimerFacts DEF TimerTyped
  <2>4. WordsRead /\ ResultsSound
    BY <2>1, <2>2 DEF WordsRead, ResultsSound
  <2> QED BY <2>3, <2>4 DEF TimerInv
<1>2. TimerInv /\ [Next]_vars => TimerInv'
  <2> SUFFICES ASSUME TimerInv, [Next]_vars PROVE TimerInv'
    OBVIOUS
  <2>1. CASE TimerNext
    BY <2>1, TickStep, ReadHighStep, ReadLowStep, RetryWordStep,
       TakeWordStep, KernelEndsStep, MeasureStep DEF TimerNext
  <2>2. CASE UNCHANGED timerVars
    <3>1. /\ UNCHANGED <<initial, clock, phase, stage, step, high, low,
                         upper_before, lower, results, began, ended>>
          /\ clock \in Nat
      BY <2>2, TimerTypes DEF timerVars, TimerInv
    <3>2. TimerTyped'
      BY <3>1 DEF TimerInv, TimerTyped, Reading, Underway
    <3>3. \A t \in 0 .. clock : BytesRead(t) => BytesRead(t)'
      <4>1. \A a : WordAt(a)' = WordAt(a)
        BY <3>1, WordsSame
      <4> QED BY <3>1, <4>1 DEF BytesRead
    <3>4. WordsRead'
      BY <3>1, <3>3, WordsKept DEF TimerInv
    <3>5. ResultsSound'
      BY <3>1, ResultsKept DEF TimerInv
    <3> QED BY <3>2, <3>4, <3>5 DEF TimerInv
  <2> QED BY <2>1, <2>2 DEF Next, BeginSample, vars
<1> QED BY <1>1, <1>2, PTL DEF Spec

(* A sample is judged by the time between an instant of its first read and *)
(* one of its second, wherever the counter stands and however the reads    *)
(* are interrupted, as long as the sample ends before the counter has run  *)
(* through its range (read_exclusive_timer, measured_elapsed_ticks).       *)
THEOREM ElapsedIsExact == Spec => []ElapsedExact
<1>1. TimerInv => ElapsedExact
  <2> SUFFICES ASSUME TimerInv, phase \in {"accepted", "discarded"}
               PROVE  \E t \in began[1] .. ended[1] :
                      \E u \in began[2] .. ended[2] :
                         /\ Elapsed = u - t
                         /\ phase = "accepted" <=> u - t <= Limit
    BY DEF ElapsedExact
  <2>1. /\ Len(results) = 2 /\ DOMAIN results = {1, 2} /\ Len(began) = 2
        /\ initial \in 0 .. Period - 1 /\ clock \in Nat /\ clock <= MaxClock
        /\ MaxClock \in Nat
    <3>1. Len(results) = 2
      BY DEF TimerInv, TimerTyped
    <3>2. Len(began) = 2
      <4>1. ~Reading
        BY DEF Reading
      <4> QED BY <3>1, <4>1 DEF TimerInv, TimerTyped
    <3>3. DOMAIN results = 1 .. Len(results)
      BY TimerTypes DEF TimerInv
    <3>4. 1 .. 2 = {1, 2}
      OBVIOUS
    <3> QED BY <3>1, <3>2, <3>3, <3>4, TimerTypes DEF TimerInv, TimerTyped
  <2>2. /\ began[1] \in Nat /\ ended[1] \in Nat
        /\ began[2] \in Nat /\ ended[2] \in Nat
        /\ ended[1] <= began[2] /\ ended[2] <= clock
    BY <2>1, TimerTypes DEF TimerInv, ResultsSound
  <2>3. PICK t \in began[1] .. ended[1] : results[1] = CountAt(t)
    BY <2>1 DEF TimerInv, ResultsSound
  <2>4. PICK u \in began[2] .. ended[2] : results[2] = CountAt(u)
    BY <2>1 DEF TimerInv, ResultsSound
  <2>5. t \in 0 .. MaxClock /\ u \in t .. MaxClock
    BY <2>1, <2>2
  <2>6. Elapsed = u - t
    BY <2>1, <2>3, <2>4, <2>5, TimeBetween DEF Elapsed
  <2>7. phase = "accepted" <=> u - t <= Limit
    BY <2>5, <2>6, LimitAssumption DEF TimerInv, ResultsSound
  <2> QED BY <2>6, <2>7
<1> QED BY TimerInvariance, <1>1, PTL
=============================================================================
