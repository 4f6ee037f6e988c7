----------------------- MODULE ExclusiveSession_proof -----------------------
(***************************************************************************)
(* Proof that a session of ExclusiveSession gives back what it has taken,  *)
(* in an order that is safe for the hardware that reads its memory, for    *)
(* any blocks of memory and any number of sprites and audio channels.      *)
(***************************************************************************)
EXTENDS ExclusiveSession, TLAPS

(***************************************************************************)
(* The stages of main, as sets of its labels.                              *)
(***************************************************************************)
WithoutTimers == {"libraries", "ciaa", "ciab"}
WithoutFast   == WithoutTimers \cup {"screen", "chip", "fast"}
WithStack     == {"sprites", "audio", "channels", "own", "suite"}
WithChip      == {"fast", "stack"} \cup WithStack
Closed        == {"memory", "report", "done"}
TimersGone    == {"close"} \cup Closed
LoadsGone     == {"timers"} \cup TimersGone
BlitterGone   == {"loads"} \cup LoadsGone
Labels        == WithoutFast \cup WithChip \cup {"blitter"} \cup BlitterGone

(***************************************************************************)
(* The inductive invariant.                                                *)
(***************************************************************************)
Typed ==
    /\ pc \in Labels
    /\ held \subseteq ChipBlocks \cup FastBlocks \cup OtherHoldings
    /\ busy \in BOOLEAN /\ fast \in BOOLEAN
    /\ measured \in BOOLEAN /\ failure \in BOOLEAN
    /\ timers \in [Timers -> {"free", "other", "session"}]
    /\ resource \in CIAs \cup {"none"}
    /\ report \in {"none", "fail", "pass"}

(* A session that has come so far holds all it has asked for.              *)
Acquired ==
    /\ pc \in WithChip => ChipBlocks \subseteq held
    /\ pc = "suite" => "blitter" \in held

(* The fast memory is the session's as a whole or not at all, but for the  *)
(* stack.                                                                  *)
FastWhole ==
    /\ pc \in WithoutFast => held \cap FastBlocks = {}
    /\ pc \in {"stack"} \cup WithStack /\ fast => FastBlocks \subseteq held
    /\ pc = "stack" /\ ~fast => held \cap FastBlocks = {}
    /\ pc \in WithStack /\ ~fast => held \cap FastBlocks = {"stack"}

(* The label cleanup gives back what it has passed.                        *)
Released ==
    /\ pc \in BlitterGone => "blitter" \notin held
    /\ pc \in LoadsGone =>
          held \cap {"port", "request", "device"} = {} /\ channels = {}
          /\ sprites = {}
    /\ pc \in TimersGone => resource = "none"
    /\ pc \in Closed =>
          /\ held \cap (FastBlocks \cup {"blitter_memory"}) = {}
          /\ "screen" \in held => failure
    /\ pc \in {"report", "done"} => held \subseteq {"screen"}

(* The session knows which parts of the hardware work for it: the blitter  *)
(* only between the suite and WaitBlit.                                    *)
HardwareKnown ==
    /\ busy => pc = "blitter" /\ {"blitter", "blitter_memory"} \subseteq held
    /\ showing = sprites

(* The timers of the session are those of the CIA it has noted.            *)
TimersKnown ==
    /\ pc \in WithoutTimers => resource = "none"
    /\ \A t \in Timers : timers[t] = "session" <=> t[1] = resource

ReportLast ==
    /\ pc # "done" => report = "none"
    /\ pc = "done" => report = "fail" \/ (report = "pass" /\ Passes)

IInv == /\ Typed /\ Acquired /\ FastWhole /\ Released /\ HardwareKnown
        /\ TimersKnown /\ ReportLast /\ DmaMemoryHeld
-----------------------------------------------------------------------------
LEMMA IInvInit == Init => IInv
BY BlocksAssumption
   DEF Init, IInv, Typed, Acquired, FastWhole, Released, HardwareKnown,
       TimersKnown, ReportLast, DmaMemoryHeld, OtherHoldings, Labels,
       WithoutTimers, WithoutFast, WithStack, WithChip, Closed, TimersGone,
       LoadsGone, BlitterGone, Timers, CIAs

LEMMA TypedStep == IInv /\ [Next]_vars => Typed'
<1> SUFFICES ASSUME IInv, [Next]_vars
             PROVE  Typed'
  OBVIOUS
<1> USE DEF IInv, Typed, Next, Program, vars, OpenLibraries, AcquireTimers,
           OpenScreen, AllocateChip, AllocateFast, AllocateStack,
           StartSprite, OpenAudio, StartChannels, OwnBlitter, RunSuite,
           DisownBlitter, StopLoads, ReleaseTimers, CloseScreen, FreeMemory,
           WriteReport, BlitEnds, OthersUseTimer
<1>1. pc' \in Labels
  BY DEF Goto, Fail, PassTo, Labels, WithoutTimers, WithoutFast, WithStack,
         WithChip, Closed, TimersGone, LoadsGone, BlitterGone, CIAs
<1>2. held' \subseteq ChipBlocks \cup FastBlocks \cup OtherHoldings
  BY ZenonT(30), BlocksAssumption DEF OtherHoldings
<1>3. busy' \in BOOLEAN /\ fast' \in BOOLEAN /\ failure' \in BOOLEAN
      /\ measured' \in BOOLEAN
  BY DEF Goto, Fail, PassTo, Keep
<1>4. timers' \in [Timers -> {"free", "other", "session"}]
  BY DEF WithoutPair, Keep
<1>5. resource' \in CIAs \cup {"none"}
  BY DEF CIAs
<1>6. report' \in {"none", "fail", "pass"}
  BY DEF Keep
<1> QED BY <1>1, <1>2, <1>3, <1>4, <1>5, <1>6

LEMMA AcquiredStep == IInv /\ [Next]_vars => Acquired'
<1> SUFFICES ASSUME IInv, [Next]_vars
             PROVE  Acquired'
  OBVIOUS
<1> USE DEF IInv, Acquired, Goto, Fail, PassTo, Keep, WithStack,
           WithChip
<1>1. CASE OpenLibraries
  BY <1>1, BlocksAssumption DEF OpenLibraries
<1>11. ASSUME NEW cia \in CIAs, AcquireTimers(cia)
       PROVE  Acquired'
  BY <1>11 DEF AcquireTimers, CIAs
<1>2. CASE OpenScreen \/ AllocateChip
  BY <1>2 DEF OpenScreen, AllocateChip
<1>3. CASE AllocateFast \/ AllocateStack
  BY <1>3, BlocksAssumption DEF AllocateFast, AllocateStack
<1>4. CASE StartSprite \/ OpenAudio \/ StartChannels
  BY <1>4 DEF StartSprite, Taken, OpenAudio, StartChannels
<1>5. CASE OwnBlitter \/ RunSuite
  BY <1>5 DEF OwnBlitter, RunSuite
<1>6. CASE DisownBlitter \/ StopLoads \/ ReleaseTimers
  BY <1>6 DEF DisownBlitter, BlitDone, StopLoads, ReleaseTimers
<1>7. CASE CloseScreen
  BY <1>7 DEF CloseScreen
<1>8. CASE FreeMemory \/ WriteReport
  BY <1>8 DEF FreeMemory, WriteReport
<1>9. CASE BlitEnds \/ \E t \in Timers : OthersUseTimer(t)
  BY <1>9 DEF BlitEnds, OthersUseTimer
<1>10. CASE UNCHANGED vars
  BY <1>10 DEF vars
<1> QED BY <1>1, <1>2, <1>3, <1>4, <1>5, <1>6, <1>7, <1>8, <1>9,
           <1>10, <1>11 DEF Next, Program

LEMMA FastStep == IInv /\ [Next]_vars => FastWhole'
<1> SUFFICES ASSUME IInv, [Next]_vars
             PROVE  FastWhole'
  OBVIOUS
<1> USE DEF IInv, FastWhole, Goto, Fail, PassTo, Keep, WithoutTimers,
           WithoutFast, WithStack, OtherHoldings
<1>1. CASE OpenLibraries
  BY <1>1, BlocksAssumption DEF OpenLibraries
<1>11. ASSUME NEW cia \in CIAs, AcquireTimers(cia)
       PROVE  FastWhole'
  BY <1>11 DEF AcquireTimers, CIAs
<1>2. CASE OpenScreen \/ AllocateChip
  BY <1>2, BlocksAssumption DEF OpenScreen, AllocateChip
<1>3. CASE AllocateFast
  <2> PICK got \in SUBSET FastBlocks :
              /\ fast' = (got = FastBlocks)
              /\ held' = IF fast' THEN held \cup got ELSE held
    BY <1>3 DEF AllocateFast
  <2>1. pc = "fast" /\ pc' = "stack"
    BY <1>3 DEF AllocateFast
  <2>2. CASE got = FastBlocks
    BY <2>1, <2>2
  <2>3. CASE got # FastBlocks
    BY <2>1, <2>3
  <2> QED BY <2>2, <2>3
<1>12. CASE AllocateStack
  BY <1>12, BlocksAssumption DEF AllocateStack
<1>4. CASE StartSprite \/ OpenAudio \/ StartChannels
  BY <1>4, BlocksAssumption
     DEF StartSprite, Taken, OpenAudio, StartChannels
<1>5. CASE OwnBlitter \/ RunSuite
  BY <1>5, BlocksAssumption DEF OwnBlitter, RunSuite
<1>6. CASE DisownBlitter \/ StopLoads \/ ReleaseTimers
  BY <1>6 DEF DisownBlitter, BlitDone, StopLoads, ReleaseTimers
<1>7. CASE CloseScreen
  BY <1>7 DEF CloseScreen
<1>8. CASE FreeMemory \/ WriteReport
  BY <1>8 DEF FreeMemory, WriteReport
<1>9. CASE BlitEnds \/ \E t \in Timers : OthersUseTimer(t)
  BY <1>9 DEF BlitEnds, OthersUseTimer
<1>10. CASE UNCHANGED vars
  BY <1>10 DEF vars
<1> QED BY <1>1, <1>2, <1>3, <1>4, <1>5, <1>6, <1>7, <1>8, <1>9,
           <1>10, <1>11, <1>12 DEF Next, Program

LEMMA ReleasedStep == IInv /\ [Next]_vars => Released'
<1> SUFFICES ASSUME IInv, [Next]_vars
             PROVE  Released'
  OBVIOUS
<1> USE DEF IInv, Released, Goto, Fail, PassTo, Keep, Closed, TimersGone,
           LoadsGone, BlitterGone, Typed, OtherHoldings
<1>1. CASE OpenLibraries
  BY <1>1, BlocksAssumption DEF OpenLibraries
<1>11. ASSUME NEW cia \in CIAs, AcquireTimers(cia)
       PROVE  Released'
  BY <1>11 DEF AcquireTimers, CIAs
<1>2. CASE OpenScreen \/ AllocateChip
  BY <1>2 DEF OpenScreen, AllocateChip
<1>3. CASE AllocateFast \/ AllocateStack
  BY <1>3, BlocksAssumption DEF AllocateFast, AllocateStack
<1>4. CASE StartSprite \/ OpenAudio \/ StartChannels
  BY <1>4 DEF StartSprite, Taken, OpenAudio, StartChannels
<1>5. CASE OwnBlitter \/ RunSuite
  BY <1>5 DEF OwnBlitter, RunSuite
<1>6. CASE DisownBlitter \/ StopLoads \/ ReleaseTimers
  BY <1>6 DEF DisownBlitter, BlitDone, StopLoads, ReleaseTimers
<1>7. CASE CloseScreen
  BY <1>7 DEF CloseScreen
<1>8. CASE FreeMemory \/ WriteReport
  BY <1>8, BlocksAssumption DEF FreeMemory, WriteReport
<1>9. CASE BlitEnds \/ \E t \in Timers : OthersUseTimer(t)
  BY <1>9 DEF BlitEnds, OthersUseTimer
<1>10. CASE UNCHANGED vars
  BY <1>10 DEF vars
<1> QED BY <1>1, <1>2, <1>3, <1>4, <1>5, <1>6, <1>7, <1>8, <1>9,
           <1>10, <1>11 DEF Next, Program

LEMMA HardwareStep == IInv /\ [Next]_vars => HardwareKnown'
<1> SUFFICES ASSUME IInv, [Next]_vars
             PROVE  HardwareKnown'
  OBVIOUS
<1> USE DEF IInv, HardwareKnown, Acquired, WithChip, WithStack, Goto,
           Fail, PassTo, Keep
<1>1. CASE OpenLibraries
  BY <1>1, BlocksAssumption DEF OpenLibraries
<1>11. ASSUME NEW cia \in CIAs, AcquireTimers(cia)
       PROVE  HardwareKnown'
  BY <1>11 DEF AcquireTimers, CIAs
<1>2. CASE OpenScreen \/ AllocateChip
  BY <1>2 DEF OpenScreen, AllocateChip
<1>3. CASE AllocateFast \/ AllocateStack
  BY <1>3, BlocksAssumption DEF AllocateFast, AllocateStack
<1>4. CASE OpenAudio \/ StartChannels
  BY <1>4 DEF OpenAudio, StartChannels
<1>12. CASE StartSprite
  <2> DEFINE s == Cardinality(sprites) + 1
  <2>1. \/ showing' = showing \cup {s} /\ sprites' = sprites \cup {s}
        \/ UNCHANGED <<sprites, showing>>
    BY <1>12 DEF StartSprite, Taken
  <2>2. showing' = sprites'
    BY <2>1
  <2>3. ~busy'
    BY <1>12 DEF StartSprite
  <2> QED BY <2>2, <2>3
<1>5. CASE OwnBlitter \/ RunSuite
  BY <1>5, BlocksAssumption DEF OwnBlitter, RunSuite
<1>6. CASE DisownBlitter \/ StopLoads \/ ReleaseTimers
  BY <1>6 DEF DisownBlitter, BlitDone, StopLoads, ReleaseTimers
<1>7. CASE CloseScreen
  BY <1>7 DEF CloseScreen
<1>8. CASE FreeMemory \/ WriteReport
  BY <1>8 DEF FreeMemory, WriteReport
<1>9. CASE BlitEnds \/ \E t \in Timers : OthersUseTimer(t)
  BY <1>9 DEF BlitEnds, OthersUseTimer
<1>10. CASE UNCHANGED vars
  BY <1>10 DEF vars
<1> QED BY <1>1, <1>2, <1>3, <1>4, <1>5, <1>6, <1>7, <1>8, <1>9,
           <1>10, <1>11, <1>12 DEF Next, Program

LEMMA TimersStep == IInv /\ [Next]_vars => TimersKnown'
<1> SUFFICES ASSUME IInv, [Next]_vars
             PROVE  TimersKnown'
  OBVIOUS
<1> USE DEF IInv, TimersKnown, Goto, Fail, PassTo, Keep, WithoutTimers, Timers, CIAs
<1>1. CASE OpenLibraries
  BY <1>1, BlocksAssumption DEF OpenLibraries
<1>11. ASSUME NEW cia \in CIAs, AcquireTimers(cia)
       PROVE  TimersKnown'
  <2>1. pc \in WithoutTimers /\ pc = cia /\ resource = "none"
    BY <1>11 DEF AcquireTimers
  <2>2. CASE \A t \in {"A", "B"} : timers[<<cia, t>>] = "free"
    <3>1. /\ resource' = cia /\ pc' = "screen"
          /\ timers' = [timers EXCEPT ![<<cia, "A">>] = "session",
                                      ![<<cia, "B">>] = "session"]
      BY <1>11, <2>2 DEF AcquireTimers
    <3>2. ASSUME NEW t \in Timers
          PROVE  timers'[t] = "session" <=> t[1] = cia
      <4>1. t = <<t[1], t[2]>> /\ t[1] \in CIAs /\ t[2] \in {"A", "B"}
        OBVIOUS
      <4>2. CASE t[1] = cia
        BY <3>1, <4>1, <4>2 DEF Typed
      <4>3. CASE t[1] # cia
        BY <2>1, <3>1, <4>1, <4>3 DEF Typed
      <4> QED BY <4>2, <4>3
    <3> QED BY <3>1, <3>2
  <2>3. CASE ~\A t \in {"A", "B"} : timers[<<cia, t>>] = "free"
    BY <1>11, <2>1, <2>3 DEF AcquireTimers, WithoutPair
  <2> QED BY <2>2, <2>3
<1>2. CASE OpenScreen \/ AllocateChip
  BY <1>2 DEF OpenScreen, AllocateChip
<1>3. CASE AllocateFast \/ AllocateStack
  BY <1>3, BlocksAssumption DEF AllocateFast, AllocateStack
<1>4. CASE StartSprite \/ OpenAudio \/ StartChannels
  BY <1>4 DEF StartSprite, Taken, OpenAudio, StartChannels
<1>5. CASE OwnBlitter \/ RunSuite
  BY <1>5 DEF OwnBlitter, RunSuite
<1>6. CASE DisownBlitter \/ StopLoads \/ ReleaseTimers
  BY <1>6 DEF DisownBlitter, BlitDone, StopLoads, ReleaseTimers
<1>7. CASE CloseScreen
  BY <1>7 DEF CloseScreen
<1>8. CASE FreeMemory \/ WriteReport
  BY <1>8 DEF FreeMemory, WriteReport
<1>9. CASE BlitEnds
  BY <1>9 DEF BlitEnds
<1>12. ASSUME NEW t \in Timers, OthersUseTimer(t)
       PROVE  TimersKnown'
  <2>1. /\ timers[t] # "session" /\ UNCHANGED <<pc, resource>>
        /\ timers' = [timers EXCEPT ![t] = IF @ = "free" THEN "other"
                                           ELSE "free"]
    BY <1>12 DEF OthersUseTimer
  <2> QED BY <2>1 DEF Typed
<1>10. CASE UNCHANGED vars
  BY <1>10 DEF vars
<1> QED BY <1>1, <1>2, <1>3, <1>4, <1>5, <1>6, <1>7, <1>8, <1>9,
           <1>10, <1>11, <1>12 DEF Next, Program

LEMMA ReportStep == IInv /\ [Next]_vars => ReportLast'
<1> SUFFICES ASSUME IInv, [Next]_vars
             PROVE  ReportLast'
  OBVIOUS
<1> USE DEF IInv, ReportLast, Goto, Fail, PassTo, Keep, Passes
<1>1. CASE OpenLibraries
  BY <1>1, BlocksAssumption DEF OpenLibraries
<1>11. ASSUME NEW cia \in CIAs, AcquireTimers(cia)
       PROVE  ReportLast'
  BY <1>11 DEF AcquireTimers, CIAs
<1>2. CASE OpenScreen \/ AllocateChip
  BY <1>2 DEF OpenScreen, AllocateChip
<1>3. CASE AllocateFast \/ AllocateStack
  BY <1>3, BlocksAssumption DEF AllocateFast, AllocateStack
<1>4. CASE StartSprite \/ OpenAudio \/ StartChannels
  BY <1>4 DEF StartSprite, Taken, OpenAudio, StartChannels
<1>5. CASE OwnBlitter \/ RunSuite
  BY <1>5 DEF OwnBlitter, RunSuite
<1>6. CASE DisownBlitter \/ StopLoads \/ ReleaseTimers
  BY <1>6 DEF DisownBlitter, BlitDone, StopLoads, ReleaseTimers
<1>7. CASE CloseScreen
  BY <1>7 DEF CloseScreen
<1>8. CASE FreeMemory \/ WriteReport
  BY <1>8 DEF FreeMemory, WriteReport
<1>9. CASE BlitEnds \/ \E t \in Timers : OthersUseTimer(t)
  BY <1>9 DEF BlitEnds, OthersUseTimer
<1>10. CASE UNCHANGED vars
  BY <1>10 DEF vars
<1> QED BY <1>1, <1>2, <1>3, <1>4, <1>5, <1>6, <1>7, <1>8, <1>9,
           <1>10, <1>11 DEF Next, Program

LEMMA MemoryStep == IInv /\ [Next]_vars => DmaMemoryHeld'
<1> SUFFICES ASSUME IInv, [Next]_vars
             PROVE  DmaMemoryHeld'
  OBVIOUS
<1> USE DEF IInv, DmaMemoryHeld, Acquired, WithChip,
           WithStack, Released, HardwareKnown, BlitterGone, LoadsGone,
           TimersGone, Closed, Goto, Fail, PassTo, Keep
<1>1. CASE OpenLibraries
  BY <1>1, BlocksAssumption DEF OpenLibraries
<1>11. ASSUME NEW cia \in CIAs, AcquireTimers(cia)
       PROVE  DmaMemoryHeld'
  BY <1>11 DEF AcquireTimers, CIAs
<1>2. CASE OpenScreen \/ AllocateChip
  BY <1>2 DEF OpenScreen, AllocateChip
<1>3. CASE AllocateFast \/ AllocateStack
  BY <1>3, BlocksAssumption DEF AllocateFast, AllocateStack
<1>4. CASE StartSprite \/ OpenAudio \/ StartChannels
  BY <1>4, BlocksAssumption DEF StartSprite, Taken, OpenAudio, StartChannels
<1>5. CASE OwnBlitter \/ RunSuite
  BY <1>5, BlocksAssumption DEF OwnBlitter, RunSuite
<1>6. CASE DisownBlitter \/ StopLoads \/ ReleaseTimers
  BY <1>6, BlocksAssumption DEF DisownBlitter, BlitDone, StopLoads, ReleaseTimers
<1>7. CASE CloseScreen
  BY <1>7, BlocksAssumption DEF CloseScreen
<1>8. CASE FreeMemory \/ WriteReport
  BY <1>8, BlocksAssumption DEF FreeMemory, WriteReport
<1>9. CASE BlitEnds \/ \E t \in Timers : OthersUseTimer(t)
  BY <1>9 DEF BlitEnds, OthersUseTimer
<1>10. CASE UNCHANGED vars
  BY <1>10 DEF vars
<1> QED BY <1>1, <1>2, <1>3, <1>4, <1>5, <1>6, <1>7, <1>8, <1>9,
           <1>10, <1>11 DEF Next, Program

LEMMA Invariance == Spec => []IInv
<1>1. IInv /\ [Next]_vars => IInv'
  BY TypedStep, AcquiredStep, FastStep, ReleasedStep, HardwareStep,
     TimersStep, ReportStep, MemoryStep DEF IInv
<1> QED BY IInvInit, <1>1, PTL DEF Spec
-----------------------------------------------------------------------------
(* The blitter, the audio channels and the sprites never read memory that  *)
(* the session has freed, whichever request was refused (the order of      *)
(* cleanup in main).                                                       *)
THEOREM MemoryOutlivesDma == Spec => []DmaMemoryHeld
<1>1. IInv => DmaMemoryHeld
  BY DEF IInv
<1> QED BY Invariance, <1>1, PTL

(* Whatever has failed on the way, a session that is over holds nothing    *)
(* but, if the system refused to close it, its screen; and the report then *)
(* tells of the failure (cleanup in main).                                 *)
THEOREM EverythingReturned == Spec => []AllReturned
<1>1. IInv => AllReturned
  <2> SUFFICES ASSUME IInv, pc = "done"
               PROVE  /\ held \subseteq {"screen"}
                      /\ held # {} => report = "fail"
                      /\ sprites = {} /\ channels = {} /\ showing = {}
                      /\ ~busy
                      /\ \A t \in Timers : timers[t] # "session"
    BY DEF AllReturned
  <2>1. /\ held \subseteq {"screen"}
        /\ sprites = {} /\ channels = {} /\ showing = {} /\ ~busy
    BY DEF IInv, Released, HardwareKnown, LoadsGone, TimersGone, Closed
  <2>2. held # {} => report = "fail"
    BY <2>1 DEF IInv, Released, Closed, ReportLast, Passes
  <2>3. ASSUME NEW t \in Timers
        PROVE  timers[t] # "session"
    <3>1. resource = "none"
      BY DEF IInv, Released, TimersGone, Closed
    <3>2. t[1] \in CIAs
      BY DEF Timers
    <3>3. timers[t] = "session" <=> t[1] = resource
      BY DEF IInv, TimersKnown
    <3> QED BY <3>1, <3>2, <3>3 DEF CIAs
  <2> QED BY <2>1, <2>2, <2>3
<1> QED BY Invariance, <1>1, PTL

(* The suite runs with all of the fast memory or none of it, and a report  *)
(* passes only after a suite that passed and a cleanup without failure     *)
(* (the allocation of the fast memory and the report in main).             *)
THEOREM ReportIsSound == Spec => []ReportSound
<1>1. IInv => ReportSound
  <2> SUFFICES ASSUME IInv
               PROVE  ReportSound
    OBVIOUS
  <2>1. ASSUME pc = "suite"
        PROVE  /\ fast <=> FastBlocks \ {"stack"} \subseteq held
               /\ ~fast => held \cap FastBlocks = {"stack"}
    <3>1. CASE fast
      BY <2>1, <3>1 DEF IInv, FastWhole, WithStack
    <3>2. CASE ~fast
      <4>1. held \cap FastBlocks = {"stack"}
        BY <2>1, <3>2 DEF IInv, FastWhole, WithStack
      <4>2. \E block \in FastBlocks \ {"stack"} : block \notin held
        BY <4>1, BlocksAssumption
      <4> QED BY <3>2, <4>1, <4>2
    <3> QED BY <3>1, <3>2
  <2>2. ASSUME report = "pass"
        PROVE  measured /\ ~failure /\ held = {}
    <3>1. pc = "done" /\ Passes
      BY <2>2 DEF IInv, ReportLast
    <3> QED BY <3>1 DEF IInv, Passes, Released, Closed
  <2> QED BY <2>1, <2>2 DEF ReportSound
<1> QED BY Invariance, <1>1, PTL
=============================================================================
