------------------------ MODULE ExclusiveBatch_proof ------------------------
(***************************************************************************)
(* Proof that the timed cases of ExclusiveBatch leave the machine as they  *)
(* have found it, for any interrupt sources, any table of DMA profiles and *)
(* any number of samples and retries.                                      *)
(***************************************************************************)
EXTENDS ExclusiveBatch, TLAPS

(***************************************************************************)
(* The inductive invariant.  From the takeover on, an attempt is counted   *)
(* as begun.                                                               *)
(***************************************************************************)
Begun == Inside \/ pc \in {"take", "measure"}

Typed ==
    /\ TypeOK
    /\ pc \in {"attempt", "take", "refused", "launch", "kernel", "blitter",
               "restore", "measure", "leave", "freed"}

(* What a batch has saved is what the system had written, and no interrupt *)
(* is enabled while it is saved.                                           *)
MasksSaved ==
    IF Inside
    THEN /\ irqs = {}
         /\ saved = [irqs |-> os_irqs, dma |-> os_dma]
    ELSE irqs = os_irqs /\ dma = os_dma

(* A blit outlasts its batch only if the batch has failed, and then no     *)
(* other batch begins.                                                     *)
BlitAccounted ==
    /\ pc \in {"attempt", "take", "refused", "launch", "measure"} => ~busy
    /\ pc = "kernel" /\ ~UsesBlitter => ~busy
    /\ pc = "restore" /\ success => ~busy

(* The warm-up is no sample, and neither an attempt nor a sample is begun  *)
(* once there are enough.                                                  *)
SamplesCounted ==
    /\ attempt = 0 => sample = 0
    /\ attempt # 0 => sample < attempt
    /\ Begun => sample < Samples /\ AttemptsLeft

IInv == Typed /\ MasksSaved /\ BlitAccounted /\ SamplesCounted

-----------------------------------------------------------------------------
LEMMA IInvInit == Init => IInv
<1> SUFFICES ASSUME Init
             PROVE  IInv
  OBVIOUS
<1>1. TypeOK
  <2>1. case \in DOMAIN Profiles
    BY ProfilesAssumption DEF Init
  <2>2. 0 \in 0 .. Samples + 1 + Retries /\ 0 \in 0 .. Samples
        /\ 0 \in 0 .. 0
    BY SamplesAssumption
  <2> QED BY <2>1, <2>2 DEF Init, TypeOK
<1>2. MasksSaved /\ BlitAccounted /\ SamplesCounted
  BY DEF Init, MasksSaved, BlitAccounted, SamplesCounted, Begun, Inside
<1> QED BY <1>1, <1>2 DEF Init, IInv, Typed

(* Every profile the suite works through is one of the table.              *)
LEMMA ProfileTyped ==
  TypeOK => /\ Profile.fair \in BOOLEAN /\ Profile.hog \in BOOLEAN
            /\ UsesBlitter \in BOOLEAN
            /\ Profile.dma \in {Profiles[c].dma : c \in DOMAIN Profiles}
BY ProfilesAssumption DEF TypeOK, Profile, UsesBlitter

(* What a batch gives back is what the system had written.                 *)
LEMMA GivenBack ==
  ASSUME IInv, GiveBack, Inside
  PROVE  irqs' = os_irqs /\ dma' = os_dma
BY DEF IInv, MasksSaved, GiveBack, RestoredDma

LEMMA TypedStep == IInv /\ [Next]_vars => Typed'
<1> SUFFICES ASSUME IInv, [Next]_vars
             PROVE  Typed'
  OBVIOUS
<1> USE DEF IInv, Typed, TypeOK, registers, counters
<1>1. CASE Handler
  BY <1>1 DEF Handler
<1>2. CASE BlitEnds
  BY <1>2 DEF BlitEnds
<1>3. CASE StartAttempt
  BY <1>3 DEF StartAttempt, Fail
<1>4. CASE TakeOver
  BY <1>4, ProfileTyped DEF TakeOver, MaskedIrqs
<1>5. CASE Refused \/ Restore
  <2>1. irqs' = os_irqs /\ dma' = os_dma
    BY <1>5, GivenBack DEF Refused, Restore, Inside
  <2> QED BY <1>5, <2>1 DEF Refused, Restore, Fail
<1>6. CASE Launch
  BY <1>6, ProfileTyped DEF Launch
<1>7. CASE KernelEnds
  BY <1>7, ProfileTyped DEF KernelEnds
<1>8. CASE BlitterIdle \/ BlitterTimeout
  BY <1>8 DEF BlitterIdle, BlitterTimeout
<1>9. CASE Measure
  <2>1. attempt' \in 0 .. Samples + 1 + Retries
    BY <1>9, SamplesAssumption
       DEF Measure, SamplesCounted, Begun, AttemptsLeft
  <2>2. sample' \in 0 .. Samples /\ busy_samples' \in 0 .. sample'
    BY <1>9, SamplesAssumption DEF Measure, SamplesCounted, Begun
  <2> QED BY <1>9, <2>1, <2>2 DEF Measure
<1>10. CASE EndCase
  <2>1. case' \in DOMAIN Profiles
    BY <1>10, ProfilesAssumption DEF EndCase, Fail
  <2>2. /\ attempt' \in 0 .. Samples + 1 + Retries
        /\ sample' \in 0 .. Samples /\ busy_samples' \in 0 .. sample'
    BY <1>10, SamplesAssumption DEF EndCase
  <2> QED BY <1>10, <2>1, <2>2 DEF EndCase, Fail
<1>11. CASE Cleanup
  BY <1>11 DEF Cleanup
<1>12. CASE UNCHANGED vars
  BY <1>12 DEF vars
<1> QED BY <1>1, <1>2, <1>3, <1>4, <1>5, <1>6, <1>7, <1>8, <1>9, <1>10,
           <1>11, <1>12 DEF Next, Program

LEMMA MasksStep == IInv /\ [Next]_vars => MasksSaved'
<1> SUFFICES ASSUME IInv, [Next]_vars
             PROVE  MasksSaved'
  OBVIOUS
<1> USE DEF IInv, MasksSaved, Inside, registers
<1>1. CASE Handler
  BY <1>1 DEF Handler
<1>2. CASE TakeOver
  BY <1>2 DEF TakeOver, MaskedIrqs
<1>3. CASE Refused \/ Restore
  <2>1. irqs' = os_irqs /\ dma' = os_dma
    BY <1>3, GivenBack DEF Refused, Restore
  <2> QED BY <1>3, <2>1 DEF Refused, Restore, Fail
<1>4. CASE StartAttempt \/ Launch \/ KernelEnds \/ BlitterIdle
           \/ BlitterTimeout
  BY <1>4 DEF StartAttempt, Launch, KernelEnds, BlitterIdle, BlitterTimeout,
              Fail
<1>5. CASE Measure \/ EndCase \/ Cleanup \/ BlitEnds \/ UNCHANGED vars
  BY <1>5 DEF Measure, EndCase, Cleanup, BlitEnds, Fail, vars
<1> QED BY <1>1, <1>2, <1>3, <1>4, <1>5 DEF Next, Program

LEMMA BlitStep == IInv /\ [Next]_vars => BlitAccounted'
<1> SUFFICES ASSUME IInv, [Next]_vars
             PROVE  BlitAccounted'
  OBVIOUS
<1> USE DEF IInv, BlitAccounted, UsesBlitter, Profile
<1>1. CASE Handler \/ BlitEnds \/ UNCHANGED vars
  BY <1>1 DEF Handler, BlitEnds, vars, counters
<1>2. CASE StartAttempt \/ TakeOver \/ Refused
  BY <1>2 DEF StartAttempt, TakeOver, Refused, Fail, counters
<1>3. CASE Launch
  BY <1>3, ProfileTyped DEF Launch, counters, Typed
<1>4. CASE KernelEnds
  BY <1>4, ProfileTyped DEF KernelEnds, counters, Typed
<1>5. CASE BlitterIdle \/ BlitterTimeout
  <2>1. busy \in BOOLEAN
    BY DEF Typed, TypeOK
  <2>2. pc' = "restore" /\ busy' = busy
    BY <1>5 DEF BlitterIdle, BlitterTimeout
  <2>3. ~busy \/ ~success'
    BY <1>5 DEF BlitterIdle, BlitterTimeout, BlitterDone
  <2> QED BY <2>1, <2>2, <2>3
<1>6. CASE Restore
  <2>1. success' => success
    BY <1>6 DEF Restore
  <2>2. /\ pc = "restore" /\ busy' = busy
        /\ pc' = (IF success' THEN "measure" ELSE "leave")
    BY <1>6 DEF Restore
  <2> QED BY <2>1, <2>2
<1>7. CASE Measure \/ EndCase \/ Cleanup
  BY <1>7 DEF Measure, EndCase, Cleanup, Fail, counters
<1> QED BY <1>1, <1>2, <1>3, <1>4, <1>5, <1>6, <1>7 DEF Next, Program

LEMMA SamplesStep == IInv /\ [Next]_vars => SamplesCounted'
<1> SUFFICES ASSUME IInv, [Next]_vars
             PROVE  SamplesCounted'
  OBVIOUS
<1> USE DEF IInv, SamplesCounted, Begun, Inside, AttemptsLeft, Typed, TypeOK,
            counters
<1>1. CASE Measure
  BY <1>1, SamplesAssumption DEF Measure, Warm
<1>2. CASE EndCase
  BY <1>2, SamplesAssumption DEF EndCase, Fail
<1>3. CASE StartAttempt
  BY <1>3 DEF StartAttempt, Fail
<1>4. CASE TakeOver \/ Refused \/ Launch \/ KernelEnds
  BY <1>4 DEF TakeOver, Refused, Launch, KernelEnds, Fail
<1>5. CASE BlitterIdle \/ BlitterTimeout \/ Restore \/ Cleanup
  BY <1>5 DEF BlitterIdle, BlitterTimeout, Restore, Cleanup
<1>6. CASE Handler \/ BlitEnds \/ UNCHANGED vars
  BY <1>6 DEF Handler, BlitEnds, vars
<1> QED BY <1>1, <1>2, <1>3, <1>4, <1>5, <1>6 DEF Next, Program

LEMMA Invariance == Spec => []IInv
<1>1. IInv /\ [Next]_vars => IInv'
  BY TypedStep, MasksStep, BlitStep, SamplesStep DEF IInv
<1> QED BY IInvInit, <1>1, PTL DEF Spec
-----------------------------------------------------------------------------
(* The counters of a case stay within its samples and retries, the         *)
(* registers within what the system and the table put there                *)
(* (run_raw_case, run_c2p_case).                                           *)
THEOREM TypeCorrect == Spec => []TypeOK
<1>1. IInv => TypeOK
  BY DEF IInv, Typed
<1> QED BY Invariance, <1>1, PTL

(* Outside a batch, interrupts and DMA are what the system last made them, *)
(* whichever step of whichever batch has failed (restore_batch_state).     *)
THEOREM MasksAlwaysRestored == Spec => []MasksRestored
<1>1. IInv => MasksRestored
  BY DEF IInv, MasksSaved, MasksRestored
<1> QED BY Invariance, <1>1, PTL

(* Nothing the system would have written is lost when a batch restores the *)
(* masks: no handler runs inside one (begin_batch).                        *)
THEOREM NoHandlerInside == Spec => BatchUndisturbed
<1>1. IInv /\ [Next]_vars
         => [Inside => UNCHANGED <<os_irqs, os_dma>>]_vars
  BY DEF IInv, MasksSaved, Next, Program, Handler, BlitEnds, StartAttempt,
         TakeOver, Refused, Launch, KernelEnds, BlitterIdle, BlitterTimeout,
         Restore, Measure, EndCase, Cleanup, vars, registers
<1> QED BY Invariance, <1>1, PTL DEF Spec, BatchUndisturbed

(* A batch that gives up on its blit is the last one: no blit is launched  *)
(* while another runs (wait_for_blitter, launch_blitter_copy).             *)
THEOREM NoBlitIsOverrun == Spec => BlitterQuiet
<1>1. IInv /\ [Next]_vars => [Launch => ~busy]_vars
  BY DEF IInv, BlitAccounted, Launch
<1> QED BY Invariance, <1>1, PTL DEF Spec, BlitterQuiet

(* A case ends with all its samples, those of the fair blitter under load, *)
(* out of at most one warm-up and Retries attempts more; it runs out of    *)
(* attempts only after more than Retries discarded ones (run_raw_case,     *)
(* run_c2p_case).                                                          *)
THEOREM CasesAreSound == Spec => CasesSound
<1> DEFINE Sound ==
       /\ EndCase /\ success' => /\ Profile.fair => busy_samples = sample
                                 /\ attempt - sample \in 1 .. 1 + Retries
       /\ StartAttempt /\ ~AttemptsLeft => attempt - 1 - sample > Retries
<1>1. IInv /\ [Next]_vars => [Sound]_vars
  <2> SUFFICES ASSUME IInv
               PROVE  Sound
    OBVIOUS
  <2> USE DEF IInv, Typed, TypeOK, SamplesCounted
  <2>1. ASSUME EndCase, success'
        PROVE  /\ Profile.fair => busy_samples = sample
               /\ attempt - sample \in 1 .. 1 + Retries
    BY <2>1, SamplesAssumption DEF EndCase, Fail, UnderLoad
  <2>2. ASSUME StartAttempt, ~AttemptsLeft
        PROVE  attempt - 1 - sample > Retries
    BY <2>2, SamplesAssumption DEF StartAttempt, AttemptsLeft
  <2> QED BY <2>1, <2>2
<1> QED BY Invariance, <1>1, PTL DEF Spec, CasesSound
=============================================================================
