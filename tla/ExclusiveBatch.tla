--------------------------- MODULE ExclusiveBatch ---------------------------
(***************************************************************************)
(* The timed cases of the exclusive graphics benchmark                     *)
(* (tests/benchmark/exclusive-graphics/main.c): run_exclusive_suite,       *)
(* run_raw_case and run_c2p_case with begin_batch, end_batch and           *)
(* restore_batch_state, and the end of the session, which waits for the    *)
(* blitter before its memory is freed.                                     *)
(*                                                                         *)
(* Two kinds of actors share the custom registers with the program: the    *)
(* interrupt handlers of the operating system, which run whenever an       *)
(* interrupt is enabled, and the blitter.  Between Disable() and Enable()  *)
(* no handler runs, so each such section is one step.                      *)
(***************************************************************************)
EXTENDS Integers, FiniteSets, Sequences

CONSTANTS
    Sources,    \* the interrupt sources
    Profiles,   \* dma_profiles: a sequence of [dma, fair, hog]
    SystemDma,  \* the sets of DMA channels the system may have on
    Samples,    \* BENCH_RAW_SAMPLES or BENCH_C2P_SAMPLES
    Retries     \* BENCH_TIMER_RETRY_LIMIT

ASSUME SamplesAssumption == Samples \in Nat \ {0} /\ Retries \in Nat
ASSUME ProfilesAssumption ==
    /\ Len(Profiles) \in Nat \ {0} /\ DOMAIN Profiles = 1 .. Len(Profiles)
    /\ \A c \in DOMAIN Profiles : {Profiles[c].fair, Profiles[c].hog}
                                        \subseteq BOOLEAN
(* The system keeps blitter DMA on.                                        *)
ASSUME SystemDmaAssumption == \A dma \in SystemDma : "blitter" \in dma

VARIABLES
    irqs,       \* INTENA: the sources enabled
    dma,        \* DMACON: the managed channels that are on
    busy,       \* DMACONR: the blitter is running
    os_irqs,    \* what the system last wrote to both (history)
    os_dma,
    pc,         \* where the program is
    case,       \* the index of the case
    saved,      \* struct BatchState
    attempt, sample, busy_samples,
    busy_at_end,    \* blitter_busy_at_kernel_end
    success     \* of end_batch, then of the suite

registers == <<irqs, dma, os_irqs, os_dma>>
counters  == <<case, attempt, sample, busy_samples>>
vars == <<registers, busy, pc, counters, saved, busy_at_end, success>>

Profile == Profiles[case]
UsesBlitter == Profile.fair \/ Profile.hog
Idle == [irqs |-> {}, dma |-> {}]
-----------------------------------------------------------------------------
(* The other actors                                                        *)

(* An interrupt handler of the system may reprogram sources and DMA.       *)
Handler ==
    /\ pc # "freed"
    /\ irqs # {}
    /\ \E s \in SUBSET Sources \ {{}} : irqs' = s /\ os_irqs' = s
    /\ \E d \in SystemDma : dma' = d /\ os_dma' = d
    /\ UNCHANGED <<busy, pc, counters, saved, busy_at_end, success>>

(* A blit ends only while its DMA is on.                                   *)
BlitEnds ==
    /\ busy /\ "blitter" \in dma
    /\ busy' = FALSE
    /\ UNCHANGED <<registers, pc, counters, saved, busy_at_end, success>>
-----------------------------------------------------------------------------
Init ==
    /\ irqs = Sources /\ os_irqs = Sources
    /\ dma \in SystemDma /\ os_dma = dma
    /\ busy = FALSE
    /\ pc = "attempt" /\ case = 1
    /\ saved = Idle
    /\ attempt = 0 /\ sample = 0 /\ busy_samples = 0
    /\ busy_at_end = FALSE
    /\ success = TRUE

(* A case fails: the suite goes to its label `leave'.                      *)
Fail == pc' = "leave" /\ success' = FALSE

(* Mutant: one attempt more is allowed.                                    *)
MutantAttemptsLeft == attempt <= Samples + 1 + Retries

AttemptsLeft == attempt < Samples + 1 + Retries

(* The loop of a case: out of attempts, or begin_batch waits for the       *)
(* raster start, which may time out before anything is taken over.         *)
StartAttempt ==
    /\ pc = "attempt" /\ sample < Samples
    /\ IF ~AttemptsLeft THEN Fail
       ELSE \/ pc' = "take" /\ UNCHANGED success
            \/ Fail
    /\ UNCHANGED <<registers, busy, counters, saved, busy_at_end>>

(* Mutant: only the system's own interrupts are left enabled.              *)
MutantMaskedIrqs == irqs

MaskedIrqs == {}

(* begin_batch between Disable() and Enable().  The master bit is off when *)
(* INTENAR is read and on again after Enable(), which is why it is not     *)
(* part of what is saved, compared and restored.  The channels read back   *)
(* may not be those wanted: then everything is given back at once.         *)
TakeOver ==
    /\ pc = "take"
    /\ saved' = [irqs |-> irqs, dma |-> dma]
    /\ irqs' = MaskedIrqs
    /\ dma' = Profile.dma
    /\ pc' \in {"launch", "refused"}
    /\ UNCHANGED <<os_irqs, os_dma, busy, counters, busy_at_end,
                   success>>

(* Mutant: after a failure the channels stay off.                          *)
MutantRestoredDma == IF success THEN saved.dma ELSE {}

RestoredDma == saved.dma

(* restore_batch_state                                                     *)
GiveBack == irqs' = saved.irqs /\ dma' = RestoredDma /\ saved' = Idle

Refused ==
    /\ pc = "refused"
    /\ GiveBack
    /\ Fail
    /\ UNCHANGED <<os_irqs, os_dma, busy, counters, busy_at_end>>

(* launch_blitter_copy, if the profile has a blit.                         *)
Launch ==
    /\ pc = "launch"
    /\ busy' = (busy \/ UsesBlitter)
    /\ pc' = "kernel"
    /\ UNCHANGED <<registers, counters, saved, busy_at_end, success>>

(* The kernels have run, or the conversion has reported an error; in both  *)
(* cases end_batch follows.                                                *)
KernelEnds ==
    /\ pc = "kernel"
    /\ busy_at_end' = (UsesBlitter /\ busy)
    /\ success' \in BOOLEAN
    /\ pc' = IF UsesBlitter THEN "blitter" ELSE "restore"
    /\ UNCHANGED <<registers, busy, counters, saved>>

(* Mutant: the poll limit alone ends the wait.                             *)
MutantBlitterDone == TRUE

BlitterDone == ~busy

(* wait_for_blitter sees the blitter idle; the checksum of what it has     *)
(* copied may still be wrong.                                              *)
BlitterIdle ==
    /\ pc = "blitter" /\ BlitterDone
    /\ success' \in {success, FALSE}
    /\ pc' = "restore"
    /\ UNCHANGED <<registers, busy, counters, saved, busy_at_end>>

(* Or it gives up after BENCH_BLITTER_POLL_LIMIT polls: the blit goes on.  *)
BlitterTimeout ==
    /\ pc = "blitter" /\ busy
    /\ success' = FALSE
    /\ pc' = "restore"
    /\ UNCHANGED <<registers, busy, counters, saved, busy_at_end>>

(* end_batch waits for the raster start and restores the masks, whatever   *)
(* has failed before; the wait, the comparison of the masks or the guards  *)
(* of the stack may be one more failure.                                   *)
Restore ==
    /\ pc = "restore"
    /\ GiveBack
    /\ success' \in {success, FALSE}
    /\ pc' = IF success' THEN "measure" ELSE "leave"
    /\ UNCHANGED <<os_irqs, os_dma, busy, counters, busy_at_end>>

Warm == attempt # 0

(* The first attempt warms up; of the others those with a plausible time   *)
(* are samples (measured_elapsed_ticks).                                   *)
Measure ==
    /\ pc = "measure"
    /\ \E valid \in BOOLEAN :
          LET counts == valid /\ Warm
          IN  /\ sample' = IF counts THEN sample + 1 ELSE sample
              /\ busy_samples' = IF counts /\ busy_at_end
                                 THEN busy_samples + 1 ELSE busy_samples
    /\ attempt' = attempt + 1
    /\ busy_at_end' = FALSE
    /\ pc' = "attempt"
    /\ UNCHANGED <<registers, busy, case, saved, success>>

UnderLoad == Profile.fair => busy_samples = Samples

(* All samples are there: checksums, and the blitter that has to have been *)
(* busy throughout each of them.                                           *)
EndCase ==
    /\ pc = "attempt" /\ sample = Samples
    /\ \/ /\ UnderLoad
          /\ IF case < Len(Profiles)
             THEN pc' = "attempt" /\ case' = case + 1
             ELSE pc' = "leave" /\ UNCHANGED case
          /\ UNCHANGED success
       \/ Fail /\ UNCHANGED case
    /\ attempt' = 0 /\ sample' = 0 /\ busy_samples' = 0
    /\ UNCHANGED <<registers, busy, saved, busy_at_end>>

(* WaitBlit() in the cleanup of main, before the blit's memory is freed.   *)
Cleanup ==
    /\ pc = "leave" /\ ~busy
    /\ pc' = "freed"
    /\ UNCHANGED <<registers, busy, counters, saved, busy_at_end, success>>

Program ==
    \/ StartAttempt \/ TakeOver \/ Refused \/ Launch \/ KernelEnds
    \/ BlitterIdle \/ BlitterTimeout \/ Restore \/ Measure \/ EndCase
    \/ Cleanup

Next == Handler \/ BlitEnds \/ Program

(* The program goes on (every wait has a poll limit, WaitBlit excepted);   *)
(* a blit ends some time if its DMA stays on.                              *)
Spec == Init /\ [][Next]_vars /\ WF_vars(Program) /\ WF_vars(BlitEnds)
-----------------------------------------------------------------------------
(* Properties                                                              *)

TypeOK ==
    /\ busy \in BOOLEAN /\ busy_at_end \in BOOLEAN
    /\ success \in BOOLEAN
    /\ irqs \subseteq Sources /\ os_irqs \subseteq Sources
    /\ case \in DOMAIN Profiles
    /\ dma \in SystemDma \cup {Profiles[c].dma : c \in DOMAIN Profiles}
    /\ os_dma \in SystemDma
    /\ attempt \in 0 .. Samples + 1 + Retries
    /\ sample \in 0 .. Samples /\ busy_samples \in 0 .. sample

Inside == pc \in {"refused", "launch", "kernel", "blitter", "restore"}

(* Outside a batch, interrupts and DMA are what the system last made them, *)
(* after every failure of every step too (restore_batch_state).            *)
MasksRestored == ~Inside => irqs = os_irqs /\ dma = os_dma

(* No handler runs from the takeover to the restoration: what it wrote     *)
(* would be overwritten, and the time it took measured (begin_batch).      *)
BatchUndisturbed ==
    [][Inside => UNCHANGED <<os_irqs, os_dma>>]_vars

(* A blit is launched only when none runs, though a batch may give up      *)
(* waiting for the one before it (wait_for_blitter).                       *)
BlitterQuiet ==
    [][Launch => ~busy]_vars

(* Every sample of a case with the fair blitter was under load to its end, *)
(* and a case uses at most one warm-up and Retries discarded attempts      *)
(* beyond its samples; it fails for want of attempts only after more than  *)
(* that many were discarded (run_raw_case, run_c2p_case).                  *)
CasesSound ==
    [][/\ EndCase /\ success' => /\ Profile.fair => busy_samples = sample
                                 /\ attempt - sample \in 1 .. 1 + Retries
       /\ StartAttempt /\ ~AttemptsLeft => attempt - 1 - sample > Retries
      ]_vars

(* The session ends, and with its memory freed, even if a batch gives up   *)
(* on the blitter: the restored DMA lets the blit end.                     *)
SessionEnds == <>(pc = "freed")
=============================================================================
