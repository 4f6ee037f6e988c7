-------------------------- MODULE ExclusiveSession --------------------------
(***************************************************************************)
(* main of the exclusive graphics benchmark                                *)
(* (tests/benchmark/exclusive-graphics/main.c): what a session takes from  *)
(* the operating system, in the order in which it takes it; the single     *)
(* label `cleanup', where every failure ends; the report.                  *)
(*                                                                         *)
(* Any request to the system may be refused and any check may fail.  Three *)
(* parts of the hardware read memory of the session without asking: the    *)
(* blitter, the audio channels and the sprites.  The suite itself is in    *)
(* ExclusiveBatch.                                                         *)
(***************************************************************************)
EXTENDS Integers, FiniteSets

CONSTANTS
    ChipBlocks,     \* allocations that are all needed
    FastBlocks,     \* allocations with MEMF_FAST, used if all succeed
    SpriteCount,    \* BENCH_SPRITE_COUNT
    ChannelCount    \* BENCH_AUDIO_CHANNELS

(* What a session holds besides blocks of memory.                          *)
OtherHoldings == {"cache", "graphics", "intuition", "screen", "port",
                  "request", "device", "blitter"}

ASSUME BlocksAssumption ==
    /\ {"blitter_memory", "audio_sample", "sprite_data"} \subseteq ChipBlocks
    /\ "stack" \in FastBlocks /\ FastBlocks # {"stack"}
    /\ ChipBlocks \cap FastBlocks = {}
    /\ (ChipBlocks \cup FastBlocks) \cap OtherHoldings = {}
ASSUME CountAssumption == {SpriteCount, ChannelCount} \subseteq Nat \ {0}

VARIABLES
    pc,
    held,       \* what the session has: libraries, screen, memory, ...
    timers,     \* the owner of each CIA timer: "free", "other" or "session"
    resource,   \* exclusive_cia_resource: "ciaa", "ciab" or "none"
    sprites,    \* benchmark_sprite_acquired
    channels,   \* audio_play_started
    showing,    \* the sprites the display fetches
    busy,       \* the blitter runs
    fast,       \* fast_matrix_active
    measured,   \* measurements_complete
    failure,    \* failure # NULL
    report      \* the line that ends the report: "none", "fail" or "pass"

vars == <<pc, held, timers, resource, sprites, channels, showing, busy, fast,
          measured, failure, report>>

CIAs == {"ciaa", "ciab"}
Timers == CIAs \X {"A", "B"}
-----------------------------------------------------------------------------
(* Control                                                                 *)

Goto(label) == pc' = label /\ UNCHANGED failure

(* failure = "..."; goto cleanup                                           *)
Fail == pc' = "blitter" /\ failure' = TRUE

(* A check or a request that has no other effect.                          *)
PassTo(label) == Goto(label) \/ Fail

Keep == UNCHANGED <<measured, report>>

Init ==
    /\ pc = "libraries"
    /\ held = {"cache"}         \* CacheControl
    /\ timers \in [Timers -> {"free", "other"}]
    /\ resource = "none"
    /\ sprites = {} /\ channels = {} /\ showing = {}
    /\ busy = FALSE /\ fast = FALSE
    /\ measured = FALSE /\ failure = FALSE
    /\ report = "none"

(* Both libraries are asked for before either answer is looked at; then    *)
(* the chip revision and the timer device, which is closed again.          *)
OpenLibraries ==
    /\ pc = "libraries"
    /\ \E got \in SUBSET {"graphics", "intuition"} :
          /\ held' = held \cup got
          /\ IF got = {"graphics", "intuition"} THEN PassTo("ciaa") ELSE Fail
    /\ Keep
    /\ UNCHANGED <<timers, resource, sprites, channels, showing, busy, fast>>

(* Mutant: timer A is kept when timer B is refused.                        *)
MutantWithoutPair(cia) ==
    IF timers[<<cia, "A">>] = "free"
    THEN [timers EXCEPT ![<<cia, "A">>] = "session"] ELSE timers

(* What is left when one timer of the pair is refused.                     *)
WithoutPair(cia) == timers

(* acquire_cia_timer_pair_from, between Disable() and Enable().            *)
AcquireTimers(cia) ==
    /\ pc = cia
    /\ IF \A t \in {"A", "B"} : timers[<<cia, t>>] = "free"
       THEN /\ timers' = [timers EXCEPT ![<<cia, "A">>] = "session",
                                        ![<<cia, "B">>] = "session"]
            /\ resource' = cia
            /\ Goto("screen")
       ELSE /\ timers' = WithoutPair(cia)
            /\ UNCHANGED resource
            /\ IF cia = "ciaa" THEN Goto("ciab") ELSE Fail
    /\ Keep
    /\ UNCHANGED <<held, sprites, channels, showing, busy, fast>>

OpenScreen ==
    /\ pc = "screen"
    /\ \/ held' = held \cup {"screen"} /\ PassTo("chip")
       \/ UNCHANGED held /\ Fail
    /\ Keep
    /\ UNCHANGED <<timers, resource, sprites, channels, showing, busy, fast>>

AllocateChip ==
    /\ pc = "chip"
    /\ \E got \in SUBSET ChipBlocks :
          /\ held' = held \cup got
          /\ IF got = ChipBlocks THEN PassTo("fast") ELSE Fail
    /\ Keep
    /\ UNCHANGED <<timers, resource, sprites, channels, showing, busy, fast>>

(* If the machine has fast memory: all of the blocks, or those that were   *)
(* to be had are freed again.  The stack is then in chip memory.           *)
AllocateFast ==
    /\ pc = "fast"
    /\ \E got \in SUBSET FastBlocks :
          /\ fast' = (got = FastBlocks)
          /\ held' = IF fast' THEN held \cup got ELSE held
    /\ Goto("stack")
    /\ Keep
    /\ UNCHANGED <<timers, resource, sprites, channels, showing, busy>>

AllocateStack ==
    /\ pc = "stack"
    /\ \/ /\ held' = held \cup {"stack"}
          /\ PassTo("sprites")  \* memory type, oracles, stack guards
       \/ /\ "stack" \notin held
          /\ UNCHANGED held
          /\ Fail
    /\ Keep
    /\ UNCHANGED <<timers, resource, sprites, channels, showing, busy, fast>>

(* Mutant: a sprite counts as acquired only when all is well with it.      *)
MutantTaken(s, good) == IF good THEN {s} ELSE {}

Taken(s, good) == {s}

(* One round of start_sprite_load: the sprite is the session's before its  *)
(* image is set and checked.                                               *)
StartSprite ==
    /\ pc = "sprites"
    /\ LET s == Cardinality(sprites) + 1
       IN  \/ \E good \in BOOLEAN :
                 /\ showing' = showing \cup {s}
                 /\ sprites' = sprites \cup Taken(s, good)
                 /\ IF ~good THEN Fail
                    ELSE Goto(IF s = SpriteCount THEN "audio" ELSE "sprites")
           \/ Fail /\ UNCHANGED <<sprites, showing>>
    /\ Keep
    /\ UNCHANGED <<held, timers, resource, channels, busy, fast>>

(* start_audio_load: port, request and device one after the other ...      *)
OpenAudio ==
    /\ pc = "audio"
    /\ \E got \in {{}, {"port"}, {"port", "request"},
                   {"port", "request", "device"}} :
          /\ held' = held \cup got
          /\ IF "device" \in got THEN PassTo("channels") ELSE Fail
    /\ Keep
    /\ UNCHANGED <<timers, resource, sprites, channels, showing, busy, fast>>

(* ... then all channels, whose DMA must have started.                     *)
StartChannels ==
    /\ pc = "channels"
    /\ channels' = 1 .. ChannelCount
    /\ PassTo("own")
    /\ Keep
    /\ UNCHANGED <<held, timers, resource, sprites, showing, busy, fast>>

OwnBlitter ==
    /\ pc = "own"
    /\ held' = held \cup {"blitter"}
    /\ PassTo("suite")          \* the initial DMA state
    /\ Keep
    /\ UNCHANGED <<timers, resource, sprites, channels, showing, busy, fast>>

(* run_on_dedicated_stack and the checks after it.  A suite that fails may *)
(* leave a blit running.                                                   *)
RunSuite ==
    /\ pc = "suite"
    /\ \/ Goto("blitter") /\ measured' = TRUE /\ UNCHANGED busy
       \/ Fail /\ UNCHANGED measured /\ busy' \in BOOLEAN
    /\ UNCHANGED <<held, timers, resource, sprites, channels, showing, fast,
                   report>>

BlitEnds ==
    /\ busy
    /\ busy' = FALSE
    /\ UNCHANGED <<pc, held, timers, resource, sprites, channels, showing,
                   fast, measured, failure, report>>
-----------------------------------------------------------------------------
(* cleanup                                                                 *)

(* Mutant: the blitter is given back without waiting for it.               *)
MutantBlitDone == TRUE

BlitDone == "blitter" \in held => ~busy

(* WaitBlit, DisownBlitter                                                 *)
DisownBlitter ==
    /\ pc = "blitter" /\ BlitDone
    /\ held' = held \ {"blitter"}
    /\ Goto("loads")
    /\ Keep
    /\ UNCHANGED <<timers, resource, sprites, channels, showing, busy, fast>>

(* stop_audio_load and stop_sprite_load; two frames later the display has  *)
(* forgotten the sprites.                                                  *)
StopLoads ==
    /\ pc = "loads"
    /\ channels' = {}
    /\ held' = held \ {"port", "request", "device"}
    /\ sprites' = {}
    /\ showing' = showing \ sprites
    /\ Goto("timers")
    /\ Keep
    /\ UNCHANGED <<timers, resource, busy, fast>>

(* release_exclusive_timer                                                 *)
ReleaseTimers ==
    /\ pc = "timers"
    /\ timers' = [t \in Timers |-> IF t[1] = resource THEN "free"
                                   ELSE timers[t]]
    /\ resource' = "none"
    /\ Goto("close")
    /\ Keep
    /\ UNCHANGED <<held, sprites, channels, showing, busy, fast>>

(* Fast memory, stack and blitter memory, then the screen, which may       *)
(* refuse to be closed; a second failure does not replace the first.       *)
CloseScreen ==
    /\ pc = "close"
    /\ LET rest == held \ (FastBlocks \cup {"blitter_memory"})
       IN  \/ held' = rest \ {"screen"} /\ Goto("memory")
           \/ /\ "screen" \in rest
              /\ held' = rest
              /\ failure' = TRUE /\ pc' = "memory"
    /\ Keep
    /\ UNCHANGED <<timers, resource, sprites, channels, showing, busy, fast>>

(* The other memory, the libraries, the instruction cache.                 *)
FreeMemory ==
    /\ pc = "memory"
    /\ held' = held \ (ChipBlocks \cup {"graphics", "intuition", "cache"})
    /\ Goto("report")
    /\ Keep
    /\ UNCHANGED <<timers, resource, sprites, channels, showing, busy, fast>>

(* Mutant: the report only looks at whether the suite has run.             *)
MutantPasses == measured

Passes == ~failure /\ measured

(* The report; writing it may fail, which makes it a report of a failure.  *)
WriteReport ==
    /\ pc = "report"
    /\ report' \in IF Passes THEN {"pass", "fail"} ELSE {"fail"}
    /\ pc' = "done"
    /\ UNCHANGED <<held, timers, resource, sprites, channels, showing, busy,
                   fast, measured, failure>>

(* Other programs take timers and give them back.                          *)
OthersUseTimer(t) ==
    /\ pc # "done"
    /\ timers[t] # "session"
    /\ timers' = [timers EXCEPT ![t] = IF @ = "free" THEN "other" ELSE "free"]
    /\ UNCHANGED <<pc, held, resource, sprites, channels, showing, busy,
                   fast, measured, failure, report>>

Program ==
    \/ OpenLibraries \/ (\E cia \in CIAs : AcquireTimers(cia))
    \/ OpenScreen \/ AllocateChip \/ AllocateFast \/ AllocateStack
    \/ StartSprite \/ OpenAudio \/ StartChannels \/ OwnBlitter \/ RunSuite
    \/ DisownBlitter \/ StopLoads \/ ReleaseTimers \/ CloseScreen
    \/ FreeMemory \/ WriteReport

Next == Program \/ BlitEnds \/ \E t \in Timers : OthersUseTimer(t)

Spec == Init /\ [][Next]_vars
-----------------------------------------------------------------------------
(* Properties                                                              *)

(* As long as a part of the hardware reads or writes memory of the         *)
(* session, the session has not freed it, whatever failed on the way: the  *)
(* order of `cleanup'.                                                     *)
DmaMemoryHeld ==
    /\ busy => "blitter_memory" \in held
    /\ channels # {} => "audio_sample" \in held
    /\ showing # {} => "sprite_data" \in held

(* A session that is over has given back all that it took but the screen, *)
(* if the system has refused to close it: then the report says so.         *)
AllReturned ==
    pc = "done" =>
        /\ held \subseteq {"screen"}
        /\ held # {} => report = "fail"
        /\ sprites = {} /\ channels = {} /\ showing = {} /\ ~busy
        /\ \A t \in Timers : timers[t] # "session"

(* The suite runs with all of the fast memory or none of it, and a report  *)
(* that ends in "pass" follows a suite that passed and a cleanup without   *)
(* failure.                                                                *)
ReportSound ==
    /\ pc = "suite" => /\ fast <=> FastBlocks \ {"stack"} \subseteq held
                       /\ ~fast => held \cap FastBlocks = {"stack"}
    /\ report = "pass" => measured /\ ~failure /\ held = {}
=============================================================================
