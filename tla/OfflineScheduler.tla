--------------------------- MODULE OfflineScheduler ---------------------------
(***************************************************************************)
(* firmware/main/playlist/offline/scheduler.c: the task that walks the SD  *)
(* card and plays the media file whose index is state.next, the web        *)
(* server's next / prev / random buttons, and the shutdown by the playlist *)
(* downloader; with the stream scheduler it drives.                        *)
(*                                                                         *)
(* The player is reduced to what Player.tla shows of it: a play ends by    *)
(* itself or because of player_stop, a stop request may be lost, and both  *)
(* player_start and player_stop may never return (StopReturns).            *)
(***************************************************************************)
EXTENDS StreamScheduler

CONSTANTS
    Buttons,        \* buttons pressed: subset of {"next", "prev", "random"}
    MaxMediafiles,  \* OFFLINE_SCHEDULER_MAX_MEDIAFILES
    Shutdown        \* whether the downloader may call offline_scheduler_deinit

ASSUME ButtonsAssumption == Buttons \subseteq {"next", "prev", "random"}
ASSUME MaxMediafilesAssumption == MaxMediafiles \in 1..65534
ASSUME ShutdownAssumption == Shutdown \in BOOLEAN

VARIABLES
    current, next, total,  \* state.current, state.next, state.total
    mutex,      \* state.mutex: "free", "web", or "deleted"
    stop_flag,
    random,     \* config_random()
    task,       \* the scheduler task: next step
    index,      \* the scheduler task: file its walk is at
    web,        \* the web server's task: next step
    deinit,     \* the downloader's task: next step
    started,    \* ghost: the scheduler has turned to a first file
    turned      \* ghost: prev or random has been pressed

schedVars == <<current, next, total, mutex, stop_flag, random, task, index, web,
               deinit, started, turned>>
vars == <<streamVars, schedVars>>

TypeOK ==
    /\ list \in Lists /\ dead \in Lists
    /\ initialized \in BOOLEAN /\ sema \in 0..1 /\ owed \in BOOLEAN
    /\ probing \in {"off", "wifi", "walk", "rest", "fault"} /\ pindex \in 0..Total
    /\ total \in {0, Total} /\ current \in 0..Total
    /\ next \in 0..Total \union {65535}
    /\ mutex \in {"free", "web", "deleted"}
    /\ stop_flag \in BOOLEAN /\ random \in BOOLEAN
    /\ started \in BOOLEAN /\ turned \in BOOLEAN
    /\ task \in {"scan", "publish", "loop", "walk", "lock", "decide", "play",
                 "exit", "dead", "off"}
    /\ index \in 0..Total
    /\ web \in {"idle", "stop", "unlock"}
    /\ deinit \in {"idle", "stop", "done"}

\* offline_scheduler_init has run: the mutex exists, the task is created, and
\* config_random() is what was saved last.
Init ==
    /\ StreamInit
    /\ current = 0 /\ next = 0 /\ total = 0
    /\ mutex = "free" /\ stop_flag = FALSE /\ random \in BOOLEAN
    /\ task = "scan" /\ index = 0 /\ web = "idle" /\ deinit = "idle"
    /\ started = FALSE /\ turned = random

-------------------------------------------------------------------------------
(* scheduler_thread.                                                       *)

\* opendir fails: the task ends, state.thread_handle stays set.
NoCard ==
    /\ task = "scan" /\ index = 0 /\ task' = "dead"
    /\ UNCHANGED <<streamVars, current, next, total, mutex, stop_flag, random,
                   index, web, deinit, started, turned>>

\* The first walk of recurse_dir counts the files; mediafile_enum_func makes the
\* stream playlists known.
ScanFile ==
    /\ task = "scan" /\ index < Total
    /\ index' = index + 1
    /\ IF index \in Streams THEN AddStream(index) ELSE UNCHANGED streamVars
    /\ UNCHANGED <<current, next, total, mutex, stop_flag, random, task, web,
                   deinit, started, turned>>

ScanDone ==
    /\ task = "scan" /\ index = Total
    /\ StartProbing
    /\ task' = IF Total > 0 /\ Total < MaxMediafiles THEN "publish" ELSE "exit"
    /\ UNCHANGED <<current, next, total, mutex, stop_flag, random, index, web,
                   deinit, started, turned>>

\* random_next after random_init(total - 1): some index below total - 1.
RandomNext(max) == IF max = 0 THEN {0} ELSE 0..(max - 1)

Publish ==
    /\ task = "publish" /\ mutex = "free"
    /\ total' = Total
    /\ next' \in (IF random THEN RandomNext(Total - 1) ELSE {next})
    /\ task' = "loop"
    /\ UNCHANGED <<streamVars, current, mutex, stop_flag, random, index, web,
                   deinit, started, turned>>

Loop_KeepsIndex ==
    /\ task = "loop"
    /\ task' = IF stop_flag THEN "exit" ELSE "walk"
    /\ UNCHANGED <<streamVars, current, next, total, mutex, stop_flag, random, index,
                   web, deinit, started, turned>>

Loop_IgnoresStop ==
    /\ task = "loop" /\ task' = "walk"
    /\ index' = 0
    /\ UNCHANGED <<streamVars, current, next, total, mutex, stop_flag, random, web,
                   deinit, started, turned>>

Loop ==
    /\ task = "loop"
    /\ task' = IF stop_flag THEN "exit" ELSE "walk"
    /\ index' = 0
    /\ UNCHANGED <<streamVars, current, next, total, mutex, stop_flag, random, web,
                   deinit, started, turned>>

NextFile == index' = index + 1

\* on_medifile_callback for the file at index: state.next is read unlocked.
Visit ==
    /\ task = "walk"
    /\ IF index = Total THEN task' = "loop" /\ UNCHANGED index
       ELSE IF stop_flag \/ index # next THEN NextFile /\ UNCHANGED task
       ELSE task' = "lock" /\ UNCHANGED index
    /\ UNCHANGED <<streamVars, current, next, total, mutex, stop_flag, random, web,
                   deinit, started, turned>>

Lock_NoWrap ==
    /\ task = "lock" /\ mutex = "free"
    /\ current' = index
    /\ next' \in (IF random THEN RandomNext(total - 1) ELSE {index + 1})
    /\ task' = "decide" /\ started' = TRUE
    /\ UNCHANGED <<streamVars, total, mutex, stop_flag, random, index, web, deinit,
                   turned>>

Lock ==
    /\ task = "lock" /\ mutex = "free"
    /\ current' = index
    /\ next' \in (IF random THEN RandomNext(total - 1)
                  ELSE IF next >= total - 1 THEN {0}
                  ELSE {index + 1})
    /\ task' = "decide" /\ started' = TRUE
    /\ UNCHANGED <<streamVars, total, mutex, stop_flag, random, index, web, deinit,
                   turned>>

MayPlay ==
    IF stream_scheduler_is_known_stream(index)
    THEN stream_scheduler_is_alive(index)
    ELSE ~stream_scheduler_any_alive_streams

Decide ==
    /\ task = "decide"
    /\ IF MayPlay THEN task' = "play" /\ UNCHANGED index
                  ELSE task' = "walk" /\ NextFile
    /\ UNCHANGED <<streamVars, current, next, total, mutex, stop_flag, random, web,
                   deinit, started, turned>>

\* player_start returns: a stream that was played is marked by the result.
PlayReturns(ok) ==
    /\ task' = "walk" /\ NextFile
    /\ IF stream_scheduler_is_known_stream(index)
       THEN IF ok THEN mark_alive(index) ELSE mark_dead(index)
       ELSE UNCHANGED dead

PlayEnds ==
    /\ task = "play"
    /\ \E ok \in BOOLEAN : PlayReturns(ok)
    /\ UNCHANGED <<list, initialized, sema, probing, pindex, owed, current, next,
                   total, mutex, stop_flag, random, web, deinit, started, turned>>

\* A stream breaks off or fails to start: the player calls the error callback.
StreamError ==
    /\ task = "play" /\ index \in Streams
    /\ ForceProbe
    /\ UNCHANGED schedVars

\* The task ends: the stream scheduler is shut down, the mutex deleted and the
\* state zeroed.
Exit ==
    /\ task = "exit" /\ task' = "off"
    /\ StreamDeinit
    /\ mutex' = "deleted" /\ current' = 0 /\ next' = 0 /\ total' = 0
    /\ UNCHANGED <<stop_flag, random, index, web, deinit, started, turned>>

\* Everything of the task but the return of player_start, which need not come: a
\* stream may be endless, read_ahead_next may wait for ever, and player_start's own
\* player_stop may miss the end of the play before.
TaskStep ==
    ScanFile \/ ScanDone \/ Publish \/ Loop \/ Visit \/ Lock \/ Decide \/ Exit

-------------------------------------------------------------------------------
(* player_stop, as seen from here: the play in progress ends, or the       *)
(* request is lost (or there is nothing to stop).                          *)

StopPlay ==
    \/ /\ task = "play" /\ PlayReturns(TRUE)
       /\ UNCHANGED <<list, initialized, sema, probing, pindex, owed>>
    \/ UNCHANGED <<streamVars, task, index>>

(* The web server's task.                                                  *)

\* offline_scheduler_next / _prev: uint16_t arithmetic, promoted to int.
PressNext ==
    /\ "next" \in Buttons /\ web = "idle" /\ mutex = "free"
    /\ mutex' = "web" /\ web' = "stop"
    /\ next' = IF current + 1 >= total THEN 0 ELSE current + 1
    /\ UNCHANGED <<streamVars, current, total, stop_flag, random, task, index,
                   deinit, started, turned>>

PressPrev ==
    /\ "prev" \in Buttons /\ web = "idle" /\ mutex = "free"
    /\ mutex' = "web" /\ web' = "stop"
    /\ next' = IF current = 0 THEN (total + 65535) % 65536 ELSE current - 1
    /\ turned' = TRUE
    /\ UNCHANGED <<streamVars, current, total, stop_flag, random, task, index,
                   deinit, started>>

WebStop ==
    /\ web = "stop" /\ web' = "unlock"
    /\ StopPlay
    /\ UNCHANGED <<current, next, total, mutex, stop_flag, random, deinit, started, turned>>

\* xSemaphoreGive; the handle may have been deleted meanwhile.
WebUnlock ==
    /\ web = "unlock" /\ web' = "idle"
    /\ mutex' = IF mutex = "deleted" THEN mutex ELSE "free"
    /\ UNCHANGED <<streamVars, current, next, total, stop_flag, random, task, index,
                   deinit, started, turned>>

PressRandom ==
    /\ "random" \in Buttons /\ web = "idle"
    /\ random' = ~random
    /\ turned' = TRUE
    /\ UNCHANGED <<streamVars, current, next, total, mutex, stop_flag, task, index,
                   web, deinit, started>>

(* offline_scheduler_deinit, called by the playlist downloader.            *)

\* It does nothing once the task has ended and cleared its handle.
Deinit ==
    /\ Shutdown /\ deinit = "idle" /\ task # "off"
    /\ stop_flag' = TRUE /\ deinit' = "stop"
    /\ UNCHANGED <<streamVars, current, next, total, mutex, random, task, index, web,
                   started, turned>>

DeinitStop ==
    /\ deinit = "stop" /\ deinit' = "done"
    /\ StopPlay
    /\ UNCHANGED <<current, next, total, mutex, stop_flag, random, web, started, turned>>

-------------------------------------------------------------------------------

Probing == (ProbeConnected \/ ProbeFaults \/ ProbeStep \/ ProbeTimeout) /\ UNCHANGED schedVars

Next ==
    \/ NoCard \/ TaskStep \/ PlayEnds \/ StreamError
    \/ PressNext \/ PressPrev \/ PressRandom \/ WebStop \/ WebUnlock
    \/ Deinit \/ DeinitStop
    \/ Probing

Spec == Init /\ [][Next]_vars

\* FreeRTOS runs every ready task, and wakes a task that waits for the mutex when
\* the mutex is given (hence the strong fairness of TaskStep); nobody has to press
\* a button, no call of player_start or player_stop has to return (PlayEnds,
\* WebStop, DeinitStop), the network need not come up.
FairSpec ==
    /\ Spec
    /\ SF_vars(TaskStep)
    /\ WF_vars(WebUnlock)
    /\ WF_vars(ProbeStep /\ UNCHANGED schedVars)

-------------------------------------------------------------------------------
(* Properties.                                                             *)

Files == (0..(Total - 1)) \ Streams
Copies(l, v) == Cardinality({i \in DOMAIN l : l[i] = v})
Ended == task \in {"dead", "off"}

\* Without prev and random, state.next is always the file after state.current,
\* around the end, however the next button interleaves with the unlocked read of
\* state.next and the update under the mutex: next never skips two files.
\* With exactly two files there is an exception (OfflineSchedulerProofs): a button
\* pressed between the task's look at the first file and its lock makes that file play
\* twice.
NextFollowsCurrent ==
    started /\ ~turned /\ ~Ended => next = (current + 1) % total

\* A stream that answered its probe is alive, however many times it had been
\* recorded as dead before.
AliveMeansAlive ==
    [][\A v \in Streams :
          Copies(dead', v) < Copies(dead, v) => Copies(dead', v) = 0]_vars

\* The calls of the player that never return, by the hang of player_stop that
\* Player!StopReturns names or because a play goes on for ever: the scheduler inside
\* player_start, the web server inside player_stop with state.mutex held.
StartHangs == <>[](task = "play")
ButtonHangs == <>[](web = "stop")

\* Once some stream stays dead, and as long as the player's calls return, every
\* media file gets its turn again and again, however often next is pressed (prev
\* and random are not).
EveryFilePlayed ==
    \A i \in Files :
        \/ <>turned \/ <>[]Ended
        \/ []<>stream_scheduler_any_alive_streams
        \/ StartHangs \/ ButtonHangs
        \/ []<>(task = "play" /\ index = i)

\* A stream error forces a probe of the streams "regardless of retries", also when
\* the probe task is in the middle of a walk: the walk that began before the error
\* does not swallow the request.  It does so wherever there is a probe task that has
\* come past its wait for the network.
ErrorForcesProbe == owed ~> (~owed \/ probing \in {"wifi", "off", "fault"})

\* What makes it so, in every state: once stream_scheduler_init has made the semaphore, a
\* request stands as a token in it, which no end of a walk and no time-out takes away, until
\* a walk begins.
RequestKept == owed /\ initialized => sema = 1

\* After offline_scheduler_deinit the task ends, whatever its caller's player_stop
\* does, unless the task itself or a button never comes back from the player.
DeinitEnds == (stop_flag ~> Ended) \/ StartHangs \/ ButtonHangs

===============================================================================
