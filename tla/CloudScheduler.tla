---------------------------- MODULE CloudScheduler ----------------------------
(***************************************************************************)
(* playlist/cloud/scheduler.c: the task that walks the playlist and plays  *)
(* its background tracks, the seconds timer that interrupts it for         *)
(* advertising through a queue of one pointer, and the task that starts    *)
(* and stops both.  The player is PlayService, which Player.tla            *)
(* implements.  player_stop takes any time to return, or for ever, and     *)
(* promises nothing: it may come too early for the play, be woken by       *)
(* another change of state, or miss the last one, as Player.tla shows in   *)
(* detail; a play ends at any time anyway, or never.                       *)
(* Who may call init and deinit, and when, is CloudSync.tla's part.        *)
(***************************************************************************)
EXTENDS Traverse, FiniteSets

CONSTANTS
    Documents,  \* playlists the server may send
    Walked,     \* those of them whose playback is explored, the rest is only parsed
    Missing,    \* files that are not on the card
    Nows,       \* [date, time] the clock may show when the timer expires
    MaxStarts,  \* bound: calls of cloud_scheduler_init
    LateExit,   \* the 50 ms after STOPPED_BIT may be too short for the task to end
    SlowTimer   \* the timer task may be held up in its callback over a restart

ASSUME SchedulerAssumption ==
    /\ \A d \in Documents : IsDocument(d)
    /\ Walked \subseteq Documents /\ MaxStarts \in Nat \ {0}
    /\ {LateExit, SlowTimer} \subseteq BOOLEAN

VARIABLES
    doc,       \* the document the server sent
    tracks,    \* what traverse_playlist hands out from playlist.json
    bits,      \* event_group
    handle,    \* thread_handle # NULL
    timer,     \* seconds_timer is active
    commands,  \* start and stop commands the timer task has not processed
    queue,     \* next_track_override_queue: whether it exists, and its one slot
    ads,       \* advertising.c: the heap blocks of the tracks, by generation
    thread,    \* scheduler_thread: step and track of the walk
    override,  \* next_override
    late,      \* a task that has set STOPPED_BIT but not yet thread_handle = NULL
    callback,  \* seconds_timer_callback: step and ad_now
    boss,      \* the task that calls init and deinit
    starts,    \* calls of init
    quiet,     \* ghost: deinit has returned and init was not called since
    stage, name, shown   \* PlayService

playerVars == <<stage, name, shown>>
bossVars == <<boss, starts, quiet, handle, bits, commands>>
docVars == <<doc, tracks>>
taskVars == <<queue, ads, thread, override, late>>
timerVars == <<timer, callback>>
vars == <<docVars, bossVars, taskVars, timerVars, playerVars>>

NoQueue == [open |-> FALSE, items |-> <<>>]
EmptyQueue == [open |-> TRUE, items |-> <<>>]
NoAd == [gen |-> 0, index |-> 0]
Nothing == NoFile
Files == {t.file : t \in UNION {Range(d.tracks) : d \in Documents}}

P == INSTANCE PlayService WITH Names <- Files

CloudInit ==
    /\ \E d \in Documents :
          doc = d /\ tracks = TraversePlaylist(ExtractPlaylist(Message(d)))
    /\ bits = {} /\ handle = FALSE /\ timer = FALSE /\ commands = <<>>
    /\ queue = NoQueue /\ ads = [gen |-> 0, tracks |-> <<>>]
    /\ thread = [pc |-> "off", at |-> 0] /\ override = NoAd /\ late = FALSE
    /\ callback = [pc |-> "idle", ad |-> NoAd]
    /\ boss = "idle" /\ starts = 0 /\ quiet = TRUE
    /\ P!Init

(***************************************************************************)
(* cloud_scheduler_init                                                    *)
(***************************************************************************)

TimerQuiet == callback.pc = "idle" /\ commands = <<>>

InitClears_OnlyStop ==
    /\ boss = "idle" /\ boss' = "timer" /\ doc \in Walked
    /\ starts < MaxStarts /\ starts' = starts + 1
    /\ thread.pc = "off" /\ (late => LateExit) /\ (TimerQuiet \/ SlowTimer)
    /\ bits' = bits \ {"STOP"} /\ handle' = FALSE /\ quiet' = FALSE
    /\ UNCHANGED <<docVars, commands, timerVars, taskVars, playerVars>>

\* Called when the task has ended or never ran.
InitClears ==
    /\ boss = "idle" /\ boss' = "timer" /\ doc \in Walked
    /\ starts < MaxStarts /\ starts' = starts + 1
    /\ thread.pc = "off" /\ (late => LateExit) /\ (TimerQuiet \/ SlowTimer)
    /\ bits' = bits \ {"STOP", "STOPPED"} /\ handle' = FALSE /\ quiet' = FALSE
    /\ UNCHANGED <<docVars, commands, timerVars, taskVars, playerVars>>

InitTogglesTimer ==
    /\ boss = "timer" /\ boss' = "create"
    /\ commands' = Append(commands, IF timer THEN "stop" ELSE "start")
    /\ UNCHANGED <<docVars, bits, handle, starts, quiet, timerVars, taskVars, playerVars>>

\* xTaskCreate succeeds or fails.
InitCreates ==
    /\ boss = "create" /\ boss' = "idle"
    /\ \/ handle' = TRUE /\ thread' = [pc |-> "create", at |-> 0]
       \/ UNCHANGED <<handle, thread>>
    /\ UNCHANGED <<docVars, bits, commands, starts, quiet, timerVars, queue, ads, override, late, playerVars>>

(***************************************************************************)
(* cloud_scheduler_deinit                                                  *)
(***************************************************************************)

\* Nothing runs, or so the handle says; otherwise the timer is told to stop.
DeinitBegins ==
    /\ boss = "idle" /\ starts > 0 /\ ~quiet
    /\ IF handle
       THEN /\ boss' = "stop"
            /\ commands' = IF timer THEN Append(commands, "stop") ELSE commands
            /\ UNCHANGED quiet
       ELSE quiet' = TRUE /\ UNCHANGED <<boss, commands>>
    /\ UNCHANGED <<docVars, bits, handle, starts, timerVars, taskVars, playerVars>>

\* player_stop returns.
DeinitStopsPlayer ==
    /\ boss = "stop" /\ boss' = "bit"
    /\ UNCHANGED <<docVars, bits, handle, commands, starts, quiet, timerVars, taskVars, playerVars>>

DeinitSetsStop ==
    /\ boss = "bit" /\ boss' = "await"
    /\ bits' = bits \cup {"STOP"}
    /\ UNCHANGED <<docVars, handle, commands, starts, quiet, timerVars, taskVars, playerVars>>

\* xEventGroupWaitBits clears the bit ...
DeinitAwaits ==
    /\ boss = "await" /\ "STOPPED" \in bits /\ boss' = "delay"
    /\ bits' = bits \ {"STOPPED"}
    /\ UNCHANGED <<docVars, handle, commands, starts, quiet, timerVars, taskVars, playerVars>>

\* ... and 50 ms later the task is believed to be dead.
DeinitReturns ==
    /\ boss = "delay" /\ (late => LateExit)
    /\ boss' = "idle" /\ quiet' = TRUE
    /\ UNCHANGED <<docVars, bits, handle, commands, starts, timerVars, taskVars, playerVars>>

BossStep ==
    \/ InitTogglesTimer \/ InitCreates
    \/ DeinitStopsPlayer \/ DeinitSetsStop \/ DeinitAwaits \/ DeinitReturns

(***************************************************************************)
(* scheduler_thread                                                        *)
(***************************************************************************)

Stopping == "STOP" \in bits
Goto(pc) == thread' = [thread EXCEPT !.pc = pc]

\* Without memory for a queue there are no interruptions.
ThreadCreatesQueue ==
    /\ thread.pc = "create" /\ Goto("load")
    /\ queue' \in {EmptyQueue, NoQueue}
    /\ UNCHANGED <<docVars, bossVars, timerVars, ads, override, late, playerVars>>

LoadAds == ads' = [gen |-> (ads.gen + 1) % 3, tracks |-> AdvertisingTracks(tracks)]

\* advertising_init; if the playlist cannot be opened there is no advertising.
ThreadLoadsAds ==
    /\ thread.pc = "load" /\ Goto("loop")
    /\ LoadAds \/ ads' = [gen |-> (ads.gen + 1) % 3, tracks |-> <<>>]
    /\ UNCHANGED <<docVars, bossVars, timerVars, queue, override, late, playerVars>>

ThreadOpens_Reloads ==
    /\ thread.pc = "loop" /\ ~Stopping
    /\ thread' = [pc |-> "walk", at |-> 1]
    /\ LoadAds
    /\ UNCHANGED <<docVars, bossVars, timerVars, queue, override, late, playerVars>>

\* The loop of the task: the next walk over the playlist ...
ThreadOpens ==
    /\ thread.pc = "loop" /\ ~Stopping
    /\ thread' = [pc |-> "walk", at |-> 1]
    /\ UNCHANGED <<docVars, bossVars, timerVars, queue, ads, override, late, playerVars>>

\* ... unless it is to stop, or the file cannot be opened.
ThreadLeavesLoop ==
    /\ thread.pc = "loop" /\ Goto("free")
    /\ UNCHANGED <<docVars, bossVars, timerVars, queue, ads, override, late, playerVars>>

\* on_file_parse_callback returns false, or the playlist is at its end.
ThreadEndsWalk ==
    /\ thread.pc \in {"walk", "check"} /\ (Stopping \/ thread.at > Len(tracks))
    /\ thread' = [pc |-> "loop", at |-> 0]
    /\ UNCHANGED <<docVars, bossVars, timerVars, queue, ads, override, late, playerVars>>

ThreadTakesOverride_BeforeBackground ==
    /\ thread.pc = "walk" /\ ~Stopping /\ thread.at <= Len(tracks)
    /\ IF queue.items = <<>> \/ tracks[thread.at].type # "background"
       THEN Goto("check") /\ UNCHANGED <<queue, override>>
       ELSE Goto("ad") /\ override' = queue.items[1] /\ queue' = EmptyQueue
    /\ UNCHANGED <<docVars, bossVars, timerVars, ads, late, playerVars>>

\* on_file_parse_callback: the queue is asked before every track, of any type.
ThreadTakesOverride ==
    /\ thread.pc = "walk" /\ ~Stopping /\ thread.at <= Len(tracks)
    /\ IF queue.items = <<>>
       THEN Goto("check") /\ UNCHANGED <<queue, override>>
       ELSE Goto("ad") /\ override' = queue.items[1] /\ queue' = EmptyQueue
    /\ UNCHANGED <<docVars, bossVars, timerVars, ads, late, playerVars>>

AdFile == ads.tracks[override.index].file

\* play: player_start is called if the file is there.  TRACK_BEGIN and TRACK_END only
\* put messages into the gate's queue.
PlayOrSkip(file, asking, over) ==
    Goto(IF file \in Missing THEN over ELSE asking) /\ UNCHANGED playerVars

\* player_start, which first stops a player that it finds playing and may wait there
\* for ever, hands over the name, or finds it too long or no memory for it.
StartPlay(file, playing, over) ==
    \/ Goto(playing) /\ P!Request /\ name' = file
    \/ Goto(over) /\ UNCHANGED playerVars

ThreadPlaysAd ==
    /\ thread.pc = "ad"
    /\ PlayOrSkip(AdFile, "asking ad", "reset")
    /\ UNCHANGED <<docVars, bossVars, timerVars, queue, ads, override, late>>

AdStarts ==
    /\ thread.pc = "asking ad"
    /\ StartPlay(AdFile, "playing ad", "reset")
    /\ UNCHANGED <<docVars, bossVars, timerVars, queue, ads, override, late>>

AdReturns ==
    /\ thread.pc = "playing ad" /\ Goto("reset")
    /\ P!Return
    /\ UNCHANGED <<docVars, bossVars, timerVars, queue, ads, override, late>>

ThreadResetsQueue_AsksAgain ==
    /\ thread.pc = "reset" /\ Goto("walk")
    /\ override' = NoAd
    /\ UNCHANGED <<docVars, bossVars, timerVars, queue, ads, late, playerVars>>

\* xQueueReset: an advertisement that came due meanwhile is forgotten.
ThreadResetsQueue ==
    /\ thread.pc = "reset" /\ Goto("check")
    /\ queue' = EmptyQueue /\ override' = NoAd
    /\ UNCHANGED <<docVars, bossVars, timerVars, ads, late, playerVars>>

ThreadPlaysTrack ==
    /\ thread.pc = "check" /\ ~Stopping /\ tracks[thread.at].type = "background"
    /\ PlayOrSkip(tracks[thread.at].file, "asking", "next")
    /\ UNCHANGED <<docVars, bossVars, timerVars, queue, ads, override, late>>

TrackStarts ==
    /\ thread.pc = "asking"
    /\ StartPlay(tracks[thread.at].file, "playing", "next")
    /\ UNCHANGED <<docVars, bossVars, timerVars, queue, ads, override, late>>

TrackReturns ==
    /\ thread.pc = "playing" /\ Goto("next")
    /\ P!Return
    /\ UNCHANGED <<docVars, bossVars, timerVars, queue, ads, override, late>>

ThreadSkipsAd ==
    /\ thread.pc = "check" /\ ~Stopping /\ tracks[thread.at].type = "advertising"
    /\ Goto("next")
    /\ UNCHANGED <<docVars, bossVars, timerVars, queue, ads, override, late, playerVars>>

ThreadTurnsToNext ==
    /\ thread.pc = "next" /\ thread' = [pc |-> "walk", at |-> thread.at + 1]
    /\ UNCHANGED <<docVars, bossVars, timerVars, queue, ads, override, late, playerVars>>

\* advertising_deinit, vQueueDelete, STOPPED_BIT ...
ThreadFreesAds ==
    /\ thread.pc = "free" /\ Goto("delete")
    /\ ads' = [ads EXCEPT !.tracks = <<>>]
    /\ UNCHANGED <<docVars, bossVars, timerVars, queue, override, late, playerVars>>

ThreadDeletesQueue ==
    /\ thread.pc = "delete" /\ Goto("stopped")
    /\ queue' = NoQueue
    /\ UNCHANGED <<docVars, bossVars, timerVars, ads, override, late, playerVars>>

ThreadSetsStopped ==
    /\ thread.pc = "stopped" /\ thread' = [pc |-> "off", at |-> 0]
    /\ bits' = bits \cup {"STOPPED"} /\ late' = TRUE
    /\ UNCHANGED <<docVars, boss, starts, quiet, handle, commands, timerVars, queue, ads, override, playerVars>>

\* ... and, for whoever is slow, thread_handle = NULL after that.
ThreadForgetsHandle ==
    /\ late /\ late' = FALSE
    /\ handle' = FALSE
    /\ UNCHANGED <<docVars, boss, starts, quiet, bits, commands, timerVars, queue, ads, thread, override, playerVars>>

ThreadStep ==
    \/ ThreadCreatesQueue \/ ThreadLoadsAds \/ ThreadOpens \/ ThreadLeavesLoop \/ ThreadEndsWalk
    \/ ThreadTakesOverride \/ ThreadPlaysAd \/ AdReturns \/ ThreadResetsQueue
    \/ ThreadPlaysTrack \/ TrackReturns \/ ThreadSkipsAd \/ ThreadTurnsToNext
    \/ ThreadFreesAds \/ ThreadDeletesQueue \/ ThreadSetsStopped \/ ThreadForgetsHandle

(***************************************************************************)
(* The timer task and the player                                           *)
(***************************************************************************)

\* The timer task carries out a command between two callbacks.
TimerObeys ==
    /\ callback.pc = "idle" /\ commands # <<>>
    /\ timer' = (Head(commands) = "start") /\ commands' = Tail(commands)
    /\ UNCHANGED <<docVars, boss, starts, quiet, handle, bits, taskVars, callback, playerVars>>

\* seconds_timer_callback: advertising_now finds a track ...
TimerFindsAd ==
    /\ timer /\ callback.pc = "idle"
    /\ \E now \in Nows :
          LET j == AdvertisingNow(ads.tracks, DateInt(now.date), SecondsInt(now.time))
          IN  j # 0 /\ callback' = [pc |-> "send", ad |-> [gen |-> ads.gen, index |-> j]]
    /\ UNCHANGED <<docVars, bossVars, timer, taskVars, playerVars>>

\* ... puts it into the queue if that is there and empty, without waiting ...
TimerSendsAd ==
    /\ callback.pc = "send" /\ callback' = [callback EXCEPT !.pc = "stop"]
    /\ queue' = IF queue = EmptyQueue THEN [queue EXCEPT !.items = <<callback.ad>>] ELSE queue
    /\ UNCHANGED <<docVars, bossVars, timer, ads, thread, override, late, playerVars>>

\* ... and calls player_stop, which returns or does not.
TimerStopsPlayer ==
    /\ callback.pc = "stop" /\ callback' = [pc |-> "idle", ad |-> NoAd]
    /\ UNCHANGED <<docVars, bossVars, timer, taskVars, playerVars>>

PlayerStep ==
    /\ P!Begin \/ P!Finish
    /\ UNCHANGED <<docVars, bossVars, timerVars, taskVars>>

CloudNext ==
    \/ InitClears \/ DeinitBegins \/ BossStep \/ ThreadStep \/ AdStarts \/ TrackStarts
    \/ TimerObeys \/ TimerFindsAd \/ TimerSendsAd \/ TimerStopsPlayer
    \/ PlayerStep

CloudSpec == CloudInit /\ [][CloudNext]_vars

\* The scheduler's task runs when it can.  Nothing is assumed of the player, of the
\* clock, of the timer or of the tasks that start and stop.
FairCloudSpec == CloudSpec /\ WF_vars(ThreadStep)

(***************************************************************************)
(* Properties                                                              *)
(***************************************************************************)

\* Whatever the order of the members, the parser, which knows no nesting, hands out
\* every track once, with its own name, number, type and schedule, and no more.
TracksAsWritten == tracks = AsWritten(doc)

\* The advertising track that the scheduler took from the queue and plays is a block
\* that advertising.c has not freed, over any number of restarts.
OverrideAlive ==
    thread.pc \in {"ad", "asking ad", "playing ad"} =>
        override.gen = ads.gen /\ override.index \in DOMAIN ads.tracks

\* After cloud_scheduler_deinit has returned, and until the next init, the scheduler
\* plays nothing: neither the walk nor the timer leads to another player_start.
StoppedIsSilent == quiet => thread.pc = "off" /\ stage = "none"

\* cloud_scheduler_deinit, which waits for STOPPED_BIT without a limit, waits for a task
\* that still runs and will set it, or the bit is there: never for one that could not be
\* created, nor for the bit of one that has been waited for already.
DeinitAwaitsTask == boss = "await" => thread.pc # "off" \/ "STOPPED" \in bits

InPlayerStart == thread.pc \in {"asking ad", "playing ad", "asking", "playing"}

Running ==
    /\ InPlayerStart \/ thread.pc \in {"loop", "walk", "ad", "reset", "check", "next"}
    /\ ~Stopping

\* One call of player_start never returns: it misses the signal of the stop it begins
\* with (player.c:382), or the play does not end (FilePlayEnds of Player.tla).
StartHangs == <>[]InPlayerStart

\* Advertising cannot starve the playlist: as long as the scheduler runs and every call
\* of player_start returns, player_start is called again for every background track that
\* is on the card, however often the timer interrupts.
BackgroundPlayed ==
    \A f \in {t.file : t \in UNION {Range(d.tracks) : d \in Walked}} \ Missing :
        \/ StartHangs
        \/ (Running /\ \E i \in DOMAIN tracks : tracks[i].file = f /\ tracks[i].type = "background")
           ~> (~Running \/ (thread.pc = "asking" /\ tracks[thread.at].file = f))

\* An advertisement that the timer queued while no other one was being played is
\* given to player_start, unless the scheduler stops or a call of player_start hangs:
\* on_file_parse_callback asks the queue at every track, and xQueueReset drops only what
\* came during an advertisement.
AdPlayed ==
    \A j \in 1..MaxAds :
        \/ StartHangs
        \/ (Running /\ queue.items # <<>> /\ override = NoAd /\ queue.items[1].index = j
               /\ j \in DOMAIN ads.tracks /\ ads.tracks[j].file \notin Missing)
           ~> (~Running \/ (thread.pc = "asking ad" /\ override.index = j))

===============================================================================
