--------------------------- MODULE OfflinePlayback ----------------------------
(***************************************************************************)
(* The offline scheduler's buttons against the real player: Player.tla     *)
(* with its starter driven by on_medifile_callback and its stopper by      *)
(* offline_scheduler_next / offline_scheduler_prev, which hold             *)
(* state.mutex of offline/scheduler.c while they wait in player_stop.      *)
(* The order of the files is OfflineScheduler.tla's business; here a track *)
(* is only told from the one before and the one after.                     *)
(***************************************************************************)
EXTENDS Player

CONSTANT Web   \* the web server's task

ASSUME WebAssumption == Stoppers = {Web} /\ Web # NULL

VARIABLES
    smutex,   \* holder of the scheduler's state.mutex, NULL if free
    sched,    \* the scheduler task: "walk", "start" or "starting"
    press,    \* the web server's task: "idle", "stop", "stopping", "unlock"
    track,    \* state.current, modulo 3
    pressed   \* ghost: the track at the last press

glueVars == <<smutex, sched, press, track, pressed>>
playbackVars == <<vars, glueVars>>

PlaybackInit ==
    /\ Init
    /\ smutex = NULL /\ sched = "walk" /\ press = "idle" /\ track = 0 /\ pressed = 0

\* on_medifile_callback: under the mutex, state.current moves on.
TurnToTrack ==
    /\ sched = "walk" /\ smutex = NULL
    /\ sched' = "start" /\ track' = (track + 1) % 3
    /\ UNCHANGED <<vars, smutex, press, pressed>>

\* play: player_start is entered, and stops a player that is still PLAYING ...
StartTrack ==
    /\ sched = "start" /\ sched' = "starting"
    /\ StartCall \/ StopCall(Starter)
    /\ UNCHANGED <<smutex, press, track, pressed>>

\* ... and goes its way until it returns.
TrackContinues ==
    /\ sched = "starting"
    /\ StartAlloc \/ StartClear \/ StartSend \/ PlayerStop(Starter)
    /\ UNCHANGED glueVars

TrackReturns ==
    /\ sched = "starting" /\ sched' = "walk"
    /\ StartReceive \/ StartRefused
    /\ UNCHANGED <<smutex, press, track, pressed>>

\* The button: take the mutex, store the new state.next ...
Press_Unlocked ==
    /\ press = "idle" /\ smutex = NULL
    /\ press' = "stop" /\ pressed' = track
    /\ UNCHANGED <<vars, smutex, sched, track>>

Press ==
    /\ press = "idle" /\ smutex = NULL
    /\ smutex' = Web /\ press' = "stop" /\ pressed' = track
    /\ UNCHANGED <<vars, sched, track>>

\* ... call player_stop, which returns at once if the player is STOPPED ...
PressFindsStopped ==
    /\ press = "stop" /\ state = "STOPPED"
    /\ press' = "unlock"
    /\ UNCHANGED <<vars, smutex, sched, track, pressed>>

PressStops ==
    /\ press = "stop" /\ press' = "stopping"
    /\ StopCall(Web)
    /\ UNCHANGED <<smutex, sched, track, pressed>>

PressContinues ==
    /\ PlayerStop(Web)
    /\ press' = IF pc'[Web] = "idle" THEN "unlock" ELSE press
    /\ UNCHANGED <<smutex, sched, track, pressed>>

\* ... and give the mutex back.
PressUnlocks ==
    /\ press = "unlock" /\ press' = "idle"
    /\ smutex' = NULL
    /\ UNCHANGED <<vars, sched, track, pressed>>

SchedulerStep == TurnToTrack \/ StartTrack \/ TrackContinues \/ TrackReturns
WebStep == PressFindsStopped \/ PressStops \/ PressContinues \/ PressUnlocks
PlayerAlone == PlayerStep /\ UNCHANGED glueVars

PlaybackNext ==
    \/ SchedulerStep \/ Press \/ WebStep
    \/ PlayerAlone
    \/ (StreamEnds \/ ControlWakes \/ ControlReports \/ ProbeTaken) /\ UNCHANGED glueVars

PlaybackSpec == PlaybackInit /\ [][PlaybackNext]_playbackVars

\* As in Player.tla; a task that waits for the mutex is woken when it is given.
FairPlaybackSpec ==
    /\ PlaybackSpec
    /\ SF_playbackVars(SchedulerStep) /\ WF_playbackVars(WebStep)
    /\ WF_playbackVars(PlayerAlone)

\* Because next and prev hold state.mutex until player_stop returns, the track they
\* cut off is the one that was current when the button was pressed, never the track
\* after it, although PLAYER_STOP carries no identity.
StopHitsItsTrack ==
    [][ReadStop => press = "stopping" /\ track = pressed]_playbackVars

\* offline/scheduler.c:87 "this will force skip to the next track in
\* scheduler_thread": a button pressed during a play leads to another track (or the
\* player task was lost in read_ahead_next).
PressForcesSkip ==
    \A k \in 0..2 :
        (press = "stop" /\ state = "PLAYING" /\ track = k) ~> (track # k \/ ppc = "starved")

===============================================================================
