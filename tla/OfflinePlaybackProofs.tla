------------------------- MODULE OfflinePlaybackProofs ------------------------
(***************************************************************************)
(* Proofs about OfflinePlayback.tla: the buttons against the player, from  *)
(* the player's own invariant (PlayerProofs.tla).                          *)
(***************************************************************************)
EXTENDS OfflinePlayback, PlayerProofs

USE TasksAssumption, WebAssumption
USE DEF vars, sharedVars, playerVars, callerVars, controlVars, Callers, At, Goto, Step

\* Scheduler and web server use the player as Player.tla allows its callers to.
LEMMA PlaybackStepIsPlayers == [PlaybackNext]_playbackVars => [Next]_vars
<1> SUFFICES ASSUME [PlaybackNext]_playbackVars PROVE Next \/ UNCHANGED vars
    BY Zenon
<1>1. Web \in Callers /\ Starter \in Callers
    BY WebAssumption
<1>2. CASE SchedulerStep
    BY <1>1, <1>2, Zenon
       DEF SchedulerStep, TurnToTrack, StartTrack, TrackContinues, TrackReturns, Next,
           PlayerStart
<1>3. CASE Press \/ WebStep
    BY <1>1, <1>3, Zenon
       DEF Press, WebStep, PressFindsStopped, PressStops, PressContinues, PressUnlocks, Next
<1>4. CASE PlayerAlone \/ StreamEnds \/ ControlWakes \/ ControlReports \/ ProbeTaken
    BY <1>4, Zenon DEF PlayerAlone, Next
<1>5. CASE UNCHANGED playbackVars
    BY <1>5 DEF playbackVars
<1> QED BY <1>2, <1>3, <1>4, <1>5, Zenon DEF PlaybackNext

\* So everything proved of the player holds in the composition too.
THEOREM PlaybackUsesPlayer == PlaybackSpec => Spec
<1>1. PlaybackInit => Init
    BY DEF PlaybackInit
<1> QED BY <1>1, PlaybackStepIsPlayers, PTL DEF PlaybackSpec, Spec

\* The web server's task is inside player_stop only while the button is being served, and
\* holds the scheduler's mutex from the press until after that: state.current stands still.
Serving ==
    /\ pc[Web] # "idle" => press = "stopping"
    /\ press # "idle" => smutex = Web /\ track = pressed

\* Every step keeps it.
LEMMA ServingStep ==
    ASSUME TypeOK, Serving, [PlaybackNext]_playbackVars
    PROVE  Serving'
<1> USE DEF Serving, TypeOK
<1>1. Web \in Callers /\ Web # Starter /\ DOMAIN pc = Callers
    OBVIOUS
<1>2. CASE TurnToTrack
    BY <1>2 DEF TurnToTrack
<1>3. CASE StartTrack
    BY <1>1, <1>3 DEF StartTrack, StartCall, StopCall
<1>4. CASE TrackContinues
    <2>1. pc'[Web] = pc[Web]
        BY <1>1, <1>4
           DEF TrackContinues, StartAlloc, StartClear, StartSend, PlayerStop, StopSet,
               WaitCheck, WaitClear, WaitBits, WaitDone, StopClear
    <2> QED BY <1>4, <2>1 DEF TrackContinues, glueVars
<1>5. CASE TrackReturns
    BY <1>1, <1>5 DEF TrackReturns, StartReceive, StartRefused
<1>6. CASE Press
    BY <1>6 DEF Press
<1>7. CASE PressFindsStopped
    BY <1>7 DEF PressFindsStopped
<1>8. CASE PressStops
    BY <1>8 DEF PressStops
<1>9. CASE PressContinues
    <2>1. pc[Web] # "idle"
        BY <1>9
           DEF PressContinues, PlayerStop, StopSet, WaitCheck, WaitClear, WaitBits,
               WaitDone, StopClear
    <2> QED BY <1>9, <2>1 DEF PressContinues
<1>10. CASE PressUnlocks
    BY <1>10 DEF PressUnlocks
<1>11. CASE PlayerAlone
    <2>1. pc' = pc \/ pc' = [t \in Callers |-> IF pc[t] = "blocked" THEN "wait_done" ELSE pc[t]]
        BY <1>11, Zenon
           DEF PlayerAlone, PlayerStep, PlayerReceive, ShowName, SetNowPlaying, KickStarted,
               ForceCycle, SetPlaying, SetState, BeginPlay, SignalChange, OpenFileFails,
               OpenFile, ReadBlock, ReadStarves, FileEnds, FilePlayed, StreamRefused, StreamStartFails,
               StreamStarts, ReadStop, TakeStop, MarkStopped, StreamStopped, ClearStopped,
               StreamBroken, HideName, KickFinished, Answer, SetStopped, SignalStopped,
               FreeName
    <2>2. pc'[Web] # "idle" => pc[Web] # "idle"
        BY <1>1, <2>1
    <2> QED BY <1>11, <2>2 DEF PlayerAlone, glueVars
<1>12. CASE (StreamEnds \/ ControlWakes \/ ControlReports \/ ProbeTaken) /\ UNCHANGED glueVars
    BY <1>12 DEF StreamEnds, ControlWakes, ControlReports, ProbeTaken, glueVars
<1>13. CASE UNCHANGED playbackVars
    BY <1>13 DEF playbackVars, glueVars
<1> QED
    BY <1>2, <1>3, <1>4, <1>5, <1>6, <1>7, <1>8, <1>9, <1>10, <1>11, <1>12, <1>13, Zenon
       DEF PlaybackNext, SchedulerStep, WebStep

\* The player takes a stop request only from the button that is being served, and only for
\* the track that was current when it was pressed: while it reads, player_start waits for
\* the result (Flow), so of the callers of player_stop only the web server's task can have
\* set PLAYER_STOP (StopHasCaller).
THEOREM StopsHitTheirTrack == PlaybackSpec => StopHitsItsTrack
<1>1. PlaybackInit => Serving
    BY WebAssumption DEF PlaybackInit, Init, Serving
<1>2. IInv => TypeOK
    BY DEF IInv
<1>3. ASSUME IInv, Serving, ReadStop
      PROVE  press = "stopping" /\ track = pressed
    <2>1. ppc = "read" /\ STOP \in bits
        BY <1>3 DEF ReadStop
    <2>2. pc[Starter] = "start_receive"
        BY <1>3, <2>1 DEF IInv, Flow, Working, PlaySteps
    <2>3. PICK t \in Callers : pc[t] \in StopSteps \ {"stop_set"}
        BY <1>3, <2>1 DEF IInv, StopHasCaller
    <2>4. t # Starter /\ pc[t] # "idle"
        BY <2>2, <2>3 DEF StopSteps
    <2>5. t = Web
        BY <2>4, WebAssumption
    <2> QED BY <1>3, <2>4, <2>5 DEF Serving
<1>4. IInv /\ Serving /\ [PlaybackNext]_playbackVars =>
        Serving' /\ [ReadStop => press = "stopping" /\ track = pressed]_playbackVars
    BY <1>2, <1>3, ServingStep
<1> QED BY <1>1, <1>4, PlaybackUsesPlayer, Inductive, PTL DEF PlaybackSpec, StopHitsItsTrack

===============================================================================
