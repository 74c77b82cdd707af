----------------------------- MODULE PlayerProofs -----------------------------
(***************************************************************************)
(* Proofs about Player.tla, for any number of tasks that call player_stop, *)
(* any heap, any retry count and any file length.                          *)
(***************************************************************************)
EXTENDS Player, TLAPS

\* What one-slot queues of FreeRTOS hold.
LEMMA OneSlot ==
    ASSUME NEW x
    PROVE  /\ <<x>> # <<>> /\ Len(<<x>>) = 1 /\ Len(<<>>) = 0
           /\ Head(<<x>>) = x /\ Tail(<<x>>) = <<>>
  OBVIOUS

\* The disjuncts of Next, grouped by the task that takes them.
CallerNext(t) ==
    \/ StopCall(t) \/ StopSet(t) \/ WaitCheck(t) \/ WaitClear(t) \/ WaitBits(t)
    \/ WaitDone(t) \/ StopClear(t)

StarterNext == StartCall \/ StartRefused \/ StartAlloc \/ StartClear \/ StartSend \/ StartReceive

OtherNext == ControlWakes \/ ControlReports \/ ProbeTaken

USE TasksAssumption, BufsAssumption, RetriesAssumption, BlocksAssumption
USE DEF vars, sharedVars, playerVars, callerVars, controlVars, Callers, At, Goto,
        Step, Returns

\* The player starts with a well formed state.
LEMMA TypeInit == Init => TypeOK
<1>1. Init => result \in BOOLEAN /\ heard \in BOOLEAN
  BY Zenon DEF Init
<1> QED BY <1>1 DEF Init, TypeOK, StartSteps, HoldsName

\* Every step of every task keeps the player's state well formed.
LEMMA TypeStep == TypeOK /\ [Next]_vars => TypeOK'
<1> SUFFICES ASSUME TypeOK, [Next]_vars PROVE TypeOK'
  OBVIOUS
<1> USE DEF HoldsName, StopSteps, StartSteps, PlaySteps, BeforeSteps, AfterSteps, ClosingSteps
<1>1. ASSUME NEW t \in Callers, CallerNext(t) PROVE TypeOK'
  <2>1. CASE StopCall(t)
    BY <1>1, <2>1 DEF TypeOK, StopCall
  <2>2. CASE StopSet(t)
    BY <1>1, <2>2 DEF TypeOK, StopSet
  <2>3. CASE WaitCheck(t)
    <3>1. CASE state = "STOPPED"
      BY <1>1, <2>3, <3>1 DEF TypeOK, WaitCheck
    <3>2. CASE state # "STOPPED"
      BY <1>1, <2>3, <3>2 DEF TypeOK, WaitCheck
    <3> QED BY <3>1, <3>2
  <2>4. CASE WaitClear(t)
    BY <1>1, <2>4 DEF TypeOK, WaitClear
  <2>5. CASE WaitBits(t)
    BY <1>1, <2>5 DEF TypeOK, WaitBits
  <2>6. CASE WaitDone(t)
    BY <1>1, <2>6 DEF TypeOK, WaitDone
  <2>7. CASE StopClear(t)
    BY <1>1, <2>7 DEF TypeOK, StopClear
  <2> QED BY <1>1, <2>1, <2>2, <2>3, <2>4, <2>5, <2>6, <2>7 DEF CallerNext
<1>2. CASE StarterNext
  <2>1. CASE StartCall
    BY <2>1 DEF TypeOK, StartCall
  <2>2. CASE StartRefused
    BY <2>2 DEF TypeOK, StartRefused
  <2>3. CASE StartAlloc
    BY <2>3 DEF TypeOK, StartAlloc
  <2>4. CASE StartClear
    BY <2>4 DEF TypeOK, StartClear
  <2>5. CASE StartSend
    <3>1. PICK kind \in {"file", "stream"}, callback \in Callbacks :
            queue' = <<[buf |-> fname, kind |-> kind, callback |-> callback]>>
      BY <2>5 DEF StartSend
    <3>2. fname \in Bufs
      BY <2>5 DEF TypeOK, StartSend
    <3> QED BY <2>5, <3>1, <3>2 DEF TypeOK, StartSend, Messages
  <2>6. CASE StartReceive
    <3>1. back_queue' = <<>>
      BY <2>6, OneSlot DEF TypeOK, StartReceive
    <3> QED BY <2>6, <3>1 DEF TypeOK, StartReceive
  <2> QED BY <1>2, <2>1, <2>2, <2>3, <2>4, <2>5, <2>6 DEF StarterNext
<1>3. CASE PlayerStep \/ StreamEnds
  <2>1. CASE PlayerReceive
    BY <2>1 DEF TypeOK, PlayerReceive
  <2>2. CASE ShowName
    BY <2>2 DEF TypeOK, ShowName, SetNowPlaying, Messages
  <2>3. CASE KickStarted
    BY <2>3 DEF TypeOK, KickStarted, ForceCycle
  <2>4. CASE SetPlaying
    BY <2>4 DEF TypeOK, SetPlaying, SetState
  <2>5. CASE BeginPlay
    BY <2>5 DEF TypeOK, BeginPlay, SignalChange
  <2>6. CASE OpenFileFails
    BY <2>6 DEF TypeOK, OpenFileFails
  <2>7. CASE OpenFile
    BY <2>7 DEF TypeOK, OpenFile
  <2>8. CASE ReadBlock
    BY <2>8 DEF TypeOK, ReadBlock
  <2>27. CASE ReadStarves
    BY <2>27 DEF TypeOK, ReadStarves
  <2>9. CASE FileEnds
    BY <2>9 DEF TypeOK, FileEnds
  <2>10. CASE FilePlayed
    BY <2>10 DEF TypeOK, FilePlayed
  <2>11. CASE StreamRefused
    <3>1. result' \in BOOLEAN
      BY <2>11, Zenon DEF StreamRefused
    <3> QED BY <2>11, <3>1 DEF TypeOK, StreamRefused, ErrorCallback
  <2>12. CASE StreamStartFails
    <3>1. CASE StreamRetries = 0 \/ retries > 1
      BY <2>12, <3>1 DEF TypeOK, StreamStartFails, ErrorCallback, NextTry
    <3>2. CASE ~(StreamRetries = 0 \/ retries > 1)
      <4>1. result' \in BOOLEAN
        BY <2>12, <3>2, Zenon DEF StreamStartFails, NextTry
      <4> QED BY <2>12, <3>2, <4>1 DEF TypeOK, StreamStartFails, ErrorCallback, NextTry
    <3> QED BY <3>1, <3>2
  <2>13. CASE StreamStarts
    BY <2>13 DEF TypeOK, StreamStarts
  <2>14. CASE ReadStop
    BY <2>14 DEF TypeOK, ReadStop
  <2>15. CASE TakeStop
    BY <2>15 DEF TypeOK, TakeStop
  <2>16. CASE MarkStopped
    BY <2>16 DEF TypeOK, MarkStopped
  <2>17. CASE StreamStopped
    BY <2>17 DEF TypeOK, StreamStopped
  <2>18. CASE ClearStopped
    BY <2>18 DEF TypeOK, ClearStopped
  <2>19. CASE StreamBroken
    <3>1. CASE StreamRetries = 0 \/ retries > 1
      BY <2>19, <3>1 DEF TypeOK, StreamBroken, ErrorCallback, NextTry
    <3>2. CASE ~(StreamRetries = 0 \/ retries > 1)
      <4>1. result' \in BOOLEAN
        BY <2>19, <3>2, Zenon DEF StreamBroken, NextTry
      <4> QED BY <2>19, <3>2, <4>1 DEF TypeOK, StreamBroken, ErrorCallback, NextTry
    <3> QED BY <3>1, <3>2
  <2>20. CASE HideName
    BY <2>20 DEF TypeOK, HideName, SetNowPlaying
  <2>21. CASE KickFinished
    BY <2>21 DEF TypeOK, KickFinished, ForceCycle
  <2>22. CASE Answer
    <3>1. [success |-> result, of |-> msg.buf] \in Results
      BY <2>22 DEF TypeOK, Answer, Messages, Results
    <3> QED BY <2>22, <3>1 DEF TypeOK, Answer
  <2>23. CASE SetStopped
    BY <2>23 DEF TypeOK, SetStopped, SetState
  <2>24. CASE SignalStopped
    BY <2>24 DEF TypeOK, SignalStopped, SignalChange
  <2>25. CASE FreeName
    <3>1. result' \in BOOLEAN /\ heard' \in BOOLEAN
      BY <2>25, Zenon DEF FreeName
    <3> QED BY <2>25, <3>1 DEF TypeOK, FreeName
  <2>26. CASE StreamEnds
    BY <2>26 DEF TypeOK, StreamEnds
  <2> QED BY <1>3, <2>1, <2>2, <2>3, <2>4, <2>5, <2>6, <2>7, <2>8, <2>9, <2>10, <2>11, <2>12, <2>13, <2>14, <2>15, <2>16, <2>17, <2>18, <2>19, <2>20, <2>21, <2>22, <2>23, <2>24, <2>25, <2>26, <2>27 DEF PlayerStep
<1>4. CASE OtherNext
  <2>1. CASE ControlWakes
    BY <2>1 DEF TypeOK, ControlWakes
  <2>2. CASE ControlReports
    BY <2>2 DEF TypeOK, ControlReports
  <2>3. CASE ProbeTaken
    BY <2>3 DEF TypeOK, ProbeTaken
  <2> QED BY <1>4, <2>1, <2>2, <2>3 DEF OtherNext
<1>5. CASE UNCHANGED vars
  BY <1>5 DEF TypeOK
<1> QED BY <1>1, <1>2, <1>3, <1>4, <1>5 DEF Next, CallerNext, StarterNext,
           OtherNext, PlayerStop, PlayerStart

\* Every step moves the message from one place to the next, or leaves it where
\* it is.
LEMMA FlowStep == TypeOK /\ Flow /\ TypeOK' /\ [Next]_vars => Flow'
<1> SUFFICES ASSUME TypeOK /\ Flow, TypeOK', [Next]_vars PROVE Flow'
  OBVIOUS
<1> USE DEF HoldsName, PlaySteps, BeforeSteps, AfterSteps, ClosingSteps,
    StopSteps, StartSteps
<1>1. ASSUME NEW t \in Callers, CallerNext(t) PROVE Flow'
  <2>1. CASE StopCall(t) \/ StopSet(t) \/ WaitCheck(t) \/ WaitClear(t) \/ WaitBits(t) \/ WaitDone(t) \/ StopClear(t)
    BY <1>1, <2>1 DEF TypeOK, Flow, Working, StopCall, StopSet, WaitCheck,
        WaitClear, WaitBits, WaitDone, StopClear
  <2> QED BY <1>1, <2>1 DEF CallerNext
<1>2. CASE StartCall
  BY <1>2 DEF TypeOK, Flow, Working, StartCall
<1>3. CASE StartRefused
  BY <1>3 DEF TypeOK, Flow, Working, StartRefused
<1>4. CASE StartAlloc
  BY <1>4 DEF TypeOK, Flow, Working, StartAlloc
<1>5. CASE StartClear
  BY <1>5 DEF TypeOK, Flow, Working, StartClear
<1>6. CASE StartSend
  BY <1>6 DEF TypeOK, Flow, Working, StartSend
<1>7. CASE StartReceive
  BY <1>7 DEF TypeOK, Flow, Working, StartReceive
<1>8. CASE PlayerReceive
  BY <1>8 DEF TypeOK, Flow, Working, PlayerReceive
<1>9. CASE ShowName \/ KickStarted \/ SetPlaying
  BY <1>9 DEF TypeOK, Flow, Working, ShowName, SetNowPlaying, KickStarted,
      ForceCycle, SetPlaying, SetState
<1>10. CASE BeginPlay
  BY <1>10 DEF TypeOK, Flow, Working, BeginPlay, SignalChange
<1>11. CASE OpenFileFails \/ OpenFile \/ ReadBlock \/ ReadStarves \/ FileEnds \/ FilePlayed
  BY <1>11 DEF TypeOK, Flow, Working, OpenFileFails, OpenFile, ReadBlock, ReadStarves,
      FileEnds, FilePlayed
<1>12. CASE StreamRefused
  BY <1>12 DEF TypeOK, Flow, Working, StreamRefused, ErrorCallback
<1>13. CASE StreamStartFails
  BY <1>13 DEF TypeOK, Flow, Working, StreamStartFails, ErrorCallback, NextTry
<1>14. CASE StreamBroken
  BY <1>14 DEF TypeOK, Flow, Working, StreamBroken, ErrorCallback, NextTry
<1>15. CASE StreamStarts \/ StreamEnds \/ ReadStop \/ TakeStop \/ MarkStopped \/
    StreamStopped \/ ClearStopped
  BY <1>15 DEF TypeOK, Flow, Working, StreamStarts, StreamEnds, ReadStop,
      TakeStop, MarkStopped, StreamStopped, ClearStopped
<1>16. CASE HideName \/ KickFinished
  BY <1>16 DEF TypeOK, Flow, Working, HideName, SetNowPlaying, KickFinished,
      ForceCycle
<1>17. CASE Answer
  BY <1>17 DEF TypeOK, Flow, Working, Answer
<1>18. CASE SetStopped \/ SignalStopped \/ FreeName
  BY <1>18 DEF TypeOK, Flow, Working, SetStopped, SetState, SignalStopped,
      SignalChange, FreeName
<1>19. CASE ControlWakes \/ ControlReports \/ ProbeTaken
  BY <1>19 DEF TypeOK, Flow, Working, ControlWakes, ControlReports, ProbeTaken
<1>20. CASE UNCHANGED vars
  BY <1>20 DEF TypeOK, Flow, Working
<1> QED BY <1>1, <1>2, <1>3, <1>4, <1>5, <1>6, <1>7, <1>8, <1>9, <1>10, <1>11,
    <1>12, <1>13, <1>14, <1>15, <1>16, <1>17, <1>18, <1>19, <1>20 DEF Next,
    CallerNext, PlayerStop, PlayerStart, PlayerStep

\* The heap and now_playing: a name is freed only after now_playing was
\* cleared, and only by the task that owns it.
LEMMA NamesStep == TypeOK /\ Flow /\ Names /\ TypeOK' /\ [Next]_vars => Names'
<1> SUFFICES ASSUME TypeOK /\ Flow /\ Names, TypeOK', [Next]_vars PROVE Names'
  OBVIOUS
<1> USE DEF HoldsName, PlaySteps, BeforeSteps, AfterSteps, ClosingSteps,
    StopSteps, StartSteps
<1>1. ASSUME NEW t \in Callers, CallerNext(t) PROVE Names'
  <2>1. CASE StopCall(t) \/ StopSet(t) \/ WaitCheck(t) \/ WaitClear(t) \/ WaitBits(t) \/ WaitDone(t) \/ StopClear(t)
    BY <1>1, <2>1 DEF TypeOK, Flow, Working, Names, NotHandedOver, Shown,
        Messages, NoMessage, StopCall, StopSet, WaitCheck, WaitClear, WaitBits,
        WaitDone, StopClear
  <2> QED BY <1>1, <2>1 DEF CallerNext
<1>2. CASE StartCall
  BY <1>2 DEF TypeOK, Flow, Working, Names, NotHandedOver, Shown, Messages,
      NoMessage, StartCall
<1>3. CASE StartRefused
  BY <1>3 DEF TypeOK, Flow, Working, Names, NotHandedOver, Shown, Messages,
      NoMessage, StartRefused
<1>4. CASE StartAlloc
  BY <1>4 DEF TypeOK, Flow, Working, Names, NotHandedOver, Shown, Messages,
      NoMessage, StartAlloc
<1>5. CASE StartClear
  BY <1>5 DEF TypeOK, Flow, Working, Names, NotHandedOver, Shown, Messages,
      NoMessage, StartClear
<1>6. CASE StartSend
  BY <1>6 DEF TypeOK, Flow, Working, Names, NotHandedOver, Shown, Messages,
      NoMessage, StartSend
<1>7. CASE StartReceive
  BY <1>7 DEF TypeOK, Flow, Working, Names, NotHandedOver, Shown, Messages,
      NoMessage, StartReceive
<1>8. CASE PlayerReceive
  BY <1>8 DEF TypeOK, Flow, Working, Names, NotHandedOver, Shown, Messages,
      NoMessage, PlayerReceive
<1>9. CASE ShowName \/ KickStarted \/ SetPlaying
  BY <1>9 DEF TypeOK, Flow, Working, Names, NotHandedOver, Shown, Messages,
      NoMessage, ShowName, SetNowPlaying, KickStarted, ForceCycle, SetPlaying,
      SetState
<1>10. CASE BeginPlay
  BY <1>10 DEF TypeOK, Flow, Working, Names, NotHandedOver, Shown, Messages,
      NoMessage, BeginPlay, SignalChange
<1>11. CASE OpenFileFails \/ OpenFile \/ ReadBlock \/ ReadStarves \/ FileEnds \/ FilePlayed
  BY <1>11 DEF TypeOK, Flow, Working, Names, NotHandedOver, Shown, Messages,
      NoMessage, OpenFileFails, OpenFile, ReadBlock, ReadStarves, FileEnds, FilePlayed
<1>12. CASE StreamRefused
  BY <1>12 DEF TypeOK, Flow, Working, Names, NotHandedOver, Shown, Messages,
      NoMessage, StreamRefused, ErrorCallback
<1>13. CASE StreamStartFails
  BY <1>13 DEF TypeOK, Flow, Working, Names, NotHandedOver, Shown, Messages,
      NoMessage, StreamStartFails, ErrorCallback, NextTry
<1>14. CASE StreamBroken
  BY <1>14 DEF TypeOK, Flow, Working, Names, NotHandedOver, Shown, Messages,
      NoMessage, StreamBroken, ErrorCallback, NextTry
<1>15. CASE StreamStarts \/ StreamEnds \/ ReadStop \/ TakeStop \/ MarkStopped \/
    StreamStopped \/ ClearStopped
  BY <1>15 DEF TypeOK, Flow, Working, Names, NotHandedOver, Shown, Messages,
      NoMessage, StreamStarts, StreamEnds, ReadStop, TakeStop, MarkStopped,
      StreamStopped, ClearStopped
<1>16. CASE HideName \/ KickFinished
  BY <1>16 DEF TypeOK, Flow, Working, Names, NotHandedOver, Shown, Messages,
      NoMessage, HideName, SetNowPlaying, KickFinished, ForceCycle
<1>17. CASE Answer
  BY <1>17 DEF TypeOK, Flow, Working, Names, NotHandedOver, Shown, Messages,
      NoMessage, Answer
<1>18. CASE SetStopped
  BY <1>18 DEF TypeOK, Flow, Working, Names, NotHandedOver, Shown, Messages,
      NoMessage, SetStopped, SetState
<1>19. CASE SignalStopped
  BY <1>19 DEF TypeOK, Flow, Working, Names, NotHandedOver, Shown, Messages,
      NoMessage, SignalStopped, SignalChange
<1>20. CASE FreeName
  BY <1>20 DEF TypeOK, Flow, Working, Names, NotHandedOver, Shown, Messages,
      NoMessage, FreeName
<1>21. CASE ControlWakes \/ ControlReports \/ ProbeTaken
  BY <1>21 DEF TypeOK, Flow, Working, Names, NotHandedOver, Shown, Messages,
      NoMessage, ControlWakes, ControlReports, ProbeTaken
<1>22. CASE UNCHANGED vars
  BY <1>22 DEF TypeOK, Flow, Working, Names, NotHandedOver, Shown, Messages, NoMessage
<1> QED BY <1>1, <1>2, <1>3, <1>4, <1>5, <1>6, <1>7, <1>8, <1>9, <1>10, <1>11,
    <1>12, <1>13, <1>14, <1>15, <1>16, <1>17, <1>18, <1>19, <1>20, <1>21, <1>22
    DEF Next, CallerNext, PlayerStop, PlayerStart, PlayerStep

\* The player task is the only writer of state.
LEMMA StateFollowsStep == TypeOK /\ StateFollows /\ TypeOK' /\ [Next]_vars => StateFollows'
<1> SUFFICES ASSUME TypeOK /\ StateFollows, TypeOK', [Next]_vars PROVE StateFollows'
  OBVIOUS
<1> USE DEF HoldsName, PlaySteps, BeforeSteps, AfterSteps, ClosingSteps,
    StopSteps, StartSteps
<1>1. ASSUME NEW t \in Callers, CallerNext(t) PROVE StateFollows'
  <2>1. CASE StopCall(t) \/ StopSet(t) \/ WaitCheck(t) \/ WaitClear(t) \/ WaitBits(t) \/ WaitDone(t) \/ StopClear(t)
    BY <1>1, <2>1 DEF TypeOK, StateFollows, StopCall, StopSet, WaitCheck,
        WaitClear, WaitBits, WaitDone, StopClear
  <2> QED BY <1>1, <2>1 DEF CallerNext
<1>2. CASE StartCall
  BY <1>2 DEF TypeOK, StateFollows, StartCall
<1>3. CASE StartRefused
  BY <1>3 DEF TypeOK, StateFollows, StartRefused
<1>4. CASE StartAlloc
  BY <1>4 DEF TypeOK, StateFollows, StartAlloc
<1>5. CASE StartClear
  BY <1>5 DEF TypeOK, StateFollows, StartClear
<1>6. CASE StartSend
  BY <1>6 DEF TypeOK, StateFollows, StartSend
<1>7. CASE StartReceive
  BY <1>7 DEF TypeOK, StateFollows, StartReceive
<1>8. CASE PlayerReceive
  BY <1>8 DEF TypeOK, StateFollows, PlayerReceive
<1>9. CASE ShowName \/ KickStarted \/ SetPlaying
  BY <1>9 DEF TypeOK, StateFollows, ShowName, SetNowPlaying, KickStarted,
      ForceCycle, SetPlaying, SetState
<1>10. CASE BeginPlay
  BY <1>10 DEF TypeOK, StateFollows, BeginPlay, SignalChange
<1>11. CASE OpenFileFails \/ OpenFile \/ ReadBlock \/ ReadStarves \/ FileEnds \/ FilePlayed
  BY <1>11 DEF TypeOK, StateFollows, OpenFileFails, OpenFile, ReadBlock, ReadStarves, FileEnds,
      FilePlayed
<1>12. CASE StreamRefused
  BY <1>12 DEF TypeOK, StateFollows, StreamRefused, ErrorCallback
<1>13. CASE StreamStartFails
  BY <1>13 DEF TypeOK, StateFollows, StreamStartFails, ErrorCallback, NextTry
<1>14. CASE StreamBroken
  BY <1>14 DEF TypeOK, StateFollows, StreamBroken, ErrorCallback, NextTry
<1>15. CASE StreamStarts \/ StreamEnds \/ ReadStop \/ TakeStop \/ MarkStopped \/
    StreamStopped \/ ClearStopped
  BY <1>15 DEF TypeOK, StateFollows, StreamStarts, StreamEnds, ReadStop, TakeStop,
      MarkStopped, StreamStopped, ClearStopped
<1>16. CASE HideName \/ KickFinished
  BY <1>16 DEF TypeOK, StateFollows, HideName, SetNowPlaying, KickFinished,
      ForceCycle
<1>17. CASE Answer
  BY <1>17 DEF TypeOK, StateFollows, Answer
<1>18. CASE SetStopped
  BY <1>18 DEF TypeOK, StateFollows, SetStopped, SetState
<1>19. CASE SignalStopped
  BY <1>19 DEF TypeOK, StateFollows, SignalStopped, SignalChange
<1>20. CASE FreeName
  BY <1>20 DEF TypeOK, StateFollows, FreeName
<1>21. CASE ControlWakes \/ ControlReports \/ ProbeTaken
  BY <1>21 DEF TypeOK, StateFollows, ControlWakes, ControlReports, ProbeTaken
<1>22. CASE UNCHANGED vars
  BY <1>22 DEF TypeOK, StateFollows
<1> QED BY <1>1, <1>2, <1>3, <1>4, <1>5, <1>6, <1>7, <1>8, <1>9, <1>10, <1>11,
    <1>12, <1>13, <1>14, <1>15, <1>16, <1>17, <1>18, <1>19, <1>20, <1>21, <1>22
    DEF Next, CallerNext, PlayerStop, PlayerStart, PlayerStep

\* player_start clears PLAYER_STOPPED before it hands over the next name, and
\* only the player task sets it, during a play.
LEMMA StopBitsStep == TypeOK /\ Flow /\ StopBits /\ TypeOK' /\ [Next]_vars => StopBits'
<1> SUFFICES ASSUME TypeOK /\ Flow /\ StopBits, TypeOK', [Next]_vars PROVE StopBits'
  OBVIOUS
<1> USE DEF HoldsName, PlaySteps, BeforeSteps, AfterSteps, ClosingSteps,
    StopSteps, StartSteps
<1>1. ASSUME NEW t \in Callers, CallerNext(t) PROVE StopBits'
  <2>1. CASE StopCall(t) \/ StopSet(t) \/ WaitCheck(t) \/ WaitClear(t) \/ WaitBits(t) \/ WaitDone(t) \/ StopClear(t)
    BY <1>1, <2>1 DEF TypeOK, Flow, Working, StopBits, StreamSuccessMeansStopped,
        STOP, STOPPED, CHANGED, StopCall, StopSet, WaitCheck, WaitClear, WaitBits,
        WaitDone, StopClear
  <2> QED BY <1>1, <2>1 DEF CallerNext
<1>2. CASE StartCall
  BY <1>2 DEF TypeOK, Flow, Working, StopBits, StreamSuccessMeansStopped, STOP,
      STOPPED, CHANGED, StartCall
<1>3. CASE StartRefused
  BY <1>3 DEF TypeOK, Flow, Working, StopBits, StreamSuccessMeansStopped, STOP,
      STOPPED, CHANGED, StartRefused
<1>4. CASE StartAlloc
  BY <1>4 DEF TypeOK, Flow, Working, StopBits, StreamSuccessMeansStopped, STOP,
      STOPPED, CHANGED, StartAlloc
<1>5. CASE StartClear
  BY <1>5 DEF TypeOK, Flow, Working, StopBits, StreamSuccessMeansStopped, STOP,
      STOPPED, CHANGED, StartClear
<1>6. CASE StartSend
  BY <1>6 DEF TypeOK, Flow, Working, StopBits, StreamSuccessMeansStopped, STOP,
      STOPPED, CHANGED, StartSend
<1>7. CASE StartReceive
  BY <1>7 DEF TypeOK, Flow, Working, StopBits, StreamSuccessMeansStopped, STOP,
      STOPPED, CHANGED, StartReceive
<1>8. CASE PlayerReceive
  BY <1>8 DEF TypeOK, Flow, Working, StopBits, StreamSuccessMeansStopped, STOP,
      STOPPED, CHANGED, PlayerReceive
<1>9. CASE ShowName \/ KickStarted \/ SetPlaying
  BY <1>9 DEF TypeOK, Flow, Working, StopBits, StreamSuccessMeansStopped, STOP,
      STOPPED, CHANGED, ShowName, SetNowPlaying, KickStarted, ForceCycle,
      SetPlaying, SetState
<1>10. CASE BeginPlay
  BY <1>10 DEF TypeOK, Flow, Working, StopBits, StreamSuccessMeansStopped, STOP,
      STOPPED, CHANGED, BeginPlay, SignalChange
<1>11. CASE OpenFileFails \/ OpenFile \/ ReadBlock \/ ReadStarves \/ FileEnds \/ FilePlayed
  BY <1>11 DEF TypeOK, Flow, Working, StopBits, StreamSuccessMeansStopped, STOP,
      STOPPED, CHANGED, OpenFileFails, OpenFile, ReadBlock, ReadStarves, FileEnds, FilePlayed
<1>12. CASE StreamRefused
  BY <1>12 DEF TypeOK, Flow, Working, StopBits, StreamSuccessMeansStopped, STOP,
      STOPPED, CHANGED, StreamRefused, ErrorCallback
<1>13. CASE StreamStartFails
  BY <1>13 DEF TypeOK, Flow, Working, StopBits, StreamSuccessMeansStopped, STOP,
      STOPPED, CHANGED, StreamStartFails, ErrorCallback, NextTry
<1>14. CASE StreamBroken
  BY <1>14 DEF TypeOK, Flow, Working, StopBits, StreamSuccessMeansStopped, STOP,
      STOPPED, CHANGED, StreamBroken, ErrorCallback, NextTry
<1>15. CASE StreamStarts \/ StreamEnds \/ ReadStop \/ TakeStop \/ MarkStopped \/
    StreamStopped \/ ClearStopped
  BY <1>15 DEF TypeOK, Flow, Working, StopBits, StreamSuccessMeansStopped, STOP,
      STOPPED, CHANGED, StreamStarts, StreamEnds, ReadStop, TakeStop, MarkStopped,
      StreamStopped, ClearStopped
<1>16. CASE HideName \/ KickFinished
  BY <1>16 DEF TypeOK, Flow, Working, StopBits, StreamSuccessMeansStopped, STOP,
      STOPPED, CHANGED, HideName, SetNowPlaying, KickFinished, ForceCycle
<1>17. CASE Answer
  BY <1>17 DEF TypeOK, Flow, Working, StopBits, StreamSuccessMeansStopped, STOP,
      STOPPED, CHANGED, Answer
<1>18. CASE SetStopped
  BY <1>18 DEF TypeOK, Flow, Working, StopBits, StreamSuccessMeansStopped, STOP,
      STOPPED, CHANGED, SetStopped, SetState
<1>19. CASE SignalStopped
  BY <1>19 DEF TypeOK, Flow, Working, StopBits, StreamSuccessMeansStopped, STOP,
      STOPPED, CHANGED, SignalStopped, SignalChange
<1>20. CASE FreeName
  BY <1>20 DEF TypeOK, Flow, Working, StopBits, StreamSuccessMeansStopped, STOP,
      STOPPED, CHANGED, FreeName
<1>21. CASE ControlWakes \/ ControlReports \/ ProbeTaken
  BY <1>21 DEF TypeOK, Flow, Working, StopBits, StreamSuccessMeansStopped, STOP,
      STOPPED, CHANGED, ControlWakes, ControlReports, ProbeTaken
<1>22. CASE UNCHANGED vars
  BY <1>22 DEF TypeOK, Flow, Working, StopBits, StreamSuccessMeansStopped, STOP, STOPPED, CHANGED
<1> QED BY <1>1, <1>2, <1>3, <1>4, <1>5, <1>6, <1>7, <1>8, <1>9, <1>10, <1>11,
    <1>12, <1>13, <1>14, <1>15, <1>16, <1>17, <1>18, <1>19, <1>20, <1>21, <1>22
    DEF Next, CallerNext, PlayerStop, PlayerStart, PlayerStep

\* player_stop returns true only from a state read as STOPPED.
LEMMA OutlivedStep == TypeOK /\ StateFollows /\ Outlived /\ TypeOK' /\ [Next]_vars => Outlived'
<1> SUFFICES ASSUME TypeOK /\ StateFollows /\ Outlived, TypeOK', [Next]_vars PROVE Outlived'
  OBVIOUS
<1> USE DEF HoldsName, PlaySteps, BeforeSteps, AfterSteps, ClosingSteps,
    StopSteps, StartSteps
<1>1. ASSUME NEW t \in Callers, CallerNext(t) PROVE Outlived'
  <2>1. CASE StopCall(t)
    BY <1>1, <2>1 DEF TypeOK, StateFollows, Outlived, StopCall
  <2>2. CASE StopSet(t)
    BY <1>1, <2>2 DEF TypeOK, StateFollows, Outlived, StopSet
  <2>3. CASE WaitCheck(t)
    BY <1>1, <2>3 DEF TypeOK, StateFollows, Outlived, WaitCheck
  <2>4. CASE WaitClear(t)
    BY <1>1, <2>4 DEF TypeOK, StateFollows, Outlived, WaitClear
  <2>5. CASE WaitBits(t)
    BY <1>1, <2>5 DEF TypeOK, StateFollows, Outlived, WaitBits
  <2>6. CASE WaitDone(t)
    BY <1>1, <2>6 DEF TypeOK, StateFollows, Outlived, WaitDone
  <2>7. CASE StopClear(t)
    BY <1>1, <2>7 DEF TypeOK, StateFollows, Outlived, StopClear
  <2> QED BY <1>1, <2>1, <2>2, <2>3, <2>4, <2>5, <2>6, <2>7 DEF CallerNext
<1>2. CASE StartCall
  BY <1>2 DEF TypeOK, StateFollows, Outlived, StartCall
<1>3. CASE StartRefused
  BY <1>3 DEF TypeOK, StateFollows, Outlived, StartRefused
<1>4. CASE StartAlloc
  BY <1>4 DEF TypeOK, StateFollows, Outlived, StartAlloc
<1>5. CASE StartClear
  BY <1>5 DEF TypeOK, StateFollows, Outlived, StartClear
<1>6. CASE StartSend
  BY <1>6 DEF TypeOK, StateFollows, Outlived, StartSend
<1>7. CASE StartReceive
  BY <1>7 DEF TypeOK, StateFollows, Outlived, StartReceive
<1>8. CASE PlayerReceive
  BY <1>8 DEF TypeOK, StateFollows, Outlived, PlayerReceive
<1>9. CASE ShowName \/ KickStarted \/ SetPlaying
  BY <1>9 DEF TypeOK, StateFollows, Outlived, ShowName, SetNowPlaying,
      KickStarted, ForceCycle, SetPlaying, SetState
<1>10. CASE BeginPlay
  BY <1>10 DEF TypeOK, StateFollows, Outlived, BeginPlay, SignalChange
<1>11. CASE OpenFileFails \/ OpenFile \/ ReadBlock \/ ReadStarves \/ FileEnds \/ FilePlayed
  BY <1>11 DEF TypeOK, StateFollows, Outlived, OpenFileFails, OpenFile, ReadBlock, ReadStarves,
      FileEnds, FilePlayed
<1>12. CASE StreamRefused
  BY <1>12 DEF TypeOK, StateFollows, Outlived, StreamRefused, ErrorCallback
<1>13. CASE StreamStartFails
  BY <1>13 DEF TypeOK, StateFollows, Outlived, StreamStartFails, ErrorCallback,
      NextTry
<1>14. CASE StreamBroken
  BY <1>14 DEF TypeOK, StateFollows, Outlived, StreamBroken, ErrorCallback,
      NextTry
<1>15. CASE StreamStarts \/ StreamEnds \/ ReadStop \/ TakeStop \/ MarkStopped \/
    StreamStopped \/ ClearStopped
  BY <1>15 DEF TypeOK, StateFollows, Outlived, StreamStarts, StreamEnds, ReadStop,
      TakeStop, MarkStopped, StreamStopped, ClearStopped
<1>16. CASE HideName \/ KickFinished
  BY <1>16 DEF TypeOK, StateFollows, Outlived, HideName, SetNowPlaying,
      KickFinished, ForceCycle
<1>17. CASE Answer
  BY <1>17 DEF TypeOK, StateFollows, Outlived, Answer
<1>18. CASE SetStopped
  BY <1>18 DEF TypeOK, StateFollows, Outlived, SetStopped, SetState
<1>19. CASE SignalStopped
  BY <1>19 DEF TypeOK, StateFollows, Outlived, SignalStopped, SignalChange
<1>20. CASE FreeName
  BY <1>20 DEF TypeOK, StateFollows, Outlived, FreeName
<1>21. CASE ControlWakes \/ ControlReports \/ ProbeTaken
  BY <1>21 DEF TypeOK, StateFollows, Outlived, ControlWakes, ControlReports,
      ProbeTaken
<1>22. CASE UNCHANGED vars
  BY <1>22 DEF TypeOK, StateFollows, Outlived
<1> QED BY <1>1, <1>2, <1>3, <1>4, <1>5, <1>6, <1>7, <1>8, <1>9, <1>10, <1>11,
    <1>12, <1>13, <1>14, <1>15, <1>16, <1>17, <1>18, <1>19, <1>20, <1>21, <1>22
    DEF Next, CallerNext, PlayerStop, PlayerStart, PlayerStep

\* The remote control task is kicked after every change of now_playing.
LEMMA ReportedStep == TypeOK /\ NowPlayingReported /\ TypeOK' /\ [Next]_vars => NowPlayingReported'
<1> SUFFICES ASSUME TypeOK /\ NowPlayingReported, TypeOK', [Next]_vars PROVE NowPlayingReported'
  OBVIOUS
<1> USE DEF HoldsName, PlaySteps, BeforeSteps, AfterSteps, ClosingSteps,
    StopSteps, StartSteps
<1>1. ASSUME NEW t \in Callers, CallerNext(t) PROVE NowPlayingReported'
  <2>1. CASE StopCall(t) \/ StopSet(t) \/ WaitCheck(t) \/ WaitClear(t) \/ WaitBits(t) \/ WaitDone(t) \/ StopClear(t)
    BY <1>1, <2>1 DEF TypeOK, NowPlayingReported, StopCall, StopSet, WaitCheck,
        WaitClear, WaitBits, WaitDone, StopClear
  <2> QED BY <1>1, <2>1 DEF CallerNext
<1>2. CASE StartCall
  BY <1>2 DEF TypeOK, NowPlayingReported, StartCall
<1>3. CASE StartRefused
  BY <1>3 DEF TypeOK, NowPlayingReported, StartRefused
<1>4. CASE StartAlloc
  BY <1>4 DEF TypeOK, NowPlayingReported, StartAlloc
<1>5. CASE StartClear
  BY <1>5 DEF TypeOK, NowPlayingReported, StartClear
<1>6. CASE StartSend
  BY <1>6 DEF TypeOK, NowPlayingReported, StartSend
<1>7. CASE StartReceive
  BY <1>7 DEF TypeOK, NowPlayingReported, StartReceive
<1>8. CASE PlayerReceive
  BY <1>8 DEF TypeOK, NowPlayingReported, PlayerReceive
<1>9. CASE ShowName \/ KickStarted \/ SetPlaying
  BY <1>9 DEF TypeOK, NowPlayingReported, ShowName, SetNowPlaying, KickStarted,
      ForceCycle, SetPlaying, SetState
<1>10. CASE BeginPlay
  BY <1>10 DEF TypeOK, NowPlayingReported, BeginPlay, SignalChange
<1>11. CASE OpenFileFails \/ OpenFile \/ ReadBlock \/ ReadStarves \/ FileEnds \/ FilePlayed
  BY <1>11 DEF TypeOK, NowPlayingReported, OpenFileFails, OpenFile, ReadBlock, ReadStarves,
      FileEnds, FilePlayed
<1>12. CASE StreamRefused
  BY <1>12 DEF TypeOK, NowPlayingReported, StreamRefused, ErrorCallback
<1>13. CASE StreamStartFails
  BY <1>13 DEF TypeOK, NowPlayingReported, StreamStartFails, ErrorCallback,
      NextTry
<1>14. CASE StreamBroken
  BY <1>14 DEF TypeOK, NowPlayingReported, StreamBroken, ErrorCallback, NextTry
<1>15. CASE StreamStarts \/ StreamEnds \/ ReadStop \/ TakeStop \/ MarkStopped \/
    StreamStopped \/ ClearStopped
  BY <1>15 DEF TypeOK, NowPlayingReported, StreamStarts, StreamEnds, ReadStop,
      TakeStop, MarkStopped, StreamStopped, ClearStopped
<1>16. CASE HideName \/ KickFinished
  BY <1>16 DEF TypeOK, NowPlayingReported, HideName, SetNowPlaying, KickFinished,
      ForceCycle
<1>17. CASE Answer
  BY <1>17 DEF TypeOK, NowPlayingReported, Answer
<1>18. CASE SetStopped
  BY <1>18 DEF TypeOK, NowPlayingReported, SetStopped, SetState
<1>19. CASE SignalStopped
  BY <1>19 DEF TypeOK, NowPlayingReported, SignalStopped, SignalChange
<1>20. CASE FreeName
  BY <1>20 DEF TypeOK, NowPlayingReported, FreeName
<1>21. CASE ControlWakes \/ ControlReports \/ ProbeTaken
  BY <1>21 DEF TypeOK, NowPlayingReported, ControlWakes, ControlReports,
      ProbeTaken
<1>22. CASE UNCHANGED vars
  BY <1>22 DEF TypeOK, NowPlayingReported
<1> QED BY <1>1, <1>2, <1>3, <1>4, <1>5, <1>6, <1>7, <1>8, <1>9, <1>10, <1>11,
    <1>12, <1>13, <1>14, <1>15, <1>16, <1>17, <1>18, <1>19, <1>20, <1>21, <1>22
    DEF Next, CallerNext, PlayerStop, PlayerStart, PlayerStep

\* player_stop clears PLAYER_STOP on its way out, whoever set it.
LEMMA StopHasCallerStep == TypeOK /\ StopHasCaller /\ TypeOK' /\ [Next]_vars => StopHasCaller'
<1> SUFFICES ASSUME TypeOK /\ StopHasCaller, TypeOK', [Next]_vars PROVE StopHasCaller'
  OBVIOUS
<1> USE DEF StopSteps, StartSteps
<1>1. ASSUME NEW t \in Callers, CallerNext(t) PROVE StopHasCaller'
  <2>1. CASE StopCall(t)
    BY <1>1, <2>1 DEF TypeOK, StopHasCaller, STOP, STOPPED, CHANGED, StopCall
  <2>2. CASE StopSet(t)
    BY <1>1, <2>2 DEF TypeOK, StopHasCaller, STOP, STOPPED, CHANGED, StopSet
  <2>3. CASE WaitCheck(t)
    BY <1>1, <2>3 DEF TypeOK, StopHasCaller, STOP, STOPPED, CHANGED, WaitCheck
  <2>4. CASE WaitClear(t)
    BY <1>1, <2>4 DEF TypeOK, StopHasCaller, STOP, STOPPED, CHANGED, WaitClear
  <2>5. CASE WaitBits(t)
    BY <1>1, <2>5 DEF TypeOK, StopHasCaller, STOP, STOPPED, CHANGED, WaitBits
  <2>6. CASE WaitDone(t)
    BY <1>1, <2>6 DEF TypeOK, StopHasCaller, STOP, STOPPED, CHANGED, WaitDone
  <2>7. CASE StopClear(t)
    BY <1>1, <2>7 DEF TypeOK, StopHasCaller, STOP, STOPPED, CHANGED, StopClear
  <2> QED BY <1>1, <2>1, <2>2, <2>3, <2>4, <2>5, <2>6, <2>7 DEF CallerNext
<1>2. CASE StartCall \/ StartRefused \/ StartAlloc \/ StartClear \/ StartSend \/
    StartReceive
  BY <1>2 DEF TypeOK, StopHasCaller, STOP, STOPPED, CHANGED, StartCall,
      StartRefused, StartAlloc, StartClear, StartSend, StartReceive
<1>3. CASE PlayerReceive \/ ShowName \/ KickStarted \/ SetPlaying
  BY <1>3 DEF TypeOK, StopHasCaller, STOP, STOPPED, CHANGED, PlayerReceive,
      ShowName, SetNowPlaying, KickStarted, ForceCycle, SetPlaying, SetState
<1>4. CASE BeginPlay
  BY <1>4 DEF TypeOK, StopHasCaller, STOP, STOPPED, CHANGED, BeginPlay,
      SignalChange
<1>5. CASE OpenFileFails \/ OpenFile \/ ReadBlock \/ ReadStarves \/ FileEnds \/ FilePlayed
  BY <1>5 DEF TypeOK, StopHasCaller, STOP, STOPPED, CHANGED, OpenFileFails,
      OpenFile, ReadBlock, ReadStarves, FileEnds, FilePlayed
<1>6. CASE StreamRefused \/ StreamStartFails \/ StreamBroken
  BY <1>6 DEF TypeOK, StopHasCaller, STOP, STOPPED, CHANGED, StreamRefused,
      ErrorCallback, StreamStartFails, NextTry, StreamBroken
<1>7. CASE StreamStarts \/ StreamEnds \/ ReadStop \/ TakeStop \/ MarkStopped \/
    StreamStopped \/ ClearStopped
  BY <1>7 DEF TypeOK, StopHasCaller, STOP, STOPPED, CHANGED, StreamStarts,
      StreamEnds, ReadStop, TakeStop, MarkStopped, StreamStopped, ClearStopped
<1>8. CASE HideName \/ KickFinished \/ Answer \/ SetStopped
  BY <1>8 DEF TypeOK, StopHasCaller, STOP, STOPPED, CHANGED, HideName,
      SetNowPlaying, KickFinished, ForceCycle, Answer, SetStopped, SetState
<1>9. CASE SignalStopped
  BY <1>9 DEF TypeOK, StopHasCaller, STOP, STOPPED, CHANGED, SignalStopped,
      SignalChange
<1>10. CASE FreeName
  BY <1>10 DEF TypeOK, StopHasCaller, STOP, STOPPED, CHANGED, FreeName
<1>11. CASE ControlWakes \/ ControlReports \/ ProbeTaken
  BY <1>11 DEF TypeOK, StopHasCaller, STOP, STOPPED, CHANGED, ControlWakes,
      ControlReports, ProbeTaken
<1>12. CASE UNCHANGED vars
  BY <1>12 DEF TypeOK, StopHasCaller, STOP, STOPPED, CHANGED
<1> QED BY <1>1, <1>2, <1>3, <1>4, <1>5, <1>6, <1>7, <1>8, <1>9, <1>10, <1>11,
    <1>12 DEF Next, CallerNext, PlayerStop, PlayerStart, PlayerStep

LEMMA IInvInit == Init => IInv
<1> SUFFICES ASSUME Init PROVE IInv
  OBVIOUS
<1>1. TypeOK
  BY TypeInit
<1>2. Flow /\ Names
  BY DEF Init, Flow, Names, Working, NotHandedOver, Shown, NoMessage, BeforeSteps,
         PlaySteps, AfterSteps
<1>3. StateFollows /\ Outlived /\ NowPlayingReported /\ StopHasCaller
  BY DEF Init, StateFollows, Outlived, NowPlayingReported, StopHasCaller, PlaySteps, AfterSteps,
         StopSteps
<1>4. StopBits
  BY DEF Init, StopBits, StreamSuccessMeansStopped, Working, BeforeSteps, PlaySteps,
         AfterSteps
<1> QED BY <1>1, <1>2, <1>3, <1>4 DEF IInv

\* The inductive invariant holds in every reachable state of the player.
THEOREM Inductive == Spec => []IInv
<1>1. IInv /\ [Next]_vars => IInv'
  BY TypeStep, FlowStep, NamesStep, StateFollowsStep, StopBitsStep, OutlivedStep,
     ReportedStep, StopHasCallerStep DEF IInv
<1> QED BY IInvInit, <1>1, PTL DEF Spec

\* The state of player.c is well formed at all times.
THEOREM TypeCorrect == Spec => []TypeOK
<1>1. IInv => TypeOK
  BY DEF IInv
<1> QED BY Inductive, <1>1, PTL

\* player_start's message is always in exactly one place while player_start waits,
\* and nowhere otherwise: xQueueSend(back_queue) never finds the slot taken.
THEOREM MessageConserved == Spec => []OneMessageInFlight
<1>1. ASSUME IInv PROVE OneMessageInFlight
  <2>1. Len(queue) = (IF queue = <<>> THEN 0 ELSE 1)
    BY <1>1, OneSlot DEF IInv, TypeOK
  <2>2. Len(back_queue) = (IF back_queue = <<>> THEN 0 ELSE 1)
    BY <1>1, OneSlot DEF IInv, TypeOK
  <2>3. CASE At(Starter, "start_receive")
    BY <1>1, <2>1, <2>2, <2>3 DEF IInv, Flow, OneMessageInFlight
  <2>4. CASE ~At(Starter, "start_receive")
    BY <1>1, <2>1, <2>2, <2>4 DEF IInv, Flow, OneMessageInFlight
  <2> QED BY <2>3, <2>4
<1> QED BY Inductive, <1>1, PTL

\* player_start returns the result of its own name.
THEOREM OwnResult == Spec => []ResultIsOwn
<1>1. IInv => ResultIsOwn
  BY DEF IInv, Flow, ResultIsOwn
<1> QED BY Inductive, <1>1, PTL

\* Memory safety of file names: no dangling now_playing, no freed name in use.
THEOREM MemorySafe == Spec => []NamesAlive
<1>1. IInv => NamesAlive
  BY DEF IInv, TypeOK, Flow, Names, NotHandedOver, NamesAlive, Shown, NoMessage,
         BeforeSteps, PlaySteps, AfterSteps
<1> QED BY Inductive, <1>1, PTL

\* No file name is leaked: every allocated name has an owner that frees it.
THEOREM Leakless == Spec => []NoLeak
<1>1. IInv => NoLeak
  BY DEF IInv, Flow, Names, NotHandedOver, NoLeak
<1> QED BY Inductive, <1>1, PTL

\* Both together: allocation and release of file names balance on every path.
THEOREM NamesBalance == Spec => []NamesAccounted
<1>1. NamesAlive /\ NoLeak => NamesAccounted
  BY DEF NamesAccounted
<1> QED BY MemorySafe, Leakless, <1>1, PTL

\* play_stream never mistakes an old PLAYER_STOPPED for a stop of this stream.
THEOREM SuccessMeansStopped == Spec => []StreamSuccessMeansStopped
<1>1. IInv => StreamSuccessMeansStopped
  BY DEF IInv, StopBits
<1> QED BY Inductive, <1>1, PTL

\* player_stop returning true means the play it found has ended, for any number of
\* concurrent callers.
THEOREM StopTrueIsTrue == Spec => []StopTrueMeansEnded
<1>1. IInv => StopTrueMeansEnded
  BY DEF IInv, Outlived, StopTrueMeansEnded
<1> QED BY Inductive, <1>1, PTL

\* No PLAYER_STOP is left behind: while it is set, some task is inside player_stop.
THEOREM StopRequestsOwned == Spec => []StopHasCaller
<1>1. IInv => StopHasCaller
  BY DEF IInv
<1> QED BY Inductive, <1>1, PTL

\* No change of now_playing is missed by the remote control task.
THEOREM ReportsComplete == Spec => []NowPlayingReported
<1>1. IInv => NowPlayingReported
  BY DEF IInv
<1> QED BY Inductive, <1>1, PTL

\* Every step of the player is a step of the service it promises, or leaves the
\* service alone.
LEMMA ServiceStep == IInv /\ IInv' /\ [Next]_vars => [Service!Next]_(Service!vars)
<1> SUFFICES ASSUME IInv, IInv', [Next]_vars PROVE [Service!Next]_(Service!vars)
  OBVIOUS
<1> USE DEF HoldsName, PlaySteps, BeforeSteps, AfterSteps, ClosingSteps,
    StopSteps, StartSteps, Service!Next, Service!vars, Service!Request,
    Service!Begin, Service!Finish, Service!Return
<1>1. ASSUME NEW t \in Callers, CallerNext(t) PROVE [Service!Next]_(Service!vars)
  <2>1. CASE StopCall(t) \/ StopSet(t) \/ WaitCheck(t) \/ WaitClear(t) \/ WaitBits(t) \/ WaitDone(t) \/ StopClear(t)
    BY <1>1, <2>1 DEF IInv, TypeOK, Flow, Names, NotHandedOver, Shown, Working,
        Stage, Messages, StopCall, StopSet, WaitCheck, WaitClear, WaitBits,
        WaitDone, StopClear
  <2> QED BY <1>1, <2>1 DEF CallerNext
<1>2. CASE StartCall \/ StartRefused \/ StartAlloc \/ StartClear
  BY <1>2 DEF IInv, TypeOK, Flow, Names, NotHandedOver, Shown, Working, Stage,
      Messages, StartCall, StartRefused, StartAlloc, StartClear
<1>3. CASE StartSend
  BY <1>3 DEF IInv, TypeOK, Flow, Names, NotHandedOver, Shown, Working, Stage,
      Messages, StartSend
<1>4. CASE StartReceive
  BY <1>4 DEF IInv, TypeOK, Flow, Names, NotHandedOver, Shown, Working, Stage,
      Messages, StartReceive
<1>5. CASE PlayerReceive
  BY <1>5 DEF IInv, TypeOK, Flow, Names, NotHandedOver, Shown, Working, Stage,
      Messages, PlayerReceive
<1>6. CASE ShowName
  BY <1>6 DEF IInv, TypeOK, Flow, Names, NotHandedOver, Shown, Working, Stage,
      Messages, ShowName, SetNowPlaying
<1>7. CASE KickStarted \/ SetPlaying
  BY <1>7 DEF IInv, TypeOK, Flow, Names, NotHandedOver, Shown, Working, Stage,
      Messages, KickStarted, ForceCycle, SetPlaying, SetState
<1>8. CASE BeginPlay
  BY <1>8 DEF IInv, TypeOK, Flow, Names, NotHandedOver, Shown, Working, Stage,
      Messages, BeginPlay, SignalChange
<1>9. CASE OpenFileFails \/ OpenFile \/ ReadBlock \/ ReadStarves \/ FileEnds \/ FilePlayed
  BY <1>9 DEF IInv, TypeOK, Flow, Names, NotHandedOver, Shown, Working, Stage,
      Messages, OpenFileFails, OpenFile, ReadBlock, ReadStarves, FileEnds, FilePlayed
<1>10. CASE StreamRefused
  BY <1>10 DEF IInv, TypeOK, Flow, Names, NotHandedOver, Shown, Working, Stage,
      Messages, StreamRefused, ErrorCallback
<1>11. CASE StreamStartFails
  BY <1>11 DEF IInv, TypeOK, Flow, Names, NotHandedOver, Shown, Working, Stage,
      Messages, StreamStartFails, ErrorCallback, NextTry
<1>12. CASE StreamBroken
  BY <1>12 DEF IInv, TypeOK, Flow, Names, NotHandedOver, Shown, Working, Stage,
      Messages, StreamBroken, ErrorCallback, NextTry
<1>13. CASE StreamStarts \/ StreamEnds \/ ReadStop \/ TakeStop \/ MarkStopped \/
    StreamStopped \/ ClearStopped
  BY <1>13 DEF IInv, TypeOK, Flow, Names, NotHandedOver, Shown, Working, Stage,
      Messages, StreamStarts, StreamEnds, ReadStop, TakeStop, MarkStopped,
      StreamStopped, ClearStopped
<1>14. CASE HideName
  BY <1>14 DEF IInv, TypeOK, Flow, Names, NotHandedOver, Shown, Working, Stage,
      Messages, HideName, SetNowPlaying
<1>15. CASE KickFinished
  BY <1>15 DEF IInv, TypeOK, Flow, Names, NotHandedOver, Shown, Working, Stage,
      Messages, KickFinished, ForceCycle
<1>16. CASE Answer
  BY <1>16 DEF IInv, TypeOK, Flow, Names, NotHandedOver, Shown, Working, Stage,
      Messages, Answer
<1>17. CASE SetStopped
  BY <1>17 DEF IInv, TypeOK, Flow, Names, NotHandedOver, Shown, Working, Stage,
      Messages, SetStopped, SetState
<1>18. CASE SignalStopped
  BY <1>18 DEF IInv, TypeOK, Flow, Names, NotHandedOver, Shown, Working, Stage,
      Messages, SignalStopped, SignalChange
<1>19. CASE FreeName
  BY <1>19 DEF IInv, TypeOK, Flow, Names, NotHandedOver, Shown, Working, Stage,
      Messages, FreeName
<1>20. CASE ControlWakes \/ ControlReports \/ ProbeTaken
  BY <1>20 DEF IInv, TypeOK, Flow, Names, NotHandedOver, Shown, Working, Stage,
      Messages, ControlWakes, ControlReports, ProbeTaken
<1>21. CASE UNCHANGED vars
  BY <1>21 DEF IInv, TypeOK, Flow, Names, NotHandedOver, Shown, Working, Stage, Messages
<1> QED BY <1>1, <1>2, <1>3, <1>4, <1>5, <1>6, <1>7, <1>8, <1>9, <1>10, <1>11,
    <1>12, <1>13, <1>14, <1>15, <1>16, <1>17, <1>18, <1>19, <1>20, <1>21 DEF Next,
    CallerNext, PlayerStop, PlayerStart, PlayerStep

\* player.c implements PlayService, for any tasks, names and retry counts.
THEOREM PlayerImplementsService == Spec => ImplementsService
<1>1. Init => Service!Init
  BY DEF Init, Service!Init, Stage
<1> QED BY Inductive, <1>1, ServiceStep, PTL DEF Spec, ImplementsService, Service!Spec

===============================================================================
