------------------------- MODULE CloudSchedulerProofs -------------------------
(***************************************************************************)
(* Proofs about CloudScheduler.tla and Traverse.tla, for any playlists,    *)
(* any missing files, any clock and any number of restarts: starting and   *)
(* stopping, the advertising, dates and times, and then the parser.        *)
(***************************************************************************)
EXTENDS CloudScheduler, SequenceTheorems, WellFoundedInduction, TLAPS

-------------------------------------------------------------------------------
(* Starting and stopping, if the task is dead 50 ms after STOPPED_BIT.     *)

\* The task plays exactly while it is inside player_start.
Playing ==
    /\ thread = [pc |-> thread.pc, at |-> thread.at]
    /\ stage = "none" <=> thread.pc \notin {"playing", "playing ad"}

\* thread_handle is set as long as the task runs, and STOPPED_BIT belongs to a task that
\* has ended: init finds neither a task nor the bit of an earlier one.
Handles ==
    /\ thread.pc # "off" => handle /\ ~late /\ "STOPPED" \notin bits
    /\ boss \in {"timer", "create"} => thread.pc = "off" /\ ~late /\ "STOPPED" \notin bits
    /\ boss = "delay" => thread.pc = "off"
    /\ quiet => boss = "idle" /\ thread.pc = "off"

StopInv == Playing /\ Handles

\* Every step keeps it.
LEMMA StopStep == ASSUME ~LateExit PROVE StopInv /\ [CloudNext]_vars => StopInv'
<1> SUFFICES ASSUME StopInv, [CloudNext]_vars PROVE StopInv'
    OBVIOUS
<1> USE DEF StopInv, Playing, Handles
<1>1. CASE InitClears
    <2>1. ~late
        BY <1>1, Zenon DEF InitClears
    <2> QED BY <1>1, <2>1 DEF InitClears, timerVars, taskVars, playerVars
<1>2. CASE InitTogglesTimer
    BY <1>2 DEF InitTogglesTimer, timerVars, taskVars, playerVars
<1>3. CASE InitCreates
    <2>1. /\ boss = "create" /\ boss' = "idle"
          /\ UNCHANGED <<bits, quiet, late, stage>>
        BY <1>3 DEF InitCreates, timerVars, playerVars
    <2>2. CASE handle' = TRUE /\ thread' = [pc |-> "create", at |-> 0]
        <3>1. handle'
            BY <2>2, Zenon
        <3> QED BY <2>1, <2>2, <3>1
    <2>3. CASE UNCHANGED <<handle, thread>>
        BY <2>1, <2>3
    <2> QED BY <1>3, <2>2, <2>3 DEF InitCreates
<1>4. CASE DeinitBegins
    BY <1>4 DEF DeinitBegins, timerVars, taskVars, playerVars
<1>5. CASE DeinitStopsPlayer
    BY <1>5 DEF DeinitStopsPlayer, timerVars, taskVars, playerVars
<1>6. CASE DeinitSetsStop
    BY <1>6 DEF DeinitSetsStop, timerVars, taskVars, playerVars
<1>7. CASE DeinitAwaits
    BY <1>7 DEF DeinitAwaits, timerVars, taskVars, playerVars
<1>8. CASE DeinitReturns
    BY <1>8 DEF DeinitReturns, timerVars, taskVars, playerVars
<1>9. CASE ThreadCreatesQueue
    BY <1>9 DEF ThreadCreatesQueue, Goto, bossVars, timerVars, playerVars
<1>10. CASE ThreadLoadsAds
    BY <1>10 DEF ThreadLoadsAds, Goto, LoadAds, bossVars, timerVars, playerVars
<1>11. CASE ThreadOpens
    BY <1>11 DEF ThreadOpens, bossVars, timerVars, playerVars
<1>12. CASE ThreadLeavesLoop
    BY <1>12 DEF ThreadLeavesLoop, Goto, bossVars, timerVars, playerVars
<1>13. CASE ThreadEndsWalk
    BY <1>13 DEF ThreadEndsWalk, bossVars, timerVars, playerVars
<1>14. CASE ThreadTakesOverride
    BY <1>14 DEF ThreadTakesOverride, Goto, bossVars, timerVars, playerVars
<1>15. CASE ThreadPlaysAd \/ AdStarts
    <2>1. CASE ThreadPlaysAd
        BY <2>1 DEF ThreadPlaysAd, PlayOrSkip, Goto, bossVars, timerVars, playerVars
    <2>2. CASE AdStarts
        BY <2>2 DEF AdStarts, StartPlay, Goto, bossVars, timerVars, playerVars, P!Request
    <2> QED BY <1>15, <2>1, <2>2
<1>16. CASE AdReturns
    BY <1>16 DEF AdReturns, Goto, bossVars, timerVars, P!Return
<1>17. CASE ThreadResetsQueue
    BY <1>17 DEF ThreadResetsQueue, Goto, bossVars, timerVars, playerVars
<1>18. CASE ThreadPlaysTrack \/ TrackStarts
    <2>1. CASE ThreadPlaysTrack
        BY <2>1 DEF ThreadPlaysTrack, PlayOrSkip, Goto, bossVars, timerVars, playerVars
    <2>2. CASE TrackStarts
        BY <2>2 DEF TrackStarts, StartPlay, Goto, bossVars, timerVars, playerVars, P!Request
    <2> QED BY <1>18, <2>1, <2>2
<1>19. CASE TrackReturns
    BY <1>19 DEF TrackReturns, Goto, bossVars, timerVars, P!Return
<1>20. CASE ThreadSkipsAd
    BY <1>20 DEF ThreadSkipsAd, Goto, bossVars, timerVars, playerVars
<1>21. CASE ThreadTurnsToNext
    BY <1>21 DEF ThreadTurnsToNext, bossVars, timerVars, playerVars
<1>22. CASE ThreadFreesAds
    BY <1>22 DEF ThreadFreesAds, Goto, bossVars, timerVars, playerVars
<1>23. CASE ThreadDeletesQueue
    BY <1>23 DEF ThreadDeletesQueue, Goto, bossVars, timerVars, playerVars
<1>24. CASE ThreadSetsStopped
    BY <1>24 DEF ThreadSetsStopped, timerVars, playerVars
<1>25. CASE ThreadForgetsHandle
    BY <1>25 DEF ThreadForgetsHandle, timerVars, playerVars
<1>26. CASE TimerObeys
    BY <1>26 DEF TimerObeys, taskVars, playerVars
<1>27. CASE TimerFindsAd
    BY <1>27 DEF TimerFindsAd, bossVars, taskVars, playerVars
<1>28. CASE TimerSendsAd
    BY <1>28 DEF TimerSendsAd, bossVars, playerVars
<1>29. CASE TimerStopsPlayer
    BY <1>29 DEF TimerStopsPlayer, bossVars, taskVars, playerVars
<1>30. CASE PlayerStep
    BY <1>30 DEF PlayerStep, bossVars, timerVars, taskVars, P!Begin, P!Finish
<1>31. CASE UNCHANGED vars
    BY <1>31 DEF vars, bossVars, timerVars, taskVars, playerVars
<1> QED
    BY <1>1, <1>2, <1>3, <1>4, <1>5, <1>6, <1>7, <1>8, <1>9, <1>10, <1>11, <1>12, <1>13,
       <1>14, <1>15, <1>16, <1>17, <1>18, <1>19, <1>20, <1>21, <1>22, <1>23, <1>24,
       <1>25, <1>26, <1>27, <1>28, <1>29, <1>30, <1>31
       DEF CloudNext, BossStep, ThreadStep

\* The property, from the first state on.
THEOREM StopInvariant == ASSUME ~LateExit PROVE CloudSpec => []StopInv
<1>1. CloudInit => StopInv
    BY DEF CloudInit, P!Init, StopInv, Playing, Handles
<1> QED BY <1>1, StopStep, PTL DEF CloudSpec

\* If the 50 ms after STOPPED_BIT suffice, nothing plays after cloud_scheduler_deinit has
\* returned, over any number of restarts and whatever the timer does.
THEOREM StoppedStaysSilent == ASSUME ~LateExit PROVE CloudSpec => []StoppedIsSilent
<1>1. StopInv => StoppedIsSilent
    BY DEF StopInv, Playing, Handles, StoppedIsSilent
<1> QED BY <1>1, StopInvariant, PTL

\* From the call of deinit to the end of its wait, and before that as long as the handle
\* says that there is a task, the task runs or has left its STOPPED_BIT; init starts without
\* a handle.  This needs nothing of the 50 ms: what a late task can still do is to take the
\* handle away.
Awaited ==
    /\ thread = [pc |-> thread.pc, at |-> thread.at]
    /\ \/ boss \in {"stop", "bit", "await"}
       \/ boss = "idle" /\ handle /\ ~quiet
       => thread.pc # "off" \/ "STOPPED" \in bits
    /\ boss \in {"timer", "create"} => ~handle

\* Every step keeps it.
LEMMA AwaitedStep == Awaited /\ [CloudNext]_vars => Awaited'
<1> SUFFICES ASSUME Awaited, [CloudNext]_vars PROVE Awaited'
    OBVIOUS
<1> USE DEF Awaited
<1>1. CASE InitClears
    <2>1. boss' = "timer" /\ ~handle' /\ UNCHANGED thread
        BY <1>1, Zenon DEF InitClears, taskVars
    <2> QED BY <2>1
<1>2. CASE InitTogglesTimer
    BY <1>2 DEF InitTogglesTimer, taskVars
<1>3. CASE InitCreates
    <2>1. /\ boss = "create" /\ boss' = "idle" /\ ~handle
          /\ \/ thread' = [pc |-> "create", at |-> 0]
             \/ UNCHANGED <<handle, thread>>
        BY <1>3 DEF InitCreates
    <2> QED BY <2>1
<1>4. CASE DeinitBegins
    <2>1. /\ boss = "idle" /\ ~quiet /\ UNCHANGED <<bits, handle, thread>>
          /\ (handle /\ boss' = "stop") \/ (~handle /\ UNCHANGED boss)
        BY <1>4, Zenon DEF DeinitBegins, taskVars
    <2> QED BY <2>1
<1>5. CASE DeinitStopsPlayer \/ DeinitSetsStop
    BY <1>5 DEF DeinitStopsPlayer, DeinitSetsStop, taskVars
<1>6. CASE DeinitAwaits
    BY <1>6 DEF DeinitAwaits, taskVars
<1>7. CASE DeinitReturns
    <2>1. boss' = "idle" /\ quiet' /\ UNCHANGED thread
        BY <1>7, Zenon DEF DeinitReturns, taskVars
    <2> QED BY <2>1
<1>8. CASE ThreadSetsStopped
    BY <1>8 DEF ThreadSetsStopped
<1>9. CASE ThreadForgetsHandle
    <2>1. ~handle' /\ UNCHANGED <<boss, quiet, bits, thread>>
        BY <1>9, Zenon DEF ThreadForgetsHandle
    <2> QED BY <2>1
<1>10. ASSUME NEW pc, pc # "off", UNCHANGED bossVars,
              Goto(pc) \/ \E i : thread' = [pc |-> pc, at |-> i]
       PROVE  Awaited'
    BY <1>10 DEF bossVars, Goto
<1>11. CASE ThreadCreatesQueue \/ ThreadLoadsAds \/ ThreadLeavesLoop \/ ThreadFreesAds
            \/ ThreadDeletesQueue
    BY <1>10, <1>11
       DEF ThreadCreatesQueue, ThreadLoadsAds, ThreadLeavesLoop, ThreadFreesAds,
           ThreadDeletesQueue
<1>12. CASE ThreadOpens \/ ThreadEndsWalk \/ ThreadTurnsToNext
    BY <1>10, <1>12 DEF ThreadOpens, ThreadEndsWalk, ThreadTurnsToNext
<1>13. CASE ThreadTakesOverride \/ AdReturns \/ ThreadResetsQueue \/ TrackReturns \/ ThreadSkipsAd
    BY <1>10, <1>13
       DEF ThreadTakesOverride, AdReturns, ThreadResetsQueue, TrackReturns, ThreadSkipsAd
<1>14. CASE ThreadPlaysAd \/ ThreadPlaysTrack \/ AdStarts \/ TrackStarts
    BY <1>10, <1>14 DEF ThreadPlaysAd, ThreadPlaysTrack, AdStarts, TrackStarts, PlayOrSkip, StartPlay
<1>15. CASE TimerObeys \/ TimerFindsAd \/ TimerStopsPlayer \/ PlayerStep
    BY <1>15 DEF TimerObeys, TimerFindsAd, TimerStopsPlayer, PlayerStep, bossVars, taskVars
<1>16. CASE TimerSendsAd
    BY <1>16 DEF TimerSendsAd, bossVars
<1>17. CASE UNCHANGED vars
    BY <1>17 DEF vars, bossVars, taskVars
<1> QED
    BY <1>1, <1>2, <1>3, <1>4, <1>5, <1>6, <1>7, <1>8, <1>9, <1>11, <1>12, <1>13, <1>14,
       <1>15, <1>16, <1>17 DEF CloudNext, BossStep, ThreadStep

\* cloud_scheduler_deinit, which waits without a limit, never waits for a task that is not
\* there: not after a failed creation, nor a task that ended by itself, nor with the task of
\* an earlier start still on its last statement.
THEOREM DeinitHasTask == CloudSpec => []DeinitAwaitsTask
<1>1. CloudInit => Awaited
    BY DEF CloudInit, Awaited
<1>2. Awaited => DeinitAwaitsTask
    BY DEF Awaited, DeinitAwaitsTask
<1> QED BY <1>1, <1>2, AwaitedStep, PTL DEF CloudSpec

-------------------------------------------------------------------------------
(* The advertising tracks, if the timer task is not held up over a restart.*)

\* advertising_init makes a list, whatever the parser handed out.
LEMMA AdsAreNumbered == ASSUME NEW t PROVE DOMAIN AdvertisingTracks(t) \subseteq Nat
<1>1. ASSUME NEW s, NEW n PROVE DOMAIN SubSeq(s, 1, n) \subseteq Nat
    OBVIOUS
<1>2. \E s, n : AdvertisingTracks(t) = SubSeq(s, 1, n)
    BY Zenon DEF AdvertisingTracks
<1> QED BY <1>1, <1>2, Zenon

\* advertising_now finds one of the tracks it is given.
LEMMA DueIsAd ==
    ASSUME NEW a, DOMAIN a \subseteq Nat, NEW date, NEW second,
           AdvertisingNow(a, date, second) # 0
    PROVE  AdvertisingNow(a, date, second) \in DOMAIN a
<1> DEFINE due == {j \in DOMAIN a : IsDue(a[j], date, second)}
           R == {ss \in Nat \X Nat : ss[1] < ss[2]}
<1>1. due # {}
    BY Zenon DEF AdvertisingNow
<1>2. AdvertisingNow(a, date, second) = CHOOSE j \in due : \A i \in due : j <= i
    BY <1>1, Zenon DEF AdvertisingNow
<1>3. due \in SUBSET Nat /\ due \subseteq DOMAIN a
    OBVIOUS
<1>4. IsWellFoundedOn(R, Nat)
    BY NatLessThanWellFounded, Zenon DEF OpToRel
<1> HIDE DEF due
<1>5. PICK x \in due : \A y \in due : ~(<<y, x>> \in R)
    <2> HIDE DEF R
    <2> QED BY <1>1, <1>3, <1>4, WFMin
<1>6. ASSUME NEW y \in due PROVE x <= y
    <2>1. ~(<<y, x>> \in R) /\ <<y, x>> \in Nat \X Nat
        BY <1>3, <1>5
    <2>2. ~(<<y, x>>[1] < <<y, x>>[2])
        BY <2>1, Zenon
    <2> QED BY <1>3, <2>2
<1>7. (CHOOSE j \in due : \A i \in due : j <= i) \in due
    BY <1>6, Zenon
<1> QED BY <1>2, <1>3, <1>7, Zenon

\* A pointer to a track that has not been freed.
Fresh(ad) == ad.gen = ads.gen /\ ad.index \in DOMAIN ads.tracks

\* The steps between advertising_init and advertising_deinit.
Walking ==
    thread.pc \in {"loop", "walk", "ad", "asking ad", "playing ad", "reset", "check", "asking",
                   "playing", "next", "free"}

Shapes ==
    /\ thread = [pc |-> thread.pc, at |-> thread.at]
    /\ ads = [gen |-> ads.gen, tracks |-> ads.tracks] /\ DOMAIN ads.tracks \subseteq Nat
    /\ callback = [pc |-> callback.pc, ad |-> callback.ad]

\* The tracks are there only between init and deinit, so a callback that finds one begins
\* then; none is under way while the next list is made, for a new queue.
Loaded ==
    /\ ~Walking => DOMAIN ads.tracks = {}
    /\ boss \in {"timer", "create"} => thread.pc = "off"
    /\ boss \in {"timer", "create"} \/ thread.pc \in {"create", "load"} => callback.pc = "idle"
    /\ thread.pc = "load" => queue.items = <<>>

\* The track that the callback is about to send, the one in the queue and the one being
\* played.
FreshAds ==
    /\ Walking /\ callback.pc = "send" => Fresh(callback.ad)
    /\ Walking /\ queue.items # <<>> => Fresh(queue.items[1])
    /\ thread.pc \in {"ad", "asking ad", "playing ad"} => Fresh(override)

AdsInv == Shapes /\ Loaded /\ FreshAds

\* Every step keeps it.
LEMMA AdsStep == ASSUME ~SlowTimer PROVE AdsInv /\ [CloudNext]_vars => AdsInv'
<1> SUFFICES ASSUME AdsInv, [CloudNext]_vars PROVE AdsInv'
    OBVIOUS
<1> USE DEF AdsInv, Shapes, Loaded, FreshAds, Fresh, Walking, NoQueue, EmptyQueue
<1>1. CASE InitClears
    <2>1. callback.pc = "idle"
        BY <1>1, Zenon DEF InitClears, TimerQuiet
    <2> QED BY <1>1, <2>1 DEF InitClears, timerVars, taskVars
<1>2. CASE InitTogglesTimer
    BY <1>2 DEF InitTogglesTimer, timerVars, taskVars
<1>3. CASE InitCreates
    <2>1. /\ boss = "create" /\ boss' = "idle"
          /\ UNCHANGED <<queue, ads, override, callback>>
        BY <1>3 DEF InitCreates, timerVars
    <2>2. thread' = [pc |-> "create", at |-> 0] \/ thread' = thread
        BY <1>3, Zenon DEF InitCreates
    <2>3. CASE thread' = thread
        BY <2>1, <2>3
    <2>4. CASE thread' = [pc |-> "create", at |-> 0]
        BY <2>1, <2>4
    <2> QED BY <2>2, <2>3, <2>4
<1>4. CASE DeinitBegins
    BY <1>4 DEF DeinitBegins, timerVars, taskVars
<1>5. CASE DeinitStopsPlayer
    BY <1>5 DEF DeinitStopsPlayer, timerVars, taskVars
<1>6. CASE DeinitSetsStop
    BY <1>6 DEF DeinitSetsStop, timerVars, taskVars
<1>7. CASE DeinitAwaits
    BY <1>7 DEF DeinitAwaits, timerVars, taskVars
<1>8. CASE DeinitReturns
    BY <1>8 DEF DeinitReturns, timerVars, taskVars
<1>9. CASE ThreadCreatesQueue
    <2>1. /\ thread' = [thread EXCEPT !.pc = "load"] /\ thread.pc = "create"
          /\ UNCHANGED <<bits, boss, starts, quiet, handle, commands, timer, callback, ads, override, late>>
        BY <1>9 DEF ThreadCreatesQueue, Goto, bossVars, timerVars
    <2>2. CASE queue' = EmptyQueue
        BY <2>1, <2>2
    <2>3. CASE queue' = NoQueue
        BY <2>1, <2>3
    <2> QED BY <1>9, <2>2, <2>3 DEF ThreadCreatesQueue
<1>10. CASE ThreadLoadsAds
    <2>1. PICK new : ads' = [gen |-> (ads.gen + 1) % 3, tracks |-> new] /\ DOMAIN new \subseteq Nat
        BY <1>10, AdsAreNumbered DEF ThreadLoadsAds, LoadAds
    <2> QED BY <1>10, <2>1 DEF ThreadLoadsAds, Goto, bossVars, timerVars
<1>11. CASE ThreadOpens
    BY <1>11 DEF ThreadOpens, bossVars, timerVars
<1>12. CASE ThreadLeavesLoop
    BY <1>12 DEF ThreadLeavesLoop, Goto, bossVars, timerVars
<1>13. CASE ThreadEndsWalk
    BY <1>13 DEF ThreadEndsWalk, bossVars, timerVars
<1>14. CASE ThreadTakesOverride
    <2>1. thread.pc = "walk" /\ UNCHANGED <<boss, ads, callback>>
        BY <1>14 DEF ThreadTakesOverride, bossVars, timerVars
    <2>2. CASE queue.items = <<>>
        BY <1>14, <2>1, <2>2 DEF ThreadTakesOverride, Goto
    <2>3. CASE queue.items # <<>>
        <3>1. /\ thread' = [thread EXCEPT !.pc = "ad"]
              /\ override' = queue.items[1] /\ queue' = EmptyQueue
            BY <1>14, <2>3, Zenon DEF ThreadTakesOverride, Goto
        <3>2. queue'.items = <<>>
            BY <3>1
        <3>3. Fresh(queue.items[1])
            BY <2>1, <2>3
        <3> QED BY <2>1, <3>1, <3>2, <3>3
    <2> QED BY <2>2, <2>3
<1>15. CASE ThreadPlaysAd \/ AdStarts
    BY <1>15 DEF ThreadPlaysAd, AdStarts, PlayOrSkip, StartPlay, Goto, bossVars, timerVars
<1>16. CASE AdReturns
    BY <1>16 DEF AdReturns, Goto, bossVars, timerVars
<1>17. CASE ThreadResetsQueue
    BY <1>17 DEF ThreadResetsQueue, Goto, bossVars, timerVars
<1>18. CASE ThreadPlaysTrack \/ TrackStarts
    BY <1>18 DEF ThreadPlaysTrack, TrackStarts, PlayOrSkip, StartPlay, Goto, bossVars, timerVars
<1>19. CASE TrackReturns
    BY <1>19 DEF TrackReturns, Goto, bossVars, timerVars
<1>20. CASE ThreadSkipsAd
    BY <1>20 DEF ThreadSkipsAd, Goto, bossVars, timerVars
<1>21. CASE ThreadTurnsToNext
    BY <1>21 DEF ThreadTurnsToNext, bossVars, timerVars
<1>22. CASE ThreadFreesAds
    BY <1>22 DEF ThreadFreesAds, Goto, bossVars, timerVars
<1>23. CASE ThreadDeletesQueue
    BY <1>23 DEF ThreadDeletesQueue, Goto, bossVars, timerVars
<1>24. CASE ThreadSetsStopped
    BY <1>24 DEF ThreadSetsStopped, timerVars
<1>25. CASE ThreadForgetsHandle
    BY <1>25 DEF ThreadForgetsHandle, timerVars
<1>26. CASE TimerObeys
    BY <1>26 DEF TimerObeys, taskVars
<1>27. CASE TimerFindsAd
    <2>1. PICK j \in DOMAIN ads.tracks :
              callback' = [pc |-> "send", ad |-> [gen |-> ads.gen, index |-> j]]
        BY <1>27, DueIsAd DEF TimerFindsAd
    <2> QED BY <1>27, <2>1 DEF TimerFindsAd, bossVars, taskVars
<1>28. CASE TimerSendsAd
    BY <1>28 DEF TimerSendsAd, bossVars
<1>29. CASE TimerStopsPlayer
    BY <1>29 DEF TimerStopsPlayer, bossVars, taskVars
<1>30. CASE PlayerStep
    BY <1>30 DEF PlayerStep, bossVars, timerVars, taskVars
<1>31. CASE UNCHANGED vars
    BY <1>31 DEF vars, bossVars, timerVars, taskVars
<1> QED
    BY <1>1, <1>2, <1>3, <1>4, <1>5, <1>6, <1>7, <1>8, <1>9, <1>10, <1>11, <1>12, <1>13,
       <1>14, <1>15, <1>16, <1>17, <1>18, <1>19, <1>20, <1>21, <1>22, <1>23, <1>24,
       <1>25, <1>26, <1>27, <1>28, <1>29, <1>30, <1>31
       DEF CloudNext, BossStep, ThreadStep

\* From the first state on.
THEOREM AdsInvariant == ASSUME ~SlowTimer PROVE CloudSpec => []AdsInv
<1>1. CloudInit => AdsInv
    BY DEF CloudInit, AdsInv, Shapes, Loaded, FreshAds, Fresh, Walking, NoQueue
<1> QED BY <1>1, AdsStep, PTL DEF CloudSpec

\* If the timer task is not held up in its callback over a restart, the advertising track
\* that the scheduler plays has not been freed, even where the task of an earlier start is
\* late to end (LateExit).
THEOREM OverrideStaysAlive == ASSUME ~SlowTimer PROVE CloudSpec => []OverrideAlive
<1>1. AdsInv => OverrideAlive
    BY DEF AdsInv, FreshAds, Fresh, OverrideAlive
<1> QED BY <1>1, AdsInvariant, PTL

-------------------------------------------------------------------------------
(* Dates and times as numbers.                                             *)

\* The order of the calendar.
NotAfter(a, b) ==
    \/ a.year < b.year
    \/ a.year = b.year /\ a.month < b.month
    \/ a.year = b.year /\ a.month = b.month /\ a.day <= b.day

\* The number that datetime.c makes of a date, which is neither days nor a calendar, keeps
\* the order of the dates.
LEMMA DatesInOrder ==
    ASSUME NEW a \in Dates, NEW b \in Dates
    PROVE  DateInt(a) <= DateInt(b) <=> NotAfter(a, b)
<1>1. /\ a.day \in 1..31 /\ a.month \in 1..12 /\ a.year \in Nat
      /\ b.day \in 1..31 /\ b.month \in 1..12 /\ b.year \in Nat
    BY DEF Dates
<1> DEFINE d == a.day   m == a.month   y == a.year
           e == b.day   n == b.month   z == b.year
<1>2. /\ DateInt(a) = y * 1000 + m * 40 + d /\ DateInt(b) = z * 1000 + n * 40 + e
      /\ NotAfter(a, b) <=> y < z \/ (y = z /\ m < n) \/ (y = z /\ m = n /\ d <= e)
    BY DEF DateInt, NotAfter
<1> HIDE DEF d, m, y, e, n, z
<1>3. d \in 1..31 /\ m \in 1..12 /\ y \in Nat /\ e \in 1..31 /\ n \in 1..12 /\ z \in Nat
    BY <1>1 DEF d, m, y, e, n, z
<1>4. y * 1000 + m * 40 + d <= z * 1000 + n * 40 + e
        <=> y < z \/ (y = z /\ m < n) \/ (y = z /\ m = n /\ d <= e)
    BY <1>3
<1> QED BY <1>2, <1>4

\* Two times of the day are the same second only if they are the same.
LEMMA SecondsDistinct ==
    ASSUME NEW a \in Times, NEW b \in Times
    PROVE  SecondsInt(a) = SecondsInt(b) <=> a = b
<1>1. /\ a.h \in 0..23 /\ a.m \in 0..59 /\ a.s \in 0..59
      /\ b.h \in 0..23 /\ b.m \in 0..59 /\ b.s \in 0..59
    BY DEF Times
<1>2. SecondsInt(a) = SecondsInt(b) => a.h = b.h /\ a.m = b.m /\ a.s = b.s
    <2> DEFINE h == a.h   m == a.m   s == a.s
               i == b.h   n == b.m   t == b.s
    <2>1. SecondsInt(a) = h * 3600 + m * 60 + s /\ SecondsInt(b) = i * 3600 + n * 60 + t
        BY DEF SecondsInt
    <2>2. h \in 0..23 /\ m \in 0..59 /\ s \in 0..59 /\ i \in 0..23 /\ n \in 0..59 /\ t \in 0..59
        BY <1>1
    <2> HIDE DEF h, m, s, i, n, t
    <2>3. h * 3600 + m * 60 + s = i * 3600 + n * 60 + t => h = i /\ m = n /\ s = t
        BY <2>2
    <2> QED BY <2>1, <2>3 DEF h, m, s, i, n, t
<1>3. a.h = b.h /\ a.m = b.m /\ a.s = b.s => a = b
    BY DEF Times
<1> QED BY <1>2, <1>3

\* advertising_now compares numbers and finds a track due exactly on the dates, first and
\* last included, and at the times that the server wrote.
THEOREM DueAsWritten ==
    ASSUME NEW file, NEW id, NEW type,
           NEW spans \in Seq([begin : Dates, end : Dates, times : Seq(Times)]),
           NEW date \in Dates, NEW time \in Times
    PROVE  IsDue(AsTrack([file |-> file, id |-> id, type |-> type, intervals |-> spans]),
                 DateInt(date), SecondsInt(time))
           <=> \E i \in DOMAIN spans :
                   /\ NotAfter(spans[i].begin, date) /\ NotAfter(date, spans[i].end)
                   /\ \E k \in DOMAIN spans[i].times : spans[i].times[k] = time
<1> DEFINE track == AsTrack([file |-> file, id |-> id, type |-> type, intervals |-> spans])
           Numbers(i) == [begin   |-> DateInt(spans[i].begin), end |-> DateInt(spans[i].end),
                          seconds |-> [k \in DOMAIN spans[i].times |->
                                          SecondsInt(spans[i].times[k])]]
<1>1. track.intervals = [i \in DOMAIN spans |-> Numbers(i)]
    BY DEF AsTrack
<1>2. ASSUME NEW i \in DOMAIN spans
      PROVE  /\ Numbers(i).begin <= DateInt(date) <=> NotAfter(spans[i].begin, date)
             /\ DateInt(date) <= Numbers(i).end <=> NotAfter(date, spans[i].end)
             /\ (\E k \in DOMAIN Numbers(i).seconds : Numbers(i).seconds[k] = SecondsInt(time))
                <=> (\E k \in DOMAIN spans[i].times : spans[i].times[k] = time)
    <2>1. spans[i] \in [begin : Dates, end : Dates, times : Seq(Times)]
        <3> DEFINE S == [begin : Dates, end : Dates, times : Seq(Times)]
        <3>1. spans \in Seq(S) /\ i \in DOMAIN spans
            OBVIOUS
        <3> HIDE DEF S
        <3>2. spans[i] \in S
            BY <3>1
        <3> QED BY <3>2 DEF S
    <2>2. spans[i].begin \in Dates /\ spans[i].end \in Dates
        BY <2>1
    <2>3. \A k \in DOMAIN spans[i].times : spans[i].times[k] \in Times
        BY <2>1
    <2>4. /\ Numbers(i).begin = DateInt(spans[i].begin) /\ Numbers(i).end = DateInt(spans[i].end)
          /\ Numbers(i).seconds = [k \in DOMAIN spans[i].times |-> SecondsInt(spans[i].times[k])]
        OBVIOUS
    <2> HIDE DEF Numbers
    <2>5. \A k \in DOMAIN spans[i].times :
              SecondsInt(spans[i].times[k]) = SecondsInt(time) <=> spans[i].times[k] = time
        BY <2>3, SecondsDistinct
    <2>6. (\E k \in DOMAIN Numbers(i).seconds : Numbers(i).seconds[k] = SecondsInt(time))
          <=> (\E k \in DOMAIN spans[i].times : spans[i].times[k] = time)
        BY <2>4, <2>5, Zenon
    <2>7. /\ DateInt(spans[i].begin) <= DateInt(date) <=> NotAfter(spans[i].begin, date)
          /\ DateInt(date) <= DateInt(spans[i].end) <=> NotAfter(date, spans[i].end)
        BY <2>2, DatesInOrder
    <2> QED BY <2>4, <2>6, <2>7, Zenon
<1> HIDE DEF track, Numbers
<1>3. IsDue(track, DateInt(date), SecondsInt(time)) <=>
        \E i \in DOMAIN spans :
            /\ Numbers(i).begin <= DateInt(date) /\ DateInt(date) <= Numbers(i).end
            /\ \E k \in DOMAIN Numbers(i).seconds : Numbers(i).seconds[k] = SecondsInt(time)
    <2>1. /\ DOMAIN track.intervals = DOMAIN spans
          /\ \A i \in DOMAIN spans : track.intervals[i] = Numbers(i)
        BY <1>1, Zenon
    <2> QED BY <2>1, Zenon DEF IsDue
<1> QED BY <1>2, <1>3, Zenon DEF track

-------------------------------------------------------------------------------
(* Induction.                                                              *)

\* Induction, with the numbers that have the property as a set.
LEMMA Induction ==
    ASSUME NEW S, 0 \in S, \A n \in Nat : n \in S => n + 1 \in S
    PROVE  Nat \subseteq S
<1> DEFINE T == Nat \ S
           R == {ss \in Nat \X Nat : ss[1] < ss[2]}
<1>1. IsWellFoundedOn(R, Nat)
    BY NatLessThanWellFounded, Zenon DEF OpToRel
<1>2. ASSUME T # {} PROVE FALSE
    <2>1. PICK x \in T : \A y \in T : ~(<<y, x>> \in R)
        <3>1. T \subseteq Nat
            OBVIOUS
        <3> HIDE DEF T, R
        <3> QED BY <1>1, <1>2, <3>1, WFMin
    <2>2. x \in Nat /\ x # 0 /\ x \notin S
        OBVIOUS
    <2>3. x - 1 \in Nat /\ (x - 1) + 1 = x
        BY <2>2
    <2>4. x - 1 \in T
        BY <2>2, <2>3
    <2>5. <<x - 1, x>> \in R
        BY <2>2, <2>3
    <2> QED BY <2>1, <2>4, <2>5
<1> QED BY <1>2

-------------------------------------------------------------------------------
(* The parser as a run over tokens: texts can be taken apart and put       *)
(* together, where a fold over all of them cannot.                         *)

\* A turn of the parser, or of the extraction.
Turn(p, c, t) == IF p = "parse" THEN TraverseNext(c, t) ELSE ExtractNext(c, t)

\* Either, started in state c, is in state d after the tokens s.
Walks(p, c, s, d) ==
    \E g : /\ DOMAIN g = 0..Len(s) /\ g[0] = c /\ g[Len(s)] = d
           /\ \A i \in 1..Len(s) : g[i] = Turn(p, g[i - 1], s[i])

\* No tokens, no turn.
LEMMA WalksNothing == ASSUME NEW p, NEW c PROVE Walks(p, c, <<>>, c)
<1> DEFINE g == [i \in 0..0 |-> c]
<1>1. Len(<<>>) = 0 /\ DOMAIN g = 0..0 /\ g[0] = c /\ 1..0 = {}
    OBVIOUS
<1> HIDE DEF g
<1> QED BY <1>1, Zenon DEF Walks

\* One token, one turn.
LEMMA WalksOne == ASSUME NEW p, NEW c, NEW t PROVE Walks(p, c, <<t>>, Turn(p, c, t))
<1> DEFINE g == [i \in 0..1 |-> IF i = 0 THEN c ELSE Turn(p, c, t)]
<1>1. Len(<<t>>) = 1 /\ <<t>>[1] = t /\ DOMAIN g = 0..1 /\ g[0] = c /\ g[1] = Turn(p, c, t)
    OBVIOUS
<1>2. \A i \in 1..1 : g[i] = Turn(p, g[i - 1], <<t>>[i])
    BY <1>1
<1> HIDE DEF g
<1> QED BY <1>1, <1>2 DEF Walks

\* One text after the other.
LEMMA WalksOn ==
    ASSUME NEW p, NEW T, NEW s \in Seq(T), NEW t \in Seq(T), NEW c, NEW d, NEW e,
           Walks(p, c, s, d), Walks(p, d, t, e)
    PROVE  Walks(p, c, s \o t, e)
<1>1. PICK g : /\ DOMAIN g = 0..Len(s) /\ g[0] = c /\ g[Len(s)] = d
               /\ \A i \in 1..Len(s) : g[i] = Turn(p, g[i - 1], s[i])
    BY DEF Walks
<1>2. PICK h : /\ DOMAIN h = 0..Len(t) /\ h[0] = d /\ h[Len(t)] = e
               /\ \A i \in 1..Len(t) : h[i] = Turn(p, h[i - 1], t[i])
    BY DEF Walks
<1>3. Len(s) \in Nat /\ Len(t) \in Nat
    BY LenProperties
<1>4. /\ Len(s \o t) = Len(s) + Len(t)
      /\ \A i \in 1..Len(s) + Len(t) : (s \o t)[i] = IF i <= Len(s) THEN s[i] ELSE t[i - Len(s)]
    BY ConcatProperties
<1> DEFINE m == Len(s)
           n == Len(t)
           j == [i \in 0..m + n |-> IF i <= m THEN g[i] ELSE h[i - m]]
<1>5. DOMAIN j = 0..m + n /\ j[0] = c
    BY <1>1, <1>3
<1>6. j[m + n] = e
    BY <1>1, <1>2, <1>3
<1>7. ASSUME NEW i \in 1..m + n PROVE j[i] = Turn(p, j[i - 1], (s \o t)[i])
    <2>1. CASE i <= m
        BY <1>1, <1>3, <1>4, <2>1
    <2>2. CASE i > m
        <3>1. i - m \in 1..n /\ j[i] = h[i - m] /\ (s \o t)[i] = t[i - m] /\ (i - 1) - m = (i - m) - 1
            BY <1>3, <1>4, <2>2
        <3>2. j[i - 1] = h[(i - m) - 1]
            <4>1. CASE i = m + 1
                <5>1. j[m] = g[m] /\ g[m] = h[0] /\ i - 1 = m /\ (i - m) - 1 = 0
                    BY <1>1, <1>2, <1>3, <4>1
                <5> QED BY <5>1
            <4>2. CASE i > m + 1
                BY <1>3, <4>2
            <4> QED BY <1>3, <2>2, <4>1, <4>2
        <3> QED BY <1>2, <3>1, <3>2
    <2> QED BY <1>3, <2>1, <2>2
<1> HIDE DEF j
<1> QED BY <1>4, <1>5, <1>6, <1>7 DEF Walks

\* The parser, started in context c, is in context d after the tokens s.
Runs(c, s, d) == Walks("parse", c, s, d)

\* The same for the parser alone: no tokens ...
LEMMA RunsNothing == ASSUME NEW c PROVE Runs(c, <<>>, c)
BY WalksNothing DEF Runs

\* ... one token ...
LEMMA RunsOne == ASSUME NEW c, NEW t PROVE Runs(c, <<t>>, TraverseNext(c, t))
<1>1. Walks("parse", c, <<t>>, Turn("parse", c, t)) /\ Turn("parse", c, t) = TraverseNext(c, t)
    BY WalksOne DEF Turn
<1> QED BY <1>1, Zenon DEF Runs

\* ... and one text after the other.
LEMMA RunsOn ==
    ASSUME NEW T, NEW s \in Seq(T), NEW t \in Seq(T), NEW c, NEW d, NEW e,
           Runs(c, s, d), Runs(d, t, e)
    PROVE  Runs(c, s \o t, e)
BY WalksOn DEF Runs

\* What a run over a whole text has collected is what traverse_playlist hands out: the run
\* and the fold over the tokens agree after every token.
LEMMA RunIsParse ==
    ASSUME NEW s, Len(s) \in Nat, NEW d, Runs(ContextInit, s, d)
    PROVE  TraversePlaylist(s) = d.calls
<1> DEFINE n == Len(s)
           F(c) == [i \in 0..n |-> IF i = 0 THEN ContextInit ELSE TraverseNext(c[i - 1], s[i])]
           f == CHOOSE c : c = F(c)
<1>1. TraversePlaylist(s) = f[n].calls
    BY DEF TraversePlaylist
<1>2. PICK g : /\ DOMAIN g = 0..n /\ g[0] = ContextInit /\ g[n] = d
               /\ \A i \in 1..n : g[i] = TraverseNext(g[i - 1], s[i])
    BY DEF Runs, Walks, Turn
<1>3. [i \in 0..n |-> g[i]] = F([i \in 0..n |-> g[i]])
    BY <1>2
<1>4. f = F(f)
    BY <1>3, Zenon
<1> HIDE DEF f
<1>5. f[0] = ContextInit /\ \A i \in 1..n : f[i] = TraverseNext(f[i - 1], s[i])
    BY <1>4
<1> DEFINE S == {k \in Nat : k <= n => f[k] = g[k]}
<1>6. 0 \in S
    BY <1>2, <1>5
<1>7. ASSUME NEW k \in Nat, k \in S PROVE k + 1 \in S
    <2>1. CASE k + 1 <= n
        <3>1. k + 1 \in 1..n /\ (k + 1) - 1 = k /\ k <= n
            BY <2>1
        <3>2. f[k] = g[k]
            BY <1>7, <3>1
        <3>3. f[k + 1] = g[k + 1]
            BY <1>2, <1>5, <3>1, <3>2
        <3> QED BY <3>3
    <2> QED BY <2>1
<1>8. n \in S
    <2> HIDE DEF S
    <2> QED BY <1>6, <1>7, Induction
<1>9. f[n] = g[n]
    BY <1>8
<1> QED BY <1>1, <1>2, <1>9

-------------------------------------------------------------------------------
(* Texts of texts.                                                         *)

\* The provers treat it as an unknown operator, except where its definition is used.
Cat(s, t) == s \o t

\* The sequences ss, one after the other: g[k] joins the first k of them.
Joins(n, ss, g) ==
    /\ DOMAIN g = 0..n /\ g[0] = <<>>
    /\ \A i \in 1..n : g[i] = Cat(g[i - 1], ss[i])

\* Every sequence of texts can be joined.
LEMMA JoinExists ==
    ASSUME NEW T, NEW n \in Nat, NEW ss, \A i \in 1..n : ss[i] \in Seq(T)
    PROVE  \E g : Joins(n, ss, g) /\ \A i \in 0..n : g[i] \in Seq(T)
<1> DEFINE Good(k) == \E g : Joins(k, ss, g) /\ \A i \in 0..k : g[i] \in Seq(T)
           S == {k \in Nat : k <= n => Good(k)}
<1>1. Good(0)
    <2> DEFINE g == [i \in 0..0 |-> <<>>]
    <2>1. DOMAIN g = 0..0 /\ g[0] = <<>> /\ (\A i \in 0..0 : g[i] \in Seq(T)) /\ 1..0 = {}
        OBVIOUS
    <2> HIDE DEF g
    <2> QED BY <2>1, Zenon DEF Joins
<1>2. ASSUME NEW k \in Nat, k + 1 <= n, Good(k) PROVE Good(k + 1)
    <2>1. PICK g : Joins(k, ss, g) /\ \A i \in 0..k : g[i] \in Seq(T)
        BY <1>2, Zenon
    <2> DEFINE next == Cat(g[k], ss[k + 1])
               h == [i \in 0..k + 1 |-> IF i = k + 1 THEN next ELSE g[i]]
    <2>2. next \in Seq(T)
        <3>1. g[k] \in Seq(T) /\ ss[k + 1] \in Seq(T)
            BY <1>2, <2>1
        <3> QED BY <3>1, ConcatProperties DEF Cat
    <2> HIDE DEF next
    <2>3. /\ DOMAIN h = 0..k + 1 /\ h[k + 1] = next
          /\ \A i \in 0..k : h[i] = g[i]
        OBVIOUS
    <2> HIDE DEF h
    <2>4. h[0] = <<>> /\ \A i \in 0..k + 1 : h[i] \in Seq(T)
        BY <2>1, <2>2, <2>3 DEF Joins
    <2>5. ASSUME NEW i \in 1..k + 1 PROVE h[i] = Cat(h[i - 1], ss[i])
        <3>1. CASE i = k + 1
            BY <2>3, <3>1 DEF next
        <3>2. CASE i # k + 1
            <4>1. i \in 1..k /\ h[i] = g[i] /\ h[i - 1] = g[i - 1]
                BY <2>3, <3>2
            <4> QED BY <2>1, <4>1 DEF Joins
        <3> QED BY <3>1, <3>2
    <2> QED BY <2>3, <2>4, <2>5, Zenon DEF Joins
<1> HIDE DEF Good
<1>3. 0 \in S /\ \A k \in Nat : k \in S => k + 1 \in S
    BY <1>1, <1>2
<1>4. n \in S
    <2> HIDE DEF S
    <2> QED BY <1>3, Induction
<1> QED BY <1>4 DEF Good

\* FlattenSeq joins them: it and the joins agree for every number of texts.
LEMMA FlattenJoins ==
    ASSUME NEW T, NEW n \in Nat, NEW ss, Len(ss) = n, n # 0, \A i \in 1..n : ss[i] \in Seq(T),
           NEW g, Joins(n, ss, g)
    PROVE  FlattenSeq(ss) = g[n]
<1> DEFINE F(c) == [i \in 1..n |-> IF i = 1 THEN ss[i] ELSE Cat(c[i - 1], ss[i])]
           f == CHOOSE c : c = F(c)
<1>1. FlattenSeq(ss) = f[n]
    BY Zenon DEF FlattenSeq, Cat
<1>2. g[1] = ss[1]
    <2>1. g[1] = Cat(<<>>, ss[1]) /\ ss[1] \in Seq(T)
        BY DEF Joins
    <2> QED BY <2>1, ConcatEmptySeq DEF Cat
<1>3. \A i \in 1..n : i # 1 => i - 1 \in 1..n /\ g[i] = Cat(g[i - 1], ss[i])
    BY DEF Joins
<1>4. [i \in 1..n |-> g[i]] = F([i \in 1..n |-> g[i]])
    BY <1>2, <1>3
<1>5. f = F(f)
    BY <1>4, Zenon
<1> HIDE DEF f
<1>6. 1 \in 1..n /\ \A i \in 1..n : f[i] = IF i = 1 THEN ss[i] ELSE Cat(f[i - 1], ss[i])
    BY <1>5
<1> DEFINE U == {k \in Nat : k + 1 <= n => f[k + 1] = g[k + 1]}
<1>7. 0 \in U
    BY <1>2, <1>6
<1>8. ASSUME NEW k \in Nat, k \in U PROVE k + 1 \in U
    <2> DEFINE i == (k + 1) + 1
    <2> SUFFICES ASSUME i <= n PROVE f[i] = g[i]
        OBVIOUS
    <2>1. f[k + 1] = g[k + 1] /\ i \in 1..n /\ i # 1 /\ i - 1 = k + 1
        BY <1>8
    <2>2. f[i] = Cat(f[k + 1], ss[i]) /\ g[i] = Cat(g[k + 1], ss[i])
        <3> HIDE DEF i
        <3> QED BY <1>3, <1>6, <2>1
    <2> QED BY <2>1, <2>2
<1>9. n - 1 \in U
    <2>1. n - 1 \in Nat
        OBVIOUS
    <2> HIDE DEF U
    <2> QED BY <1>7, <1>8, <2>1, Induction
<1>10. f[n] = g[n]
    BY <1>9
<1> QED BY <1>1, <1>10

\* FlattenSeq puts one sequence after the other.
LEMMA Flattened ==
    ASSUME NEW T, NEW n \in Nat, NEW ss \in [1..n -> Seq(T)]
    PROVE  \E g : /\ Joins(n, ss, g) /\ g[n] = FlattenSeq(ss)
                  /\ \A i \in 0..n : g[i] \in Seq(T)
<1>1. PICK g : Joins(n, ss, g) /\ \A i \in 0..n : g[i] \in Seq(T)
    BY JoinExists
<1>2. Len(ss) = n
    OBVIOUS
<1>3. CASE n = 0
    <2>1. ss = <<>>
        BY <1>3
    <2>2. FlattenSeq(ss) = ss
        BY <1>2, <1>3 DEF FlattenSeq
    <2> QED BY <1>1, <1>3, <2>1, <2>2 DEF Joins
<1>4. CASE n # 0
    <2>1. FlattenSeq(ss) = g[n]
        BY <1>1, <1>2, <1>4, FlattenJoins
    <2> QED BY <1>1, <2>1
<1> QED BY <1>3, <1>4

-------------------------------------------------------------------------------
(* A turn of the parser.                                                   *)

\* What a token does, by its kind: the beginning of an object ...
LEMMA NextOpen == ASSUME NEW c PROVE TraverseNext(c, <<"{">>) = HandOut(ResetKey(ObjectBegins(c)))
BY DEF TraverseNext

\* ... its end ...
LEMMA NextClose == ASSUME NEW c PROVE TraverseNext(c, <<"}">>) = HandOut(ResetKey(ObjectEnds(c)))
<1>1. <<"}">> # <<"{">>
    OBVIOUS
<1> QED BY <1>1 DEF TraverseNext

\* ... the beginning of a list ...
LEMMA NextList == ASSUME NEW c PROVE TraverseNext(c, <<"[">>) = HandOut(ResetKey(c))
<1>1. <<"[">> # <<"{">> /\ <<"[">> # <<"}">>
    OBVIOUS
<1> QED BY <1>1 DEF TraverseNext

\* ... its end ...
LEMMA NextListEnd == ASSUME NEW c PROVE TraverseNext(c, <<"]">>) = HandOut(ResetKey(ArrayEnds(c)))
<1>1. <<"]">> # <<"{">> /\ <<"]">> # <<"}">> /\ <<"]">> # <<"[">>
    OBVIOUS
<1> QED BY <1>1 DEF TraverseNext

\* ... a string, of which dates and times are two ...
LEMMA NextString ==
    ASSUME NEW c, NEW k \in {"str", "date", "time"}, NEW x
    PROVE  TraverseNext(c, <<k, x>>) = HandOut(StringFound(c, <<k, x>>))
<1>1. \A b : <<k, x>> # <<b>>
    <2>1. Len(<<k, x>>) = 2 /\ \A b : Len(<<b>>) = 1
        OBVIOUS
    <2> QED BY <2>1
<1>2. Len(<<k, x>>) = 2 /\ IsString(<<k, x>>)
    BY DEF IsString
<1> QED BY <1>1, <1>2 DEF TraverseNext

\* ... and a number or a literal.
LEMMA NextOther ==
    ASSUME NEW c, NEW k \in {"num", "lit"}, NEW x
    PROVE  TraverseNext(c, <<k, x>>) = HandOut(HelperNext(c, <<k, x>>))
<1>1. \A b : <<k, x>> # <<b>>
    <2>1. Len(<<k, x>>) = 2 /\ \A b : Len(<<b>>) = 1
        OBVIOUS
    <2> QED BY <2>1
<1>2. Len(<<k, x>>) = 2 /\ ~IsString(<<k, x>>)
    BY DEF IsString
<1> QED BY <1>1, <1>2 DEF TraverseNext

\* The parser's context, field by field.
Context(key, found, searching, called, calls, track) ==
    [key |-> key, found |-> found, searching |-> searching, called |-> called, calls |-> calls,
     track |-> track]

\* The track it is filling in.
Track(file, id, type, intervals) ==
    [file |-> file, id |-> id, type |-> type, intervals |-> intervals]

\* The parser has found what a track needs, as far as it knows.
Ready(found, type) ==
    {"id", "filename", "type"} \subseteq found /\ (type = "background" \/ "schedule_intervals" \in found)

\* Nothing is handed out.
LEMMA HandOutNothing ==
    ASSUME NEW key, NEW f, NEW S, NEW called, NEW calls, NEW file, NEW id, NEW type, NEW ivs,
           called = TRUE \/ ~Ready(f, type)
    PROVE  HandOut(Context(key, f, S, called, calls, Track(file, id, type, ivs)))
              = Context(key, f, S, called, calls, Track(file, id, type, ivs))
<1> DEFINE c == Context(key, f, S, called, calls, Track(file, id, type, ivs))
<1>1. c.called = called /\ (TrackReady(c) <=> Ready(f, type))
    BY DEF TrackReady, Ready, Context, Track
<1> HIDE DEF c
<1>2. HandOut(c) = c
    BY <1>1, Zenon DEF HandOut
<1> QED BY <1>2 DEF c

\* A key.
LEMMA ReadKey ==
    ASSUME NEW c, c.key = NoKey, "schedule" \notin c.searching,
           NEW word, word # "schedule", word # "schedule_intervals"
    PROVE  TraverseNext(c, Str(word)) = HandOut([c EXCEPT !.key = word])
<1> DEFINE t == <<"str", word>>
<1>1. TraverseNext(c, t) = HandOut(StringFound(c, t))
    BY NextString
<1>2. StringFound(c, t) = [c EXCEPT !.key = word]
    BY DEF StringFound, HelperNext, IsWord
<1> QED BY <1>1, <1>2 DEF Str

\* A value ends its key.
LEMMA HelperValue ==
    ASSUME NEW c, NEW t, c.key # NoKey
    PROVE  HelperNext(c, t) = [OnParse(c, t) EXCEPT !.key = NoKey]
BY DEF HelperNext

\* A change of the interval that was begun last.
LEMMA ChangeLast ==
    ASSUME NEW T, NEW pre \in Seq(T), NEW iv \in T, NEW w \in T
    PROVE  /\ Append(pre, iv) \in Seq(T) /\ Len(Append(pre, iv)) = Len(pre) + 1
           /\ Len(pre) + 1 > 0 /\ Append(pre, iv)[Len(pre) + 1] = iv
           /\ [Append(pre, iv) EXCEPT ![Len(pre) + 1] = w] = Append(pre, w)
<1>1. /\ Append(pre, iv) \in Seq(T) /\ Len(Append(pre, iv)) = Len(pre) + 1
      /\ Len(pre) \in Nat /\ Append(pre, iv)[Len(pre) + 1] = iv
      /\ \A i \in 1..Len(pre) : Append(pre, iv)[i] = pre[i]
    BY AppendProperties, LenProperties
<1>2. /\ Append(pre, w) \in Seq(T) /\ Len(Append(pre, w)) = Len(pre) + 1
      /\ Append(pre, w)[Len(pre) + 1] = w
      /\ \A i \in 1..Len(pre) : Append(pre, w)[i] = pre[i]
    BY AppendProperties
<1> DEFINE a == Append(pre, iv)   b == Append(pre, w)   n == Len(pre) + 1
           x == [a EXCEPT ![n] = w]
<1>3. /\ a \in Seq(T) /\ b \in Seq(T) /\ Len(a) = n /\ Len(b) = n /\ n \in 1..Len(a)
      /\ b[n] = w /\ \A i \in 1..n : i # n => a[i] = b[i]
    BY <1>1, <1>2
<1> HIDE DEF a, b, n
<1>4. x \in Seq(T) /\ Len(x) = Len(a) /\ \A j \in 1..Len(a) : x[j] = IF j = n THEN w ELSE a[j]
    BY <1>3, ExceptSeq
<1> HIDE DEF x
<1>5. x = b
    BY <1>3, <1>4, SeqEqual
<1> QED BY <1>1, <1>5 DEF a, b, n, x

-------------------------------------------------------------------------------
(* The intervals of a track.                                               *)

\* An interval as the parser keeps it.
Interval(begin, end, seconds) == [begin |-> begin, end |-> end, seconds |-> seconds]

\* All of them.
ParsedIntervals == [begin : Int, end : Int, seconds : Seq(Int)]

\* The parser is in the list of intervals, or in the times of the last one.
AtList(f, calls, file, id, type, ivs) ==
    Context(NoKey, f, {"schedule_intervals"}, FALSE, calls, Track(file, id, type, ivs))
AtTimes(f, calls, file, id, type, ivs) ==
    Context(NoKey, f, {"schedule_intervals", "schedule"}, FALSE, calls, Track(file, id, type, ivs))

\* An object in the list of intervals begins ...
LEMMA OpenInterval ==
    ASSUME NEW f, NEW calls, NEW file, NEW id, NEW type, ~Ready(f, type), NEW pre
    PROVE  TraverseNext(AtList(f, calls, file, id, type, pre), <<"{">>)
              = AtList(f, calls, file, id, type, Append(pre, Interval(0, 0, <<>>)))
<1> DEFINE c == Context(NoKey, f, {"schedule_intervals"}, FALSE, calls, Track(file, id, type, pre))
           more == Append(pre, Interval(0, 0, <<>>))
           d == Context(NoKey, f, {"schedule_intervals"}, FALSE, calls, Track(file, id, type, more))
<1>1. ObjectBegins(c) = d
    BY DEF ObjectBegins, Context, Track, Interval
<1>2. HandOut(ResetKey(d)) = d
    <2> HIDE DEF more
    <2> QED BY DEF ResetKey, HandOut, TrackReady, Context, Track, Ready
<1> HIDE DEF c, d
<1>3. TraverseNext(c, <<"{">>) = d
    BY <1>1, <1>2, NextOpen
<1> QED BY <1>3 DEF c, d, AtList

\* ... and ends.
LEMMA CloseInterval ==
    ASSUME NEW f, NEW calls, NEW file, NEW id, NEW type, ~Ready(f, type), NEW ivs
    PROVE  TraverseNext(AtList(f, calls, file, id, type, ivs), <<"}">>)
              = AtList(f, calls, file, id, type, ivs)
<1> DEFINE c == Context(NoKey, f, {"schedule_intervals"}, FALSE, calls, Track(file, id, type, ivs))
<1>1. HandOut(ResetKey(ObjectEnds(c))) = c
    BY DEF ObjectEnds, ResetKey, HandOut, TrackReady, Context, Track, Ready
<1> HIDE DEF c
<1>2. TraverseNext(c, <<"}">>) = c
    BY <1>1, NextClose
<1> QED BY <1>2 DEF c, AtList

\* The key of a bound of the interval that was begun last ...
AtBound(key, f, calls, file, id, type, ivs) ==
    Context(key, f, {"schedule_intervals"}, FALSE, calls, Track(file, id, type, ivs))

\* The interval with this bound set.
BoundRead(key, b, e, s, n) ==
    Interval(IF key = "begin" THEN n ELSE b, IF key = "end" THEN n ELSE e, s)

\* Reading that key.
LEMMA ReadBoundKey ==
    ASSUME NEW f, NEW calls, NEW file, NEW id, NEW type, ~Ready(f, type), NEW ivs,
           NEW key, key # "schedule", key # "schedule_intervals"
    PROVE  TraverseNext(AtList(f, calls, file, id, type, ivs), Str(key))
              = AtBound(key, f, calls, file, id, type, ivs)
<1> DEFINE S == {"schedule_intervals"}   no == FALSE   tr == Track(file, id, type, ivs)
           c == Context(NoKey, f, S, no, calls, tr)
           d == Context(key, f, S, no, calls, tr)
<1>1. "schedule" \notin S
    OBVIOUS
<1> HIDE DEF S, no
<1>2. c.key = NoKey /\ c.searching = S /\ [c EXCEPT !.key = key] = d
    <2> HIDE DEF tr
    <2> QED BY DEF Context
<1>3. HandOut(d) = d
    BY HandOutNothing
<1> HIDE DEF c, d
<1>4. TraverseNext(c, Str(key)) = d
    BY <1>1, <1>2, <1>3, ReadKey
<1> QED BY <1>4 DEF AtList, AtBound, S, no, c, d

\* ... and its value.
LEMMA ReadBound ==
    ASSUME NEW f, NEW calls, NEW file, NEW id, NEW type, ~Ready(f, type),
           NEW pre \in Seq(ParsedIntervals), NEW b \in Int, NEW e \in Int, NEW s \in Seq(Int),
           NEW key, key = "begin" \/ key = "end", NEW x, DateInt(x) \in Int
    PROVE  TraverseNext(AtBound(key, f, calls, file, id, type, Append(pre, Interval(b, e, s))),
                        <<"date", x>>)
              = AtList(f, calls, file, id, type, Append(pre, BoundRead(key, b, e, s, DateInt(x))))
<1> DEFINE S == {"schedule_intervals"}
           iv == Interval(b, e, s)
           w == Interval(IF key = "begin" THEN DateInt(x) ELSE b,
                         IF key = "end" THEN DateInt(x) ELSE e, s)
           a == Append(pre, iv)   n == Len(pre) + 1
           c == Context(key, f, S, FALSE, calls, Track(file, id, type, a))
           t == <<"date", x>>
<1>1. iv \in ParsedIntervals /\ w \in ParsedIntervals
    BY DEF Interval, ParsedIntervals
<1>2. Len(a) = n /\ n > 0 /\ a[n] = iv /\ [a EXCEPT ![n] = w] = Append(pre, w)
    <2> HIDE DEF iv, w
    <2> QED BY <1>1, ChangeLast
<1>3. TraverseNext(c, t) = HandOut(StringFound(c, t))
    <2> HIDE DEF c
    <2> QED BY NextString
<1>4. StringFound(c, t) = HelperNext(c, t)
    <2> HIDE DEF a
    <2> QED BY DEF StringFound, IsWord, Context
<1>5. FoundMember(c, t) = c
    <2> HIDE DEF a
    <2> QED BY DEF FoundMember, Context
<1>6. FoundBound(c, t) = Context(key, f, S, FALSE, calls, Track(file, id, type, [a EXCEPT ![n] = w]))
    <2>1. c.key = key /\ c.searching = S /\ c.track.intervals = a
        <3> HIDE DEF a
        <3> QED BY DEF Context, Track
    <2>2. CASE key = "begin"
        <3>1. w = [iv EXCEPT !.begin = DateInt(x)]
            BY <2>2 DEF Interval
        <3>2. FoundBound(c, t) = [c EXCEPT !.track.intervals[n].begin = DateInt(x)]
            <4> HIDE DEF c, a
            <4> QED BY <1>2, <2>1, <2>2 DEF FoundBound
        <3>3. [c EXCEPT !.track.intervals[n].begin = DateInt(x)]
                = [c EXCEPT !.track = [c.track EXCEPT !.intervals = [a EXCEPT ![n] = [iv EXCEPT !.begin = DateInt(x)]]]]
            <4> HIDE DEF a, iv, n
            <4> QED BY <1>2, <2>1 DEF Context, Track
        <3> HIDE DEF a, w, iv, n
        <3> QED BY <3>1, <3>2, <3>3 DEF Context, Track
    <2>3. CASE key = "end"
        <3>1. w = [iv EXCEPT !.end = DateInt(x)]
            BY <2>3 DEF Interval
        <3>2. FoundBound(c, t) = [c EXCEPT !.track.intervals[n].end = DateInt(x)]
            <4> HIDE DEF c, a
            <4> QED BY <1>2, <2>1, <2>3 DEF FoundBound
        <3>3. [c EXCEPT !.track.intervals[n].end = DateInt(x)]
                = [c EXCEPT !.track = [c.track EXCEPT !.intervals = [a EXCEPT ![n] = [iv EXCEPT !.end = DateInt(x)]]]]
            <4> HIDE DEF a, iv, n
            <4> QED BY <1>2, <2>1 DEF Context, Track
        <3> HIDE DEF a, w, iv, n
        <3> QED BY <3>1, <3>2, <3>3 DEF Context, Track
    <2> QED BY <2>2, <2>3
<1>7. HelperNext(c, t) = Context(NoKey, f, S, FALSE, calls, Track(file, id, type, Append(pre, w)))
    <2>1. c.key # NoKey
        <3> HIDE DEF a
        <3> QED BY DEF Context, NoKey
    <2>2. HelperNext(c, t) = [FoundBound(c, t) EXCEPT !.key = NoKey]
        <3> HIDE DEF c, t
        <3> QED BY <1>5, <2>1, HelperValue DEF OnParse
    <2> DEFINE y == Append(pre, w)
    <2>3. FoundBound(c, t) = Context(key, f, S, FALSE, calls, Track(file, id, type, y))
        BY <1>2, <1>6, Zenon
    <2> HIDE DEF c, t, y
    <2>4. HelperNext(c, t) = [Context(key, f, S, FALSE, calls, Track(file, id, type, y)) EXCEPT !.key = NoKey]
        BY <2>2, <2>3, Zenon
    <2>5. HelperNext(c, t) = Context(NoKey, f, S, FALSE, calls, Track(file, id, type, y))
        BY <2>4 DEF Context
    <2> QED BY <2>5 DEF y
<1>8. HandOut(Context(NoKey, f, S, FALSE, calls, Track(file, id, type, Append(pre, w))))
        = Context(NoKey, f, S, FALSE, calls, Track(file, id, type, Append(pre, w)))
    <2> DEFINE y == Append(pre, w)
    <2> HIDE DEF y
    <2>1. HandOut(Context(NoKey, f, S, FALSE, calls, Track(file, id, type, y)))
            = Context(NoKey, f, S, FALSE, calls, Track(file, id, type, y))
        BY DEF HandOut, TrackReady, Context, Track, Ready
    <2> QED BY <2>1 DEF y
<1> QED BY <1>3, <1>4, <1>7, <1>8, Zenon DEF AtList, AtBound, BoundRead

\* Nothing is to be handed out in context c, and no key has been read.
Steady(c) == ResetKey(c) = c /\ HandOut(c) = c

\* Between members nothing is to be handed out.
LEMMA SteadyContext ==
    ASSUME NEW f, NEW S, NEW called, NEW calls, NEW file, NEW id, NEW type, NEW ivs,
           called = TRUE \/ ~Ready(f, type)
    PROVE  Steady(Context(NoKey, f, S, called, calls, Track(file, id, type, ivs)))
<1> DEFINE c == Context(NoKey, f, S, called, calls, Track(file, id, type, ivs))
<1>1. ResetKey(c) = c
    BY DEF ResetKey, Context
<1> QED BY <1>1, HandOutNothing DEF Steady

\* The beginning of a list then changes nothing.
LEMMA ReadList == ASSUME NEW c, Steady(c) PROVE TraverseNext(c, <<"[">>) = c
BY NextList DEF Steady

\* The key of the intervals, in a context of which only "searching" is of interest.
LEMMA ReadIntervalsKey ==
    ASSUME NEW f, NEW called, NEW calls, NEW file, NEW id, NEW type, NEW ivs,
           called = TRUE \/ ~Ready(f, type)
    PROVE  TraverseNext(Context(NoKey, f, {}, called, calls, Track(file, id, type, ivs)),
                        Str("schedule_intervals"))
              = Context(NoKey, f, {"schedule_intervals"}, called, calls, Track(file, id, type, ivs))
<1> DEFINE tr == Track(file, id, type, ivs)
           c == Context(NoKey, f, {}, called, calls, tr)
           d == Context(NoKey, f, {"schedule_intervals"}, called, calls, tr)
           t == <<"str", "schedule_intervals">>
<1>1. StringFound(c, t) = d
    <2> HIDE DEF tr
    <2> QED BY DEF StringFound, IsWord, Context
<1>2. HandOut(d) = d
    <2>1. Steady(d)
        BY SteadyContext
    <2> HIDE DEF d
    <2> QED BY <2>1 DEF Steady
<1> HIDE DEF c, d
<1>3. TraverseNext(c, Str("schedule_intervals")) = d
    BY <1>1, <1>2, NextString DEF Str
<1> QED BY <1>3 DEF c, d

\* The end of the intervals.
LEMMA CloseIntervals ==
    ASSUME NEW f, NEW called, NEW calls, NEW file, NEW id, NEW type, NEW ivs
    PROVE  TraverseNext(Context(NoKey, f, {"schedule_intervals"}, called, calls, Track(file, id, type, ivs)),
                        <<"]">>)
              = HandOut(Context(NoKey, f \cup {"schedule_intervals"}, {}, called, calls,
                                Track(file, id, type, ivs)))
<1> DEFINE tr == Track(file, id, type, ivs)
           g == f \cup {"schedule_intervals"}
           c == Context(NoKey, f, {"schedule_intervals"}, called, calls, tr)
           d == Context(NoKey, g, {}, called, calls, tr)
<1>1. ArrayEnds(c) = d
    <2> HIDE DEF tr
    <2> QED BY DEF ArrayEnds, Context
<1>2. ResetKey(d) = d
    <2> HIDE DEF tr, g
    <2> QED BY DEF ResetKey, Context
<1> HIDE DEF c, d
<1>3. TraverseNext(c, <<"]">>) = HandOut(d)
    BY <1>1, <1>2, NextListEnd
<1> QED BY <1>3 DEF c, d

\* The key of the times ...
LEMMA ReadScheduleKey ==
    ASSUME NEW f, NEW calls, NEW file, NEW id, NEW type, NEW ivs, ~Ready(f, type)
    PROVE  TraverseNext(AtList(f, calls, file, id, type, ivs), Str("schedule"))
              = AtTimes(f, calls, file, id, type, ivs)
<1> DEFINE tr == Track(file, id, type, ivs)
           c == Context(NoKey, f, {"schedule_intervals"}, FALSE, calls, tr)
           d == Context(NoKey, f, {"schedule_intervals", "schedule"}, FALSE, calls, tr)
           t == <<"str", "schedule">>
<1>1. StringFound(c, t) = d
    <2> HIDE DEF tr
    <2> QED BY DEF StringFound, IsWord, Context
<1>2. HandOut(d) = d
    BY DEF HandOut, TrackReady, Context, Track, Ready
<1> HIDE DEF c, d
<1>3. TraverseNext(c, Str("schedule")) = d
    BY <1>1, <1>2, NextString DEF Str
<1> QED BY <1>3 DEF c, d, AtList, AtTimes

\* ... their end ...
LEMMA CloseSchedule ==
    ASSUME NEW f, NEW calls, NEW file, NEW id, NEW type, NEW ivs, ~Ready(f, type)
    PROVE  TraverseNext(AtTimes(f, calls, file, id, type, ivs), <<"]">>)
              = AtList(f, calls, file, id, type, ivs)
<1> DEFINE tr == Track(file, id, type, ivs)   no == FALSE
           S == {"schedule_intervals", "schedule"}   U == {"schedule_intervals"}
           c == Context(NoKey, f, S, no, calls, tr)
           d == Context(NoKey, f, U, no, calls, tr)
<1>1. "schedule" \in S /\ S \ {"schedule"} = U
    OBVIOUS
<1> HIDE DEF S, U, no
<1>2. ArrayEnds(c) = d
    <2>1. c.searching = S
        BY DEF Context
    <2>2. ArrayEnds(c) = [c EXCEPT !.searching = U]
        <3> HIDE DEF c
        <3> QED BY <1>1, <2>1 DEF ArrayEnds
    <2>3. [c EXCEPT !.searching = U] = d
        <3> HIDE DEF tr
        <3> QED BY DEF Context
    <2> QED BY <2>2, <2>3, Zenon
<1>3. ResetKey(d) = d /\ HandOut(d) = d
    <2>1. Steady(d)
        BY SteadyContext
    <2> HIDE DEF d
    <2> QED BY <2>1 DEF Steady
<1> HIDE DEF c, d
<1>4. TraverseNext(c, <<"]">>) = d
    BY <1>2, <1>3, NextListEnd
<1> QED BY <1>4 DEF c, d, S, U, no, AtList, AtTimes

\* ... and a time between them.
LEMMA ReadTime ==
    ASSUME NEW f, NEW calls, NEW file, NEW id, NEW type, ~Ready(f, type),
           NEW pre \in Seq(ParsedIntervals), NEW b \in Int, NEW e \in Int, NEW s \in Seq(Int),
           NEW x, SecondsInt(x) \in Int
    PROVE  TraverseNext(AtTimes(f, calls, file, id, type, Append(pre, Interval(b, e, s))), <<"time", x>>)
              = AtTimes(f, calls, file, id, type, Append(pre, Interval(b, e, Append(s, SecondsInt(x)))))
<1> DEFINE S == {"schedule_intervals", "schedule"}   no == FALSE
           z == Append(s, SecondsInt(x))
           iv == Interval(b, e, s)
           w == Interval(b, e, z)
           a == Append(pre, iv)   n == Len(pre) + 1   y == Append(pre, w)
           c == Context(NoKey, f, S, no, calls, Track(file, id, type, a))
           d == Context(NoKey, f, S, no, calls, Track(file, id, type, y))
           t == <<"time", x>>
<1>0. "schedule" \in S
    OBVIOUS
<1> HIDE DEF S, no
<1>1. iv \in ParsedIntervals /\ w \in ParsedIntervals
    <2>1. z \in Seq(Int)
        OBVIOUS
    <2> HIDE DEF z
    <2> QED BY <2>1 DEF Interval, ParsedIntervals
<1>2. Len(a) = n /\ n > 0 /\ a[n] = iv /\ [a EXCEPT ![n] = w] = y
    <2> HIDE DEF iv, w
    <2> QED BY <1>1, ChangeLast
<1>3. TraverseNext(c, t) = HandOut(StringFound(c, t))
    <2> HIDE DEF c
    <2> QED BY NextString
<1>4. StringFound(c, t) = [c EXCEPT !.track.intervals[n].seconds = Append(@, SecondsInt(x))]
    <2>1. "schedule" \in c.searching /\ c.track.intervals = a
        <3> HIDE DEF a
        <3> QED BY <1>0 DEF Context, Track
    <2>2. ScheduleSecond(t) = SecondsInt(x)
        BY DEF ScheduleSecond
    <2>3. Len(c.track.intervals) = n /\ n # 0
        BY <1>2, <2>1
    <2> DEFINE m == Len(c.track.intervals)
    <2> HIDE DEF c, a, t, n
    <2>4. StringFound(c, t)
            = [c EXCEPT !.track.intervals[m].seconds = Append(c.track.intervals[m].seconds, ScheduleSecond(t))]
        BY <2>1, <2>3, Zenon DEF StringFound
    <2> QED BY <2>2, <2>3, <2>4, Zenon
<1>5. [c EXCEPT !.track.intervals[n].seconds = Append(@, SecondsInt(x))] = d
    <2>1. w = [iv EXCEPT !.seconds = z] /\ z = Append(iv.seconds, SecondsInt(x))
        <3>1. iv.seconds = s
            BY DEF Interval
        <3> HIDE DEF z
        <3>2. w = [iv EXCEPT !.seconds = z]
            BY DEF Interval
        <3> QED BY <3>1, <3>2 DEF z
    <2>2. [c EXCEPT !.track.intervals[n].seconds = Append(@, SecondsInt(x))]
            = [c EXCEPT !.track = [c.track EXCEPT !.intervals =
                    [a EXCEPT ![n] = [iv EXCEPT !.seconds = Append(iv.seconds, SecondsInt(x))]]]]
        <3> HIDE DEF a, iv, n
        <3> QED BY <1>2 DEF Context, Track
    <2>3. [c EXCEPT !.track = [c.track EXCEPT !.intervals = y]] = d
        <3> HIDE DEF a, y
        <3> QED BY DEF Context, Track
    <2> HIDE DEF a, w, iv, n, z, y, c, d
    <2> QED BY <1>2, <2>1, <2>2, <2>3
<1>6. HandOut(d) = d
    <2>1. Steady(d)
        BY SteadyContext
    <2> HIDE DEF d
    <2> QED BY <2>1 DEF Steady
<1>7. TraverseNext(c, t) = d
    BY <1>3, <1>4, <1>5, <1>6, Zenon
<1> QED BY <1>7, Zenon DEF S, no, AtTimes

-------------------------------------------------------------------------------
(* The texts of a document.                                                *)

\* The tokens of a document.
Words ==
    STRING \cup TrackMembers \cup IntervalMembers \cup {"background", "advertising"}
    \cup {"enabled", "true", "name", "any", "items", "command", "update_playlist", "playlist", "sequence"}
Tokens ==
    {<<"{">>, <<"}">>, <<"[">>, <<"]">>} \cup ({"str", "lit"} \X Words) \cup ({"num"} \X Nat)
    \cup ({"date"} \X Dates) \cup ({"time"} \X Times)

\* Words, numbers, dates and times are tokens of a document.
LEMMA WordToken == ASSUME NEW x \in Words PROVE Str(x) \in Tokens /\ <<"lit", x>> \in Tokens
BY DEF Str, Tokens

\* Numbers.
LEMMA NumberToken == ASSUME NEW x \in Nat PROVE <<"num", x>> \in Tokens
BY DEF Tokens

\* Dates.
LEMMA DateToken == ASSUME NEW x \in Dates PROVE <<"date", x>> \in Tokens
BY DEF Tokens

\* Times.
LEMMA TimeToken == ASSUME NEW x \in Times PROVE <<"time", x>> \in Tokens
BY DEF Tokens

\* A run, and a token after it.
LEMMA RunsThen ==
    ASSUME NEW T, NEW s \in Seq(T), NEW t \in T, NEW c, NEW d, Runs(c, s, d)
    PROVE  s \o <<t>> \in Seq(T) /\ Runs(c, s \o <<t>>, TraverseNext(d, t))
<1>1. <<t>> \in Seq(T)
    OBVIOUS
<1>2. Runs(d, <<t>>, TraverseNext(d, t))
    BY RunsOne
<1> QED BY <1>1, <1>2, RunsOn, ConcatProperties

\* A token, and a run after it.
LEMMA RunsAfter ==
    ASSUME NEW T, NEW t \in T, NEW s \in Seq(T), NEW c, NEW d, Runs(TraverseNext(c, t), s, d)
    PROVE  <<t>> \o s \in Seq(T) /\ Runs(c, <<t>> \o s, d)
<1>1. <<t>> \in Seq(T)
    OBVIOUS
<1>2. Runs(c, <<t>>, TraverseNext(c, t))
    BY RunsOne
<1> QED BY <1>1, <1>2, RunsOn, ConcatProperties

\* Two tokens.
LEMMA RunsTwo ==
    ASSUME NEW a, NEW b, NEW c
    PROVE  Runs(c, <<a, b>>, TraverseNext(TraverseNext(c, a), b))
<1> DEFINE T == {a, b}
<1>1. <<a>> \in Seq(T) /\ <<b>> \in Seq(T) /\ <<a, b>> \in Seq(T) /\ b \in T
    OBVIOUS
<1>2. <<a>> \o <<b>> = <<a, b>>
    <2> DEFINE x == <<a>>   y == <<b>>   z == <<a, b>>
    <2>1. Len(x) = 1 /\ Len(y) = 1 /\ Len(z) = 2 /\ x[1] = a /\ y[1] = b /\ z[1] = a /\ z[2] = b
        OBVIOUS
    <2>2. x \in Seq(T) /\ y \in Seq(T) /\ z \in Seq(T)
        BY <1>1
    <2> HIDE DEF x, y, z, T
    <2>3. /\ x \o y \in Seq(T) /\ Len(x \o y) = 2
          /\ \A i \in 1..2 : (x \o y)[i] = IF i <= 1 THEN x[i] ELSE y[i - 1]
        BY <2>1, <2>2, ConcatProperties
    <2>4. \A i \in 1..2 : (x \o y)[i] = z[i]
        BY <2>1, <2>3
    <2>5. x \o y = z
        BY <2>1, <2>2, <2>3, <2>4, SeqEqual
    <2> QED BY <2>5 DEF x, y, z
<1> QED BY <1>1, <1>2, RunsOne, RunsThen

\* A run over an object, from a run over its members.
LEMMA RunsBraces ==
    ASSUME NEW s \in Seq(Tokens), NEW c, NEW d, Runs(TraverseNext(c, <<"{">>), s, d)
    PROVE  Braces(s) \in Seq(Tokens) /\ Runs(c, Braces(s), TraverseNext(d, <<"}">>))
<1>1. <<"{">> \in Tokens /\ <<"}">> \in Tokens
    BY DEF Tokens
<1>2. <<<<"{">>>> \o s \in Seq(Tokens) /\ Runs(c, <<<<"{">>>> \o s, d)
    BY <1>1, RunsAfter
<1> DEFINE r == <<<<"{">>>> \o s
<1>3. Braces(s) = r \o <<<<"}">>>>
    BY DEF Braces
<1> HIDE DEF r
<1> QED BY <1>1, <1>2, <1>3, RunsThen DEF r

\* A run over a list, from a run over its entries.
LEMMA RunsBrackets ==
    ASSUME NEW s \in Seq(Tokens), NEW c, NEW d, Runs(TraverseNext(c, <<"[">>), s, d)
    PROVE  Brackets(s) \in Seq(Tokens) /\ Runs(c, Brackets(s), TraverseNext(d, <<"]">>))
<1>1. <<"[">> \in Tokens /\ <<"]">> \in Tokens
    BY DEF Tokens
<1>2. <<<<"[">>>> \o s \in Seq(Tokens) /\ Runs(c, <<<<"[">>>> \o s, d)
    BY <1>1, RunsAfter
<1> DEFINE r == <<<<"[">>>> \o s
<1>3. Brackets(s) = r \o <<<<"]">>>>
    BY DEF Brackets
<1> HIDE DEF r
<1> QED BY <1>1, <1>2, <1>3, RunsThen DEF r

\* A run over a sequence of texts, one after the other.
LEMMA RunsFlatten ==
    ASSUME NEW T, NEW n \in Nat, NEW ss \in [1..n -> Seq(T)], NEW st,
           \A i \in 1..n : Runs(st[i - 1], ss[i], st[i])
    PROVE  FlattenSeq(ss) \in Seq(T) /\ Runs(st[0], FlattenSeq(ss), st[n])
<1>1. PICK g : /\ Joins(n, ss, g) /\ g[n] = FlattenSeq(ss)
               /\ \A i \in 0..n : g[i] \in Seq(T)
    BY Flattened
<1> DEFINE S == {k \in Nat : k <= n => Runs(st[0], g[k], st[k])}
<1>2. 0 \in S
    <2>1. g[0] = <<>>
        BY <1>1 DEF Joins
    <2> QED BY <2>1, RunsNothing
<1>3. ASSUME NEW k \in Nat, k \in S PROVE k + 1 \in S
    <2> SUFFICES ASSUME k + 1 <= n PROVE Runs(st[0], g[k + 1], st[k + 1])
        OBVIOUS
    <2>1. k + 1 \in 1..n /\ (k + 1) - 1 = k /\ k \in 0..n
        OBVIOUS
    <2>2. Runs(st[0], g[k], st[k]) /\ Runs(st[k], ss[k + 1], st[k + 1])
        BY <1>3, <2>1
    <2>3. g[k + 1] = Cat(g[k], ss[k + 1])
        BY <1>1, <2>1 DEF Joins
    <2>4. g[k] \in Seq(T) /\ ss[k + 1] \in Seq(T)
        BY <1>1, <2>1
    <2>5. Runs(st[0], Cat(g[k], ss[k + 1]), st[k + 1])
        BY <2>2, <2>4, RunsOn DEF Cat
    <2> QED BY <2>3, <2>5
<1>4. n \in S
    <2> HIDE DEF S
    <2> QED BY <1>2, <1>3, Induction
<1>5. Runs(st[0], g[n], st[n]) /\ g[n] \in Seq(T)
    BY <1>1, <1>4
<1> QED BY <1>1, <1>5

-------------------------------------------------------------------------------
(* Numbers.                                                                *)

\* The number of a time.
LEMMA TimeNumbers == ASSUME NEW t \in Times PROVE SecondsInt(t) \in Int
<1>1. t.h \in Int /\ t.m \in Int /\ t.s \in Int
    BY DEF Times
<1> QED BY <1>1 DEF SecondsInt

\* The number of a date.
LEMMA DateNumbers == ASSUME NEW d \in Dates PROVE DateInt(d) \in Int
<1>1. d.day \in Int /\ d.month \in Int /\ d.year \in Int
    BY DEF Dates
<1> QED BY <1>1 DEF DateInt

\* The first k values of a function, as they are collected one after the other.
LEMMA Collected ==
    ASSUME NEW T, NEW k \in Nat, NEW v, \A i \in 1..k + 1 : v[i] \in T
    PROVE  /\ [i \in 1..k |-> v[i]] \in Seq(T)
           /\ Append([i \in 1..k |-> v[i]], v[k + 1]) = [i \in 1..k + 1 |-> v[i]]
<1> DEFINE a == [i \in 1..k |-> v[i]]   b == [i \in 1..k + 1 |-> v[i]]   x == v[k + 1]
<1>1. a \in Seq(T) /\ Len(a) = k /\ b \in Seq(T) /\ Len(b) = k + 1 /\ x \in T
    OBVIOUS
<1>2. b[k + 1] = x /\ \A i \in 1..k : a[i] = b[i]
    OBVIOUS
<1> HIDE DEF a, b, x
<1>3. /\ Append(a, x) \in Seq(T) /\ Len(Append(a, x)) = k + 1 /\ Append(a, x)[k + 1] = x
      /\ \A i \in 1..k : Append(a, x)[i] = a[i]
    BY <1>1, AppendProperties
<1>4. \A i \in 1..k + 1 : Append(a, x)[i] = b[i]
    BY <1>2, <1>3
<1>5. Append(a, x) = b
    BY <1>1, <1>3, <1>4, SeqEqual
<1> QED BY <1>1, <1>5 DEF a, b, x

\* The times of an interval as the parser keeps them.
SecondsOf(times) == [k \in DOMAIN times |-> SecondsInt(times[k])]

\* An interval that has been read as a whole.
AsInterval(v) == Interval(DateInt(v.begin), DateInt(v.end), SecondsOf(v.times))

\* They are numbers.
LEMMA SecondsTyped == ASSUME NEW times \in Seq(Times) PROVE SecondsOf(times) \in Seq(Int)
<1>1. \A i \in DOMAIN times : SecondsInt(times[i]) \in Int
    BY TimeNumbers, LenProperties, ElementOfSeq
<1> QED BY <1>1 DEF SecondsOf

\* The times of an interval.
LEMMA ReadTimes ==
    ASSUME NEW f, NEW calls, NEW file, NEW id, NEW type, ~Ready(f, type),
           NEW pre \in Seq(ParsedIntervals), NEW b \in Int, NEW e \in Int,
           NEW times \in Seq(Times)
    PROVE  LET C(s) == AtTimes(f, calls, file, id, type, Append(pre, Interval(b, e, s)))
               text == [k \in DOMAIN times |-> <<"time", times[k]>>]
           IN  /\ text \in Seq(Tokens) /\ SecondsOf(times) \in Seq(Int)
               /\ Runs(C(<<>>), text, C(SecondsOf(times)))
<1> DEFINE C(s) == AtTimes(f, calls, file, id, type, Append(pre, Interval(b, e, s)))
           text == [k \in DOMAIN times |-> <<"time", times[k]>>]
           n == Len(times)
           v == [i \in 1..n |-> SecondsInt(times[i])]
           p(k) == [i \in 1..k |-> v[i]]
           g == [i \in 0..n |-> C(p(i))]
<1>1. n \in Nat /\ DOMAIN times = 1..n /\ \A i \in 1..n : times[i] \in Times
    BY LenProperties, ElementOfSeq
<1>2. \A i \in 1..n : v[i] = SecondsInt(times[i]) /\ v[i] \in Int
    BY <1>1, TimeNumbers
<1>3. text \in Seq(Tokens) /\ Len(text) = n /\ \A i \in 1..n : text[i] = <<"time", times[i]>>
    <2>1. \A i \in 1..n : <<"time", times[i]>> \in Tokens
        BY <1>1 DEF Tokens
    <2> HIDE DEF n
    <2> QED BY <1>1, <2>1
<1>4. p(0) = <<>> /\ p(n) = SecondsOf(times) /\ SecondsOf(times) \in Seq(Int)
    <2>1. p(0) = <<>>
        OBVIOUS
    <2>2. p(n) = SecondsOf(times)
        BY <1>1, <1>2 DEF SecondsOf
    <2>3. p(n) \in Seq(Int)
        BY <1>1, <1>2
    <2> QED BY <2>1, <2>2, <2>3
<1>5. ASSUME NEW i \in 1..n PROVE C(p(i)) = TraverseNext(C(p(i - 1)), text[i])
    <2>1. i - 1 \in Nat /\ (i - 1) + 1 = i /\ \A j \in 1..i : v[j] \in Int
        BY <1>1, <1>2
    <2>2. p(i - 1) \in Seq(Int) /\ Append(p(i - 1), v[i]) = p(i)
        <3> HIDE DEF v
        <3> QED BY <2>1, Collected
    <2>3. v[i] = SecondsInt(times[i]) /\ SecondsInt(times[i]) \in Int /\ text[i] = <<"time", times[i]>>
        BY <1>2, <1>3
    <2> DEFINE q == p(i - 1)   x == times[i]
    <2>4. q \in Seq(Int) /\ SecondsInt(x) \in Int
        BY <2>2, <2>3, Zenon
    <2> HIDE DEF p, v, text, q, x
    <2>5. TraverseNext(C(q), <<"time", x>>) = C(Append(q, SecondsInt(x)))
        BY <2>4, ReadTime
    <2> HIDE DEF C
    <2> QED BY <2>2, <2>3, <2>5 DEF q, x
<1>6. /\ DOMAIN g = 0..Len(text) /\ g[0] = C(<<>>) /\ g[Len(text)] = C(SecondsOf(times))
      /\ \A i \in 1..Len(text) : g[i] = TraverseNext(g[i - 1], text[i])
    <2> HIDE DEF C, p, text, n
    <2>1. \A i \in 0..n : g[i] = C(p(i))
        OBVIOUS
    <2> QED BY <1>1, <1>3, <1>4, <1>5, <2>1
<1>7. Runs(C(<<>>), text, C(SecondsOf(times)))
    <2> HIDE DEF C, g, text
    <2> QED BY <1>6 DEF Runs, Walks, Turn
<1> QED BY <1>3, <1>4, <1>7

\* The list of the times of an interval.
LEMMA ReadSchedule ==
    ASSUME NEW f, NEW calls, NEW file, NEW id, NEW type, ~Ready(f, type),
           NEW pre \in Seq(ParsedIntervals), NEW b \in Int, NEW e \in Int,
           NEW times \in Seq(Times)
    PROVE  LET C(s) == AtList(f, calls, file, id, type, Append(pre, Interval(b, e, s)))
               text == <<Str("schedule")>> \o Brackets([k \in DOMAIN times |-> <<"time", times[k]>>])
           IN  text \in Seq(Tokens) /\ Runs(C(<<>>), text, C(SecondsOf(times)))
<1> DEFINE C(s) == AtList(f, calls, file, id, type, Append(pre, Interval(b, e, s)))
           D(s) == AtTimes(f, calls, file, id, type, Append(pre, Interval(b, e, s)))
           text == [k \in DOMAIN times |-> <<"time", times[k]>>]
           t == Str("schedule")
<1>1. text \in Seq(Tokens) /\ Runs(D(<<>>), text, D(SecondsOf(times)))
    BY ReadTimes
<1>2. TraverseNext(C(<<>>), t) = D(<<>>) /\ TraverseNext(D(SecondsOf(times)), <<"]">>) = C(SecondsOf(times))
    BY ReadScheduleKey, CloseSchedule
<1>3. TraverseNext(D(<<>>), <<"[">>) = D(<<>>)
    <2>1. Steady(D(<<>>))
        BY SteadyContext DEF AtTimes
    <2> HIDE DEF D
    <2> QED BY <2>1, ReadList
<1>4. t \in Tokens
    BY WordToken DEF Words, IntervalMembers
<1> HIDE DEF C, D, text, t
<1>5. Brackets(text) \in Seq(Tokens) /\ Runs(D(<<>>), Brackets(text), C(SecondsOf(times)))
    BY <1>1, <1>2, <1>3, RunsBrackets
<1>6. <<t>> \o Brackets(text) \in Seq(Tokens) /\ Runs(C(<<>>), <<t>> \o Brackets(text), C(SecondsOf(times)))
    BY <1>2, <1>4, <1>5, RunsAfter
<1> QED BY <1>6 DEF C, text, t

\* The interval v of which the members E have been read.
PartOf(v, E) ==
    Interval(IF "begin" \in E THEN DateInt(v.begin) ELSE 0, IF "end" \in E THEN DateInt(v.end) ELSE 0,
             IF "schedule" \in E THEN SecondsOf(v.times) ELSE <<>>)

\* The first or last day of an interval, key and value.
LEMMA BoundMember ==
    ASSUME NEW f, NEW calls, NEW file, NEW id, NEW type, ~Ready(f, type),
           NEW pre \in Seq(ParsedIntervals), NEW b \in Int, NEW e \in Int, NEW s \in Seq(Int),
           NEW key, key = "begin" \/ key = "end", NEW x \in Dates
    PROVE  LET text == <<Str(key), <<"date", x>>>>
           IN  /\ text \in Seq(Tokens)
               /\ Runs(AtList(f, calls, file, id, type, Append(pre, Interval(b, e, s))), text,
                       AtList(f, calls, file, id, type, Append(pre, BoundRead(key, b, e, s, DateInt(x)))))
<1> DEFINE c == AtList(f, calls, file, id, type, Append(pre, Interval(b, e, s)))
           k == AtBound(key, f, calls, file, id, type, Append(pre, Interval(b, e, s)))
           d == AtList(f, calls, file, id, type, Append(pre, BoundRead(key, b, e, s, DateInt(x))))
           u == Str(key)   w == <<"date", x>>
<1>1. TraverseNext(c, u) = k
    <2>1. key # "schedule" /\ key # "schedule_intervals"
        OBVIOUS
    <2> QED BY <2>1, ReadBoundKey
<1>2. TraverseNext(k, w) = d
    <2>1. DateInt(x) \in Int
        BY DateNumbers
    <2> QED BY <2>1, ReadBound
<1>3. u \in Tokens /\ w \in Tokens
    BY WordToken, DateToken DEF Words, IntervalMembers
<1> HIDE DEF c, k, d, u, w
<1>4. Runs(c, <<u, w>>, d) /\ <<u, w>> \in Seq(Tokens)
    BY <1>1, <1>2, <1>3, RunsTwo
<1> QED BY <1>4 DEF c, d, u, w

\* A part of an interval is an interval too.
LEMMA PartTyped ==
    ASSUME NEW v \in Intervals, NEW E
    PROVE  PartOf(v, E) \in ParsedIntervals
<1>1. v.begin \in Dates /\ v.end \in Dates /\ v.times \in Seq(Times)
    BY DEF Intervals
<1>2. DateInt(v.begin) \in Int /\ DateInt(v.end) \in Int
    BY <1>1, DateNumbers
<1>3. SecondsOf(v.times) \in Seq(Int)
    BY <1>1, SecondsTyped
<1> QED BY <1>2, <1>3 DEF PartOf, Interval, ParsedIntervals

\* A member of an interval.
LEMMA ReadIntervalMember ==
    ASSUME NEW f, NEW calls, NEW file, NEW id, NEW type, ~Ready(f, type),
           NEW pre \in Seq(ParsedIntervals), NEW v \in Intervals,
           NEW E, NEW m \in IntervalMembers, m \notin E
    PROVE  /\ IntervalMember(v, m) \in Seq(Tokens)
           /\ Runs(AtList(f, calls, file, id, type, Append(pre, PartOf(v, E))), IntervalMember(v, m),
                   AtList(f, calls, file, id, type, Append(pre, PartOf(v, E \cup {m}))))
<1> DEFINE b == IF "begin" \in E THEN DateInt(v.begin) ELSE 0
           e == IF "end" \in E THEN DateInt(v.end) ELSE 0
           s == IF "schedule" \in E THEN SecondsOf(v.times) ELSE <<>>
           was == PartOf(v, E)   is == PartOf(v, E \cup {m})
<1>1. v.begin \in Dates /\ v.end \in Dates /\ v.times \in Seq(Times)
    BY DEF Intervals
<1>2. b \in Int /\ e \in Int /\ s \in Seq(Int)
    <2>1. DateInt(v.begin) \in Int /\ DateInt(v.end) \in Int /\ SecondsOf(v.times) \in Seq(Int)
        BY <1>1, DateNumbers, SecondsTyped
    <2> QED BY <2>1
<1>3. was = Interval(b, e, s)
    BY DEF PartOf
<1>4. ASSUME NEW x \in Dates, m = "begin" \/ m = "end", is = BoundRead(m, b, e, s, DateInt(x)),
             IntervalMember(v, m) = <<Str(m), <<"date", x>>>>
      PROVE  /\ IntervalMember(v, m) \in Seq(Tokens)
             /\ Runs(AtList(f, calls, file, id, type, Append(pre, was)), IntervalMember(v, m),
                     AtList(f, calls, file, id, type, Append(pre, is)))
    <2> HIDE DEF b, e, s, was, is
    <2> QED BY <1>2, <1>3, <1>4, BoundMember
<1>5. CASE m = "begin"
    <2>1. is = BoundRead(m, b, e, s, DateInt(v.begin))
        BY <1>5 DEF PartOf, BoundRead
    <2>2. IntervalMember(v, m) = <<Str(m), <<"date", v.begin>>>>
        BY <1>5 DEF IntervalMember
    <2> HIDE DEF b, e, s, was, is
    <2>3. m = "begin" \/ m = "end"
        BY <1>5
    <2>4. /\ IntervalMember(v, m) \in Seq(Tokens)
          /\ Runs(AtList(f, calls, file, id, type, Append(pre, was)), IntervalMember(v, m),
                     AtList(f, calls, file, id, type, Append(pre, is)))
        BY <1>1, <1>4, <2>1, <2>2, <2>3, Zenon
    <2> QED BY <2>4 DEF was, is
<1>6. CASE m = "end"
    <2>1. is = BoundRead(m, b, e, s, DateInt(v.end))
        BY <1>6 DEF PartOf, BoundRead
    <2>2. IntervalMember(v, m) = <<Str(m), <<"date", v.end>>>>
        BY <1>6 DEF IntervalMember
    <2> HIDE DEF b, e, s, was, is
    <2>3. m = "begin" \/ m = "end"
        BY <1>6
    <2>4. /\ IntervalMember(v, m) \in Seq(Tokens)
          /\ Runs(AtList(f, calls, file, id, type, Append(pre, was)), IntervalMember(v, m),
                     AtList(f, calls, file, id, type, Append(pre, is)))
        BY <1>1, <1>4, <2>1, <2>2, <2>3, Zenon
    <2> QED BY <2>4 DEF was, is
<1>7. CASE m = "schedule"
    <2> DEFINE times == v.times
    <2>1. was = Interval(b, e, <<>>) /\ is = Interval(b, e, SecondsOf(times))
        BY <1>7 DEF PartOf
    <2>2. IntervalMember(v, m) = <<Str("schedule")>> \o Brackets([k \in DOMAIN times |-> <<"time", times[k]>>])
        BY <1>7 DEF IntervalMember
    <2>3. times \in Seq(Times)
        BY <1>1
    <2> HIDE DEF b, e, s, was, is, times
    <2>4. /\ IntervalMember(v, m) \in Seq(Tokens)
          /\ Runs(AtList(f, calls, file, id, type, Append(pre, was)), IntervalMember(v, m),
                     AtList(f, calls, file, id, type, Append(pre, is)))
        BY <1>2, <2>1, <2>2, <2>3, ReadSchedule
    <2> QED BY <2>4 DEF was, is
<1> QED BY <1>5, <1>6, <1>7 DEF IntervalMembers

\* The members that come first in an order.
Before(order, k) == {order[i] : i \in 1..k}

\* An order of the members names each of them once.
LEMMA OrderGrows ==
    ASSUME NEW M, NEW order, IsOrder(order, M)
    PROVE  /\ Len(order) \in Nat /\ DOMAIN order = 1..Len(order)
           /\ Before(order, 0) = {} /\ Before(order, Len(order)) = M
           /\ \A k \in 1..Len(order) : /\ order[k] \in M /\ order[k] \notin Before(order, k - 1)
                                       /\ Before(order, k) = Before(order, k - 1) \cup {order[k]}
<1>1. /\ order \in Seq(M) /\ Len(order) \in Nat /\ DOMAIN order = 1..Len(order)
      /\ \A k \in 1..Len(order) : order[k] \in M
    BY LenProperties, ElementOfSeq DEF IsOrder
<1>2. Before(order, 0) = {}
    BY DEF Before
<1>3. Before(order, Len(order)) = M
    BY <1>1 DEF Before, IsOrder
<1>4. ASSUME NEW k \in 1..Len(order)
      PROVE  /\ order[k] \notin Before(order, k - 1)
             /\ Before(order, k) = Before(order, k - 1) \cup {order[k]}
    <2>1. order[k] \notin Before(order, k - 1)
        BY <1>1 DEF Before, IsOrder
    <2>2. 1..k = (1..k - 1) \cup {k}
        BY <1>1
    <2>3. Before(order, k) = Before(order, k - 1) \cup {order[k]}
        BY <2>2 DEF Before
    <2> QED BY <2>1, <2>3
<1> QED BY <1>1, <1>2, <1>3, <1>4

\* An interval.
LEMMA ReadInterval ==
    ASSUME NEW f, NEW calls, NEW file, NEW id, NEW type, ~Ready(f, type),
           NEW pre \in Seq(ParsedIntervals), NEW v \in Intervals,
           NEW pl, IsOrder(pl.intervalOrder, IntervalMembers)
    PROVE  /\ IntervalText(v, pl) \in Seq(Tokens)
           /\ Runs(AtList(f, calls, file, id, type, pre), IntervalText(v, pl),
                   AtList(f, calls, file, id, type, Append(pre, AsInterval(v))))
<1> DEFINE order == pl.intervalOrder   n == Len(order)
           E(k) == Before(order, k)
           C(ivs) == AtList(f, calls, file, id, type, ivs)
           st == [k \in 0..n |-> C(Append(pre, PartOf(v, E(k))))]
           ss == [i \in 1..n |-> IntervalMember(v, order[i])]
           text == FlattenSeq(ss)
<1>1. /\ n \in Nat /\ DOMAIN order = 1..n /\ E(0) = {} /\ E(n) = IntervalMembers
      /\ \A k \in 1..n : /\ order[k] \in IntervalMembers /\ order[k] \notin E(k - 1)
                         /\ E(k) = E(k - 1) \cup {order[k]}
    BY OrderGrows
<1>2. \A i \in 1..n : ss[i] = IntervalMember(v, order[i])
    OBVIOUS
<1>3. \A k \in 0..n : st[k] = C(Append(pre, PartOf(v, E(k))))
    OBVIOUS
<1>4. st[0] = C(Append(pre, Interval(0, 0, <<>>))) /\ st[n] = C(Append(pre, AsInterval(v)))
    <2>1. PartOf(v, {}) = Interval(0, 0, <<>>) /\ PartOf(v, IntervalMembers) = AsInterval(v)
        BY DEF PartOf, AsInterval, IntervalMembers
    <2>2. 0 \in 0..n /\ n \in 0..n
        BY <1>1
    <2> HIDE DEF n, E, C, st, order
    <2> QED BY <1>1, <1>3, <2>1, <2>2
<1>5. ASSUME NEW i \in 1..n PROVE ss[i] \in Seq(Tokens) /\ Runs(st[i - 1], ss[i], st[i])
    <2> DEFINE m == order[i]   B == E(i - 1)
    <2>1. i - 1 \in 0..n /\ i \in 0..n
        BY <1>1
    <2>2. m \in IntervalMembers /\ m \notin B /\ E(i) = B \cup {m}
        BY <1>1
    <2>3. ss[i] = IntervalMember(v, m) /\ st[i - 1] = C(Append(pre, PartOf(v, B)))
          /\ st[i] = C(Append(pre, PartOf(v, B \cup {m})))
        <3> HIDE DEF n, E, C, st, order, ss
        <3> QED BY <1>2, <1>3, <2>1, <2>2
    <2> HIDE DEF n, E, st, order, ss, m, B
    <2>4. /\ IntervalMember(v, m) \in Seq(Tokens)
          /\ Runs(C(Append(pre, PartOf(v, B))), IntervalMember(v, m), C(Append(pre, PartOf(v, B \cup {m}))))
        BY <2>2, ReadIntervalMember
    <2> QED BY <2>3, <2>4
<1>6. ss \in [1..n -> Seq(Tokens)]
    BY <1>5
<1>7. text \in Seq(Tokens) /\ Runs(st[0], text, st[n])
    <2> HIDE DEF n, ss, st
    <2> QED BY <1>1, <1>5, <1>6, RunsFlatten
<1>8. IntervalText(v, pl) = Braces(text)
    BY <1>1 DEF IntervalText
<1>9. /\ TraverseNext(C(pre), <<"{">>) = C(Append(pre, Interval(0, 0, <<>>)))
      /\ TraverseNext(C(Append(pre, AsInterval(v))), <<"}">>) = C(Append(pre, AsInterval(v)))
    <2>1. TraverseNext(C(pre), <<"{">>) = C(Append(pre, Interval(0, 0, <<>>)))
        BY OpenInterval
    <2> DEFINE w == Append(pre, AsInterval(v))
    <2> HIDE DEF w
    <2>2. TraverseNext(C(w), <<"}">>) = C(w)
        BY CloseInterval
    <2> QED BY <2>1, <2>2, Zenon DEF w
<1>10. Braces(text) \in Seq(Tokens) /\ Runs(C(pre), Braces(text), C(Append(pre, AsInterval(v))))
    <2> HIDE DEF C, st, text
    <2> QED BY <1>4, <1>7, <1>9, RunsBraces
<1> QED BY <1>8, <1>10

\* All the intervals of a track.
LEMMA ReadIntervals ==
    ASSUME NEW f, NEW calls, NEW file, NEW id, NEW type, ~Ready(f, type),
           NEW list \in Seq(Intervals),
           NEW pl, IsOrder(pl.intervalOrder, IntervalMembers)
    PROVE  LET text == FlattenSeq([i \in DOMAIN list |-> IntervalText(list[i], pl)])
           IN  /\ text \in Seq(Tokens)
               /\ Runs(AtList(f, calls, file, id, type, <<>>), text,
                       AtList(f, calls, file, id, type, [i \in DOMAIN list |-> AsInterval(list[i])]))
<1> DEFINE n == Len(list)
           C(ivs) == AtList(f, calls, file, id, type, ivs)
           v == [i \in 1..n |-> AsInterval(list[i])]
           p(k) == [i \in 1..k |-> v[i]]
           st == [k \in 0..n |-> C(p(k))]
           ss == [i \in 1..n |-> IntervalText(list[i], pl)]
           text == FlattenSeq(ss)
<1>1. n \in Nat /\ DOMAIN list = 1..n /\ \A i \in 1..n : list[i] \in Intervals
    BY LenProperties, ElementOfSeq
<1>2. \A i \in 1..n : v[i] = AsInterval(list[i]) /\ v[i] \in ParsedIntervals
    <2>1. ASSUME NEW i \in 1..n PROVE AsInterval(list[i]) \in ParsedIntervals
        <3>1. PartOf(list[i], IntervalMembers) = AsInterval(list[i])
            BY DEF PartOf, AsInterval, IntervalMembers
        <3> QED BY <1>1, <3>1, PartTyped
    <2> QED BY <2>1
<1>3. p(0) = <<>> /\ p(n) = [i \in DOMAIN list |-> AsInterval(list[i])]
    <2>1. p(0) = <<>>
        OBVIOUS
    <2>2. p(n) = [i \in DOMAIN list |-> AsInterval(list[i])]
        BY <1>1, <1>2
    <2> QED BY <2>1, <2>2
<1>4. \A k \in 0..n : st[k] = C(p(k))
    <2> HIDE DEF C, p
    <2> QED OBVIOUS
<1>5. \A i \in 1..n : ss[i] = IntervalText(list[i], pl)
    OBVIOUS
<1>6. ASSUME NEW i \in 1..n PROVE ss[i] \in Seq(Tokens) /\ Runs(st[i - 1], ss[i], st[i])
    <2>1. i - 1 \in Nat /\ (i - 1) + 1 = i /\ (\A j \in 1..i : v[j] \in ParsedIntervals)
          /\ i - 1 \in 0..n /\ i \in 0..n
        BY <1>1, <1>2
    <2>2. p(i - 1) \in Seq(ParsedIntervals) /\ Append(p(i - 1), v[i]) = p(i)
        <3> HIDE DEF v
        <3> QED BY <2>1, Collected
    <2> DEFINE q == p(i - 1)   x == list[i]
    <2>3. q \in Seq(ParsedIntervals) /\ x \in Intervals /\ p(i) = Append(q, AsInterval(x))
        BY <1>1, <1>2, <2>2, Zenon
    <2>4. st[i - 1] = C(q) /\ st[i] = C(Append(q, AsInterval(x))) /\ ss[i] = IntervalText(x, pl)
        <3> HIDE DEF p, v, C, st, ss, n
        <3> QED BY <1>4, <1>5, <2>1, <2>3
    <2> HIDE DEF p, v, q, x, st, ss, n
    <2>5. IntervalText(x, pl) \in Seq(Tokens) /\ Runs(C(q), IntervalText(x, pl), C(Append(q, AsInterval(x))))
        BY <2>3, ReadInterval
    <2> QED BY <2>4, <2>5
<1>7. ss \in [1..n -> Seq(Tokens)]
    BY <1>6
<1>8. text \in Seq(Tokens) /\ Runs(st[0], text, st[n])
    <2> HIDE DEF n, ss, st
    <2> QED BY <1>1, <1>6, <1>7, RunsFlatten
<1>9. st[0] = C(<<>>) /\ st[n] = C([i \in DOMAIN list |-> AsInterval(list[i])])
    <2>1. 0 \in 0..n /\ n \in 0..n
        BY <1>1
    <2> HIDE DEF C, p, st, n
    <2> QED BY <1>3, <1>4, <2>1
<1>10. text = FlattenSeq([i \in DOMAIN list |-> IntervalText(list[i], pl)])
    BY <1>1
<1> QED BY <1>8, <1>9, <1>10

-------------------------------------------------------------------------------
(* A track.                                                                *)

\* The parser is in a track, between two members or behind a key.
AtTrack(f, calls, file, id, type, ivs) ==
    Context(NoKey, f, {}, FALSE, calls, Track(file, id, type, ivs))
AtMember(key, f, calls, file, id, type, ivs) ==
    Context(key, f, {}, FALSE, calls, Track(file, id, type, ivs))

\* The track has been handed out, its object has not ended.
AtHanded(f, calls, id, type) ==
    Context(NoKey, f, {}, TRUE, calls, Track(NoFile, id, type, <<>>))

\* The key of a member of a track.
LEMMA ReadMemberKey ==
    ASSUME NEW f, NEW calls, NEW file, NEW id, NEW type, ~Ready(f, type), NEW ivs,
           NEW key, key # "schedule", key # "schedule_intervals"
    PROVE  TraverseNext(AtTrack(f, calls, file, id, type, ivs), Str(key))
              = AtMember(key, f, calls, file, id, type, ivs)
<1> DEFINE S == {}   no == FALSE   tr == Track(file, id, type, ivs)
           c == Context(NoKey, f, S, no, calls, tr)
           d == Context(key, f, S, no, calls, tr)
<1>1. "schedule" \notin S
    OBVIOUS
<1> HIDE DEF S, no
<1>2. c.key = NoKey /\ c.searching = S /\ [c EXCEPT !.key = key] = d
    <2> HIDE DEF tr
    <2> QED BY DEF Context
<1>3. HandOut(d) = d
    BY HandOutNothing
<1> HIDE DEF c, d
<1>4. TraverseNext(c, Str(key)) = d
    BY <1>1, <1>2, <1>3, ReadKey
<1> QED BY <1>4 DEF AtTrack, AtMember, S, no, c, d

\* The values of the members of a track.
LEMMA ReadFile ==
    ASSUME NEW f, NEW calls, NEW file, NEW id, NEW type, NEW ivs,
           NEW x, x # "schedule", x # "schedule_intervals"
    PROVE  TraverseNext(AtMember("filename", f, calls, file, id, type, ivs), Str(x))
              = HandOut(AtTrack(f \cup {"filename"}, calls, x, id, type, ivs))
<1> DEFINE c == Context("filename", f, {}, FALSE, calls, Track(file, id, type, ivs))
           t == <<"str", x>>
           g == f \cup {"filename"}   u == Track(x, id, type, ivs)
<1>1. TraverseNext(c, Str(x)) = HandOut(StringFound(c, t))
    BY NextString DEF Str
<1>2. StringFound(c, t) = HelperNext(c, t)
    BY DEF StringFound, IsWord, Context
<1>3. FoundMember(c, t) = Context("filename", g, {}, FALSE, calls, u)
    BY DEF FoundMember, Context, Track, IsString
<1>4. OnParse(c, t) = FoundMember(c, t)
    BY <1>3 DEF OnParse, FoundBound, Context
<1>5. c.key # NoKey
    BY DEF Context, NoKey
<1>6. HelperNext(c, t) = Context(NoKey, g, {}, FALSE, calls, u)
    <2>1. HelperNext(c, t) = [FoundMember(c, t) EXCEPT !.key = NoKey]
        <3> HIDE DEF c, t
        <3> QED BY <1>4, <1>5, HelperValue
    <2> HIDE DEF c, t, g, u
    <2>2. HelperNext(c, t) = [Context("filename", g, {}, FALSE, calls, u) EXCEPT !.key = NoKey]
        BY <1>3, <2>1, Zenon
    <2> QED BY <2>2 DEF Context
<1> QED BY <1>1, <1>2, <1>6, Zenon DEF AtMember, AtTrack

\* The id.
LEMMA ReadId ==
    ASSUME NEW f, NEW calls, NEW file, NEW id, NEW type, NEW ivs, NEW x
    PROVE  TraverseNext(AtMember("media_item_id", f, calls, file, id, type, ivs),
                        <<"num", x>>)
              = HandOut(AtTrack(f \cup {"id"}, calls, file, x, type, ivs))
<1> DEFINE c == Context("media_item_id", f, {}, FALSE, calls, Track(file, id, type, ivs))
           t == <<"num", x>>
           g == f \cup {"id"}   u == Track(file, x, type, ivs)
<1>1. TraverseNext(c, t) = HandOut(HelperNext(c, t))
    BY NextOther
<1>3. FoundMember(c, t) = Context("media_item_id", g, {}, FALSE, calls, u)
    BY DEF FoundMember, Context, Track, IsString
<1>4. OnParse(c, t) = FoundMember(c, t)
    BY <1>3 DEF OnParse, FoundBound, Context
<1>5. c.key # NoKey
    BY DEF Context, NoKey
<1>6. HelperNext(c, t) = Context(NoKey, g, {}, FALSE, calls, u)
    <2>1. HelperNext(c, t) = [FoundMember(c, t) EXCEPT !.key = NoKey]
        <3> HIDE DEF c, t
        <3> QED BY <1>4, <1>5, HelperValue
    <2> HIDE DEF c, t, g, u
    <2>2. HelperNext(c, t) = [Context("media_item_id", g, {}, FALSE, calls, u) EXCEPT !.key = NoKey]
        BY <1>3, <2>1, Zenon
    <2> QED BY <2>2 DEF Context
<1> QED BY <1>1, <1>6, Zenon DEF AtMember, AtTrack

\* The type.
LEMMA ReadType ==
    ASSUME NEW f, NEW calls, NEW file, NEW id, NEW type, NEW ivs,
           NEW x, x = "background" \/ x = "advertising"
    PROVE  TraverseNext(AtMember("type", f, calls, file, id, type, ivs), Str(x))
              = HandOut(AtTrack(f \cup {"type"}, calls, file, id, x, ivs))
<1> DEFINE c == Context("type", f, {}, FALSE, calls, Track(file, id, type, ivs))
           t == <<"str", x>>
           g == f \cup {"type"}   u == Track(file, id, x, ivs)
<1>1. TraverseNext(c, Str(x)) = HandOut(StringFound(c, t))
    BY NextString DEF Str
<1>2. StringFound(c, t) = HelperNext(c, t)
    BY DEF StringFound, IsWord, Context
<1>3. FoundMember(c, t) = Context("type", g, {}, FALSE, calls, u)
    BY DEF FoundMember, Context, Track, IsString
<1>4. OnParse(c, t) = FoundMember(c, t)
    BY <1>3 DEF OnParse, FoundBound, Context
<1>5. c.key # NoKey
    BY DEF Context, NoKey
<1>6. HelperNext(c, t) = Context(NoKey, g, {}, FALSE, calls, u)
    <2>1. HelperNext(c, t) = [FoundMember(c, t) EXCEPT !.key = NoKey]
        <3> HIDE DEF c, t
        <3> QED BY <1>4, <1>5, HelperValue
    <2> HIDE DEF c, t, g, u
    <2>2. HelperNext(c, t) = [Context("type", g, {}, FALSE, calls, u) EXCEPT !.key = NoKey]
        BY <1>3, <2>1, Zenon
    <2> QED BY <2>2 DEF Context
<1> QED BY <1>1, <1>2, <1>6, Zenon DEF AtMember, AtTrack

\* A track that is ready is handed out.
LEMMA HandOutTrack ==
    ASSUME NEW f, NEW calls, NEW file, NEW id, NEW type, NEW ivs, Ready(f, type)
    PROVE  HandOut(AtTrack(f, calls, file, id, type, ivs))
              = AtHanded({}, Append(calls, Track(file, id, type, ivs)), id, type)
BY DEF AtHanded, HandOut, TrackReady, AtTrack, Context, Track, Ready, TrackFree

\* The intervals of a track as the parser keeps them.
IntervalsOf(t) == [i \in DOMAIN t.intervals |-> AsInterval(t.intervals[i])]

\* AsTrack, in these terms.
LEMMA AsTrackIs ==
    ASSUME NEW t \in WrittenTracks
    PROVE  AsTrack(t) = Track(t.file, t.id, t.type, IntervalsOf(t))
<1>1. IntervalsOf(t) = [i \in DOMAIN t.intervals |->
        [begin   |-> DateInt(t.intervals[i].begin), end |-> DateInt(t.intervals[i].end),
         seconds |-> [k \in DOMAIN t.intervals[i].times |-> SecondsInt(t.intervals[i].times[k])]]]
    BY DEF IntervalsOf, AsInterval, Interval, SecondsOf
<1>2. AsTrack(t) = [t EXCEPT !.intervals = IntervalsOf(t)]
    BY <1>1, Zenon DEF AsTrack
<1>3. [t EXCEPT !.intervals = IntervalsOf(t)] = Track(t.file, t.id, t.type, IntervalsOf(t))
    <2> DEFINE x == IntervalsOf(t)
    <2> HIDE DEF x
    <2>1. [t EXCEPT !.intervals = x] = Track(t.file, t.id, t.type, x)
        BY DEF WrittenTracks, Track
    <2> QED BY <2>1 DEF x
<1> QED BY <1>2, <1>3

\* A track as the server writes it: only advertising has intervals.
IsTrack(t) ==
    t \in WrittenTracks /\ Even(t.file) /\ (t.type = "background" => t.intervals = <<>>)

\* The track that the parser keeps is t, as far as the members D have been read.
Matches(f, file, id, type, ivs, D, t) ==
    /\ "filename" \in f <=> "filename" \in D
    /\ "id" \in f <=> "media_item_id" \in D
    /\ "type" \in f <=> "type" \in D
    /\ t.type # "background" => ("schedule_intervals" \in f <=> "schedule_intervals" \in D)
    /\ "filename" \in D => file = t.file
    /\ "media_item_id" \in D => id = t.id
    /\ "type" \in D => type = t.type
    /\ ivs = IF "schedule_intervals" \in D THEN IntervalsOf(t) ELSE <<>>

\* Nothing is missing from the track that the scheduler needs.
Complete(D, t) ==
    /\ "filename" \in D /\ "media_item_id" \in D /\ "type" \in D
    /\ t.type = "background" \/ "schedule_intervals" \in D

\* Its members D have been read; it is handed out as soon as it is complete.
Reading(c, D, t, calls) ==
    \E f, file, id, type, ivs : /\ c = AtTrack(f, calls, file, id, type, ivs)
                                /\ Matches(f, file, id, type, ivs, D, t)

\* The track has been handed out.
Handed(c, calls) ==
    \E f, id, type : c = AtHanded(f, calls, id, type)

\* The invariant of reading a track.
InTrack(c, D, t, calls) ==
    IF Complete(D, t) THEN Handed(c, Append(calls, AsTrack(t))) ELSE Reading(c, D, t, calls)

\* The parser finds a track ready exactly when it is complete.
LEMMA NotReady ==
    ASSUME NEW f, NEW file, NEW id, NEW type, NEW ivs, NEW D, NEW t,
           Matches(f, file, id, type, ivs, D, t)
    PROVE  Ready(f, type) <=> Complete(D, t)
BY DEF Matches, Complete, Ready

\* What is done at the end of a turn.
LEMMA HandOutInTrack ==
    ASSUME NEW f, NEW calls, NEW file, NEW id, NEW type, NEW ivs, NEW D, NEW t, IsTrack(t),
           Matches(f, file, id, type, ivs, D, t)
    PROVE  InTrack(HandOut(AtTrack(f, calls, file, id, type, ivs)), D, t, calls)
<1> DEFINE c == AtTrack(f, calls, file, id, type, ivs)
<1>1. CASE Complete(D, t)
    <2>1. Ready(f, type)
        BY <1>1, NotReady
    <2>2. ivs = IntervalsOf(t)
        <3>1. CASE "schedule_intervals" \in D
            BY <3>1 DEF Matches
        <3>2. CASE "schedule_intervals" \notin D
            <4>1. t.intervals = <<>> /\ ivs = <<>>
                BY <1>1, <3>2 DEF Complete, IsTrack, Matches
            <4> QED BY <4>1 DEF IntervalsOf
        <3> QED BY <3>1, <3>2
    <2>3. Track(file, id, type, ivs) = AsTrack(t)
        <3>1. file = t.file /\ id = t.id /\ type = t.type
            BY <1>1 DEF Complete, Matches
        <3>2. AsTrack(t) = Track(t.file, t.id, t.type, IntervalsOf(t))
            BY AsTrackIs DEF IsTrack
        <3> QED BY <2>2, <3>1, <3>2
    <2>4. HandOut(c) = AtHanded({}, Append(calls, Track(file, id, type, ivs)), id, type)
        BY <2>1, HandOutTrack
    <2>5. Handed(HandOut(c), Append(calls, AsTrack(t)))
        BY <2>3, <2>4, Zenon DEF Handed
    <2> QED BY <1>1, <2>5 DEF InTrack
<1>2. CASE ~Complete(D, t)
    <2>1. ~Ready(f, type)
        BY <1>2, NotReady
    <2>2. HandOut(c) = c
        <3> DEFINE no == FALSE   S == {}
                   d == Context(NoKey, f, S, no, calls, Track(file, id, type, ivs))
        <3> HIDE DEF no, S
        <3>1. HandOut(d) = d
            BY <2>1, HandOutNothing
        <3> QED BY <3>1, Zenon DEF no, S, AtTrack
    <2>3. Reading(c, D, t, calls)
        BY Zenon DEF Reading
    <2> HIDE DEF c
    <2> QED BY <1>2, <2>2, <2>3, Zenon DEF InTrack, c
<1> QED BY <1>1, <1>2

-------------------------------------------------------------------------------
(* The members of a track, in any order.                                   *)

\* A track is read member by member; it is handed out once.
LEMMA ReadFileMember ==
    ASSUME NEW t, IsTrack(t), NEW D, "filename" \notin D, NEW calls, NEW c, InTrack(c, D, t, calls)
    PROVE  LET text == <<Str("filename"), Str(t.file)>>
           IN  /\ text \in Seq(Tokens)
               /\ \E d : Runs(c, text, d) /\ InTrack(d, D \cup {"filename"}, t, calls)
<1>1. ~Complete(D, t)
    BY DEF Complete
<1>2. PICK f, file, id, type, ivs : /\ c = AtTrack(f, calls, file, id, type, ivs)
                                    /\ Matches(f, file, id, type, ivs, D, t)
    BY <1>1, Zenon DEF InTrack, Reading
<1> DEFINE x == t.file   u == Str("filename")   w == Str(t.file)
           g == f \cup {"filename"}   E == D \cup {"filename"}
           k == AtMember("filename", f, calls, file, id, type, ivs)
           d == HandOut(AtTrack(g, calls, x, id, type, ivs))
<1>3. TraverseNext(c, u) = k
    <2>1. ~Ready(f, type)
        BY <1>1, <1>2, NotReady
    <2> DEFINE key == "filename"
    <2>2. key # "schedule" /\ key # "schedule_intervals"
        OBVIOUS
    <2> HIDE DEF key
    <2>3. TraverseNext(AtTrack(f, calls, file, id, type, ivs), Str(key)) = AtMember(key, f, calls, file, id, type, ivs)
        BY <2>1, <2>2, ReadMemberKey
    <2> QED BY <1>2, <2>3, Zenon DEF key
<1>4. x \in STRING /\ x # "schedule" /\ x # "schedule_intervals"
    BY DEF IsTrack, WrittenTracks
<1>5. TraverseNext(k, w) = d
    BY <1>4, ReadFile
<1>6. u \in Tokens /\ w \in Tokens
    BY <1>4, WordToken DEF Words, TrackMembers
<1>7. InTrack(d, E, t, calls)
    <2>1. Matches(g, x, id, type, ivs, E, t)
        BY <1>2 DEF Matches
    <2> HIDE DEF g, E, x
    <2> QED BY <2>1, HandOutInTrack
<1> HIDE DEF k, d, u, w, E
<1>8. Runs(c, <<u, w>>, d) /\ <<u, w>> \in Seq(Tokens)
    BY <1>3, <1>5, <1>6, RunsTwo
<1> QED BY <1>7, <1>8 DEF u, w, E

\* The same for the id ...
LEMMA ReadIdMember ==
    ASSUME NEW t, IsTrack(t), NEW D, "media_item_id" \notin D, NEW calls, NEW c, InTrack(c, D, t, calls)
    PROVE  LET text == <<Str("media_item_id"), <<"num", t.id>>>>
           IN  /\ text \in Seq(Tokens)
               /\ \E d : Runs(c, text, d) /\ InTrack(d, D \cup {"media_item_id"}, t, calls)
<1>1. ~Complete(D, t)
    BY DEF Complete
<1>2. PICK f, file, id, type, ivs : /\ c = AtTrack(f, calls, file, id, type, ivs)
                                    /\ Matches(f, file, id, type, ivs, D, t)
    BY <1>1, Zenon DEF InTrack, Reading
<1> DEFINE x == t.id   u == Str("media_item_id")   w == <<"num", t.id>>
           g == f \cup {"id"}   E == D \cup {"media_item_id"}
           k == AtMember("media_item_id", f, calls, file, id, type, ivs)
           d == HandOut(AtTrack(g, calls, file, x, type, ivs))
<1>3. TraverseNext(c, u) = k
    <2>1. ~Ready(f, type)
        BY <1>1, <1>2, NotReady
    <2> DEFINE key == "media_item_id"
    <2>2. key # "schedule" /\ key # "schedule_intervals"
        OBVIOUS
    <2> HIDE DEF key
    <2>3. TraverseNext(AtTrack(f, calls, file, id, type, ivs), Str(key)) = AtMember(key, f, calls, file, id, type, ivs)
        BY <2>1, <2>2, ReadMemberKey
    <2> QED BY <1>2, <2>3, Zenon DEF key
<1>4. x \in Nat
    BY DEF IsTrack, WrittenTracks
<1>5. TraverseNext(k, w) = d
    BY ReadId
<1>6. u \in Tokens /\ w \in Tokens
    BY <1>4, WordToken, NumberToken DEF Words, TrackMembers
<1>7. InTrack(d, E, t, calls)
    <2>1. Matches(g, file, x, type, ivs, E, t)
        BY <1>2 DEF Matches
    <2> HIDE DEF g, E, x
    <2> QED BY <2>1, HandOutInTrack
<1> HIDE DEF k, d, u, w, E
<1>8. Runs(c, <<u, w>>, d) /\ <<u, w>> \in Seq(Tokens)
    BY <1>3, <1>5, <1>6, RunsTwo
<1> QED BY <1>7, <1>8 DEF u, w, E

\* ... and for the type.
LEMMA ReadTypeMember ==
    ASSUME NEW t, IsTrack(t), NEW D, "type" \notin D, NEW calls, NEW c, InTrack(c, D, t, calls)
    PROVE  LET text == <<Str("type"), Str(t.type)>>
           IN  /\ text \in Seq(Tokens)
               /\ \E d : Runs(c, text, d) /\ InTrack(d, D \cup {"type"}, t, calls)
<1>1. ~Complete(D, t)
    BY DEF Complete
<1>2. PICK f, file, id, type, ivs : /\ c = AtTrack(f, calls, file, id, type, ivs)
                                    /\ Matches(f, file, id, type, ivs, D, t)
    BY <1>1, Zenon DEF InTrack, Reading
<1> DEFINE x == t.type   u == Str("type")   w == Str(t.type)
           g == f \cup {"type"}   E == D \cup {"type"}
           k == AtMember("type", f, calls, file, id, type, ivs)
           d == HandOut(AtTrack(g, calls, file, id, x, ivs))
<1>3. TraverseNext(c, u) = k
    <2>1. ~Ready(f, type)
        BY <1>1, <1>2, NotReady
    <2> DEFINE key == "type"
    <2>2. key # "schedule" /\ key # "schedule_intervals"
        OBVIOUS
    <2> HIDE DEF key
    <2>3. TraverseNext(AtTrack(f, calls, file, id, type, ivs), Str(key)) = AtMember(key, f, calls, file, id, type, ivs)
        BY <2>1, <2>2, ReadMemberKey
    <2> QED BY <1>2, <2>3, Zenon DEF key
<1>4. x = "background" \/ x = "advertising"
    BY DEF IsTrack, WrittenTracks
<1>5. TraverseNext(k, w) = d
    BY <1>4, ReadType
<1>6. u \in Tokens /\ w \in Tokens
    BY <1>4, WordToken DEF Words, TrackMembers
<1>7. InTrack(d, E, t, calls)
    <2>1. Matches(g, file, id, x, ivs, E, t)
        BY <1>2 DEF Matches
    <2> HIDE DEF g, E, x
    <2> QED BY <2>1, HandOutInTrack
<1> HIDE DEF k, d, u, w, E
<1>8. Runs(c, <<u, w>>, d) /\ <<u, w>> \in Seq(Tokens)
    BY <1>3, <1>5, <1>6, RunsTwo
<1> QED BY <1>7, <1>8 DEF u, w, E

\* The intervals of a track that has not been handed out ...
LEMMA ReadIntervalsMember ==
    ASSUME NEW f, NEW calls, NEW file, NEW id, NEW type, ~Ready(f, type),
           NEW list \in Seq(Intervals),
           NEW pl, IsOrder(pl.intervalOrder, IntervalMembers)
    PROVE  LET text == <<Str("schedule_intervals")>>
                       \o Brackets(FlattenSeq([i \in DOMAIN list |-> IntervalText(list[i], pl)]))
           IN  /\ text \in Seq(Tokens)
               /\ Runs(AtTrack(f, calls, file, id, type, <<>>), text,
                       HandOut(AtTrack(f \cup {"schedule_intervals"}, calls, file, id, type,
                                       [i \in DOMAIN list |-> AsInterval(list[i])])))
<1> DEFINE c == AtTrack(f, calls, file, id, type, <<>>)
           C(ivs) == AtList(f, calls, file, id, type, ivs)
           g == f \cup {"schedule_intervals"}
           ivs == [i \in DOMAIN list |-> AsInterval(list[i])]
           d == HandOut(AtTrack(g, calls, file, id, type, ivs))
           text == FlattenSeq([i \in DOMAIN list |-> IntervalText(list[i], pl)])
           t == Str("schedule_intervals")
<1>1. text \in Seq(Tokens) /\ Runs(C(<<>>), text, C(ivs))
    BY ReadIntervals
<1>2. TraverseNext(c, t) = C(<<>>)
    <2> DEFINE no == FALSE   none == <<>>
    <2> HIDE DEF no, none
    <2>1. TraverseNext(Context(NoKey, f, {}, no, calls, Track(file, id, type, none)), t)
            = Context(NoKey, f, {"schedule_intervals"}, no, calls, Track(file, id, type, none))
        BY ReadIntervalsKey
    <2> QED BY <2>1, Zenon DEF no, none, AtTrack, AtList
<1>3. TraverseNext(C(<<>>), <<"[">>) = C(<<>>)
    <2>1. Steady(C(<<>>))
        BY SteadyContext DEF AtList
    <2> HIDE DEF C
    <2> QED BY <2>1, ReadList
<1>4. TraverseNext(C(ivs), <<"]">>) = d
    <2> DEFINE no == FALSE
    <2> HIDE DEF no, ivs, g
    <2>1. TraverseNext(Context(NoKey, f, {"schedule_intervals"}, no, calls, Track(file, id, type, ivs)), <<"]">>)
            = HandOut(Context(NoKey, g, {}, no, calls, Track(file, id, type, ivs)))
        BY CloseIntervals DEF g
    <2> QED BY <2>1, Zenon DEF no, AtTrack, AtList
<1>5. t \in Tokens
    BY WordToken DEF Words, TrackMembers
<1> HIDE DEF c, C, d, text, t, ivs
<1>6. Brackets(text) \in Seq(Tokens) /\ Runs(C(<<>>), Brackets(text), d)
    BY <1>1, <1>3, <1>4, RunsBrackets
<1>7. <<t>> \o Brackets(text) \in Seq(Tokens) /\ Runs(c, <<t>> \o Brackets(text), d)
    BY <1>2, <1>5, <1>6, RunsAfter
<1> QED BY <1>7 DEF c, d, text, t, ivs

\* ... and the empty list of one that has.
LEMMA ReadNoIntervals ==
    ASSUME NEW f, NEW calls, NEW id, NEW type
    PROVE  Runs(AtHanded(f, calls, id, type), <<Str("schedule_intervals")>> \o Brackets(<<>>),
                AtHanded(f \cup {"schedule_intervals"}, calls, id, type))
<1> DEFINE yes == TRUE   g == f \cup {"schedule_intervals"}   none == <<>>
           tr == Track(NoFile, id, type, none)   S == {}   U == {"schedule_intervals"}
           c == Context(NoKey, f, S, yes, calls, tr)
           k == Context(NoKey, f, U, yes, calls, tr)
           d == Context(NoKey, g, S, yes, calls, tr)
           t == Str("schedule_intervals")
<1>1. yes = TRUE
    OBVIOUS
<1> HIDE DEF yes, none
<1>2. TraverseNext(c, t) = k
    BY <1>1, ReadIntervalsKey
<1>3. TraverseNext(k, <<"[">>) = k
    <2> HIDE DEF U
    <2>1. Steady(k)
        BY <1>1, SteadyContext
    <2> HIDE DEF k
    <2> QED BY <2>1, ReadList
<1>4. TraverseNext(k, <<"]">>) = d
    <2>1. TraverseNext(k, <<"]">>) = HandOut(d)
        BY CloseIntervals
    <2> HIDE DEF g, S
    <2>2. HandOut(d) = d
        BY <1>1, HandOutNothing
    <2> QED BY <2>1, <2>2
<1>5. t \in Tokens
    BY WordToken DEF Words, TrackMembers
<1> HIDE DEF c, k, d, t
<1>6. <<>> \in Seq(Tokens) /\ Runs(k, <<>>, k)
    BY RunsNothing
<1>7. Brackets(<<>>) \in Seq(Tokens) /\ Runs(k, Brackets(<<>>), d)
    BY <1>3, <1>4, <1>6, RunsBrackets
<1>8. Runs(c, <<t>> \o Brackets(<<>>), d)
    BY <1>2, <1>5, <1>7, RunsAfter
<1> QED BY <1>8, Zenon DEF c, d, t, g, tr, S, yes, none, AtHanded

\* No texts, no text.
LEMMA FlattenNothing == FlattenSeq(<<>>) = <<>>
<1>1. Len(<<>>) = 0
    OBVIOUS
<1> QED BY <1>1 DEF FlattenSeq

\* Any member of a track.
LEMMA ReadTrackMember ==
    ASSUME NEW t, IsTrack(t), NEW pl, IsOrder(pl.intervalOrder, IntervalMembers),
           NEW D, NEW m \in TrackMembers, m \notin D, NEW calls, NEW c, InTrack(c, D, t, calls)
    PROVE  /\ TrackMember(t, pl, m) \in Seq(Tokens)
           /\ \E d : Runs(c, TrackMember(t, pl, m), d) /\ InTrack(d, D \cup {m}, t, calls)
<1>1. CASE m = "filename"
    <2>1. TrackMember(t, pl, m) = <<Str("filename"), Str(t.file)>>
        BY <1>1 DEF TrackMember
    <2> QED BY <1>1, <2>1, ReadFileMember
<1>2. CASE m = "media_item_id"
    <2>1. TrackMember(t, pl, m) = <<Str("media_item_id"), <<"num", t.id>>>>
        BY <1>2 DEF TrackMember
    <2> QED BY <1>2, <2>1, ReadIdMember
<1>3. CASE m = "type"
    <2>1. TrackMember(t, pl, m) = <<Str("type"), Str(t.type)>>
        BY <1>3 DEF TrackMember
    <2> QED BY <1>3, <2>1, ReadTypeMember
<1>4. CASE m = "schedule_intervals"
    <2> DEFINE E == D \cup {m}   text == TrackMember(t, pl, m)   list == t.intervals
               full == <<Str("schedule_intervals")>>
                       \o Brackets(FlattenSeq([i \in DOMAIN list |-> IntervalText(list[i], pl)]))
    <2>1. text = IF t.type = "background" /\ ~pl.emptyIntervals THEN <<>> ELSE full
        BY <1>4 DEF TrackMember
    <2>2. Complete(D, t) => t.type = "background"
        BY <1>4 DEF Complete
    <2>3. list \in Seq(Intervals)
        BY DEF IsTrack, WrittenTracks
    <2>4. full \in Seq(Tokens)
        <3>1. ~Ready({}, "background")
            BY DEF Ready
        <3> DEFINE f == {}   type == "background"
        <3>2. ~Ready(f, type)
            BY <3>1
        <3> HIDE DEF f, type, list
        <3> QED BY <2>3, <3>2, ReadIntervalsMember
    <2>5. CASE t.type = "background" /\ ~pl.emptyIntervals
        <3>1. text = <<>>
            BY <2>1, <2>5
        <3>2. IntervalsOf(t) = <<>>
            BY <2>5 DEF IsTrack, IntervalsOf
        <3>3. InTrack(c, E, t, calls)
            <4>1. Complete(E, t) <=> Complete(D, t)
                BY <1>4, <2>5 DEF Complete
            <4>2. ASSUME Reading(c, D, t, calls) PROVE Reading(c, E, t, calls)
                <5>1. PICK f, file, id, type, ivs : /\ c = AtTrack(f, calls, file, id, type, ivs)
                                                    /\ Matches(f, file, id, type, ivs, D, t)
                    BY <4>2, Zenon DEF Reading
                <5>2. Matches(f, file, id, type, ivs, E, t)
                    BY <1>4, <2>5, <3>2, <5>1 DEF Matches
                <5> HIDE DEF E
                <5> QED BY <5>1, <5>2, Zenon DEF Reading
            <4> HIDE DEF E
            <4> QED BY <4>1, <4>2, Zenon DEF InTrack
        <3>4. Runs(c, text, c) /\ text \in Seq(Tokens)
            BY <3>1, RunsNothing
        <3> QED BY <3>3, <3>4
    <2>6. CASE text = full /\ Complete(D, t)
        <3>1. t.type = "background" /\ list = <<>>
            BY <2>2, <2>6 DEF IsTrack
        <3>2. full = <<Str("schedule_intervals")>> \o Brackets(<<>>)
            <4>1. [i \in DOMAIN list |-> IntervalText(list[i], pl)] = <<>>
                BY <3>1
            <4> HIDE DEF list
            <4>2. FlattenSeq([i \in DOMAIN list |-> IntervalText(list[i], pl)]) = <<>>
                BY <4>1, FlattenNothing, Zenon
            <4> QED BY <4>2, Zenon
        <3>3. PICK f, id, type : c = AtHanded(f, Append(calls, AsTrack(t)), id, type)
            BY <2>6, Zenon DEF InTrack, Handed
        <3> DEFINE d == AtHanded(f \cup {"schedule_intervals"}, Append(calls, AsTrack(t)), id, type)
        <3>4. Runs(c, full, d)
            BY <3>2, <3>3, ReadNoIntervals
        <3>5. Complete(E, t)
            BY <2>6 DEF Complete
        <3>6. InTrack(d, E, t, calls)
            <4>1. Handed(d, Append(calls, AsTrack(t)))
                BY Zenon DEF Handed
            <4> HIDE DEF d, E
            <4> QED BY <3>5, <4>1, Zenon DEF InTrack
        <3> HIDE DEF d, full, text
        <3> QED BY <2>4, <2>6, <3>4, <3>6 DEF text
    <2>7. CASE text = full /\ ~Complete(D, t)
        <3>1. PICK f, file, id, type, ivs : /\ c = AtTrack(f, calls, file, id, type, ivs)
                                            /\ Matches(f, file, id, type, ivs, D, t)
            BY <2>7, Zenon DEF InTrack, Reading
        <3>2. ~Ready(f, type) /\ ivs = <<>>
            <4>1. ~Ready(f, type)
                BY <2>7, <3>1, NotReady
            <4>2. ivs = <<>>
                BY <1>4, <3>1 DEF Matches
            <4> QED BY <4>1, <4>2
        <3> DEFINE g == f \cup {"schedule_intervals"}
                   all == [i \in DOMAIN list |-> AsInterval(list[i])]
                   d == HandOut(AtTrack(g, calls, file, id, type, all))
        <3>3. Runs(c, full, d)
            <4>1. c = AtTrack(f, calls, file, id, type, <<>>)
                BY <3>1, <3>2
            <4> HIDE DEF list
            <4> QED BY <2>3, <3>2, <4>1, ReadIntervalsMember
        <3>4. Matches(g, file, id, type, all, E, t)
            <4>1. all = IntervalsOf(t)
                BY DEF IntervalsOf
            <4> HIDE DEF all
            <4> QED BY <1>4, <3>1, <4>1 DEF Matches
        <3>5. InTrack(d, E, t, calls)
            <4> HIDE DEF g, all, E
            <4> QED BY <3>4, HandOutInTrack
        <3> HIDE DEF d, full, text
        <3> QED BY <2>4, <2>7, <3>3, <3>5 DEF text
    <2>8. CASE ~(t.type = "background" /\ ~pl.emptyIntervals)
        <3>1. text = full
            BY <2>1, <2>8
        <3> QED BY <2>6, <2>7, <3>1
    <2> QED BY <2>5, <2>8
<1> QED BY <1>1, <1>2, <1>3, <1>4 DEF TrackMembers

-------------------------------------------------------------------------------
(* What the parser does not know, and what is between the tracks.          *)

\* The value of a key that the parser does not know.
LEMMA ReadUnknown ==
    ASSUME NEW key, key = "enabled" \/ key = "name", NEW k, k = "str" \/ k = "lit",
           NEW x, x # "schedule", x # "schedule_intervals",
           NEW calls, NEW file, NEW id, NEW type, NEW ivs
    PROVE  TraverseNext(AtMember(key, {}, calls, file, id, type, ivs), <<k, x>>)
              = AtTrack({}, calls, file, id, type, ivs)
<1> DEFINE tr == Track(file, id, type, ivs)
           c == Context(key, {}, {}, FALSE, calls, tr)
           t == <<k, x>>
<1>1. TraverseNext(c, t) = HandOut(HelperNext(c, t))
    <2>1. CASE k = "str"
        <3>1. StringFound(c, t) = HelperNext(c, t)
            <4> HIDE DEF tr
            <4> QED BY DEF StringFound, IsWord, Context
        <3>2. k \in {"str", "date", "time"}
            BY <2>1
        <3> HIDE DEF c
        <3> QED BY <3>1, <3>2, NextString
    <2>2. CASE k = "lit"
        <3>1. k \in {"num", "lit"}
            BY <2>2
        <3> HIDE DEF c
        <3> QED BY <3>1, NextOther
    <2> QED BY <2>1, <2>2
<1>2. OnParse(c, t) = c
    <2> HIDE DEF tr
    <2> QED BY DEF OnParse, FoundMember, FoundBound, Context
<1>3. c.key # NoKey
    BY DEF Context, NoKey
<1>4. HelperNext(c, t) = Context(NoKey, {}, {}, FALSE, calls, tr)
    <2>1. HelperNext(c, t) = [c EXCEPT !.key = NoKey]
        <3> HIDE DEF c, t
        <3> QED BY <1>2, <1>3, HelperValue
    <2> HIDE DEF tr
    <2> QED BY <2>1 DEF Context
<1>5. ~Ready({}, type)
    BY DEF Ready
<1>6. HandOut(Context(NoKey, {}, {}, FALSE, calls, tr)) = Context(NoKey, {}, {}, FALSE, calls, tr)
    BY <1>5 DEF HandOut, TrackReady, Context, Track, Ready
<1> QED BY <1>1, <1>4, <1>6, Zenon DEF AtMember, AtTrack

\* Braces and brackets that only reset the key.
LEMMA OpenObject ==
    ASSUME NEW c, Steady(c), "schedule_intervals" \notin c.searching
    PROVE  TraverseNext(c, <<"{">>) = c
BY NextOpen, Zenon DEF Steady, ObjectBegins

\* The end of an object.
LEMMA CloseObject ==
    ASSUME NEW c, Steady(c), c.called = FALSE
    PROVE  TraverseNext(c, <<"}">>) = c
BY NextClose, Zenon DEF Steady, ObjectEnds

\* The end of a list.
LEMMA CloseItems ==
    ASSUME NEW c, Steady(c), c.searching = {}
    PROVE  TraverseNext(c, <<"]">>) = c
<1>1. ArrayEnds(c) = c
    BY DEF ArrayEnds
<1> QED BY <1>1, NextListEnd DEF Steady

\* Between two tracks.
BetweenTracks(calls, id, type) == AtTrack({}, calls, NoFile, id, type, <<>>)

\* Nothing is to be handed out there.
LEMMA SteadyBetween ==
    ASSUME NEW calls, NEW id, NEW type
    PROVE  LET c == BetweenTracks(calls, id, type)
           IN  Steady(c) /\ c.searching = {}
<1> DEFINE c == BetweenTracks(calls, id, type)   none == <<>>   S == {}   no == FALSE
           d == Context(NoKey, S, S, no, calls, Track(NoFile, id, type, none))
<1>1. ~Ready(S, type)
    BY DEF Ready
<1> HIDE DEF none, S, no
<1>2. Steady(d)
    BY <1>1, SteadyContext
<1>3. d.searching = S
    <2> DEFINE tr == Track(NoFile, id, type, none)
    <2> HIDE DEF tr
    <2> QED BY DEF Context
<1>4. c = d
    BY Zenon DEF BetweenTracks, AtTrack, S, no, none
<1> HIDE DEF c, d
<1>5. Steady(c) /\ c.searching = {}
    BY <1>2, <1>3, <1>4, Zenon DEF S
<1> QED BY <1>5 DEF c

\* The end of a track that has been handed out makes room for the next one.
LEMMA CloseTrack ==
    ASSUME NEW f, NEW calls, NEW id, NEW type
    PROVE  TraverseNext(AtHanded(f, calls, id, type), <<"}">>) = BetweenTracks(calls, id, type)
<1> DEFINE c == AtHanded(f, calls, id, type)   d == BetweenTracks(calls, id, type)
<1>1. ObjectEnds(c) = d
    BY DEF ObjectEnds, TrackFree, AtHanded, BetweenTracks, AtTrack, Context, Track
<1>2. Steady(d)
    BY SteadyBetween
<1> HIDE DEF c, d
<1>3. TraverseNext(c, <<"}">>) = d
    BY <1>1, <1>2, NextClose, Zenon DEF Steady
<1> QED BY <1>3 DEF c, d

\* The text of a member is one of tokens.
LEMMA MemberTyped ==
    ASSUME NEW t, IsTrack(t), NEW pl, IsOrder(pl.intervalOrder, IntervalMembers), NEW m \in TrackMembers
    PROVE  TrackMember(t, pl, m) \in Seq(Tokens)
<1> DEFINE f == {}   file == NoFile   id == 0   type == "background"   ivs == <<>>
           c == AtTrack(f, <<>>, file, id, type, ivs)
<1>1. Matches(f, file, id, type, ivs, {}, t) /\ ~Complete({}, t) /\ m \notin {}
    BY DEF Matches, Complete
<1> HIDE DEF f, file, id, type, ivs
<1>2. Reading(c, {}, t, <<>>)
    BY <1>1, Zenon DEF Reading
<1>3. InTrack(c, {}, t, <<>>)
    BY <1>1, <1>2, Zenon DEF InTrack
<1> HIDE DEF c
<1> QED BY <1>1, <1>3, ReadTrackMember

\* The member "enabled" of a track changes nothing.
LEMMA SkipEnabled ==
    ASSUME NEW calls, NEW id, NEW type
    PROVE  Runs(BetweenTracks(calls, id, type), <<Str("enabled"), <<"lit", "true">>>>,
                BetweenTracks(calls, id, type))
<1> DEFINE key == "enabled"   k == "lit"   x == "true"   f == {}   none == <<>>
           c == AtTrack(f, calls, NoFile, id, type, none)
           d == AtMember(key, f, calls, NoFile, id, type, none)
<1>1. ~Ready(f, type) /\ key # "schedule" /\ key # "schedule_intervals" /\ key = "enabled"
      /\ k = "lit" /\ x # "schedule" /\ x # "schedule_intervals"
    BY DEF Ready
<1> HIDE DEF key, k, x, none
<1>2. TraverseNext(d, <<k, x>>) = c
    BY <1>1, ReadUnknown
<1> HIDE DEF f
<1>3. TraverseNext(c, Str(key)) = d
    BY <1>1, ReadMemberKey
<1> HIDE DEF c, d
<1>4. Runs(c, <<Str(key), <<k, x>>>>, c)
    BY <1>2, <1>3, RunsTwo
<1> QED BY <1>4, Zenon DEF c, key, k, x, f, none, BetweenTracks

\* The name of the playlist changes nothing.
LEMMA SkipName ==
    ASSUME NEW calls, NEW id, NEW type
    PROVE  Runs(BetweenTracks(calls, id, type), <<Str("name"), Str("any")>>,
                BetweenTracks(calls, id, type))
<1> DEFINE key == "name"   k == "str"   x == "any"   f == {}   none == <<>>
           c == AtTrack(f, calls, NoFile, id, type, none)
           d == AtMember(key, f, calls, NoFile, id, type, none)
<1>1. ~Ready(f, type) /\ key # "schedule" /\ key # "schedule_intervals" /\ key = "name"
      /\ k = "str" /\ x # "schedule" /\ x # "schedule_intervals"
    BY DEF Ready
<1> HIDE DEF key, k, x, none
<1>2. TraverseNext(d, <<k, x>>) = c
    BY <1>1, ReadUnknown
<1> HIDE DEF f
<1>3. TraverseNext(c, Str(key)) = d
    BY <1>1, ReadMemberKey
<1> HIDE DEF c, d
<1>4. Runs(c, <<Str(key), <<k, x>>>>, c)
    BY <1>2, <1>3, RunsTwo
<1> QED BY <1>4, Zenon DEF c, key, k, x, f, none, BetweenTracks, Str

-------------------------------------------------------------------------------
(* The whole playlist.                                                     *)

\* All the members of a track.
LEMMA ReadMembers ==
    ASSUME NEW t, IsTrack(t), NEW pl, IsOrder(pl.intervalOrder, IntervalMembers),
           IsOrder(pl.trackOrder, TrackMembers), NEW calls, NEW c, InTrack(c, {}, t, calls)
    PROVE  LET text == FlattenSeq([i \in DOMAIN pl.trackOrder |-> TrackMember(t, pl, pl.trackOrder[i])])
           IN  /\ text \in Seq(Tokens)
               /\ \E d : Runs(c, text, d) /\ Handed(d, Append(calls, AsTrack(t)))
<1> DEFINE order == pl.trackOrder   n == Len(order)
           E(k) == Before(order, k)
           ss == [i \in 1..n |-> TrackMember(t, pl, order[i])]
<1>1. /\ n \in Nat /\ DOMAIN order = 1..n /\ E(0) = {} /\ E(n) = TrackMembers
      /\ \A k \in 1..n : /\ order[k] \in TrackMembers /\ order[k] \notin E(k - 1)
                         /\ E(k) = E(k - 1) \cup {order[k]}
    BY OrderGrows
<1>2. \A i \in 1..n : ss[i] = TrackMember(t, pl, order[i])
    OBVIOUS
<1>3. ss \in [1..n -> Seq(Tokens)]
    <2>1. ASSUME NEW m \in TrackMembers PROVE TrackMember(t, pl, m) \in Seq(Tokens)
        BY MemberTyped
    <2> QED BY <1>1, <2>1
<1> HIDE DEF n, ss, E, order
<1>4. PICK g : /\ Joins(n, ss, g) /\ g[n] = FlattenSeq(ss)
               /\ \A i \in 0..n : g[i] \in Seq(Tokens)
    BY <1>1, <1>3, Flattened
<1> DEFINE Good(k) == \E d : Runs(c, g[k], d) /\ InTrack(d, E(k), t, calls)
           S == {k \in Nat : k <= n => Good(k)}
<1>5. Good(0)
    <2>1. g[0] = <<>>
        BY <1>4 DEF Joins
    <2>2. Runs(c, g[0], c)
        BY <2>1, RunsNothing
    <2>3. InTrack(c, E(0), t, calls)
        BY <1>1, Zenon
    <2> QED BY <2>2, <2>3
<1>6. ASSUME NEW k \in Nat, k + 1 <= n, Good(k) PROVE Good(k + 1)
    <2>1. PICK d : Runs(c, g[k], d) /\ InTrack(d, E(k), t, calls)
        BY <1>6
    <2> DEFINE i == k + 1   m == order[i]   D == E(k)
    <2>2. i \in 1..n /\ i - 1 = k /\ k \in 0..n
        BY <1>1, <1>6
    <2>3. m \in TrackMembers /\ m \notin D /\ E(i) = D \cup {m}
        <3> HIDE DEF i
        <3> QED BY <1>1, <2>2
    <2>4. g[i] = Cat(g[k], ss[i]) /\ ss[i] = TrackMember(t, pl, m)
        <3> HIDE DEF i
        <3> QED BY <1>2, <1>4, <2>2 DEF Joins
    <2> HIDE DEF i, m, D
    <2>5. PICK e : Runs(d, TrackMember(t, pl, m), e) /\ InTrack(e, D \cup {m}, t, calls)
        <3>1. InTrack(d, D, t, calls)
            BY <2>1 DEF D
        <3> QED BY <2>3, <3>1, ReadTrackMember
    <2>6. Runs(c, g[i], e)
        <3>1. g[k] \in Seq(Tokens) /\ ss[i] \in Seq(Tokens)
            BY <1>3, <1>4, <2>2
        <3>2. Runs(d, ss[i], e)
            BY <2>4, <2>5
        <3>3. Runs(c, Cat(g[k], ss[i]), e)
            BY <2>1, <3>1, <3>2, RunsOn DEF Cat
        <3> QED BY <2>4, <3>3
    <2> QED BY <2>3, <2>5, <2>6 DEF i
<1> HIDE DEF Good
<1>7. 0 \in S /\ \A k \in Nat : k \in S => k + 1 \in S
    BY <1>1, <1>5, <1>6
<1>8. n \in S
    <2> HIDE DEF S
    <2> QED BY <1>1, <1>7, Induction
<1>9. PICK d : Runs(c, g[n], d) /\ InTrack(d, TrackMembers, t, calls)
    <2>1. Good(n)
        BY <1>1, <1>8
    <2> QED BY <1>1, <2>1 DEF Good
<1>10. Handed(d, Append(calls, AsTrack(t)))
    <2>1. Complete(TrackMembers, t)
        BY DEF Complete, TrackMembers
    <2> QED BY <1>9, <2>1, Zenon DEF InTrack
<1>11. FlattenSeq(ss) \in Seq(Tokens) /\ Runs(c, FlattenSeq(ss), d)
    BY <1>1, <1>4, <1>9
<1>12. ss = [i \in DOMAIN pl.trackOrder |-> TrackMember(t, pl, pl.trackOrder[i])]
    BY <1>1 DEF ss, order
<1> QED BY <1>10, <1>11, <1>12

\* A track.
LEMMA ReadTrack ==
    ASSUME NEW t, IsTrack(t), NEW pl, IsOrder(pl.intervalOrder, IntervalMembers),
           IsOrder(pl.trackOrder, TrackMembers), NEW calls, NEW id, NEW type
    PROVE  /\ TrackText(t, pl) \in Seq(Tokens)
           /\ \E i, y : Runs(BetweenTracks(calls, id, type), TrackText(t, pl),
                             BetweenTracks(Append(calls, AsTrack(t)), i, y))
<1> DEFINE c == BetweenTracks(calls, id, type)
           u == Str("enabled")   w == <<"lit", "true">>   ab == <<u, w>>
           text == FlattenSeq([i \in DOMAIN pl.trackOrder |-> TrackMember(t, pl, pl.trackOrder[i])])
<1>1. TraverseNext(c, <<"{">>) = c
    <2>1. Steady(c) /\ c.searching = {}
        BY SteadyBetween
    <2> HIDE DEF c
    <2> QED BY <2>1, OpenObject
<1>2. Runs(c, ab, c) /\ ab \in Seq(Tokens)
    <2>1. u \in Tokens /\ w \in Tokens
        BY WordToken DEF Words
    <2>2. Runs(c, ab, c)
        BY SkipEnabled
    <2> HIDE DEF u, w, c
    <2> QED BY <2>1, <2>2
<1>3. InTrack(c, {}, t, calls)
    <2> DEFINE f == {}   file == NoFile   ivs == <<>>
    <2>1. Matches(f, file, id, type, ivs, {}, t) /\ ~Complete({}, t)
        BY DEF Matches, Complete
    <2>2. c = AtTrack(f, calls, file, id, type, ivs)
        BY DEF BetweenTracks
    <2> HIDE DEF c, f, file, ivs
    <2>3. Reading(c, {}, t, calls)
        BY <2>1, <2>2, Zenon DEF Reading
    <2> QED BY <2>1, <2>3, Zenon DEF InTrack
<1>4. text \in Seq(Tokens) /\ \E d : Runs(c, text, d) /\ Handed(d, Append(calls, AsTrack(t)))
    <2> HIDE DEF c
    <2> QED BY <1>3, ReadMembers
<1>5. PICK d : Runs(c, text, d) /\ Handed(d, Append(calls, AsTrack(t)))
    BY <1>4
<1>6. PICK f, i, y : d = AtHanded(f, Append(calls, AsTrack(t)), i, y)
    BY <1>5 DEF Handed
<1> DEFINE e == BetweenTracks(Append(calls, AsTrack(t)), i, y)
<1>7. TraverseNext(d, <<"}">>) = e
    BY <1>6, CloseTrack
<1>8. TrackText(t, pl) = Braces(ab \o text)
    BY DEF TrackText
<1> HIDE DEF c, text, ab, e
<1>9. ab \o text \in Seq(Tokens) /\ Runs(c, ab \o text, d)
    BY <1>2, <1>4, <1>5, RunsOn, ConcatProperties
<1> DEFINE all == ab \o text
<1> HIDE DEF all
<1>10. all \in Seq(Tokens) /\ Runs(c, all, d) /\ TrackText(t, pl) = Braces(all)
    BY <1>8, <1>9 DEF all
<1>11. Braces(all) \in Seq(Tokens) /\ Runs(c, Braces(all), e)
    BY <1>1, <1>7, <1>10, RunsBraces
<1> QED BY <1>10, <1>11 DEF c, e

\* The tracks of a playlist.
LEMMA ReadTracks ==
    ASSUME NEW pl, IsOrder(pl.intervalOrder, IntervalMembers), IsOrder(pl.trackOrder, TrackMembers),
           NEW list, NEW n \in Nat, DOMAIN list = 1..n, \A i \in 1..n : IsTrack(list[i])
    PROVE  LET text == FlattenSeq([i \in 1..n |-> TrackText(list[i], pl)])
           IN  /\ text \in Seq(Tokens)
               /\ \E i, y : Runs(BetweenTracks(<<>>, 0, "background"), text,
                                 BetweenTracks([k \in 1..n |-> AsTrack(list[k])], i, y))
<1> DEFINE ss == [i \in 1..n |-> TrackText(list[i], pl)]
           v == [i \in 1..n |-> AsTrack(list[i])]
           p(k) == [i \in 1..k |-> v[i]]
           c == BetweenTracks(<<>>, 0, "background")
           T == {v[i] : i \in 1..n}
<1>1. ASSUME NEW i \in 1..n PROVE ss[i] \in Seq(Tokens) /\ ss[i] = TrackText(list[i], pl)
    <2>1. IsTrack(list[i])
        OBVIOUS
    <2>2. TrackText(list[i], pl) \in Seq(Tokens)
        BY <2>1, ReadTrack
    <2> QED BY <2>2
<1>2. ss \in [1..n -> Seq(Tokens)]
    BY <1>1
<1>3. \A i \in 1..n : v[i] = AsTrack(list[i]) /\ v[i] \in T
    OBVIOUS
<1>4. p(0) = <<>> /\ p(n) = v
    OBVIOUS
<1> HIDE DEF ss, v, T
<1>5. PICK g : /\ Joins(n, ss, g) /\ g[n] = FlattenSeq(ss)
               /\ \A i \in 0..n : g[i] \in Seq(Tokens)
    BY <1>2, Flattened
<1> DEFINE Good(k) == \E i, y : Runs(c, g[k], BetweenTracks(p(k), i, y))
           S == {k \in Nat : k <= n => Good(k)}
<1>6. Good(0)
    <2>1. g[0] = <<>>
        BY <1>5 DEF Joins
    <2>2. Runs(c, g[0], c)
        BY <2>1, RunsNothing
    <2>3. c = BetweenTracks(p(0), 0, "background")
        BY <1>4, Zenon
    <2> HIDE DEF c, p
    <2> QED BY <2>2, <2>3, Zenon
<1>7. ASSUME NEW k \in Nat, k + 1 <= n, Good(k) PROVE Good(k + 1)
    <2>1. PICK i, y : Runs(c, g[k], BetweenTracks(p(k), i, y))
        BY <1>7, Zenon
    <2> DEFINE j == k + 1   t == list[j]   q == p(k)
    <2>2. j \in 1..n /\ j - 1 = k /\ k \in 0..n /\ IsTrack(t)
        BY <1>7
    <2>3. p(j) = Append(q, AsTrack(t))
        <3>1. \A a \in 1..k + 1 : v[a] \in T
            BY <1>3, <1>7
        <3>2. Append(p(k), v[k + 1]) = p(k + 1)
            BY <3>1, Collected
        <3>3. v[k + 1] = AsTrack(t)
            BY <1>3, <2>2
        <3> HIDE DEF p
        <3> QED BY <3>2, <3>3
    <2>4. g[j] = Cat(g[k], ss[j]) /\ ss[j] = TrackText(t, pl)
        <3> HIDE DEF j
        <3> QED BY <1>1, <1>5, <2>2 DEF Joins, t
    <2> HIDE DEF p, c, j, t, q
    <2>5. PICK a, b : Runs(BetweenTracks(q, i, y), TrackText(t, pl), BetweenTracks(Append(q, AsTrack(t)), a, b))
        BY <2>2, ReadTrack
    <2> DEFINE d == BetweenTracks(q, i, y)   e == BetweenTracks(Append(q, AsTrack(t)), a, b)
    <2>6. Runs(c, g[k], d) /\ Runs(d, ss[j], e)
        BY <2>1, <2>4, <2>5, Zenon DEF q
    <2> HIDE DEF d, e
    <2>7. Runs(c, g[j], e)
        <3>1. g[k] \in Seq(Tokens) /\ ss[j] \in Seq(Tokens)
            BY <1>2, <1>5, <2>2
        <3>2. Runs(c, Cat(g[k], ss[j]), e)
            BY <2>6, <3>1, RunsOn DEF Cat
        <3> QED BY <2>4, <3>2
    <2>8. e = BetweenTracks(p(j), a, b)
        BY <2>3 DEF e
    <2>9. \E aa, bb : Runs(c, g[j], BetweenTracks(p(j), aa, bb))
        BY <2>7, <2>8, Zenon
    <2> QED BY <2>9, Zenon DEF j
<1> HIDE DEF Good
<1>8. 0 \in S /\ \A k \in Nat : k \in S => k + 1 \in S
    BY <1>6, <1>7
<1>9. n \in S
    <2> HIDE DEF S
    <2> QED BY <1>8, Induction
<1>10. \E i, y : Runs(c, FlattenSeq(ss), BetweenTracks(v, i, y))
    <2>1. Good(n)
        BY <1>9
    <2> HIDE DEF c
    <2> QED BY <1>4, <1>5, <2>1, Zenon DEF Good
<1>11. FlattenSeq(ss) \in Seq(Tokens)
    BY <1>5
<1> QED BY <1>10, <1>11, Zenon DEF ss, v

\* Three tokens are two and one.
LEMMA Three ==
    ASSUME NEW T, NEW a \in T, NEW b \in T, NEW c \in T
    PROVE  <<a, b, c>> = <<a, b>> \o <<c>>
<1> DEFINE x == <<a, b>>   y == <<c>>   z == <<a, b, c>>
<1>1. /\ Len(x) = 2 /\ Len(y) = 1 /\ Len(z) = 3 /\ x[1] = a /\ x[2] = b /\ y[1] = c
      /\ z[1] = a /\ z[2] = b /\ z[3] = c
    OBVIOUS
<1>2. x \in Seq(T) /\ y \in Seq(T) /\ z \in Seq(T)
    OBVIOUS
<1> HIDE DEF x, y, z
<1>3. /\ x \o y \in Seq(T) /\ Len(x \o y) = 3
      /\ \A i \in 1..3 : (x \o y)[i] = IF i <= 2 THEN x[i] ELSE y[i - 2]
    <2>1. /\ x \o y \in Seq(T) /\ Len(x \o y) = Len(x) + Len(y)
          /\ \A i \in 1..Len(x) + Len(y) : (x \o y)[i] = IF i <= Len(x) THEN x[i] ELSE y[i - Len(x)]
        BY <1>2, ConcatProperties
    <2>2. Len(x) + Len(y) = 3
        BY <1>1
    <2> QED BY <1>1, <2>1, <2>2
<1>4. \A i \in 1..3 : (x \o y)[i] = z[i]
    BY <1>1, <1>3
<1>5. x \o y = z
    BY <1>1, <1>2, <1>3, <1>4, SeqEqual
<1> QED BY <1>5 DEF x, y, z

\* What comes before the tracks.
LEMMA ReadItemsKey ==
    ASSUME NEW calls, NEW id, NEW type
    PROVE  LET text == <<Str("name"), Str("any"), Str("items")>>
               c == BetweenTracks(calls, id, type)
           IN  /\ text \in Seq(Tokens)
               /\ \E k : Runs(c, text, k) /\ TraverseNext(k, <<"[">>) = c
<1> DEFINE a == Str("name")   b == Str("any")   i == Str("items")
           c == BetweenTracks(calls, id, type)
           key == "items"   f == {}   none == <<>>
           k == AtMember(key, f, calls, NoFile, id, type, none)
<1>1. a \in Tokens /\ b \in Tokens /\ i \in Tokens
    BY WordToken DEF Words
<1>2. Runs(c, <<a, b>>, c)
    BY SkipName
<1>3. ~Ready(f, type) /\ key # "schedule" /\ key # "schedule_intervals"
    BY DEF Ready
<1>4. TraverseNext(c, i) = k
    <2> HIDE DEF key, f, none
    <2>1. TraverseNext(AtTrack(f, calls, NoFile, id, type, none), Str(key)) = k
        BY <1>3, ReadMemberKey
    <2> HIDE DEF k
    <2> QED BY <2>1, Zenon DEF BetweenTracks, f, none, key
<1>5. TraverseNext(k, <<"[">>) = c
    <2>1. ResetKey(k) = c
        <3> DEFINE tr == Track(NoFile, id, type, none)   no == FALSE
        <3> HIDE DEF tr, f, key, no
        <3>1. ResetKey(Context(key, f, f, no, calls, tr)) = Context(NoKey, f, f, no, calls, tr)
            BY DEF ResetKey, Context
        <3> QED BY <3>1, Zenon DEF tr, f, no, AtMember, BetweenTracks, AtTrack
    <2>2. Steady(c)
        BY SteadyBetween
    <2> HIDE DEF c, k
    <2> QED BY <2>1, <2>2, NextList DEF Steady
<1> HIDE DEF a, b, i, c, k
<1>6. <<a, b>> \in Seq(Tokens)
    BY <1>1
<1>7. <<a, b>> \o <<i>> \in Seq(Tokens) /\ Runs(c, <<a, b>> \o <<i>>, k)
    BY <1>1, <1>2, <1>4, <1>6, RunsThen
<1>8. <<a, b, i>> \in Seq(Tokens) /\ Runs(c, <<a, b, i>>, k)
    BY <1>1, <1>7, Three
<1> QED BY <1>5, <1>8 DEF a, b, i, c

\* The parser hands out the tracks of the playlist as they are written, in their order,
\* each once, whatever the order of the members.
LEMMA PlaylistParsed ==
    ASSUME NEW pl, IsDocument(pl)
    PROVE  PlaylistText(pl) \in Seq(Tokens) /\ TraversePlaylist(PlaylistText(pl)) = AsWritten(pl)
<1> DEFINE list == pl.tracks   n == Len(list)
           items == FlattenSeq([i \in 1..n |-> TrackText(list[i], pl)])
           head == <<Str("name"), Str("any"), Str("items")>>
           v == [i \in 1..n |-> AsTrack(list[i])]
           c == BetweenTracks(<<>>, 0, "background")
<1>1. n \in Nat /\ DOMAIN list = 1..n /\ \A i \in 1..n : IsTrack(list[i])
    <2>1. list \in Seq(WrittenTracks)
        BY DEF IsDocument
    <2>2. n \in Nat /\ DOMAIN list = 1..n /\ \A i \in 1..n : list[i] \in WrittenTracks
        BY <2>1, LenProperties, ElementOfSeq
    <2> QED BY <2>2 DEF IsDocument, IsTrack
<1>2. PICK i, y : Runs(c, items, BetweenTracks(v, i, y))
    <2>1. \E i, y : Runs(c, items, BetweenTracks(v, i, y))
        <3> HIDE DEF list, n
        <3> QED BY <1>1, ReadTracks DEF IsDocument
    <2> QED BY <2>1, Zenon
<1>3. items \in Seq(Tokens)
    <2> HIDE DEF list, n
    <2> QED BY <1>1, ReadTracks DEF IsDocument
<1> DEFINE e == BetweenTracks(v, i, y)
<1>4. head \in Seq(Tokens) /\ \E k : Runs(c, head, k) /\ TraverseNext(k, <<"[">>) = c
    BY ReadItemsKey
<1>5. PICK k : Runs(c, head, k) /\ TraverseNext(k, <<"[">>) = c
    BY <1>4, Zenon
<1>6. TraverseNext(c, <<"{">>) = c
    <2>1. Steady(c) /\ c.searching = {}
        BY SteadyBetween
    <2> HIDE DEF c
    <2> QED BY <2>1, OpenObject
<1>7. TraverseNext(e, <<"]">>) = e /\ TraverseNext(e, <<"}">>) = e /\ e.calls = v
    <2>1. Steady(e) /\ e.searching = {} /\ e.called = FALSE /\ e.calls = v
        <3> HIDE DEF v, n, list, items, head, c
        <3>1. Steady(e)
            BY SteadyBetween
        <3>2. e.searching = {}
            BY SteadyBetween
        <3>3. e.called = FALSE /\ e.calls = v
            BY DEF BetweenTracks, AtTrack, Context
        <3> QED BY <3>1, <3>2, <3>3
    <2> HIDE DEF e
    <2> QED BY <2>1, CloseItems, CloseObject
<1>8. c = ContextInit
    BY DEF BetweenTracks, AtTrack, Context, Track, ContextInit
<1>9. PlaylistText(pl) = Braces(head \o Brackets(items)) /\ AsWritten(pl) = v
    BY <1>1, Zenon DEF PlaylistText, AsWritten
<1> HIDE DEF items, head, c, e, v
<1>10. Brackets(items) \in Seq(Tokens) /\ Runs(k, Brackets(items), e)
    BY <1>2, <1>3, <1>5, <1>7, RunsBrackets DEF e
<1> DEFINE body == head \o Brackets(items)
<1>11. body \in Seq(Tokens) /\ Runs(c, body, e)
    BY <1>4, <1>5, <1>10, RunsOn, ConcatProperties
<1> HIDE DEF body
<1>12. Braces(body) \in Seq(Tokens) /\ Runs(c, Braces(body), e)
    BY <1>6, <1>7, <1>11, RunsBraces
<1>13. Len(Braces(body)) \in Nat
    BY <1>12, LenProperties
<1>14. TraversePlaylist(Braces(body)) = e.calls
    BY <1>8, <1>12, <1>13, RunIsParse
<1> QED BY <1>7, <1>9, <1>12, <1>14 DEF body

-------------------------------------------------------------------------------
(* The copying of the playlist from the message.                           *)

\* The extraction, started in state c, is in state d after the tokens s.
Extracts(c, s, d) == Walks("extract", c, s, d)

\* One token.
LEMMA ExtractsOne == ASSUME NEW c, NEW t PROVE Extracts(c, <<t>>, ExtractNext(c, t))
<1>1. Walks("extract", c, <<t>>, Turn("extract", c, t)) /\ Turn("extract", c, t) = ExtractNext(c, t)
    BY WalksOne DEF Turn
<1> QED BY <1>1, Zenon DEF Extracts

\* One text after the other.
LEMMA ExtractsOn ==
    ASSUME NEW T, NEW s \in Seq(T), NEW t \in Seq(T), NEW c, NEW d, NEW e,
           Extracts(c, s, d), Extracts(d, t, e)
    PROVE  Extracts(c, s \o t, e)
BY WalksOn DEF Extracts

\* The state in which the extraction begins.
Nowhere == [braces |-> 0, nesting |-> 0, done |-> FALSE, out |-> <<>>]

\* What a run over a whole message has copied is what extract_playlist_from_message copies.
LEMMA RunIsExtraction ==
    ASSUME NEW s, Len(s) \in Nat, NEW d, Extracts(Nowhere, s, d)
    PROVE  ExtractPlaylist(s) = d.out
<1> DEFINE n == Len(s)
           F(c) == [i \in 0..n |-> IF i = 0 THEN Nowhere ELSE ExtractNext(c[i - 1], s[i])]
           f == CHOOSE c : c = F(c)
<1>1. ExtractPlaylist(s) = f[n].out
    BY Zenon DEF ExtractPlaylist, Nowhere
<1>2. PICK g : /\ DOMAIN g = 0..n /\ g[0] = Nowhere /\ g[n] = d
               /\ \A i \in 1..n : g[i] = ExtractNext(g[i - 1], s[i])
    BY DEF Extracts, Walks, Turn
<1>3. [i \in 0..n |-> g[i]] = F([i \in 0..n |-> g[i]])
    BY <1>2
<1>4. f = F(f)
    BY <1>3, Zenon
<1> HIDE DEF f
<1>5. f[0] = Nowhere /\ \A i \in 1..n : f[i] = ExtractNext(f[i - 1], s[i])
    BY <1>4
<1> DEFINE S == {k \in Nat : k <= n => f[k] = g[k]}
<1>6. 0 \in S
    BY <1>2, <1>5
<1>7. ASSUME NEW k \in Nat, k \in S PROVE k + 1 \in S
    <2>1. CASE k + 1 <= n
        <3>1. k + 1 \in 1..n /\ (k + 1) - 1 = k /\ k <= n
            BY <2>1
        <3>2. f[k] = g[k]
            BY <1>7, <3>1
        <3>3. f[k + 1] = g[k + 1]
            BY <1>2, <1>5, <3>1, <3>2
        <3> QED BY <3>3
    <2> QED BY <2>1
<1>8. n \in S
    <2> HIDE DEF S
    <2> QED BY <1>6, <1>7, Induction
<1>9. f[n] = g[n]
    BY <1>8
<1> QED BY <1>1, <1>2, <1>9

\* The extraction before, in and after the playlist.
Copy(braces, nesting, done, out) ==
    [braces |-> braces, nesting |-> nesting, done |-> done, out |-> out]

\* In the message, before the playlist.
Entered == Copy(1, 0, FALSE, <<>>)

\* In the playlist, m objects deep.
Copying(m, out) == Copy(2, m, FALSE, out)

\* After it.
Copied(out) == Copy(2, -1, TRUE, out)

\* Everything but braces, and strings with unbalanced ones.
PlainTokens == {t \in Tokens : t # <<"{">> /\ t # <<"}">> /\ Level(t) = Flat}

\* Braces change the level, nothing else does.
LEMMA Levels ==
    /\ Level(<<"{">>) = [net |-> 1, low |-> 0] /\ Level(<<"}">>) = [net |-> -1, low |-> -1]
    /\ \A t \in PlainTokens : Level(t) = [net |-> 0, low |-> 0]
<1>1. <<"{">> # <<"}">>
    OBVIOUS
<1>2. Level(<<"{">>) = [net |-> 1, low |-> 0]
    BY Zenon DEF Level
<1>3. Level(<<"}">>) = [net |-> -1, low |-> -1]
    BY <1>1, Zenon DEF Level
<1> QED BY <1>2, <1>3, Zenon DEF PlainTokens, Flat

\* Two is not below two, nor is any number below itself.
LEMMA NotBelow == \A x \in Nat : ~(x < x) /\ ((x < 0) = FALSE)
OBVIOUS

\* The token does not end the copy inside a string.
Copies(m, t) == ~(m + Level(t).low < 0) \/ t = <<"}">>

\* Such a token of the playlist is copied and its level counted.
LEMMA CopyStep ==
    ASSUME NEW c, ~c.done, c.braces = 2, NEW t, Copies(c.nesting, t)
    PROVE  ExtractNext(c, t) =
               [c EXCEPT !.nesting = c.nesting + Level(t).net,
                         !.done = c.nesting + Level(t).low < 0, !.out = Append(c.out, t)]
<1>1. ~(c.nesting + Level(t).low < 0 /\ t # <<"}">>)
    BY Zenon DEF Copies
<1>2. ~(c.braces < 2)
    BY NotBelow, 2 \in Nat, Zenon
<1>3. ExtractNext(c, t) =
        [c EXCEPT !.nesting = c.nesting + Level(t).net, !.done = c.nesting + Level(t).low < 0,
                  !.out = IF c.nesting + Level(t).low < 0 /\ t # <<"}">>
                          THEN c.out ELSE Append(c.out, t)]
    BY <1>2, Zenon DEF ExtractNext
<1> QED BY <1>1, <1>3, Zenon

\* The same, with the state field by field.
LEMMA CopyToken ==
    ASSUME NEW m, NEW out, NEW t, Copies(m, t)
    PROVE  LET k == m + Level(t).net
               l == m + Level(t).low
           IN  ExtractNext(Copying(m, out), t) = Copy(2, k, l < 0, Append(out, t))
<1> DEFINE c == Copying(m, out)   x == Append(out, t)
           k == m + Level(t).net   l == m + Level(t).low
           kk == c.nesting + Level(t).net   ll == c.nesting + Level(t).low
           b == l < 0
<1>1. c.braces = 2 /\ ~c.done /\ c.nesting = m /\ c.out = out
    BY DEF Copying, Copy
<1>2. ExtractNext(c, t) = [c EXCEPT !.nesting = kk, !.done = ll < 0, !.out = Append(c.out, t)]
    <2> HIDE DEF c
    <2>1. Copies(c.nesting, t)
        BY <1>1, Zenon
    <2> QED BY <1>1, <2>1, CopyStep, Zenon
<1>3. kk = k /\ ll = l
    BY <1>1, Zenon
<1> HIDE DEF k, l, kk, ll
<1>4. ExtractNext(c, t) = [c EXCEPT !.nesting = k, !.done = b, !.out = x]
    <2> HIDE DEF c
    <2> QED BY <1>1, <1>2, <1>3, Zenon
<1> HIDE DEF b, x
<1>5. [c EXCEPT !.nesting = k, !.done = b, !.out = x] = Copy(2, k, b, x)
    <2> DEFINE no == FALSE
    <2>1. c = Copy(2, m, no, out)
        BY Zenon DEF Copying
    <2> HIDE DEF no, c
    <2>2. [Copy(2, m, no, out) EXCEPT !.nesting = k] = Copy(2, k, no, out)
        BY DEF Copy
    <2>3. [Copy(2, k, no, out) EXCEPT !.done = b] = Copy(2, k, b, out)
        BY DEF Copy
    <2>4. [Copy(2, k, b, out) EXCEPT !.out = x] = Copy(2, k, b, x)
        BY DEF Copy
    <2> QED BY <2>1, <2>2, <2>3, <2>4, Zenon
<1> QED BY <1>4, <1>5, Zenon DEF b, x, k, l

\* As long as the level is not negative the copying goes on.
LEMMA CopyOn ==
    ASSUME NEW m, NEW out, NEW t, NEW k, NEW l \in Nat,
           k = m + Level(t).net, l = m + Level(t).low
    PROVE  ExtractNext(Copying(m, out), t) = Copying(k, Append(out, t))
<1>1. (l < 0) = FALSE
    BY NotBelow, Zenon
<1>2. Copies(m, t)
    BY <1>1, Zenon DEF Copies
<1> QED BY <1>1, <1>2, CopyToken, Zenon DEF Copying

\* No brace.
LEMMA CopyPlain ==
    ASSUME NEW t \in PlainTokens, NEW m \in Nat, NEW out
    PROVE  ExtractNext(Copying(m, out), t) = Copying(m, Append(out, t))
<1>1. Level(t) = [net |-> 0, low |-> 0]
    BY Levels, Zenon
<1>2. m = m + Level(t).net /\ m = m + Level(t).low
    BY <1>1
<1> QED BY <1>2, CopyOn

\* An object begins.
LEMMA CopyOpen ==
    ASSUME NEW m \in Nat, NEW out
    PROVE  ExtractNext(Copying(m, out), <<"{">>) = Copying(m + 1, Append(out, <<"{">>))
<1> DEFINE t == <<"{">>   k == m + 1
<1>1. Level(t) = [net |-> 1, low |-> 0]
    BY Levels
<1> HIDE DEF t
<1>2. k = m + Level(t).net /\ m = m + Level(t).low
    BY <1>1
<1> HIDE DEF k
<1>4. ExtractNext(Copying(m, out), t) = Copying(k, Append(out, t))
    BY <1>2, CopyOn, Zenon
<1> QED BY <1>4 DEF k, t

\* An object in the playlist ends.
LEMMA CopyClose ==
    ASSUME NEW m \in Nat, NEW out
    PROVE  ExtractNext(Copying(m + 1, out), <<"}">>) = Copying(m, Append(out, <<"}">>))
<1> DEFINE t == <<"}">>   n == m + 1
<1>1. Level(t) = [net |-> -1, low |-> -1]
    BY Levels
<1> HIDE DEF t
<1>2. m = n + Level(t).net /\ m = n + Level(t).low
    BY <1>1
<1> HIDE DEF n
<1>3. ExtractNext(Copying(n, out), t) = Copying(m, Append(out, t))
    BY <1>2, CopyOn, Zenon
<1> QED BY <1>3 DEF n, t

\* The playlist ends.
LEMMA CopyEnds ==
    ASSUME NEW out
    PROVE  ExtractNext(Copying(0, out), <<"}">>) = Copied(Append(out, <<"}">>))
<1> DEFINE t == <<"}">>   k == -1
<1>1. Level(t) = [net |-> -1, low |-> -1]
    BY Levels
<1> HIDE DEF t
<1>2. k = 0 + Level(t).net /\ k = 0 + Level(t).low
    BY <1>1
<1>3. (k < 0) = TRUE
    OBVIOUS
<1> HIDE DEF k
<1>4. Copies(0, t)
    BY Zenon DEF Copies, t
<1>5. ExtractNext(Copying(0, out), t) = Copy(2, k, k < 0, Append(out, t))
    BY <1>2, <1>4, CopyToken, Zenon
<1>6. ExtractNext(Copying(0, out), t) = Copied(Append(out, t))
    BY <1>3, <1>5, Zenon DEF Copied, k
<1> QED BY <1>6 DEF t

-------------------------------------------------------------------------------
(* Balanced texts.                                                         *)

\* A text that is copied as a whole: its braces are balanced.
Balanced(s) ==
    /\ s \in Seq(Tokens)
    /\ \A m \in Nat, out \in Seq(Tokens) : Extracts(Copying(m, out), s, Copying(m, out \o s))

\* No tokens.
LEMMA BalancedNothing == Balanced(<<>>)
<1>1. ASSUME NEW m \in Nat, NEW out \in Seq(Tokens)
      PROVE  Extracts(Copying(m, out), <<>>, Copying(m, out \o <<>>))
    <2>1. out \o <<>> = out
        BY ConcatEmptySeq
    <2> QED BY <2>1, WalksNothing DEF Extracts
<1> QED BY <1>1 DEF Balanced

\* Two balanced texts.
LEMMA BalancedOn ==
    ASSUME NEW s, NEW t, Balanced(s), Balanced(t)
    PROVE  Balanced(s \o t)
<1>1. s \in Seq(Tokens) /\ t \in Seq(Tokens) /\ s \o t \in Seq(Tokens)
    BY ConcatProperties DEF Balanced
<1>2. ASSUME NEW m \in Nat, NEW out \in Seq(Tokens)
      PROVE  Extracts(Copying(m, out), s \o t, Copying(m, out \o (s \o t)))
    <2> DEFINE r == out \o s
    <2>1. r \in Seq(Tokens) /\ r \o t = out \o (s \o t)
        BY <1>1, ConcatProperties, ConcatAssociative
    <2>2. Extracts(Copying(m, out), s, Copying(m, r))
        BY DEF Balanced
    <2> HIDE DEF r
    <2>3. Extracts(Copying(m, r), t, Copying(m, r \o t))
        BY <2>1 DEF Balanced
    <2>4. Extracts(Copying(m, out), s \o t, Copying(m, r \o t))
        BY <1>1, <2>2, <2>3, ExtractsOn
    <2> QED BY <2>1, <2>4
<1> QED BY <1>1, <1>2 DEF Balanced

\* A text without braces.
LEMMA PlainBalanced ==
    ASSUME NEW s \in Seq(PlainTokens)
    PROVE  Balanced(s)
<1>1. s \in Seq(Tokens) /\ Len(s) \in Nat /\ \A i \in 1..Len(s) : s[i] \in PlainTokens /\ s[i] \in Tokens
    <2>1. Len(s) \in Nat /\ DOMAIN s = 1..Len(s) /\ \A i \in 1..Len(s) : s[i] \in PlainTokens
        BY LenProperties, ElementOfSeq
    <2>2. PlainTokens \subseteq Tokens
        BY DEF PlainTokens
    <2>3. s \in [1..Len(s) -> Tokens]
        BY <2>1, <2>2
    <2>4. s \in Seq(Tokens)
        BY <2>1, <2>3, SeqDef
    <2> QED BY <2>1, <2>2, <2>4
<1>2. ASSUME NEW m \in Nat, NEW out \in Seq(Tokens)
      PROVE  Extracts(Copying(m, out), s, Copying(m, out \o s))
    <2> DEFINE n == Len(s)
               p(k) == [i \in 1..k |-> s[i]]
               g == [k \in 0..n |-> Copying(m, out \o p(k))]
    <2>1. p(0) = <<>> /\ p(n) = s
        BY <1>1
    <2>2. \A k \in 0..n : g[k] = Copying(m, out \o p(k))
        <3> HIDE DEF p
        <3> QED OBVIOUS
    <2>3. ASSUME NEW i \in 1..n PROVE g[i] = ExtractNext(g[i - 1], s[i])
        <3>1. i - 1 \in Nat /\ (i - 1) + 1 = i /\ (\A j \in 1..i : s[j] \in Tokens)
              /\ i - 1 \in 0..n /\ i \in 0..n /\ s[i] \in PlainTokens /\ s[i] \in Tokens
            BY <1>1
        <3>2. p(i - 1) \in Seq(Tokens) /\ Append(p(i - 1), s[i]) = p(i)
            BY <3>1, Collected
        <3> DEFINE q == p(i - 1)   x == s[i]   r == out \o q
        <3>3. q \in Seq(Tokens) /\ p(i) = Append(q, x) /\ x \in Tokens /\ x \in PlainTokens
            BY <3>1, <3>2
        <3> HIDE DEF p, q, x
        <3>4. Append(r, x) = out \o Append(q, x)
            <4>1. r \in Seq(Tokens) /\ <<x>> \in Seq(Tokens)
                BY <3>3, ConcatProperties
            <4>2. Append(q, x) = q \o <<x>>
                BY <3>3, AppendIsConcat
            <4>3. r \o <<x>> = out \o (q \o <<x>>)
                BY <3>3, <4>1, ConcatAssociative
            <4> HIDE DEF r
            <4>4. Append(r, x) = r \o <<x>>
                BY <3>3, <4>1, AppendIsConcat
            <4> QED BY <4>2, <4>3, <4>4
        <3>5. g[i - 1] = Copying(m, r) /\ g[i] = Copying(m, Append(r, x))
            <4>1. g[i - 1] = Copying(m, r)
                BY <2>2, <3>1 DEF q
            <4>2. g[i] = Copying(m, out \o Append(q, x))
                BY <2>2, <3>1, <3>3
            <4> QED BY <3>4, <4>1, <4>2
        <3> HIDE DEF r, g
        <3>6. ExtractNext(Copying(m, r), x) = Copying(m, Append(r, x))
            BY <3>3, CopyPlain
        <3> QED BY <3>5, <3>6 DEF x
    <2>4. DOMAIN g = 0..n /\ g[0] = Copying(m, out) /\ g[n] = Copying(m, out \o s)
        <3>1. out \o <<>> = out
            BY ConcatEmptySeq
        <3>2. 0 \in 0..n /\ n \in 0..n
            BY <1>1
        <3>3. g[0] = Copying(m, out) /\ g[n] = Copying(m, out \o s)
            <4> HIDE DEF p, g, n
            <4> QED BY <2>1, <2>2, <3>1, <3>2
        <3> QED BY <3>3
    <2> HIDE DEF g
    <2> QED BY <2>3, <2>4 DEF Extracts, Walks, Turn
<1> QED BY <1>1, <1>2 DEF Balanced

\* A token with a value is no brace, and has none in it or balanced ones.
LEMMA PlainPair ==
    ASSUME NEW k, NEW x, <<k, x>> \in Tokens, k = "str" => Even(x)
    PROVE  <<k, x>> \in PlainTokens
<1>1. \A b : <<k, x>> # <<b>>
    <2>1. Len(<<k, x>>) = 2 /\ \A b : Len(<<b>>) = 1
        OBVIOUS
    <2> QED BY <2>1
<1> DEFINE t == <<k, x>>
<1>2. t[1] = k /\ t[2] = x /\ t # <<"{">> /\ t # <<"}">>
    BY <1>1
<1> HIDE DEF t
<1>3. Level(t) = Flat
    <2>1. CASE Len(t) = 2 /\ t[1] = "str" /\ t[2] \in DOMAIN Braced
        <3>1. Level(t) = Braced[t[2]]
            BY <1>2, <2>1, Zenon DEF Level
        <3> QED BY <1>2, <2>1, <3>1, Zenon DEF Even
    <2>2. CASE ~(Len(t) = 2 /\ t[1] = "str" /\ t[2] \in DOMAIN Braced)
        BY <1>2, <2>2, Zenon DEF Level
    <2> QED BY <2>1, <2>2
<1> QED BY <1>2, <1>3, Zenon DEF PlainTokens, t

\* Nor is a word of the protocol.
LEMMA PlainWord ==
    ASSUME NEW x \in Keys
    PROVE  x \in Words /\ Even(x) /\ Str(x) \in PlainTokens
<1>1. x \in Words
    BY DEF Keys, Words, TrackMembers, IntervalMembers
<1>2. Even(x)
    BY BracedAssumption, Zenon DEF Even
<1>3. <<"str", x>> \in Tokens
    BY <1>1, WordToken DEF Str
<1> QED BY <1>1, <1>2, <1>3, PlainPair DEF Str

\* Nor a bracket.
LEMMA PlainList == <<"[">> \in PlainTokens /\ <<"]">> \in PlainTokens
<1>1. <<"[">> # <<"{">> /\ <<"[">> # <<"}">> /\ <<"]">> # <<"{">> /\ <<"]">> # <<"}">>
    OBVIOUS
<1>2. Len(<<"[">>) # 2 /\ Len(<<"]">>) # 2
    OBVIOUS
<1>3. Level(<<"[">>) = Flat /\ Level(<<"]">>) = Flat
    BY <1>1, <1>2, Zenon DEF Level
<1>4. <<"[">> \in Tokens /\ <<"]">> \in Tokens
    BY DEF Tokens
<1> QED BY <1>1, <1>3, <1>4, Zenon DEF PlainTokens

\* A text between two tokens, copied token by token.
LEMMA Embraced ==
    ASSUME NEW out \in Seq(Tokens), NEW a \in Tokens, NEW s \in Seq(Tokens), NEW b \in Tokens
    PROVE  Append(Append(out, a) \o s, b) = out \o ((<<a>> \o s) \o <<b>>)
<1> DEFINE x == <<a>>   y == <<b>>   f == x \o s   o == out \o x
<1>1. x \in Seq(Tokens) /\ y \in Seq(Tokens)
    OBVIOUS
<1>2. Append(out, a) = o
    BY AppendIsConcat
<1> HIDE DEF x, y
<1>3. o \o s = out \o f
    BY <1>1, ConcatAssociative
<1>31. f \in Seq(Tokens)
    BY <1>1, ConcatProperties
<1>32. o \in Seq(Tokens)
    BY <1>1, ConcatProperties
<1> HIDE DEF f, o
<1>4. o \o s \in Seq(Tokens)
    BY <1>32, ConcatProperties
<1>5. (out \o f) \o y = out \o (f \o y)
    <2>1. ASSUME NEW p \in Seq(Tokens), NEW q \in Seq(Tokens) PROVE (out \o p) \o q = out \o (p \o q)
        BY ConcatAssociative
    <2> QED BY <1>1, <1>31, <2>1, Zenon
<1> DEFINE z == o \o s
<1>6. z \in Seq(Tokens) /\ z = out \o f
    BY <1>3, <1>4
<1> HIDE DEF z
<1>7. Append(z, b) = z \o y
    BY <1>6, AppendIsConcat DEF y
<1>8. Append(z, b) = out \o (f \o y)
    BY <1>5, <1>6, <1>7
<1> QED BY <1>2, <1>8 DEF x, y, z, f

\* An object with balanced members.
LEMMA BalancedBraces == ASSUME NEW s, Balanced(s) PROVE Balanced(Braces(s))
<1> DEFINE a == <<"{">>   b == <<"}">>   front == <<a>> \o s   all == front \o <<b>>
<1>1. a \in Tokens /\ b \in Tokens /\ s \in Seq(Tokens)
    BY DEF Tokens, Balanced
<1>2. <<a>> \in Seq(Tokens) /\ <<b>> \in Seq(Tokens)
    <2> HIDE DEF a, b
    <2> QED BY <1>1
<1>3. Braces(s) = all
    BY DEF Braces
<1>4. front \in Seq(Tokens) /\ all \in Seq(Tokens)
    <2> HIDE DEF a, b
    <2>1. front \in Seq(Tokens)
        BY <1>1, <1>2, ConcatProperties
    <2> HIDE DEF front
    <2> QED BY <1>2, <2>1, ConcatProperties
<1>5. ASSUME NEW m \in Nat, NEW out \in Seq(Tokens)
      PROVE  Extracts(Copying(m, out), all, Copying(m, out \o all))
    <2> DEFINE o1 == Append(out, a)   o2 == o1 \o s   o3 == Append(o2, b)
               c0 == Copying(m, out)   c1 == Copying(m + 1, o1)   c2 == Copying(m + 1, o2)
               c3 == Copying(m, o3)
    <2>1. ExtractNext(c0, a) = c1
        BY CopyOpen
    <2>2. ExtractNext(c2, b) = c3
        <3> HIDE DEF o2
        <3> QED BY CopyClose
    <2>3. o1 \in Seq(Tokens) /\ o1 = out \o <<a>>
        <3> HIDE DEF a
        <3> QED BY <1>1, AppendProperties, AppendIsConcat
    <2>4. Extracts(c1, s, c2)
        <3> DEFINE n == m + 1
        <3>1. n \in Nat
            OBVIOUS
        <3> HIDE DEF n, o1
        <3>2. Extracts(Copying(n, o1), s, Copying(n, o1 \o s))
            BY <2>3, <3>1 DEF Balanced
        <3> QED BY <3>2 DEF n
    <2>5. o3 = out \o all
        <3> HIDE DEF a, b
        <3> QED BY <1>1, Embraced, Zenon
    <2>6. Extracts(c0, <<a>>, c1) /\ Extracts(c2, <<b>>, c3)
        <3>1. Extracts(c0, <<a>>, ExtractNext(c0, a)) /\ Extracts(c2, <<b>>, ExtractNext(c2, b))
            <4> HIDE DEF c0, c2, a, b
            <4> QED BY ExtractsOne
        <3> HIDE DEF c0, c1, c2, c3, a, b
        <3> QED BY <2>1, <2>2, <3>1
    <2> HIDE DEF c0, c1, c2, c3, a, b, front
    <2>7. Extracts(c0, front, c2)
        BY <1>1, <1>2, <2>4, <2>6, ExtractsOn DEF front
    <2>8. Extracts(c0, all, c3)
        BY <1>2, <1>4, <2>6, <2>7, ExtractsOn
    <2> QED BY <2>5, <2>8 DEF c0, c3
<1> QED BY <1>3, <1>4, <1>5 DEF Balanced

\* A list of balanced entries.
LEMMA BalancedBrackets == ASSUME NEW s, Balanced(s) PROVE Balanced(Brackets(s))
<1> DEFINE a == <<<<"[">>>>   b == <<<<"]">>>>   front == a \o s
<1>1. a \in Seq(PlainTokens) /\ b \in Seq(PlainTokens)
    BY PlainList
<1> HIDE DEF a, b
<1>2. Balanced(a) /\ Balanced(b)
    BY <1>1, PlainBalanced
<1>3. Balanced(front)
    BY <1>2, BalancedOn
<1> HIDE DEF front
<1>4. Balanced(front \o b)
    BY <1>2, <1>3, BalancedOn
<1> QED BY <1>4 DEF Brackets, front, a, b

\* Any number of balanced texts.
LEMMA BalancedFlatten ==
    ASSUME NEW n \in Nat, NEW ss, DOMAIN ss = 1..n, ss = [i \in 1..n |-> ss[i]],
           \A i \in 1..n : Balanced(ss[i])
    PROVE  Balanced(FlattenSeq(ss))
<1>1. ss \in [1..n -> Seq(Tokens)]
    BY DEF Balanced
<1>2. PICK g : /\ Joins(n, ss, g) /\ g[n] = FlattenSeq(ss)
               /\ \A i \in 0..n : g[i] \in Seq(Tokens)
    BY <1>1, Flattened
<1> DEFINE S == {k \in Nat : k <= n => Balanced(g[k])}
<1>3. 0 \in S
    <2>1. g[0] = <<>>
        BY <1>2 DEF Joins
    <2> QED BY <2>1, BalancedNothing
<1>4. ASSUME NEW k \in Nat, k \in S PROVE k + 1 \in S
    <2> SUFFICES ASSUME k + 1 <= n PROVE Balanced(g[k + 1])
        OBVIOUS
    <2>1. k + 1 \in 1..n /\ (k + 1) - 1 = k
        OBVIOUS
    <2>2. Balanced(g[k]) /\ Balanced(ss[k + 1])
        BY <1>4, <2>1
    <2>3. g[k + 1] = Cat(g[k], ss[k + 1])
        BY <1>2, <2>1 DEF Joins
    <2>4. Balanced(Cat(g[k], ss[k + 1]))
        BY <2>2, BalancedOn DEF Cat
    <2> QED BY <2>3, <2>4
<1>5. n \in S
    <2> HIDE DEF S
    <2> QED BY <1>3, <1>4, Induction
<1> QED BY <1>2, <1>5

\* Every part of a playlist is balanced.
LEMMA BalancedPair ==
    ASSUME NEW x \in Keys, NEW k, NEW y, <<k, y>> \in Tokens, k = "str" => Even(y)
    PROVE  Balanced(<<Str(x), <<k, y>>>>)
<1> DEFINE u == Str(x)   w == <<k, y>>
<1>1. u \in PlainTokens /\ w \in PlainTokens
    BY PlainWord, PlainPair
<1> HIDE DEF u, w
<1>2. <<u, w>> \in Seq(PlainTokens)
    BY <1>1
<1> QED BY <1>2, PlainBalanced DEF u, w

\* A member of an interval.
LEMMA BalancedMember ==
    ASSUME NEW v \in Intervals, NEW m \in IntervalMembers
    PROVE  Balanced(IntervalMember(v, m))
<1>1. v.begin \in Dates /\ v.end \in Dates /\ v.times \in Seq(Times)
    BY DEF Intervals
<1>2. /\ "begin" \in Keys /\ "end" \in Keys /\ "schedule" \in Keys
      /\ "date" # "str" /\ "time" # "str"
    BY DEF Keys
<1>3. CASE m = "begin"
    <2>1. IntervalMember(v, m) = <<Str("begin"), <<"date", v.begin>>>> /\ <<"date", v.begin>> \in Tokens
        BY <1>1, <1>3, DateToken DEF IntervalMember
    <2> QED BY <1>2, <2>1, BalancedPair, Zenon
<1>4. CASE m = "end"
    <2>1. IntervalMember(v, m) = <<Str("end"), <<"date", v.end>>>> /\ <<"date", v.end>> \in Tokens
        BY <1>1, <1>4, DateToken DEF IntervalMember
    <2> QED BY <1>2, <2>1, BalancedPair, Zenon
<1>5. CASE m = "schedule"
    <2> DEFINE times == v.times
               text == [k \in DOMAIN times |-> <<"time", times[k]>>]
               key == <<Str("schedule")>>
    <2>1. IntervalMember(v, m) = key \o Brackets(text)
        BY <1>5 DEF IntervalMember
    <2>2. text \in Seq(PlainTokens)
        <3>1. Len(times) \in Nat /\ DOMAIN times = 1..Len(times) /\ \A i \in 1..Len(times) : times[i] \in Times
            BY <1>1, LenProperties, ElementOfSeq
        <3>2. \A i \in 1..Len(times) : <<"time", times[i]>> \in PlainTokens
            BY <1>2, <3>1, TimeToken, PlainPair
        <3> HIDE DEF times
        <3> QED BY <3>1, <3>2
    <2>3. Balanced(key)
        <3>1. Str("schedule") \in PlainTokens
            BY <1>2, PlainWord
        <3>2. key \in Seq(PlainTokens)
            BY <3>1
        <3> QED BY <3>2, PlainBalanced
    <2> HIDE DEF text, key
    <2>4. Balanced(Brackets(text))
        BY <2>2, PlainBalanced, BalancedBrackets
    <2> QED BY <2>1, <2>3, <2>4, BalancedOn
<1> QED BY <1>3, <1>4, <1>5 DEF IntervalMembers

\* An interval.
LEMMA BalancedInterval ==
    ASSUME NEW v \in Intervals, NEW pl, IsOrder(pl.intervalOrder, IntervalMembers)
    PROVE  Balanced(IntervalText(v, pl))
<1> DEFINE order == pl.intervalOrder   n == Len(order)
           ss == [i \in 1..n |-> IntervalMember(v, order[i])]
<1>1. n \in Nat /\ DOMAIN order = 1..n /\ \A i \in 1..n : order[i] \in IntervalMembers
    BY OrderGrows
<1>2. DOMAIN ss = 1..n /\ ss = [i \in 1..n |-> ss[i]] /\ \A i \in 1..n : Balanced(ss[i])
    BY <1>1, BalancedMember
<1>3. IntervalText(v, pl) = Braces(FlattenSeq(ss))
    BY <1>1 DEF IntervalText
<1> HIDE DEF ss, n
<1>4. Balanced(FlattenSeq(ss))
    BY <1>1, <1>2, BalancedFlatten
<1> QED BY <1>3, <1>4, BalancedBraces

\* A member of a track.
LEMMA BalancedTrackMember ==
    ASSUME NEW t, IsTrack(t), NEW pl, IsOrder(pl.intervalOrder, IntervalMembers), NEW m \in TrackMembers
    PROVE  Balanced(TrackMember(t, pl, m))
<1>1. t.file \in Words /\ t.id \in Nat /\ t.type \in Words /\ t.intervals \in Seq(Intervals)
    BY DEF IsTrack, WrittenTracks, Words
<1>2. m \in Keys /\ Even(t.file) /\ t.type \in Keys /\ "num" # "str"
    BY DEF Keys, TrackMembers, IsTrack, WrittenTracks
<1>21. Even(t.type)
    BY <1>2, PlainWord
<1>3. CASE m = "filename"
    <2>1. TrackMember(t, pl, m) = <<Str(m), <<"str", t.file>>>> /\ <<"str", t.file>> \in Tokens
        BY <1>1, <1>3, WordToken DEF TrackMember, Str
    <2> QED BY <1>2, <1>21, <2>1, BalancedPair, Zenon
<1>4. CASE m = "media_item_id"
    <2>1. TrackMember(t, pl, m) = <<Str(m), <<"num", t.id>>>> /\ <<"num", t.id>> \in Tokens
        BY <1>1, <1>4, NumberToken DEF TrackMember
    <2> QED BY <1>2, <1>21, <2>1, BalancedPair, Zenon
<1>5. CASE m = "type"
    <2>1. TrackMember(t, pl, m) = <<Str(m), <<"str", t.type>>>> /\ <<"str", t.type>> \in Tokens
        BY <1>1, <1>5, WordToken DEF TrackMember, Str
    <2> QED BY <1>2, <1>21, <2>1, BalancedPair, Zenon
<1>6. CASE m = "schedule_intervals"
    <2> DEFINE list == t.intervals   n == Len(list)
               ss == [i \in 1..n |-> IntervalText(list[i], pl)]
               key == <<Str(m)>>
    <2>1. n \in Nat /\ DOMAIN list = 1..n /\ \A i \in 1..n : list[i] \in Intervals
        BY <1>1, LenProperties, ElementOfSeq
    <2>2. TrackMember(t, pl, m) = IF t.type = "background" /\ ~pl.emptyIntervals THEN <<>>
                                   ELSE key \o Brackets(FlattenSeq(ss))
        BY <1>6, <2>1 DEF TrackMember
    <2>3. Balanced(key)
        <3>1. Str(m) \in PlainTokens
            BY <1>2, PlainWord
        <3>2. key \in Seq(PlainTokens)
            BY <3>1
        <3> QED BY <3>2, PlainBalanced
    <2>4. DOMAIN ss = 1..n /\ ss = [i \in 1..n |-> ss[i]] /\ \A i \in 1..n : Balanced(ss[i])
        BY <2>1, BalancedInterval
    <2> HIDE DEF ss, n, key
    <2>5. Balanced(Brackets(FlattenSeq(ss)))
        BY <2>1, <2>4, BalancedFlatten, BalancedBrackets
    <2>6. Balanced(key \o Brackets(FlattenSeq(ss)))
        BY <2>3, <2>5, BalancedOn
    <2> QED BY <2>2, <2>6, BalancedNothing
<1> QED BY <1>3, <1>4, <1>5, <1>6 DEF TrackMembers

\* A track.
LEMMA BalancedTrack ==
    ASSUME NEW t, IsTrack(t), NEW pl, IsOrder(pl.intervalOrder, IntervalMembers),
           IsOrder(pl.trackOrder, TrackMembers)
    PROVE  Balanced(TrackText(t, pl))
<1> DEFINE order == pl.trackOrder   n == Len(order)
           ss == [i \in 1..n |-> TrackMember(t, pl, order[i])]
           first == <<Str("enabled"), <<"lit", "true">>>>
<1>1. n \in Nat /\ DOMAIN order = 1..n /\ \A i \in 1..n : order[i] \in TrackMembers
    BY OrderGrows
<1>2. DOMAIN ss = 1..n /\ ss = [i \in 1..n |-> ss[i]] /\ \A i \in 1..n : Balanced(ss[i])
    BY <1>1, BalancedTrackMember
<1>3. TrackText(t, pl) = Braces(first \o FlattenSeq(ss))
    BY <1>1 DEF TrackText
<1>4. Balanced(first)
    <2>1. "enabled" \in Keys /\ "true" \in Words /\ "lit" # "str"
        BY DEF Keys, Words
    <2>2. <<"lit", "true">> \in Tokens
        BY <2>1, WordToken
    <2> QED BY <2>1, <2>2, BalancedPair, Zenon
<1> HIDE DEF ss, n, first
<1>5. Balanced(FlattenSeq(ss))
    BY <1>1, <1>2, BalancedFlatten
<1>6. Balanced(first \o FlattenSeq(ss))
    BY <1>4, <1>5, BalancedOn
<1> QED BY <1>3, <1>6, BalancedBraces

-------------------------------------------------------------------------------
(* The message.                                                            *)

\* Outside the playlist nothing happens ...
LEMMA StaysPut ==
    ASSUME NEW c, NEW s, Len(s) \in Nat, \A i \in 1..Len(s) : ExtractNext(c, s[i]) = c
    PROVE  Extracts(c, s, c)
<1> DEFINE n == Len(s)   g == [i \in 0..n |-> c]
<1>1. DOMAIN g = 0..n /\ g[0] = c /\ g[n] = c /\ \A i \in 1..n : g[i] = c /\ g[i - 1] = c
    OBVIOUS
<1> HIDE DEF g
<1>2. \A i \in 1..n : g[i] = ExtractNext(g[i - 1], s[i])
    BY <1>1
<1> QED BY <1>1, <1>2 DEF Extracts, Walks, Turn

\* ... before its message ...
LEMMA NotEntered == ExtractNext(Nowhere, <<"{">>) = Entered
<1> DEFINE no == FALSE   none == <<>>   t == <<"{">>
           c == Copy(0, 0, no, none)
<1>1. Nowhere = c /\ Entered = Copy(1, 0, no, none)
    BY Zenon DEF Nowhere, Entered, Copy
<1>2. ~c.done /\ c.braces = 0 /\ c.out = none
    BY DEF Copy
<1> HIDE DEF none
<1>3. ExtractNext(c, t) = [c EXCEPT !.braces = c.braces + 1, !.out = none]
    <2> HIDE DEF c
    <2> QED BY <1>2 DEF ExtractNext
<1>4. [c EXCEPT !.braces = 1] = Copy(1, 0, no, none)
    <2> HIDE DEF no
    <2> QED BY DEF Copy
<1>5. [Copy(1, 0, no, none) EXCEPT !.out = none] = Copy(1, 0, no, none)
    <2> HIDE DEF no
    <2> QED BY DEF Copy
<1>6. c.braces + 1 = 1
    <2>1. c.braces = 0
        BY <1>2, Zenon
    <2> HIDE DEF c
    <2> QED BY <2>1
<1> HIDE DEF c, no
<1>7. ExtractNext(c, t) = Copy(1, 0, no, none)
    BY <1>3, <1>4, <1>5, <1>6, Zenon
<1> QED BY <1>1, <1>7, Zenon DEF t

\* ... between the brace of the message and that of the playlist ...
LEMMA EnteredStays == ASSUME NEW t \in PlainTokens PROVE ExtractNext(Entered, t) = Entered
<1>1. t # <<"{">>
    BY DEF PlainTokens
<1>2. ~Entered.done /\ Entered.braces = 1
    BY DEF Entered, Copy
<1>3. ASSUME NEW c, ~c.done, c.braces = 1 PROVE ExtractNext(c, t) = c
    <2>1. c.braces # 2
        BY <1>3
    <2> QED BY <1>1, <1>3, <2>1, Zenon DEF ExtractNext
<1> QED BY <1>2, <1>3

\* ... where the copying begins ...
LEMMA CopyBegins == ExtractNext(Entered, <<"{">>) = Copying(0, <<<<"{">>>>)
<1> DEFINE no == FALSE   none == <<>>   t == <<"{">>   o == <<t>>
           c == Copy(1, 0, no, none)
<1>1. Entered = c /\ Copying(0, o) = Copy(2, 0, no, o)
    BY Zenon DEF Entered, Copying
<1>2. ~c.done /\ c.braces = 1
    BY DEF Copy
<1>3. ExtractNext(c, t) = [c EXCEPT !.braces = c.braces + 1, !.out = o]
    <2> HIDE DEF c
    <2> QED BY <1>2 DEF ExtractNext
<1>4. [c EXCEPT !.braces = 2] = Copy(2, 0, no, none)
    <2> HIDE DEF no, none
    <2> QED BY DEF Copy
<1>5. [Copy(2, 0, no, none) EXCEPT !.out = o] = Copy(2, 0, no, o)
    <2> HIDE DEF no, none, o
    <2> QED BY DEF Copy
<1>6. c.braces + 1 = 2
    <2>1. c.braces = 1
        BY <1>2, Zenon
    <2> HIDE DEF c
    <2> QED BY <2>1
<1> HIDE DEF c, no, none
<1>7. ExtractNext(c, t) = Copy(2, 0, no, o)
    BY <1>3, <1>4, <1>5, <1>6, Zenon
<1> QED BY <1>1, <1>7, Zenon DEF t, o

\* ... and after its end, ...
LEMMA CopiedStays == ASSUME NEW o, NEW t PROVE ExtractNext(Copied(o), t) = Copied(o)
<1> DEFINE c == Copied(o)
<1>1. c.done
    BY DEF Copied, Copy
<1> HIDE DEF c
<1>2. ExtractNext(c, t) = c
    BY <1>1 DEF ExtractNext
<1> QED BY <1>2 DEF c

\* ... and all of it is copied.
LEMMA CopyPlaylist ==
    ASSUME NEW s, Balanced(s)
    PROVE  Braces(s) \in Seq(Tokens) /\ Extracts(Entered, Braces(s), Copied(Braces(s)))
<1> DEFINE a == <<"{">>   b == <<"}">>   aa == <<a>>   bb == <<b>>   front == aa \o s
<1>1. a \in Tokens /\ b \in Tokens /\ s \in Seq(Tokens)
    BY DEF Tokens, Balanced
<1>2. aa \in Seq(Tokens) /\ bb \in Seq(Tokens)
    <2> HIDE DEF a, b
    <2> QED BY <1>1
<1>3. Braces(s) = front \o bb
    BY DEF Braces
<1>4. Extracts(Entered, aa, Copying(0, aa))
    <2>1. ExtractNext(Entered, a) = Copying(0, aa)
        BY CopyBegins
    <2> HIDE DEF a
    <2>2. Extracts(Entered, <<a>>, ExtractNext(Entered, a))
        BY ExtractsOne
    <2> QED BY <2>1, <2>2
<1> HIDE DEF aa, bb
<1>5. Extracts(Copying(0, aa), s, Copying(0, front))
    BY <1>2 DEF Balanced
<1>6. front \in Seq(Tokens)
    BY <1>1, <1>2, ConcatProperties
<1>7. Extracts(Entered, front, Copying(0, front))
    BY <1>1, <1>2, <1>4, <1>5, ExtractsOn
<1> HIDE DEF front
<1>8. Extracts(Copying(0, front), bb, Copied(front \o bb))
    <2>1. ExtractNext(Copying(0, front), b) = Copied(Append(front, b))
        BY CopyEnds
    <2> HIDE DEF b
    <2>2. Append(front, b) = front \o bb
        BY <1>1, <1>6, AppendIsConcat DEF bb
    <2> DEFINE c == Copying(0, front)
    <2> HIDE DEF c
    <2>3. Extracts(c, <<b>>, ExtractNext(c, b))
        BY ExtractsOne
    <2> QED BY <2>1, <2>2, <2>3, Zenon DEF bb, c
<1> DEFINE d == Copied(front \o bb)
<1> HIDE DEF d
<1>9. Extracts(Entered, front \o bb, d)
    BY <1>2, <1>6, <1>7, <1>8, ExtractsOn DEF d
<1>10. front \o bb \in Seq(Tokens)
    BY <1>2, <1>6, ConcatProperties
<1> QED BY <1>3, <1>9, <1>10 DEF d

\* What is copied from a message is its playlist: not less, and not the message's end.
LEMMA PlaylistExtracted ==
    ASSUME NEW pl, IsDocument(pl)
    PROVE  ExtractPlaylist(Message(pl)) = PlaylistText(pl)
<1> DEFINE list == pl.tracks   n == Len(list)
           ss == [i \in 1..n |-> TrackText(list[i], pl)]
           head == <<Str("name"), Str("any"), Str("items")>>
           inner == head \o Brackets(FlattenSeq(ss))
           text == Braces(inner)
           before == <<Str("command"), Str("update_playlist"), Str("playlist")>>
           after == <<Str("sequence"), <<"num", 1>>>>
           a == <<"{">>   b == <<"}">>   aa == <<a>>   bb == <<b>>
<1>1. n \in Nat /\ DOMAIN list = 1..n /\ \A i \in 1..n : IsTrack(list[i])
    <2>1. list \in Seq(WrittenTracks)
        BY DEF IsDocument
    <2>2. n \in Nat /\ DOMAIN list = 1..n /\ \A i \in 1..n : list[i] \in WrittenTracks
        BY <2>1, LenProperties, ElementOfSeq
    <2> QED BY <2>2 DEF IsDocument, IsTrack
<1>2. PlaylistText(pl) = text
    BY <1>1, Zenon DEF PlaylistText
<1>3. Balanced(inner)
    <2>1. DOMAIN ss = 1..n /\ ss = [i \in 1..n |-> ss[i]] /\ \A i \in 1..n : Balanced(ss[i])
        <3>1. \A i \in 1..n : Balanced(TrackText(list[i], pl))
            BY <1>1, BalancedTrack DEF IsDocument
        <3> HIDE DEF n, list
        <3> QED BY <3>1
    <2>2. Balanced(head)
        <3> DEFINE x == Str("name")   y == Str("any")   z == Str("items")
        <3>1. x \in PlainTokens /\ y \in PlainTokens /\ z \in PlainTokens
            BY PlainWord DEF Keys
        <3> HIDE DEF x, y, z
        <3>2. <<x, y, z>> \in Seq(PlainTokens)
            BY <3>1
        <3> QED BY <3>2, PlainBalanced DEF x, y, z
    <2> HIDE DEF ss, n, head
    <2>3. Balanced(Brackets(FlattenSeq(ss)))
        BY <1>1, <2>1, BalancedFlatten, BalancedBrackets
    <2> QED BY <2>2, <2>3, BalancedOn
<1> HIDE DEF inner
<1>4. text \in Seq(Tokens) /\ Extracts(Entered, text, Copied(text))
    BY <1>3, CopyPlaylist
<1>5. before \in Seq(Tokens) /\ Extracts(Entered, before, Entered)
    <2> DEFINE x == Str("command")   y == Str("update_playlist")   z == Str("playlist")
    <2>1. x \in PlainTokens /\ y \in PlainTokens /\ z \in PlainTokens
        BY PlainWord DEF Keys
    <2> HIDE DEF x, y, z
    <2>2. before = <<x, y, z>>
        BY DEF x, y, z
    <2> HIDE DEF before
    <2>3. Len(before) = 3 /\ \A i \in 1..3 : before[i] \in PlainTokens
        BY <2>1, <2>2
    <2>4. x \in Tokens /\ y \in Tokens /\ z \in Tokens
        BY <2>1 DEF PlainTokens
    <2>5. before \in Seq(Tokens)
        BY <2>2, <2>4
    <2>6. Extracts(Entered, before, Entered)
        BY <2>3, EnteredStays, StaysPut
    <2> QED BY <2>5, <2>6
<1>6. after \in Seq(Tokens)
    <2> DEFINE x == Str("sequence")   y == <<"num", 1>>
    <2>1. x \in Tokens /\ y \in Tokens
        BY WordToken, NumberToken DEF Words
    <2> HIDE DEF x, y
    <2>2. <<x, y>> \in Seq(Tokens)
        BY <2>1
    <2> QED BY <2>2 DEF x, y
<1>7. aa \in Seq(Tokens) /\ bb \in Seq(Tokens)
    <2>1. a \in Tokens /\ b \in Tokens
        BY DEF Tokens
    <2> HIDE DEF a, b
    <2> QED BY <2>1
<1>8. Extracts(Nowhere, aa, Entered)
    <2>1. Extracts(Nowhere, <<a>>, ExtractNext(Nowhere, a))
        BY ExtractsOne
    <2> QED BY <2>1, NotEntered
<1> DEFINE body == (before \o text) \o after
<1>9. Message(pl) = (aa \o body) \o bb
    BY <1>2, Zenon DEF Message, Braces
<1> DEFINE d == Copied(text)
<1>10. ASSUME NEW s \in Seq(Tokens) PROVE Extracts(d, s, d)
    <2>1. Len(s) \in Nat
        BY LenProperties
    <2> QED BY <2>1, CopiedStays, StaysPut
<1>11. d.out = text
    <2> HIDE DEF text
    <2> QED BY DEF Copied, Copy
<1> HIDE DEF before, text, after, aa, bb, d
<1>12. before \o text \in Seq(Tokens) /\ Extracts(Entered, before \o text, d)
    BY <1>4, <1>5, ExtractsOn, ConcatProperties DEF d
<1> DEFINE s1 == before \o text
<1> HIDE DEF s1
<1>13. s1 \o after \in Seq(Tokens) /\ Extracts(Entered, s1 \o after, d)
    BY <1>6, <1>10, <1>12, ExtractsOn, ConcatProperties DEF s1
<1>14. body \in Seq(Tokens) /\ Extracts(Entered, body, d)
    BY <1>13 DEF s1
<1> HIDE DEF body
<1> DEFINE s2 == aa \o body
<1>15. s2 \in Seq(Tokens) /\ Extracts(Nowhere, s2, d)
    BY <1>7, <1>8, <1>14, ExtractsOn, ConcatProperties
<1> HIDE DEF s2
<1>16. s2 \o bb \in Seq(Tokens) /\ Extracts(Nowhere, s2 \o bb, d)
    BY <1>7, <1>10, <1>15, ExtractsOn, ConcatProperties
<1> DEFINE s3 == s2 \o bb
<1>17. s3 \in Seq(Tokens) /\ Extracts(Nowhere, s3, d) /\ Message(pl) = s3
    BY <1>9, <1>16 DEF s2
<1> HIDE DEF s3
<1>18. Len(s3) \in Nat
    BY <1>17, LenProperties
<1>19. ExtractPlaylist(s3) = d.out
    BY <1>17, <1>18, RunIsExtraction
<1> QED BY <1>2, <1>11, <1>17, <1>19

\* A message: the parser finds the tracks of its playlist, as they are written.
LEMMA MessageParsed ==
    ASSUME NEW pl, IsDocument(pl)
    PROVE  TraversePlaylist(ExtractPlaylist(Message(pl))) = AsWritten(pl)
BY PlaylistExtracted, PlaylistParsed

-------------------------------------------------------------------------------
(* The parser in the specification.                                        *)

\* Whatever playlists the server sends, of any length and with any intervals and times,
\* and in whatever order it writes their members: the tracks that traverse_playlist hands
\* out to the scheduler, the advertising and the clean-up are those of the playlist, each
\* once, in their order, with their intervals and times.
THEOREM ParsedAsWritten == CloudSpec => []TracksAsWritten
<1>1. CloudInit => TracksAsWritten
    <2> SUFFICES ASSUME CloudInit PROVE TracksAsWritten
        OBVIOUS
    <2>1. PICK d \in Documents :
              doc = d /\ tracks = TraversePlaylist(ExtractPlaylist(Message(d)))
        BY DEF CloudInit
    <2>2. IsDocument(d)
        BY SchedulerAssumption
    <2>3. TraversePlaylist(ExtractPlaylist(Message(d))) = AsWritten(d)
        BY <2>2, MessageParsed
    <2> QED BY <2>1, <2>3 DEF TracksAsWritten
<1>2. TracksAsWritten /\ [CloudNext]_vars => TracksAsWritten'
    <2>1. [CloudNext]_vars => UNCHANGED <<doc, tracks>>
        BY DEF CloudNext, BossStep, ThreadStep, InitClears, InitTogglesTimer, InitCreates, DeinitBegins,
               DeinitStopsPlayer, DeinitSetsStop, DeinitAwaits, DeinitReturns,
               ThreadCreatesQueue, ThreadLoadsAds, ThreadOpens, ThreadLeavesLoop,
               ThreadEndsWalk, ThreadTakesOverride, ThreadPlaysAd, AdReturns,
               ThreadResetsQueue, ThreadPlaysTrack, TrackReturns, ThreadSkipsAd,
               AdStarts, TrackStarts, ThreadTurnsToNext, ThreadFreesAds, ThreadDeletesQueue, ThreadSetsStopped,
               ThreadForgetsHandle, TimerObeys, TimerFindsAd, TimerSendsAd,
               TimerStopsPlayer, PlayerStep, vars, docVars
    <2> QED BY <2>1 DEF TracksAsWritten
<1> QED BY <1>1, <1>2, PTL DEF CloudSpec

===============================================================================
