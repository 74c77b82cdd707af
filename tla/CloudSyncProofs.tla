---------------------------- MODULE CloudSyncProofs ----------------------------
(***************************************************************************)
(* Proofs about CloudSync.tla, for any media files, any playlists and any  *)
(* number of commands and restarts.  What depends on a task not being held *)
(* up says so in its assumption on LateExit, LazyIdle and LateTimer.       *)
(***************************************************************************)
EXTENDS CloudSync, FiniteSetTheorems, SequenceTheorems, TLAPS

DStates ==
    {"none", "begin", "quiet1", "wait1", "mkdir", "offline", "download", "quiet2", "wait2",
     "deinit", "hush", "deinitw", "remove", "rename", "init", "clean", "cleanw", "cleaned",
     "finish", "ack", "end", "over"}
Commands == {"none", "update", "delete", "firmware"}
GateSteps ==
    {"idle", "stop", "wait", "create", "deinit", "hush", "deinitw", "quiet", "quietw", "wipe",
     "ota"}
WaitStates == {"out", "blocked", "woken", "lost"}

\* The steps of a downloader and of the gate, the ones that may never be taken included.
Works(k) == DownloaderStep(k) \/ StopReturns(k)
GateWorks == GateStep \/ GateStopsPlayer

Lookup == [pc : {"walk", "decide"}, seen : SUBSET Files, file : Files, found : BOOLEAN,
           list : Updates, pos : Nat]

\* The types of the state, with the shapes of the records that TypeOK leaves open.
CardOK == playlist \in 0..MaxUpdates /\ media \subseteq Files /\ damaged \subseteq Updates
DownloaderOK ==
    /\ bits \subseteq {"RUNNING", "STOP", "STOPPED"}
    /\ d \in [Updates -> DStates]
    /\ done \in [Updates -> Nat] /\ \A k \in Updates : done[k] <= Len(Playlist[k])
    /\ ok \in [Updates -> BOOLEAN] /\ acked \subseteq Updates
CleanupOK ==
    /\ cleaner \in [running : BOOLEAN, bits : SUBSET {"STOP", "STOPPED"}, late : BOOLEAN]
    /\ wait \in [Waiters -> WaitStates]
    /\ timer \in {"off", "armed", "expired", "stopping", "starting"}
    /\ c.pc \in {"none", "next", "walk", "decide", "end"}
    /\ c.pc = "next" => c.seen \subseteq Files
    /\ c.pc \in {"walk", "decide"} => c \in Lookup
SchedulerOK == sched \in [task : BOOLEAN, stop : BOOLEAN]
GateOK ==
    /\ gate \in [cmd : Commands, pc : GateSteps]
    /\ updates \in 0..MaxUpdates /\ deletes \in 0..MaxDeletes /\ restarts \in 0..MaxRestarts
    /\ gate.pc # "idle" => gate.cmd # "none"
    /\ gate.pc = "create" => gate.cmd = "update"
    /\ gate.pc \in {"deinit", "hush", "deinitw", "wipe"} => gate.cmd = "delete"
    /\ gate.cmd = "update" => updates >= 1
Shape == CardOK /\ DownloaderOK /\ CleanupOK /\ SchedulerOK /\ GateOK

\* What a downloader needs to be counted as running: the gate only asks RUNNING_BIT.
Busy(k) == d[k] \notin {"none", "begin", "over"}
Quiescent == \A k \in Updates : d[k] = "none"

\* There is one downloader at most; while it is busy, RUNNING_BIT is set; STOPPED_BIT
\* stands for a downloader that is gone; the gate goes on only without one.
Life ==
    /\ \A k, l \in Updates : d[k] # "none" /\ d[l] # "none" => k = l
    /\ \A k \in Updates : Busy(k) => "RUNNING" \in bits
    /\ "STOPPED" \in bits => Quiescent
    /\ gate.pc \notin {"idle", "stop", "wait"} => Quiescent

\* The scheduler is stopped before its playlist is touched.
Scheduling ==
    /\ \A k \in Updates : d[k] \in {"remove", "rename", "init"} => ~sched.task
    /\ gate.pc \in {"quiet", "quietw", "wipe"} /\ gate.cmd = "delete" => ~sched.task
    /\ sched.task => playlist # 0

SyncInv == Shape /\ Life /\ Scheduling

\* The cleanup task is gone before anybody who stopped it uses the card; nobody stops
\* the one that the downloader has started until that has reported; the timer of the boot
\* has fired or is stopped by then.
UsesCard ==
    {"mkdir", "offline", "download", "quiet2", "wait2", "deinit", "hush", "deinitw", "remove",
     "rename", "init", "clean", "cleanw", "cleaned"}
Cleaning ==
    /\ ~cleaner.late /\ timer \in {"off", "armed"}
    /\ cleaner.running <=> c.pc # "none"
    /\ "STOPPED" \in cleaner.bits => c.pc = "none"
    /\ \A k \in Updates : d[k] \in UsesCard => c.pc = "none"
    /\ gate.pc \in {"wipe", "ota"} => c.pc = "none"
    /\ \A k \in Updates : d[k] \in {"finish", "ack"} /\ c.pc # "none" => "STOP" \notin cleaner.bits
    /\ timer = "armed" => /\ gate.pc \notin {"quietw", "wipe", "ota"}
                          /\ \A k \in Updates : d[k] \in {"none", "begin", "quiet1"}
    /\ \A k \in Updates : d[k] \notin {"wait2", "cleanw", "cleaned"}

\* Who waits for the end of the cleanup is the only one to wait; it waits for a task that
\* is there, or the end of it has been signalled.
AtWait(w) == (w = Gate /\ gate.pc = "quietw") \/ (w \in Updates /\ d[w] = "wait1")
Waits ==
    \A w \in Waiters :
        /\ wait[w] # "out" => AtWait(w)
        /\ wait[w] = "woken" => c.pc = "none"
        /\ wait[w] = "blocked" => c.pc # "none"
        /\ wait[w] # "lost"
        /\ AtWait(w) /\ wait[w] = "out" => "STOPPED" \in cleaner.bits \/ c.pc # "none"

\* The walk of the cleanup task over the playlist finds the file if it is there, unless
\* it is told to stop.
Walking ==
    /\ c.pc \in {"walk", "decide"} => c.list = playlist
    /\ c.pc = "walk" => /\ c.pos <= Len(Playlist[c.list])
                        /\ \A i \in 1..c.pos : Playlist[c.list][i] = c.file => c.found
    /\ c.pc = "decide" /\ "STOP" \notin cleaner.bits => (c.file \in Tracks(c.list) => c.found)

\* A downloader starts at the first file of a playlist that no other worked on.
Fresh ==
    /\ \A k \in Updates : d[k] # "none" => k <= updates /\ (gate.cmd = "update" => k < updates)
    /\ \A k \in Updates :
          \/ k > updates \/ (k = updates /\ gate.cmd = "update")
          \/ d[k] \in {"begin", "quiet1", "wait1", "mkdir", "offline"}
          => done[k] = 0

\* What the card holds while a download goes well.
Complete ==
    \A k \in Updates : ok[k] /\ k \notin damaged =>
        /\ d[k] = "download" => \A i \in 1..done[k] : Playlist[k][i] \in media
        /\ d[k] \in (UsesCard \ {"mkdir", "offline", "download"}) \cup {"finish"} =>
              "STOP" \in bits \/ Tracks(k) \subseteq media
        /\ d[k] = "ack" => Tracks(k) \subseteq media
        /\ d[k] \in {"init", "clean", "cleanw", "cleaned", "finish", "ack"} => playlist = k

CardInv == SyncInv /\ Cleaning /\ Waits /\ Walking /\ Fresh /\ Complete

-------------------------------------------------------------------------------
(* Types.                                                                  *)

\* Playlists are sequences of files.
LEMMA PlaylistTypes ==
    ASSUME NEW k \in Updates
    PROVE  /\ Playlist[k] \in Seq(Files) /\ Len(Playlist[k]) \in Nat
           /\ \A i \in 1..Len(Playlist[k]) : Playlist[k][i] \in Files
           /\ Tracks(k) = {Playlist[k][i] : i \in 1..Len(Playlist[k])}
<1>1. Playlist[k] \in Seq(Files)
    BY SyncAssumption
<1>2. Len(Playlist[k]) \in Nat /\ DOMAIN Playlist[k] = 1..Len(Playlist[k])
    BY <1>1, LenProperties
<1>3. \A i \in 1..Len(Playlist[k]) : Playlist[k][i] \in Files
    BY <1>1, ElementOfSeq
<1> QED BY <1>1, <1>2, <1>3 DEF Tracks

\* What each group of steps leaves alone.
LEMMA Frames ==
    /\ TimerExpires \/ TimerStep => UNCHANGED <<card, dvars, sched, gvars>>
    /\ CleanStep => UNCHANGED <<playlist, damaged, dvars, timer, sched, gvars>>
    /\ SchedulerEnds \/ SchedulerFails => UNCHANGED <<playlist, media, dvars, cvars, gvars>>
    /\ UpdateArrives \/ OtherArrives => UNCHANGED <<card, dvars, cvars, sched, restarts>>
    /\ \A k \in Updates : Works(k) => UNCHANGED gvars
<1>1. TimerExpires \/ TimerStep => UNCHANGED <<card, dvars, sched, gvars>>
    BY DEF TimerStep, TimerExpires, TimerStarts, TimerStops, TimerAwaits, TimerBlocks
<1>2. CleanStep => UNCHANGED <<playlist, damaged, dvars, timer, sched, gvars>>
    BY DEF CleanStep, CleanNext, CleanWalk, CleanDecide, CleanEnd, CleanSignal, card
<1>3. SchedulerEnds \/ SchedulerFails => UNCHANGED <<playlist, media, dvars, cvars, gvars>>
    BY DEF SchedulerEnds, SchedulerFails, card
<1>4. UpdateArrives \/ OtherArrives => UNCHANGED <<card, dvars, cvars, sched, restarts>>
    BY DEF UpdateArrives, OtherArrives
<1>5. ASSUME NEW k \in Updates, Works(k) PROVE UNCHANGED gvars
    BY <1>5 DEF Works, DownloaderStep, StopReturns, OfflineEnds, PlayerStopped, Blocks, dvars,
        Begin, QuietFirst, QuietAgain, Quiet, MakeDirectory, SkipFile,
        FetchFile, DownloadFails, Downloaded, EndScheduler, AwaitScheduler, RemoveOld,
        InstallNew, BeginScheduler, BeginCleanup, Finish, Acknowledge, ClearRunning, SignalStopped
<1> QED BY <1>1, <1>2, <1>3, <1>4, <1>5

\* A move of a downloader stays among the steps of its thread.
LEMMA MovesTyped ==
    ASSUME DownloaderOK, NEW k \in Updates, NEW from, NEW to \in DStates, Moves(k, from, to)
    PROVE  d' \in [Updates -> DStates]
BY DEF DownloaderOK, Moves

\* Stopping, awaiting and starting the cleanup keep its types.
LEMMA CleanupTyped ==
    ASSUME CleanupOK
    PROVE  /\ StopCleanup => CleanupOK'
           /\ \A w \in Waiters : AwaitCleanup(w) /\ timer' \in {timer, "starting"} => CleanupOK'
           /\ \A w \in Waiters : BlockOnCleanup(w) => CleanupOK'
           /\ StartCleanup /\ timer' \in {timer, "off"} => CleanupOK'
<1> DEFINE Cleaners == [running : BOOLEAN, bits : SUBSET {"STOP", "STOPPED"}, late : BOOLEAN]
<1>0. cleaner \in Cleaners /\ wait \in [Waiters -> WaitStates]
    BY DEF CleanupOK
<1>1. [cleaner EXCEPT !.bits = @ \cup {"STOP"}] \in Cleaners
    BY <1>0
<1>2. [cleaner EXCEPT !.bits = @ \ {"STOPPED"}] \in Cleaners
    BY <1>0
<1>3. /\ [cleaner EXCEPT !.running = TRUE, !.bits = {}] \in Cleaners
      /\ [cleaner EXCEPT !.bits = {}] \in Cleaners
    BY <1>0
<1>w. ASSUME NEW w \in Waiters
      PROVE  /\ [wait EXCEPT ![w] = "out"] \in [Waiters -> WaitStates]
             /\ [wait EXCEPT ![w] = "blocked"] \in [Waiters -> WaitStates]
    BY <1>0 DEF WaitStates
<1>l. [w \in Waiters |-> IF wait[w] = "blocked" THEN "lost" ELSE wait[w]] \in [Waiters -> WaitStates]
    BY <1>0 DEF WaitStates
<1>4. StopCleanup => CleanupOK'
    BY <1>0, <1>1 DEF StopCleanup, CleanupOK
<1>5. ASSUME NEW w \in Waiters, AwaitCleanup(w), timer' \in {timer, "starting"}
      PROVE  CleanupOK'
    <2>1. cleaner' \in Cleaners /\ wait' \in [Waiters -> WaitStates] /\ c' = c
        BY <1>0, <1>2, <1>w, <1>5 DEF AwaitCleanup
    <2> QED BY <1>5, <2>1 DEF CleanupOK
<1>6. ASSUME NEW w \in Waiters, BlockOnCleanup(w)
      PROVE  CleanupOK'
    BY <1>0, <1>w, <1>6 DEF BlockOnCleanup, CleanupOK
<1>7. ASSUME StartCleanup, timer' \in {timer, "off"}
      PROVE  CleanupOK'
    <2>1. cleaner' \in Cleaners /\ wait' \in [Waiters -> WaitStates]
        BY <1>3, <1>l, <1>7 DEF StartCleanup
    <2>2. (c' = c \/ c' = [pc |-> "next", seen |-> {}])
        BY <1>7 DEF StartCleanup
    <2> QED BY <1>7, <2>1, <2>2 DEF CleanupOK
<1> QED BY <1>4, <1>5, <1>6, <1>7

\* So does the signal of its end.
LEMMA SignalTyped ==
    ASSUME CleanupOK,
           NEW cl \in [running : BOOLEAN, bits : SUBSET {"STOP", "STOPPED"}, late : BOOLEAN],
           SignalEnd(cl)
    PROVE  /\ wait' \in [Waiters -> WaitStates]
           /\ cleaner' \in [running : BOOLEAN, bits : SUBSET {"STOP", "STOPPED"}, late : BOOLEAN]
           /\ cleaner'.running = cl.running /\ cleaner'.late = cl.late
           /\ cl.bits \subseteq cleaner'.bits
<1>0. wait \in [Waiters -> WaitStates]
    BY DEF CleanupOK
<1>1. [w \in Waiters |-> IF wait[w] = "blocked" THEN "woken" ELSE wait[w]] \in [Waiters -> WaitStates]
    BY <1>0 DEF WaitStates
<1>2. [cl EXCEPT !.bits = @ \cup {"STOPPED"}]
         \in [running : BOOLEAN, bits : SUBSET {"STOP", "STOPPED"}, late : BOOLEAN]
    OBVIOUS
<1> QED BY <1>0, <1>1, <1>2 DEF SignalEnd

\* The downloaders, the gate and the timer task are the waiters.
LEMMA WaiterNames ==
    /\ Updates \subseteq Waiters /\ Gate \in Waiters /\ TimerTask \in Waiters
    /\ Gate \notin Updates /\ TimerTask \notin Updates /\ Gate # TimerTask
BY SyncAssumption DEF Updates, Waiters, Gate, TimerTask

\* Starting the scheduler keeps its types.
LEMMA SchedulerTyped ==
    ASSUME SchedulerOK, InitScheduler
    PROVE  SchedulerOK'
<1>1. CASE playlist = 0
    BY <1>1 DEF InitScheduler, SchedulerOK
<1>2. CASE playlist # 0
    <2>1. PICK created \in BOOLEAN : sched' = [task |-> created, stop |-> FALSE]
        BY <1>2 DEF InitScheduler
    <2> QED BY <2>1 DEF SchedulerOK
<1> QED BY <1>1, <1>2

\* Every step of a downloader keeps the types.
LEMMA ShapeDownloader ==
    ASSUME Shape, NEW k \in Updates, Works(k)
    PROVE  Shape'
<1> USE DEF Shape
<1>g. GateOK'
    BY Frames DEF gvars, GateOK
<1>d. d' \in [Updates -> DStates]
    BY MovesTyped DEF DStates, DownloaderOK, Works, DownloaderStep, StopReturns, OfflineEnds,
        PlayerStopped, Blocks, dvars, Begin, QuietFirst, QuietAgain, Quiet,
        MakeDirectory, SkipFile, FetchFile, DownloadFails, Downloaded, EndScheduler,
        AwaitScheduler, RemoveOld, InstallNew, BeginScheduler, BeginCleanup, Finish,
        Acknowledge, ClearRunning, SignalStopped
<1>n. /\ done' \in [Updates -> Nat] /\ \A l \in Updates : done'[l] <= Len(Playlist[l])
    <2>1. CASE UNCHANGED done
        BY <2>1 DEF DownloaderOK
    <2>2. CASE HasNext(k) /\ Advance(k)
        BY <2>2, PlaylistTypes DEF DownloaderOK, HasNext, Advance
    <2> QED BY <2>1, <2>2 DEF Works, DownloaderStep, StopReturns, OfflineEnds, PlayerStopped,
        Blocks, dvars, Begin, QuietFirst, QuietAgain, Quiet,
        MakeDirectory, SkipFile, FetchFile, DownloadFails, Downloaded, EndScheduler,
        AwaitScheduler, RemoveOld, InstallNew, BeginScheduler, BeginCleanup, Finish,
        Acknowledge, ClearRunning, SignalStopped
<1>o. ok' \in [Updates -> BOOLEAN]
    BY DEF DownloaderOK, Works, DownloaderStep, StopReturns, OfflineEnds, PlayerStopped, Blocks,
        dvars, Begin, QuietFirst, QuietAgain, Quiet,
        MakeDirectory, SkipFile, FetchFile, DownloadFails, Downloaded, EndScheduler,
        AwaitScheduler, RemoveOld, InstallNew, BeginScheduler, BeginCleanup, Finish,
        Acknowledge, ClearRunning, SignalStopped
<1>b. bits' \subseteq {"RUNNING", "STOP", "STOPPED"} /\ acked' \subseteq Updates
    BY DEF DownloaderOK, Works, DownloaderStep, StopReturns, OfflineEnds, PlayerStopped, Blocks,
        dvars, Begin, QuietFirst, QuietAgain, Quiet,
        MakeDirectory, SkipFile, FetchFile, DownloadFails, Downloaded, EndScheduler,
        AwaitScheduler, RemoveOld, InstallNew, BeginScheduler, BeginCleanup, Finish,
        Acknowledge, ClearRunning, SignalStopped
<1>1. DownloaderOK'
    BY <1>d, <1>n, <1>o, <1>b DEF DownloaderOK
<1>2. CardOK'
    <2>1. CASE FetchFile(k)
        <3>1. NextFile(k) \in Files
            BY <2>1, PlaylistTypes DEF FetchFile, HasNext, NextFile, DownloaderOK
        <3> QED BY <2>1, <3>1 DEF CardOK, FetchFile
    <2>2. CASE RemoveOld(k) \/ InstallNew(k)
        <3>1. playlist' \in 0..MaxUpdates
            BY <2>2, SyncAssumption DEF CardOK, RemoveOld, InstallNew, Updates
        <3>2. damaged' = damaged /\ media' = media
            BY <2>2 DEF RemoveOld, InstallNew
        <3> QED BY <3>1, <3>2 DEF CardOK
    <2>3. CASE UNCHANGED card
        BY <2>3 DEF CardOK, card
    <2> QED BY <2>1, <2>2, <2>3 DEF Works, DownloaderStep, StopReturns, OfflineEnds,
        PlayerStopped, Blocks, dvars, Begin, QuietFirst, QuietAgain, Quiet,
        MakeDirectory, SkipFile, DownloadFails, Downloaded, EndScheduler, AwaitScheduler,
        BeginScheduler, BeginCleanup, Finish, Acknowledge, ClearRunning, SignalStopped
<1>3. CleanupOK'
    <2>1. CASE QuietFirst(k) \/ QuietAgain(k) \/ Quiet(k) \/ Blocks(k) \/ BeginCleanup(k)
        BY <2>1, CleanupTyped, WaiterNames
           DEF QuietFirst, QuietAgain, Quiet, Blocks, BeginCleanup
    <2>2. CASE UNCHANGED cvars
        BY <2>2 DEF cvars, CleanupOK
    <2> QED BY <2>1, <2>2 DEF Works, DownloaderStep, StopReturns, OfflineEnds, PlayerStopped,
        Blocks, dvars, Begin, MakeDirectory, SkipFile, FetchFile,
        DownloadFails, Downloaded, EndScheduler, AwaitScheduler, RemoveOld, InstallNew,
        BeginScheduler, Finish, Acknowledge, ClearRunning, SignalStopped
<1>4. SchedulerOK'
    <2>1. CASE BeginScheduler(k)
        BY <2>1, SchedulerTyped DEF BeginScheduler
    <2>2. CASE PlayerStopped(k)
        BY <2>2 DEF PlayerStopped, SchedulerOK
    <2>3. CASE UNCHANGED sched
        BY <2>3 DEF SchedulerOK
    <2> QED BY <2>1, <2>2, <2>3 DEF EndScheduler, Works, DownloaderStep, StopReturns, OfflineEnds,
        PlayerStopped, Blocks, dvars, Begin, QuietFirst, QuietAgain, Quiet,
        MakeDirectory, SkipFile, FetchFile, DownloadFails, Downloaded, AwaitScheduler,
        RemoveOld, InstallNew, BeginCleanup, Finish, Acknowledge, ClearRunning, SignalStopped
<1> QED BY <1>g, <1>1, <1>2, <1>3, <1>4

\* Every step of the gate, and the arrival of a command, keeps the types.
LEMMA ShapeGate ==
    ASSUME Shape, UpdateArrives \/ OtherArrives \/ (GateWorks /\ gate.pc # "ota") \/ UpdateFails
    PROVE  Shape'
<1> USE DEF Shape
<1>a. Idle \in [cmd : Commands, pc : GateSteps]
    BY DEF Idle, Commands, GateSteps
<1>n. 0 \notin Updates /\ updates \in 0..MaxUpdates /\ MaxUpdates \in Nat /\ MaxDeletes \in Nat
    BY SyncAssumption DEF Updates, GateOK
<1>1. CASE UpdateArrives
    <2>1. gate' = [cmd |-> "update", pc |-> "stop"] /\ updates' = updates + 1 /\ updates < MaxUpdates
        BY <1>1 DEF UpdateArrives
    <2>2. gate' \in [cmd : Commands, pc : GateSteps] /\ gate'.pc = "stop"
        BY <2>1 DEF Commands, GateSteps
    <2>3. updates' \in 0..MaxUpdates /\ updates' >= 1
        BY <1>n, <2>1
    <2>4. GateOK'
        BY <1>1, <2>1, <2>2, <2>3 DEF UpdateArrives, GateOK
    <2> QED BY <1>1, <2>4, Frames DEF card, dvars, cvars, CardOK, DownloaderOK, CleanupOK,
            SchedulerOK
<1>2. CASE OtherArrives
    <2>1. PICK cmd \in {"delete", "firmware"} : gate' = [cmd |-> cmd, pc |-> "stop"]
        BY <1>2 DEF OtherArrives
    <2>2. /\ gate' \in [cmd : Commands, pc : GateSteps] /\ gate'.pc = "stop"
          /\ gate'.cmd \in {"delete", "firmware"}
        BY <2>1 DEF Commands, GateSteps
    <2>3. deletes' \in 0..MaxDeletes /\ updates' = updates
        BY <1>2, <1>n DEF OtherArrives, GateOK
    <2>4. GateOK'
        BY <1>2, <2>2, <2>3 DEF OtherArrives, GateOK
    <2> QED BY <1>2, <2>4, Frames DEF card, dvars, cvars, CardOK, DownloaderOK, CleanupOK,
            SchedulerOK
<1>g. ASSUME gate \in [cmd : Commands, pc : GateSteps], gate.cmd # "none",
             NEW pc \in GateSteps, Goes(pc)
      PROVE  gate' \in [cmd : Commands, pc : GateSteps] /\ gate'.cmd = gate.cmd /\ gate'.pc = pc
    BY <1>g DEF Goes
<1>c. gate \in [cmd : Commands, pc : GateSteps] /\ (gate.pc # "idle" => gate.cmd # "none")
    BY DEF GateOK
<1>s. /\ gate.cmd # "none" => AfterStop \in {"create", "deinit", "quiet"}
      /\ AfterStop = "create" /\ gate.cmd # "none" => gate.cmd = "update"
      /\ AfterStop = "deinit" /\ gate.cmd # "none" => gate.cmd = "delete"
    BY <1>c DEF AfterStop, Commands
<1>3. CASE StopDownloader
    <2>1. GateOK'
        BY <1>3, <1>g, <1>c, <1>s DEF StopDownloader, GateOK, GateSteps
    <2>2. DownloaderOK'
        BY <1>3 DEF StopDownloader, DownloaderOK
    <2> QED BY <1>3, <2>1, <2>2 DEF StopDownloader, card, cvars, CardOK, CleanupOK, SchedulerOK
<1>4. CASE AwaitDownloader
    <2>1. GateOK'
        BY <1>4, <1>g, <1>c, <1>s DEF AwaitDownloader, Steps, GateOK, GateSteps
    <2>2. DownloaderOK'
        BY <1>4 DEF AwaitDownloader, DownloaderOK
    <2> QED BY <1>4, <2>1, <2>2 DEF AwaitDownloader, card, cvars, CardOK, CleanupOK, SchedulerOK
<1>i. ASSUME gate' = Idle, UNCHANGED <<updates, deletes, restarts>> PROVE GateOK'
    BY <1>i, <1>a DEF GateOK, Idle
<1>5. CASE CreateDownloader
    <2>1. DownloaderOK'
        BY <1>5 DEF CreateDownloader, DownloaderOK, DStates
    <2> QED BY <1>5, <1>i, <2>1 DEF CreateDownloader, card, cvars, CardOK, CleanupOK, SchedulerOK
<1>6. CASE GateEndsScheduler
    <2>1. GateOK'
        BY <1>6, <1>g, <1>c DEF GateEndsScheduler, GateOK, GateSteps
    <2> QED BY <1>6, <2>1 DEF GateEndsScheduler, card, dvars, cvars, CardOK, DownloaderOK, CleanupOK,
            SchedulerOK
<1>p. CASE GateStopsPlayer
    <2>1. GateOK'
        BY <1>p, <1>g, <1>c DEF GateStopsPlayer, Steps, GateOK, GateSteps
    <2>2. SchedulerOK'
        BY <1>p DEF GateStopsPlayer, SchedulerOK
    <2> QED BY <1>p, <2>1, <2>2 DEF GateStopsPlayer, card, dvars, cvars, CardOK, DownloaderOK,
        CleanupOK
<1>7. CASE GateAwaitsScheduler
    <2>1. GateOK'
        BY <1>7, <1>g, <1>c DEF GateAwaitsScheduler, Steps, GateOK, GateSteps
    <2> QED BY <1>7, <2>1 DEF GateAwaitsScheduler, card, dvars, cvars, CardOK, DownloaderOK,
            CleanupOK, SchedulerOK
<1>8. CASE GateStopsCleanup
    <2>1. GateOK'
        BY <1>8, <1>g, <1>c DEF GateStopsCleanup, AfterQuiet, GateOK, GateSteps
    <2>2. CleanupOK'
        BY <1>8, CleanupTyped DEF GateStopsCleanup
    <2> QED BY <1>8, <2>1, <2>2 DEF GateStopsCleanup, card, dvars, CardOK, DownloaderOK, SchedulerOK
<1>9. CASE GateAwaitsCleanup
    <2>1. GateOK'
        BY <1>9, <1>g, <1>c DEF GateAwaitsCleanup, Steps, AfterQuiet, GateOK, GateSteps
    <2>2. CleanupOK'
        BY <1>9, CleanupTyped, WaiterNames DEF GateAwaitsCleanup
    <2> QED BY <1>9, <2>1, <2>2 DEF GateAwaitsCleanup, card, dvars, CardOK, DownloaderOK, SchedulerOK
<1>b. CASE GateBlocks
    <2>1. CleanupOK'
        BY <1>b, CleanupTyped, WaiterNames DEF GateBlocks
    <2> QED BY <1>b, <2>1 DEF GateBlocks, card, dvars, gvars, CardOK, DownloaderOK, SchedulerOK,
        GateOK
<1>10. CASE WipeEntry
    <2>1. CardOK'
        BY <1>10, <1>n DEF WipeEntry, CardOK
    <2> QED BY <1>10, <2>1 DEF WipeEntry, dvars, cvars, gvars, DownloaderOK, CleanupOK,
            SchedulerOK, GateOK
<1>11. CASE WipeEnds
    BY <1>11, <1>i DEF WipeEnds, card, dvars, cvars, CardOK, DownloaderOK, CleanupOK,
            SchedulerOK
<1>12. CASE UpdateFails
    BY <1>12, <1>i DEF UpdateFails, card, dvars, cvars, CardOK, DownloaderOK, CleanupOK,
        SchedulerOK
<1> QED BY <1>1, <1>2, <1>3, <1>4, <1>5, <1>6, <1>p, <1>7, <1>8, <1>9, <1>b, <1>10, <1>11, <1>12
        DEF GateWorks, GateStep, UpdateInstalled

\* So does a restart.
LEMMA ShapeRestart ==
    ASSUME Shape, Restart
    PROVE  Shape'
<1> USE DEF Shape
<1>1. GateOK'
    BY SyncAssumption DEF Restart, GateOK, Idle, Commands, GateSteps
<1>2. DownloaderOK'
    <2>1. /\ d' = [k \in Updates |-> "none"] /\ done' = [k \in Updates |-> 0]
          /\ ok' = [k \in Updates |-> TRUE] /\ bits' = {} /\ acked' = acked
        BY DEF Restart
    <2>2. \A k \in Updates : done'[k] <= Len(Playlist[k])
        BY <2>1, PlaylistTypes
    <2>3. d' \in [Updates -> DStates]
        BY <2>1 DEF DStates
    <2> QED BY <2>1, <2>2, <2>3 DEF DownloaderOK
<1>3. CleanupOK'
    <2>1. [running |-> FALSE, bits |-> {}, late |-> FALSE] \in
             [running : BOOLEAN, bits : SUBSET {"STOP", "STOPPED"}, late : BOOLEAN]
        OBVIOUS
    <2>2. c'.pc = "none" /\ timer' \in {"off", "armed"} /\ wait' \in [Waiters -> WaitStates]
        BY DEF Restart, NoTask, WaitStates
    <2> QED BY <2>1, <2>2 DEF Restart, CleanupOK
<1>4. SchedulerOK'
    <2>1. PICK created \in BOOLEAN : sched' = [task |-> created /\ playlist # 0, stop |-> FALSE]
        BY DEF Restart
    <2>2. (created /\ playlist # 0) \in BOOLEAN /\ FALSE \in BOOLEAN
        OBVIOUS
    <2>3. [task |-> created /\ playlist # 0, stop |-> FALSE] \in [task : BOOLEAN, stop : BOOLEAN]
        BY <2>2
    <2> QED BY <2>1, <2>3 DEF SchedulerOK
<1> QED BY <1>1, <1>2, <1>3, <1>4 DEF Restart, card, CardOK

\* So do the cleanup task, its timer and the end of the scheduler.
LEMMA ShapeOthers ==
    ASSUME Shape, TimerExpires \/ TimerStep \/ CleanStep \/ SchedulerEnds \/ SchedulerFails
    PROVE  Shape'
<1> USE DEF Shape
<1>t. cleaner \in [running : BOOLEAN, bits : SUBSET {"STOP", "STOPPED"}, late : BOOLEAN]
    BY DEF CleanupOK
<1>1. CASE TimerExpires \/ TimerStep
    <2>1. ASSUME TimerExpires \/ TimerStops PROVE CleanupOK'
        BY <1>t, <2>1 DEF TimerExpires, TimerStops, CleanupOK
    <2>2. ASSUME TimerStarts \/ TimerAwaits \/ TimerBlocks PROVE CleanupOK'
        BY <2>2, CleanupTyped, WaiterNames DEF TimerStarts, TimerAwaits, TimerBlocks
    <2>3. CleanupOK'
        BY <1>1, <2>1, <2>2 DEF TimerStep
    <2> QED BY <1>1, <2>3, Frames DEF card, dvars, gvars, CardOK, DownloaderOK, SchedulerOK, GateOK
<1>2. CASE CleanStep
    <2>f. ASSUME UNCHANGED <<cleaner, wait, timer>>,
                 \/ c'.pc = "end" \/ (c'.pc = "next" /\ c'.seen \subseteq Files)
                 \/ c'.pc \in {"walk", "decide"} /\ c' \in Lookup
          PROVE  CleanupOK'
        BY <2>f DEF CleanupOK
    <2>1. ASSUME CleanNext PROVE CleanupOK'
        <3>1. CASE c' = [pc |-> "end"]
            BY <2>f, <2>1, <3>1 DEF CleanNext
        <3>2. CASE \E f \in media \ c.seen :
                      c' = [pc |-> "walk", seen |-> c.seen \cup {f}, file |-> f, found |-> FALSE,
                            list |-> playlist, pos |-> 0]
            <4>1. playlist \in Updates /\ media \subseteq Files /\ c.seen \subseteq Files
                BY <2>1, <3>2, SyncAssumption DEF CleanNext, CleanupOK, CardOK, Updates
            <4>2. c' \in Lookup /\ c'.pc = "walk"
                BY <3>2, <4>1 DEF Lookup
            <4> QED BY <2>f, <2>1, <4>2 DEF CleanNext
        <3> QED BY <2>1, <3>1, <3>2 DEF CleanNext
    <2>2. ASSUME CleanWalk PROVE CleanupOK'
        <3>1. c \in Lookup /\ c.pos \in Nat
            BY <2>2 DEF CleanWalk, CleanupOK, Lookup
        <3>2. c' \in Lookup /\ c'.pc \in {"walk", "decide"}
            <4>1. [c EXCEPT !.pc = "decide"] \in Lookup
                BY <3>1 DEF Lookup
            <4>2. [c EXCEPT !.pos = @ + 1,
                            !.found = @ \/ Playlist[c.list][c.pos + 1] = c.file] \in Lookup
                <5> DEFINE x == c.found \/ Playlist[c.list][c.pos + 1] = c.file
                           n == c.pos + 1
                <5>1. x \in BOOLEAN /\ n \in Nat
                    BY <3>1
                <5> HIDE DEF x, n
                <5>2. [c EXCEPT !.pos = n, !.found = x] \in Lookup
                    BY <3>1, <5>1 DEF Lookup
                <5> QED BY <5>2 DEF x, n
            <4>3. c' \in Lookup
                BY <2>2, <4>1, <4>2 DEF CleanWalk
            <4> QED BY <4>3 DEF Lookup
        <3> QED BY <2>f, <2>2, <3>2 DEF CleanWalk
    <2>3. ASSUME CleanDecide PROVE CleanupOK'
        <3>1. c.seen \subseteq Files
            BY <2>3 DEF CleanDecide, CleanupOK, Lookup
        <3> QED BY <2>f, <2>3, <3>1 DEF CleanDecide
    <2>4. ASSUME CleanEnd PROVE CleanupOK'
        <3>1. /\ [cleaner EXCEPT !.running = FALSE, !.late = TRUE] \in
                    [running : BOOLEAN, bits : SUBSET {"STOP", "STOPPED"}, late : BOOLEAN]
              /\ [cleaner EXCEPT !.running = FALSE] \in
                    [running : BOOLEAN, bits : SUBSET {"STOP", "STOPPED"}, late : BOOLEAN]
            BY <1>t
        <3>2. c'.pc = "none" /\ timer' = timer
            BY <2>4 DEF CleanEnd, NoTask
        <3>3. /\ cleaner' \in [running : BOOLEAN, bits : SUBSET {"STOP", "STOPPED"}, late : BOOLEAN]
              /\ wait' \in [Waiters -> WaitStates]
            BY <2>4, <3>1, SignalTyped DEF CleanEnd, CleanupOK
        <3> QED BY <3>2, <3>3 DEF CleanupOK
    <2>5. ASSUME CleanSignal PROVE CleanupOK'
        <3>1. [cleaner EXCEPT !.late = FALSE] \in
                 [running : BOOLEAN, bits : SUBSET {"STOP", "STOPPED"}, late : BOOLEAN]
            BY <1>t
        <3>2. /\ cleaner' \in [running : BOOLEAN, bits : SUBSET {"STOP", "STOPPED"}, late : BOOLEAN]
              /\ wait' \in [Waiters -> WaitStates]
            BY <2>5, <3>1, SignalTyped DEF CleanSignal
        <3> QED BY <2>5, <3>2 DEF CleanSignal, CleanupOK
    <2>6. CleanupOK'
        BY <1>2, <2>1, <2>2, <2>3, <2>4, <2>5 DEF CleanStep
    <2>7. CardOK'
        BY <1>2 DEF CleanStep, CleanNext, CleanWalk, CleanDecide, CleanEnd, CleanSignal, card, CardOK
    <2> QED BY <1>2, <2>6, <2>7, Frames DEF dvars, gvars, DownloaderOK, SchedulerOK, GateOK
<1>3. CASE SchedulerEnds \/ SchedulerFails
    <2>1. SchedulerOK' /\ CardOK'
        BY <1>3 DEF SchedulerEnds, SchedulerFails, SchedulerOK, card, CardOK
    <2> QED BY <1>3, <2>1, Frames DEF dvars, cvars, gvars, DownloaderOK, CleanupOK, GateOK
<1> QED BY <1>1, <1>2, <1>3

\* The device starts with the types it keeps.
LEMMA ShapeInit == Init => Shape
<1> SUFFICES ASSUME Init PROVE Shape
    OBVIOUS
<1>1. CardOK /\ GateOK
    <2>1. 0 \in 0..MaxUpdates /\ 0 \in 0..MaxDeletes /\ 0 \in 0..MaxRestarts
        BY SyncAssumption
    <2>2. CardOK
        BY <2>1, Zenon DEF Init, CardOK
    <2>3. GateOK
        BY <2>1 DEF Init, GateOK, Idle, Commands, GateSteps
    <2> QED BY <2>2, <2>3
<1>2. DownloaderOK
    <2>1. \A k \in Updates : done[k] = 0 /\ done[k] <= Len(Playlist[k])
        BY PlaylistTypes DEF Init
    <2> QED BY <2>1 DEF Init, DownloaderOK, DStates
<1>3. CleanupOK /\ SchedulerOK
    <2>1. [running |-> FALSE, bits |-> {}, late |-> FALSE] \in
             [running : BOOLEAN, bits : SUBSET {"STOP", "STOPPED"}, late : BOOLEAN]
        OBVIOUS
    <2>2. [task |-> FALSE, stop |-> FALSE] \in [task : BOOLEAN, stop : BOOLEAN]
        OBVIOUS
    <2>3. c.pc = "none" /\ wait \in [Waiters -> WaitStates]
        BY DEF Init, NoTask, WaitStates
    <2>4. CleanupOK
        BY <2>1, <2>3 DEF Init, CleanupOK
    <2> QED BY <2>2, <2>4, Zenon DEF Init, SchedulerOK
<1> QED BY <1>1, <1>2, <1>3 DEF Shape

\* Every step keeps the types.
LEMMA ShapeStep == Shape /\ [Next]_vars => Shape'
<1> SUFFICES ASSUME Shape, [Next]_vars PROVE Shape'
    OBVIOUS
<1>1. CASE \E k \in Updates : Works(k)
    BY <1>1, ShapeDownloader
<1>2. CASE UpdateInstalled \/ Restart
    BY <1>2, ShapeRestart DEF UpdateInstalled
<1>3. CASE UpdateArrives \/ OtherArrives \/ (GateWorks /\ ~UpdateInstalled)
    <2>1. UpdateArrives \/ OtherArrives \/ (GateWorks /\ gate.pc # "ota") \/ UpdateFails
        BY <1>3 DEF GateWorks, GateStep, StopDownloader, AwaitDownloader, CreateDownloader,
            GateEndsScheduler, GateStopsPlayer, GateAwaitsScheduler, GateStopsCleanup,
            GateAwaitsCleanup, GateBlocks,
            Steps, WipeEntry, WipeEnds
    <2> QED BY <2>1, ShapeGate
<1>4. CASE TimerExpires \/ TimerStep \/ CleanStep \/ SchedulerEnds \/ SchedulerFails
    BY <1>4, ShapeOthers
<1>5. CASE UNCHANGED vars
    BY <1>5 DEF vars, card, dvars, cvars, gvars, Shape, CardOK, DownloaderOK, CleanupOK,
        SchedulerOK, GateOK
<1> QED BY <1>1, <1>2, <1>3, <1>4, <1>5 DEF Next, Works, GateWorks

\* The state of downloader, cleanup, scheduler and gate has its types, however long a
\* task is held up.
THEOREM SyncTypes == Spec => []TypeOK
<1>1. Shape => TypeOK
    <2> SUFFICES ASSUME Shape PROVE TypeOK
        OBVIOUS
    <2>1. CardOK /\ DownloaderOK /\ CleanupOK /\ SchedulerOK /\ GateOK
        BY DEF Shape
    <2>2. \A k \in Updates : done[k] \in 0..Len(Playlist[k])
        BY <2>1, PlaylistTypes DEF DownloaderOK
    <2>3. c.pc \in {"walk", "decide"} =>
             c.file \in Files /\ c.list \in Updates /\ c.found \in BOOLEAN
        BY <2>1 DEF CleanupOK, Lookup
    <2>4. gate.cmd \in Commands /\ gate.pc \in GateSteps
        BY <2>1 DEF GateOK
    <2> QED BY <2>1, <2>2, <2>3, <2>4 DEF TypeOK, CardOK, DownloaderOK, CleanupOK, SchedulerOK,
            GateOK, DStates, WaitStates, Commands, GateSteps
<1> QED BY <1>1, ShapeInit, ShapeStep, PTL DEF Spec

-------------------------------------------------------------------------------
(* The life of a downloader and the gate that waits for its end.           *)

\* What a step of a downloader does to its own state and to the event group.
LEMMA DownloaderMoves ==
    ASSUME Shape, NEW k \in Updates, Works(k)
    PROVE  /\ d[k] # "none"
           /\ \A l \in Updates : l # k => d'[l] = d[l]
           /\ Busy(k)' => "RUNNING" \in bits' \/ (Busy(k) /\ bits' = bits)
           /\ "STOPPED" \in bits' => "STOPPED" \in bits \/ d'[k] = "none"
           /\ "STOP" \in bits' <=> "STOP" \in bits
<1> USE DEF Shape, DownloaderOK, Moves, Busy
<1>1. CASE Begin(k)
    BY <1>1 DEF Begin
<1>2. CASE QuietFirst(k) \/ QuietAgain(k) \/ Quiet(k) \/ Blocks(k) \/ OfflineEnds(k)
    BY <1>2 DEF QuietFirst, QuietAgain, Quiet, Blocks, OfflineEnds, dvars
<1>3. CASE MakeDirectory(k) \/ DownloadFails(k) \/ Downloaded(k)
    BY <1>3 DEF MakeDirectory, DownloadFails, Downloaded
<1>4. CASE SkipFile(k) \/ FetchFile(k)
    BY <1>4 DEF SkipFile, FetchFile, HasNext
<1>5. CASE EndScheduler(k) \/ PlayerStopped(k) \/ AwaitScheduler(k) \/ RemoveOld(k) \/ InstallNew(k)
    BY <1>5 DEF EndScheduler, PlayerStopped, AwaitScheduler, RemoveOld, InstallNew
<1>6. CASE BeginScheduler(k) \/ BeginCleanup(k) \/ Finish(k) \/ Acknowledge(k)
    BY <1>6 DEF BeginScheduler, BeginCleanup, Finish, Acknowledge
<1>7. CASE ClearRunning(k)
    BY <1>7 DEF ClearRunning
<1>8. CASE SignalStopped(k)
    BY <1>8 DEF SignalStopped
<1> QED BY <1>1, <1>2, <1>3, <1>4, <1>5, <1>6, <1>7, <1>8 DEF Works, DownloaderStep, StopReturns

\* A step of a downloader keeps Life: the gate is not past its wait, since there is one.
LEMMA LifeDownloader ==
    ASSUME Shape, Life, NEW k \in Updates, Works(k)
    PROVE  Life'
<1>1. /\ d[k] # "none"
      /\ \A l \in Updates : l # k => d'[l] = d[l]
      /\ Busy(k)' => "RUNNING" \in bits' \/ (Busy(k) /\ bits' = bits)
      /\ "STOPPED" \in bits' => "STOPPED" \in bits \/ d'[k] = "none"
    BY DownloaderMoves
<1>2. gate' = gate
    BY Frames DEF gvars
<1>3. \A l \in Updates : l # k => d[l] = "none" /\ d'[l] = "none"
    BY <1>1 DEF Life
<1>4. ~Quiescent
    BY <1>1 DEF Quiescent
<1>5. \A l \in Updates : Busy(l)' => "RUNNING" \in bits'
    BY <1>1, <1>3 DEF Life, Busy
<1>6. "STOPPED" \in bits' => Quiescent'
    BY <1>1, <1>3, <1>4 DEF Life, Quiescent
<1>7. \A l, m \in Updates : d'[l] # "none" /\ d'[m] # "none" => l = m
    BY <1>3
<1>8. gate'.pc \in {"idle", "stop", "wait"}
    BY <1>2, <1>4 DEF Life
<1> QED BY <1>5, <1>6, <1>7, <1>8 DEF Life

\* The gate keeps Life: it passes its wait when the event group tells that nobody is
\* left, and makes a new downloader when there is none.
LEMMA LifeGate ==
    ASSUME ~LateExit, Shape, Life, UpdateArrives \/ OtherArrives \/ GateWorks
    PROVE  Life'
<1> USE DEF Shape
<1>t. gate \in [cmd : Commands, pc : GateSteps] /\ d \in [Updates -> DStates]
    BY DEF GateOK, DownloaderOK
<1>1. CASE UpdateArrives \/ OtherArrives
    BY <1>1, Frames DEF UpdateArrives, OtherArrives, dvars, Life, Busy, Quiescent
<1>2. CASE StopDownloader
    <2>1. d' = d
        BY <1>2 DEF StopDownloader
    <2>2. CASE "RUNNING" \in bits
        <3>1. gate'.pc = "wait" /\ bits' = bits \cup {"STOP"}
            BY <1>2, <2>2, <1>t DEF StopDownloader, Goes
        <3> QED BY <2>1, <3>1 DEF Life, Busy, Quiescent
    <2>3. CASE "RUNNING" \notin bits
        <3>1. \A k \in Updates : d[k] \notin {"begin", "over"} /\ ~Busy(k)
            BY <1>2, <2>3 DEF StopDownloader, Settled, Life
        <3>2. Quiescent
            BY <3>1 DEF Busy, Quiescent
        <3>3. bits' = bits
            BY <1>2, <2>3 DEF StopDownloader
        <3> QED BY <2>1, <3>2, <3>3 DEF Life, Busy, Quiescent
    <2> QED BY <2>2, <2>3
<1>3. CASE AwaitDownloader
    <2>1. Quiescent /\ d' = d /\ bits' = bits \ {"STOPPED"}
        BY <1>3 DEF AwaitDownloader, Life
    <2> QED BY <2>1 DEF Life, Busy, Quiescent
<1>4. CASE CreateDownloader
    <2>1. Quiescent /\ bits' = {} /\ gate' = Idle
        BY <1>4 DEF CreateDownloader, Life
    <2>2. d' = [d EXCEPT ![updates] = "begin"] \/ d' = d
        BY <1>4 DEF CreateDownloader
    <2>3. \A k \in Updates : d'[k] = "none" \/ (k = updates /\ d'[k] = "begin")
        BY <1>t, <2>1, <2>2 DEF Quiescent
    <2> QED BY <2>1, <2>3 DEF Life, Busy, Idle
<1>5. ASSUME UNCHANGED dvars, gate.pc \notin {"idle", "stop", "wait"} \/ gate' = gate
      PROVE  Life'
    BY <1>5 DEF dvars, Life, Busy, Quiescent
<1>6. CASE GateEndsScheduler \/ GateStopsPlayer \/ GateAwaitsScheduler \/ GateStopsCleanup
           \/ GateAwaitsCleanup \/ GateBlocks
           \/ WipeEntry \/ WipeEnds \/ UpdateFails
    BY <1>6, <1>5 DEF GateEndsScheduler, GateStopsPlayer, GateAwaitsScheduler, GateStopsCleanup,
        GateAwaitsCleanup, GateBlocks, Steps, WipeEntry, WipeEnds, UpdateFails, gvars
<1>7. CASE UpdateInstalled
    BY <1>7 DEF UpdateInstalled, Restart, Life, Busy, Quiescent, Idle
<1> QED BY <1>1, <1>2, <1>3, <1>4, <1>6, <1>7 DEF GateWorks, GateStep

\* A restart ends the downloader; the other tasks do not touch it.
LEMMA LifeOthers ==
    ASSUME Life, \/ Restart \/ TimerExpires \/ TimerStep \/ CleanStep
                 \/ SchedulerEnds \/ SchedulerFails
    PROVE  Life'
<1>1. CASE Restart
    BY <1>1 DEF Restart, Life, Busy, Quiescent, Idle
<1>2. CASE UNCHANGED <<dvars, gvars>>
    BY <1>2 DEF dvars, gvars, Life, Busy, Quiescent
<1> QED BY <1>1, <1>2, Frames

-------------------------------------------------------------------------------
(* The scheduler, its playlist and its timer.                              *)

\* A step of a downloader keeps Scheduling.
LEMMA SchedulingDownloader ==
    ASSUME Shape, Life, Scheduling, NEW k \in Updates, Works(k)
    PROVE  Scheduling'
<1> USE DEF Shape
<1>g. gate' = gate /\ gate.pc \in {"idle", "stop", "wait"}
    BY Frames, DownloaderMoves DEF gvars, Life, Quiescent
<1>k. \A l \in Updates : l # k => d'[l] = "none"
    BY DownloaderMoves DEF Life
<1>t. d \in [Updates -> DStates]
    BY DEF DownloaderOK
<1>1. CASE EndScheduler(k)
    BY <1>1, <1>g, <1>k, <1>t DEF EndScheduler, Moves, Scheduling, card
<1>p. CASE PlayerStopped(k)
    <2>1. sched'.task = sched.task
        BY <1>p DEF PlayerStopped, SchedulerOK
    <2> QED BY <1>p, <1>g, <1>k, <1>t, <2>1 DEF PlayerStopped, Moves, Scheduling, card
<1>2. CASE AwaitScheduler(k)
    BY <1>2, <1>g, <1>k, <1>t DEF AwaitScheduler, Moves, Scheduling, card
<1>3. CASE RemoveOld(k)
    BY <1>3, <1>g, <1>k, <1>t DEF RemoveOld, Moves, Scheduling
<1>4. CASE InstallNew(k)
    BY <1>4, <1>g, <1>k, <1>t DEF InstallNew, Moves, Scheduling
<1>5. CASE BeginScheduler(k)
    <2>1. d[k] = "init" /\ d'[k] = "clean" /\ ~sched.task /\ playlist' = playlist
        BY <1>5, <1>t DEF BeginScheduler, Moves, Scheduling, card
    <2>2. CASE playlist = 0
        BY <1>5, <1>g, <1>k, <2>1, <2>2 DEF BeginScheduler, InitScheduler, Scheduling
    <2>3. CASE playlist # 0
        BY <1>g, <1>k, <2>1, <2>3 DEF Scheduling
    <2> QED BY <2>2, <2>3
<1>6. ASSUME UNCHANGED <<playlist, sched>>,
             d'[k] \notin {"remove", "rename", "init"}
      PROVE  Scheduling'
    BY <1>6, <1>g, <1>k DEF Scheduling
<1>7. CASE Begin(k) \/ QuietFirst(k) \/ QuietAgain(k) \/ Quiet(k) \/ Blocks(k) \/ MakeDirectory(k)
           \/ OfflineEnds(k)
    BY <1>7, <1>6, <1>t DEF Begin, QuietFirst, QuietAgain, Quiet, Blocks, MakeDirectory, OfflineEnds,
        Moves, card, dvars
<1>8. CASE SkipFile(k) \/ FetchFile(k) \/ DownloadFails(k) \/ Downloaded(k) \/ BeginCleanup(k)
    BY <1>8, <1>6, <1>t DEF SkipFile, FetchFile, HasNext, DownloadFails, Downloaded, BeginCleanup,
        Moves, card
<1>9. CASE Finish(k) \/ Acknowledge(k) \/ ClearRunning(k) \/ SignalStopped(k)
    BY <1>9, <1>6, <1>t DEF Finish, Acknowledge, ClearRunning, SignalStopped, Moves, card
<1> QED BY <1>1, <1>p, <1>2, <1>3, <1>4, <1>5, <1>7, <1>8, <1>9 DEF Works, DownloaderStep, StopReturns

\* So does every other step.
LEMMA SchedulingOthers ==
    ASSUME ~LateExit, Shape, Life, Scheduling,
           \/ UpdateArrives \/ OtherArrives \/ GateWorks \/ Restart \/ TimerExpires \/ TimerStep
           \/ CleanStep \/ SchedulerEnds \/ SchedulerFails
    PROVE  Scheduling'
<1> USE DEF Shape
<1>t. gate \in [cmd : Commands, pc : GateSteps] /\ d \in [Updates -> DStates]
    BY DEF GateOK, DownloaderOK
<1>c. gate.pc \in {"deinit", "hush", "deinitw", "wipe"} => gate.cmd = "delete"
    BY DEF GateOK
<1>1. CASE UpdateArrives \/ OtherArrives
    BY <1>1, Frames DEF UpdateArrives, OtherArrives, dvars, card, Scheduling
<1>2. CASE StopDownloader \/ AwaitDownloader
    <2>1. UNCHANGED <<card, sched, d>>
        BY <1>2 DEF StopDownloader, AwaitDownloader
    <2>2. gate'.cmd = gate.cmd /\ (gate'.cmd = "delete" => gate'.pc \in {"wait", "deinit"})
        BY <1>2, <1>t DEF StopDownloader, AwaitDownloader, Steps, Goes, AfterStop
    <2> QED BY <2>1, <2>2 DEF Scheduling, card
<1>3. CASE CreateDownloader
    BY <1>3, <1>t DEF CreateDownloader, Scheduling, card, Idle
<1>4. CASE GateEndsScheduler
    <2>1. \A k \in Updates : d[k] = "none"
        BY <1>4 DEF GateEndsScheduler, Life, Quiescent
    <2> QED BY <1>4, <1>t, <2>1 DEF GateEndsScheduler, Goes, Scheduling, card, dvars
<1>p. CASE GateStopsPlayer
    <2>1. sched'.task = sched.task
        BY <1>p DEF GateStopsPlayer, SchedulerOK
    <2> QED BY <1>p, <1>t, <2>1 DEF GateStopsPlayer, Steps, Goes, Scheduling, card, dvars
<1>5. CASE GateAwaitsScheduler
    BY <1>5, <1>t DEF GateAwaitsScheduler, Steps, Goes, Scheduling, card, dvars
<1>6. CASE GateStopsCleanup
    BY <1>6, <1>t DEF GateStopsCleanup, Goes, AfterQuiet, Scheduling, card, dvars
<1>7. CASE GateAwaitsCleanup
    BY <1>7, <1>t DEF GateAwaitsCleanup, Steps, Goes, AfterQuiet, Scheduling, card, dvars
<1>b. CASE GateBlocks
    BY <1>b DEF GateBlocks, Scheduling, card, dvars, gvars
<1>8. CASE WipeEntry
    BY <1>8, <1>c DEF WipeEntry, Scheduling, dvars, gvars
<1>9. CASE WipeEnds \/ UpdateFails
    BY <1>9 DEF WipeEnds, UpdateFails, Scheduling, Idle, card, dvars
<1>10. CASE Restart
    <2>1. PICK created \in BOOLEAN : sched' = [task |-> created /\ playlist # 0, stop |-> FALSE]
        BY <1>10 DEF Restart
    <2>2. gate' = Idle /\ playlist' = playlist /\ \A k \in Updates : d'[k] = "none"
        BY <1>10 DEF Restart, card
    <2>3. sched'.task => playlist # 0
        BY <2>1
    <2> QED BY <2>2, <2>3 DEF Scheduling, Idle
<1>11. CASE TimerExpires \/ TimerStep \/ CleanStep
    BY <1>11, Frames DEF Scheduling, card, dvars, gvars
<1>12. CASE SchedulerEnds \/ SchedulerFails
    BY <1>12 DEF SchedulerEnds, SchedulerFails, SchedulerOK, Scheduling, card, dvars, gvars
<1> QED BY <1>1, <1>2, <1>3, <1>4, <1>p, <1>5, <1>6, <1>7, <1>b, <1>8, <1>9, <1>10, <1>11, <1>12
        DEF GateWorks, GateStep, UpdateInstalled

-------------------------------------------------------------------------------
(* What holds when a downloader is not held up before its last statement.  *)

\* The device starts within the invariant.
LEMMA SyncInvInit == Init => SyncInv
<1> SUFFICES ASSUME Init PROVE SyncInv
    OBVIOUS
<1>1. Life /\ Scheduling
    BY DEF Init, Life, Scheduling, Busy, Quiescent, Idle
<1> QED BY <1>1, ShapeInit DEF SyncInv

\* Every step keeps the invariant.
LEMMA SyncInvStep ==
    ASSUME ~LateExit, SyncInv, [Next]_vars
    PROVE  SyncInv'
<1> USE DEF SyncInv
<1>0. Shape'
    BY ShapeStep
<1>1. CASE \E k \in Updates : Works(k)
    BY <1>0, <1>1, LifeDownloader, SchedulingDownloader
<1>2. CASE UpdateArrives \/ OtherArrives \/ GateWorks
    BY <1>0, <1>2, LifeGate, SchedulingOthers
<1>3. CASE Restart \/ TimerExpires \/ TimerStep \/ CleanStep \/ SchedulerEnds \/ SchedulerFails
    BY <1>0, <1>3, LifeOthers, SchedulingOthers
<1>4. CASE UNCHANGED vars
    <2>1. Life' /\ Scheduling'
        BY <1>4 DEF vars, card, dvars, cvars, gvars, Life, Scheduling, Busy, Quiescent
    <2> QED BY <1>0, <2>1
<1> QED BY <1>1, <1>2, <1>3, <1>4 DEF Next, Works, GateWorks

\* The inductive invariant of downloader, scheduler and gate.
THEOREM SyncInvariant ==
    ASSUME ~LateExit
    PROVE  Spec => []SyncInv
<1>1. SyncInv /\ [Next]_vars => SyncInv'
    BY SyncInvStep
<1> QED BY <1>1, SyncInvInit, PTL DEF Spec

\* After cloud_downloader_stop no downloader is at work, and there is never a second one,
\* whatever the playlists and the order of the tasks, provided that a downloader is not
\* held up between clearing RUNNING_BIT and setting STOPPED_BIT.
THEOREM StopKills ==
    ASSUME ~LateExit
    PROVE  Spec => []StoppedMeansDead
<1>1. SyncInv => StoppedMeansDead
    <2> SUFFICES ASSUME SyncInv PROVE StoppedMeansDead
        OBVIOUS
    <2>1. \A k, l \in AtWork : k = l
        BY DEF SyncInv, Life, AtWork
    <2>2. Cardinality(AtWork) <= 1
        <3>1. CASE AtWork = {}
            BY <3>1, FS_EmptySet
        <3>2. CASE AtWork # {}
            <4>1. PICK k : k \in AtWork
                BY <3>2
            <4>2. AtWork = {k}
                BY <2>1, <4>1
            <4> QED BY <4>2, FS_Singleton
        <3> QED BY <3>1, <3>2
    <2>3. gate.pc \in {"create", "wipe", "ota"} => AtWork = {}
        BY DEF SyncInv, Life, Quiescent, AtWork
    <2> QED BY <2>2, <2>3 DEF StoppedMeansDead
<1> QED BY <1>1, SyncInvariant, PTL

\* Neither a new playlist nor the wiping of the directory takes the playlist file away
\* from a running scheduler.
THEOREM PlaylistStaysWithScheduler ==
    ASSUME ~LateExit
    PROVE  Spec => []SchedulerHasPlaylist
<1>1. SyncInv => SchedulerHasPlaylist
    BY DEF SyncInv, Scheduling, SchedulerHasPlaylist
<1> QED BY <1>1, SyncInvariant, PTL

-------------------------------------------------------------------------------
(* What holds when, besides, the cleanup task is not held up between its    *)
(* last two statements, nor the timer task before it starts a cleanup.      *)

\* Whoever is past its wait for the cleanup finds it gone.
LEMMA AwaitedIsGone ==
    ASSUME CleanupOK, Cleaning, Waits, NEW w \in Waiters, AwaitCleanup(w)
    PROVE  /\ c.pc = "none" /\ c' = c
           /\ ~cleaner'.late /\ ~cleaner'.running
<1>1. c.pc = "none" /\ c' = c
    BY DEF AwaitCleanup, Cleaning, Waits
<1>2. ~cleaner.late /\ ~cleaner.running
    BY <1>1 DEF Cleaning
<1>3. cleaner' = cleaner \/ cleaner' = [cleaner EXCEPT !.bits = @ \ {"STOPPED"}]
    BY DEF AwaitCleanup
<1>4. cleaner \in [running : BOOLEAN, bits : SUBSET {"STOP", "STOPPED"}, late : BOOLEAN]
    BY DEF CleanupOK
<1> QED BY <1>1, <1>2, <1>3, <1>4

\* A request to stop does not end the task at once, and stops the timer.
LEMMA StopRequests ==
    ASSUME CleanupOK, Cleaning, StopCleanup
    PROVE  /\ c' = c /\ wait' = wait /\ timer' = "off"
           /\ ~cleaner'.late /\ (cleaner'.running <=> cleaner.running)
           /\ "STOPPED" \in cleaner'.bits <=> "STOPPED" \in cleaner.bits
<1>1. c' = c /\ wait' = wait /\ timer' = "off"
    BY DEF StopCleanup, Cleaning
<1>2. cleaner' = cleaner \/ cleaner' = [cleaner EXCEPT !.bits = @ \cup {"STOP"}]
    BY DEF StopCleanup
<1>3. cleaner \in [running : BOOLEAN, bits : SUBSET {"STOP", "STOPPED"}, late : BOOLEAN]
    BY DEF CleanupOK
<1> QED BY <1>1, <1>2, <1>3 DEF Cleaning

\* A start, if it succeeds, leaves a task with an empty event group, and no one on the
\* former group.
LEMMA StartMakes ==
    ASSUME CleanupOK, Cleaning, Waits, StartCleanup
    PROVE  /\ c.pc = "none" /\ wait' = wait /\ cleaner'.bits = {} /\ ~cleaner'.late
           /\ \/ c'.pc = "next" /\ cleaner'.running
              \/ c' = c /\ ~cleaner'.running
<1>1. c.pc = "none" /\ ~cleaner.running /\ ~cleaner.late
    BY DEF StartCleanup, Cleaning
<1>2. wait' = wait
    <2>1. wait \in [Waiters -> WaitStates]
        BY DEF CleanupOK
    <2>2. \A w \in Waiters : wait[w] # "blocked"
        BY <1>1 DEF Waits
    <2>3. wait' = [w \in Waiters |-> wait[w]]
        BY <2>2 DEF StartCleanup
    <2> QED BY <2>1, <2>3
<1>3. cleaner \in [running : BOOLEAN, bits : SUBSET {"STOP", "STOPPED"}, late : BOOLEAN]
    BY DEF CleanupOK
<1>4. CASE cleaner' = [cleaner EXCEPT !.running = TRUE, !.bits = {}] /\ c' = [pc |-> "next", seen |-> {}]
    BY <1>1, <1>2, <1>3, <1>4
<1>5. CASE cleaner' = [cleaner EXCEPT !.bits = {}] /\ c' = c
    BY <1>1, <1>2, <1>3, <1>5
<1> QED BY <1>4, <1>5 DEF StartCleanup

\* A step of a downloader keeps Cleaning.
LEMMA CleaningDownloader ==
    ASSUME SyncInv, Cleaning, Waits, NEW k \in Updates, Works(k)
    PROVE  Cleaning'
<1>t. d \in [Updates -> DStates] /\ CleanupOK
    BY DEF SyncInv, Shape, DownloaderOK
<1>g. gate' = gate /\ gate.pc \in {"idle", "stop", "wait"}
    BY Frames, DownloaderMoves DEF SyncInv, gvars, Life, Quiescent
<1>k. \A l \in Updates : l # k => d'[l] = "none"
    BY DownloaderMoves DEF SyncInv, Life
<1>1. CASE QuietFirst(k) \/ QuietAgain(k)
    <2>1. StopCleanup
        BY <1>1 DEF QuietFirst, QuietAgain
    <2>2. /\ c' = c /\ timer' = "off"
          /\ ~cleaner'.late /\ (cleaner'.running <=> cleaner.running)
          /\ "STOPPED" \in cleaner'.bits <=> "STOPPED" \in cleaner.bits
        BY <1>t, <2>1, StopRequests
    <2>3. /\ d'[k] \in UsesCard => c.pc = "none"
          /\ d'[k] \notin {"finish", "ack", "wait2", "cleanw", "cleaned"}
        BY <1>1, <1>t DEF QuietFirst, QuietAgain, Moves, Cleaning, UsesCard
    <2> QED BY <1>g, <1>k, <2>2, <2>3 DEF Cleaning, UsesCard
<1>2. CASE Quiet(k)
    <2>1. d[k] = "wait1" /\ d'[k] = "mkdir" /\ timer' = timer /\ AwaitCleanup(k)
        BY <1>2, <1>t DEF Quiet, Moves, Cleaning
    <2>2. c.pc = "none" /\ c' = c /\ ~cleaner'.late /\ ~cleaner'.running
        BY <1>t, <2>1, AwaitedIsGone, WaiterNames
    <2>3. timer = "off"
        BY <2>1 DEF Cleaning
    <2> QED BY <1>g, <1>k, <2>1, <2>2, <2>3 DEF Cleaning
<1>3. CASE BeginCleanup(k)
    <2>1. d[k] = "clean" /\ c.pc = "none" /\ ~cleaner.running /\ timer = "off"
        BY <1>3 DEF BeginCleanup, Moves, Cleaning, UsesCard
    <2>2. StartCleanup /\ timer' = timer /\ d'[k] = "finish"
        BY <1>3, <1>t, <2>1 DEF BeginCleanup, Moves
    <2>3. /\ cleaner'.bits = {} /\ ~cleaner'.late
          /\ \/ c'.pc = "next" /\ cleaner'.running
             \/ c' = c /\ ~cleaner'.running
        BY <1>t, <2>2, StartMakes
    <2> QED BY <1>g, <1>k, <2>1, <2>2, <2>3 DEF Cleaning, UsesCard
<1>b. CASE Blocks(k)
    BY <1>b DEF Blocks, BlockOnCleanup, Cleaning, dvars, gvars
<1>4. ASSUME UNCHANGED <<cleaner, c, timer>>, d'[k] \in UsesCard => d[k] \in UsesCard,
             d'[k] \in {"finish", "ack"} => d[k] \in UsesCard \cup {"finish", "ack"},
             d'[k] \in {"none", "begin", "quiet1"} \/ d[k] \notin {"none", "begin", "quiet1"},
             d'[k] \notin {"wait2", "cleanw", "cleaned"}
      PROVE  Cleaning'
    BY <1>4, <1>g, <1>k DEF Cleaning, UsesCard
<1>5. CASE Begin(k) \/ MakeDirectory(k) \/ OfflineEnds(k) \/ DownloadFails(k)
    BY <1>5, <1>4, <1>t DEF Begin, MakeDirectory, OfflineEnds, DownloadFails, Moves, UsesCard, cvars
<1>s. CASE SkipFile(k) \/ FetchFile(k)
    BY <1>s, <1>4, <1>t DEF SkipFile, FetchFile, HasNext, UsesCard, cvars
<1>6. CASE Downloaded(k) \/ EndScheduler(k) \/ PlayerStopped(k) \/ AwaitScheduler(k)
    BY <1>6, <1>4, <1>t DEF Downloaded, EndScheduler, PlayerStopped, AwaitScheduler, Moves, UsesCard,
        cvars
<1>r. CASE RemoveOld(k) \/ InstallNew(k) \/ BeginScheduler(k)
    BY <1>r, <1>4, <1>t DEF RemoveOld, InstallNew, BeginScheduler, Moves, UsesCard, cvars
<1>7. CASE Finish(k) \/ Acknowledge(k) \/ ClearRunning(k) \/ SignalStopped(k)
    BY <1>7, <1>4, <1>t DEF Finish, Acknowledge, ClearRunning, SignalStopped, Moves, UsesCard, cvars
<1> QED BY <1>1, <1>2, <1>3, <1>b, <1>5, <1>s, <1>6, <1>r, <1>7
        DEF Works, DownloaderStep, StopReturns

\* So does every other step.
LEMMA CleaningOthers ==
    ASSUME ~LazyIdle, ~LateTimer, SyncInv, Cleaning, Waits,
           \/ UpdateArrives \/ OtherArrives \/ GateWorks \/ Restart \/ TimerExpires \/ TimerStep
           \/ CleanStep \/ SchedulerEnds \/ SchedulerFails
    PROVE  Cleaning'
<1>t. /\ d \in [Updates -> DStates] /\ gate \in [cmd : Commands, pc : GateSteps]
      /\ cleaner \in [running : BOOLEAN, bits : SUBSET {"STOP", "STOPPED"}, late : BOOLEAN]
      /\ c.pc \in {"walk", "decide"} => c \in Lookup
      /\ CleanupOK
    BY DEF SyncInv, Shape, DownloaderOK, CleanupOK, GateOK
<1>q. gate.pc \notin {"idle", "stop", "wait"} => \A k \in Updates : d[k] = "none"
    BY DEF SyncInv, Life, Quiescent
<1>1. ASSUME UNCHANGED <<cleaner, c, timer, d>>,
             gate'.pc \in {"quietw", "wipe", "ota"} => gate.pc \in {"quietw", "wipe", "ota"},
             gate'.pc \in {"wipe", "ota"} => gate.pc \in {"wipe", "ota"}
      PROVE  Cleaning'
    BY <1>1 DEF Cleaning
<1>2. CASE UpdateArrives \/ OtherArrives \/ SchedulerEnds \/ SchedulerFails
    <2>1. UNCHANGED <<cleaner, c, timer, d>>
        BY <1>2, Frames DEF dvars, cvars
    <2>2. gate' = gate \/ gate'.pc = "stop"
        BY <1>2, Frames DEF UpdateArrives, OtherArrives, gvars
    <2> QED BY <1>1, <2>1, <2>2
<1>3. CASE StopDownloader \/ AwaitDownloader
    <2>1. gate'.pc \in {"wait", "create", "deinit", "quiet"}
        <3>1. gate.cmd # "none"
            BY <1>3 DEF StopDownloader, AwaitDownloader, Steps, SyncInv, Shape, GateOK
        <3> QED BY <1>3, <1>t, <3>1 DEF StopDownloader, AwaitDownloader, Steps, Goes, AfterStop,
            Commands
    <2> QED BY <1>3, <1>1, <2>1 DEF StopDownloader, AwaitDownloader, cvars
<1>4. CASE CreateDownloader
    <2>1. \A k \in Updates : d'[k] \in {"none", "begin"}
        BY <1>4, <1>t, <1>q DEF CreateDownloader
    <2>2. c' = c /\ cleaner' = cleaner /\ timer' = timer /\ gate'.pc = "idle"
        BY <1>4 DEF CreateDownloader, cvars, Idle
    <2> QED BY <2>1, <2>2 DEF Cleaning, UsesCard
<1>5. CASE GateEndsScheduler \/ GateStopsPlayer \/ GateAwaitsScheduler
    BY <1>5, <1>1, <1>t DEF GateEndsScheduler, GateStopsPlayer, GateAwaitsScheduler, Steps, Goes,
        dvars,
        cvars
<1>6. CASE GateStopsCleanup
    <2>1. StopCleanup /\ d' = d
        BY <1>6 DEF GateStopsCleanup, dvars
    <2>2. /\ c' = c /\ timer' = "off"
          /\ ~cleaner'.late /\ (cleaner'.running <=> cleaner.running)
          /\ "STOPPED" \in cleaner'.bits <=> "STOPPED" \in cleaner.bits
        BY <1>t, <2>1, StopRequests
    <2>3. gate'.pc \in {"wipe", "ota"} => c.pc = "none"
        BY <1>6, <1>t DEF GateStopsCleanup, Goes, Cleaning
    <2>4. \A k \in Updates : d[k] = "none"
        BY <1>6, <1>q DEF GateStopsCleanup
    <2> QED BY <2>1, <2>2, <2>3, <2>4 DEF Cleaning, UsesCard
<1>7. CASE GateAwaitsCleanup
    <2>1. timer' = timer /\ timer = "off" /\ AwaitCleanup(Gate) /\ d' = d
        BY <1>7 DEF GateAwaitsCleanup, Steps, Cleaning, dvars
    <2>2. c.pc = "none" /\ c' = c /\ ~cleaner'.late /\ ~cleaner'.running
        BY <1>t, <2>1, AwaitedIsGone, WaiterNames
    <2> QED BY <2>1, <2>2 DEF Cleaning
<1>b. CASE GateBlocks
    BY <1>b, <1>1 DEF GateBlocks, BlockOnCleanup, dvars, gvars
<1>8. CASE WipeEntry \/ WipeEnds \/ UpdateFails
    BY <1>8, <1>1 DEF WipeEntry, WipeEnds, UpdateFails, Idle, dvars, gvars, cvars
<1>9. CASE Restart
    <2>1. /\ cleaner' = [running |-> FALSE, bits |-> {}, late |-> FALSE] /\ c'.pc = "none"
          /\ timer' \in {"off", "armed"} /\ gate'.pc = "idle" /\ \A k \in Updates : d'[k] = "none"
        BY <1>9 DEF Restart, NoTask, Idle
    <2>2. ~cleaner'.running /\ ~cleaner'.late
        BY <2>1
    <2> QED BY <2>1, <2>2 DEF Cleaning
<1>10. CASE TimerExpires \/ TimerStep
    <2>1. TimerStarts /\ timer = "armed"
        BY <1>10 DEF TimerExpires, TimerStep, TimerStarts, TimerStops, TimerAwaits, TimerBlocks,
            Cleaning
    <2>2. /\ gate.pc \notin {"quietw", "wipe", "ota"}
          /\ \A k \in Updates : d[k] \in {"none", "begin", "quiet1"}
        BY <2>1 DEF Cleaning
    <2>3. timer' = "off" /\ d' = d /\ gate' = gate /\ StartCleanup
        BY <2>1 DEF TimerStarts, dvars, gvars
    <2>4. /\ cleaner'.bits = {} /\ ~cleaner'.late
          /\ \/ c'.pc = "next" /\ cleaner'.running
             \/ c' = c /\ ~cleaner'.running
          /\ c.pc = "none"
        BY <1>t, <2>3, StartMakes
    <2> QED BY <2>2, <2>3, <2>4 DEF Cleaning, UsesCard
<1>11. CASE CleanStep
    <2>1. d' = d /\ gate' = gate /\ timer' = timer
        BY <1>11, Frames DEF dvars, gvars
    <2>2. CASE CleanNext \/ CleanWalk \/ CleanDecide
        <3>1. cleaner' = cleaner /\ c.pc # "none"
            BY <2>2 DEF CleanNext, CleanWalk, CleanDecide
        <3>2. c'.pc # "none"
            <4>1. CASE CleanNext \/ CleanDecide
                BY <4>1 DEF CleanNext, CleanDecide
            <4>2. CASE CleanWalk
                <5>1. c \in Lookup /\ c.pc = "walk"
                    BY <4>2, <1>t DEF CleanWalk
                <5> QED BY <4>2, <5>1 DEF CleanWalk, Lookup
            <4> QED BY <2>2, <4>1, <4>2
        <3> QED BY <2>1, <3>1, <3>2 DEF Cleaning
    <2>3. CASE CleanEnd
        <3>1. c'.pc = "none" /\ SignalEnd([cleaner EXCEPT !.running = FALSE])
            BY <2>3 DEF CleanEnd, NoTask
        <3>2. /\ [cleaner EXCEPT !.running = FALSE]
                    \in [running : BOOLEAN, bits : SUBSET {"STOP", "STOPPED"}, late : BOOLEAN]
              /\ ~[cleaner EXCEPT !.running = FALSE].running
              /\ ~[cleaner EXCEPT !.running = FALSE].late
            BY <1>t DEF Cleaning
        <3>3. ~cleaner'.running /\ ~cleaner'.late
            BY <1>t, <3>1, <3>2, SignalTyped
        <3> QED BY <2>1, <3>1, <3>3 DEF Cleaning
    <2>4. CASE CleanSignal
        BY <2>4 DEF CleanSignal, Cleaning
    <2> QED BY <1>11, <2>2, <2>3, <2>4 DEF CleanStep
<1> QED BY <1>2, <1>3, <1>4, <1>5, <1>6, <1>7, <1>b, <1>8, <1>9, <1>10, <1>11
        DEF GateWorks, GateStep, UpdateInstalled

\* A step of a downloader keeps Waits.
LEMMA WaitsDownloader ==
    ASSUME SyncInv, Cleaning, Waits, NEW k \in Updates, Works(k)
    PROVE  Waits'
<1>t. d \in [Updates -> DStates] /\ wait \in [Waiters -> WaitStates] /\ CleanupOK
    BY DEF SyncInv, Shape, DownloaderOK, CleanupOK
<1>g. gate' = gate /\ gate.pc # "quietw"
    BY Frames, DownloaderMoves DEF SyncInv, gvars, Life, Quiescent
<1>k. \A l \in Updates : l # k => d[l] = "none" /\ d'[l] = "none"
    BY DownloaderMoves DEF SyncInv, Life
<1>o. \A w \in Waiters : w # k => ~AtWait(w) /\ ~AtWait(w)' /\ wait[w] = "out"
    <2>1. \A w \in Waiters : w # k => ~AtWait(w) /\ ~AtWait(w)'
        BY <1>g, <1>k DEF AtWait
    <2> QED BY <2>1 DEF Waits
<1>n. d[k] # "wait1" => \A w \in Waiters : wait[w] = "out"
    BY <1>o, WaiterNames DEF Waits, AtWait
<1>1. CASE QuietFirst(k)
    <2>1. StopCleanup /\ d[k] = "quiet1"
        BY <1>1 DEF QuietFirst, Moves
    <2>2. /\ c' = c /\ wait' = wait
          /\ "STOPPED" \in cleaner'.bits <=> "STOPPED" \in cleaner.bits
        BY <1>t, <2>1, StopRequests
    <2>3. d'[k] = "wait1" => c.pc # "none"
        BY <1>1, <1>t DEF QuietFirst, Moves, Cleaning
    <2> QED BY <1>n, <1>o, <2>1, <2>2, <2>3, WaiterNames DEF Waits, AtWait
<1>2. CASE Quiet(k)
    <2>1. d[k] = "wait1" /\ d'[k] = "mkdir" /\ AwaitCleanup(k)
        BY <1>2, <1>t DEF Quiet, Moves, Cleaning
    <2>2. \A w \in Waiters : wait'[w] = "out"
        BY <1>t, <1>o, <2>1, WaiterNames DEF AwaitCleanup
    <2>3. \A w \in Waiters : ~AtWait(w)'
        BY <1>g, <1>o, <2>1, WaiterNames DEF AtWait
    <2> QED BY <2>2, <2>3 DEF Waits
<1>3. CASE Blocks(k)
    <2>1. d' = d /\ d[k] = "wait1" /\ BlockOnCleanup(k)
        BY <1>3 DEF Blocks, Cleaning, dvars
    <2>2. wait[k] = "out" /\ "STOPPED" \notin cleaner.bits /\ c' = c /\ cleaner' = cleaner
        BY <2>1 DEF BlockOnCleanup
    <2>3. c.pc # "none"
        BY <2>1, <2>2, WaiterNames DEF Waits, AtWait
    <2>4. \A w \in Waiters : wait'[w] = IF w = k THEN "blocked" ELSE "out"
        BY <1>t, <1>o, <2>1 DEF BlockOnCleanup
    <2>5. AtWait(k)'
        BY <2>1 DEF AtWait
    <2> QED BY <1>o, <2>2, <2>3, <2>4, <2>5 DEF Waits
<1>4. ASSUME wait' = wait, d[k] # "wait1", d'[k] # "wait1" PROVE Waits'
    <2>1. \A w \in Waiters : wait'[w] = "out"
        BY <1>n, <1>4
    <2>2. \A w \in Waiters : ~AtWait(w)'
        BY <1>g, <1>o, <1>4, WaiterNames DEF AtWait
    <2> QED BY <2>1, <2>2 DEF Waits
<1>5. CASE QuietAgain(k) \/ BeginCleanup(k)
    <2>1. d[k] # "wait1" /\ d'[k] # "wait1"
        BY <1>5, <1>t DEF QuietAgain, BeginCleanup, Moves
    <2>2. StopCleanup \/ StartCleanup
        BY <1>5 DEF QuietAgain, BeginCleanup
    <2>3. wait' = wait
        BY <1>t, <2>2, StopRequests, StartMakes
    <2> QED BY <1>4, <2>1, <2>3
<1>6. CASE Begin(k) \/ MakeDirectory(k) \/ OfflineEnds(k) \/ DownloadFails(k) \/ Downloaded(k)
    BY <1>6, <1>4, <1>t DEF Begin, MakeDirectory, OfflineEnds, DownloadFails, Downloaded, Moves, cvars
<1>s. CASE SkipFile(k) \/ FetchFile(k)
    BY <1>s, <1>4 DEF SkipFile, FetchFile, HasNext, cvars
<1>7. CASE EndScheduler(k) \/ PlayerStopped(k) \/ AwaitScheduler(k) \/ RemoveOld(k) \/ InstallNew(k)
    BY <1>7, <1>4, <1>t
       DEF EndScheduler, PlayerStopped, AwaitScheduler, RemoveOld, InstallNew, Moves, cvars
<1>8. CASE BeginScheduler(k) \/ Finish(k) \/ Acknowledge(k) \/ ClearRunning(k) \/ SignalStopped(k)
    BY <1>8, <1>4, <1>t
       DEF BeginScheduler, Finish, Acknowledge, ClearRunning, SignalStopped, Moves, cvars
<1> QED BY <1>1, <1>2, <1>3, <1>5, <1>6, <1>s, <1>7, <1>8 DEF Works, DownloaderStep, StopReturns

\* So does every other step: the end of the cleanup wakes whoever is blocked, and the
\* signal is still there for whoever is about to wait.
LEMMA WaitsOthers ==
    ASSUME ~LazyIdle, ~LateTimer, SyncInv, Cleaning, Waits,
           \/ UpdateArrives \/ OtherArrives \/ GateWorks \/ Restart \/ TimerExpires \/ TimerStep
           \/ CleanStep \/ SchedulerEnds \/ SchedulerFails
    PROVE  Waits'
<1>t. /\ d \in [Updates -> DStates] /\ gate \in [cmd : Commands, pc : GateSteps]
      /\ cleaner \in [running : BOOLEAN, bits : SUBSET {"STOP", "STOPPED"}, late : BOOLEAN]
      /\ wait \in [Waiters -> WaitStates]
      /\ gate.pc # "idle" => gate.cmd # "none"
      /\ c.pc \in {"walk", "decide"} => c \in Lookup
      /\ CleanupOK
    BY DEF SyncInv, Shape, DownloaderOK, CleanupOK, GateOK
<1>q. gate.pc \notin {"idle", "stop", "wait"} => \A k \in Updates : d[k] = "none"
    BY DEF SyncInv, Life, Quiescent
<1>o. gate.pc = "quietw" => \A w \in Waiters : w # Gate => ~AtWait(w) /\ wait[w] = "out"
    BY <1>q DEF Waits, AtWait
<1>n. gate.pc \notin {"idle", "stop", "wait", "quietw"} => \A w \in Waiters : wait[w] = "out"
    BY <1>q DEF Waits, AtWait
<1>1. ASSUME UNCHANGED <<cleaner, wait, c, d>>, gate'.pc = "quietw" <=> gate.pc = "quietw"
      PROVE  Waits'
    BY <1>1 DEF Waits, AtWait
<1>e. ASSUME wait' = wait, \A w \in Waiters : wait[w] = "out",
             \A k \in Updates : d'[k] # "wait1", gate'.pc # "quietw"
      PROVE  Waits'
    BY <1>e DEF Waits, AtWait
<1>2. CASE UpdateArrives \/ OtherArrives \/ SchedulerEnds \/ SchedulerFails
    <2>1. UNCHANGED <<cleaner, wait, c, d>>
        BY <1>2, Frames DEF dvars, cvars
    <2>2. gate' = gate \/ (gate = Idle /\ gate'.pc = "stop")
        BY <1>2, Frames DEF UpdateArrives, OtherArrives, gvars
    <2> QED BY <1>1, <2>1, <2>2 DEF Idle
<1>3. CASE StopDownloader \/ AwaitDownloader
    <2>1. gate'.pc # "quietw" /\ gate.pc # "quietw"
        BY <1>3, <1>t DEF StopDownloader, AwaitDownloader, Steps, Goes, AfterStop, Commands
    <2> QED BY <1>1, <1>3, <2>1 DEF StopDownloader, AwaitDownloader, cvars
<1>4. CASE CreateDownloader
    <2>1. gate'.pc = "idle" /\ wait' = wait /\ \A k \in Updates : d'[k] \in {"none", "begin"}
        BY <1>4, <1>t, <1>q DEF CreateDownloader, Idle, cvars
    <2>2. \A w \in Waiters : wait[w] = "out"
        BY <1>4, <1>n DEF CreateDownloader
    <2> QED BY <1>e, <2>1, <2>2
<1>5. CASE GateEndsScheduler \/ GateStopsPlayer \/ GateAwaitsScheduler
    BY <1>1, <1>5, <1>t DEF GateEndsScheduler, GateStopsPlayer, GateAwaitsScheduler, Steps, Goes,
        dvars,
        cvars
<1>6. CASE GateStopsCleanup
    <2>1. StopCleanup /\ d' = d /\ gate.pc = "quiet"
        BY <1>6 DEF GateStopsCleanup, dvars
    <2>2. c' = c /\ wait' = wait
        BY <1>t, <2>1, StopRequests
    <2>3. gate'.pc = "quietw" => c.pc # "none"
        BY <1>6, <1>t DEF GateStopsCleanup, Goes, AfterQuiet, Cleaning
    <2>4. \A w \in Waiters : wait'[w] = "out"
        BY <1>n, <2>1, <2>2
    <2>5. \A w \in Waiters : AtWait(w)' => c'.pc # "none"
        BY <1>q, <2>1, <2>2, <2>3 DEF AtWait
    <2> QED BY <2>4, <2>5 DEF Waits
<1>7. CASE GateAwaitsCleanup
    <2>1. AwaitCleanup(Gate) /\ gate.pc = "quietw" /\ gate'.pc # "quietw" /\ d' = d
        BY <1>7, <1>t DEF GateAwaitsCleanup, Steps, Goes, AfterQuiet, dvars
    <2>2. \A w \in Waiters : wait'[w] = "out"
        BY <1>t, <1>o, <2>1, WaiterNames DEF AwaitCleanup
    <2>3. \A w \in Waiters : ~AtWait(w)'
        BY <1>q, <2>1 DEF AtWait
    <2> QED BY <2>2, <2>3 DEF Waits
<1>b. CASE GateBlocks
    <2>1. d' = d /\ gate' = gate /\ gate.pc = "quietw" /\ BlockOnCleanup(Gate)
        BY <1>b DEF GateBlocks, dvars, gvars
    <2>2. wait[Gate] = "out" /\ "STOPPED" \notin cleaner.bits /\ c' = c /\ cleaner' = cleaner
        BY <2>1 DEF BlockOnCleanup
    <2>3. c.pc # "none"
        BY <2>1, <2>2, WaiterNames DEF Waits, AtWait
    <2>4. \A w \in Waiters : wait'[w] = IF w = Gate THEN "blocked" ELSE "out"
        BY <1>t, <1>o, <2>1 DEF BlockOnCleanup
    <2>5. AtWait(Gate)' /\ \A w \in Waiters : w # Gate => ~AtWait(w)'
        BY <1>o, <2>1 DEF AtWait
    <2> QED BY <2>2, <2>3, <2>4, <2>5 DEF Waits
<1>8. CASE WipeEntry \/ WipeEnds \/ UpdateFails
    BY <1>1, <1>8 DEF WipeEntry, WipeEnds, UpdateFails, Idle, dvars, gvars, cvars
<1>9. CASE Restart
    <2>1. /\ gate'.pc = "idle" /\ \A k \in Updates : d'[k] = "none"
          /\ \A w \in Waiters : wait'[w] = "out"
        BY <1>9 DEF Restart, Idle
    <2> QED BY <2>1 DEF Waits, AtWait
<1>10. CASE TimerExpires \/ TimerStep
    <2>1. TimerStarts /\ timer = "armed"
        BY <1>10 DEF TimerExpires, TimerStep, TimerStarts, TimerStops, TimerAwaits, TimerBlocks,
            Cleaning
    <2>2. /\ gate.pc # "quietw" /\ \A k \in Updates : d[k] # "wait1"
        BY <2>1 DEF Cleaning
    <2>3. d' = d /\ gate' = gate /\ StartCleanup
        BY <2>1 DEF TimerStarts, dvars, gvars
    <2>4. wait' = wait
        BY <1>t, <2>3, StartMakes
    <2>5. \A w \in Waiters : wait[w] = "out"
        BY <2>2 DEF Waits, AtWait
    <2> QED BY <1>e, <2>2, <2>3, <2>4, <2>5
<1>11. CASE CleanStep
    <2>1. d' = d /\ gate' = gate
        BY <1>11, Frames DEF dvars, gvars
    <2>2. CASE CleanNext \/ CleanWalk \/ CleanDecide
        <3>1. cleaner' = cleaner /\ wait' = wait /\ c.pc # "none"
            BY <2>2 DEF CleanNext, CleanWalk, CleanDecide
        <3>2. c'.pc # "none"
            <4>1. CASE CleanNext \/ CleanDecide
                BY <4>1 DEF CleanNext, CleanDecide
            <4>2. CASE CleanWalk
                <5>1. c \in Lookup /\ c.pc = "walk"
                    BY <4>2, <1>t DEF CleanWalk
                <5> QED BY <4>2, <5>1 DEF CleanWalk, Lookup
            <4> QED BY <2>2, <4>1, <4>2
        <3> QED BY <2>1, <3>1, <3>2 DEF Waits, AtWait
    <2>3. CASE CleanEnd
        <3> DEFINE cl == [cleaner EXCEPT !.running = FALSE]
        <3>1. c.pc # "none" /\ c'.pc = "none" /\ SignalEnd(cl)
            BY <2>3 DEF CleanEnd, NoTask
        <3>2. \A w \in Waiters : AtWait(w)' <=> AtWait(w)
            BY <2>1 DEF AtWait
        <3>3. \A v, w \in Waiters : AtWait(v) /\ AtWait(w) => v = w
            BY <1>q DEF AtWait, SyncInv, Life
        <3>4. CASE \E v \in Waiters : wait[v] = "blocked"
            <4>1. PICK v \in Waiters : wait[v] = "blocked"
                BY <3>4
            <4>2. \A w \in Waiters : wait'[w] = IF wait[w] = "blocked" THEN "woken" ELSE wait[w]
                BY <3>1, <3>4 DEF SignalEnd
            <4>3. AtWait(v) /\ \A w \in Waiters : w # v => ~AtWait(w)
                BY <3>3, <4>1 DEF Waits
            <4>4. \A w \in Waiters : wait'[w] # "blocked" /\ wait'[w] # "lost"
                BY <4>2 DEF Waits
            <4>5. \A w \in Waiters : wait'[w] # "out" => AtWait(w)
                BY <4>2 DEF Waits
            <4>6. \A w \in Waiters : AtWait(w) => wait'[w] = "woken"
                BY <4>1, <4>2, <4>3
            <4> QED BY <3>1, <3>2, <4>4, <4>5, <4>6 DEF Waits
        <3>5. CASE ~\E v \in Waiters : wait[v] = "blocked"
            <4>1. wait' = wait /\ cleaner' = [cl EXCEPT !.bits = @ \cup {"STOPPED"}]
                BY <3>1, <3>5 DEF SignalEnd
            <4>2. "STOPPED" \in cleaner'.bits
                BY <1>t, <4>1
            <4> QED BY <3>1, <3>2, <3>5, <4>1, <4>2 DEF Waits
        <3> QED BY <3>4, <3>5
    <2>4. CASE CleanSignal
        BY <2>4 DEF CleanSignal, Cleaning
    <2> QED BY <1>11, <2>2, <2>3, <2>4 DEF CleanStep
<1> QED BY <1>2, <1>3, <1>4, <1>5, <1>6, <1>7, <1>b, <1>8, <1>9, <1>10, <1>11
        DEF GateWorks, GateStep, UpdateInstalled

\* The walk of the cleanup task is not disturbed by the others: whoever changes the
\* playlist on the card has waited for the end of the task.
LEMMA WalkingStep ==
    ASSUME ~LazyIdle, ~LateTimer, SyncInv, Cleaning, Waits, Walking, Next
    PROVE  Walking'
<1>t. /\ cleaner \in [running : BOOLEAN, bits : SUBSET {"STOP", "STOPPED"}, late : BOOLEAN]
      /\ c.pc \in {"walk", "decide"} => c \in Lookup /\ c.list \in Updates /\ c.pos \in Nat
    BY DEF SyncInv, Shape, CleanupOK, Lookup
<1>1. ASSUME c' = c, playlist' = playlist, "STOP" \in cleaner.bits => "STOP" \in cleaner'.bits
      PROVE  Walking'
    BY <1>1 DEF Walking
<1>2. ASSUME c'.pc \in {"none", "next", "end"}
      PROVE  Walking'
    BY <1>2 DEF Walking
<1>s. ASSUME StopCleanup \/ \E w \in Waiters : AwaitCleanup(w) \/ BlockOnCleanup(w)
      PROVE  c' = c /\ ("STOP" \in cleaner.bits => "STOP" \in cleaner'.bits)
    BY <1>t, <1>s DEF StopCleanup, AwaitCleanup, BlockOnCleanup
<1>m. StartCleanup => c'.pc \in {"none", "next"}
    BY DEF StartCleanup
<1>3. ASSUME NEW k \in Updates, Works(k)
      PROVE  Walking'
    <2>1. CASE RemoveOld(k) \/ InstallNew(k)
        <3>1. c.pc = "none" /\ c' = c
            BY <2>1 DEF RemoveOld, InstallNew, Moves, Cleaning, UsesCard, cvars
        <3> QED BY <1>2, <3>1
    <2>2. CASE BeginCleanup(k)
        <3>1. ~cleaner.running
            BY <2>2 DEF BeginCleanup, Moves, Cleaning, UsesCard
        <3>2. StartCleanup
            BY <2>2, <3>1 DEF BeginCleanup, Moves, Cleaning
        <3> QED BY <1>2, <1>m, <3>2
    <2>3. CASE QuietFirst(k) \/ QuietAgain(k) \/ Quiet(k) \/ Blocks(k)
        BY <2>3, <1>1, <1>s, WaiterNames DEF QuietFirst, QuietAgain, Quiet, Blocks, card
    <2>4. CASE UNCHANGED <<playlist, cvars>>
        BY <2>4, <1>1 DEF cvars
    <2> QED BY <1>3, <2>1, <2>2, <2>3, <2>4 DEF Works, DownloaderStep, StopReturns, OfflineEnds,
        PlayerStopped, Blocks, dvars, Begin, MakeDirectory, SkipFile,
            FetchFile, DownloadFails, Downloaded, EndScheduler, AwaitScheduler, BeginScheduler,
            Finish, Acknowledge, ClearRunning, SignalStopped, card
<1>4. CASE UpdateArrives \/ OtherArrives \/ SchedulerEnds \/ SchedulerFails
    BY <1>4, <1>1, Frames DEF card, cvars
<1>5. CASE GateStopsCleanup \/ GateAwaitsCleanup \/ GateBlocks
    BY <1>5, <1>1, <1>s, WaiterNames DEF GateStopsCleanup, GateAwaitsCleanup, GateBlocks, card
<1>6. CASE WipeEntry
    <2>1. c.pc = "none" /\ c' = c
        BY <1>6 DEF WipeEntry, Cleaning, cvars
    <2> QED BY <1>2, <2>1
<1>7. CASE StopDownloader \/ AwaitDownloader \/ CreateDownloader \/ GateEndsScheduler
           \/ GateStopsPlayer \/ GateAwaitsScheduler \/ WipeEnds \/ UpdateFails
    BY <1>7, <1>1 DEF StopDownloader, AwaitDownloader, CreateDownloader, GateEndsScheduler,
        GateStopsPlayer, GateAwaitsScheduler, WipeEnds, UpdateFails, card, cvars
<1>8. CASE Restart
    BY <1>8, <1>2 DEF Restart, NoTask
<1>9. CASE TimerExpires \/ TimerStep
    BY <1>9, <1>2, <1>m DEF TimerExpires, TimerStep, TimerStarts, TimerStops, TimerAwaits,
        TimerBlocks,
        Cleaning
<1>10. CASE CleanNext
    <2>1. CASE c' = [pc |-> "end"]
        BY <2>1, <1>2
    <2>2. CASE \E f \in media \ c.seen :
                  c' = [pc |-> "walk", seen |-> c.seen \cup {f}, file |-> f, found |-> FALSE,
                        list |-> playlist, pos |-> 0]
        <3>1. c'.pc = "walk" /\ c'.list = playlist /\ c'.pos = 0 /\ playlist' = playlist
            BY <2>2, <1>10 DEF CleanNext, card
        <3>2. playlist \in Updates
            BY <2>2, <1>10, SyncAssumption DEF CleanNext, SyncInv, Shape, CardOK, Updates
        <3>3. Len(Playlist[playlist]) \in Nat
            BY <3>2, PlaylistTypes
        <3> QED BY <3>1, <3>3 DEF Walking
    <2> QED BY <1>10, <2>1, <2>2 DEF CleanNext
<1>11. CASE CleanWalk
    <2>1. /\ c.pc = "walk" /\ c \in Lookup /\ c.list \in Updates /\ c.pos \in Nat
          /\ c.list = playlist /\ c.pos <= Len(Playlist[c.list])
          /\ \A i \in 1..c.pos : Playlist[c.list][i] = c.file => c.found
          /\ playlist' = playlist /\ cleaner' = cleaner
        BY <1>11, <1>t DEF CleanWalk, Walking, card
    <2>2. Len(Playlist[c.list]) \in Nat /\ Tracks(c.list) = {Playlist[c.list][i] : i \in 1..Len(Playlist[c.list])}
        BY <2>1, PlaylistTypes
    <2>3. CASE c.pos = Len(Playlist[c.list]) \/ "STOP" \in cleaner.bits
        <3>1. c' = [c EXCEPT !.pc = "decide"]
            BY <1>11, <2>3 DEF CleanWalk
        <3>2. /\ c'.pc = "decide" /\ c'.list = c.list /\ c'.file = c.file /\ c'.found = c.found
            BY <2>1, <3>1 DEF Lookup
        <3>3. "STOP" \notin cleaner.bits => (c.file \in Tracks(c.list) => c.found)
            BY <2>1, <2>2, <2>3
        <3> QED BY <2>1, <3>2, <3>3 DEF Walking
    <2>4. CASE ~(c.pos = Len(Playlist[c.list]) \/ "STOP" \in cleaner.bits)
        <3>1. c' = [c EXCEPT !.pos = @ + 1,
                             !.found = @ \/ Playlist[c.list][c.pos + 1] = c.file]
            BY <1>11, <2>4 DEF CleanWalk
        <3>2. /\ c'.pc = "walk" /\ c'.list = c.list /\ c'.file = c.file /\ c'.pos = c.pos + 1
              /\ c'.found <=> (c.found \/ Playlist[c.list][c.pos + 1] = c.file)
            BY <2>1, <3>1 DEF Lookup
        <3>3. \A i \in 1..(c.pos + 1) : Playlist[c.list][i] = c.file => c'.found
            BY <2>1, <3>2
        <3> QED BY <2>1, <2>2, <2>4, <3>2, <3>3 DEF Walking
    <2> QED BY <2>3, <2>4
<1>12. CASE CleanDecide \/ CleanEnd
    BY <1>12, <1>2 DEF CleanDecide, CleanEnd, NoTask
<1>13. CASE CleanSignal
    BY <1>13 DEF CleanSignal, Cleaning
<1> QED BY <1>3, <1>4, <1>5, <1>6, <1>7, <1>8, <1>9, <1>10, <1>11, <1>12, <1>13
        DEF Next, Works, GateWorks, GateStep, UpdateInstalled, CleanStep

\* Every step keeps Fresh: an update has its own number, and its downloader is made once.
LEMMA FreshStep ==
    ASSUME SyncInv, Fresh, Next
    PROVE  Fresh'
<1>t. /\ d \in [Updates -> DStates] /\ done \in [Updates -> Nat]
      /\ gate \in [cmd : Commands, pc : GateSteps]
      /\ updates \in Nat /\ \A k \in Updates : k \in Nat
    BY SyncAssumption DEF SyncInv, Shape, DownloaderOK, GateOK, Updates
<1>1. ASSUME NEW k \in Updates, Works(k)
      PROVE  Fresh'
    <2>1. UNCHANGED gvars /\ d[k] # "none" /\ \A l \in Updates : l # k => d'[l] = d[l]
        BY <1>1, Frames, DownloaderMoves DEF SyncInv
    <2>2. /\ d'[k] \in {"begin", "quiet1", "wait1", "mkdir", "offline"} =>
                d[k] \in {"begin", "quiet1", "wait1", "mkdir", "offline"} /\ done' = done
          /\ \A l \in Updates : l # k => done'[l] = done[l]
        <3>1. CASE Begin(k) \/ QuietFirst(k) \/ QuietAgain(k) \/ Quiet(k) \/ Blocks(k)
            BY <3>1, <1>t DEF Begin, QuietFirst, QuietAgain, Quiet, Blocks, Moves, dvars
        <3>m. CASE MakeDirectory(k) \/ OfflineEnds(k) \/ PlayerStopped(k)
            BY <3>m, <1>t DEF MakeDirectory, OfflineEnds, PlayerStopped, Moves
        <3>2. CASE SkipFile(k) \/ FetchFile(k)
            BY <3>2, <1>t DEF SkipFile, FetchFile, HasNext, Advance
        <3>3. CASE DownloadFails(k) \/ Downloaded(k) \/ EndScheduler(k) \/ AwaitScheduler(k)
            BY <3>3, <1>t DEF DownloadFails, Downloaded, EndScheduler, AwaitScheduler, Moves
        <3>4. CASE RemoveOld(k) \/ InstallNew(k) \/ BeginScheduler(k) \/ BeginCleanup(k)
            BY <3>4, <1>t DEF RemoveOld, InstallNew, BeginScheduler, BeginCleanup, Moves
        <3>5. CASE Finish(k) \/ Acknowledge(k) \/ ClearRunning(k) \/ SignalStopped(k)
            BY <3>5, <1>t DEF Finish, Acknowledge, ClearRunning, SignalStopped, Moves
        <3> QED BY <1>1, <3>1, <3>m, <3>2, <3>3, <3>4, <3>5 DEF Works, DownloaderStep, StopReturns
    <2>3. k <= updates /\ (gate.cmd = "update" => k < updates)
        BY <2>1 DEF Fresh
    <2> QED BY <1>t, <2>1, <2>2, <2>3 DEF Fresh, gvars
<1>2. CASE UpdateArrives
    <2>1. gate.cmd = "none" /\ gate'.cmd = "update" /\ updates' = updates + 1 /\ d' = d /\ done' = done
        BY <1>2 DEF UpdateArrives, Idle, dvars
    <2> QED BY <1>t, <2>1 DEF Fresh
<1>3. CASE OtherArrives
    <2>1. gate'.cmd # "update" /\ updates' = updates /\ d' = d /\ done' = done
        BY <1>3 DEF OtherArrives, dvars
    <2> QED BY <1>t, <2>1 DEF Fresh
<1>4. CASE CreateDownloader
    <2>1. gate.cmd = "update" /\ \A k \in Updates : d[k] = "none"
        BY <1>4 DEF CreateDownloader, SyncInv, Shape, GateOK, Life, Quiescent
    <2>2. /\ d' = [d EXCEPT ![updates] = "begin"] \/ d' = d
          /\ gate'.cmd = "none" /\ updates' = updates /\ done' = done
        BY <1>4 DEF CreateDownloader, Idle
    <2>3. \A k \in Updates : d'[k] = "none" \/ (k = updates /\ d'[k] = "begin")
        BY <1>t, <2>1, <2>2
    <2> QED BY <1>t, <2>1, <2>2, <2>3 DEF Fresh
<1>5. ASSUME d' = d, done' = done, updates' = updates, gate'.cmd = gate.cmd \/ gate'.cmd = "none"
      PROVE  Fresh'
    BY <1>5 DEF Fresh
<1>6. CASE StopDownloader \/ AwaitDownloader \/ GateEndsScheduler \/ GateStopsPlayer \/ GateAwaitsScheduler
           \/ GateStopsCleanup \/ GateAwaitsCleanup \/ GateBlocks
    BY <1>6, <1>5, <1>t DEF StopDownloader, AwaitDownloader, GateEndsScheduler, GateStopsPlayer,
        GateAwaitsScheduler,
        GateStopsCleanup, GateAwaitsCleanup, GateBlocks, Steps, Goes, dvars, gvars
<1>7. CASE WipeEntry \/ WipeEnds \/ UpdateFails
    BY <1>7, <1>5 DEF WipeEntry, WipeEnds, UpdateFails, Idle, dvars, gvars
<1>8. CASE Restart
    BY <1>8 DEF Restart, Fresh, Idle
<1>9. CASE TimerExpires \/ TimerStep \/ CleanStep \/ SchedulerEnds \/ SchedulerFails
    BY <1>9, <1>5, Frames DEF dvars, gvars
<1> QED BY <1>1, <1>2, <1>3, <1>4, <1>6, <1>7, <1>8, <1>9 DEF Next, Works, GateWorks, GateStep,
    UpdateInstalled

\* A step of a downloader keeps Complete.
LEMMA CompleteDownloader ==
    ASSUME CardInv, NEW k \in Updates, Works(k)
    PROVE  Complete'
<1> DEFINE Later == (UsesCard \ {"mkdir", "offline", "download"}) \cup {"finish"}
<1> DEFINE Installed == {"init", "clean", "cleanw", "cleaned", "finish", "ack"}
<1>t. /\ d \in [Updates -> DStates] /\ done \in [Updates -> Nat] /\ ok \in [Updates -> BOOLEAN]
      /\ done[k] <= Len(Playlist[k])
    BY DEF CardInv, SyncInv, Shape, DownloaderOK
<1>p. /\ Len(Playlist[k]) \in Nat
      /\ Tracks(k) = {Playlist[k][i] : i \in 1..Len(Playlist[k])}
    BY PlaylistTypes
<1>k. \A l \in Updates : l # k => d'[l] = "none"
    BY DownloaderMoves DEF CardInv, SyncInv, Life
<1>b. "STOP" \in bits' <=> "STOP" \in bits
    BY DownloaderMoves DEF CardInv, SyncInv
<1>c. ok[k] /\ k \notin damaged =>
        /\ d[k] = "download" => \A i \in 1..done[k] : Playlist[k][i] \in media
        /\ d[k] \in Later => "STOP" \in bits \/ Tracks(k) \subseteq media
        /\ d[k] = "ack" => Tracks(k) \subseteq media
        /\ d[k] \in Installed => playlist = k
    BY DEF CardInv, Complete
<1> SUFFICES ASSUME ok'[k], k \notin damaged'
             PROVE  /\ d'[k] = "download" => \A i \in 1..done'[k] : Playlist[k][i] \in media'
                    /\ d'[k] \in Later => "STOP" \in bits' \/ Tracks(k) \subseteq media'
                    /\ d'[k] = "ack" => Tracks(k) \subseteq media'
                    /\ d'[k] \in Installed => playlist' = k
    BY <1>k DEF Complete, UsesCard
<1>1. CASE Begin(k) \/ QuietFirst(k) \/ ClearRunning(k) \/ SignalStopped(k) \/ Acknowledge(k)
    BY <1>1, <1>t DEF Begin, QuietFirst, ClearRunning, SignalStopped, Acknowledge, Moves, UsesCard
<1>2. CASE Quiet(k) \/ Blocks(k) \/ QuietAgain(k) \/ EndScheduler(k) \/ PlayerStopped(k)
           \/ AwaitScheduler(k)
    <2>1. /\ UNCHANGED <<media, damaged, ok, playlist>>
          /\ d'[k] \notin {"download", "ack"} /\ (d'[k] \in Later => d[k] \in Later)
          /\ d'[k] \in Installed => d[k] \in Installed
        BY <1>2, <1>t DEF Quiet, Blocks, QuietAgain, EndScheduler, PlayerStopped, AwaitScheduler,
            Moves,
            UsesCard, card, dvars
    <2> QED BY <1>b, <1>c, <2>1
<1>m. CASE MakeDirectory(k) \/ DownloadFails(k)
    <2>1. d'[k] = "offline"
        BY <1>m, <1>t DEF MakeDirectory, DownloadFails, Moves
    <2> QED BY <2>1 DEF UsesCard
<1>3. CASE OfflineEnds(k)
    <2>1. d'[k] = "download" /\ d[k] = "offline" /\ done' = done
        BY <1>3, <1>t DEF OfflineEnds, Moves
    <2>2. done[k] = 0
        BY <2>1 DEF CardInv, Fresh
    <2> QED BY <2>1, <2>2 DEF UsesCard
<1>4. CASE SkipFile(k) \/ FetchFile(k)
    <2>1. /\ d' = d /\ d[k] = "download" /\ ok' = ok /\ k \notin damaged /\ done'[k] = done[k] + 1
          /\ media \subseteq media' /\ Playlist[k][done[k] + 1] \in media'
        BY <1>4, <1>t DEF SkipFile, FetchFile, HasNext, Advance, NextFile, card
    <2>2. \A i \in 1..(done[k] + 1) : i \in 1..done[k] \/ i = done[k] + 1
        BY <1>t
    <2> QED BY <1>c, <2>1, <2>2 DEF UsesCard
<1>5. CASE Downloaded(k)
    <2>1. /\ d[k] = "download" /\ d'[k] = "quiet2" /\ ok' = ok /\ damaged' = damaged /\ media' = media
          /\ done[k] = Len(Playlist[k]) \/ "STOP" \in bits
        BY <1>5, <1>t DEF Downloaded, Moves, is_stopping, card
    <2>2. "STOP" \in bits \/ Tracks(k) \subseteq media
        BY <1>c, <1>p, <2>1
    <2> QED BY <1>b, <2>1, <2>2
<1>6. CASE RemoveOld(k)
    <2>1. d[k] = "remove" /\ d'[k] = "rename" /\ UNCHANGED <<media, damaged, ok>>
        BY <1>6, <1>t DEF RemoveOld, Moves
    <2> QED BY <1>b, <1>c, <2>1 DEF UsesCard
<1>7. CASE InstallNew(k)
    <2>1. /\ d[k] = "rename" /\ d'[k] = "init" /\ UNCHANGED <<media, damaged, ok>> /\ playlist' = k
        BY <1>7, <1>t DEF InstallNew, Moves
    <2> QED BY <1>b, <1>c, <2>1 DEF UsesCard
<1>8. CASE BeginScheduler(k) \/ BeginCleanup(k)
    <2>1. /\ UNCHANGED <<media, damaged, ok, playlist>> /\ d[k] \in Later \cap Installed
          /\ d'[k] \in {"clean", "cleanw", "finish"}
        BY <1>8, <1>t DEF BeginScheduler, BeginCleanup, Moves, UsesCard, card
    <2> QED BY <1>b, <1>c, <2>1
<1>9. CASE Finish(k)
    <2>1. /\ UNCHANGED <<media, damaged, ok, playlist>> /\ d[k] = "finish"
          /\ d'[k] \in {"end", "ack"} /\ (d'[k] = "ack" => "STOP" \notin bits)
        BY <1>9, <1>t DEF Finish, Moves, is_stopping, card
    <2> QED BY <1>c, <2>1 DEF UsesCard
<1> QED BY <1>1, <1>2, <1>m, <1>3, <1>4, <1>5, <1>6, <1>7, <1>8, <1>9 DEF Works, DownloaderStep,
    StopReturns

\* So does every other step: the cleanup that runs by then finds what it looks for, and
\* the gate wipes the card only without a downloader.
LEMMA CompleteOthers ==
    ASSUME CardInv,
           \/ UpdateArrives \/ OtherArrives \/ GateWorks \/ Restart \/ TimerExpires \/ TimerStep
           \/ CleanStep \/ SchedulerEnds \/ SchedulerFails
    PROVE  Complete'
<1>t. d \in [Updates -> DStates]
    BY DEF CardInv, SyncInv, Shape, DownloaderOK
<1>q. gate.pc \notin {"idle", "stop", "wait"} => \A k \in Updates : d[k] = "none"
    BY DEF CardInv, SyncInv, Life, Quiescent
<1>n. ASSUME \A k \in Updates : d'[k] \in {"none", "begin"} PROVE Complete'
    BY <1>n DEF Complete, UsesCard
<1>1. ASSUME UNCHANGED <<playlist, d, done, ok, damaged>>, "STOP" \in bits => "STOP" \in bits',
             \A k \in Updates :
                ok[k] /\ k \notin damaged /\ d[k] # "none" => Tracks(k) \cap media \subseteq media',
             \A k \in Updates : d[k] = "download" => media' = media
      PROVE  Complete'
    BY <1>1 DEF CardInv, Complete, UsesCard
<1>2. CASE UpdateArrives \/ OtherArrives \/ SchedulerEnds \/ SchedulerFails \/ TimerExpires \/ TimerStep
    <2>1. UNCHANGED <<playlist, d, done, ok, bits, media, damaged>>
        BY <1>2, Frames DEF card, dvars, SchedulerEnds, SchedulerFails
    <2> QED BY <1>1, <2>1
<1>3. CASE StopDownloader
    BY <1>3, <1>1 DEF StopDownloader, card
<1>4. CASE AwaitDownloader
    <2>1. \A k \in Updates : d'[k] = "none"
        BY <1>4 DEF AwaitDownloader, CardInv, SyncInv, Life, Quiescent
    <2> QED BY <1>n, <2>1
<1>5. CASE CreateDownloader
    <2>1. \A k \in Updates : d'[k] \in {"none", "begin"}
        BY <1>5, <1>t, <1>q DEF CreateDownloader
    <2> QED BY <1>n, <2>1
<1>6. CASE GateEndsScheduler \/ GateStopsPlayer \/ GateAwaitsScheduler \/ GateStopsCleanup
           \/ GateAwaitsCleanup \/ GateBlocks
           \/ WipeEntry \/ WipeEnds \/ UpdateFails
    <2>1. d' = d /\ gate.pc \notin {"idle", "stop", "wait"}
        BY <1>6 DEF GateEndsScheduler, GateStopsPlayer, GateAwaitsScheduler, GateStopsCleanup,
            GateAwaitsCleanup, GateBlocks,
            GateStopsPlayer, Steps, WipeEntry, WipeEnds, UpdateFails, dvars
    <2> QED BY <1>n, <1>q, <2>1
<1>7. CASE Restart
    <2>1. \A k \in Updates : d'[k] = "none"
        BY <1>7 DEF Restart
    <2> QED BY <1>n, <2>1
<1>8. CASE CleanStep
    <2>1. UNCHANGED <<playlist, d, done, ok, damaged, bits>>
        BY <1>8, Frames DEF dvars
    <2>2. CASE media' = media
        BY <1>1, <2>1, <2>2
    <2>3. CASE media' # media
        <3>1. c.pc = "decide" /\ ~c.found /\ media' = media \ {c.file}
            BY <1>8, <2>3 DEF CleanStep, CleanNext, CleanWalk, CleanDecide, CleanEnd, CleanSignal,
                card
        <3>2. \A k \in Updates : d[k] \notin UsesCard
            BY <3>1 DEF CardInv, Cleaning
        <3>3. ASSUME NEW k \in Updates, ok[k], k \notin damaged, d[k] \in {"finish", "ack"}
              PROVE  c.file \notin Tracks(k)
            <4>1. "STOP" \notin cleaner.bits /\ c.list = playlist
                BY <3>1, <3>3 DEF CardInv, Cleaning, Walking
            <4>2. playlist = k
                BY <3>3 DEF CardInv, Complete
            <4> QED BY <3>1, <4>1, <4>2 DEF CardInv, Walking
        <3>4. \A k \in Updates : d[k] # "download"
            BY <3>2 DEF UsesCard
        <3>5. ASSUME NEW k \in Updates, ok[k], k \notin damaged
              PROVE  /\ d[k] \in (UsesCard \ {"mkdir", "offline", "download"}) \cup {"finish"} =>
                           "STOP" \in bits \/ Tracks(k) \subseteq media'
                     /\ d[k] = "ack" => Tracks(k) \subseteq media'
                     /\ d[k] \in {"init", "clean", "cleanw", "cleaned", "finish", "ack"} => playlist = k
            BY <3>1, <3>2, <3>3, <3>5 DEF CardInv, Complete
        <3> QED BY <2>1, <3>4, <3>5 DEF Complete
    <2> QED BY <2>2, <2>3
<1> QED BY <1>2, <1>3, <1>4, <1>5, <1>6, <1>7, <1>8 DEF GateWorks, GateStep, UpdateInstalled

\* The inductive invariant of downloader, cleanup and gate.
THEOREM CardInvariant ==
    ASSUME ~LateExit, ~LazyIdle, ~LateTimer
    PROVE  Spec => []CardInv
<1>1. Init => CardInv
    <2> SUFFICES ASSUME Init PROVE CardInv
        OBVIOUS
    <2>1. Cleaning /\ Waits
        BY DEF Init, Cleaning, Waits, AtWait, NoTask, Idle, UsesCard
    <2>2. Walking /\ Fresh
        BY DEF Init, Walking, Fresh, NoTask, Idle
    <2>3. Complete
        BY DEF Init, Complete, UsesCard
    <2> QED BY <2>1, <2>2, <2>3, SyncInvInit DEF CardInv
<1>2. CardInv /\ [Next]_vars => CardInv'
    <2> SUFFICES ASSUME CardInv, [Next]_vars PROVE CardInv'
        OBVIOUS
    <2>1. SyncInv'
        BY SyncInvStep DEF CardInv
    <2>2. CASE Next
        <3>1. Walking' /\ Fresh'
            BY <2>2, WalkingStep, FreshStep DEF CardInv
        <3>2. Cleaning' /\ Waits' /\ Complete'
            BY <2>2, CleaningDownloader, CleaningOthers, WaitsDownloader, WaitsOthers,
               CompleteDownloader, CompleteOthers
               DEF CardInv, Next, Works, GateWorks
        <3> QED BY <2>1, <3>1, <3>2 DEF CardInv
    <2>3. CASE UNCHANGED vars
        <3>1. Cleaning' /\ Waits' /\ Walking' /\ Fresh'
            BY <2>3 DEF vars, card, dvars, cvars, gvars, CardInv, Cleaning, Waits, AtWait,
                Walking, Fresh
        <3>2. Complete'
            BY <2>3 DEF vars, card, dvars, CardInv, Complete
        <3> QED BY <2>1, <3>1, <3>2 DEF CardInv
    <2> QED BY <2>2, <2>3
<1> QED BY <1>1, <1>2, PTL DEF Spec

\* No cleanup, that of the boot timer included, runs while a downloader, a wipe or a
\* firmware update uses the card, as long as the tasks are not held up at their ends nor
\* the timer task between the expiry and the start; otherwise TLC finds it refuted.
THEOREM CleanupStaysAway ==
    ASSUME ~LateExit, ~LazyIdle, ~LateTimer
    PROVE  Spec => []CleanupExcluded
<1>1. CardInv => CleanupExcluded
    BY DEF CardInv, SyncInv, Shape, DownloaderOK, DStates, Cleaning, UsesCard, CleanupExcluded
<1> QED BY <1>1, CardInvariant, PTL

\* A downloader that reports "files download complete" has its playlist on the card, and
\* every file of it that was renamed as it should: for all playlists, also those that share
\* or repeat files, over stop requests, cleanups, the boot timer, wipes and restarts at any
\* moment; with a timer task held up between expiry and start TLC finds it refuted.
THEOREM ReportsAreComplete ==
    ASSUME ~LateExit, ~LazyIdle, ~LateTimer
    PROVE  Spec => []AckMeansComplete
<1>1. CardInv => AckMeansComplete
    BY DEF CardInv, Complete, AckMeansComplete
<1> QED BY <1>1, CardInvariant, PTL

\* Unless it was told to stop, the cleanup task removes no file of the playlist that is
\* installed: what TLC finds against CleanupSparesPlaylist needs a stop request.
UnhurriedCleanupSpares ==
    [][c.pc = "decide" /\ playlist # 0 /\ "STOP" \notin cleaner.bits
          => (media \ media') \cap Tracks(playlist) = {}]_vars

\* The same, as a property of every step.
THEOREM OnlyAStopMakesCleanupErr ==
    ASSUME ~LateExit, ~LazyIdle, ~LateTimer
    PROVE  Spec => UnhurriedCleanupSpares
<1> DEFINE Spares == c.pc = "decide" /\ playlist # 0 /\ "STOP" \notin cleaner.bits
                        => (media \ media') \cap Tracks(playlist) = {}
<1>1. CardInv /\ [Next]_vars => [Spares]_vars
    <2> SUFFICES ASSUME CardInv, Next, c.pc = "decide", "STOP" \notin cleaner.bits
                 PROVE  (media \ media') \cap Tracks(playlist) = {}
        OBVIOUS
    <2>1. gate.pc # "wipe"
        BY DEF CardInv, Cleaning
    <2>2. CASE CleanDecide
        BY <2>2 DEF CleanDecide, CardInv, Walking
    <2>3. CASE media \subseteq media'
        BY <2>3
    <2>4. ASSUME NEW k \in Updates, Works(k)
          PROVE  media \subseteq media'
        BY <2>4 DEF Works, DownloaderStep, StopReturns, OfflineEnds, PlayerStopped, Blocks, dvars,
            Begin, QuietFirst, QuietAgain, Quiet,
            MakeDirectory, SkipFile, FetchFile, DownloadFails, Downloaded, EndScheduler,
            AwaitScheduler, RemoveOld, InstallNew, BeginScheduler, BeginCleanup, Finish,
            Acknowledge, ClearRunning, SignalStopped, card
    <2>5. CASE GateWorks \/ Restart
        BY <2>1, <2>3, <2>5 DEF GateWorks, GateStep, StopDownloader, AwaitDownloader,
            CreateDownloader,
            GateEndsScheduler, GateStopsPlayer, GateAwaitsScheduler, GateStopsCleanup,
            GateAwaitsCleanup, GateBlocks, WipeEntry,
            WipeEnds, UpdateInstalled, UpdateFails, Restart, card
    <2>6. CASE UpdateArrives \/ OtherArrives \/ TimerExpires \/ TimerStep \/ SchedulerEnds \/ SchedulerFails
        BY <2>3, <2>6, Frames DEF card
    <2>7. CASE CleanNext \/ CleanWalk \/ CleanEnd \/ CleanSignal
        BY <2>3, <2>7 DEF CleanNext, CleanWalk, CleanEnd, CleanSignal, card
    <2> QED BY <2>2, <2>3, <2>4, <2>5, <2>6, <2>7 DEF Next, Works, GateWorks, CleanStep
<1> QED BY <1>1, CardInvariant, PTL DEF Spec, UnhurriedCleanupSpares

-------------------------------------------------------------------------------
(* Waiting for a task that is gone.                                        *)

\* RUNNING_BIT is set by a downloader that is at work and has not cleared it; the gate waits
\* only as long as a downloader is there or has left its STOPPED_BIT.
Joined ==
    /\ "RUNNING" \in bits => \E k \in Updates : Busy(k)
    /\ gate.pc = "wait" => "STOPPED" \in bits \/ \E k \in Updates : d[k] # "none"

\* A downloader that goes leaves STOPPED_BIT, and RUNNING_BIT only if another has set it.
LEMMA DownloaderLeaves ==
    ASSUME Shape, NEW k \in Updates, Works(k)
    PROVE  /\ "STOPPED" \in bits \/ d'[k] = "none" => "STOPPED" \in bits'
           /\ "RUNNING" \in bits' => Busy(k)' \/ ("RUNNING" \in bits /\ ~Busy(k))
<1> USE DEF Shape, DownloaderOK, Moves, Busy
<1>1. CASE Begin(k)
    BY <1>1 DEF Begin
<1>2. CASE QuietFirst(k) \/ QuietAgain(k) \/ Quiet(k) \/ Blocks(k) \/ OfflineEnds(k)
    BY <1>2 DEF QuietFirst, QuietAgain, Quiet, Blocks, OfflineEnds, dvars
<1>3. CASE MakeDirectory(k) \/ DownloadFails(k) \/ Downloaded(k)
    BY <1>3 DEF MakeDirectory, DownloadFails, Downloaded
<1>4. CASE SkipFile(k) \/ FetchFile(k)
    BY <1>4 DEF SkipFile, FetchFile, HasNext
<1>5. CASE EndScheduler(k) \/ PlayerStopped(k) \/ AwaitScheduler(k) \/ RemoveOld(k) \/ InstallNew(k)
    BY <1>5 DEF EndScheduler, PlayerStopped, AwaitScheduler, RemoveOld, InstallNew
<1>6. CASE BeginScheduler(k) \/ BeginCleanup(k) \/ Finish(k) \/ Acknowledge(k)
    BY <1>6 DEF BeginScheduler, BeginCleanup, Finish, Acknowledge
<1>7. CASE ClearRunning(k) \/ SignalStopped(k)
    BY <1>7 DEF ClearRunning, SignalStopped
<1> QED BY <1>1, <1>2, <1>3, <1>4, <1>5, <1>6, <1>7 DEF Works, DownloaderStep, StopReturns

\* Every step keeps it, however the tasks are held up.
LEMMA JoinedStep == Shape /\ Joined /\ [Next]_vars => Joined'
<1> SUFFICES ASSUME Shape, Joined, [Next]_vars PROVE Joined'
    OBVIOUS
<1>t. gate \in [cmd : Commands, pc : GateSteps] /\ (gate.pc # "idle" => gate.cmd # "none")
    BY DEF Shape, GateOK
<1>1. ASSUME NEW k \in Updates, Works(k) PROVE Joined'
    <2>1. gate' = gate /\ d[k] # "none" /\ \A l \in Updates : l # k => d'[l] = d[l]
        BY <1>1, DownloaderMoves, Frames DEF gvars
    <2>2. /\ "STOPPED" \in bits \/ d'[k] = "none" => "STOPPED" \in bits'
          /\ "RUNNING" \in bits' => Busy(k)' \/ ("RUNNING" \in bits /\ ~Busy(k))
        BY <1>1, DownloaderLeaves
    <2>3. "RUNNING" \in bits' => \E l \in Updates : Busy(l)'
        <3> SUFFICES ASSUME "RUNNING" \in bits, ~Busy(k) PROVE \E l \in Updates : Busy(l)'
            BY <2>2
        <3>1. PICK l \in Updates : Busy(l)
            BY DEF Joined
        <3> QED BY <2>1, <3>1 DEF Busy
    <2>4. "STOPPED" \in bits' \/ d'[k] # "none"
        BY <2>2
    <2> QED BY <2>3, <2>4 DEF Joined
<1>2. ASSUME UNCHANGED d, bits' \subseteq bits, gate'.pc # "wait" PROVE Joined'
    BY <1>2 DEF Joined, Busy
<1>3. ASSUME UNCHANGED <<dvars, gate>> PROVE Joined'
    BY <1>3 DEF Joined, Busy, dvars
<1>4. CASE StopDownloader
    <2>1. CASE "RUNNING" \in bits
        <3>1. PICK k \in Updates : Busy(k)
            BY <2>1 DEF Joined
        <3>2. Busy(k)' /\ d'[k] # "none"
            BY <1>4, <3>1 DEF StopDownloader, Busy
        <3> QED BY <3>2 DEF Joined
    <2>2. CASE "RUNNING" \notin bits
        BY <1>2, <1>4, <1>t, <2>2 DEF StopDownloader, Goes, AfterStop, Commands
    <2> QED BY <2>1, <2>2
<1>5. CASE AwaitDownloader
    BY <1>2, <1>5, <1>t DEF AwaitDownloader, Steps, Goes, AfterStop, Commands
<1>6. CASE CreateDownloader \/ UpdateInstalled \/ Restart
    BY <1>6 DEF CreateDownloader, UpdateInstalled, Restart, Joined, Idle
<1>7. CASE GateEndsScheduler \/ GateStopsPlayer \/ GateAwaitsScheduler \/ GateStopsCleanup
           \/ GateAwaitsCleanup \/ GateBlocks
    BY <1>2, <1>7, <1>t
       DEF GateEndsScheduler, GateStopsPlayer, GateAwaitsScheduler, GateStopsCleanup,
           GateAwaitsCleanup, GateBlocks, Steps,
           Goes, AfterQuiet, dvars, gvars
<1>8. CASE WipeEntry \/ WipeEnds \/ UpdateFails \/ UpdateArrives \/ OtherArrives
    BY <1>2, <1>3, <1>8
       DEF WipeEntry, WipeEnds, UpdateFails, UpdateArrives, OtherArrives, Idle, dvars, gvars
<1>9. CASE TimerExpires \/ TimerStep \/ CleanStep \/ SchedulerEnds \/ SchedulerFails
    BY <1>3, <1>9, Frames DEF gvars
<1>10. CASE UNCHANGED vars
    BY <1>3, <1>10 DEF vars, gvars
<1> QED
    BY <1>1, <1>4, <1>5, <1>6, <1>7, <1>8, <1>9, <1>10 DEF Next, Works, GateWorks, GateStep

\* A stop of the downloader waits, without a limit, only for one that is there or has just
\* gone: however the tasks are held up, and also with two downloaders.
THEOREM StopHasDownloader ==
    Spec => [](gate.pc = "wait" => "STOPPED" \in bits \/ \E k \in Updates : d[k] # "none")
<1>1. Init => Joined
    BY DEF Init, Joined, Idle
<1>2. Joined => (gate.pc = "wait" => "STOPPED" \in bits \/ \E k \in Updates : d[k] # "none")
    BY DEF Joined
<1> QED BY <1>1, <1>2, ShapeInit, ShapeStep, JoinedStep, PTL DEF Spec

\* Nobody waits for a downloader or a cleanup that is gone, or on an event group of the
\* past, for any number of commands, stop requests and restarts, and with the cleanup of
\* the boot timer, as long as the tasks are not held up at their ends nor the timer task
\* between the expiry and the start.
THEOREM WaitsAreMet ==
    ASSUME ~LateExit, ~LazyIdle, ~LateTimer
    PROVE  Spec => []NoWaitInVain
<1>1. CardInv /\ (gate.pc = "wait" => "STOPPED" \in bits \/ \E k \in Updates : d[k] # "none")
         => NoWaitInVain
    <2> SUFFICES ASSUME CardInv, NEW w \in Waiting
                 PROVE  \/ wait[w] = "woken"
                        \/ wait[w] = "out" /\ "STOPPED" \in cleaner.bits
                        \/ wait[w] \in {"out", "blocked"} /\ c.pc # "none"
        BY DEF NoWaitInVain
    <2>1. timer # "stopping" /\ \A k \in Updates : d[k] \notin {"wait2", "cleanw"}
        BY DEF CardInv, Cleaning
    <2>2. AtWait(w) /\ w \in Waiters
        BY <2>1, WaiterNames DEF Waiting, AtWait
    <2>3. wait[w] \in WaitStates
        BY <2>2 DEF CardInv, SyncInv, Shape, CleanupOK
    <2> QED BY <2>2, <2>3 DEF CardInv, Waits, WaitStates
<1> QED BY <1>1, CardInvariant, StopHasDownloader, PTL

===============================================================================
