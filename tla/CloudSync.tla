------------------------------- MODULE CloudSync -------------------------------
(***************************************************************************)
(* firmware/main/playlist/cloud: downloader.c, cleanup_files.c and the      *)
(* start and stop of scheduler.c, driven by the gate task (update_playlist, *)
(* delete_playlist, delete_all_file, firmware_update_start) and by          *)
(* app_main.  The k-th update_playlist brings playlist k, and the k-th      *)
(* downloader task works on it.                                             *)
(***************************************************************************)
EXTENDS Naturals, Sequences, FiniteSets

CONSTANTS
    Files,        \* media file names
    Playlist,     \* the sequence of files of each playlist
    MaxUpdates,   \* bound: update_playlist commands
    MaxDeletes,   \* bound: delete and update_software commands
    MaxRestarts,  \* bound: restarts and power failures
    LateExit,     \* a downloader task may be held up before its last statement
    LazyIdle,     \* so may the cleanup task (idle priority)
    LateTimer     \* the timer task may be held up when the cleanup timer, set to
                  \* 5 minutes at boot, expires

Updates == 1..MaxUpdates
Waiters == 0..MaxUpdates + 1      \* the gate, the downloaders and the timer task
Gate == 0
TimerTask == MaxUpdates + 1
Tracks(k) == {Playlist[k][i] : i \in DOMAIN Playlist[k]}

ASSUME SyncAssumption ==
    /\ MaxUpdates \in Nat /\ MaxDeletes \in Nat /\ MaxRestarts \in Nat
    /\ Playlist \in [Updates -> Seq(Files)]
    /\ {LateExit, LazyIdle, LateTimer} \subseteq BOOLEAN

VARIABLES
    playlist,   \* card: the playlist installed, 0 if there is no file
    media,      \* card: the media files in the cloud directory
    damaged,    \* ghost: the playlists of which a downloaded file was not renamed
    bits,       \* downloader.c: the event group
    d,          \* the downloader tasks: next step
    done,       \* the downloader tasks: files of the playlist dealt with
    ok,         \* the downloader tasks: ok
    acked,      \* playlists reported as "files download complete"
    cleaner,    \* cleanup_files.c: thread_handle # NULL, the event group, and a task
                \* that is past its last use of thread_handle and still to signal
    wait,       \* the waiters of cleanup_files.c: not in xEventGroupWaitBits, blocked
                \* there, woken, or lost: blocked on a former event group
    c,          \* the cleanup task: next step and local variables
    timer,      \* cleanup_tmr
    sched,      \* scheduler.c: the scheduler task and its STOP_BIT
    gate,       \* the gate task: command and next step
    updates, deletes, restarts

card == <<playlist, media, damaged>>
dvars == <<bits, d, done, ok, acked>>
cvars == <<cleaner, wait, c, timer>>
gvars == <<gate, updates, deletes, restarts>>
vars == <<card, dvars, cvars, sched, gvars>>

NoTask == [pc |-> "none"]
Idle == [cmd |-> "none", pc |-> "idle"]

TypeOK ==
    /\ playlist \in 0..MaxUpdates /\ media \subseteq Files /\ damaged \subseteq Updates
    /\ bits \subseteq {"RUNNING", "STOP", "STOPPED"}
    /\ d \in [Updates -> {"none", "begin", "quiet1", "wait1", "mkdir", "offline", "download",
                          "quiet2", "wait2", "deinit", "hush", "deinitw", "remove", "rename",
                          "init", "clean", "cleanw", "cleaned", "finish", "ack", "end", "over"}]
    /\ \A k \in Updates : done[k] \in 0..Len(Playlist[k])
    /\ ok \in [Updates -> BOOLEAN] /\ acked \subseteq Updates
    /\ cleaner \in [running : BOOLEAN, bits : SUBSET {"STOP", "STOPPED"}, late : BOOLEAN]
    /\ wait \in [Waiters -> {"out", "blocked", "woken", "lost"}]
    /\ c.pc \in {"none", "next", "walk", "decide", "end"}
    /\ c.pc \in {"walk", "decide"} => c.file \in Files /\ c.list \in Updates /\ c.found \in BOOLEAN
    /\ timer \in {"off", "armed", "expired", "stopping", "starting"}
    /\ sched \in [task : BOOLEAN, stop : BOOLEAN]
    /\ gate.cmd \in {"none", "update", "delete", "firmware"}
    /\ gate.pc \in {"idle", "stop", "wait", "create", "deinit", "hush", "deinitw", "quiet", "quietw",
                    "wipe", "ota"}
    /\ updates \in 0..MaxUpdates /\ deletes \in 0..MaxDeletes /\ restarts \in 0..MaxRestarts

Init ==
    /\ playlist = 0 /\ media = {} /\ damaged = {}
    /\ bits = {} /\ d = [k \in Updates |-> "none"] /\ done = [k \in Updates |-> 0]
    /\ ok = [k \in Updates |-> TRUE] /\ acked = {}
    /\ cleaner = [running |-> FALSE, bits |-> {}, late |-> FALSE] /\ c = NoTask /\ timer = "off"
    /\ wait = [w \in Waiters |-> "out"]
    /\ sched = [task |-> FALSE, stop |-> FALSE]
    /\ gate = Idle /\ updates = 0 /\ deletes = 0 /\ restarts = 0

-------------------------------------------------------------------------------
(* cleanup_files.c                                                          *)

\* cloud_cleanup_files_stop up to the wait: the timer is stopped, a running task is
\* told to stop.
StopCleanup ==
    /\ timer' = IF timer = "armed" THEN "off" ELSE timer
    /\ cleaner' = IF cleaner.running THEN [cleaner EXCEPT !.bits = @ \cup {"STOP"}] ELSE cleaner
    /\ UNCHANGED <<wait, c>>

\* xEventGroupWaitBits: STOPPED_BIT is there and is taken, or it wakes the caller, and
\* all others that are blocked, when it is set ...
AwaitCleanup(w) ==
    /\ \/ /\ wait[w] = "out" /\ "STOPPED" \in cleaner.bits
          /\ cleaner' = [cleaner EXCEPT !.bits = @ \ {"STOPPED"}] /\ UNCHANGED wait
       \/ wait[w] = "woken" /\ wait' = [wait EXCEPT ![w] = "out"] /\ UNCHANGED cleaner
    /\ UNCHANGED c

\* ... on the event group on which it is blocked.
BlockOnCleanup(w) ==
    /\ wait[w] = "out" /\ "STOPPED" \notin cleaner.bits
    /\ wait' = [wait EXCEPT ![w] = "blocked"]
    /\ UNCHANGED <<cleaner, c, timer>>

\* xEventGroupSetBits, the rest of the module being in the state cl: STOPPED_BIT goes to
\* all that are blocked on the current event group, or it stays.
SignalEnd(cl) ==
    IF \E w \in Waiters : wait[w] = "blocked"
    THEN /\ wait' = [w \in Waiters |-> IF wait[w] = "blocked" THEN "woken" ELSE wait[w]]
         /\ cleaner' = cl
    ELSE cleaner' = [cl EXCEPT !.bits = @ \cup {"STOPPED"}] /\ UNCHANGED wait

\* cloud_cleanup_files_start(0) once no task runs: a new event group and, unless one of
\* them cannot be created, a new task; who is blocked on the old group stays there.
\* Left out: a second cleanup task beside one that did not end in the 50 ms of a stop.
StartCleanup ==
    /\ c.pc = "none"
    /\ \/ /\ cleaner' = [cleaner EXCEPT !.running = TRUE, !.bits = {}]
          /\ c' = [pc |-> "next", seen |-> {}]
       \/ cleaner' = [cleaner EXCEPT !.bits = {}] /\ UNCHANGED c
    /\ wait' = [w \in Waiters |-> IF wait[w] = "blocked" THEN "lost" ELSE wait[w]]

\* The timer task runs cleanup_tmr_callback, at once or when it gets to it; an
\* xTimerStop that comes meanwhile is only queued.
TimerExpires ==
    /\ LateTimer /\ timer = "armed" /\ timer' = "expired"
    /\ UNCHANGED <<card, dvars, cleaner, wait, c, sched, gvars>>

TimerStarts ==
    /\ \/ timer = "armed" /\ ~LateTimer
       \/ timer = "expired" /\ ~cleaner.running
       \/ timer = "starting"
    /\ StartCleanup /\ timer' = "off"
    /\ UNCHANGED <<card, dvars, sched, gvars>>

TimerStops ==
    /\ timer = "expired" /\ cleaner.running /\ timer' = "stopping"
    /\ cleaner' = [cleaner EXCEPT !.bits = @ \cup {"STOP"}]
    /\ UNCHANGED <<card, dvars, wait, c, sched, gvars>>

TimerAwaits ==
    /\ timer = "stopping" /\ timer' = "starting"
    /\ AwaitCleanup(TimerTask)
    /\ UNCHANGED <<card, dvars, sched, gvars>>

TimerBlocks ==
    /\ timer = "stopping" /\ BlockOnCleanup(TimerTask)
    /\ UNCHANGED <<card, dvars, sched, gvars>>

TimerStep == TimerStarts \/ TimerStops \/ TimerAwaits \/ TimerBlocks

\* doit: the next directory entry, and the playlist opened to look it up.
CleanNext ==
    /\ c.pc = "next"
    /\ \/ /\ "STOP" \in cleaner.bits \/ media \subseteq c.seen \/ playlist = 0
          /\ c' = [pc |-> "end"]
       \/ /\ "STOP" \notin cleaner.bits /\ playlist # 0
          /\ \E f \in media \ c.seen :
                c' = [pc |-> "walk", seen |-> c.seen \cup {f}, file |-> f, found |-> FALSE,
                      list |-> playlist, pos |-> 0]
    /\ UNCHANGED <<card, dvars, cleaner, wait, timer, sched, gvars>>

\* traverse_playlist with callback: a stop request ends the walk, and the result is
\* still true.
CleanWalk ==
    /\ c.pc = "walk"
    /\ c' = IF c.pos = Len(Playlist[c.list]) \/ "STOP" \in cleaner.bits
            THEN [c EXCEPT !.pc = "decide"]
            ELSE [c EXCEPT !.pos = @ + 1,
                           !.found = @ \/ Playlist[c.list][c.pos + 1] = c.file]
    /\ UNCHANGED <<card, dvars, cleaner, wait, timer, sched, gvars>>

CleanDecide ==
    /\ c.pc = "decide"
    /\ media' = IF c.found THEN media ELSE media \ {c.file}
    /\ c' = [pc |-> "next", seen |-> c.seen]
    /\ UNCHANGED <<playlist, damaged, dvars, cleaner, wait, timer, sched, gvars>>

\* thread: thread_handle = NULL, then STOPPED_BIT in whatever event group is current.
CleanEnd ==
    /\ c.pc = "end" /\ ~cleaner.late /\ c' = NoTask
    /\ IF LazyIdle
       THEN cleaner' = [cleaner EXCEPT !.running = FALSE, !.late = TRUE] /\ UNCHANGED wait
       ELSE SignalEnd([cleaner EXCEPT !.running = FALSE])
    /\ UNCHANGED <<card, dvars, timer, sched, gvars>>

CleanSignal ==
    /\ cleaner.late /\ SignalEnd([cleaner EXCEPT !.late = FALSE])
    /\ UNCHANGED <<card, dvars, c, timer, sched, gvars>>

CleanStep == CleanNext \/ CleanWalk \/ CleanDecide \/ CleanEnd \/ CleanSignal

-------------------------------------------------------------------------------
(* scheduler.c: cloud_scheduler_init, cloud_scheduler_deinit and the end of *)
(* scheduler_thread; what it plays in between is left out.                  *)

\* Without a playlist nothing is started; xTaskCreate may fail.
InitScheduler ==
    IF playlist = 0 THEN UNCHANGED sched
    ELSE \E created \in BOOLEAN : sched' = [task |-> created, stop |-> FALSE]

SchedulerEnds ==
    /\ sched.task /\ sched.stop
    /\ sched' = [sched EXCEPT !.task = FALSE]
    /\ UNCHANGED <<card, dvars, cvars, gvars>>

\* The playlist cannot be opened: the task ends by itself.
SchedulerFails ==
    /\ sched.task /\ ~sched.stop
    /\ sched' = [sched EXCEPT !.task = FALSE]
    /\ UNCHANGED <<card, dvars, cvars, gvars>>

-------------------------------------------------------------------------------
(* downloader.c: thread, for the k-th update.                               *)

Moves(k, from, to) == d[k] = from /\ d' = [d EXCEPT ![k] = to]
is_stopping == "STOP" \in bits

Begin(k) ==
    /\ Moves(k, "begin", "quiet1")
    /\ bits' = bits \cup {"RUNNING"}
    /\ UNCHANGED <<card, done, ok, acked, cvars, sched, gvars>>

\* cloud_cleanup_files_stop, before and after the downloads.
QuietFirst_Forgotten(k) ==
    /\ Moves(k, "quiet1", "mkdir")
    /\ UNCHANGED <<card, bits, done, ok, acked, cvars, sched, gvars>>

QuietFirst(k) ==
    /\ Moves(k, "quiet1", IF cleaner.running THEN "wait1" ELSE "mkdir")
    /\ StopCleanup
    /\ UNCHANGED <<card, bits, done, ok, acked, sched, gvars>>

QuietAgain(k) ==
    /\ Moves(k, "quiet2", IF cleaner.running THEN "wait2" ELSE "deinit")
    /\ StopCleanup
    /\ UNCHANGED <<card, bits, done, ok, acked, sched, gvars>>

Quiet(k) ==
    /\ Moves(k, "wait1", "mkdir") \/ Moves(k, "wait2", "deinit") \/ Moves(k, "cleanw", "cleaned")
    /\ AwaitCleanup(k)
    /\ UNCHANGED <<card, bits, done, ok, acked, timer, sched, gvars>>

Blocks(k) ==
    /\ d[k] \in {"wait1", "wait2", "cleanw"} /\ BlockOnCleanup(k)
    /\ UNCHANGED <<card, dvars, sched, gvars>>

\* No tempfile, or mkdir_p fails, or it works and offline_scheduler_deinit follows ...
MakeDirectory(k) ==
    /\ \/ Moves(k, "mkdir", "offline") /\ UNCHANGED ok
       \/ Moves(k, "mkdir", "finish") /\ ok' = [ok EXCEPT ![k] = FALSE]
    /\ UNCHANGED <<card, bits, done, acked, cvars, sched, gvars>>

\* ... which returns, if the player_stop in it does.
OfflineEnds(k) ==
    /\ Moves(k, "offline", "download")
    /\ UNCHANGED <<card, bits, done, ok, acked, cvars, sched, gvars>>

NextFile(k) == Playlist[k][done[k] + 1]
HasNext(k) == d[k] = "download" /\ done[k] < Len(Playlist[k])
Advance(k) == done' = [done EXCEPT ![k] = @ + 1]

\* download_file: the file exists.
SkipFile(k) ==
    /\ HasNext(k) /\ NextFile(k) \in media
    /\ Advance(k)
    /\ UNCHANGED <<card, bits, d, ok, acked, cvars, sched, gvars>>

\* download_file: downloaded, in as many attempts as it takes, and renamed; the
\* result of rename is not looked at.
FetchFile(k) ==
    /\ HasNext(k) /\ NextFile(k) \notin media /\ ~is_stopping
    /\ Advance(k)
    /\ \/ media' = media \cup {NextFile(k)} /\ UNCHANGED damaged
       \/ damaged' = damaged \cup {k} /\ UNCHANGED media
    /\ UNCHANGED <<playlist, bits, d, ok, acked, cvars, sched, gvars>>

\* DOWNLOAD_FILE_ERROR: told to stop during a download; also a parse error.
DownloadFails(k) ==
    /\ Moves(k, "download", "finish")
    /\ ok' = [ok EXCEPT ![k] = FALSE]
    /\ UNCHANGED <<card, bits, done, acked, cvars, sched, gvars>>

\* extract_and_download returns true: the playlist is at its end, or a stop request
\* was seen between two files.
Downloaded(k) ==
    /\ Moves(k, "download", "quiet2")
    /\ done[k] = Len(Playlist[k]) \/ is_stopping
    /\ UNCHANGED <<card, bits, done, ok, acked, cvars, sched, gvars>>

\* cloud_scheduler_deinit: without a task there is nothing to do; otherwise player_stop
\* is called first ...
EndScheduler(k) ==
    /\ Moves(k, "deinit", IF sched.task THEN "hush" ELSE "remove")
    /\ UNCHANGED <<card, bits, done, ok, acked, cvars, sched, gvars>>

\* ... and, if it returns, STOP_BIT is set.
PlayerStopped(k) ==
    /\ Moves(k, "hush", "deinitw")
    /\ sched' = [sched EXCEPT !.stop = TRUE]
    /\ UNCHANGED <<card, bits, done, ok, acked, cvars, gvars>>

AwaitScheduler_NoWait(k) ==
    /\ Moves(k, "deinitw", "remove")
    /\ UNCHANGED <<card, bits, done, ok, acked, cvars, sched, gvars>>

AwaitScheduler(k) ==
    /\ Moves(k, "deinitw", "remove") /\ ~sched.task
    /\ UNCHANGED <<card, bits, done, ok, acked, cvars, sched, gvars>>

\* remove, whose result is not looked at.
RemoveOld(k) ==
    /\ Moves(k, "remove", "rename")
    /\ playlist' \in {0, playlist}
    /\ UNCHANGED <<media, damaged, bits, done, ok, acked, cvars, sched, gvars>>

\* tempfile_rename; FAT renames nothing to the name of an existing file.
InstallNew(k) ==
    /\ Moves(k, "rename", "init")
    /\ \/ playlist = 0 /\ playlist' = k /\ UNCHANGED ok
       \/ ok' = [ok EXCEPT ![k] = FALSE] /\ UNCHANGED playlist
    /\ UNCHANGED <<media, damaged, bits, done, acked, cvars, sched, gvars>>

BeginScheduler(k) ==
    /\ Moves(k, "init", "clean")
    /\ InitScheduler
    /\ UNCHANGED <<card, bits, done, ok, acked, cvars, gvars>>

\* cloud_cleanup_files_start(0), which first stops a running cleanup.
BeginCleanup(k) ==
    /\ \/ Moves(k, "clean", "cleanw") /\ cleaner.running /\ StopCleanup
       \/ /\ \/ Moves(k, "clean", "finish") /\ ~cleaner.running
             \/ Moves(k, "cleaned", "finish")
          /\ StartCleanup /\ UNCHANGED timer
    /\ UNCHANGED <<card, bits, done, ok, acked, sched, gvars>>

\* A stopped download reports nothing.
Finish_AlwaysAcks(k) ==
    /\ Moves(k, "finish", "ack")
    /\ UNCHANGED <<card, bits, done, ok, acked, cvars, sched, gvars>>

Finish(k) ==
    /\ Moves(k, "finish", IF is_stopping THEN "end" ELSE "ack")
    /\ UNCHANGED <<card, bits, done, ok, acked, cvars, sched, gvars>>

Acknowledge(k) ==
    /\ Moves(k, "ack", "end")
    /\ acked' = IF ok[k] THEN acked \cup {k} ELSE acked
    /\ UNCHANGED <<card, bits, done, ok, cvars, sched, gvars>>

ClearRunning(k) ==
    /\ Moves(k, "end", "over")
    /\ bits' = bits \ {"RUNNING"}
    /\ UNCHANGED <<card, done, ok, acked, cvars, sched, gvars>>

SignalStopped_Forgotten(k) ==
    /\ Moves(k, "over", "none")
    /\ UNCHANGED <<card, bits, done, ok, acked, cvars, sched, gvars>>

SignalStopped(k) ==
    /\ Moves(k, "over", "none")
    /\ bits' = bits \cup {"STOPPED"}
    /\ UNCHANGED <<card, done, ok, acked, cvars, sched, gvars>>

DownloaderStep(k) ==
    \/ Begin(k) \/ QuietFirst(k) \/ QuietAgain(k) \/ Quiet(k) \/ Blocks(k) \/ MakeDirectory(k)
    \/ SkipFile(k) \/ FetchFile(k) \/ DownloadFails(k) \/ Downloaded(k)
    \/ EndScheduler(k) \/ AwaitScheduler(k) \/ RemoveOld(k) \/ InstallNew(k)
    \/ BeginScheduler(k) \/ BeginCleanup(k) \/ Finish(k) \/ Acknowledge(k)
    \/ ClearRunning(k) \/ SignalStopped(k)
StopReturns(k) == OfflineEnds(k) \/ PlayerStopped(k)

-------------------------------------------------------------------------------
(* The gate task.                                                           *)

Goes(pc) == gate' = [gate EXCEPT !.pc = pc]
Steps(from, to) == gate.pc = from /\ Goes(to)

UpdateArrives ==
    /\ gate = Idle /\ updates < MaxUpdates
    /\ updates' = updates + 1 /\ gate' = [cmd |-> "update", pc |-> "stop"]
    /\ UNCHANGED <<card, dvars, cvars, sched, deletes, restarts>>

\* delete_playlist and delete_all_file, or update_software.
OtherArrives ==
    /\ gate = Idle /\ deletes < MaxDeletes
    /\ deletes' = deletes + 1
    /\ \E cmd \in {"delete", "firmware"} : gate' = [cmd |-> cmd, pc |-> "stop"]
    /\ UNCHANGED <<card, dvars, cvars, sched, updates, restarts>>

AfterStop ==
    CASE gate.cmd = "update" -> "create" [] gate.cmd = "delete" -> "deinit"
      [] gate.cmd = "firmware" -> "quiet"

\* A command takes another HTTP request to arrive: by then a task just created has
\* begun, and one that clears RUNNING_BIT has set STOPPED_BIT, unless held up there.
Settled ==
    \A k \in Updates : d[k] # "begin" /\ (d[k] = "over" => LateExit)

\* cloud_downloader_stop up to the wait.
StopDownloader ==
    /\ gate.pc = "stop" /\ Settled
    /\ IF "RUNNING" \in bits THEN Goes("wait") /\ bits' = bits \cup {"STOP"}
                             ELSE Goes(AfterStop) /\ UNCHANGED bits
    /\ UNCHANGED <<card, d, done, ok, acked, cvars, sched, updates, deletes, restarts>>

AwaitDownloader_NoWait ==
    /\ Steps("wait", AfterStop)
    /\ bits' = bits \ {"STOPPED"}
    /\ UNCHANGED <<card, d, done, ok, acked, cvars, sched, updates, deletes, restarts>>

AwaitDownloader ==
    /\ Steps("wait", AfterStop) /\ "STOPPED" \in bits
    /\ bits' = bits \ {"STOPPED"}
    /\ UNCHANGED <<card, d, done, ok, acked, cvars, sched, updates, deletes, restarts>>

\* The rest of cloud_downloader_start; xTaskCreate may fail.
CreateDownloader ==
    /\ gate.pc = "create" /\ gate' = Idle
    /\ bits' = {}
    /\ d' = [d EXCEPT ![updates] = "begin"] \/ UNCHANGED d
    /\ UNCHANGED <<card, done, ok, acked, cvars, sched, updates, deletes, restarts>>

GateEndsScheduler ==
    /\ gate.pc = "deinit" /\ Goes(IF sched.task THEN "hush" ELSE "quiet")
    /\ UNCHANGED <<card, dvars, cvars, sched, updates, deletes, restarts>>

GateStopsPlayer ==
    /\ Steps("hush", "deinitw") /\ sched' = [sched EXCEPT !.stop = TRUE]
    /\ UNCHANGED <<card, dvars, cvars, updates, deletes, restarts>>

GateAwaitsScheduler ==
    /\ Steps("deinitw", "quiet") /\ ~sched.task
    /\ UNCHANGED <<card, dvars, cvars, sched, updates, deletes, restarts>>

AfterQuiet == IF gate.cmd = "delete" THEN "wipe" ELSE "ota"

GateStopsCleanup ==
    /\ gate.pc = "quiet" /\ Goes(IF cleaner.running THEN "quietw" ELSE AfterQuiet)
    /\ StopCleanup
    /\ UNCHANGED <<card, dvars, sched, updates, deletes, restarts>>

GateAwaitsCleanup ==
    /\ Steps("quietw", AfterQuiet) /\ AwaitCleanup(Gate)
    /\ UNCHANGED <<card, dvars, timer, sched, updates, deletes, restarts>>

GateBlocks ==
    /\ gate.pc = "quietw" /\ BlockOnCleanup(Gate)
    /\ UNCHANGED <<card, dvars, sched, gvars>>

\* remove_directory, entry by entry.
WipeEntry ==
    /\ gate.pc = "wipe"
    /\ \/ playlist # 0 /\ playlist' = 0 /\ UNCHANGED media
       \/ \E f \in media : media' = media \ {f} /\ UNCHANGED playlist
    /\ UNCHANGED <<damaged, dvars, cvars, sched, gvars>>

\* The directory is empty, or it or an entry could not be opened or removed.
WipeEnds ==
    /\ gate.pc = "wipe" /\ gate' = Idle
    /\ UNCHANGED <<card, dvars, cvars, sched, updates, deletes, restarts>>

\* esp_restart or a power failure, then app_main; the card stays.
Restart ==
    /\ restarts < MaxRestarts /\ restarts' = restarts + 1
    /\ bits' = {} /\ d' = [k \in Updates |-> "none"]
    /\ done' = [k \in Updates |-> 0] /\ ok' = [k \in Updates |-> TRUE]
    /\ cleaner' = [running |-> FALSE, bits |-> {}, late |-> FALSE] /\ c' = NoTask
    /\ wait' = [w \in Waiters |-> "out"]
    /\ timer' = IF playlist # 0 THEN "armed" ELSE "off"
    /\ \E created \in BOOLEAN : sched' = [task |-> created /\ playlist # 0, stop |-> FALSE]
    /\ gate' = Idle
    /\ UNCHANGED <<card, acked, updates, deletes>>

UpdateInstalled == gate.pc = "ota" /\ Restart

UpdateFails ==
    /\ gate.pc = "ota" /\ gate' = Idle
    /\ UNCHANGED <<card, dvars, cvars, sched, updates, deletes, restarts>>

GateStep ==
    \/ StopDownloader \/ AwaitDownloader \/ CreateDownloader \/ GateEndsScheduler
    \/ GateAwaitsScheduler \/ GateStopsCleanup \/ GateAwaitsCleanup \/ GateBlocks
    \/ WipeEntry \/ WipeEnds \/ UpdateInstalled \/ UpdateFails

Next ==
    \/ UpdateArrives \/ OtherArrives \/ GateStep \/ GateStopsPlayer \/ Restart
    \/ TimerExpires \/ TimerStep \/ CleanStep \/ SchedulerEnds \/ SchedulerFails
    \/ \E k \in Updates : DownloaderStep(k) \/ StopReturns(k)

Spec == Init /\ [][Next]_vars
\* Every task runs on; the server need not send commands, nor a download succeed, and
\* player_stop and player_start need not return: StopReturns, GateStopsPlayer and
\* SchedulerEnds are not fair (StopReturns of Player.tla).
FairSpec ==
    /\ Spec
    /\ WF_vars(GateStep) /\ WF_vars(TimerStep) /\ WF_vars(CleanStep)
    /\ \A k \in Updates : WF_vars(DownloaderStep(k))

-------------------------------------------------------------------------------

\* When the downloader reports "files download complete", its playlist is the one
\* on the card and every file of it is there: neither a stop request, nor the cleanup
\* of an earlier playlist or of the boot timer, nor a restart can make it report too
\* much, provided that no task is held up at its end (LateExit, LazyIdle), nor the
\* timer task between expiry and callback (LateTimer), and each file was renamed.
AckMeansComplete ==
    \A k \in Updates \ damaged :
        d[k] = "ack" /\ ok[k] => playlist = k /\ Tracks(k) \subseteq media

\* downloader.c:151 "files download complete": every file of the playlist is there,
\* whatever the card answers.  TLC refutes it: a rename that fails goes unnoticed.
ReportIsTrue ==
    \A k \in Updates : d[k] = "ack" /\ ok[k] => Tracks(k) \subseteq media

\* No cleanup runs between the first and the last use of the card by a downloader, nor
\* while the gate wipes the directory or installs firmware: whoever has stopped it goes
\* on when it is gone, which takes that the cleanup task is not held up before its last
\* statement (LazyIdle) nor the timer task before it starts one (LateTimer).
CleanupExcluded ==
    c.pc # "none" =>
        /\ gate.pc \notin {"wipe", "ota"}
        /\ \A k \in Updates :
              d[k] \in {"none", "begin", "quiet1", "wait1", "clean", "cleanw", "finish",
                       "ack", "end", "over"}

AtWork == {k \in Updates : d[k] \notin {"none", "over"}}

\* Once cloud_downloader_stop has returned, the downloader is no longer at work, as
\* its closing delay is there to "ensure": there is never more than one, and none
\* while the gate goes on to delete the files or to install firmware.
StoppedMeansDead ==
    /\ Cardinality(AtWork) <= 1
    /\ gate.pc \in {"create", "wipe", "ota"} => AtWork = {}

\* The playlist file is never taken away from under a running scheduler task.
SchedulerHasPlaylist == sched.task => playlist # 0

\* The cleanup task removes non-playlist files only.
CleanupSparesPlaylist ==
    [][c.pc = "decide" /\ playlist # 0 => (media \ media') \cap Tracks(playlist) = {}]_vars

Waiting ==
    {k \in Updates : d[k] \in {"wait1", "wait2", "cleanw"}}
        \cup (IF gate.pc = "quietw" THEN {Gate} ELSE {})
        \cup (IF timer = "stopping" THEN {TimerTask} ELSE {})

\* Nobody waits for a task that is gone: while the gate waits for the downloader, and
\* anybody for the cleanup, the task is there or its STOPPED_BIT is, which neither another
\* waiting task nor the event group of a new start has taken away.
NoWaitInVain ==
    /\ gate.pc = "wait" => "STOPPED" \in bits \/ \E k \in Updates : d[k] # "none"
    /\ \A w \in Waiting :
          \/ wait[w] = "woken"
          \/ wait[w] = "out" /\ "STOPPED" \in cleaner.bits
          \/ wait[w] \in {"out", "blocked"} /\ (cleaner.late \/ c.pc # "none")

\* No stop waits for ever: a command that stops the download, the scheduler and the
\* cleanup is carried out to its end, unless a call of player_stop on its way, or the
\* player_start of the scheduler, never returns.
CommandEnds ==
    \/ \E k \in Updates : <>[](d[k] \in {"offline", "hush"})
    \/ <>[](gate.pc = "hush")
    \/ <>[](sched.task /\ sched.stop)
    \/ (gate # Idle) ~> (gate = Idle)

===============================================================================
