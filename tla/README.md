# TLA+ models of the rmpd player firmware

`firmware/main` is the program of a network audio player: an ESP32 (two cores,
FreeRTOS) with an SD card, a VS1011 decoder chip, a small web server and an HTTP
connection to a control server. It plays the files and radio streams on the card,
or a playlist that the server sends. The code is about 6700 lines of C in some
twenty tasks, timers and callbacks that share event groups, one-slot queues, binary
semaphores and a card. This directory models the parts in which those tasks meet,
checks them with TLC and proves their safety properties, for instances of any size, with
TLAPS. The mapped lines are just under half of the C code in `firmware/main`; the rest of the repository, ESP-IDF above all,
is vendored and not part of the model.

Paths below are relative to `src/firmware/main`.

## The system

| Component | State it keeps | Operations | Talks to |
|---|---|---|---|
| Player (`audio/player.c`) | state, now_playing, two one-slot queues, an event group (STATE_CHANGED, PLAYER_STOP, PLAYER_STOPPED) | player_start (blocks until the play is over), player_stop (from any task), the player task | schedulers call it; reads through Read-ahead or Stream input; tells `remote/control.c` what is playing |
| Read-ahead (`util/read_ahead.c`) | one buffer, semaphore, mutex, a task per block | init, next, deinit | player task |
| Decoder driver (`audio/vs1011.c`) | registers, DREQ semaphore, mutex | play loop, volume, tone | player task, web task, interrupt |
| Stream input (`audio/stream.c`) | socket, ring buffer, event group, a task | start, read, stop | player task, probe task |
| Offline scheduler (`playlist/offline/`) | current, next, total, a mutex, stop_flag | the walk over the card, next / prev / random, deinit | player, stream scheduler, web server, downloader |
| Stream scheduler (`playlist/stream_scheduler.c`) | known and dead streams, a semaphore, the probe task | add, mark_dead, mark_alive, force_probe | offline scheduler, player's error callback |
| Cloud scheduler (`playlist/cloud/scheduler.c`, `advertising.c`, `traverse.c`) | event group, override queue, advertising timer | init, deinit, play the playlist, interrupt it | downloader, gate, player |
| Downloader (`playlist/cloud/downloader.c`) | event group (RUNNING, STOP, STOPPED), a task | start, stop, fetch files, install the playlist | gate, cleanup, cloud scheduler, file download |
| Cleanup (`playlist/cloud/cleanup_files.c`) | thread handle, event group, timer | start, stop, remove files | downloader, gate |
| File download (`remote/file_download.c`) | one buffer, two semaphores, stop_flag | HTTP callback, writer task | downloader |
| Gate (`remote/gate.c`, `queue.c`, `control.c`, `commands/`) | message queue, retries, callbacks | post, retry, execute the answer | server; every task puts messages |
| Firmware update (`system/firmware_update.c`) | sequence number in flash | update, confirm after the restart | gate, downloader, cleanup |
| Web server, Wi-Fi, clock, configuration, status, helpers | little or none | | |

What is hard here: an unnumbered message, result or event bit that arrives late and
is taken for somebody else's; a state read before a lock or a bit cleared after a
check; tasks that wait for each other while holding a mutex; a task told to stop that
reports it has stopped a moment too early or too late; hand-over of a single buffer
between two tasks; repeated downloads, lost answers, restarts in the middle of an
update. `hazards` in `PROJECT.json` lists them with their lines.

What makes each part correct:

* Player: one play at a time, its own result, no dangling or leaked file name, a stop
  request that neither outlives its caller nor is mistaken for a broken stream.
* Read-ahead, stream input, file download: data once, in order, nothing missing in the
  middle (a file whole; of a stream, what is still in the ring buffer at its end is
  dropped); no task outlives the buffer it works on; no task waits for ever.
* Decoder driver: the chip gets data and commands only when it asks for them, from two
  tasks and with a semaphore that may hold an old token; a play leaves it ready for the
  next format.
* Schedulers: every file gets its turn, next does not skip two, dead streams are
  probed again, a shutdown gets through.
* Cloud scheduler: a playlist is played as the server wrote it; advertising neither
  starves it nor gets lost; a stopped scheduler is silent and keeps no freed track.
* Downloader, cleanup, cloud scheduler: never two at once, none while files are
  deleted, nothing reported complete that is not, no stop that waits for ever.
* Gate: order of messages, no acknowledgement without the deed, the sequence number
  of an update survives until the server has it.

## Modules

An action is one step that FreeRTOS makes atomic: an event group, queue or semaphore
call, one critical section, or a run of statements that touch no shared state. Any two
tasks interleave between steps (two cores). Names follow the source; `map` in
`PROJECT.json` gives the lines of each definition. A definition such as
`StopClear_Forgotten` is a mutant: the definition after it with a plausible mistake,
never used by the specification. `TypeOK`, or the comment at each variable, gives its
range.

### Player, PlayService, PlayerProofs

`Player` has the player task (`ppc`, one value per step of `player_thread`,
`play_file`, `play_stream`), the callers of `player_stop` (`pc[t]`), the one caller of
`player_start` (`Starter`), the remote control task that reports `now_playing`, and the
probe semaphore that the error callback gives. A file name is the heap block that
holds it, so that freeing and dangling pointers are visible; `player_message_t` is a
record of block, kind (file or stream) and callback. Opening, reading and stream
errors are nondeterministic. `wait_for_state` keeps its steps (check, clear, wait,
check again), because its faults lie between them. `heard` and `over` are history
variables. Left out: position fields, volume and tone. A `read_ahead_init` without memory
returns NULL, which `read_ahead_next` dereferences (`ReadAhead.Init`); the restart of the device
that follows is not modelled here.

The player can hang for good, and nothing below assumes that it does not.
`player_start` finds the state PLAYING (`audio/player.c:71-73`), because the last play has
been answered but not yet set to STOPPED (`:248`), and enters `player_stop`. Its
`wait_for_state` looks at the state (`:379`, still PLAYING), then the player sets STOPPED and
signals it, and then `wait_for_state` clears that very signal (`:382`) and waits for the
next one. There is none: only `player_start` could bring it about. A task other than the
scheduler gets into the same wait and stays until a later play gives a signal; the web server
holds the scheduler's mutex meanwhile, so that there is no later play. `StopReturns` says
that this is one of two ways in which a call of `player_stop` fails to return (`EndsUnseen`).
The other is that the play it should end goes on (`PlaysOn`): an endless stream whose
request was withdrawn, by another caller's return or by `player_start`; a stream that is retried
for ever and cannot be started, since the request is looked at only while data is
read; and a player task that is lost in `read_ahead_next`, which waits for ever for a block when
the read-ahead task could not be started (`util/read_ahead.c:68`). That last one (`ReadStarves`)
is also the exception of `FilePlayEnds`. The schedulers' modules take over all of this: no
call of player_start or player_stop is fair there.

`PlayService` is what a scheduler relies on: a name is accepted, shown, hidden,
answered, one at a time. `ImplementsService` maps `Player` to it: the stage of the
request is read off the queues and the player task, the name shown is `now_playing`.

### StreamScheduler, OfflineScheduler, OfflinePlayback and their proofs

`StreamScheduler` holds the two lists (arrays of 16-bit indexes, 65535 for an empty
slot, no check for duplicates, as in the code) and the probe task; `OfflineScheduler`
extends it with the scheduler task, the buttons and the shutdown. A media file is its
index in the walk of `recurse_dir`. `random_next` is any index the function can
return. The player is reduced to: a play may end, a stop request may get lost (as
`playback_skip` shows it can), and neither `player_start` nor `player_stop` need ever return.
So the liveness properties except the two hangs by name: `StartHangs`, the scheduler inside
`player_start`, and `ButtonHangs`, the web server inside `player_stop` with `state.mutex`
held (`playlist/offline/scheduler.c:88`). A failing `stream_scheduler_init` leaves `initialized`
FALSE, a failing `stream_scheduler_start` leaves no probe task; the offline scheduler logs both
and goes on (`:144-146`). `ErrorForcesProbe` is about a probe task that exists and is past its
wait for the network; with a failed init it faults on a null path (`ProbeFaults`). The model ends the scheduler where the
code deletes the mutex that the web task may hold. `PressPrev` keeps the 16-bit
arithmetic: prev pressed before the first scan has counted the files stores 65535 in
`state.next`, which the walk never reaches, so nothing is played until another button is
pressed; the rotation of `EveryFilePlayed` is therefore claimed only without prev.

With exactly two files `NextFollowsCurrent` has an exception, which the proof brought to
light (the run has four files): if next is pressed between the task's unlocked look at the
first file (`playlist/offline/scheduler.c:189`) and its lock (`:192`), `state.next` is
already the last file when the task tests it for the end, and wraps to 0: the first file
plays twice. `Total = 2` and `Streams = {1}` in `offline.cfg` show the trace.

`OfflinePlayback` composes the buttons with the whole of `Player`: the scheduler's
mutex is held during `player_stop`, the scheduler needs it for the next track.

### ReadAhead, Stream, Vs1011, AudioPath, AudioPathProofs

One play, from the card or the network to the chip. `ReadAhead` is two tasks and one
buffer; blocks are numbered, so order, loss and repetition can be stated; a read and the
creation of the read task may fail; then the client waits for ever (`reader = "failed"`), and
`PathCloses` says so. `Stream` has the receiving task, the ring buffer,
EOS_BIT and STOP_BIT and the listener (`stream_start`, `stream_read`, `stream_stop`).
Data comes in numbered units and a chunk is any number of them up to `ChunkSize`. Every
time-out of five seconds may strike where its condition allows it. `stream_stop` keeps its
odd order: a byte is received and never given back, another is sent, and the room they
take up counts. The wait of `stream_start` ends at any fill level: it compares the free
size the wrong way round for its comment and returns true anyway.

`Vs1011` has the DREQ line, the interrupt that gives a binary semaphore, the bus mutex,
and `vs1011_play` statement by statement (`line`), each statement one bus operation. The
web server sets volume and tone meanwhile. A read of a register keeps only SM_OUTOFWAV,
the one bit the control flow depends on. The chip is external: it lowers DREQ after
anything it is sent, raises it later, and leaves its WAV mode when it likes.

`AudioPath` composes the three. `client`, `listener` and `line` are one task, the player,
so at each moment only one of them moves: `stream_start` before `vs1011_play`, the read
function at its "pull", `stream_stop` after it. Left out: what a reader of `ReadAhead`
does when the play ends under it, which is a use of freed memory (a hazard without a
property).

### Traverse, CloudScheduler, CloudSchedulerMC, CloudSchedulerProofs

`Traverse` is the way of a playlist from the server's message to a list of tracks, as
functions of JSON tokens: `ExtractPlaylist` (the brace counting of
`update_playlist.c:81-106`, which counts the bytes of strings as well: `Braced` gives the strings
that have braces in them and what these do to the count), `TraversePlaylist` (the parser of `traverse.c`, which keeps flags and
the last key but no structure), `AdvertisingTracks`, `AdvertisingNow`, and the dates as
numbers. The reference is `AsWritten`: a document is a list of tracks, `Message` encodes
it with the members of tracks and intervals in a given order, and the parser has to
give back the list. Recursion is by recursive functions. Documents are as the server
writes them (`IsDocument`): a background track has no intervals of its own, an advertising
track always has a list, which may be empty, and the orders name each member once. The braces in a
name match (`Even`): a name with a brace too many or too few ends the copy too early or too
late, and the track is lost; the instance has a name with a pair of them. No file
is called `schedule` or `schedule_intervals`: the parser takes these two words for keys
wherever they stand (`traverse.c:113-119`), also as a value.

`CloudScheduler` is the task that walks the tracks, the seconds timer and its callback,
the queue of one pointer between them, and the task that calls init and deinit. The
advertising tracks are heap blocks, told apart by a generation. The player is
`PlayService`, which `Player` implements; `player_stop` promises nothing, which is what `Player`
shows of it. `player_start` has a step of its own before the play ("asking"), in which it
stops a player it still finds playing, and from which it need not return. Only the
scheduler's own steps are fair, none of those of the player: `BackgroundPlayed` and `AdPlayed`
except a `player_start` that hangs (`StartHangs`). What they do promise is that the walk
and the override queue bring every track to a call of `player_start`. Two constants say how unkind the scheduling
may be:

* `LateExit`: the 50 ms that `cloud_scheduler_deinit` waits after STOPPED_BIT may be too
  short for the task to store `thread_handle = NULL`. Setting it refutes
  `StoppedIsSilent`: the late store hits the handle of the next task, deinit then finds no
  task to stop, and the music goes on.
* `SlowTimer`: the timer task may be held up in its callback over a restart. Setting it
  refutes `OverrideAlive`: the callback sends a track of the old list into the new queue.

`CloudSchedulerMC` gives the documents: two that are walked, and ten thousand in
all orders of members that are only parsed.

### FileDownload, FileDownloadProofs

Two tasks and one buffer again, with a failing write, a failing creation of the writer, a
connection that breaks off at any chunk, the loop of `download_file` that tries again, and a
request to stop the downloader at any moment (`Stop`; the callback then closes the
connection, `OnDataStopping`, and the file is removed). A chunk longer than the buffer is discarded, as in the
code; with the HTTP client's buffer of the same size there is none. The vendored HTTP client
returns success also for a body that the server cut off, so an attempt may be installed
with fewer chunks than the file has (`HttpEnds`); the properties speak of what was received.
Failures of fopen and malloc come before the first of these steps. It stops where the code would use freed memory (a writer still alive after the HTTP side
has returned); the hazards name the place.

### RemoteGate, RemoteGateProofs

The queue (`QUEUE_LENGTH`, the put never waits), the messages with sequence number,
retries and callback, the gate task, the commands of the server with effect and
acknowledgement, the firmware update with its sequence number in flash, `app_main`,
restarts (all but flash is lost, the queue included) and power failures. The bootloader's
rollback is enabled in the build configuration: a new image runs once on trial
(`trial`), `firmware_update_confirm` ends the trial, and after a restart that comes before it the
old image runs again (`Bootloader`, `undone`). `AckedWasExecuted` says that no acknowledgement
comes from a trial run. What it cannot say is that an acknowledged update runs
(`AckedUpdateRuns`): after a rollback the old firmware finds the number in flash, takes it for
that of an update gone well ("ack sucessful update", `system/firmware_update.c:58`) and acknowledges
it. TLC shows the trace in seconds with `INVARIANT AckedUpdateRuns` in `gate.cfg`. The server
is not in the repository: it answers a post with any command it has not seen
acknowledged, or none; a post or its answer may be lost.

### CloudSync, CloudSyncMC, CloudSyncProofs

The downloader tasks (`d[k]`, the k-th works on the k-th playlist), the cleanup task
and its boot timer, the cloud scheduler as far as starting and stopping it goes, and
the commands of the gate that stop them all (update and delete of the playlist, delete
of all files, firmware update), over a card that holds the playlist file and the media
files. Restarts keep the card and wipe temporary files. Tasks, event groups, directories, removals
and renames may fail where the code calls them; the code looks at few of the results. A
downloaded file that could not be renamed (`downloader.c:233`) is missing from a playlist that is
reported complete all the same: `damaged` marks that playlist, `AckMeansComplete` excepts it, and
TLC refutes `ReportIsTrue`, which does not. Steps that call `player_stop` or wait for a
`player_start` (`OfflineEnds`, `PlayerStopped`, `GateStopsPlayer`, `SchedulerEnds`) are not fair, and
`CommandEnds` excepts the commands stuck there.
A waiter of the cleanup is blocked on one event group; a new cleanup makes a new one, and
whoever is still blocked on the old one stays there (`lost`). The timers of the cloud scheduler
are not modelled here (`CloudScheduler` has them).

Three constants say how unkind the scheduling may be. The code itself relies on
timing: its comments call the delays after a stop a hack to "ensure" that the thread
has died.

* `LateExit`: a downloader may be held up between clearing RUNNING_BIT and setting
  STOPPED_BIT while the gate finishes one command, makes another HTTP round trip and
  starts the next.
* `LazyIdle`: the same for the cleanup task, which runs at idle priority.
* `LateTimer`: the timer task may be held up between the expiry of the cleanup timer and its
  callback. The timer itself, armed for five minutes at boot, expires at any
  time in every run.

With all three FALSE every property of the two passing runs holds; `cloud_races` shows what still holds with
`LazyIdle` and `LateTimer`. The code does not guarantee any of the three. Setting `LateExit` refutes
`StoppedMeansDead` (the late STOPPED_BIT of one downloader answers the stop of the next one).
Setting `LazyIdle` refutes `CleanupExcluded`: the late STOPPED_BIT of one cleanup arrives in the
event group of the next one, whose stop then returns at once
(`cleanup_files.c:106-107`). Setting `LateTimer` refutes `CleanupExcluded` and `AckMeansComplete`:
`cloud_cleanup_files_stop` finds the expired timer inactive and no task, the callback then starts a
cleanup beside the download, which removes the new files as the playlist still
installed does not name them. Change the value in `cloud.cfg` or `cloud_races.cfg` to see the
trace, each in less than ten seconds with `SPECIFICATION Spec`.

Check and creation in `TimerStarts`, and the last statements of the cloud scheduler
task, are one step each.

## Runs

Run with `tlc -config X.cfg M`. Times are for two workers.

| Run | Shows | Bounds |
|---|---|---|
| `player` | results, names, stop bits and reports never get mixed up (five invariants); implementation of `PlayService`; a file ends (`FilePlayEnds`); a standing stop request gets through (`BlockedStopReturns`); player_stop returns but for the ways named (`StopReturns`). 430 000 states, 150 s | one other caller of player_stop beside the scheduler, which itself stops a player it finds playing; two heap blocks, as the starter may allocate while the player task holds the last name; streams retried for ever (the limit on retries is in `playback`); a file of one block |
| `offline` | a probed stream is alive, next never skips two files, files rotate for ever, an error leads to a new probe, a shutdown gets through, each unless the player hangs. 460 000 states, 80 s | four media files, two of them streams, a dead list of two slots so that repeated errors fill it; all buttons, shutdown at any time |
| `playback` | a press cuts off only the track that was current when it was pressed. 30 s | as `player`, streams tried twice; tracks counted modulo 3 |
| `filedownload` | chunks in order, at most the last one lost, the download returns, stopped or not. 56 000 states | 4 chunks, 2 attempts, a stop at any time |
| `gate` | order of messages, no acknowledgement without the deed or from firmware on trial, the update's number kept in flash, a reboot obeyed, the gate never blocked. 1.9 million states, 90 s | every command, two firmware updates, a queue of two so that it overflows, 7 messages, 2 restarts |
| `cloud` | nothing reported complete that is not, no cleanup during a download, every command ends unless the player hangs. 1.1 million states, 160 s | two playlists, one delete or firmware update, one restart, after which the boot timer may expire: three stops in a row, enough for a left-over bit to be set, inherited and taken |
| `cloud_races` | no downloader after its stop, no scheduler without a playlist, with the timer task and the cleanup held up. 650 000 states, 10 s | as `cloud`, with a file in each playlist |
| `audio` | a file reaches the decoder whole and in order, of a stream everything up to the end of the play in order, nothing is used after it is deleted, the chip is fed only when it asks and is out of WAV mode in the end, every play ends unless memory fails. 1.3 million states, 100 s | a file of two blocks; five units in chunks of up to two and a ring buffer of two chunks, so that it fills and the sender times out; drain and flush loops of two and one, one setting meanwhile |
| `cloudplay` | every track is handed out as written; advertising starves no background track and is not lost on its way to player_start; over restarts no freed track is played and a stopped scheduler is silent. 110 000 states, 45 s | three starts; a playlist of five tracks with two advertisements and a missing file, and one of a single advertisement; three moments of the clock around the turn of a year; 10 400 documents of up to three tracks, one with braces in its name, for the parser |

Three runs show a disagreement between the code and what its comments say (`findings`
in `PROJECT.json`):

* `playback_skip`: a stop that comes between storing PLAYING and signalling it is
  woken by that signal, withdraws its request and returns false, which nobody looks
  at; an endless stream plays on. In the mirror image `player_stop` blocks for ever
  with the scheduler's mutex (`EndsUnseen`, above).
* `download_retry`: a second attempt appends to what the first left behind.
* `cloud_cleanup`: a cleanup that is stopped while it looks a file up removes it,
  although the playlist names it.

Three more faults have no run of their own; TLC shows the trace of each after a change to one
line, named under RemoteGate and CloudSync: a firmware update acknowledged after it was
rolled back, a playlist reported complete without a file that could not be renamed, and a cleanup
that meets a download because a task was held up. One more divergence needs no run: "play a
file if there are no alive streams" (`playlist/offline/scheduler.c:215`), while
`stream_scheduler_any_alive_streams` is true only if no stream is dead.

`CHECK_DEADLOCK FALSE` is set where the system may stop: a download or a play is over,
the scheduler has been shut down, or all commands and messages within the bounds are
used up. In the runs without that line the check says little, as some task can always take a step
(in the player runs the one of `remote/control.c`); that nobody waits for ever is the business of
the liveness properties and of the theorems on waiting below.

### Fairness

Weak fairness of each task's steps: FreeRTOS runs every ready task, the tasks in
question have equal or higher priority than idle, and there are two cores. Strong
fairness of the scheduler task where it waits for a mutex that the web task takes
again and again: FreeRTOS wakes the longest waiting task of the highest priority when
the mutex is given. HTTP requests end, by success or by their time-out. Nobody has to
press a button or send a command, a stream need not end, the network need not come
up, a download need not succeed. In `audio` the chip asks for data again after a while.

Outside `Player` itself no fairness is put on a call of `player_start` or `player_stop`, since
either may hang: not on `PlayEnds`, `WebStop` and `DeinitStop` in `offline`, not on `OfflineEnds`,
`PlayerStopped`, `GateStopsPlayer` and `SchedulerEnds` in `cloud`, not on the player, nor on
`AdStarts` and `TrackStarts`, in `cloudplay`. The liveness properties name the hang as an exception
instead, so that what remains to be shown is the schedulers' own part. In `cloudplay` only the
scheduler task is fair: nothing is assumed of the clock, the timer or the tasks that start and stop
the scheduler. In `player` the tasks that it notifies need not be fair. `BlockedStopReturns` is about one
stopping task: of two, the one that leaves first withdraws the request of the other.

## Proofs

`PlayerProofs` proves, for any set of stopping tasks, any set of heap blocks, any
number of retries and any file length, that each of `TypeOK`, `OneMessageInFlight`,
`ResultIsOwn`, `NamesAlive`, `NoLeak` (together `NamesAccounted`),
`StreamSuccessMeansStopped`, `StopTrueMeansEnded`, `StopHasCaller` and
`NowPlayingReported` is an invariant, and that `Spec` implements `PlayService`. `TypeOK`,
`OneMessageInFlight` and `StopHasCaller` (a standing request has a caller inside player_stop) are
proved and not checked by a run. It assumes only what `Player` states of its
constants: the scheduler is not one of the other tasks, NULL is not a heap block, the
two bounds are natural numbers.

The properties are not inductive. `IInv` adds

* `Flow`: while player_start waits, its message is in exactly one of the queue, the
  player task, the back queue, and that place holds its name. `OneMessageInFlight`
  and `ResultIsOwn` follow.
* `Names`: the heap holds the name being played and the one not yet handed over,
  which differ, and nothing else; `now_playing` is the first of them exactly during
  the steps at which it is shown. Needed because the player answers before it frees:
  the next name may be allocated meanwhile.
* `StateFollows`: state.state is PLAYING exactly during the steps between the two
  set_state calls.
* `StopBits`: PLAYER_STOPPED is clear from the moment player_start clears it until
  the player takes a stop request of this play. Rests on `Flow`: nobody can set it
  while the message is in the queue.
* `Outlived`: a caller inside player_stop when the player is STOPPED has seen its play
  end. Rests on `StateFollows`.

Each part has a lemma (`FlowStep`, ...) with a case for each action; `Inductive`
combines them. `ServiceStep` shows that under `IInv` each step of the player is a step
or a stutter of `PlayService`.

`IInv` was found with TLC's help: it is an invariant of the instance of run `player`, and
can be added to `player.cfg`. The proof covers what that instance leaves out, above all
several tasks inside player_stop at the same time.

`AudioPathProofs` proves `SentWhenReady`, `LeavesWav`, `StreamInOrder`,
`NothingAfterDelete`, `DeliveredInOrder`, `WholeFile` and `OneReader` of `PathSpec`, for
any length of file and stream, any size of chunk and ring buffer, any bounds of the
decoder's loops and any number of settings; it assumes only that the sizes are
natural numbers. The argument is by component. `PathStep`: a step of the path is, for each
of the three components, one of its own steps or a stutter. Each component then has an
inductive invariant over its own variables (`ReadAheadInv`, `StreamInv`, `DecoderInv`):

* `BlocksFlow` and `HandOver`: the block ahead is with the reader, in the buffer with the
  token, or with the client, and is the one that follows what was delivered; a zero means
  the end of the file or an error.
* `UnitsFlow`: until stream_stop begins, what was heard, the ring buffer and the task's
  hand together are the units received. After that only what was heard counts, as
  stream_stop writes a byte of its own into the buffer.
* `ObjectsFollow`: EOS_BIT is set only by a task that is past its last use of the objects,
  and never before a task exists; stream_stop deletes only after it.
* `TokenFresh`: while DREQ is low, a token can be left over only between a transfer and
  the wait after it. `SentWhenReady` is not inductive without it: an old token would
  satisfy the wait before a transfer.
* `WavTracked`: WAV mode is on only between the statement that asks for it and the last
  look at it, which sees it, and from there to the reset.

The other proof modules follow the same pattern: an inductive invariant, checked by TLC on
an instance first, one lemma or step for each action, and the properties as corollaries.

`OfflinePlaybackProofs` shows that a step of scheduler and buttons is a step of `Player` or
leaves it alone (`PlaybackUsesPlayer`), so that `IInv` holds there too, and proves
`StopHitsItsTrack`. While the player reads data, player_start waits for the result (`Flow`);
a PLAYER_STOP then has a caller (`StopHasCaller`), which can only be the web server's task,
and that task holds the scheduler's mutex from the press on (`Serving`), so `state.current` has
not moved. It assumes in addition that NULL is not a task.

`OfflineSchedulerProofs` proves, for up to 65535 files, any streams, lists of any size,
all buttons and a shutdown at any time:

* `TypeOK`: in particular `state.next` is never an index the program does not mean.
* `NextFollowsCurrent` for any number of files but two, and for two files that it may
  only fail by repeating the first. `Following` is what makes it inductive: the file that the task
  saw as next is still next when it has the mutex, or it is the first file and the
  button has stored 1 meanwhile. `Counted` says from which step on `total` is valid.
* `AliveMeansAlive`, from lemmas about the lists: `list_add` takes a free slot and so forgets
  no stream, `list_remove` clears every copy of its value and no other (`AddKeepsCopies`,
  `RemoveClears`).
* `RequestKept`, the safety part of `ErrorForcesProbe`: once the semaphore exists, a request stands
  as a token in it until a walk begins. That there is a probe task to take it is not proved: its
  creation may fail.

`RemoteGateProofs` proves `TypeOK`, `AckedWasExecuted`, `FirmwareSeqKept` and `OrderPreserved`, for
any commands, any number of messages, retries, restarts and any length of the queue.
`AckedWasExecuted` covers the trial runs of new firmware. `GateInv` adds where an acknowledgement may be on its way (in a queue, in the gate's hand),
each for a command that was carried out (`AcksTrue`); that a message which will erase the
number in flash is the acknowledgement with that number, over the restart that the update
itself causes (`SeqTracked`); and that the numbers of the messages sent, in hand and queued
ascend (`Ordered`); and that during a trial run, until the confirmation, no acknowledgement of
that update is on its way (`OnTrial`).

`FileDownloadProofs` proves `TypeOK`, `BufferStable` and `AtMostLastChunkLost`, for any number
of chunks and attempts and a stop at any time. There is one token for the buffer (`OneToken`), each side holds the
buffer only at certain steps (`Phases`), and the chunk in it is the one after those written
(`BufferFilled`, `Progress`). `NoMutualWait` rests on the same invariant and on `Waits`: the token
is there before the writer exists and after it is gone, and a writer that still sleeps when
the download waits for its end has been woken. `FirstAttemptIsWhole` bounds the finding of `download_retry`: it
needs a second attempt.

`CloudSyncProofs` proves `TypeOK` without conditions, and the rest under the negation of the
constants that make the scheduling unkind, since the code relies on its delays:

* Under `~LateExit`: `StoppedMeansDead` and `SchedulerHasPlaylist`, however the
  cleanup and its timer are held up. The invariant is `SyncInv`: there is one
  downloader at most, RUNNING_BIT is set while it is busy, and STOPPED_BIT stands for one
  that is gone (`Life`); the scheduler is stopped before its playlist is touched
  (`Scheduling`).
* Under `~LateExit`, `~LazyIdle` and `~LateTimer`, with a cleanup that the boot timer starts at
  any time: `CleanupExcluded` and `AckMeansComplete`. `CardInv`
  adds that the cleanup task is gone before anybody who stopped it uses the card
  (`Cleaning`), that its walk has found the file if the part read so far names it
  (`Walking`), that a downloader begins at the first file of a playlist nobody worked on
  (`Fresh`), and which files are on the card at each of its steps (`Complete`).
  `UnhurriedCleanupSpares` bounds the
  finding of `cloud_cleanup`: it needs a stop request.
* `NoWaitInVain`, the safety part of `CommandEnds`. Its first half, a stop of the downloader, is
  proved without conditions (`StopHasDownloader`): RUNNING_BIT, by which the stop decides to
  wait, means a downloader that has not yet cleared it (`Joined`), and that one sets STOPPED_BIT
  as its last step. The second half, the wait for the cleanup, is proved under the three
  conditions (`WaitsAreMet`): with them a single task waits, on the current event group, so nobody takes the bit that
  another waits for (`Waits`).

The conditions are satisfiable, as they are the values of `cloud.cfg`; what TLC refutes with the
opposite ones is said above, under CloudSync.

`CloudSchedulerProofs` proves `StoppedIsSilent` under `~LateExit` and `OverrideAlive` under
`~SlowTimer`, for any playlists, missing files, clock and number of restarts. `Handles`: as
long as the task runs, thread_handle is set and STOPPED_BIT clear, so deinit finds the task
and waits for its own bit. `Loaded` and `FreshAds`: there are advertising tracks only between
advertising_init and advertising_deinit, so a callback that found one before a restart is over
before the next list exists, and what it sends, what the queue holds and what is played
belong to the current list. `OverrideAlive` does not need `~LateExit`. `DeinitAwaitsTask` needs neither: `Awaited` says that a
thread_handle which deinit may find belongs to a task that runs or has left its bit, and that
init creates a task only when the handle of the last one is gone. `DueAsWritten` is about
the operators: the numbers that `datetime.c` makes of dates and times (a year of 1000, a month
of 40) decide exactly as the calendar does whether an advertisement is due.

`ParsedAsWritten` is the theorem about the parser: for playlists of any length, with any
intervals and times, and whatever order the server writes the members in, `TracksAsWritten`
holds. It assumes `IsDocument` of every document, which TLC evaluates for the ten thousand of
`CloudSchedulerMC`. `tracks` never changes, so all of it is in the first state, in the lemma
`MessageParsed`; its proof is the longest of the project:

* `Runs(c, s, d)` says that the parser, in context c, is in context d after the tokens s, by
  the contexts in between. Runs over two texts make a run over both (`RunsOn`), and a run from
  the first context over a whole text is what the fold computes (`RunIsParse`). The steps
  that need induction (this one, and that `FlattenSeq` puts text after text) take the numbers
  for which the claim holds as a set: `Induction` says that a set of numbers with 0 and with
  every successor is all of them, and follows from the well-foundedness of `<` in the library.
* One lemma for each token in each place where it may stand (`ReadKey`, `ReadBound`,
  `ReadTime`, `CloseIntervals`, ...), one for each member of an interval (`ReadIntervalMember`) and of
  a track (`ReadTrackMember`).
* `InTrack(c, D, t, calls)` is the invariant of reading a track of which the members D have
  been read, in any order: as long as one is missing the parser keeps what it has found
  (`Reading`), and the track has been handed out, once, as soon as none is (`Handed`). It is
  here that the flags of the parser have to be reset at the right brace, that the empty list
  of a background track may come after it was handed out, and that a background track is complete
  without its list.
* For the copying out of the message, a text is `Balanced` if it is copied as a whole at any depth.
  Every part of a playlist is, so the copying ends with the last brace of the playlist
  (`PlaylistExtracted`) and not before.

Besides the types, `OneMessageInFlight` and `StopHasCaller`, four safety properties are proved and checked
by no run: `RequestKept`, `NoMutualWait`, `NoWaitInVain` and `DeinitAwaitsTask`, the absence of waits that nobody will end, which the liveness
properties of `offline`, `filedownload` and `cloud` rest on. TLC finds them true on the instances of those runs
and of `cloudplay`, and they can be added to the configurations.

Only model-checked:

* liveness (`FilePlayEnds`, `BlockedStopReturns`, `StopReturns`, `EveryFilePlayed`, `ErrorForcesProbe`,
  `DeinitEnds`, `DownloadReturns`, `RebootObeyed`, `GateComesBack`, `CommandEnds`, `PathCloses`,
  `BackgroundPlayed`, `AdPlayed`): the provers do not handle fairness.

## Not modelled

How `remote/http.c` collects an answer is reduced to whether the command in it survives;
in detail, a chunk is dropped from the middle of a long answer if the temporary file
cannot be created (`http.c:89-112`). Of the decoder, register values and pins; of the
stream input, the parser of .pls and .m3u files. Use of memory after its release is
marked as a hazard where it can happen, and the models stop there.

Wi-Fi, clock, configuration, LED status,
system information, string helpers and web pages are device access or text without
shared state; the outside sees them as nondeterministic answers. The one step of Wi-Fi
that could go wrong for good is the task it creates to reconnect (`wifi.c:160`): if that
creation fails, nothing tries again. Vendored code
(ESP-IDF, and pdjson and libyuarel in `firmware/components`) is modelled in three places only: the room in
a ring buffer (`Stream.Room`), the timers' command queue (`CloudScheduler.TimerObeys`) and the rollback in the
bootloader (`RemoteGate.Bootloader`). Other FreeRTOS calls are modelled by their documented effect as the code
uses them.

## Plan

Modelled: `Player`, `PlayService`, `StreamScheduler`, `OfflineScheduler`,
`OfflinePlayback`, `FileDownload`, `RemoteGate`, `CloudSync`, `ReadAhead`, `Stream`,
`Vs1011`, `AudioPath`, `Traverse`, `CloudScheduler`. Proved: `PlayerProofs`,
`AudioPathProofs`, `OfflinePlaybackProofs`, `OfflineSchedulerProofs`, `RemoteGateProofs`,
`FileDownloadProofs`, `CloudSyncProofs`, `CloudSchedulerProofs`: every safety property of the passing
runs.

Next:

1. `CloudScheduler` against `CloudSync`: the scheduler that `CloudSync` starts and stops as an
   abstraction of the detailed one, as a refinement of its start and stop.
2. The failing `read_ahead_init` inside `Player`, as a restart of the whole device.
3. `NoWaitInVain` for the cleanup without the three conditions, with the waits for its bit in
   finer steps than `AwaitCleanup` has.
