-------------------------------- MODULE Player --------------------------------
(***************************************************************************)
(* The audio player of firmware/main/audio/player.c: the player task, the  *)
(* one scheduler task that calls player_start, the tasks that may call     *)
(* player_stop (web server, timer task, playlist downloader, remote gate)  *)
(* and the remote control task that reports what is being played.          *)
(*                                                                         *)
(* An action is one step that FreeRTOS makes atomic: one event group,      *)
(* queue or semaphore call, or one critical section of state.mutex.  The   *)
(* firmware runs on two cores, so any two steps of two tasks interleave.   *)
(*                                                                         *)
(* A file name is abstracted to the heap block that holds it (an element   *)
(* of Bufs): now_playing points into that block.                           *)
(***************************************************************************)
EXTENDS Naturals, Sequences, FiniteSets

CONSTANTS
    Starter,        \* the scheduler task, the only caller of player_start
    Stoppers,       \* the other tasks that call player_stop
    Bufs,           \* heap blocks that malloc may return for a file name
    NULL,           \* the null pointer
    StreamRetries,  \* config_stream_retries(); 0 means retry for ever
    MaxBlocks       \* bound: blocks of data in a file

ASSUME TasksAssumption == Starter \notin Stoppers
ASSUME BufsAssumption == NULL \notin Bufs
ASSUME RetriesAssumption == StreamRetries \in Nat
ASSUME BlocksAssumption == MaxBlocks \in Nat

VARIABLES
    state,        \* state.state: PLAYING or STOPPED
    now_playing,  \* state.now_playing
    queue,        \* queue of player_message_t, one slot
    back_queue,   \* queue of player_result_t, one slot
    bits,         \* the event group
    heap,         \* heap blocks allocated for file names
    ppc,          \* the player task: next step
    msg,          \* the player task: the message being played
    left,         \* the player task: blocks left in the open file
    retries,      \* the player task: play_stream's counter
    result,       \* the player task: what play() returned
    pc,           \* the callers: next step
    fname,        \* the starter: m.filename of the current player_start
    kick,         \* the binary semaphore of remote/control.c
    probe,        \* the binary semaphore of stream_scheduler.c
    control,      \* the remote control task: next step
    reported,     \* what the remote control task last read of now_playing
    heard,        \* ghost: a stop request was taken during this play
    over          \* ghost: callers for whom the play they saw has ended

playerVars == <<ppc, msg, left, retries, result, heard>>
callerVars == <<pc, fname>>
controlVars == <<control, reported>>
sharedVars == <<state, now_playing, queue, back_queue, bits, heap, kick, probe>>
vars == <<sharedVars, playerVars, callerVars, controlVars, over>>

Callers == {Starter} \union Stoppers
CHANGED == "STATE_CHANGED"
STOP == "PLAYER_STOP"
STOPPED == "PLAYER_STOPPED"

\* player_message_t.error_callback: stream_scheduler_force_probe or NULL.
Callbacks == {"force_probe", "none"}
Messages == [buf : Bufs, kind : {"file", "stream"}, callback : Callbacks]
Results == [success : BOOLEAN, of : Bufs]
NoMessage == [buf |-> NULL, kind |-> "file", callback |-> "none"]

StopSteps == {"stop_set", "wait_check", "wait_clear", "wait_bits", "blocked",
              "wait_done", "stop_true", "stop_false"}
StartSteps == {"alloc", "start_clear", "start_send", "start_receive"}
HoldsName == {"start_clear", "start_send", "start_receive"}
\* The steps of play_stream / play_file, and the steps of player_thread around
\* them, before and after.
PlaySteps == {"open_file", "open_stream", "read", "starved", "take_stop",
              "mark_stopped", "finished", "clear_stopped"}
BeforeSteps == {"now_playing", "kick_started", "set_playing", "signal_playing"}
AfterSteps == {"clear_now_playing", "kick_finished", "answer"}
ClosingSteps == {"set_stopped", "signal_stopped", "free"}

TypeOK ==
    /\ state \in {"PLAYING", "STOPPED"}
    /\ now_playing \in Bufs \union {NULL}
    /\ queue \in {<<>>} \union {<<m>> : m \in Messages}
    /\ back_queue \in {<<>>} \union {<<r>> : r \in Results}
    /\ bits \subseteq {CHANGED, STOP, STOPPED}
    /\ heap \subseteq Bufs
    /\ ppc \in {"receive"} \union BeforeSteps \union PlaySteps
                 \union AfterSteps \union ClosingSteps
    /\ msg \in (IF ppc = "receive" THEN {NoMessage} ELSE Messages)
    /\ left \in 0..MaxBlocks
    /\ retries \in 0..StreamRetries
    /\ result \in BOOLEAN
    /\ pc \in [Callers -> {"idle"} \union StopSteps \union StartSteps]
    /\ \A t \in Stoppers : pc[t] \notin StartSteps
    /\ fname \in (IF pc[Starter] \in HoldsName THEN Bufs ELSE {NULL})
    /\ kick \in 0..1 /\ probe \in 0..1
    /\ control \in {"wait", "read"}
    /\ reported \in Bufs \union {NULL}
    /\ heard \in BOOLEAN
    /\ over \subseteq Callers

Init ==
    /\ state = "STOPPED" /\ now_playing = NULL
    /\ queue = <<>> /\ back_queue = <<>> /\ bits = {} /\ heap = {}
    /\ ppc = "receive" /\ msg = NoMessage
    /\ left = 0 /\ retries = 0 /\ result = FALSE
    /\ pc = [t \in Callers |-> "idle"] /\ fname = NULL
    /\ kick = 0 /\ probe = 0 /\ control = "wait" /\ reported = NULL
    /\ heard = FALSE /\ over = {}

-------------------------------------------------------------------------------
(* player_stop, called by a stopper or by player_start itself.             *)

At(t, step) == pc[t] = step
Goto(t, step) == pc' = [pc EXCEPT ![t] = step]

\* player_stop on a stopped player returns at once and changes nothing, so
\* only the call that finds the player PLAYING is a step.
StopCall(t) ==
    /\ At(t, "idle") /\ state = "PLAYING"
    /\ Goto(t, "stop_set")
    /\ UNCHANGED <<sharedVars, playerVars, fname, controlVars, over>>

StopSet(t) ==
    /\ At(t, "stop_set")
    /\ bits' = bits \union {STOP}
    /\ Goto(t, "wait_check")
    /\ UNCHANGED <<state, now_playing, queue, back_queue, heap, kick, probe,
                   playerVars, fname, controlVars, over>>

WaitCheck(t) ==
    /\ At(t, "wait_check")
    /\ IF state = "STOPPED"
       THEN Goto(t, "stop_true") ELSE Goto(t, "wait_clear")
    /\ UNCHANGED <<sharedVars, playerVars, fname, controlVars, over>>

WaitClear(t) ==
    /\ At(t, "wait_clear")
    /\ bits' = bits \ {CHANGED}
    /\ Goto(t, "wait_bits")
    /\ UNCHANGED <<state, now_playing, queue, back_queue, heap, kick, probe,
                   playerVars, fname, controlVars, over>>

\* xEventGroupWaitBits returns at once, clearing the bit, when it is set;
\* otherwise the task blocks until SignalChange wakes it.
WaitBits(t) ==
    /\ At(t, "wait_bits")
    /\ Goto(t, IF CHANGED \in bits THEN "wait_done" ELSE "blocked")
    /\ bits' = bits \ {CHANGED}
    /\ UNCHANGED <<state, now_playing, queue, back_queue, heap, kick, probe,
                   playerVars, fname, controlVars, over>>

WaitDone_Assumed(t) ==
    /\ At(t, "wait_done")
    /\ Goto(t, "stop_true")
    /\ UNCHANGED <<sharedVars, playerVars, fname, controlVars, over>>

WaitDone(t) ==
    /\ At(t, "wait_done")
    /\ Goto(t, IF state = "STOPPED" THEN "stop_true" ELSE "stop_false")
    /\ UNCHANGED <<sharedVars, playerVars, fname, controlVars, over>>

StopClear_Forgotten(t) ==
    /\ At(t, "stop_true") \/ At(t, "stop_false")
    /\ Goto(t, IF t = Starter THEN "alloc" ELSE "idle")
    /\ over' = over \ {t}
    /\ UNCHANGED <<sharedVars, playerVars, fname, controlVars>>

\* The last clear; player_stop then returns what wait_for_state did.
StopClear(t) ==
    /\ At(t, "stop_true") \/ At(t, "stop_false")
    /\ bits' = bits \ {STOP}
    /\ Goto(t, IF t = Starter THEN "alloc" ELSE "idle")
    /\ over' = over \ {t}
    /\ UNCHANGED <<state, now_playing, queue, back_queue, heap, kick, probe,
                   playerVars, fname, controlVars>>

PlayerStop(t) ==
    \/ StopSet(t) \/ WaitCheck(t) \/ WaitClear(t) \/ WaitBits(t)
    \/ WaitDone(t) \/ StopClear(t)

-------------------------------------------------------------------------------
(* player_start, called by the scheduler task.                             *)

\* The first get_state found the player STOPPED; a PLAYING player is first
\* stopped (StopCall(Starter)).
StartCall ==
    /\ At(Starter, "idle") /\ state = "STOPPED"
    /\ Goto(Starter, "alloc")
    /\ UNCHANGED <<sharedVars, playerVars, fname, controlVars, over>>

StartRefused_Late ==
    /\ At(Starter, "start_send")
    /\ Goto(Starter, "idle") /\ fname' = NULL
    /\ UNCHANGED <<sharedVars, playerVars, controlVars, over>>

\* The name is too long or malloc fails: player_start returns false.
StartRefused ==
    /\ At(Starter, "alloc")
    /\ Goto(Starter, "idle")
    /\ UNCHANGED <<sharedVars, playerVars, fname, controlVars, over>>

StartAlloc ==
    /\ At(Starter, "alloc")
    /\ \E b \in Bufs \ heap : heap' = heap \union {b} /\ fname' = b
    /\ Goto(Starter, "start_clear")
    /\ UNCHANGED <<state, now_playing, queue, back_queue, bits, kick, probe,
                   playerVars, controlVars, over>>

StartClear_KeepsStopped ==
    /\ At(Starter, "start_clear")
    /\ bits' = bits \ {STOP}
    /\ Goto(Starter, "start_send")
    /\ UNCHANGED <<state, now_playing, queue, back_queue, heap, kick, probe,
                   playerVars, fname, controlVars, over>>

StartClear ==
    /\ At(Starter, "start_clear")
    /\ bits' = bits \ {STOP, STOPPED}
    /\ Goto(Starter, "start_send")
    /\ UNCHANGED <<state, now_playing, queue, back_queue, heap, kick, probe,
                   playerVars, fname, controlVars, over>>

\* xQueueSend blocks while the slot is taken.  The name is a media file or a
\* stream's playlist file; cloud_scheduler passes no error callback.
StartSend ==
    /\ At(Starter, "start_send")
    /\ queue = <<>>
    /\ \E kind \in {"file", "stream"}, callback \in Callbacks :
          queue' = <<[buf |-> fname, kind |-> kind, callback |-> callback]>>
    /\ Goto(Starter, "start_receive")
    /\ UNCHANGED <<state, now_playing, back_queue, bits, heap, kick, probe,
                   playerVars, fname, controlVars, over>>

StartReceive_Impatient ==
    /\ At(Starter, "start_receive")
    /\ back_queue' = <<>>
    /\ Goto(Starter, "idle")
    /\ fname' = NULL
    /\ UNCHANGED <<state, now_playing, queue, bits, heap, kick, probe,
                   playerVars, controlVars, over>>

StartReceive ==
    /\ At(Starter, "start_receive")
    /\ back_queue # <<>>
    /\ back_queue' = Tail(back_queue)
    /\ Goto(Starter, "idle")
    /\ fname' = NULL
    /\ UNCHANGED <<state, now_playing, queue, bits, heap, kick, probe,
                   playerVars, controlVars, over>>

PlayerStart ==
    StartRefused \/ StartAlloc \/ StartClear \/ StartSend \/ StartReceive

-------------------------------------------------------------------------------
(* player_thread.                                                          *)

Step(from, to) == ppc = from /\ ppc' = to

PlayerReceive ==
    /\ Step("receive", "now_playing")
    /\ queue # <<>>
    /\ msg' = Head(queue) /\ queue' = Tail(queue)
    /\ UNCHANGED <<state, now_playing, back_queue, bits, heap, kick, probe,
                   left, retries, result, heard, callerVars, controlVars, over>>

\* set_now_playing first assigns under the mutex, then kicks the remote
\* control task.
SetNowPlaying(from, buf, to) ==
    /\ Step(from, to)
    /\ now_playing' = buf
    /\ UNCHANGED <<state, queue, back_queue, bits, heap, kick, probe, msg,
                   left, retries, result, heard, callerVars, controlVars, over>>

ForceCycle(from, to) ==
    /\ Step(from, to)
    /\ kick' = 1
    /\ UNCHANGED <<state, now_playing, queue, back_queue, bits, heap, probe, msg,
                   left, retries, result, heard, callerVars, controlVars, over>>

\* set_state stores the new state and signals it in a step of its own
\* (SignalChange).  It signals only a state that differs from the old one:
\* it always does, since only the player task writes state and alternates
\* (StateFollows).
SetState(from, s, to) ==
    /\ Step(from, to)
    /\ state' = s
    /\ over' = IF s = "STOPPED" THEN {t \in Callers : pc[t] \in StopSteps} ELSE over
    /\ UNCHANGED <<now_playing, queue, back_queue, bits, heap, kick, probe, msg,
                   left, retries, result, heard, callerVars, controlVars>>

\* xEventGroupSetBits(STATE_CHANGED): every task blocked in wait_for_state is
\* woken and, as they wait with clear-on-exit, the bit is cleared for them;
\* with nobody blocked the bit stays set.
SignalChange(from, to) ==
    /\ Step(from, to)
    /\ pc' = [t \in Callers |-> IF At(t, "blocked") THEN "wait_done" ELSE pc[t]]
    /\ bits' = IF \E t \in Callers : At(t, "blocked")
               THEN bits \ {CHANGED} ELSE bits \union {CHANGED}
    /\ UNCHANGED <<state, now_playing, queue, back_queue, heap, kick, probe, msg,
                   left, result, heard, fname, controlVars, over>>

\* play: a stream's playlist goes to play_stream, which loads its retry
\* counter, anything else to play_file.
BeginPlay ==
    /\ SignalChange("signal_playing",
                    IF msg.kind = "stream" THEN "open_stream" ELSE "open_file")
    /\ retries' = IF msg.kind = "stream" THEN StreamRetries ELSE retries

Returns(success) == result' = success /\ ppc' = "clear_now_playing"

OpenFileFails ==
    /\ ppc = "open_file"
    /\ Returns(FALSE)
    /\ UNCHANGED <<sharedVars, msg, left, retries, heard, callerVars,
                   controlVars, over>>

OpenFile ==
    /\ Step("open_file", "read")
    /\ left' \in 0..MaxBlocks
    /\ UNCHANGED <<sharedVars, msg, retries, result, heard, callerVars,
                   controlVars, over>>

\* stream_scheduler_force_probe gives the stream scheduler's semaphore.
ErrorCallback == probe' = IF msg.callback = "none" THEN probe ELSE 1

\* while (infinite || --retries > 0), and what play_stream then returns.
NextTry ==
    IF StreamRetries = 0 \/ retries > 1
    THEN /\ ppc' = "open_stream"
         /\ retries' = IF StreamRetries = 0 THEN 0 ELSE retries - 1
         /\ UNCHANGED result
    ELSE Returns(FALSE) /\ retries' = 0

\* No network, or the playlist file cannot be parsed: no retry.
StreamRefused ==
    /\ ppc = "open_stream"
    /\ ErrorCallback /\ Returns(FALSE)
    /\ UNCHANGED <<state, now_playing, queue, back_queue, bits, heap, kick, msg,
                   left, retries, heard, callerVars, controlVars, over>>

StreamStartFails ==
    /\ ppc = "open_stream"
    /\ ErrorCallback /\ NextTry
    /\ UNCHANGED <<state, now_playing, queue, back_queue, bits, heap, kick, msg,
                   left, heard, callerVars, controlVars, over>>

StreamStarts ==
    /\ Step("open_stream", "read")
    /\ UNCHANGED <<sharedVars, msg, left, retries, result, heard, callerVars,
                   controlVars, over>>

\* vs1011_play calls file_read_func / stream_read_func until one returns 0.
ReadBlock ==
    /\ ppc = "read" /\ STOP \notin bits
    /\ msg.kind = "file" /\ left > 0
    /\ left' = left - 1
    /\ UNCHANGED <<sharedVars, ppc, msg, retries, result, heard, callerVars,
                   controlVars, over>>

\* read_ahead_next waits for ever for a block that nobody reads: the read-ahead
\* task could not be created, or its start was given up (reader = "failed" in
\* ReadAhead).  The player task is lost with it.
ReadStarves ==
    /\ Step("read", "starved") /\ STOP \notin bits
    /\ msg.kind = "file"
    /\ UNCHANGED <<sharedVars, msg, left, retries, result, heard, callerVars,
                   controlVars, over>>

FileEnds_Rewinds ==
    /\ ppc = "read" /\ STOP \notin bits
    /\ msg.kind = "file" /\ left = 0 /\ left' \in 1..MaxBlocks
    /\ UNCHANGED <<sharedVars, ppc, msg, retries, result, heard, callerVars,
                   controlVars, over>>

FileEnds ==
    /\ Step("read", "finished") /\ STOP \notin bits
    /\ msg.kind = "file" /\ left = 0
    /\ UNCHANGED <<sharedVars, msg, left, retries, result, heard, callerVars,
                   controlVars, over>>

\* The stream's end; while it goes on, reading it changes nothing here.
StreamEnds ==
    /\ Step("read", "finished") /\ STOP \notin bits
    /\ msg.kind = "stream"
    /\ UNCHANGED <<sharedVars, msg, left, retries, result, heard, callerVars,
                   controlVars, over>>

ReadStop ==
    /\ Step("read", "take_stop") /\ STOP \in bits
    /\ heard' = TRUE
    /\ UNCHANGED <<sharedVars, msg, left, retries, result, callerVars,
                   controlVars, over>>

TakeStop ==
    /\ Step("take_stop", "mark_stopped")
    /\ bits' = bits \ {STOP}
    /\ UNCHANGED <<state, now_playing, queue, back_queue, heap, kick, probe, msg,
                   left, retries, result, heard, callerVars, controlVars, over>>

MarkStopped ==
    /\ Step("mark_stopped", "finished")
    /\ bits' = bits \union {STOPPED}
    /\ UNCHANGED <<state, now_playing, queue, back_queue, heap, kick, probe, msg,
                   left, retries, result, heard, callerVars, controlVars, over>>

FilePlayed ==
    /\ ppc = "finished" /\ msg.kind = "file"
    /\ Returns(TRUE)
    /\ left' = 0
    /\ UNCHANGED <<sharedVars, msg, retries, heard, callerVars, controlVars, over>>

\* vs1011_play is over and the stopped bit is set: leave the loop ...
StreamStopped ==
    /\ Step("finished", "clear_stopped")
    /\ msg.kind = "stream" /\ STOPPED \in bits
    /\ UNCHANGED <<sharedVars, msg, left, retries, result, heard, callerVars,
                   controlVars, over>>

ClearStopped ==
    /\ ppc = "clear_stopped"
    /\ bits' = bits \ {STOPPED}
    /\ Returns(TRUE)
    /\ UNCHANGED <<state, now_playing, queue, back_queue, heap, kick, probe, msg,
                   left, retries, heard, callerVars, controlVars, over>>

\* ... otherwise the stream broke off: report the error, try again.
StreamBroken ==
    /\ ppc = "finished"
    /\ msg.kind = "stream" /\ STOPPED \notin bits
    /\ ErrorCallback /\ NextTry
    /\ UNCHANGED <<state, now_playing, queue, back_queue, bits, heap, kick, msg,
                   left, heard, callerVars, controlVars, over>>

\* xQueueSend(back_queue) gives up after 1000 ms when the slot is taken.
Answer ==
    /\ Step("answer", "set_stopped")
    /\ back_queue' = IF back_queue = <<>>
                     THEN <<[success |-> result, of |-> msg.buf]>>
                     ELSE back_queue
    /\ UNCHANGED <<state, now_playing, queue, bits, heap, kick, probe, msg, left,
                   retries, result, heard, callerVars, controlVars, over>>

FreeName ==
    /\ Step("free", "receive")
    /\ heap' = heap \ {msg.buf}
    /\ msg' = NoMessage /\ retries' = 0 /\ result' = FALSE /\ heard' = FALSE
    /\ UNCHANGED <<state, now_playing, queue, back_queue, bits, kick, probe, left,
                   callerVars, controlVars, over>>

ShowName == SetNowPlaying("now_playing", msg.buf, "kick_started")
KickStarted == ForceCycle("kick_started", "set_playing")
SetPlaying == SetState("set_playing", "PLAYING", "signal_playing")

HideName_Forgotten == SetNowPlaying("clear_now_playing", now_playing, "kick_finished")

HideName == SetNowPlaying("clear_now_playing", NULL, "kick_finished")

KickFinished_Forgotten ==
    /\ Step("kick_finished", "answer")
    /\ UNCHANGED <<sharedVars, msg, left, retries, result, heard, callerVars,
                   controlVars, over>>

KickFinished == ForceCycle("kick_finished", "answer")
SetStopped == SetState("set_stopped", "STOPPED", "signal_stopped")

SignalStopped_Forgotten ==
    /\ Step("signal_stopped", "free")
    /\ UNCHANGED <<sharedVars, msg, left, retries, result, heard, callerVars,
                   controlVars, over>>

SignalStopped == SignalChange("signal_stopped", "free") /\ UNCHANGED retries

\* Everything the player task does on its own; a stream's end is the network's.
PlayerStep ==
    \/ PlayerReceive \/ ShowName \/ KickStarted \/ SetPlaying \/ BeginPlay
    \/ OpenFileFails \/ OpenFile \/ ReadBlock \/ ReadStarves \/ FileEnds
    \/ FilePlayed \/ StreamRefused \/ StreamStartFails \/ StreamStarts
    \/ ReadStop \/ TakeStop \/ MarkStopped
    \/ StreamStopped \/ ClearStopped \/ StreamBroken
    \/ HideName \/ KickFinished \/ Answer \/ SetStopped \/ SignalStopped
    \/ FreeName

-------------------------------------------------------------------------------
(* The tasks the player notifies.                                          *)

\* remote/control.c: take the semaphore (or time out after 20 s) ...
ControlWakes ==
    /\ control = "wait" /\ control' = "read"
    /\ kick' = 0
    /\ UNCHANGED <<state, now_playing, queue, back_queue, bits, heap, probe,
                   playerVars, callerVars, reported, over>>

\* ... and queue a NOW_PLAYING command built from player_get_now_playing.
ControlReports ==
    /\ control = "read" /\ control' = "wait"
    /\ reported' = now_playing
    /\ UNCHANGED <<sharedVars, playerVars, callerVars, over>>

\* The stream scheduler takes its semaphore and probes the streams.
ProbeTaken ==
    /\ probe = 1 /\ probe' = 0
    /\ UNCHANGED <<state, now_playing, queue, back_queue, bits, heap, kick,
                   playerVars, callerVars, controlVars, over>>

Next ==
    \/ \E t \in Callers : StopCall(t) \/ PlayerStop(t)
    \/ StartCall \/ PlayerStart
    \/ PlayerStep \/ StreamEnds
    \/ ControlWakes \/ ControlReports \/ ProbeTaken

Spec == Init /\ [][Next]_vars

\* Tasks are never starved: the scheduler of FreeRTOS runs every ready task in
\* turn, and the waits inside a step are on operations that complete.  Nobody
\* has to call player_start or player_stop, and no stream has to end; the tasks
\* that the player notifies may be as slow as they like.
Fairness ==
    /\ WF_vars(PlayerStep)
    /\ WF_vars(PlayerStart)
    /\ \A t \in Callers : WF_vars(PlayerStop(t))

FairSpec == Spec /\ Fairness

-------------------------------------------------------------------------------
(* Properties.                                                             *)

\* The player task owns a message from the moment it receives it until its
\* result is in the back queue.
Working == ppc \in BeforeSteps \union PlaySteps \union AfterSteps

\* player_start waits for a result exactly as long as its message is in one
\* place: the queue, the player task, or (as a result) the back queue.  So a
\* message is never lost or doubled, xQueueSend(back_queue) never meets a full
\* slot, and player_start's own xQueueSend never blocks.
OneMessageInFlight ==
    Len(queue) + Len(back_queue) + (IF Working THEN 1 ELSE 0)
        = (IF At(Starter, "start_receive") THEN 1 ELSE 0)

\* The result that player_start returns is the result of the very name it sent,
\* although the back queue carries no identity.
ResultIsOwn ==
    back_queue # <<>> => At(Starter, "start_receive") /\ Head(back_queue).of = fname

\* now_playing never points into a freed name (player.c frees the name the
\* pointer was taken from), and no freed name is queued or being played.
NamesAlive ==
    /\ now_playing # NULL => now_playing \in heap
    /\ msg # NoMessage => msg.buf \in heap
    /\ queue # <<>> => Head(queue).buf \in heap

\* Every allocated name has an owner that will free it: the starter until it has
\* sent the message, then the queue, then the player task.
NoLeak ==
    \A b \in heap :
        \/ At(Starter, "start_clear") /\ fname = b
        \/ At(Starter, "start_send") /\ fname = b
        \/ queue # <<>> /\ Head(queue).buf = b
        \/ msg.buf = b

\* Names are accounted for at every moment: what is used is alive, and what is alive
\* is in somebody's hands, on the error paths of player_start as well.
NamesAccounted == NamesAlive /\ NoLeak

\* play_stream takes PLAYER_STOPPED for "stopped by player stop" and returns
\* true, upon which the scheduler marks the stream alive.  The bit is never a
\* left-over of an earlier play: a stream play succeeds only if a stop request
\* was taken during that very play.
StreamSuccessMeansStopped ==
    ppc \in AfterSteps /\ msg.kind = "stream" /\ result => heard

\* When player_stop returns true, the play it found going on has ended, even if
\* wait_for_state was woken by the wrong state change.
StopTrueMeansEnded ==
    \A t \in Callers : At(t, "stop_true") => t \in over

\* A stop request does not outlive its caller: PLAYER_STOP is only set while some
\* task is inside player_stop, so no later play is cut off by a forgotten bit.
StopHasCaller ==
    STOP \in bits => \E t \in Callers : pc[t] \in StopSteps \ {"stop_set"}

\* No change of now_playing goes unreported: what the remote control task last
\* read is current, or a cycle that will read it again is due.
NowPlayingReported ==
    \/ reported = now_playing
    \/ kick = 1 \/ control = "read"
    \/ ppc \in {"kick_started", "kick_finished"}

\* A file that is read comes to its end, whatever stop requests arrive meanwhile:
\* the player task is ready for the next name, unless it waits for ever for a
\* block of a read-ahead task that was never started (read_ahead_next).
FilePlayEnds ==
    (Working /\ msg.kind = "file") ~> (ppc = "receive" \/ ppc = "starved")

\* A task that is blocked in player_stop with its request standing while the
\* player reads data always gets its way: the play ends, an endless stream
\* included, and the caller is woken and returns.  (With one stopper: of two,
\* the one that returns first clears the other's PLAYER_STOP.)
BlockedStopReturns ==
    \A t \in Stoppers :
        (At(t, "blocked") /\ ppc = "read" /\ STOP \in bits) ~> At(t, "idle")

\* The play ended after this caller looked at the state (PLAYING) and before it
\* began to wait: its own clear, or another caller, may take the signal away.
EndsUnseen(t) == pc[t] \in {"wait_clear", "wait_bits"} /\ state = "STOPPED"

\* A play that goes on although player_stop was called: an endless stream whose
\* request was cleared by another caller's return or by player_start, a stream
\* that is retried for ever and cannot be started (the request is only looked at
\* while data is read), or a player task that is lost in read_ahead_next.
PlaysUnasked == msg.kind = "stream" /\ ppc \in PlaySteps /\ STOP \notin bits
PlaysOn == <>[]PlaysUnasked \/ <>[](ppc = "open_stream") \/ <>[](ppc = "starved")

\* Every call of player_stop that found the player PLAYING returns, with any
\* number of callers, player_start's own call included, except in two cases.  The
\* play goes on (PlaysOn).  Or it ends between the caller's look at the state and
\* its wait: then wait_for_state clears the very STATE_CHANGED it should wait for
\* and blocks until the next play, which never comes when the caller is
\* player_start itself.
StopReturns ==
    \/ PlaysOn
    \/ \A t \in Callers : At(t, "stop_set") ~> (pc[t] \notin StopSteps \/ EndsUnseen(t))

-------------------------------------------------------------------------------
(* The player implements PlayService.                                      *)

Stage ==
    IF ~At(Starter, "start_receive") THEN "none"
    ELSE IF queue # <<>> \/ ppc = "now_playing" THEN "requested"
    ELSE IF Working /\ now_playing # NULL THEN "playing"
    ELSE "played"

Service == INSTANCE PlayService WITH
    Names <- Bufs, Nothing <- NULL, stage <- Stage, shown <- now_playing,
    name <- IF At(Starter, "start_receive") THEN fname ELSE NULL

\* All of player.c's queues, bits and tasks together serve one name at a time:
\* accepted, shown, hidden and answered once, in that order, and what is shown is
\* the name that was handed over.
ImplementsService == Service!Spec

-------------------------------------------------------------------------------
(* The inductive invariant behind these properties.                        *)

\* The message is in one place, and that place knows its name.
Flow ==
    /\ queue # <<>> => /\ At(Starter, "start_receive") /\ ~Working
                       /\ back_queue = <<>> /\ Head(queue).buf = fname
    /\ back_queue # <<>> => /\ At(Starter, "start_receive") /\ ~Working
                            /\ queue = <<>> /\ Head(back_queue).of = fname
    /\ Working => /\ At(Starter, "start_receive")
                  /\ queue = <<>> /\ back_queue = <<>> /\ msg.buf = fname
    /\ At(Starter, "start_receive") => queue # <<>> \/ back_queue # <<>> \/ Working

\* The heap holds the name being played and the name not yet handed over; the
\* player may still own the last name when the starter allocates the next.
NotHandedOver == pc[Starter] \in {"start_clear", "start_send"} \/ queue # <<>>
Shown == {"kick_started", "set_playing", "signal_playing", "clear_now_playing"}
            \union PlaySteps
Names ==
    /\ ppc # "receive" => msg.buf \in heap
    /\ NotHandedOver => fname \in heap /\ fname # msg.buf
    /\ \A b \in heap : b = msg.buf \/ (b = fname /\ NotHandedOver)
    /\ now_playing = IF ppc \in Shown THEN msg.buf ELSE NULL

\* The stored state follows the player task's progress.
StateFollows ==
    (state = "PLAYING") <=>
        (ppc \in {"signal_playing", "set_stopped"} \union PlaySteps \union AfterSteps)

\* PLAYER_STOPPED belongs to the play in progress.
StopBits ==
    /\ At(Starter, "start_send") \/ queue # <<>> => STOPPED \notin bits
    /\ Working /\ STOPPED \in bits => heard
    /\ ppc \in {"take_stop", "mark_stopped", "clear_stopped"} => heard
    /\ StreamSuccessMeansStopped

\* A caller that is inside player_stop when the player is STOPPED has outlived
\* the play it found.
Outlived ==
    \A t \in Callers :
        /\ state = "STOPPED" /\ pc[t] \in StopSteps => t \in over
        /\ At(t, "stop_true") => t \in over

IInv == TypeOK /\ Flow /\ Names /\ StateFollows /\ StopBits /\ Outlived
            /\ NowPlayingReported /\ StopHasCaller

===============================================================================
