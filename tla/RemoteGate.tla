------------------------------ MODULE RemoteGate ------------------------------
(***************************************************************************)
(* firmware/main/remote (gate.c, queue.c, control.c, commands/...) and      *)
(* system/firmware_update.c: every task puts its reports into one queue;    *)
(* the gate task posts them to the server, retries, and executes the        *)
(* command that comes back with an answer.  Restarts and power failures     *)
(* lose everything but the sequence number and the images kept in flash; an *)
(* image that is not confirmed in its first run is rolled back.             *)
(* The server is outside the repository: it answers a post with any command *)
(* that it has not seen acknowledged, or with none.                         *)
(***************************************************************************)
EXTENDS Naturals, Sequences

CONSTANTS
    Settings, Deletes, Reboots, Updates, Playlists,
                  \* the server's commands of each kind, by sequence number
    QueueLength,  \* QUEUE_LENGTH
    Retries,      \* max_retries of power_on, track_begin and track_end
    MaxMessages,  \* bound: messages put into the queue
    MaxRestarts   \* bound: restarts and power failures

Commands == Settings \cup Deletes \cup Reboots \cup Updates \cup Playlists

ASSUME GateAssumption ==
    /\ Commands \subseteq Nat \ {0}
    /\ Updates \cap (Settings \cup Deletes \cup Reboots \cup Playlists) = {}
    /\ QueueLength \in Nat \ {0} /\ Retries \in Nat
    /\ MaxMessages \in Nat /\ MaxRestarts \in Nat

VARIABLES
    queue,      \* the messages waiting for the gate
    gate,       \* the gate task: next step
    cur,        \* the gate: msg
    answer,     \* the gate: the command in recv, 0 for "{}"
    boot,       \* app_main: next step
    job,        \* the sequence number the downloader works on, 0 if none
    nvs_seq,    \* flash: "fw_upgdare_seq"
    image,      \* the boot image: "valid", "new" (installed, not yet run) or
                \* "pending" (in its first run, not yet confirmed)
    trial,      \* the update whose image is new or pending, 0 if none
    made,       \* messages put so far; a message is known by its number
    restarts,
    last,       \* server: number of the last message received
    acked,      \* server: commands reported as done
    executed,   \* ghost: commands that were carried out
    saved,      \* ghost: the last value other than 0 written to nvs_seq
    undone      \* ghost: updates that were rolled back

ota == <<image, trial, undone>>
device == <<queue, gate, cur, answer, boot, job, nvs_seq, made, restarts>>
server == <<last, acked>>
ghosts == <<executed, saved>>
vars == <<device, ota, server, ghosts>>

Kinds == {"report", "ack_ok", "ack_fail"}
Callbacks == {"none", "reboot", "confirm"}

Message(n, command, callback) ==
    [id |-> n, kind |-> command.kind, seq |-> command.seq, retries |-> command.retries,
     callback |-> callback]
Messages ==
    [id : 1..MaxMessages, kind : Kinds, seq : Commands \cup {0}, retries : 0..Retries,
     callback : Callbacks]
Nothing == [id |-> 0]

TypeOK ==
    /\ queue \in Seq(Messages) /\ Len(queue) <= QueueLength
    /\ gate \in {"receive", "post", "execute", "save", "accepted", "refused", "again", "free"}
    /\ cur \in Messages \cup {Nothing} /\ answer \in Commands \cup {0}
    /\ boot \in {"power_on", "confirm", "up"} /\ job \in Playlists \cup {0}
    /\ nvs_seq \in Updates \cup {0} /\ made \in 0..MaxMessages /\ restarts \in 0..MaxRestarts
    /\ last \in 0..MaxMessages /\ acked \subseteq Commands
    /\ executed \subseteq Commands /\ saved \in Updates \cup {0}
    /\ image \in {"valid", "new", "pending"} /\ trial \in Updates \cup {0}
    /\ undone \subseteq Updates

Init ==
    /\ queue = <<>> /\ gate = "receive" /\ cur = Nothing /\ answer = 0
    /\ boot = "power_on" /\ job = 0 /\ nvs_seq = 0 /\ made = 0 /\ restarts = 0
    /\ last = 0 /\ acked = {} /\ executed = {} /\ saved = 0
    /\ image = "valid" /\ trial = 0 /\ undone = {}

-------------------------------------------------------------------------------
(* The outgoing commands.  Of their text only the kind matters.             *)

ack_ok(seq) == [kind |-> "ack_ok", seq |-> seq, retries |-> 0]
ack_fail(seq) == [kind |-> "ack_fail", seq |-> seq, retries |-> 0]
power_on == [kind |-> "report", seq |-> 0, retries |-> Retries]
track_begin == [kind |-> "report", seq |-> 0, retries |-> Retries]
track_end == [kind |-> "report", seq |-> 0, retries |-> Retries]
now_playing == [kind |-> "report", seq |-> 0, retries |-> 0]
update_playlist_progress(seq) == [kind |-> "report", seq |-> seq, retries |-> 0]

(* outgoing_command and queue_put with a timeout of 0: with the queue full  *)
(* the message is dropped, whoever sends it.                                *)

outgoing_command(command, callback) ==
    /\ made < MaxMessages
    /\ made' = made + 1
    /\ IF Len(queue) < QueueLength
       THEN queue' = Append(queue, Message(made', command, callback))
       ELSE UNCHANGED queue

NoCommand == UNCHANGED <<queue, made>>

\* Part of the bound MaxMessages: what others start leaves room for the two messages
\* that the gate and app_main may have to send on their way.
Room == made + 2 < MaxMessages

(* app_main: remote_control_init, later firmware_update_confirm(true).      *)

PowerOn ==
    /\ boot = "power_on" /\ boot' = "confirm"
    /\ outgoing_command(power_on, "none")
    /\ UNCHANGED <<gate, cur, answer, job, nvs_seq, restarts, ota, server, ghosts>>

\* esp_ota_mark_app_valid_cancel_rollback, then the acknowledgement of the number in
\* flash, whichever firmware runs.
firmware_update_confirm ==
    /\ boot = "confirm" /\ boot' = "up"
    /\ image' = "valid" /\ trial' = 0
    /\ IF nvs_seq = 0 THEN NoCommand
                      ELSE outgoing_command(ack_ok(nvs_seq), "confirm")
    /\ UNCHANGED <<gate, cur, answer, job, nvs_seq, restarts, undone, server, ghosts>>

\* now_playing every 20 seconds or on demand, track_begin and track_end from the
\* schedulers.
Report ==
    /\ boot # "power_on" /\ Room
    /\ \E command \in {now_playing, track_begin, track_end} :
          outgoing_command(command, "none")
    /\ UNCHANGED <<gate, cur, answer, boot, job, nvs_seq, restarts, ota, server, ghosts>>

\* notify of the downloader, after a file.
notify ==
    /\ job # 0 /\ Room
    /\ outgoing_command(update_playlist_progress(job), "none")
    /\ UNCHANGED <<gate, cur, answer, boot, job, nvs_seq, restarts, ota, server, ghosts>>

\* The downloader has ended and was not told to stop.
DownloadEnds ==
    /\ job # 0 /\ job' = 0 /\ Room
    /\ \/ outgoing_command(ack_ok(job), "none") /\ executed' = executed \cup {job}
       \/ outgoing_command(ack_fail(job), "none") /\ UNCHANGED executed
    /\ UNCHANGED <<gate, cur, answer, boot, nvs_seq, restarts, ota, server, saved>>

-------------------------------------------------------------------------------
(* The gate task: thread in gate.c.                                         *)

Receive ==
    /\ gate = "receive" /\ queue # <<>> /\ gate' = "post"
    /\ cur' = Head(queue) /\ queue' = Tail(queue)
    /\ UNCHANGED <<answer, boot, job, nvs_seq, made, restarts, ota, server, ghosts>>

\* What the server does with a message that reaches it.
ServerTakes ==
    /\ last' = cur.id
    /\ acked' = IF cur.kind = "ack_ok" THEN acked \cup {cur.seq} ELSE acked

\* The commands it may answer with; the last restart allowed ends the ones that
\* lead to another.
ServerAnswers ==
    {0} \cup {c \in Commands \ acked' :
                Room /\ (c \in Reboots \cup Updates => restarts < MaxRestarts)}

\* http_event_handle collects the answer in a buffer and, beyond 1 KB, in a
\* temporary file; without one the rest is lost, and perhaps the command with it.
Collected(command) == {command, 0}

\* http_post_cmd: status 200..299.
PostAccepted ==
    /\ gate = "post" /\ gate' = "execute"
    /\ ServerTakes
    /\ \E command \in ServerAnswers : answer' \in Collected(command)
    /\ UNCHANGED <<queue, cur, boot, job, nvs_seq, made, restarts, ota, ghosts>>

\* No connection, a time-out or another status; the server may have got the message.
PostFails ==
    /\ gate = "post" /\ gate' = "refused"
    /\ ServerTakes \/ UNCHANGED server
    /\ UNCHANGED <<queue, cur, answer, boot, job, nvs_seq, made, restarts, ota, ghosts>>

\* while(msg.max_retries-- > 0).
Retry_Requeues ==
    /\ gate = "again" /\ gate' = "receive" /\ cur' = Nothing
    /\ queue' = IF cur.retries > 0 /\ Len(queue) < QueueLength
                THEN Append(queue, [cur EXCEPT !.retries = @ - 1]) ELSE queue
    /\ UNCHANGED <<answer, boot, job, nvs_seq, made, restarts, ota, server, ghosts>>

Retry ==
    /\ gate = "again"
    /\ IF cur.retries > 0
       THEN gate' = "post" /\ cur' = [cur EXCEPT !.retries = @ - 1]
       ELSE gate' = "free" /\ UNCHANGED cur
    /\ UNCHANGED <<queue, answer, boot, job, nvs_seq, made, restarts, ota, server, ghosts>>

Free ==
    /\ gate = "free" /\ gate' = "receive" /\ cur' = Nothing
    /\ UNCHANGED <<queue, answer, boot, job, nvs_seq, made, restarts, ota, server, ghosts>>

\* The bootloader runs a new image once; one that it finds pending has not been
\* confirmed in that run, and the image before it is started again.
Bootloader ==
    /\ image' = IF image = "new" THEN "pending" ELSE "valid"
    /\ trial' = IF image = "new" THEN trial ELSE 0
    /\ undone' = IF image = "pending" THEN undone \cup {trial} ELSE undone

\* esp_restart, or the power is cut: the flash and the server stay.
Restart ==
    /\ restarts < MaxRestarts /\ restarts' = restarts + 1
    /\ queue' = <<>> /\ gate' = "receive" /\ cur' = Nothing /\ answer' = 0
    /\ boot' = "power_on" /\ job' = 0
    /\ Bootloader
    /\ UNCHANGED made

\* reboot.c sent_callback, called after every attempt, whatever its result.
RebootCallback_OnlyIfSent ==
    /\ gate \in {"accepted", "refused"} /\ cur.callback = "reboot"
    /\ IF gate = "accepted" THEN Restart
       ELSE gate' = "again" /\ UNCHANGED <<queue, cur, answer, boot, job, made, restarts, ota>>
    /\ UNCHANGED <<nvs_seq, server, ghosts>>

RebootCallback ==
    /\ gate \in {"accepted", "refused"} /\ cur.callback = "reboot"
    /\ Restart
    /\ UNCHANGED <<nvs_seq, server, ghosts>>

\* remove_nvs_sequence_callback, or no callback at all.
Callback_Always ==
    /\ gate \in {"accepted", "refused"} /\ cur.callback # "reboot"
    /\ gate' = IF gate = "accepted" THEN "free" ELSE "again"
    /\ nvs_seq' = IF cur.callback = "confirm" THEN 0 ELSE nvs_seq
    /\ UNCHANGED <<queue, cur, answer, boot, job, made, restarts, ota, server, ghosts>>

Callback ==
    /\ gate \in {"accepted", "refused"} /\ cur.callback # "reboot"
    /\ gate' = IF gate = "accepted" THEN "free" ELSE "again"
    /\ nvs_seq' = IF gate = "accepted" /\ cur.callback = "confirm" THEN 0 ELSE nvs_seq
    /\ UNCHANGED <<queue, cur, answer, boot, job, made, restarts, ota, server, ghosts>>

-------------------------------------------------------------------------------
(* incoming_command: the answer is executed by the gate task itself.        *)

Executes(commands) ==
    /\ gate = "execute" /\ answer \in commands
    /\ gate' = "accepted" /\ answer' = 0
    /\ UNCHANGED <<cur, boot, nvs_seq, restarts, ota, server, saved>>

\* "{}", or an unknown command; an update_playlist whose tempfile cannot be written:
\* nothing is sent back.
ExecuteNothing ==
    /\ Executes({0} \cup Playlists)
    /\ NoCommand /\ UNCHANGED <<job, executed>>

Outcome_Waits(done, callback) ==
    /\ Len(queue) < QueueLength
    /\ IF done THEN outgoing_command(ack_ok(answer), callback)
                    /\ executed' = executed \cup {answer}
               ELSE outgoing_command(ack_fail(answer), callback) /\ UNCHANGED executed

Outcome(done, callback) ==
    IF done THEN outgoing_command(ack_ok(answer), callback)
                 /\ executed' = executed \cup {answer}
            ELSE outgoing_command(ack_fail(answer), callback) /\ UNCHANGED executed

update_setting ==
    /\ Executes(Settings)
    /\ \E done \in BOOLEAN : Outcome(done, "none")
    /\ UNCHANGED job

\* delete_playlist, delete_all_file: the downloader is stopped first.
delete_files ==
    /\ Executes(Deletes)
    /\ job' = 0
    /\ \E done \in BOOLEAN : Outcome(done, "none")

reboot ==
    /\ Executes(Reboots)
    /\ Outcome(TRUE, "reboot")
    /\ UNCHANGED job

\* cloud_downloader_start stops the running download, which then sends no ack.
update_playlist ==
    /\ Executes(Playlists)
    /\ \/ job' = answer /\ NoCommand
       \/ job' = 0 /\ outgoing_command(ack_fail(answer), "none")
    /\ UNCHANGED executed

\* An update_software without a usable address: nothing is stopped or sent back.
UpdateRefused ==
    /\ Executes(Updates)
    /\ NoCommand /\ UNCHANGED <<job, executed>>

\* firmware_update_start: ota_start fails, the server is told nothing.
UpdateFails_Acks ==
    /\ Executes(Updates)
    /\ job' = 0 /\ outgoing_command(ack_ok(answer), "none") /\ UNCHANGED executed

UpdateFails ==
    /\ Executes(Updates)
    /\ job' = 0 /\ NoCommand /\ UNCHANGED executed

\* ota_start has set the boot partition: the next start runs the new firmware.
\* esp_ota_begin refuses while the running image is not confirmed.
UpdateInstalls ==
    /\ gate = "execute" /\ answer \in Updates /\ image # "pending"
    /\ gate' = "save" /\ job' = 0
    /\ executed' = executed \cup {answer}
    /\ image' = "new" /\ trial' = answer /\ undone' = undone \ {answer}
    /\ UNCHANGED <<queue, cur, answer, boot, nvs_seq, made, restarts, server, saved>>

UpdateRestarts ==
    /\ gate = "save"
    /\ nvs_seq' = answer /\ saved' = answer
    /\ Restart
    /\ UNCHANGED <<server, executed>>

PowerFails == Restart /\ UNCHANGED <<nvs_seq, server, ghosts>>

-------------------------------------------------------------------------------

GateStep ==
    \/ Receive \/ PostAccepted \/ PostFails \/ Retry \/ Free \/ RebootCallback \/ Callback
    \/ ExecuteNothing \/ update_setting \/ delete_files \/ reboot \/ update_playlist
    \/ UpdateRefused \/ UpdateFails \/ UpdateInstalls \/ UpdateRestarts
BootStep == PowerOn \/ firmware_update_confirm

Next == BootStep \/ Report \/ notify \/ DownloadEnds \/ GateStep \/ PowerFails

Spec == Init /\ [][Next]_vars
\* The gate and app_main run; HTTP requests end (20 second time-out).  Nobody has
\* to report anything, no download has to end.
FairSpec == Spec /\ WF_vars(GateStep) /\ WF_vars(BootStep)

-------------------------------------------------------------------------------

\* The server gets the messages in the order in which they were put into the queue,
\* retries, dropped messages and restarts included: a track_end is never reported
\* before its track_begin.
OrderPreserved == [][last' >= last]_vars

\* A command that the server saw acknowledged was carried out: a download completed,
\* a firmware was installed.  The acknowledgement of an update never comes from its
\* trial run, which a power failure may still undo: its image has been confirmed by
\* then, or rolled back before (AckedUpdateRuns).
AckedWasExecuted == acked \subseteq executed /\ trial \notin acked

\* firmware_update.c:58 "ack sucessful update": what is acknowledged after a restart
\* is an update that was not rolled back.  TLC refutes it: the old firmware finds the
\* sequence number in flash and sends the acknowledgement.
AckedUpdateRuns == acked \cap undone = {}

\* The sequence number of a finished firmware update stays in flash until the
\* server has the acknowledgement, over failed posts, restarts and power failures.
FirmwareSeqKept == saved # 0 => nvs_seq = saved \/ saved \in acked

\* A command to reboot whose acknowledgement is queued ends in a restart, even if
\* the acknowledgement never gets through.
RebootObeyed ==
    (\E i \in DOMAIN queue : queue[i].callback = "reboot") ~> (boot = "power_on")

\* The gate never blocks on its own queue: a message it has taken is disposed of,
\* and it comes back for the next.
GateComesBack == []<>(gate = "receive")

===============================================================================
