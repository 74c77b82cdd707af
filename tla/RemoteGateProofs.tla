--------------------------- MODULE RemoteGateProofs ---------------------------
(***************************************************************************)
(* Proofs about RemoteGate.tla, for any commands of the server, any length *)
(* of the queue, any number of retries, messages and restarts.             *)
(***************************************************************************)
EXTENDS RemoteGate, SequenceTheorems, TLAPS

\* The gate has a message in hand from the moment it takes one out of the queue.
Holding == gate # "receive" => cur \in Messages

\* The messages on the device: those in the queue and the one in the gate's hand.
OnDevice(m) == (\E i \in 1..Len(queue) : m = queue[i]) \/ (gate # "receive" /\ m = cur)

\* An acknowledgement is only ever made of what was carried out, and so is the number
\* in flash, of which the next start makes one.
AcksTrue ==
    /\ \A m \in Messages : OnDevice(m) /\ m.kind = "ack_ok" => m.seq \in executed
    /\ nvs_seq # 0 => nvs_seq \in executed
    /\ gate = "save" => answer \in Updates \cap executed
    /\ acked \subseteq executed

\* The number in flash is the last one written or 0; a message that will erase it is
\* its acknowledgement, and once the post was accepted the server has it.
SeqTracked ==
    /\ nvs_seq # 0 => nvs_seq = saved
    /\ \A m \in Messages : OnDevice(m) /\ m.callback = "confirm" =>
          m.kind = "ack_ok" /\ (nvs_seq # 0 => m.seq = nvs_seq)
    /\ gate \in {"execute", "save", "accepted"} /\ cur.kind = "ack_ok" => cur.seq \in acked
    /\ FirmwareSeqKept

\* Messages are numbered in the order of the queue; the gate's comes before them, the
\* last one the server got before that.
Ordered ==
    /\ \A i, j \in 1..Len(queue) : i < j => queue[i].id < queue[j].id
    /\ \A i \in 1..Len(queue) : last <= queue[i].id /\ queue[i].id <= made
    /\ gate # "receive" =>
          /\ last <= cur.id /\ cur.id <= made
          /\ \A i \in 1..Len(queue) : cur.id <= queue[i].id
    /\ last <= made

OtaTypes ==
    /\ image \in {"valid", "new", "pending"} /\ trial \in Updates \cup {0}
    /\ undone \subseteq Updates

\* An image is new only until the restart that follows its installation, and while it
\* is pending no acknowledgement of any update is on its way: app_main makes one only
\* after it has confirmed the image.  The server answers with no command that it has
\* seen acknowledged.
OnTrial ==
    /\ image = "new" => gate = "save"
    /\ image = "valid" <=> trial = 0
    /\ image = "pending" =>
          \A m \in Messages : OnDevice(m) /\ m.kind = "ack_ok" => m.seq \notin Updates
    /\ trial \notin acked
    /\ gate = "execute" => answer \notin acked

GateInv == TypeOK /\ Holding /\ AcksTrue /\ SeqTracked /\ Ordered /\ OnTrial

-------------------------------------------------------------------------------
(* What the steps that send have in common: at most one message goes to the *)
(* end of the queue, with a new number, and it tells the truth.             *)

Honest(m) ==
    /\ m.kind = "ack_ok" => m.seq \in executed'
    /\ m.callback = "confirm" => m.kind = "ack_ok" /\ m.seq = nvs_seq
    /\ m.kind = "ack_ok" /\ image' = "pending" => m.seq \notin Updates

Sends ==
    \/ queue' = queue /\ made' \in made..MaxMessages
    \/ \E m \in Messages :
          /\ queue' = Append(queue, m) /\ Len(queue) < QueueLength
          /\ made' = made + 1 /\ m.id = made' /\ Honest(m)

\* What a step that does not restart the device does to its images.
Images ==
    \/ UNCHANGED ota
    \/ image' = "valid" /\ trial' = 0 /\ undone' = undone
    \/ /\ gate = "execute" /\ answer \in Updates /\ gate' = "save"
       /\ image' = "new" /\ trial' = answer /\ undone' = undone \ {answer}

\* A step of the device that neither takes a message nor talks to the server.
Works ==
    /\ Sends /\ made' \in 0..MaxMessages
    /\ gate' = gate \/ (gate = "execute" /\ gate' \in {"accepted", "save"})
    /\ answer' \in Commands \cup {0} /\ boot' \in {"power_on", "confirm", "up"}
    /\ job' \in Playlists \cup {0}
    /\ executed \subseteq executed' /\ executed' \subseteq Commands
    /\ gate' = "save" => answer' \in Updates \cap executed'
    /\ gate' = "execute" => answer' = answer
    /\ Images
    /\ UNCHANGED <<cur, nvs_seq, restarts, server, saved>>

Outgoing == [kind : Kinds, seq : Commands \cup {0}, retries : 0..Retries]

\* The outgoing commands of the code are what their senders need them to be.
LEMMA OutgoingTypes ==
    /\ power_on \in Outgoing /\ track_begin \in Outgoing
    /\ track_end \in Outgoing /\ now_playing \in Outgoing
    /\ \A seq \in Commands \cup {0} :
          /\ ack_ok(seq) \in Outgoing /\ ack_fail(seq) \in Outgoing
          /\ update_playlist_progress(seq) \in Outgoing
BY GateAssumption DEF Outgoing, Kinds, power_on, track_begin, track_end, now_playing,
    ack_ok, ack_fail, update_playlist_progress

\* outgoing_command puts the message it was given, or drops it when the queue is full.
LEMMA OutgoingSends ==
    ASSUME TypeOK, NEW command \in Outgoing, NEW callback \in Callbacks,
           outgoing_command(command, callback),
           command.kind = "ack_ok" => command.seq \in executed',
           callback = "confirm" => command.kind = "ack_ok" /\ command.seq = nvs_seq,
           command.kind = "ack_ok" /\ image' = "pending" => command.seq \notin Updates
    PROVE  Sends /\ made' \in 0..MaxMessages
<1> DEFINE m == Message(made', command, callback)
<1>1. made \in 0..MaxMessages /\ made < MaxMessages /\ made' = made + 1
    BY DEF TypeOK, outgoing_command
<1>2. made' \in 1..MaxMessages /\ made' \in made..MaxMessages
    BY <1>1, GateAssumption
<1>3. m \in Messages
    BY <1>2 DEF Message, Messages, Outgoing
<1>4. m.id = made' /\ m.kind = command.kind /\ m.seq = command.seq /\ m.callback = callback
    BY DEF Message
<1>5. Honest(m)
    BY <1>4 DEF Honest
<1>6. CASE Len(queue) < QueueLength
    BY <1>1, <1>2, <1>3, <1>4, <1>5, <1>6 DEF outgoing_command, Sends
<1>7. CASE ~(Len(queue) < QueueLength)
    BY <1>2, <1>7 DEF outgoing_command, Sends
<1> QED BY <1>6, <1>7

\* Not sending is a way of sending nothing.
LEMMA NoCommandSends ==
    ASSUME TypeOK, NoCommand
    PROVE  Sends /\ made' \in 0..MaxMessages
BY GateAssumption DEF TypeOK, NoCommand, Sends

WorkStep ==
    \/ BootStep \/ Report \/ notify \/ DownloadEnds
    \/ ExecuteNothing \/ update_setting \/ delete_files \/ reboot \/ update_playlist
    \/ UpdateRefused \/ UpdateFails \/ UpdateInstalls

\* Every sender is honest: app_main, the schedulers, the downloader and each handler of
\* an incoming command.
LEMMA SendersWork ==
    ASSUME GateInv, WorkStep
    PROVE  Works
<1> USE DEF GateInv
<1>t. /\ answer \in Commands \cup {0} /\ job \in Playlists \cup {0} /\ executed \subseteq Commands
      /\ boot \in {"power_on", "confirm", "up"} /\ nvs_seq \in Updates \cup {0}
      /\ Updates \subseteq Commands /\ Playlists \subseteq Commands /\ 0 \notin Commands
      /\ \A c \in Settings \cup Deletes \cup Reboots \cup Playlists : c \notin Updates
    BY GateAssumption DEF TypeOK, Commands
<1>c. Callbacks = {"none", "reboot", "confirm"}
    BY DEF Callbacks
<1>s. gate = "save" => answer \in Updates \cap executed
    BY DEF AcksTrue
<1>1. CASE PowerOn
    <2>1. power_on \in Outgoing /\ power_on.kind # "ack_ok"
        BY OutgoingTypes DEF power_on
    <2>2. Sends /\ made' \in 0..MaxMessages
        BY <1>1, <1>c, <2>1, OutgoingSends DEF PowerOn
    <2> QED BY <1>1, <1>t, <1>s, <2>2 DEF PowerOn, Works, Images, ghosts
<1>2. CASE firmware_update_confirm
    <2>1. CASE nvs_seq = 0
        <3>1. Sends /\ made' \in 0..MaxMessages
            BY <1>2, <2>1, NoCommandSends DEF firmware_update_confirm
        <3> QED BY <1>2, <1>t, <1>s, <3>1 DEF firmware_update_confirm, Works, Images, ghosts
    <2>2. CASE nvs_seq # 0
        <3>1. ack_ok(nvs_seq) \in Outgoing
            BY <1>t, OutgoingTypes
        <3>2. ack_ok(nvs_seq).kind = "ack_ok" /\ ack_ok(nvs_seq).seq = nvs_seq
            BY DEF ack_ok
        <3>3. nvs_seq \in executed'
            BY <1>2, <2>2 DEF AcksTrue, firmware_update_confirm, ghosts
        <3>4. Sends /\ made' \in 0..MaxMessages
            BY <1>2, <1>c, <2>2, <3>1, <3>2, <3>3, OutgoingSends DEF firmware_update_confirm
        <3> QED BY <1>2, <1>t, <1>s, <3>4 DEF firmware_update_confirm, Works, Images, ghosts
    <2> QED BY <2>1, <2>2
<1>3. CASE Report
    <2>1. PICK command \in {now_playing, track_begin, track_end} :
             outgoing_command(command, "none")
        BY <1>3 DEF Report
    <2>2. command \in Outgoing /\ command.kind # "ack_ok"
        BY <2>1, OutgoingTypes DEF now_playing, track_begin, track_end
    <2>3. Sends /\ made' \in 0..MaxMessages
        BY <1>c, <2>1, <2>2, OutgoingSends
    <2> QED BY <1>3, <1>t, <1>s, <2>3 DEF Report, Works, Images, ghosts
<1>4. CASE notify
    <2>1. /\ update_playlist_progress(job) \in Outgoing
          /\ update_playlist_progress(job).kind # "ack_ok"
        BY <1>t, OutgoingTypes DEF update_playlist_progress
    <2>2. Sends /\ made' \in 0..MaxMessages
        BY <1>4, <1>c, <2>1, OutgoingSends DEF notify
    <2> QED BY <1>4, <1>t, <1>s, <2>2 DEF notify, Works, Images, ghosts
<1>5. CASE DownloadEnds
    <2>1. /\ ack_ok(job) \in Outgoing /\ ack_fail(job) \in Outgoing
          /\ ack_ok(job).seq = job /\ ack_fail(job).kind # "ack_ok"
          /\ job \in Playlists /\ job \notin Updates
        BY <1>5, <1>t, OutgoingTypes DEF ack_ok, ack_fail, DownloadEnds
    <2>2. Sends /\ made' \in 0..MaxMessages
        BY <1>5, <1>c, <2>1, OutgoingSends DEF DownloadEnds
    <2>3. executed \subseteq executed' /\ executed' \subseteq Commands
        BY <1>5, <1>t, <2>1 DEF DownloadEnds
    <2>4. gate' = "save" => answer' \in Updates \cap executed'
        BY <1>5, <1>s, <2>3 DEF DownloadEnds
    <2> QED BY <1>5, <1>t, <2>2, <2>3, <2>4 DEF DownloadEnds, Works, Images
<1>6. ASSUME NEW S, Executes(S)
      PROVE  /\ gate = "execute" /\ gate' = "accepted" /\ answer' \in Commands \cup {0}
             /\ boot' = boot /\ answer \in S /\ Images
             /\ UNCHANGED <<cur, nvs_seq, restarts, server, saved>>
    BY <1>6 DEF Executes, Images
<1>7. ASSUME NEW done \in BOOLEAN, NEW callback \in {"none", "reboot"},
             answer \in Commands \ Updates, Outcome(done, callback)
      PROVE  /\ Sends /\ made' \in 0..MaxMessages
             /\ executed \subseteq executed' /\ executed' \subseteq Commands
    <2>1. /\ ack_ok(answer) \in Outgoing /\ ack_fail(answer) \in Outgoing
          /\ ack_ok(answer).seq = answer /\ ack_fail(answer).kind # "ack_ok"
        BY <1>7, OutgoingTypes DEF ack_ok, ack_fail
    <2>2. CASE done
        BY <1>7, <1>c, <1>t, <2>1, <2>2, OutgoingSends DEF Outcome
    <2>3. CASE ~done
        BY <1>7, <1>c, <1>t, <2>1, <2>3, OutgoingSends DEF Outcome
    <2> QED BY <2>2, <2>3
<1>8. CASE ExecuteNothing
    <2>1. Sends /\ made' \in 0..MaxMessages
        BY <1>8, NoCommandSends DEF ExecuteNothing
    <2> QED BY <1>8, <1>6, <1>t, <2>1 DEF ExecuteNothing, Works
<1>9. CASE update_setting
    <2>1. Executes(Settings) /\ answer \in Commands \ Updates /\ job' = job
        BY <1>9, <1>6, <1>t DEF update_setting, Commands
    <2>2. /\ Sends /\ made' \in 0..MaxMessages
          /\ executed \subseteq executed' /\ executed' \subseteq Commands
        BY <1>9, <1>7, <2>1 DEF update_setting
    <2> QED BY <1>6, <1>t, <2>1, <2>2 DEF Works
<1>10. CASE delete_files
    <2>1. Executes(Deletes) /\ answer \in Commands \ Updates /\ job' = 0
        BY <1>10, <1>6, <1>t DEF delete_files, Commands
    <2>2. /\ Sends /\ made' \in 0..MaxMessages
          /\ executed \subseteq executed' /\ executed' \subseteq Commands
        BY <1>10, <1>7, <2>1 DEF delete_files
    <2> QED BY <1>6, <1>t, <2>1, <2>2 DEF Works
<1>11. CASE reboot
    <2>1. Executes(Reboots) /\ answer \in Commands \ Updates /\ job' = job
        BY <1>11, <1>6, <1>t DEF reboot, Commands
    <2>2. /\ Sends /\ made' \in 0..MaxMessages
          /\ executed \subseteq executed' /\ executed' \subseteq Commands
        BY <1>11, <1>7, <2>1 DEF reboot
    <2> QED BY <1>6, <1>t, <2>1, <2>2 DEF Works
<1>12. CASE update_playlist
    <2>1. Executes(Playlists) /\ answer \in Playlists /\ executed' = executed
        BY <1>12, <1>6 DEF update_playlist
    <2>2. ack_fail(answer) \in Outgoing /\ ack_fail(answer).kind # "ack_ok"
        BY <1>t, OutgoingTypes DEF ack_fail
    <2>3. Sends /\ made' \in 0..MaxMessages
        BY <1>12, <1>c, <2>2, OutgoingSends, NoCommandSends DEF update_playlist
    <2>4. job' \in Playlists \cup {0}
        BY <1>12, <2>1 DEF update_playlist
    <2> QED BY <1>6, <1>t, <2>1, <2>3, <2>4 DEF Works
<1>13. CASE UpdateRefused
    <2>1. Sends /\ made' \in 0..MaxMessages
        BY <1>13, NoCommandSends DEF UpdateRefused
    <2> QED BY <1>13, <1>6, <1>t, <2>1 DEF UpdateRefused, Works
<1>14. CASE UpdateFails
    <2>1. Sends /\ made' \in 0..MaxMessages
        BY <1>14, NoCommandSends DEF UpdateFails
    <2> QED BY <1>14, <1>6, <1>t, <2>1 DEF UpdateFails, Works
<1>15. CASE UpdateInstalls
    <2>1. Sends /\ made' \in 0..MaxMessages
        BY <1>15, NoCommandSends DEF UpdateInstalls, NoCommand
    <2> QED BY <1>15, <1>t, <2>1 DEF UpdateInstalls, Works, Images
<1> QED BY <1>1, <1>2, <1>3, <1>4, <1>5, <1>8, <1>9, <1>10, <1>11, <1>12, <1>13, <1>14, <1>15
        DEF WorkStep, BootStep

-------------------------------------------------------------------------------
(* The invariant, first over the steps that work, then over the others.     *)

\* The elements of the queue are messages, with their numbers.
LEMMA QueueTypes ==
    ASSUME TypeOK
    PROVE  /\ Len(queue) \in Nat
           /\ \A i \in 1..Len(queue) : queue[i] \in Messages /\ queue[i].id \in Nat
<1>1. queue \in Seq(Messages) /\ Len(queue) \in Nat
    BY LenProperties DEF TypeOK
<1>2. \A i \in 1..Len(queue) : queue[i] \in Messages
    BY <1>1, ElementOfSeq
<1>3. \A m \in Messages : m.id \in Nat
    BY GateAssumption DEF Messages
<1> QED BY <1>1, <1>2, <1>3

\* What the queue holds after a step that works: what it held, in its place, and behind
\* that perhaps the new message.
LEMMA QueueAfterWork ==
    ASSUME GateInv, Works
    PROVE  /\ queue' \in Seq(Messages) /\ Len(queue') <= QueueLength
           /\ Len(queue) <= Len(queue') /\ Len(queue') <= Len(queue) + 1
           /\ \A i \in 1..Len(queue) : queue'[i] = queue[i]
           /\ Len(queue') # Len(queue) =>
                 /\ Len(queue') = Len(queue) + 1 /\ queue'[Len(queue')].id = made + 1
                 /\ made' = made + 1 /\ Honest(queue'[Len(queue')])
<1>1. queue \in Seq(Messages) /\ Len(queue) \in Nat /\ Len(queue) <= QueueLength
    BY LenProperties DEF GateInv, TypeOK
<1>2. CASE queue' = queue
    BY <1>1, <1>2
<1>3. CASE queue' # queue
    <2>1. PICK m \in Messages :
             /\ queue' = Append(queue, m) /\ Len(queue) < QueueLength
             /\ made' = made + 1 /\ m.id = made' /\ Honest(m)
        BY <1>3 DEF Works, Sends
    <2>2. /\ queue' \in Seq(Messages) /\ Len(queue') = Len(queue) + 1
          /\ \A i \in 1..Len(queue) : queue'[i] = queue[i]
          /\ queue'[Len(queue) + 1] = m
        BY <1>1, <2>1, AppendProperties
    <2> QED BY <1>1, <2>1, <2>2, GateAssumption
<1> QED BY <1>2, <1>3

\* A step that works keeps the invariant.
LEMMA WorkKeeps ==
    ASSUME GateInv, Works
    PROVE  GateInv'
<1> USE DEF GateInv
<1>q. /\ queue' \in Seq(Messages) /\ Len(queue') <= QueueLength
      /\ Len(queue) <= Len(queue') /\ Len(queue') <= Len(queue) + 1
      /\ \A i \in 1..Len(queue) : queue'[i] = queue[i]
      /\ Len(queue') # Len(queue) =>
            /\ Len(queue') = Len(queue) + 1 /\ queue'[Len(queue')].id = made + 1
            /\ made' = made + 1 /\ Honest(queue'[Len(queue')])
    BY QueueAfterWork
<1>n. Len(queue) \in Nat /\ Len(queue') \in Nat /\ made \in Nat /\ last \in Nat
      /\ made' \in Nat /\ made <= made'
    <2>1. Len(queue) \in Nat
        BY LenProperties DEF TypeOK
    <2>2. Len(queue') \in Nat
        BY <1>q, LenProperties
    <2>3. made \in Nat /\ last \in Nat /\ made' \in Nat
        BY GateAssumption DEF TypeOK, Works
    <2>4. made <= made'
        BY <2>3, GateAssumption DEF Works, Sends
    <2> QED BY <2>1, <2>2, <2>3, <2>4
<1>i. \A i \in 1..Len(queue') :
         \/ i \in 1..Len(queue) /\ queue'[i] = queue[i]
         \/ /\ i = Len(queue) + 1 /\ queue'[i].id = made + 1 /\ made' = made + 1
            /\ Honest(queue'[i])
    BY <1>q, <1>n
<1>u. /\ cur' = cur /\ nvs_seq' = nvs_seq /\ saved' = saved /\ acked' = acked /\ last' = last
      /\ restarts' = restarts /\ executed \subseteq executed'
      /\ (gate' = "receive" <=> gate = "receive")
      /\ gate' = gate \/ (gate = "execute" /\ gate' \in {"accepted", "save"})
    BY DEF Works, server
<1>o. \A m \in Messages : OnDevice(m)' => OnDevice(m) \/ Honest(m)
    BY <1>i, <1>u DEF OnDevice
<1>y. OtaTypes'
    BY DEF TypeOK, OtaTypes, Works, Images, ota
<1>1. TypeOK'
    BY <1>q, <1>u, <1>y DEF TypeOK, OtaTypes, Works
<1>2. Holding'
    BY <1>u DEF Holding
<1>3. AcksTrue'
    <2>1. ASSUME NEW m \in Messages, OnDevice(m)', m.kind = "ack_ok"
          PROVE  m.seq \in executed'
        BY <2>1, <1>o, <1>u DEF AcksTrue, Honest
    <2>2. (nvs_seq # 0 => nvs_seq \in executed)'
        BY <1>u DEF AcksTrue
    <2>3. (gate = "save" => answer \in Updates \cap executed)'
        BY DEF Works
    <2>4. (acked \subseteq executed)'
        BY <1>u DEF AcksTrue
    <2> QED BY <2>1, <2>2, <2>3, <2>4 DEF AcksTrue
<1>4. SeqTracked'
    <2>1. ASSUME NEW m \in Messages, OnDevice(m)', m.callback = "confirm"
          PROVE  m.kind = "ack_ok" /\ (nvs_seq # 0 => m.seq = nvs_seq)'
        BY <2>1, <1>o, <1>u DEF SeqTracked, Honest
    <2>2. (nvs_seq # 0 => nvs_seq = saved)'
        BY <1>u DEF SeqTracked
    <2>3. (gate \in {"execute", "save", "accepted"} /\ cur.kind = "ack_ok" => cur.seq \in acked)'
        BY <1>u DEF SeqTracked
    <2>4. FirmwareSeqKept'
        BY <1>u DEF SeqTracked, FirmwareSeqKept
    <2> QED BY <2>1, <2>2, <2>3, <2>4 DEF SeqTracked
<1>5. Ordered'
    <2>t. \A i \in 1..Len(queue) : queue[i].id \in Nat
        BY QueueTypes
    <2>1. ASSUME NEW i \in 1..Len(queue'), NEW j \in 1..Len(queue'), i < j
          PROVE  queue'[i].id < queue'[j].id
        <3>1. CASE j \in 1..Len(queue)
            BY <1>i, <1>n, <2>1, <3>1 DEF Ordered
        <3>2. CASE j \notin 1..Len(queue)
            <4>1. queue'[j].id = made + 1 /\ i \in 1..Len(queue) /\ queue'[i] = queue[i]
                BY <1>i, <1>n, <2>1, <3>2
            <4> QED BY <4>1, <1>n, <2>t DEF Ordered
        <3> QED BY <3>1, <3>2
    <2>2. ASSUME NEW i \in 1..Len(queue')
          PROVE  last' <= queue'[i].id /\ queue'[i].id <= made'
        BY <1>i, <1>n, <1>u, <2>t DEF Ordered
    <2>3. ASSUME gate' # "receive"
          PROVE  /\ last' <= cur'.id /\ cur'.id <= made'
                 /\ \A i \in 1..Len(queue') : cur'.id <= queue'[i].id
        <3>1. gate # "receive" /\ cur.id \in Nat
            BY <2>3, <1>u DEF Holding, Messages
        <3> QED BY <3>1, <1>i, <1>n, <1>u, <2>t DEF Ordered
    <2>4. last' <= made'
        BY <1>n, <1>u DEF Ordered
    <2> QED BY <2>1, <2>2, <2>3, <2>4 DEF Ordered
<1>6. OnTrial'
    <2>0. 0 \notin acked /\ 0 \notin Updates
        BY GateAssumption DEF TypeOK, Commands
    <2>1. /\ (image = "new" => gate = "save")' /\ (image = "valid" <=> trial = 0)'
          /\ (trial \notin acked)' /\ (gate = "execute" => answer \notin acked)'
        BY <1>u, <2>0 DEF OnTrial, Works, Images, ota
    <2>2. ASSUME image' = "pending", NEW m \in Messages, OnDevice(m)', m.kind = "ack_ok"
          PROVE  m.seq \notin Updates
        <3>1. image = "pending"
            BY <2>2 DEF Works, Images, ota
        <3> QED BY <2>2, <3>1, <1>o DEF OnTrial, Honest
    <2> QED BY <2>1, <2>2 DEF OnTrial
<1> QED BY <1>1, <1>2, <1>3, <1>4, <1>5, <1>6

\* Taking a message out of the queue keeps the invariant.
LEMMA ReceiveKeeps ==
    ASSUME GateInv, Receive
    PROVE  GateInv'
<1> USE DEF GateInv
<1>q. queue \in Seq(Messages) /\ queue # <<>> /\ Len(queue) \in Nat /\ Len(queue) <= QueueLength
    BY LenProperties DEF TypeOK, Receive
<1>h. /\ cur' = queue[1] /\ queue' \in Seq(Messages) /\ Len(queue') = Len(queue) - 1
      /\ \A i \in 1..Len(queue') : queue'[i] = queue[i + 1]
    <2>1. cur' = Head(queue) /\ queue' = Tail(queue)
        BY DEF Receive
    <2> QED BY <1>q, <2>1, HeadTailProperties
<1>e. Len(queue) >= 1 /\ Len(queue') \in Nat
    <2>1. Len(queue) # 0
        BY <1>q, EmptySeq
    <2> QED BY <1>q, <1>h, <2>1
<1>t. cur' \in Messages
    BY <1>q, <1>h, <1>e, QueueTypes
<1>u. /\ gate = "receive" /\ gate' = "post" /\ answer' = answer /\ boot' = boot /\ job' = job
      /\ nvs_seq' = nvs_seq /\ saved' = saved /\ acked' = acked /\ last' = last
      /\ made' = made /\ restarts' = restarts /\ executed' = executed
    BY DEF Receive, server, ghosts
<1>o. \A m \in Messages : OnDevice(m)' => OnDevice(m)
    BY <1>h, <1>e, <1>u DEF OnDevice
<1>y. ota' = ota /\ OtaTypes'
    BY DEF Receive, TypeOK, OtaTypes, ota
<1>1. TypeOK'
    BY <1>q, <1>h, <1>e, <1>t, <1>u, <1>y, GateAssumption DEF TypeOK, OtaTypes
<1>2. Holding'
    BY <1>t DEF Holding
<1>3. AcksTrue'
    BY <1>o, <1>u DEF AcksTrue
<1>4. SeqTracked'
    BY <1>o, <1>u DEF SeqTracked, FirmwareSeqKept
<1>5. Ordered'
    <2>n. /\ made \in Nat /\ last \in Nat
          /\ \A i \in 1..Len(queue) : queue[i].id \in Nat
        BY QueueTypes, GateAssumption DEF TypeOK
    <2>1. ASSUME NEW i \in 1..Len(queue'), NEW j \in 1..Len(queue'), i < j
          PROVE  queue'[i].id < queue'[j].id
        <3>1. /\ i + 1 \in 1..Len(queue) /\ j + 1 \in 1..Len(queue) /\ i + 1 < j + 1
              /\ queue'[i] = queue[i + 1] /\ queue'[j] = queue[j + 1]
            BY <1>h, <1>e, <1>q, <2>1
        <3> QED BY <3>1 DEF Ordered
    <2>2. ASSUME NEW i \in 1..Len(queue')
          PROVE  last' <= queue'[i].id /\ queue'[i].id <= made'
        BY <1>h, <1>e, <1>q, <1>u DEF Ordered
    <2>3. /\ last' <= cur'.id /\ cur'.id <= made'
          /\ \A i \in 1..Len(queue') : cur'.id <= queue'[i].id
        BY <1>h, <1>e, <1>q, <1>u, <2>n DEF Ordered
    <2>4. last' <= made'
        BY <1>u DEF Ordered
    <2> QED BY <2>1, <2>2, <2>3, <2>4 DEF Ordered
<1>6. OnTrial'
    BY <1>o, <1>u, <1>y DEF OnTrial, ota
<1> QED BY <1>1, <1>2, <1>3, <1>4, <1>5, <1>6

\* The ways a post can end keep the invariant.
LEMMA PostKeeps ==
    ASSUME GateInv, PostAccepted \/ PostFails
    PROVE  GateInv'
<1> USE DEF GateInv
<1>u. /\ gate = "post" /\ gate' \in {"execute", "refused"} /\ queue' = queue /\ cur' = cur
      /\ boot' = boot /\ job' = job /\ nvs_seq' = nvs_seq /\ saved' = saved
      /\ made' = made /\ restarts' = restarts /\ executed' = executed
      /\ ServerTakes \/ (gate' = "refused" /\ last' = last /\ acked' = acked)
    BY DEF PostAccepted, PostFails, ghosts, server
<1>a. answer' \in Commands \cup {0}
    BY DEF TypeOK, PostAccepted, PostFails, ServerAnswers, Collected
<1>c. cur \in Messages /\ cur.id \in 1..MaxMessages /\ cur.seq \in Commands \cup {0}
    BY <1>u DEF Holding, Messages
<1>s. cur.kind = "ack_ok" => cur.seq \in executed
    BY <1>c, <1>u DEF AcksTrue, OnDevice
<1>v. /\ acked \subseteq acked' /\ acked' \subseteq executed
      /\ gate' = "execute" /\ cur.kind = "ack_ok" => cur.seq \in acked'
      /\ last' = cur.id \/ last' = last
    BY <1>u, <1>s DEF ServerTakes, AcksTrue
<1>o. \A m \in Messages : OnDevice(m)' => OnDevice(m)
    BY <1>u DEF OnDevice
<1>y. ota' = ota /\ OtaTypes'
    BY DEF PostAccepted, PostFails, TypeOK, OtaTypes, ota
<1>1. TypeOK'
    BY <1>u, <1>a, <1>c, <1>v, <1>y, GateAssumption DEF TypeOK, OtaTypes
<1>2. Holding'
    BY <1>u, <1>c DEF Holding
<1>3. AcksTrue'
    BY <1>u, <1>o, <1>v DEF AcksTrue
<1>4. SeqTracked'
    BY <1>u, <1>o, <1>v DEF SeqTracked, FirmwareSeqKept
<1>5. Ordered'
    BY <1>u, <1>v, <1>c, QueueTypes, GateAssumption DEF Ordered, TypeOK
<1>6. OnTrial'
    <2>1. (gate = "execute" => answer \notin acked)'
        <3>1. 0 \notin acked'
            BY <1>v, GateAssumption DEF TypeOK
        <3>2. CASE PostAccepted
            BY <3>1, <3>2 DEF PostAccepted, ServerAnswers, Collected
        <3>3. CASE PostFails
            BY <3>3 DEF PostFails
        <3> QED BY <3>2, <3>3
    <2>2. (trial \notin acked)'
        <3>1. CASE image = "pending"
            <4>1. cur.kind = "ack_ok" => cur.seq \notin Updates
                BY <3>1, <1>c, <1>u DEF OnTrial, OnDevice
            <4>2. trial \in Updates
                BY <3>1, GateAssumption DEF TypeOK, OnTrial
            <4> QED BY <4>1, <4>2, <1>u, <1>y DEF OnTrial, ServerTakes, ota
        <3>2. CASE image # "pending"
            <4>1. trial = 0 /\ 0 \notin acked'
                BY <3>2, <1>u, <1>v, GateAssumption DEF OnTrial, TypeOK
            <4> QED BY <4>1, <1>y DEF ota
        <3> QED BY <3>1, <3>2
    <2> QED BY <2>1, <2>2, <1>o, <1>u, <1>y DEF OnTrial, ota
<1> QED BY <1>1, <1>2, <1>3, <1>4, <1>5, <1>6

\* Giving up or repeating a message, and what its callback does to the flash, keep
\* the invariant.
LEMMA AfterPostKeeps ==
    ASSUME GateInv, Retry \/ Free \/ Callback
    PROVE  GateInv'
<1> USE DEF GateInv
<1>u. /\ gate \in {"again", "free", "accepted", "refused"}
      /\ gate' \in {"post", "free", "receive", "again"}
      /\ queue' = queue /\ answer' = answer
      /\ boot' = boot /\ job' = job /\ saved' = saved /\ made' = made /\ restarts' = restarts
      /\ executed' = executed /\ last' = last /\ acked' = acked
    BY DEF Retry, Free, Callback, ghosts, server
<1>c. cur \in Messages /\ OnDevice(cur)
    BY <1>u DEF Holding, OnDevice
<1>d. \/ gate' = "receive" /\ cur' = Nothing
      \/ /\ cur' \in Messages /\ cur'.id = cur.id /\ cur'.kind = cur.kind
         /\ cur'.seq = cur.seq /\ cur'.callback = cur.callback
    <2>1. CASE Retry /\ cur.retries > 0
        <3>1. cur' = [cur EXCEPT !.retries = @ - 1] /\ cur.retries \in 0..Retries
            BY <2>1, <1>c DEF Retry, Messages
        <3>2. cur.retries - 1 \in 0..Retries
            BY <3>1, <2>1, GateAssumption
        <3> QED BY <3>1, <3>2, <1>c DEF Messages
    <2>2. CASE Retry /\ ~(cur.retries > 0)
        BY <2>2, <1>c DEF Retry
    <2>3. CASE Free
        BY <2>3 DEF Free
    <2>4. CASE Callback
        BY <2>4, <1>c DEF Callback
    <2> QED BY <2>1, <2>2, <2>3, <2>4
<1>n. /\ nvs_seq' = nvs_seq \/ nvs_seq' = 0
      /\ nvs_seq' # nvs_seq => gate = "accepted" /\ cur.callback = "confirm"
    BY DEF Retry, Free, Callback
<1>o. \A m \in Messages : OnDevice(m)' =>
         \E k \in Messages : /\ OnDevice(k) /\ m.kind = k.kind /\ m.seq = k.seq
                             /\ m.callback = k.callback
    BY <1>u, <1>c, <1>d DEF OnDevice
<1>y. ota' = ota /\ OtaTypes'
    BY DEF Retry, Free, Callback, TypeOK, OtaTypes, ota
<1>1. TypeOK'
    BY <1>u, <1>c, <1>d, <1>n, <1>y DEF TypeOK, OtaTypes
<1>2. Holding'
    BY <1>u, <1>d DEF Holding
<1>3. AcksTrue'
    <2>1. ASSUME NEW m \in Messages, OnDevice(m)', m.kind = "ack_ok"
          PROVE  m.seq \in executed'
        BY <2>1, <1>o, <1>u DEF AcksTrue
    <2> QED BY <2>1, <1>u, <1>n DEF AcksTrue
<1>4. SeqTracked'
    <2>1. ASSUME NEW m \in Messages, OnDevice(m)', m.callback = "confirm"
          PROVE  m.kind = "ack_ok" /\ (nvs_seq' # 0 => m.seq = nvs_seq')
        BY <2>1, <1>o, <1>n DEF SeqTracked
    <2>2. FirmwareSeqKept'
        <3>1. CASE nvs_seq' = nvs_seq
            BY <3>1, <1>u DEF SeqTracked, FirmwareSeqKept
        <3>2. CASE nvs_seq' # nvs_seq
            <4>1. /\ gate = "accepted" /\ cur.kind = "ack_ok" /\ cur.seq = nvs_seq
                  /\ nvs_seq # 0 /\ nvs_seq = saved
                BY <3>2, <1>n, <1>c DEF SeqTracked
            <4>2. saved \in acked
                BY <4>1 DEF SeqTracked
            <4> QED BY <4>2, <1>u DEF FirmwareSeqKept
        <3> QED BY <3>1, <3>2
    <2>3. (nvs_seq # 0 => nvs_seq = saved)'
        BY <1>n, <1>u DEF SeqTracked
    <2> QED BY <2>1, <2>2, <2>3, <1>u DEF SeqTracked
<1>5. Ordered'
    BY <1>u, <1>d, QueueTypes DEF Ordered
<1>6. OnTrial'
    <2>1. ASSUME image = "pending", NEW m \in Messages, OnDevice(m)', m.kind = "ack_ok"
          PROVE  m.seq \notin Updates
        BY <2>1, <1>o DEF OnTrial
    <2> QED BY <2>1, <1>u, <1>y DEF OnTrial, ota
<1> QED BY <1>1, <1>2, <1>3, <1>4, <1>5, <1>6

\* Restarts keep the invariant: the queue is lost, the flash and the server are not.
LEMMA RestartKeeps ==
    ASSUME GateInv, RebootCallback \/ UpdateRestarts \/ PowerFails
    PROVE  GateInv'
<1> USE DEF GateInv
<1>u. /\ queue' = <<>> /\ gate' = "receive" /\ cur' = Nothing /\ answer' = 0
      /\ boot' = "power_on" /\ job' = 0 /\ made' = made
      /\ restarts < MaxRestarts /\ restarts' = restarts + 1
      /\ executed' = executed /\ last' = last /\ acked' = acked
    BY DEF RebootCallback, UpdateRestarts, PowerFails, Restart, ghosts, server
<1>n. \/ nvs_seq' = nvs_seq /\ saved' = saved
      \/ gate = "save" /\ nvs_seq' = answer /\ saved' = answer
    BY DEF RebootCallback, UpdateRestarts, PowerFails, ghosts
<1>s. gate = "save" => answer \in Updates \cap executed
    BY DEF AcksTrue
<1>q. queue' \in Seq(Messages) /\ Len(queue') = 0
    BY <1>u, EmptySeq
<1>o. \A m \in Messages : ~OnDevice(m)'
    BY <1>u, <1>q DEF OnDevice
<1>b. Bootloader
    BY DEF RebootCallback, UpdateRestarts, PowerFails, Restart
<1>y. OtaTypes'
    <2>1. image = "pending" => trial \in Updates
        BY DEF TypeOK, OnTrial
    <2> QED BY <1>b, <2>1 DEF Bootloader, TypeOK, OtaTypes
<1>1. TypeOK'
    BY <1>u, <1>n, <1>s, <1>q, <1>y, GateAssumption DEF TypeOK, OtaTypes
<1>2. Holding'
    BY <1>u DEF Holding
<1>3. AcksTrue'
    BY <1>u, <1>n, <1>s, <1>o DEF AcksTrue
<1>4. SeqTracked'
    BY <1>u, <1>n, <1>o DEF SeqTracked, FirmwareSeqKept
<1>5. Ordered'
    BY <1>u, <1>q DEF Ordered
<1>6. OnTrial'
    <2>1. 0 \notin acked
        BY GateAssumption DEF TypeOK
    <2> QED BY <1>u, <1>o, <1>b, <2>1 DEF OnTrial, Bootloader
<1> QED BY <1>1, <1>2, <1>3, <1>4, <1>5, <1>6

-------------------------------------------------------------------------------

\* The device and the server start within the invariant.
LEMMA GateInvInit == Init => GateInv
<1> SUFFICES ASSUME Init PROVE GateInv
    OBVIOUS
<1>1. queue \in Seq(Messages) /\ Len(queue) = 0
    BY EmptySeq DEF Init
<1>2. TypeOK
    BY <1>1, GateAssumption DEF Init, TypeOK
<1>3. Holding /\ Ordered
    BY <1>1 DEF Init, Holding, Ordered
<1>4. AcksTrue /\ SeqTracked
    BY <1>1 DEF Init, AcksTrue, SeqTracked, OnDevice, FirmwareSeqKept
<1>5. OnTrial
    BY DEF Init, OnTrial
<1> QED BY <1>2, <1>3, <1>4, <1>5 DEF GateInv

\* Every step keeps the invariant.
LEMMA GateInvStep == GateInv /\ [Next]_vars => GateInv'
<1> SUFFICES ASSUME GateInv, [Next]_vars PROVE GateInv'
    OBVIOUS
<1>1. CASE WorkStep
    BY <1>1, SendersWork, WorkKeeps
<1>2. CASE Receive
    BY <1>2, ReceiveKeeps
<1>3. CASE PostAccepted \/ PostFails
    BY <1>3, PostKeeps
<1>4. CASE Retry \/ Free \/ Callback
    BY <1>4, AfterPostKeeps
<1>5. CASE RebootCallback \/ UpdateRestarts \/ PowerFails
    BY <1>5, RestartKeeps
<1>6. CASE UNCHANGED vars
    BY <1>6 DEF vars, device, ota, server, ghosts, GateInv, TypeOK, Holding, OnDevice,
        AcksTrue, SeqTracked, FirmwareSeqKept, Ordered, OnTrial
<1> QED BY <1>1, <1>2, <1>3, <1>4, <1>5, <1>6 DEF Next, GateStep, WorkStep

\* The inductive invariant of the gate.
THEOREM GateInvariant == Spec => []GateInv
BY GateInvInit, GateInvStep, PTL DEF Spec

\* The queue, the gate and the server only ever hold what their code can handle; in
\* particular the queue never grows past QUEUE_LENGTH.
THEOREM GateTypes == Spec => []TypeOK
<1>1. GateInv => TypeOK
    BY DEF GateInv
<1> QED BY GateInvariant, <1>1, PTL

\* What the server sees acknowledged was carried out, over any loss of messages,
\* retries, restarts, power failures and rollbacks, and no acknowledgement comes from
\* the unconfirmed first run of an image.
THEOREM AcksAreTrue == Spec => []AckedWasExecuted
<1>1. GateInv => AckedWasExecuted
    BY DEF GateInv, AcksTrue, OnTrial, AckedWasExecuted
<1> QED BY GateInvariant, <1>1, PTL

\* The sequence number of a firmware update is only erased once the server has it.
THEOREM FirmwareSeqSurvives == Spec => []FirmwareSeqKept
<1>1. GateInv => FirmwareSeqKept
    BY DEF GateInv, SeqTracked
<1> QED BY GateInvariant, <1>1, PTL

\* The server receives the messages in the order in which they were put: the message
\* in the gate's hand is never older than the last one received.
THEOREM MessagesInOrder == Spec => OrderPreserved
<1>1. GateInv /\ [Next]_vars => [last' >= last]_vars
    <2> SUFFICES ASSUME GateInv, Next PROVE last' >= last
        BY DEF vars
    <2>1. last \in Nat
        BY GateAssumption DEF GateInv, TypeOK
    <2>2. CASE PostAccepted \/ PostFails
        <3>1. gate = "post" /\ (last' = last \/ last' = cur.id)
            BY <2>2 DEF PostAccepted, PostFails, ServerTakes, server
        <3>2. cur \in Messages /\ last <= cur.id
            BY <3>1 DEF GateInv, Ordered, Holding
        <3>3. cur.id \in Nat
            BY <3>2, GateAssumption DEF Messages
        <3> QED BY <2>1, <3>1, <3>2, <3>3
    <2>3. CASE WorkStep
        BY <2>1, <2>3, SendersWork DEF Works, server
    <2>4. CASE Receive \/ Retry \/ Free \/ Callback
        BY <2>1, <2>4 DEF Receive, Retry, Free, Callback, server
    <2>5. CASE RebootCallback \/ UpdateRestarts \/ PowerFails
        BY <2>1, <2>5 DEF RebootCallback, UpdateRestarts, PowerFails, server
    <2> QED BY <2>2, <2>3, <2>4, <2>5 DEF Next, GateStep, WorkStep
<1> QED BY GateInvariant, <1>1, PTL DEF Spec, OrderPreserved

===============================================================================
