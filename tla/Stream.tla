-------------------------------- MODULE Stream --------------------------------
(***************************************************************************)
(* firmware/main/audio/stream.c: a task receives an HTTP stream and puts   *)
(* it into a ring buffer, from which the player task (the listener) feeds  *)
(* the decoder.  Data comes in numbered units; a chunk is a few of them.   *)
(***************************************************************************)
EXTENDS Naturals, Sequences

CONSTANTS
    Units,      \* bound: units the server sends
    ChunkSize,  \* read_chunk_size, in units
    MaxChunks   \* STREAM_BUFFER_MAX_CHUNKS

ASSUME StreamAssumption ==
    Units \in Nat /\ ChunkSize \in Nat \ {0} /\ MaxChunks \in Nat \ {0}

VARIABLES
    objects,   \* what exists of "socket", "ring", "group"
    received,  \* units taken from the socket
    hand,      \* the receiving task: chunk_buf
    task,      \* the receiving task: next step, "none" if there is no task
    ring,      \* units in the ring buffer
    held,      \* units handed out and not given back, which still take up room
    events,    \* EOS_BIT, STOP_BIT
    listener,  \* the player task: next step
    heard      \* units that reached the decoder, in order

streamVars == <<objects, received, hand, task, ring, held, events, listener, heard>>

Dummy == 0   \* the byte stream_stop writes

StreamInit ==
    /\ objects = {} /\ received = 0 /\ hand = <<>> /\ task = "none"
    /\ ring = <<>> /\ held = 0 /\ events = {}
    /\ listener = "open" /\ heard = <<>>

Turns(from, to) == listener = from /\ listener' = to
Room(n) == Len(ring) + held + n <= MaxChunks * ChunkSize

-------------------------------------------------------------------------------
(* stream_start                                                            *)

OpenSocket ==
    /\ Turns("open", "ring") /\ objects' = objects \cup {"socket"}
    /\ UNCHANGED <<received, hand, task, ring, held, events, heard>>

CreateRing ==
    /\ Turns("ring", "group") /\ objects' = objects \cup {"ring"}
    /\ UNCHANGED <<received, hand, task, ring, held, events, heard>>

CreateGroup ==
    /\ Turns("group", "task") /\ objects' = objects \cup {"group"}
    /\ UNCHANGED <<received, hand, task, ring, held, events, heard>>

CreateTask ==
    /\ Turns("task", "fill") /\ task' = "recv"
    /\ UNCHANGED <<objects, received, hand, ring, held, events, heard>>

\* Whichever step fails, what the earlier ones created stays.
StartFails ==
    /\ listener \in {"open", "ring", "group", "task"} /\ listener' = "failed"
    /\ UNCHANGED <<objects, received, hand, task, ring, held, events, heard>>

\* The loop ends while the buffer is at most half full, and otherwise when its counter
\* runs out; the counter then wraps round, and stream_start returns true either way.
Filled ==
    /\ Turns("fill", "read")
    /\ UNCHANGED <<objects, received, hand, task, ring, held, events, heard>>

-------------------------------------------------------------------------------
(* thread                                                                  *)

\* recv: some data, or after 5 seconds or at the end of the connection none.
Receive ==
    /\ task = "recv" /\ task' = "check"
    /\ \E n \in 0..ChunkSize :
          /\ received + n <= Units /\ received' = received + n
          /\ hand' = [i \in 1..n |-> received + i]
    /\ UNCHANGED <<objects, ring, held, events, listener, heard>>

CheckReceived ==
    /\ task = "check"
    /\ task' = IF "STOP" \in events \/ hand = <<>> THEN "eos" ELSE "send"
    /\ UNCHANGED <<objects, received, hand, ring, held, events, listener, heard>>

SendToRing_Partly ==
    /\ task = "send"
    /\ \E n \in 1..Len(hand) : Room(n) /\ ring' = ring \o SubSeq(hand, 1, n)
    /\ task' = "recv"
    /\ UNCHANGED <<objects, received, hand, held, events, listener, heard>>

\* xRingbufferSend takes the chunk as a whole ...
SendToRing ==
    /\ task = "send" /\ Room(Len(hand))
    /\ ring' = ring \o hand /\ task' = "recv"
    /\ UNCHANGED <<objects, received, hand, held, events, listener, heard>>

\* ... or gives up after 5 seconds, which ends the stream.
SendTimesOut ==
    /\ task = "send" /\ ~Room(Len(hand)) /\ task' = "eos"
    /\ UNCHANGED <<objects, received, hand, ring, held, events, listener, heard>>

EndOfStream ==
    /\ task = "eos" /\ task' = "none"
    /\ events' = events \cup {"EOS"}
    /\ UNCHANGED <<objects, received, hand, ring, held, listener, heard>>

ReceiverStep == Receive \/ CheckReceived \/ SendToRing \/ SendTimesOut \/ EndOfStream

-------------------------------------------------------------------------------
(* stream_read, called by stream_read_func                                 *)

\* EOS_BIT is set: 0 bytes, whatever the buffer still holds.
ReadAtEos == listener = "read" /\ "EOS" \in events /\ UNCHANGED streamVars

\* Otherwise the buffer is asked, for up to 5 seconds.
ReadBits ==
    /\ Turns("read", "receive") /\ "EOS" \notin events
    /\ UNCHANGED <<objects, received, hand, task, ring, held, events, heard>>

ReadData ==
    /\ Turns("receive", "read")
    /\ \E n \in 1..Len(ring) :
          /\ n <= ChunkSize
          /\ heard' = heard \o SubSeq(ring, 1, n) /\ ring' = SubSeq(ring, n + 1, Len(ring))
    /\ UNCHANGED <<objects, received, hand, task, held, events>>

\* Nothing for 5 seconds: "buffer underflow", 0 bytes.
ReadUnderflow ==
    /\ Turns("receive", "read") /\ ring = <<>>
    /\ UNCHANGED <<objects, received, hand, task, ring, held, events, heard>>

-------------------------------------------------------------------------------
(* stream_stop                                                             *)

SetStop ==
    /\ Turns("read", "take") /\ events' = events \cup {"STOP"}
    /\ UNCHANGED <<objects, received, hand, task, ring, held, heard>>

\* One byte is received, and never returned to the buffer ...
TakeOne ==
    /\ Turns("take", "put")
    /\ IF ring = <<>> THEN UNCHANGED <<ring, held>> ELSE ring' = Tail(ring) /\ held' = 1
    /\ UNCHANGED <<objects, received, hand, task, events, heard>>

\* ... and one is sent, if there is room.
PutDummy ==
    /\ Turns("put", "await")
    /\ ring' = IF Room(1) THEN Append(ring, Dummy) ELSE ring
    /\ UNCHANGED <<objects, received, hand, task, held, events, heard>>

AwaitEos_NoWait ==
    /\ Turns("await", "delete")
    /\ UNCHANGED <<objects, received, hand, task, ring, held, events, heard>>

AwaitEos ==
    /\ Turns("await", "delete") /\ "EOS" \in events
    /\ UNCHANGED <<objects, received, hand, task, ring, held, events, heard>>

DeleteAll ==
    /\ Turns("delete", "closed") /\ objects' = {}
    /\ UNCHANGED <<received, hand, task, ring, held, events, heard>>

StartStep == OpenSocket \/ CreateRing \/ CreateGroup \/ CreateTask \/ Filled
StopStep == TakeOne \/ PutDummy \/ AwaitEos \/ DeleteAll

-------------------------------------------------------------------------------

\* The decoder gets the units of the stream in order, each once, however the chunks
\* are cut: what is missing is only ever at the end.
StreamInOrder == heard = [i \in 1..Len(heard) |-> i]

\* The receiving task never outlives what it works on: when stream_stop deletes the
\* ring buffer, the event group and the socket, the task is past its last use of them.
NothingAfterDelete == task # "none" => {"socket", "ring", "group"} \subseteq objects

===============================================================================
