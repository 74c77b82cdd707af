------------------------------ MODULE ReadAhead -------------------------------
(***************************************************************************)
(* firmware/main/util/read_ahead.c: while the player sends one block of a  *)
(* file to the decoder, a short-lived task reads the next one.  The client *)
(* is the player task (play_file, file_read_func).  Blocks are numbered;   *)
(* block 0 stands for the zero bytes that end a play.                      *)
(***************************************************************************)
EXTENDS Naturals, Sequences

CONSTANT Blocks   \* blocks of data in the file

ASSUME BlocksAssumption == Blocks \in Nat

VARIABLES
    pos,        \* the file offset, in blocks
    buffer,     \* the block in ra->buffer
    sema,       \* ra->sema: a block has been read
    mutex,      \* holder of ra->mutex: "none", "reader" or "client"
    reader,     \* the read task: next step, "none" between tasks, "failed" if the
                \* last one could not be created, "null" if read_ahead_init failed
    client,     \* the player task: next step
    got,        \* the client: the block that read_ahead_next returns
    delivered,  \* the blocks that reached the decoder, in order
    damaged     \* ghost: a read() failed

vars == <<pos, buffer, sema, mutex, reader, client, got, delivered, damaged>>

TypeOK ==
    /\ pos \in 0..Blocks /\ buffer \in 0..Blocks /\ got \in 0..Blocks
    /\ sema \in 0..1 /\ mutex \in {"none", "reader", "client"}
    /\ reader \in {"none", "lock", "read", "unlock", "give", "failed", "null"}
    /\ client \in {"call", "take", "lock", "copy", "unlock", "start", "play", "closed", "panic"}
    /\ delivered \in Seq(1..Blocks) /\ damaged \in BOOLEAN

\* start(): the task runs, or xTaskCreate fails, which no caller looks at.
Started == {"lock", "failed"}

\* read_ahead_init has started the first read, or had no memory for the buffer, the
\* mutex or the semaphore and returned NULL, which play_file does not look at.
Init ==
    /\ pos = 0 /\ buffer = 0 /\ sema = 0 /\ mutex = "none"
    /\ reader \in Started \union {"null"} /\ client = "call" /\ got = 0
    /\ delivered = <<>> /\ damaged = FALSE

-------------------------------------------------------------------------------
(* The read task: thread, read_file.                                       *)

ReaderLocks ==
    /\ reader = "lock" /\ mutex = "none"
    /\ mutex' = "reader" /\ reader' = "read"
    /\ UNCHANGED <<pos, buffer, sema, client, got, delivered, damaged>>

ReadBlock_OffByOne ==
    /\ reader = "read" /\ reader' = "unlock"
    /\ IF pos + 1 < Blocks THEN pos' = pos + 1 /\ buffer' = pos + 1
                           ELSE buffer' = 0 /\ UNCHANGED pos
    /\ UNCHANGED <<sema, mutex, client, got, delivered, damaged>>

ReadBlock ==
    /\ reader = "read" /\ reader' = "unlock"
    /\ IF pos < Blocks THEN pos' = pos + 1 /\ buffer' = pos + 1
                       ELSE buffer' = 0 /\ UNCHANGED pos
    /\ UNCHANGED <<sema, mutex, client, got, delivered, damaged>>

\* read() returns an error: bytes_read becomes 0, as at the end of the file.
ReadFails ==
    /\ reader = "read" /\ reader' = "unlock"
    /\ buffer' = 0 /\ damaged' = TRUE
    /\ UNCHANGED <<pos, sema, mutex, client, got, delivered>>

ReaderUnlocks ==
    /\ reader = "unlock" /\ reader' = "give"
    /\ mutex' = "none"
    /\ UNCHANGED <<pos, buffer, sema, client, got, delivered, damaged>>

ReaderGives_Forgotten ==
    /\ reader = "give" /\ reader' = "none"
    /\ UNCHANGED <<pos, buffer, sema, mutex, client, got, delivered, damaged>>

ReaderGives ==
    /\ reader = "give" /\ reader' = "none"
    /\ sema' = 1
    /\ UNCHANGED <<pos, buffer, mutex, client, got, delivered, damaged>>

-------------------------------------------------------------------------------
(* The client: read_ahead_next, and play_file around it.                   *)

\* file_read_func sees no stop request and calls read_ahead_next, which faults on
\* a null pointer: the device restarts.
ClientCalls ==
    /\ client = "call"
    /\ client' = IF reader = "null" THEN "panic" ELSE "take"
    /\ UNCHANGED <<pos, buffer, sema, mutex, reader, got, delivered, damaged>>

ClientTakes_NoWait ==
    /\ client = "take"
    /\ sema' = 0 /\ client' = "lock"
    /\ UNCHANGED <<pos, buffer, mutex, reader, got, delivered, damaged>>

ClientTakes ==
    /\ client = "take" /\ sema = 1
    /\ sema' = 0 /\ client' = "lock"
    /\ UNCHANGED <<pos, buffer, mutex, reader, got, delivered, damaged>>

ClientLocks ==
    /\ client = "lock" /\ mutex = "none"
    /\ mutex' = "client" /\ client' = "copy"
    /\ UNCHANGED <<pos, buffer, sema, reader, got, delivered, damaged>>

ClientCopies ==
    /\ client = "copy" /\ client' = "unlock"
    /\ got' = buffer
    /\ UNCHANGED <<pos, buffer, sema, mutex, reader, delivered, damaged>>

ClientUnlocks ==
    /\ client = "unlock" /\ client' = "start"
    /\ mutex' = "none"
    /\ UNCHANGED <<pos, buffer, sema, reader, got, delivered, damaged>>

\* start() creates the next read task, at the end of the file too.
ClientStarts ==
    /\ client = "start" /\ client' = "play"
    /\ reader' \in Started
    /\ UNCHANGED <<pos, buffer, sema, mutex, got, delivered, damaged>>

\* vs1011_play sends the block and calls file_read_func again; 0 bytes end it.
ClientPlays ==
    /\ client = "play"
    /\ IF got = 0 THEN client' = "closed" /\ UNCHANGED delivered
                  ELSE client' = "call" /\ delivered' = Append(delivered, got)
    /\ UNCHANGED <<pos, buffer, sema, mutex, reader, got, damaged>>

\* A stop request makes file_read_func return 0 without reading.
ClientStops ==
    /\ client = "call" /\ client' = "closed"
    /\ UNCHANGED <<pos, buffer, sema, mutex, reader, got, delivered, damaged>>

ReaderStep == ReaderLocks \/ ReadBlock \/ ReadFails \/ ReaderUnlocks \/ ReaderGives
ClientStep ==
    ClientCalls \/ ClientTakes \/ ClientLocks \/ ClientCopies \/ ClientUnlocks \/ ClientStarts
    \/ ClientPlays

Next == ReaderStep \/ ClientStep \/ ClientStops

Spec == Init /\ [][Next]_vars

-------------------------------------------------------------------------------

\* The decoder gets the file's blocks in order, each once: reading ahead neither
\* repeats a block that is still in the buffer nor skips one read too early.
DeliveredInOrder == delivered = [i \in 1..Len(delivered) |-> i]

\* A new read task is created only when the last one is past its last use of the
\* buffer, so there is never more than one.
OneReader == client = "start" => reader = "none"

\* Unless a stop request or a read error cuts it short, a play delivers the whole
\* file: a play that ends without either has delivered every block.
WholeFile ==
    client = "play" /\ got = 0 /\ ~damaged => Len(delivered) = Blocks

===============================================================================
