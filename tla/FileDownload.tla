----------------------------- MODULE FileDownload -----------------------------
(***************************************************************************)
(* firmware/main/remote/file_download.c and the loop of download_file in   *)
(* playlist/cloud/downloader.c that repeats it: the downloader's task runs *)
(* the HTTP client, whose data callback hands each chunk to a writer task  *)
(* over two binary semaphores and one buffer.  Chunks are numbered as they *)
(* arrive.                                                                 *)
(***************************************************************************)
EXTENDS Naturals, Sequences

CONSTANTS
    Chunks,       \* chunks of the file on the server
    BufferSize,   \* max_size, and the size of the HTTP client's own buffer
    MaxAttempts   \* bound: attempts of download_file

ASSUME DownloadAssumption == Chunks \in Nat /\ {BufferSize, MaxAttempts} \subseteq Nat \ {0}

VARIABLES
    received, written,  \* the binary semaphores
    stop_flag,
    buffer,     \* the chunk in f.buffer, 0 if none yet
    file,       \* the chunks in the file
    damaged,    \* ghost: a write() failed
    stopping,   \* is_stopping: the downloader has been told to stop
    sent,       \* chunks received from the server in this attempt
    status,     \* the HTTP status of this attempt is 200..299
    attempt,
    base,       \* ghost: chunks in the file when this attempt began
    client,     \* the HTTP task: next step
    writer      \* the writer task: next step

vars == <<received, written, stop_flag, buffer, file, damaged, sent, client, writer,
          stopping, status, attempt, base>>
loop == <<stopping, status, attempt, base>>

TypeOK ==
    /\ received \in 0..1 /\ written \in 0..1 /\ stop_flag \in BOOLEAN
    /\ buffer \in 0..Chunks /\ file \in Seq(1..Chunks) /\ sent \in 0..Chunks
    /\ damaged \in BOOLEAN
    /\ client \in {"create", "http", "wait", "copy", "give", "cut", "stop", "wake", "join", "closed",
                  "installed", "removed"}
    /\ {stopping, status} \subseteq BOOLEAN /\ attempt \in 1..MaxAttempts /\ base \in Nat
    /\ writer \in {"none", "take", "check", "write", "give", "leave", "gone"}

\* The buffer is free: written_sema is given.
Init ==
    /\ received = 0 /\ written = 1 /\ stop_flag = FALSE
    /\ buffer = 0 /\ file = <<>> /\ damaged = FALSE /\ sent = 0
    /\ client = "create" /\ writer = "none"
    /\ stopping = FALSE /\ status = FALSE /\ attempt = 1 /\ base = 0

-------------------------------------------------------------------------------
(* file_download_start and http_event_handle.                              *)

CreateWriter ==
    /\ client = "create" /\ client' = "http" /\ writer' = "take"
    /\ UNCHANGED <<received, written, stop_flag, buffer, file, damaged, sent, loop>>

\* xTaskCreate fails: the request is not made.
CreateFails ==
    /\ client = "create" /\ client' = "stop"
    /\ UNCHANGED <<received, written, stop_flag, buffer, file, damaged, sent, writer, loop>>

\* HTTP_EVENT_ON_DATA: a chunk that fits into the buffer is handed over, and none can be
\* larger than the HTTP client's buffer, which has the same size.
OnData ==
    /\ client = "http" /\ ~stopping /\ sent < Chunks /\ sent' = sent + 1
    /\ \E data_len \in 1..BufferSize :
          client' = IF data_len > BufferSize THEN "http" ELSE "wait"
    /\ UNCHANGED <<received, written, stop_flag, buffer, file, damaged, writer, loop>>

\* The downloader is stopping: this chunk and all others are dropped, the connection closed.
OnDataStopping ==
    /\ client = "http" /\ stopping /\ sent < Chunks /\ client' = "cut"
    /\ UNCHANGED <<received, written, stop_flag, buffer, file, damaged, sent, writer, loop>>

AwaitBuffer_NoWait ==
    /\ client = "wait" /\ client' = "copy"
    /\ written' = 0
    /\ UNCHANGED <<received, stop_flag, buffer, file, damaged, sent, writer, loop>>

AwaitBuffer ==
    /\ client = "wait" /\ written = 1
    /\ written' = 0 /\ client' = "copy"
    /\ UNCHANGED <<received, stop_flag, buffer, file, damaged, sent, writer, loop>>

CopyChunk ==
    /\ client = "copy" /\ client' = "give"
    /\ buffer' = sent
    /\ UNCHANGED <<received, written, stop_flag, file, damaged, sent, writer, loop>>

GiveChunk ==
    /\ client = "give" /\ client' = "http"
    /\ received' = 1
    /\ UNCHANGED <<written, stop_flag, buffer, file, damaged, sent, writer, loop>>

\* The response is complete, or it is another status, or the connection breaks: in the
\* body too, where esp_http_client_perform still returns ESP_OK and the status it was sent.
HttpEnds ==
    /\ client \in {"http", "cut"} /\ client' = "stop"
    /\ status' \in BOOLEAN
    /\ UNCHANGED <<received, written, stop_flag, buffer, file, damaged, sent, writer, stopping, attempt, base>>

SetStop ==
    /\ client = "stop" /\ client' = "wake"
    /\ stop_flag' = TRUE
    /\ UNCHANGED <<received, written, buffer, file, damaged, sent, writer, loop>>

WakeWriter ==
    /\ client = "wake" /\ client' = "join"
    /\ received' = 1
    /\ UNCHANGED <<written, stop_flag, buffer, file, damaged, sent, writer, loop>>

\* xSemaphoreTake(written_sema), fclose, free, vSemaphoreDelete.  The token may be
\* that of the last chunk, with the writer still to see stop_flag: what it then
\* does with the freed structure is outside the model.
Join ==
    /\ client = "join" /\ written = 1
    /\ written' = 0 /\ client' = "closed"
    /\ UNCHANGED <<received, stop_flag, buffer, file, damaged, sent, writer, loop>>

\* download_file: without a good status the same temporary file is downloaded again,
\* opened with "ab+".
TryAgain ==
    /\ client = "closed" /\ ~stopping /\ ~status /\ attempt < MaxAttempts
    /\ attempt' = attempt + 1 /\ base' = Len(file)
    /\ received' = 0 /\ written' = 1 /\ stop_flag' = FALSE /\ buffer' = 0 /\ sent' = 0
    /\ client' = "create" /\ writer' = "none"
    /\ UNCHANGED <<file, damaged, stopping, status>>

\* rename(filepath_temp, filepath_permanent).
InstallFile ==
    /\ client = "closed" /\ ~stopping /\ status /\ client' = "installed"
    /\ UNCHANGED <<received, written, stop_flag, buffer, file, damaged, sent, writer, loop>>

\* remove(filepath_temp), whatever the status.
RemoveFile ==
    /\ client = "closed" /\ stopping /\ client' = "removed"
    /\ file' = <<>> /\ base' = 0 /\ sent' = 0
    /\ UNCHANGED <<received, written, stop_flag, buffer, damaged, writer, stopping, status, attempt>>

\* Another task stops the downloader.
Stop ==
    /\ ~stopping /\ client \notin {"installed", "removed"}
    /\ stopping' = TRUE
    /\ UNCHANGED <<received, written, stop_flag, buffer, file, damaged, sent, client, writer,
                   status, attempt, base>>

-------------------------------------------------------------------------------
(* file_write_thread.                                                      *)

WriterTakes ==
    /\ writer = "take" /\ received = 1
    /\ received' = 0 /\ writer' = "check"
    /\ UNCHANGED <<written, stop_flag, buffer, file, damaged, sent, client, loop>>

WriterChecks ==
    /\ writer = "check"
    /\ writer' = IF stop_flag THEN "leave" ELSE "write"
    /\ UNCHANGED <<received, written, stop_flag, buffer, file, damaged, sent, client, loop>>

WriterWrites ==
    /\ writer = "write" /\ writer' = "give"
    /\ file' = Append(file, buffer)
    /\ UNCHANGED <<received, written, stop_flag, buffer, damaged, sent, client, loop>>

\* write() fails (the card is full or gone); the result is not looked at.
WriteFails ==
    /\ writer = "write" /\ writer' = "give"
    /\ damaged' = TRUE
    /\ UNCHANGED <<received, written, stop_flag, buffer, file, sent, client, loop>>

WriterGives_Forgotten ==
    /\ writer = "give" /\ writer' = "take"
    /\ UNCHANGED <<received, written, stop_flag, buffer, file, damaged, sent, client, loop>>

WriterGives ==
    /\ writer = "give" /\ writer' = "take"
    /\ written' = 1
    /\ UNCHANGED <<received, stop_flag, buffer, file, damaged, sent, client, loop>>

WriterLeaves ==
    /\ writer = "leave" /\ writer' = "gone"
    /\ written' = 1
    /\ UNCHANGED <<received, stop_flag, buffer, file, damaged, sent, client, loop>>

ClientStep ==
    CreateWriter \/ CreateFails \/ AwaitBuffer \/ CopyChunk \/ GiveChunk \/ HttpEnds
    \/ SetStop \/ WakeWriter \/ Join \/ TryAgain \/ InstallFile \/ RemoveFile
WriterStep ==
    /\ client \notin {"closed", "installed", "removed"}
    /\ WriterTakes \/ WriterChecks \/ WriterWrites \/ WriteFails \/ WriterGives \/ WriterLeaves

Next == OnData \/ OnDataStopping \/ Stop \/ ClientStep \/ WriterStep

Spec == Init /\ [][Next]_vars
\* Both tasks run; the server's response ends.
FairSpec == Spec /\ WF_vars(ClientStep) /\ WF_vars(WriterStep)

-------------------------------------------------------------------------------

InOrder(chunks) == chunks = [i \in 1..Len(chunks) |-> i]
Attempt == SubSeq(file, base + 1, Len(file))

\* An attempt adds the chunks to the file in the order the server sent them, none
\* twice and none left out between two others, as long as the card takes every write.
FileIsPrefix == ~damaged => InOrder(Attempt)

\* The callback never overwrites the buffer while the writer writes it out.
BufferStable == client = "copy" => writer \notin {"check", "write"}

\* The file never misses a chunk between two others, and when an attempt is over at
\* most the last chunk is missing, and only because stop_flag overtook it on its way
\* to the writer.
AtMostLastChunkLost ==
    /\ FileIsPrefix
    /\ client = "closed" /\ ~damaged =>
          Len(Attempt) = sent \/ (Len(Attempt) = sent - 1 /\ buffer = sent)

\* Whenever the HTTP task waits for the buffer, or for the writer's end, the writer is on
\* its way to give the semaphore: it is not waiting itself, and it is not gone.
NoMutualWait ==
    client \in {"wait", "join"} /\ written = 0 =>
        writer \in {"check", "write", "give", "leave"} \/ (writer = "take" /\ received = 1)

\* The two tasks never wait for each other for ever: file_download_start returns.
DownloadReturns == [](client = "create" => <>(client = "closed"))

\* A media file that download_file installs starts with the first chunk and repeats
\* none; it may end too early.  The usage comment of file_download_start removes the target before the
\* call; download_file does not before it tries again.
InstalledFileIsWhole == client = "installed" /\ ~damaged => InOrder(file)

===============================================================================
