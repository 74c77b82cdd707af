-------------------------- MODULE FileDownloadProofs --------------------------
(***************************************************************************)
(* Proofs about FileDownload.tla, for a file of any number of chunks and   *)
(* any number of attempts.                                                 *)
(***************************************************************************)
EXTENDS FileDownload, SequenceTheorems, TLAPS

\* stop_flag is up from SetStop to the end of the attempt; the writer only leaves
\* because of it.
Phases ==
    /\ stop_flag <=> client \in {"wake", "join", "closed", "installed", "removed"}
    /\ writer \in {"leave", "gone"} => stop_flag
    /\ client = "create" => writer = "none" /\ sent = 0 /\ Len(file) = base
    /\ client \in {"wait", "copy", "give"} => sent >= 1
    /\ base <= Len(file) /\ (attempt = 1 => base = 0)

\* Until stop_flag the two semaphores pass one token around: at any moment the buffer is
\* free, or with the callback, or offered to the writer, or with the writer.
Free == written = 1
WithClient == client \in {"copy", "give"}
Offered == received = 1
WithWriter == writer \in {"check", "write", "give"}
OneToken ==
    ~stop_flag =>
        /\ Free \/ WithClient \/ Offered \/ WithWriter
        /\ Free => ~WithClient /\ ~Offered /\ ~WithWriter
        /\ WithClient => ~Offered /\ ~WithWriter
        /\ Offered => ~WithWriter

\* The buffer holds a chunk wherever one is going to be written.
BufferFilled ==
    /\ writer = "write" => buffer >= 1
    /\ ~stop_flag /\ (Offered \/ writer = "check") => buffer >= 1
    /\ client = "give" => buffer = sent

\* The chunks that went through the buffer, and those that this attempt wrote.
Handed == IF client \in {"wait", "copy", "give"} THEN sent - 1 ELSE sent
Written == Len(file) - base

\* What is in the file, on a card that takes every write: the attempt's chunks from the
\* first, up to the last one handed over, except for the one on its way or overtaken.
OnTheWay(n) == Written = n - 1 /\ buffer = n
Progress ==
    ~damaged =>
        /\ \A i \in 1..Written : file[base + i] = i
        /\ ~stop_flag => IF Offered \/ writer \in {"check", "write"}
                         THEN OnTheWay(Handed) ELSE Written = Handed
        /\ stop_flag => Written = sent \/ OnTheWay(sent)
        /\ stop_flag /\ writer = "write" /\ client # "removed" => OnTheWay(sent)

DownloadInv == TypeOK /\ Phases /\ OneToken /\ BufferFilled /\ Progress

-------------------------------------------------------------------------------

\* The semaphores start with the buffer free and nothing in the file.
LEMMA DownloadInvInit == Init => DownloadInv
<1> SUFFICES ASSUME Init PROVE DownloadInv
    OBVIOUS
<1>1. file \in Seq(1..Chunks) /\ Len(file) = 0
    BY EmptySeq DEF Init
<1>2. TypeOK
    <2>1. 0 \in 0..Chunks /\ 1 \in 1..MaxAttempts
        BY DownloadAssumption
    <2>2. 0 \in 0..1 /\ 1 \in 0..1 /\ 0 \in Nat
        OBVIOUS
    <2> QED BY <1>1, <2>1, <2>2, Zenon DEF Init, TypeOK
<1>3. Phases /\ OneToken /\ BufferFilled
    BY <1>1 DEF Init, Phases, OneToken, BufferFilled, Free, WithClient, Offered, WithWriter
<1>4. Progress
    BY <1>1 DEF Init, Progress, Written, Handed, Offered
<1> QED BY <1>2, <1>3, <1>4 DEF DownloadInv

\* Steps that leave the file and the loop of download_file alone, and what each does to
\* the token.
LEMMA QuietKeeps ==
    ASSUME DownloadInv, UNCHANGED <<file, damaged, attempt, base>>,
           \/ CreateWriter \/ CreateFails \/ OnData \/ OnDataStopping \/ Stop
           \/ AwaitBuffer \/ CopyChunk \/ GiveChunk \/ HttpEnds \/ SetStop \/ WakeWriter \/ Join \/ InstallFile
           \/ WriterTakes \/ WriterChecks \/ WriterGives \/ WriterLeaves
    PROVE  DownloadInv'
<1> USE DEF DownloadInv
<1>t. /\ sent \in Nat /\ buffer \in Nat /\ Len(file) \in Nat /\ base \in Nat
      /\ received \in 0..1 /\ written \in 0..1
    BY LenProperties, DownloadAssumption DEF TypeOK
<1>a. CASE CreateWriter
    BY <1>a, <1>t DEF CreateWriter, loop, TypeOK, Phases, OneToken, BufferFilled, Progress,
        Free, WithClient, Offered, WithWriter, Handed, Written, OnTheWay
<1>b. CASE CreateFails
    BY <1>b, <1>t DEF CreateFails, loop, TypeOK, Phases, OneToken, BufferFilled, Progress,
        Free, WithClient, Offered, WithWriter, Handed, Written, OnTheWay
<1>c. CASE OnData
    <2>1. client' = "wait"
        BY <1>c, DownloadAssumption DEF OnData
    <2> QED BY <1>c, <1>t, <2>1, DownloadAssumption DEF OnData, loop, TypeOK, Phases, OneToken,
        BufferFilled, Progress, Free, WithClient, Offered, WithWriter, Handed, Written, OnTheWay
<1>c2. CASE OnDataStopping
    BY <1>c2, <1>t DEF OnDataStopping, loop, TypeOK, Phases, OneToken, BufferFilled, Progress,
        Free, WithClient, Offered, WithWriter, Handed, Written, OnTheWay
<1>c3. CASE Stop
    <2>1. stopping' \in BOOLEAN
        BY <1>c3 DEF Stop
    <2> QED BY <1>c3, <1>t, <2>1 DEF Stop, TypeOK, Phases, OneToken, BufferFilled, Progress,
        Free, WithClient, Offered, WithWriter, Handed, Written, OnTheWay
<1>d. CASE AwaitBuffer
    BY <1>d, <1>t DEF AwaitBuffer, loop, TypeOK, Phases, OneToken, BufferFilled, Progress,
        Free, WithClient, Offered, WithWriter, Handed, Written, OnTheWay
<1>e. CASE CopyChunk
    BY <1>e, <1>t DEF CopyChunk, loop, TypeOK, Phases, OneToken, BufferFilled, Progress,
        Free, WithClient, Offered, WithWriter, Handed, Written, OnTheWay
<1>f. CASE GiveChunk
    BY <1>f, <1>t DEF GiveChunk, loop, TypeOK, Phases, OneToken, BufferFilled, Progress,
        Free, WithClient, Offered, WithWriter, Handed, Written, OnTheWay
<1>g. CASE HttpEnds
    <2>1. status' \in BOOLEAN
        BY <1>g DEF HttpEnds
    <2> QED BY <1>g, <1>t, <2>1 DEF HttpEnds, TypeOK, Phases, OneToken, BufferFilled, Progress,
        Free, WithClient, Offered, WithWriter, Handed, Written, OnTheWay
<1>h. CASE SetStop
    BY <1>h, <1>t DEF SetStop, loop, TypeOK, Phases, OneToken, BufferFilled, Progress,
        Free, WithClient, Offered, WithWriter, Handed, Written, OnTheWay
<1>i. CASE WakeWriter
    BY <1>i, <1>t DEF WakeWriter, loop, TypeOK, Phases, OneToken, BufferFilled, Progress,
        Free, WithClient, Offered, WithWriter, Handed, Written, OnTheWay
<1>j. CASE Join
    BY <1>j, <1>t DEF Join, loop, TypeOK, Phases, OneToken, BufferFilled, Progress,
        Free, WithClient, Offered, WithWriter, Handed, Written, OnTheWay
<1>k. CASE InstallFile
    BY <1>k, <1>t DEF InstallFile, loop, TypeOK, Phases, OneToken, BufferFilled, Progress,
        Free, WithClient, Offered, WithWriter, Handed, Written, OnTheWay
<1>l. CASE WriterTakes
    BY <1>l, <1>t DEF WriterTakes, loop, TypeOK, Phases, OneToken, BufferFilled, Progress,
        Free, WithClient, Offered, WithWriter, Handed, Written, OnTheWay
<1>m. CASE WriterChecks
    BY <1>m, <1>t DEF WriterChecks, loop, TypeOK, Phases, OneToken, BufferFilled, Progress,
        Free, WithClient, Offered, WithWriter, Handed, Written, OnTheWay
<1>n. CASE WriterGives
    BY <1>n, <1>t DEF WriterGives, loop, TypeOK, Phases, OneToken, BufferFilled, Progress,
        Free, WithClient, Offered, WithWriter, Handed, Written, OnTheWay
<1>o. CASE WriterLeaves
    BY <1>o, <1>t DEF WriterLeaves, loop, TypeOK, Phases, OneToken, BufferFilled, Progress,
        Free, WithClient, Offered, WithWriter, Handed, Written, OnTheWay
<1> QED BY <1>a, <1>b, <1>c, <1>c2, <1>c3, <1>d, <1>e, <1>f, <1>g, <1>h, <1>i, <1>j, <1>k, <1>l, <1>m, <1>n, <1>o

\* A write adds the next chunk, whether or not the client has asked it to stop.
LEMMA WriteKeeps ==
    ASSUME DownloadInv, WriterWrites \/ WriteFails, client \notin {"closed", "installed", "removed"}
    PROVE  DownloadInv'
<1> USE DEF DownloadInv
<1>t. /\ sent \in Nat /\ buffer \in 1..Chunks /\ Len(file) \in Nat /\ base \in Nat
      /\ file \in Seq(1..Chunks) /\ base <= Len(file)
    BY LenProperties, DownloadAssumption DEF TypeOK, BufferFilled, Phases, WriterWrites, WriteFails
<1>u. /\ writer = "write" /\ writer' = "give" /\ received' = received /\ written' = written
      /\ stop_flag' = stop_flag /\ buffer' = buffer /\ sent' = sent /\ client' = client
      /\ stopping' = stopping /\ status' = status /\ attempt' = attempt /\ base' = base
    BY DEF WriterWrites, WriteFails, loop
<1>1. CASE WriteFails
    <2>1. file' = file /\ damaged' = TRUE
        BY <1>1 DEF WriteFails
    <2> QED BY <1>t, <1>u, <2>1 DEF TypeOK, Phases, OneToken, BufferFilled, Progress,
            Free, WithClient, Offered, WithWriter
<1>2. CASE WriterWrites
    <2>1. file' = Append(file, buffer) /\ damaged' = damaged
        BY <1>2 DEF WriterWrites
    <2>2. /\ file' \in Seq(1..Chunks) /\ Len(file') = Len(file) + 1
          /\ \A i \in 1..Len(file) : file'[i] = file[i]
          /\ file'[Len(file) + 1] = buffer
        BY <1>t, <2>1, AppendProperties
    <2>3. TypeOK'
        BY <1>u, <2>1, <2>2 DEF TypeOK
    <2>4. Phases' /\ OneToken' /\ BufferFilled'
        BY <1>t, <1>u, <2>2 DEF Phases, OneToken, BufferFilled, Free, WithClient, Offered,
            WithWriter
    <2>5. Progress'
        <3> SUFFICES ASSUME ~damaged
                     PROVE  /\ \A i \in 1..Written' : file'[base + i] = i
                            /\ ~stop_flag => Written' = Handed
                            /\ stop_flag => Written' = sent
                            /\ ~stop_flag => ~Offered
            BY <1>u, <2>1 DEF Progress, Handed, Offered
        <3>1. ~stop_flag => OnTheWay(Handed) /\ ~Offered
            BY <1>u DEF Progress, OneToken, WithWriter
        <3>2. stop_flag => OnTheWay(sent)
            BY <1>u DEF Progress
        <3>3. Written \in Nat /\ Written' = Written + 1 /\ buffer = Written + 1
            BY <1>t, <1>u, <2>2, <3>1, <3>2 DEF Written, OnTheWay, Handed
        <3>4. \A i \in 1..Written : file'[base + i] = i
            BY <1>t, <2>2, <3>3 DEF Progress, Written
        <3>5. file'[base + Written'] = Written'
            BY <1>t, <2>2, <3>3 DEF Written
        <3> QED BY <1>t, <3>1, <3>2, <3>3, <3>4, <3>5 DEF OnTheWay, Handed
    <2> QED BY <2>3, <2>4, <2>5
<1> QED BY <1>1, <1>2

\* Another attempt starts with the buffer free, at the end of the file.
LEMMA TryAgainKeeps ==
    ASSUME DownloadInv, TryAgain
    PROVE  DownloadInv'
<1> USE DEF DownloadInv
<1>t. Len(file) \in Nat /\ attempt \in 1..MaxAttempts
    BY LenProperties DEF TypeOK
<1>1. TypeOK'
    <2>1. 0 \in 0..Chunks /\ attempt + 1 \in 1..MaxAttempts
        BY <1>t, DownloadAssumption DEF TryAgain
    <2>2. 0 \in 0..1 /\ 1 \in 0..1
        OBVIOUS
    <2> QED BY <1>t, <2>1, <2>2, Zenon DEF TryAgain, TypeOK
<1>2. Phases' /\ OneToken' /\ BufferFilled'
    BY <1>t DEF TryAgain, Phases, OneToken, BufferFilled, Free, WithClient, Offered, WithWriter
<1>3. Progress'
    BY <1>t DEF TryAgain, Progress, Written, Handed, Offered
<1> QED BY <1>1, <1>2, <1>3

\* A temporary file that is removed is empty.
LEMMA RemoveKeeps ==
    ASSUME DownloadInv, RemoveFile
    PROVE  DownloadInv'
<1> USE DEF DownloadInv
<1>1. file' \in Seq(1..Chunks) /\ Len(file') = 0
    BY EmptySeq DEF RemoveFile
<1>2. TypeOK'
    <2>1. 0 \in 0..Chunks /\ 0 \in Nat
        BY DownloadAssumption
    <2> QED BY <1>1, <2>1, Zenon DEF RemoveFile, TypeOK
<1>3. Phases' /\ OneToken' /\ BufferFilled'
    BY <1>1 DEF RemoveFile, Phases, OneToken, BufferFilled, Free, WithClient, Offered, WithWriter
<1>4. Progress'
    BY <1>1 DEF RemoveFile, Phases, Progress, Written, Handed, Offered, OnTheWay
<1> QED BY <1>2, <1>3, <1>4

\* Every step of either task keeps the invariant.
LEMMA DownloadInvStep == DownloadInv /\ [Next]_vars => DownloadInv'
<1> SUFFICES ASSUME DownloadInv, [Next]_vars PROVE DownloadInv'
    OBVIOUS
<1>1. CASE /\ UNCHANGED <<file, damaged, attempt, base>>
           /\ \/ CreateWriter \/ CreateFails \/ OnData \/ OnDataStopping \/ Stop
              \/ AwaitBuffer \/ CopyChunk \/ GiveChunk \/ HttpEnds \/ SetStop \/ WakeWriter
              \/ Join \/ InstallFile \/ WriterTakes \/ WriterChecks \/ WriterGives \/ WriterLeaves
    BY <1>1, QuietKeeps
<1>2. CASE WriterStep /\ (WriterWrites \/ WriteFails)
    BY <1>2, WriteKeeps DEF WriterStep
<1>3. CASE TryAgain
    BY <1>3, TryAgainKeeps
<1>31. CASE RemoveFile
    BY <1>31, RemoveKeeps
<1>4. CASE UNCHANGED vars
    BY <1>4 DEF vars, DownloadInv, TypeOK, Phases, OneToken, BufferFilled, Progress,
        Free, WithClient, Offered, WithWriter, Handed, Written, OnTheWay
<1>5. Next => \/ TryAgain \/ RemoveFile \/ (WriterStep /\ (WriterWrites \/ WriteFails))
              \/ /\ UNCHANGED <<file, damaged, attempt, base>>
                 /\ \/ CreateWriter \/ CreateFails \/ OnData \/ OnDataStopping \/ Stop
                    \/ AwaitBuffer \/ CopyChunk \/ GiveChunk \/ HttpEnds \/ SetStop \/ WakeWriter \/ Join \/ InstallFile
                    \/ WriterTakes \/ WriterChecks \/ WriterGives \/ WriterLeaves
    BY DEF Next, ClientStep, WriterStep, CreateWriter, CreateFails, OnData, OnDataStopping, Stop, AwaitBuffer,
        CopyChunk, GiveChunk, HttpEnds, SetStop, WakeWriter, Join, InstallFile, WriterTakes,
        WriterChecks, WriterGives, WriterLeaves, loop
<1> QED BY <1>1, <1>2, <1>3, <1>31, <1>4, <1>5

\* The inductive invariant of a file download.
THEOREM DownloadInvariant == Spec => []DownloadInv
BY DownloadInvInit, DownloadInvStep, PTL DEF Spec

\* Semaphores, buffer and file only ever hold what the tasks can handle; in particular
\* the writer never writes a buffer that was not filled.
THEOREM DownloadTypes == Spec => []TypeOK
<1>1. DownloadInv => TypeOK
    BY DEF DownloadInv
<1> QED BY DownloadInvariant, <1>1, PTL

\* The HTTP callback never copies into a buffer that the writer is writing out.
THEOREM BufferNotOverwritten == Spec => []BufferStable
<1>1. DownloadInv => BufferStable
    BY DEF DownloadInv, BufferStable, Phases, OneToken, WithClient, WithWriter
<1> QED BY DownloadInvariant, <1>1, PTL

\* The chunks of one attempt are what Written counts.
LEMMA AttemptIsWritten ==
    ASSUME DownloadInv
    PROVE  /\ Attempt \in Seq(1..Chunks) /\ Len(Attempt) = Written
           /\ \A i \in 1..Written : Attempt[i] = file[base + i]
<1>1. file \in Seq(1..Chunks) /\ Len(file) \in Nat /\ base \in Nat /\ base <= Len(file)
    BY LenProperties DEF DownloadInv, TypeOK, Phases
<1>2. \A i \in 1..Len(file) : file[i] \in 1..Chunks
    BY <1>1, ElementOfSeq
<1>3. \A i \in (base + 1)..Len(file) : file[i] \in 1..Chunks
    BY <1>1, <1>2
<1>4. base + 1 \in Int /\ Len(file) \in Int
    BY <1>1
<1>5. /\ Attempt \in Seq(1..Chunks)
      /\ Len(Attempt) = IF base + 1 <= Len(file) THEN Len(file) - (base + 1) + 1 ELSE 0
      /\ \A i \in 1..(Len(file) - (base + 1) + 1) : Attempt[i] = file[(base + 1) + i - 1]
    BY <1>3, <1>4, SubSeqProperties DEF Attempt
<1>6. Len(Attempt) = Written
    BY <1>1, <1>5 DEF Written
<1>7. ASSUME NEW i \in 1..Written
      PROVE  Attempt[i] = file[base + i]
    <2>1. i \in 1..(Len(file) - (base + 1) + 1)
        BY <1>1 DEF Written
    <2>2. (base + 1) + i - 1 = base + i
        BY <1>1, <2>1
    <2>3. Attempt[i] = file[(base + 1) + i - 1]
        BY <1>5, <2>1, Zenon
    <2> QED BY <2>2, <2>3, Zenon
<1> QED BY <1>5, <1>6, <1>7

\* The file never misses a chunk between two others, whatever the order in which the two
\* tasks run, and over any number of attempts.
THEOREM AtMostLastIsLost == Spec => []AtMostLastChunkLost
<1>1. DownloadInv => AtMostLastChunkLost
    <2> SUFFICES ASSUME DownloadInv PROVE AtMostLastChunkLost
        OBVIOUS
    <2>1. /\ Attempt \in Seq(1..Chunks) /\ Len(Attempt) = Written
          /\ \A i \in 1..Written : Attempt[i] = file[base + i]
        BY AttemptIsWritten
    <2>2. FileIsPrefix
        <3> SUFFICES ASSUME ~damaged PROVE Attempt = [i \in 1..Len(Attempt) |-> i]
            BY DEF FileIsPrefix, InOrder
        <3>1. Attempt \in [1..Len(Attempt) -> 1..Chunks]
            BY <2>1, LenProperties
        <3>2. \A i \in 1..Len(Attempt) : Attempt[i] = i
            BY <2>1 DEF DownloadInv, Progress
        <3> QED BY <3>1, <3>2
    <2>3. ASSUME client = "closed", ~damaged
          PROVE  Len(Attempt) = sent \/ (Len(Attempt) = sent - 1 /\ buffer = sent)
        BY <2>1, <2>3 DEF DownloadInv, Phases, Progress, OnTheWay
    <2> QED BY <2>2, <2>3 DEF AtMostLastChunkLost
<1> QED BY DownloadInvariant, <1>1, PTL

\* A media file that download_file installs with its first attempt starts with the first
\* chunk, repeats none and misses none between two others: what TLC finds against
\* InstalledFileIsWhole needs a second attempt.
FirstAttemptIsWhole ==
    client = "installed" /\ attempt = 1 /\ ~damaged => InOrder(file)

\* The same, as an invariant of the specification.
THEOREM FirstAttemptInstallsWhole == Spec => []FirstAttemptIsWhole
<1>1. DownloadInv => FirstAttemptIsWhole
    <2> SUFFICES ASSUME DownloadInv, attempt = 1, ~damaged
                 PROVE  file = [i \in 1..Len(file) |-> i]
        BY DEF FirstAttemptIsWhole, InOrder
    <2>1. file \in [1..Len(file) -> 1..Chunks] /\ Len(file) \in Nat /\ base = 0
        BY LenProperties DEF DownloadInv, TypeOK, Phases
    <2>2. \A i \in 1..Len(file) : file[i] = i
        BY <2>1 DEF DownloadInv, Progress, Written
    <2> QED BY <2>1, <2>2
<1> QED BY DownloadInvariant, <1>1, PTL

-------------------------------------------------------------------------------
(* Waiting.                                                                *)

\* Where a task is missing, the token that it would have given is there: a writer that was
\* never created has left the buffer free, and one that is gone has said so.  While the HTTP
\* task waits for the end, its own wake-up is still there unless the writer has taken it or
\* has given the buffer back since.
Waits ==
    /\ client = "create" => written = 1
    /\ writer = "none" /\ client \notin {"closed", "installed", "removed"} =>
          written = 1 /\ client \in {"create", "stop", "wake", "join"}
    /\ client \in {"wake", "join"} /\ writer = "gone" => written = 1
    /\ client = "join" /\ writer = "take" /\ written = 0 => received = 1

\* Every step of either task keeps this.
LEMMA WaitsStep == DownloadInv /\ Waits /\ [Next]_vars => Waits'
<1> SUFFICES ASSUME DownloadInv, Waits, [Next]_vars PROVE Waits'
    OBVIOUS
<1>1. Phases
    BY DEF DownloadInv
<1> USE <1>1 DEF Waits, Phases, loop
<1>2. CASE CreateWriter \/ CreateFails \/ OnDataStopping
    BY <1>2 DEF CreateWriter, CreateFails, OnDataStopping
<1>22. CASE Stop
    BY <1>22 DEF Stop
<1>21. CASE OnData
    <2>1. client' = "wait"
        BY <1>21, DownloadAssumption DEF OnData
    <2> QED BY <1>21, <2>1 DEF OnData
<1>3. CASE AwaitBuffer \/ CopyChunk \/ GiveChunk
    BY <1>3 DEF AwaitBuffer, CopyChunk, GiveChunk
<1>4. CASE HttpEnds \/ SetStop \/ WakeWriter
    BY <1>4 DEF HttpEnds, SetStop, WakeWriter
<1>5. CASE Join \/ TryAgain \/ InstallFile \/ RemoveFile
    BY <1>5 DEF Join, TryAgain, InstallFile, RemoveFile
<1>6. CASE WriterTakes \/ WriterChecks
    BY <1>6 DEF WriterTakes, WriterChecks
<1>7. CASE WriterWrites \/ WriteFails \/ WriterGives \/ WriterLeaves
    BY <1>7 DEF WriterWrites, WriteFails, WriterGives, WriterLeaves
<1>8. CASE UNCHANGED vars
    BY <1>8 DEF vars
<1> QED
    BY <1>2, <1>21, <1>22, <1>3, <1>4, <1>5, <1>6, <1>7, <1>8 DEF Next, ClientStep, WriterStep

\* For any number of chunks and attempts, and wherever the response breaks off, the HTTP
\* task never waits for a writer that waits itself or is gone: what fairness needs to make
\* file_download_start return.
THEOREM NobodyWaitsForEver == Spec => []NoMutualWait
<1>1. Init => Waits
    BY DEF Init, Waits
<1>2. DownloadInv /\ Waits => NoMutualWait
    <2> SUFFICES ASSUME DownloadInv, Waits, client \in {"wait", "join"}, written = 0
                 PROVE  \/ writer \in {"check", "write", "give", "leave"}
                        \/ writer = "take" /\ received = 1
        BY DEF NoMutualWait
    <2>1. /\ written # 1
          /\ writer \in {"none", "take", "check", "write", "give", "leave", "gone"}
        BY DEF DownloadInv, TypeOK
    <2>2. CASE client = "wait"
        BY <2>1, <2>2 DEF DownloadInv, Waits, Phases, OneToken, Free, WithClient, Offered,
            WithWriter
    <2>3. CASE client = "join"
        BY <2>1, <2>3 DEF Waits
    <2> QED BY <2>2, <2>3
<1> QED BY <1>1, <1>2, WaitsStep, DownloadInvariant, PTL DEF Spec

===============================================================================
