------------------------ MODULE OfflineSchedulerProofs ------------------------
(***************************************************************************)
(* Proofs about StreamScheduler.tla and OfflineScheduler.tla, for any      *)
(* number of media files, streams and slots, and any use of the buttons.   *)
(***************************************************************************)
EXTENDS OfflineScheduler, FiniteSetTheorems, WellFoundedInduction, TLAPS

-------------------------------------------------------------------------------
(* The lists of stream_scheduler.c.                                        *)

\* A nonempty set of slots has a first one.
LEMMA FirstSlot ==
    ASSUME NEW S \in SUBSET Nat, S # {}
    PROVE  Min(S) \in S
<1> DEFINE R == {ss \in Nat \X Nat : ss[1] < ss[2]}
<1>1. IsWellFoundedOn(R, Nat)
    BY NatLessThanWellFounded, Zenon DEF OpToRel
<1>2. PICK x \in S : \A y \in S : ~(<<y, x>> \in R)
    <2> HIDE DEF R
    <2> QED BY <1>1, WFMin
<1>3. ASSUME NEW y \in S PROVE x <= y
    <2>1. ~(<<y, x>> \in R) /\ <<y, x>> \in Nat \X Nat
        BY <1>2
    <2>2. ~(<<y, x>>[1] < <<y, x>>[2])
        BY <2>1, Zenon
    <2> QED BY <2>2
<1> QED BY <1>3 DEF Min

\* The mark of an unused slot is a number.
LEMMA BlankIsNat == BLANK \in Nat
    BY DEF BLANK

\* Overwriting an entry, or blanking some, keeps a list of values.
LEMMA EntriesKept ==
    ASSUME NEW D, NEW V, NEW l \in [D -> V], NEW b \in V, NEW v \in V, NEW m
    PROVE  /\ [l EXCEPT ![m] = v] \in [D -> V]
           /\ [i \in DOMAIN l |-> IF l[i] = v THEN b ELSE l[i]] \in [D -> V]
    OBVIOUS

\* Adding and removing keep a list of uint16_t.
LEMMA ListTypes ==
    ASSUME NEW l \in Lists, NEW v \in 0..BLANK
    PROVE  list_add(l, v) \in Lists /\ list_remove(l, v) \in Lists
<1> DEFINE D == 1..MaxStreams
           V == 0..BLANK
<1>1. l \in [D -> V] /\ v \in V /\ Lists = [D -> V]
    BY Zenon DEF Lists
<1>2. BLANK \in V
    BY BlankIsNat
<1> HIDE DEF D, V
<1>3. list_add(l, v) \in Lists
    <2> DEFINE m == Min({i \in DOMAIN l : l[i] = BLANK})
    <2>1. list_add(l, v) = IF list_contains(l, BLANK) THEN [l EXCEPT ![m] = v] ELSE l
        BY Zenon DEF list_add
    <2> HIDE DEF m
    <2>2. [l EXCEPT ![m] = v] \in [D -> V]
        BY <1>1, <1>2, EntriesKept, Zenon
    <2> QED BY <1>1, <2>1, <2>2, Zenon
<1>4. list_remove(l, v) \in Lists
    BY <1>1, <1>2, EntriesKept, Zenon DEF list_remove
<1> QED BY <1>3, <1>4

\* The slots that hold a value are finitely many.
Slots(l, v) == {i \in DOMAIN l : l[i] = v}

\* Counting copies is counting slots.
LEMMA SlotsFinite ==
    ASSUME NEW l \in Lists, NEW v
    PROVE  /\ IsFiniteSet(Slots(l, v)) /\ Copies(l, v) = Cardinality(Slots(l, v))
           /\ Copies(l, v) \in Nat /\ Slots(l, v) \in SUBSET Nat
<1>1. MaxStreams \in Int /\ 1 \in Int
    BY MaxStreamsAssumption
<1>2. IsFiniteSet(1..MaxStreams)
    BY <1>1, FS_Interval
<1>3. Slots(l, v) \in SUBSET (1..MaxStreams)
    BY DEF Slots, Lists
<1>4. IsFiniteSet(Slots(l, v))
    BY <1>2, <1>3, FS_Subset
<1>5. Cardinality(Slots(l, v)) \in Nat
    BY <1>4, FS_CardinalityType
<1> QED BY <1>1, <1>3, <1>4, <1>5 DEF Copies, Slots

\* list_add takes the first unused slot, so it overwrites no other value.
LEMMA AddKeepsCopies ==
    ASSUME NEW l \in Lists, NEW v, v # BLANK, NEW w \in 0..BLANK
    PROVE  Copies(list_add(l, w), v) >= Copies(l, v)
<1>1. Slots(l, v) \subseteq Slots(list_add(l, w), v)
    <2>1. CASE ~list_contains(l, BLANK)
        BY <2>1 DEF list_add
    <2>2. CASE list_contains(l, BLANK)
        <3> DEFINE m == Min(Slots(l, BLANK))
        <3>1. Slots(l, BLANK) # {}
            BY <2>2 DEF list_contains, Slots
        <3>2. m \in Slots(l, BLANK)
            BY <3>1, FirstSlot, SlotsFinite
        <3>3. list_add(l, w) = [l EXCEPT ![m] = w]
            BY <2>2 DEF list_add, Slots
        <3>4. l[m] = BLANK
            BY <3>2 DEF Slots
        <3> HIDE DEF m
        <3>5. ASSUME NEW i \in DOMAIN l, l[i] = v
              PROVE  i \in DOMAIN [l EXCEPT ![m] = w] /\ [l EXCEPT ![m] = w][i] = v
            <4>1. i # m
                BY <3>4, <3>5
            <4> QED BY <3>5, <4>1, Zenon
        <3> QED BY <3>3, <3>5, Zenon DEF Slots
    <2> QED BY <2>1, <2>2
<1>2. list_add(l, w) \in Lists
    BY ListTypes
<1>3. Cardinality(Slots(l, v)) <= Cardinality(Slots(list_add(l, w), v))
    <2>1. IsFiniteSet(Slots(list_add(l, w), v))
        BY <1>2, SlotsFinite, Zenon
    <2>2. Slots(l, v) \in SUBSET Slots(list_add(l, w), v)
        BY <1>1, Zenon
    <2> QED BY <2>1, <2>2, FS_Subset, Zenon
<1> QED BY <1>2, <1>3, SlotsFinite

\* list_remove removes every copy of the value and none of another.
LEMMA RemoveClears ==
    ASSUME NEW l \in Lists, NEW v, v # BLANK, NEW w \in 0..BLANK
    PROVE  Copies(list_remove(l, w), v) = IF w = v THEN 0 ELSE Copies(l, v)
<1>1. list_remove(l, w) \in Lists
    BY ListTypes, Zenon
<1>2. /\ DOMAIN list_remove(l, w) = DOMAIN l
      /\ \A i \in DOMAIN l : list_remove(l, w)[i] = IF l[i] = w THEN BLANK ELSE l[i]
    BY Zenon DEF list_remove
<1>3. CASE w = v
    <2>1. Slots(list_remove(l, w), v) = {}
        BY <1>2, <1>3, Zenon DEF Slots
    <2> QED BY <1>1, <1>3, <2>1, SlotsFinite, FS_EmptySet, Zenon
<1>4. CASE w # v
    <2>1. Slots(list_remove(l, w), v) = Slots(l, v)
        BY <1>2, <1>4, Zenon DEF Slots
    <2> QED BY <1>1, <1>4, <2>1, SlotsFinite, Zenon
<1> QED BY <1>3, <1>4

-------------------------------------------------------------------------------
(* The scheduler task and the buttons.                                     *)

\* Once the files are counted, the task works with their number; it looks at a file
\* that is there.
Counted ==
    /\ task \in {"loop", "walk", "lock", "decide", "play"} => total = Total
    /\ task \in {"publish", "loop", "walk", "lock", "decide", "play"} => Total > 0
    /\ task \in {"lock", "decide", "play"} => index < Total
    /\ started /\ task \notin {"dead", "off"} => total = Total /\ Total > 0 /\ current < Total
    /\ started => task \notin {"scan", "publish"}

\* Where the next button leads.
After(i) == IF i + 1 >= total THEN 0 ELSE i + 1

\* With two files only, a first file that was seen as next before the button was pressed
\* is followed by itself.
Again == total = 2 /\ current = 0 /\ next = 0

\* Until prev or random is pressed: next follows current, and it is the file the task has
\* seen as next, even when the button was pressed between its look and its lock; except
\* at the first file.
Following ==
    ~turned =>
        /\ ~random
        /\ ~started => current = 0 /\ next \in {0, 1} /\ (next = 1 => total >= 2)
        /\ started /\ ~Ended => next = After(current) \/ Again
        /\ task = "lock" => index = next \/ (index = 0 /\ next = 1 /\ current = 0)

OfflineInv == TypeOK /\ Counted /\ Following

-------------------------------------------------------------------------------
(* Types.                                                                  *)

\* The parts of TypeOK: the stream scheduler's state, the offline scheduler's flags and
\* the rest of its state.
StreamOK ==
    /\ list \in Lists /\ dead \in Lists
    /\ initialized \in BOOLEAN /\ sema \in 0..1 /\ owed \in BOOLEAN
    /\ probing \in {"off", "wifi", "walk", "rest", "fault"} /\ pindex \in 0..Total

Flags ==
    /\ stop_flag \in BOOLEAN /\ random \in BOOLEAN
    /\ started \in BOOLEAN /\ turned \in BOOLEAN

SchedOK ==
    /\ total \in {0, Total} /\ current \in 0..Total
    /\ next \in 0..Total \union {65535}
    /\ mutex \in {"free", "web", "deleted"}
    /\ task \in {"scan", "publish", "loop", "walk", "lock", "decide", "play",
                 "exit", "dead", "off"}
    /\ index \in 0..Total
    /\ web \in {"idle", "stop", "unlock"}
    /\ deinit \in {"idle", "stop", "done"}

\* TypeOK is its parts, in this state and the next.
LEMMA TypeParts ==
    /\ TypeOK <=> StreamOK /\ Flags /\ SchedOK
    /\ TypeOK' <=> StreamOK' /\ Flags' /\ SchedOK'
    BY DEF TypeOK, StreamOK, Flags, SchedOK

\* A file's index is a uint16_t.
LEMMA IndexIsValue ==
    ASSUME NEW i \in 0..Total
    PROVE  i \in 0..BLANK /\ i \in Nat /\ Total \in Nat
    BY TotalAssumption, BlankIsNat

\* What the result of a play does to the streams known to be dead.
LEMMA PlayTypes ==
    ASSUME StreamOK, index \in 0..Total, NEW ok \in BOOLEAN, PlayReturns(ok)
    PROVE  dead' \in Lists
<1>1. list_add(dead, index) \in Lists /\ list_remove(dead, index) \in Lists
    BY IndexIsValue, ListTypes, Zenon DEF StreamOK
<1> QED BY <1>1, Zenon DEF PlayReturns, mark_alive, mark_dead, StreamOK

\* Stopping a play, or losing the request.
LEMMA StopTypes ==
    ASSUME StreamOK, SchedOK, StopPlay, task = "play" => index < Total
    PROVE  StreamOK' /\ task' \in {"walk", task} /\ index' \in 0..Total
<1>1. index \in 0..Total /\ index \in Nat /\ Total \in Nat
    BY IndexIsValue DEF SchedOK
<1>2. CASE UNCHANGED <<streamVars, task, index>>
    BY <1>1, <1>2 DEF streamVars, StreamOK
<1>3. CASE /\ task = "play" /\ PlayReturns(TRUE)
           /\ UNCHANGED <<list, initialized, sema, probing, pindex, owed>>
    <2>1. dead' \in Lists
        BY <1>1, <1>3, PlayTypes
    <2>2. StreamOK'
        BY <1>3, <2>1, Zenon DEF StreamOK
    <2> QED BY <1>1, <1>3, <2>2 DEF PlayReturns, NextFile
<1> QED BY <1>2, <1>3 DEF StopPlay

\* The probe task keeps the stream scheduler's types.
LEMMA ProbingTypes ==
    ASSUME StreamOK, ProbeConnected \/ ProbeFaults \/ ProbeStep \/ ProbeTimeout
    PROVE  StreamOK'
<1>1. pindex \in Nat /\ Total \in Nat
    BY IndexIsValue DEF StreamOK
<1>2. 0 \in 0..Total /\ 0 \in 0..1
    BY <1>1
<1>3. CASE ProbeFile
    <2>1. pindex + 1 \in 0..Total
        BY <1>1, <1>3 DEF ProbeFile
    <2>2. list_add(dead, pindex) \in Lists /\ list_remove(dead, pindex) \in Lists
        BY IndexIsValue, ListTypes, Zenon DEF StreamOK
    <2>3. dead' \in Lists
        BY <1>3, <2>2, Zenon DEF ProbeFile, mark_dead, mark_alive, StreamOK
    <2> QED BY <1>3, <2>1, <2>3, Zenon DEF ProbeFile, StreamOK
<1>4. CASE ProbeConnected \/ ProbeWakes \/ ProbeTimeout
    BY <1>2, <1>4, Zenon
       DEF ProbeConnected, ProbeWakes, ProbeTimeout, BeginWalk, StreamOK
<1>5. CASE ProbeRests \/ ProbeFaults
    BY <1>5, Zenon DEF ProbeRests, ProbeFaults, StreamOK
<1> QED BY <1>3, <1>4, <1>5 DEF ProbeStep

-------------------------------------------------------------------------------
(* The inductive invariant.                                                *)

\* There are at most 65535 files.
LEMMA TotalBounded == Total \in Nat /\ Total <= 65535
<1>1. Total \in Nat /\ Total <= BLANK
    BY TotalAssumption, BlankIsNat
<1>2. BLANK = 65535
    BY DEF BLANK
<1> QED BY <1>1, <1>2

\* The first state satisfies it.
LEMMA OfflineInit == Init => OfflineInv
<1> SUFFICES ASSUME Init PROVE OfflineInv
    OBVIOUS
<1>1. Total \in Nat /\ BLANK \in 0..BLANK
    BY TotalAssumption, BlankIsNat
<1>2. [i \in 1..MaxStreams |-> BLANK] \in Lists
    BY <1>1, Zenon DEF Lists
<1>3. 0 \in 0..Total /\ 0 \in 0..1
    BY <1>1
<1>4. StreamOK
    BY <1>2, <1>3, Zenon DEF Init, StreamInit, StreamOK
<1>5. Flags /\ SchedOK
    <2>1. Flags
        BY Zenon DEF Init, Flags
    <2>2. SchedOK
        BY <1>3 DEF Init, SchedOK
    <2> QED BY <2>1, <2>2
<1>6. Counted /\ Following
    BY DEF Init, Counted, Following
<1> QED BY <1>4, <1>5, <1>6, TypeParts DEF OfflineInv

\* Every step of the task, the buttons, the shutdown and the probing keeps it.
LEMMA OfflineStep == OfflineInv /\ [Next]_vars => OfflineInv'
<1> SUFFICES ASSUME OfflineInv, [Next]_vars PROVE OfflineInv'
    OBVIOUS
<1> USE DEF Ended, After, Again
<1>1. StreamOK /\ Flags /\ SchedOK /\ Counted /\ Following
    BY TypeParts DEF OfflineInv
<1>2. /\ Total \in Nat /\ index \in Nat /\ index <= Total /\ current \in Nat /\ current <= Total
      /\ total \in Nat /\ next \in Nat /\ Total <= 65535
    BY <1>1, TotalBounded DEF SchedOK
<1>3. 0 \in 0..Total /\ 0 \in 0..1 /\ 1 \in 0..1 /\ 0 \in 0..Total \union {65535}
    BY <1>2
<1>4. SUFFICES StreamOK' /\ Flags' /\ SchedOK' /\ Counted' /\ Following'
    BY TypeParts DEF OfflineInv
<1>5. CASE NoCard
    <2>1. StreamOK'
        BY <1>1, <1>5, Zenon DEF NoCard, streamVars, StreamOK
    <2>2. Flags'
        BY <1>1, <1>5, Zenon DEF NoCard, Flags
    <2>3. SchedOK'
        BY <1>1, <1>3, <1>5 DEF NoCard, SchedOK
    <2>4. Counted'
        BY <1>1, <1>2, <1>5 DEF NoCard, SchedOK, Counted
    <2>5. Following'
        BY <1>1, <1>2, <1>5 DEF NoCard, SchedOK, Counted, Following
    <2> QED BY <2>1, <2>2, <2>3, <2>4, <2>5
<1>6. CASE ScanFile
    <2>1. index' \in 0..Total
        BY <1>1, <1>2, <1>6 DEF ScanFile
    <2>2. list_add(list, index) \in Lists
        BY <1>1, IndexIsValue, ListTypes DEF StreamOK, SchedOK
    <2>3. StreamOK'
        BY <1>1, <1>6, <2>2, Zenon DEF ScanFile, AddStream, streamVars, StreamOK
    <2>4. Flags'
        BY <1>1, <1>6, Zenon DEF ScanFile, Flags
    <2>5. SchedOK'
        BY <1>1, <1>3, <1>6, <2>1 DEF ScanFile, SchedOK
    <2>6. Counted'
        BY <1>1, <1>2, <1>6 DEF ScanFile, SchedOK, Counted
    <2>7. Following'
        BY <1>1, <1>2, <1>6 DEF ScanFile, SchedOK, Counted, Following
    <2> QED BY <2>1, <2>2, <2>3, <2>4, <2>5, <2>6, <2>7
<1>7. CASE ScanDone
    <2>1. StreamOK'
        BY <1>1, <1>7, Zenon DEF ScanDone, StartProbing, StreamOK
    <2>2. Flags'
        BY <1>1, <1>7, Zenon DEF ScanDone, Flags
    <2>3. SchedOK'
        BY <1>1, <1>3, <1>7 DEF ScanDone, SchedOK
    <2>4. Counted'
        BY <1>1, <1>2, <1>7 DEF ScanDone, SchedOK, Counted
    <2>5. Following'
        BY <1>1, <1>2, <1>7 DEF ScanDone, SchedOK, Counted, Following
    <2> QED BY <2>1, <2>2, <2>3, <2>4, <2>5
<1>8. CASE Publish
    <2>1. next' \in 0..Total \union {65535}
        BY <1>1, <1>2, <1>8 DEF Publish, RandomNext, SchedOK, Counted
    <2>2. StreamOK'
        BY <1>1, <1>8, Zenon DEF Publish, streamVars, StreamOK
    <2>3. Flags'
        BY <1>1, <1>8, Zenon DEF Publish, Flags
    <2>4. SchedOK'
        BY <1>1, <1>3, <1>8, <2>1 DEF Publish, SchedOK
    <2>5. Counted'
        BY <1>1, <1>2, <1>8 DEF Publish, RandomNext, SchedOK, Counted
    <2>6. Following'
        BY <1>1, <1>2, <1>8 DEF Publish, RandomNext, SchedOK, Counted, Following
    <2> QED BY <2>1, <2>2, <2>3, <2>4, <2>5, <2>6
<1>9. CASE Loop
    <2>1. index' \in 0..Total
        BY <1>3, <1>9 DEF Loop
    <2>2. StreamOK'
        BY <1>1, <1>9, Zenon DEF Loop, streamVars, StreamOK
    <2>3. Flags'
        BY <1>1, <1>9, Zenon DEF Loop, Flags
    <2>4. SchedOK'
        BY <1>1, <1>3, <1>9, <2>1 DEF Loop, SchedOK
    <2>5. Counted'
        BY <1>1, <1>2, <1>9 DEF Loop, SchedOK, Counted
    <2>6. Following'
        BY <1>1, <1>2, <1>9 DEF Loop, SchedOK, Counted, Following
    <2> QED BY <2>1, <2>2, <2>3, <2>4, <2>5, <2>6
<1>10. CASE Visit
    <2>1. index' \in 0..Total /\ task' \in {"walk", "loop", "lock"}
        BY <1>1, <1>2, <1>10 DEF Visit, NextFile, SchedOK
    <2>2. StreamOK'
        BY <1>1, <1>10, Zenon DEF Visit, streamVars, StreamOK
    <2>3. Flags'
        BY <1>1, <1>10, Zenon DEF Visit, Flags
    <2>4. SchedOK'
        BY <1>1, <1>3, <1>10, <2>1 DEF Visit, SchedOK
    <2>5. Counted'
        BY <1>1, <1>2, <1>10 DEF Visit, NextFile, SchedOK, Counted
    <2>6. Following'
        BY <1>1, <1>2, <1>10 DEF Visit, NextFile, SchedOK, Counted, Following
    <2> QED BY <2>1, <2>2, <2>3, <2>4, <2>5, <2>6
<1>11. CASE Lock
    <2>1. next' \in 0..Total \union {65535}
        BY <1>1, <1>2, <1>11 DEF Lock, RandomNext, SchedOK, Counted
    <2>2. current' \in 0..Total
        BY <1>1, <1>11 DEF Lock, SchedOK
    <2>3. StreamOK'
        BY <1>1, <1>11, Zenon DEF Lock, streamVars, StreamOK
    <2>4. Flags'
        BY <1>1, <1>11, Zenon DEF Lock, Flags
    <2>5. SchedOK'
        BY <1>1, <1>3, <1>11, <2>1, <2>2 DEF Lock, SchedOK
    <2>6. Counted'
        BY <1>1, <1>2, <1>11 DEF Lock, SchedOK, Counted
    <2>7. Following'
        BY <1>1, <1>2, <1>11 DEF Lock, SchedOK, Counted, Following
    <2> QED BY <2>1, <2>2, <2>3, <2>4, <2>5, <2>6, <2>7
<1>12. CASE Decide
    <2>1. index' \in 0..Total /\ task' \in {"walk", "play"}
        BY <1>1, <1>2, <1>12 DEF Decide, NextFile, SchedOK, Counted
    <2>2. StreamOK'
        BY <1>1, <1>12, Zenon DEF Decide, streamVars, StreamOK
    <2>3. Flags'
        BY <1>1, <1>12, Zenon DEF Decide, Flags
    <2>4. SchedOK'
        BY <1>1, <1>3, <1>12, <2>1 DEF Decide, SchedOK
    <2>5. Counted'
        BY <1>1, <1>2, <1>12 DEF Decide, NextFile, SchedOK, Counted
    <2>6. Following'
        BY <1>1, <1>2, <1>12 DEF Decide, NextFile, SchedOK, Counted, Following
    <2> QED BY <2>1, <2>2, <2>3, <2>4, <2>5, <2>6
<1>13. CASE PlayEnds
    <2>1. index' \in 0..Total /\ task' = "walk"
        BY <1>1, <1>2, <1>13 DEF PlayEnds, PlayReturns, NextFile, Counted
    <2>2. dead' \in Lists
        BY <1>1, <1>13, PlayTypes DEF PlayEnds, SchedOK
    <2>3. StreamOK'
        BY <1>1, <1>13, <2>2, Zenon DEF PlayEnds, StreamOK
    <2>4. Flags'
        BY <1>1, <1>13, Zenon DEF PlayEnds, Flags
    <2>5. SchedOK'
        BY <1>1, <1>3, <1>13, <2>1 DEF PlayEnds, SchedOK
    <2>6. Counted'
        BY <1>1, <1>2, <1>13 DEF PlayEnds, PlayReturns, NextFile, SchedOK, Counted
    <2>7. Following'
        BY <1>1, <1>2, <1>13 DEF PlayEnds, PlayReturns, NextFile, SchedOK, Counted, Following
    <2> QED BY <2>1, <2>2, <2>3, <2>4, <2>5, <2>6, <2>7
<1>14. CASE StreamError
    <2>1. StreamOK'
        BY <1>1, <1>3, <1>14 DEF StreamError, ForceProbe, StreamOK
    <2>2. Flags'
        BY <1>1, <1>14, Zenon DEF StreamError, schedVars, Flags
    <2>3. SchedOK'
        BY <1>1, <1>3, <1>14 DEF StreamError, schedVars, SchedOK
    <2>4. Counted'
        BY <1>1, <1>2, <1>14 DEF StreamError, schedVars, SchedOK, Counted
    <2>5. Following'
        BY <1>1, <1>2, <1>14 DEF StreamError, schedVars, SchedOK, Counted, Following
    <2> QED BY <2>1, <2>2, <2>3, <2>4, <2>5
<1>15. CASE Exit
    <2>1. StreamOK'
        <3>1. /\ initialized' = FALSE /\ sema' = 0 /\ probing' = "off" /\ pindex' = 0
              /\ owed' = FALSE /\ list' = list /\ dead' = dead
            BY <1>15, Zenon DEF Exit, StreamDeinit
        <3>2. list \in Lists /\ dead \in Lists
            BY <1>1, Zenon DEF StreamOK
        <3>3. initialized' \in BOOLEAN /\ owed' \in BOOLEAN
            BY <3>1, Zenon
        <3>4. list' \in Lists /\ dead' \in Lists
            BY <3>1, <3>2, Zenon
        <3>5. sema' \in 0..1 /\ pindex' \in 0..Total
            BY <1>3, <3>1
        <3>6. probing' \in {"off", "wifi", "walk", "rest"}
            BY <3>1
        <3> QED BY <3>3, <3>4, <3>5, <3>6, Zenon DEF StreamOK
    <2>2. Flags'
        BY <1>1, <1>15, Zenon DEF Exit, Flags
    <2>3. SchedOK'
        BY <1>1, <1>3, <1>15 DEF Exit, SchedOK
    <2>4. Counted'
        BY <1>1, <1>2, <1>15 DEF Exit, SchedOK, Counted
    <2>5. Following'
        BY <1>1, <1>2, <1>15 DEF Exit, SchedOK, Counted, Following
    <2> QED BY <2>1, <2>2, <2>3, <2>4, <2>5
<1>16. CASE PressNext
    <2>1. next' \in 0..Total \union {65535}
        BY <1>1, <1>2, <1>16 DEF PressNext, RandomNext, SchedOK, Counted
    <2>2. StreamOK'
        BY <1>1, <1>16, Zenon DEF PressNext, streamVars, StreamOK
    <2>3. Flags'
        BY <1>1, <1>16, Zenon DEF PressNext, Flags
    <2>4. SchedOK'
        BY <1>1, <1>3, <1>16, <2>1 DEF PressNext, SchedOK
    <2>5. Counted'
        BY <1>1, <1>2, <1>16 DEF PressNext, SchedOK, Counted
    <2>6. Following'
        BY <1>1, <1>2, <1>16 DEF PressNext, SchedOK, Counted, Following
    <2> QED BY <2>1, <2>2, <2>3, <2>4, <2>5, <2>6
<1>17. CASE PressPrev
    <2>1. next' \in 0..Total \union {65535}
        BY <1>1, <1>2, <1>17 DEF PressPrev, RandomNext, SchedOK, Counted
    <2>2. StreamOK'
        BY <1>1, <1>17 DEF PressPrev, streamVars, StreamOK
    <2>3. Flags'
        BY <1>1, <1>17 DEF PressPrev, Flags
    <2>4. SchedOK'
        BY <1>1, <1>3, <1>17, <2>1 DEF PressPrev, SchedOK
    <2>5. Counted'
        BY <1>1, <1>2, <1>17 DEF PressPrev, SchedOK, Counted
    <2>6. Following'
        BY <1>1, <1>2, <1>17 DEF PressPrev, SchedOK, Counted, Following
    <2> QED BY <2>1, <2>2, <2>3, <2>4, <2>5, <2>6
<1>18. CASE PressRandom
    <2>1. StreamOK'
        BY <1>1, <1>18, Zenon DEF PressRandom, streamVars, StreamOK
    <2>2. Flags'
        BY <1>1, <1>18, Zenon DEF PressRandom, Flags
    <2>3. SchedOK'
        BY <1>1, <1>3, <1>18 DEF PressRandom, SchedOK
    <2>4. Counted'
        BY <1>1, <1>2, <1>18 DEF PressRandom, SchedOK, Counted
    <2>5. Following'
        BY <1>1, <1>2, <1>18 DEF PressRandom, SchedOK, Counted, Following
    <2> QED BY <2>1, <2>2, <2>3, <2>4, <2>5
<1>19. CASE WebStop
    <2>1. StreamOK' /\ task' \in {"walk", task} /\ index' \in 0..Total
        BY <1>1, <1>19, StopTypes DEF WebStop, Counted
    <2>2. Flags'
        BY <1>1, <1>19, Zenon DEF WebStop, Flags
    <2>3. SchedOK'
        BY <1>1, <1>3, <1>19, <2>1 DEF WebStop, SchedOK
    <2>4. Counted'
        BY <1>1, <1>2, <1>19 DEF WebStop, StopPlay, PlayReturns, NextFile, SchedOK, Counted
    <2>5. Following'
        BY <1>1, <1>2, <1>19 DEF WebStop, StopPlay, PlayReturns, NextFile, SchedOK,
           Counted, Following
    <2> QED BY <2>1, <2>2, <2>3, <2>4, <2>5
<1>20. CASE WebUnlock
    <2>1. StreamOK'
        BY <1>1, <1>20, Zenon DEF WebUnlock, streamVars, StreamOK
    <2>2. Flags'
        BY <1>1, <1>20, Zenon DEF WebUnlock, Flags
    <2>3. SchedOK'
        BY <1>1, <1>3, <1>20 DEF WebUnlock, SchedOK
    <2>4. Counted'
        BY <1>1, <1>2, <1>20 DEF WebUnlock, SchedOK, Counted
    <2>5. Following'
        BY <1>1, <1>2, <1>20 DEF WebUnlock, SchedOK, Counted, Following
    <2> QED BY <2>1, <2>2, <2>3, <2>4, <2>5
<1>21. CASE Deinit
    <2>1. StreamOK'
        BY <1>1, <1>21, Zenon DEF Deinit, streamVars, StreamOK
    <2>2. Flags'
        BY <1>1, <1>21, Zenon DEF Deinit, Flags
    <2>3. SchedOK'
        BY <1>1, <1>3, <1>21 DEF Deinit, SchedOK
    <2>4. Counted'
        BY <1>1, <1>2, <1>21 DEF Deinit, SchedOK, Counted
    <2>5. Following'
        BY <1>1, <1>2, <1>21 DEF Deinit, SchedOK, Counted, Following
    <2> QED BY <2>1, <2>2, <2>3, <2>4, <2>5
<1>22. CASE DeinitStop
    <2>1. StreamOK' /\ task' \in {"walk", task} /\ index' \in 0..Total
        BY <1>1, <1>22, StopTypes DEF DeinitStop, Counted
    <2>2. Flags'
        BY <1>1, <1>22, Zenon DEF DeinitStop, Flags
    <2>3. SchedOK'
        BY <1>1, <1>3, <1>22, <2>1 DEF DeinitStop, SchedOK
    <2>4. Counted'
        BY <1>1, <1>2, <1>22 DEF DeinitStop, StopPlay, PlayReturns, NextFile, SchedOK, Counted
    <2>5. Following'
        BY <1>1, <1>2, <1>22 DEF DeinitStop, StopPlay, PlayReturns, NextFile,
           SchedOK, Counted, Following
    <2> QED BY <2>1, <2>2, <2>3, <2>4, <2>5
<1>23. CASE Probing
    <2>1. StreamOK'
        BY <1>1, <1>23, ProbingTypes DEF Probing
    <2>2. Flags'
        BY <1>1, <1>23, Zenon DEF Probing, schedVars, Flags
    <2>3. SchedOK'
        BY <1>1, <1>3, <1>23 DEF Probing, schedVars, SchedOK
    <2>4. Counted'
        BY <1>1, <1>2, <1>23 DEF Probing, schedVars, SchedOK, Counted
    <2>5. Following'
        BY <1>1, <1>2, <1>23 DEF Probing, schedVars, SchedOK, Counted, Following
    <2> QED BY <2>1, <2>2, <2>3, <2>4, <2>5
<1>24. CASE UNCHANGED vars
    <2>1. StreamOK'
        BY <1>1, <1>24, Zenon DEF vars, streamVars, StreamOK
    <2>2. Flags'
        BY <1>1, <1>24, Zenon DEF vars, schedVars, Flags
    <2>3. SchedOK'
        BY <1>1, <1>3, <1>24 DEF vars, schedVars, SchedOK
    <2>4. Counted'
        BY <1>1, <1>2, <1>24 DEF vars, schedVars, SchedOK, Counted
    <2>5. Following'
        BY <1>1, <1>2, <1>24 DEF vars, schedVars, SchedOK, Counted, Following
    <2> QED BY <2>1, <2>2, <2>3, <2>4, <2>5
<1> QED
    BY <1>5, <1>6, <1>7, <1>8, <1>9, <1>10, <1>11, <1>12, <1>13, <1>14, <1>15, <1>16,
       <1>17, <1>18, <1>19, <1>20, <1>21, <1>22, <1>23, <1>24 DEF Next, TaskStep

-------------------------------------------------------------------------------
(* Theorems.                                                               *)

\* The scheduler's variables keep their types and OfflineInv holds, for any number of
\* files, streams and slots, whichever buttons are pressed and whenever the downloader
\* shuts the scheduler down.
THEOREM OfflineInvariant == Spec => []OfflineInv
    BY OfflineInit, OfflineStep, PTL DEF Spec

\* In particular state.next is a uint16_t the program means: a file's index, one past the
\* last, or the 65535 that prev stores before the files are counted.
THEOREM OfflineTypes == Spec => []TypeOK
<1>1. OfflineInv => TypeOK
    BY DEF OfflineInv
<1> QED BY <1>1, OfflineInvariant, PTL

\* Until prev or random is pressed, the file after state.current comes next, or, with two
\* files only, the first file once more.
FollowsOrRepeats ==
    started /\ ~turned /\ ~Ended =>
        \/ next = (current + 1) % total
        \/ total = 2 /\ current = 0 /\ next = 0

\* Going around the end is the remainder.
LEMMA AfterIsRemainder ==
    ASSUME NEW n \in Nat, NEW i \in Nat, i < n
    PROVE  (IF i + 1 >= n THEN 0 ELSE i + 1) = (i + 1) % n
<1>1. CASE i + 1 = n
    <2>1. n % n = 0
        OBVIOUS
    <2> QED BY <1>1, <2>1
<1>2. CASE i + 1 < n
    BY <1>2
<1> QED BY <1>1, <1>2

\* The invariant says so.
LEMMA FollowingMeans == OfflineInv => FollowsOrRepeats
<1> SUFFICES ASSUME OfflineInv, started, ~turned, ~Ended
             PROVE  \/ next = (current + 1) % total
                    \/ total = 2 /\ current = 0 /\ next = 0
    BY DEF FollowsOrRepeats
<1>1. total = Total /\ current < Total
    BY DEF OfflineInv, Counted, Ended
<1>2. total \in Nat /\ current \in Nat
    BY <1>1, TotalBounded DEF OfflineInv, TypeOK
<1>3. next = After(current) \/ Again
    BY DEF OfflineInv, Following
<1>4. After(current) = (current + 1) % total
    BY <1>1, <1>2, AfterIsRemainder DEF After
<1> QED BY <1>3, <1>4 DEF Again

\* The next button and the task's unlocked read of state.next never skip a file, for any
\* number of files; the only file that may repeat is the first of two.
THEOREM NextFollowsOrRepeats == Spec => []FollowsOrRepeats
    BY OfflineInvariant, FollowingMeans, PTL

\* With any number of files but two, state.next is always the file after state.current.
THEOREM NextFollows == ASSUME Total # 2 PROVE Spec => []NextFollowsCurrent
<1>1. OfflineInv => NextFollowsCurrent
    <2> SUFFICES ASSUME OfflineInv, started, ~turned, ~Ended
                 PROVE  next = (current + 1) % total
        BY DEF NextFollowsCurrent
    <2>1. total = Total
        BY DEF OfflineInv, Counted, Ended
    <2> QED BY <2>1, FollowingMeans DEF FollowsOrRepeats
<1> QED BY <1>1, OfflineInvariant, PTL

\* What a step does to the streams known to be dead: nothing, or one value is added or
\* removed.
LEMMA DeadStep ==
    ASSUME OfflineInv, [Next]_vars
    PROVE  \/ dead' = dead
           \/ \E w \in 0..BLANK : dead' = list_add(dead, w) \/ dead' = list_remove(dead, w)
<1>1. index \in 0..BLANK /\ pindex \in 0..BLANK
    BY IndexIsValue DEF OfflineInv, TypeOK
<1>2. ASSUME NEW ok \in BOOLEAN, PlayReturns(ok)
      PROVE  dead' = dead \/ dead' = list_add(dead, index) \/ dead' = list_remove(dead, index)
    BY <1>2, Zenon DEF PlayReturns, mark_alive, mark_dead
<1>3. CASE PlayEnds
    BY <1>1, <1>2, <1>3, Zenon DEF PlayEnds
<1>4. CASE WebStop \/ DeinitStop
    BY <1>1, <1>2, <1>4, Zenon DEF WebStop, DeinitStop, StopPlay, streamVars
<1>5. CASE Probing
    BY <1>1, <1>5, Zenon
       DEF Probing, ProbeConnected, ProbeFaults, ProbeStep, ProbeFile, ProbeRests, ProbeWakes,
           ProbeTimeout, mark_alive, mark_dead
<1>6. CASE ScanFile \/ ScanDone \/ StreamError \/ Exit
    BY <1>6, Zenon
       DEF ScanFile, AddStream, ScanDone, StartProbing, StreamError, ForceProbe, Exit,
           StreamDeinit, streamVars
<1>7. CASE NoCard \/ Publish \/ Loop \/ Visit \/ Lock \/ Decide
    BY <1>7, Zenon DEF NoCard, Publish, Loop, Visit, Lock, Decide, streamVars
<1>8. CASE PressNext \/ PressPrev \/ PressRandom \/ WebUnlock \/ Deinit
    BY <1>8 DEF PressNext, PressPrev, PressRandom, WebUnlock, Deinit, streamVars
<1>9. CASE UNCHANGED vars
    BY <1>9, Zenon DEF vars, streamVars
<1> QED
    BY <1>3, <1>4, <1>5, <1>6, <1>7, <1>8, <1>9 DEF Next, TaskStep

\* A stream marked alive is alive, however many slots held it as dead, and nothing else
\* ever forgets that a stream is dead: not a full list, not another stream's mark.
THEOREM AliveIsAlive == Spec => AliveMeansAlive
<1>1. ASSUME OfflineInv, [Next]_vars, NEW v \in Streams,
             Copies(dead', v) < Copies(dead, v)
      PROVE  Copies(dead', v) = 0
    <2>1. v # BLANK
        BY StreamsAssumption, TotalAssumption, BlankIsNat
    <2>2. dead \in Lists
        BY <1>1 DEF OfflineInv, TypeOK
    <2>3. Copies(dead, v) \in Nat
        BY <2>2, SlotsFinite, Zenon
    <2>4. dead' # dead
        BY <1>1, <2>3
    <2>5. PICK w \in 0..BLANK : dead' = list_add(dead, w) \/ dead' = list_remove(dead, w)
        BY <1>1, <2>4, DeadStep, Zenon
    <2>6. CASE dead' = list_add(dead, w)
        <3>1. Copies(list_add(dead, w), v) >= Copies(dead, v)
            BY <2>1, <2>2, AddKeepsCopies, Zenon
        <3>2. list_add(dead, w) \in Lists
            BY <2>2, ListTypes, Zenon
        <3>3. Copies(list_add(dead, w), v) \in Nat
            BY <3>2, SlotsFinite, Zenon
        <3> QED BY <1>1, <2>3, <2>6, <3>1, <3>3
    <2>7. CASE dead' = list_remove(dead, w)
        <3>1. Copies(list_remove(dead, w), v) = IF w = v THEN 0 ELSE Copies(dead, v)
            BY <2>1, <2>2, RemoveClears, Zenon
        <3> QED BY <1>1, <2>3, <2>7, <3>1
    <2> QED BY <2>5, <2>6, <2>7
<1>2. OfflineInv /\ [Next]_vars =>
        [\A v \in Streams : Copies(dead', v) < Copies(dead, v) => Copies(dead', v) = 0]_vars
    BY <1>1
<1> QED BY <1>2, OfflineInvariant, PTL DEF Spec, AliveMeansAlive

-------------------------------------------------------------------------------
(* Probes.                                                                 *)

\* No step loses the token of a request that no walk has begun with.
LEMMA RequestStep == RequestKept /\ [Next]_vars => RequestKept'
<1> SUFFICES ASSUME RequestKept, [Next]_vars PROVE RequestKept'
    OBVIOUS
<1>1. CASE ScanFile \/ ScanDone \/ NoCard \/ Publish
    BY <1>1 DEF RequestKept, ScanFile, AddStream, ScanDone, StartProbing, NoCard, Publish, streamVars
<1>2. CASE Loop \/ Visit \/ Lock \/ Decide
    BY <1>2 DEF RequestKept, Loop, Visit, Lock, Decide, streamVars
<1>3. CASE PlayEnds
    BY <1>3 DEF RequestKept, PlayEnds, PlayReturns
<1>4. CASE StreamError
    BY <1>4 DEF RequestKept, StreamError, ForceProbe, schedVars
<1>5. CASE Exit
    BY <1>5 DEF RequestKept, Exit, StreamDeinit
<1>6. CASE WebStop \/ DeinitStop
    BY <1>6 DEF RequestKept, WebStop, DeinitStop, StopPlay, PlayReturns, streamVars
<1>7. CASE PressNext \/ PressPrev \/ PressRandom \/ WebUnlock \/ Deinit
    <2>1. UNCHANGED streamVars
        BY <1>7 DEF PressNext, PressPrev, PressRandom, WebUnlock, Deinit
    <2> QED BY <2>1, Zenon DEF RequestKept, streamVars
<1>8. CASE Probing
    <2>1. CASE ProbeConnected \/ ProbeWakes \/ ProbeTimeout
        BY <2>1, Zenon DEF RequestKept, ProbeConnected, ProbeWakes, ProbeTimeout, BeginWalk
    <2>2. CASE ProbeFaults \/ ProbeFile \/ ProbeRests
        BY <2>2, Zenon DEF RequestKept, ProbeFaults, ProbeFile, ProbeRests
    <2> QED BY <1>8, <2>1, <2>2 DEF Probing, ProbeStep
<1>9. CASE UNCHANGED vars
    BY <1>9 DEF RequestKept, vars, streamVars, schedVars
<1> QED
    BY <1>1, <1>2, <1>3, <1>4, <1>5, <1>6, <1>7, <1>8, <1>9 DEF Next, TaskStep

\* A request for a probe is kept until a walk begins, for any streams and lists, whenever
\* the error comes: during a walk, at its end, or before the network is there.
THEOREM RequestStays == Spec => []RequestKept
<1>1. Init => RequestKept
    BY DEF Init, StreamInit, RequestKept
<1> QED BY <1>1, RequestStep, PTL DEF Spec

===============================================================================
