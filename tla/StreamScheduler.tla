--------------------------- MODULE StreamScheduler ----------------------------
(***************************************************************************)
(* firmware/main/playlist/stream_scheduler.c: which of the media files are *)
(* radio streams, which of those are dead, and the task that probes them.  *)
(* The offline scheduler (OfflineScheduler.tla) drives it.                 *)
(*                                                                         *)
(* A media file is its index in the directory walk of recurse_dir.         *)
(***************************************************************************)
EXTENDS Naturals, FiniteSets, FiniteSetsExt

CONSTANTS
    Total,       \* media files on the SD card
    Streams,     \* the indexes of those that are stream playlists
    MaxStreams   \* STREAM_SCHEDULER_MAX_STREAMS

\* uint16_t values; the greatest marks an unused slot.
BLANK == 65535

ASSUME TotalAssumption == Total \in 0..BLANK
ASSUME StreamsAssumption == Streams \subseteq 0..(Total - 1)
ASSUME MaxStreamsAssumption == MaxStreams \in Nat \ {0}

VARIABLES
    list,         \* p.list
    dead,         \* p.dead
    initialized,  \* p.initialized
    sema,         \* p.sema: tokens of the binary semaphore
    probing,      \* the probe task: next step
    pindex,       \* the probe task: file its walk is at
    owed          \* ghost: force_probe was called and no walk began since

streamVars == <<list, dead, initialized, sema, probing, pindex, owed>>

Lists == [1..MaxStreams -> 0..BLANK]

list_contains(l, v) == \E i \in DOMAIN l : l[i] = v
list_size(l) == Cardinality({i \in DOMAIN l : l[i] # BLANK})

\* The first unused slot takes the value, if there is one: no check whether the
\* value is there already.
list_add(l, v) ==
    IF list_contains(l, BLANK)
    THEN [l EXCEPT ![Min({i \in DOMAIN l : l[i] = BLANK})] = v]
    ELSE l

list_remove_First(l, v) ==
    IF list_contains(l, v)
    THEN [l EXCEPT ![Min({i \in DOMAIN l : l[i] = v})] = BLANK]
    ELSE l

\* Every slot that holds the value becomes unused.
list_remove(l, v) == [i \in DOMAIN l |-> IF l[i] = v THEN BLANK ELSE l[i]]

stream_scheduler_is_known_stream(v) == initialized /\ list_contains(list, v)
stream_scheduler_is_alive(v) == initialized /\ ~list_contains(dead, v)
stream_scheduler_any_alive_streams ==
    initialized /\ list_size(list) # 0 /\ list_size(dead) = 0

mark_dead(v) == dead' = list_add(dead, v)
mark_alive(v) == dead' = list_remove(dead, v)

\* stream_scheduler_init has cleared the lists and made the mutex and the
\* semaphore; without memory it undid that again, and the offline scheduler goes on
\* without it.
StreamInit ==
    /\ list = [i \in 1..MaxStreams |-> BLANK]
    /\ dead = [i \in 1..MaxStreams |-> BLANK]
    /\ initialized \in BOOLEAN /\ sema = 0
    /\ probing = "off" /\ pindex = 0 /\ owed = FALSE

\* stream_scheduler_add_stream.
AddStream(v) ==
    /\ list' = IF initialized THEN list_add(list, v) ELSE list
    /\ UNCHANGED <<dead, initialized, sema, probing, pindex, owed>>

\* stream_scheduler_start creates the probe task, which waits for the network; no
\* task is there if that fails, which is only logged.
StartProbing ==
    /\ probing' \in {"wifi", "off"}
    /\ UNCHANGED <<list, dead, initialized, sema, pindex, owed>>

\* stream_scheduler_deinit deletes the probe task, wherever it is, and then its
\* mutex and semaphore.
StreamDeinit ==
    /\ initialized' = FALSE /\ sema' = 0 /\ probing' = "off"
    /\ pindex' = 0 /\ owed' = FALSE
    /\ UNCHANGED <<list, dead>>

\* stream_scheduler_force_probe: give the binary semaphore, if it exists.
ForceProbe ==
    /\ sema' = IF initialized THEN 1 ELSE sema
    /\ owed' = TRUE
    /\ UNCHANGED <<list, dead, initialized, probing, pindex>>

-------------------------------------------------------------------------------
(* The probe task.                                                         *)

BeginWalk == probing' = "walk" /\ pindex' = 0 /\ owed' = FALSE

\* wifi_wait_connected returns.
ProbeConnected ==
    /\ probing = "wifi" /\ initialized
    /\ BeginWalk
    /\ UNCHANGED <<list, dead, initialized, sema>>

\* After a failed stream_scheduler_init p.storage_path is null: opendir faults and
\* the device restarts.  That is not modelled further; the other tasks go on, which
\* only adds behaviours.
ProbeFaults ==
    /\ probing = "wifi" /\ ~initialized
    /\ probing' = "fault"
    /\ UNCHANGED <<list, dead, initialized, sema, pindex, owed>>

\* on_medifile_callback: a known stream without network, with an unreadable
\* playlist or with no answer is dead; one that answers is alive.
ProbeFile ==
    /\ probing = "walk" /\ pindex < Total
    /\ pindex' = pindex + 1
    /\ IF stream_scheduler_is_known_stream(pindex)
       THEN mark_dead(pindex) \/ mark_alive(pindex)
       ELSE UNCHANGED dead
    /\ UNCHANGED <<list, initialized, sema, probing, owed>>

ProbeRests_Drains ==
    /\ probing = "walk" /\ pindex = Total
    /\ probing' = "rest" /\ sema' = 0
    /\ UNCHANGED <<list, dead, initialized, pindex, owed>>

ProbeRests ==
    /\ probing = "walk" /\ pindex = Total
    /\ probing' = "rest"
    /\ UNCHANGED <<list, dead, initialized, sema, pindex, owed>>

\* xSemaphoreTake(p.sema) gets a token, or times out after 10 s (1 h if every
\* stream is alive); the next walk begins.
ProbeWakes ==
    /\ probing = "rest" /\ sema = 1 /\ sema' = 0
    /\ BeginWalk
    /\ UNCHANGED <<list, dead, initialized>>

ProbeTimeout ==
    /\ probing = "rest" /\ sema = 0
    /\ BeginWalk
    /\ UNCHANGED <<list, dead, initialized, sema>>

ProbeStep == ProbeFile \/ ProbeRests \/ ProbeWakes

===============================================================================
