------------------------------- MODULE AudioPath ------------------------------
(***************************************************************************)
(* One play, from the source to the chip: play_file (ReadAhead) or         *)
(* play_stream (Stream) of player.c, feeding vs1011_play (Vs1011) while    *)
(* the web server changes settings.  All of client, listener and line are  *)
(* the player task.                                                        *)
(***************************************************************************)
EXTENDS ReadAhead, Stream, Vs1011

VARIABLE source   \* what is played: "file" or "stream"

pathVars == <<vars, streamVars, decoderVars, source>>

PathInit ==
    /\ Init /\ StreamInit /\ DecoderInit
    /\ source \in {"file", "stream"}

-------------------------------------------------------------------------------
(* play_file: the reader runs until the file is closed and the buffer freed. *)

ReaderRuns ==
    /\ source = "file" /\ line # "done" /\ ReaderStep
    /\ UNCHANGED <<streamVars, decoderVars, source>>

\* file_read_func, called at "pull", up to its return ...
FileRead ==
    /\ source = "file" /\ line = "pull" /\ client # "play"
    /\ ClientCalls \/ ClientTakes \/ ClientLocks \/ ClientCopies \/ ClientUnlocks \/ ClientStarts
    /\ UNCHANGED <<streamVars, decoderVars, source>>

\* ... with a block, the end of the file ...
FileReturns ==
    /\ source = "file" /\ ClientPlays /\ Pulled(got # 0)
    /\ UNCHANGED <<streamVars, source>>

\* ... or a stop request.
FileStopped ==
    /\ source = "file" /\ ClientStops /\ Pulled(FALSE)
    /\ UNCHANGED <<streamVars, source>>

-------------------------------------------------------------------------------
(* play_stream: start, play, stop.                                         *)

ReceiverRuns ==
    /\ source = "stream" /\ ReceiverStep
    /\ UNCHANGED <<vars, decoderVars, source>>

\* stream_start before vs1011_play, stream_stop after it.
StreamStarts ==
    /\ source = "stream" /\ StartStep
    /\ UNCHANGED <<vars, decoderVars, source>>

StreamFails ==
    /\ source = "stream" /\ StartFails
    /\ UNCHANGED <<vars, decoderVars, source>>

StreamStops ==
    /\ source = "stream"
    /\ (line = "done" /\ SetStop) \/ StopStep
    /\ UNCHANGED <<vars, decoderVars, source>>

\* stream_read_func, called at "pull"; a stop request makes it return 0 at once.
StreamRead ==
    /\ source = "stream" /\ line = "pull" /\ ReadBits
    /\ UNCHANGED <<vars, decoderVars, source>>

StreamReturns ==
    /\ source = "stream"
    /\ (ReadData /\ Pulled(TRUE)) \/ (ReadUnderflow /\ Pulled(FALSE)) \/ (ReadAtEos /\ Pulled(FALSE))
    /\ UNCHANGED <<vars, source>>

StreamStopped ==
    /\ source = "stream" /\ listener = "read" /\ Pulled(FALSE)
    /\ UNCHANGED <<vars, streamVars, source>>

-------------------------------------------------------------------------------
(* vs1011_play, the chip and the web server.                               *)

DecoderRuns ==
    /\ source = "file" \/ listener = "read"
    /\ LineStep
    /\ UNCHANGED <<vars, streamVars, source>>

ChipRuns == ChipStep /\ UNCHANGED <<vars, streamVars, source>>
ChipAsks == ChipReady /\ UNCHANGED <<vars, streamVars, source>>
WebSets == Setting /\ UNCHANGED <<vars, streamVars, source>>
WebRuns == WebStep /\ UNCHANGED <<vars, streamVars, source>>

PlayerRuns ==
    FileRead \/ FileReturns \/ StreamStarts \/ StreamRead \/ StreamReturns \/ StreamStops \/ DecoderRuns

PathNext ==
    \/ ReaderRuns \/ ReceiverRuns \/ PlayerRuns \/ FileStopped \/ StreamFails \/ StreamStopped
    \/ ChipRuns \/ WebSets \/ WebRuns

PathSpec == PathInit /\ [][PathNext]_pathVars

\* Every task runs on, and the chip asks for data again after a while.
FairPathSpec ==
    /\ PathSpec
    /\ WF_pathVars(ReaderRuns) /\ WF_pathVars(ReceiverRuns) /\ WF_pathVars(PlayerRuns)
    /\ WF_pathVars(ChipAsks) /\ WF_pathVars(WebRuns)

-------------------------------------------------------------------------------

\* No hand-over between the tasks and the chip jams: every play comes to its end and
\* every stream_stop returns, whatever the receiving task was waiting for.  The
\* exceptions are a stream that could not be started, and read_ahead.c out of memory:
\* read_ahead_next then waits for a task that does not exist, or faults.
PathCloses ==
    <>(\/ source = "file" /\ (line = "done" \/ reader = "failed" \/ client = "panic")
       \/ source = "stream" /\ listener \in {"closed", "failed"})

===============================================================================
