--------------------------- MODULE AudioPathProofs ----------------------------
(***************************************************************************)
(* Proofs about AudioPath.tla, for files and streams of any length, chunks *)
(* and buffers of any size and any number of settings.  Each component has *)
(* an inductive invariant over its own variables; a step of the path is,   *)
(* for each component, one of that component's steps or a stutter.         *)
(***************************************************************************)
EXTENDS AudioPath, SequenceTheorems, TLAPS

-------------------------------------------------------------------------------
(* The components' next-state relations, as the path uses them.            *)

StreamNext ==
    StartStep \/ StartFails \/ ReceiverStep \/ ReadBits \/ ReadData \/ ReadUnderflow
    \/ SetStop \/ StopStep

DecoderNext ==
    LineStep \/ (\E data \in BOOLEAN : Pulled(data)) \/ ChipStep \/ Setting \/ WebStep

-------------------------------------------------------------------------------
(* Invariant of the decoder driver.                                        *)

Steps == {"idle", "take", "transmit", "wait2", "take2", "unlock"}
Lines == {"time1", "time2", "info", "prime", "pull", "send", "position", "format", "mode",
          "outofwav", "drain", "drained", "flush", "final", "codec", "done"}
Kinds == {"none", "read", "write", "sdi"}

DecoderTypes ==
    /\ dreq \in BOOLEAN /\ token \in 0..1 /\ bus \in Callers \cup {"none"}
    /\ op \in [Callers -> [kind : Kinds, pc : Steps]]
    /\ wav \in BOOLEAN /\ saw \in BOOLEAN /\ line \in Lines /\ count \in Nat
    /\ settings \in Nat

\* Who is inside a bus operation holds the mutex.
BusOwned == \A t \in Callers : op[t].pc # "idle" => bus = t

\* While the line is low a token is left over only until the wait after a transfer.
TokenFresh ==
    ~dreq /\ token = 1 => \E t \in Callers : op[t].pc \in {"wait2", "take2"}

\* The player is inside a bus operation only at statements that are one, and the last
\* look at SM_OUTOFWAV is a read, which does not wait afterwards.
PlayerAtLine ==
    /\ line \in {"pull", "done"} => op["player"].pc = "idle"
    /\ line = "final" /\ op["player"].pc # "idle" => op["player"].kind = "read"
    /\ op["player"].kind = "read" => op["player"].pc \notin {"wait2", "take2"}
    /\ line = "codec" => count < 10

\* WAV mode is on only from the statement that asks for it to the last look at it,
\* which sees it, and from there to the reset.
WavTracked ==
    wav => \/ line \in {"outofwav", "drain", "drained", "flush"}
           \/ line = "final" /\ (op["player"].pc = "unlock" => saw)
           \/ line = "codec" /\ count = 0
           \/ line = "codec" /\ count = 1 /\ op["player"].pc \in {"idle", "take", "transmit"}

DecoderInv ==
    DecoderTypes /\ BusOwned /\ TokenFresh /\ SentWhenReady /\ PlayerAtLine /\ WavTracked

-------------------------------------------------------------------------------
(* Invariant of the stream input.                                          *)

StreamTypes ==
    /\ received \in Nat /\ hand \in Seq(Nat) /\ ring \in Seq(Nat) /\ heard \in Seq(Nat)
    /\ held \in Nat
    /\ task \in {"none", "recv", "check", "send", "eos"}
    /\ listener \in {"open", "ring", "group", "task", "fill", "read", "receive", "take", "put",
                     "await", "delete", "closed", "failed"}

\* The objects are created before the task and deleted after it has set EOS_BIT.
ObjectsFollow ==
    /\ listener \in {"ring", "group", "task"} => "socket" \in objects
    /\ listener \in {"group", "task"} => "ring" \in objects
    /\ listener = "task" => "group" \in objects
    /\ listener \in {"fill", "read", "receive", "take", "put", "await", "delete"} =>
          {"socket", "ring", "group"} \subseteq objects
    /\ listener \in {"open", "ring", "group", "task", "delete", "closed", "failed"} => task = "none"
    /\ "EOS" \in events => task = "none"
    /\ listener \in {"open", "ring", "group", "task"} => events = {}

\* A sequence counts on from n.
CountsFrom(s, n) == \A i \in 1..Len(s) : s[i] = n + i

\* Before stream_stop, what was heard, what is in the ring buffer and what the task has in
\* its hand are the units received, in that order.
UnitsFlow ==
    /\ CountsFrom(heard, 0)
    /\ listener \notin {"take", "put", "await", "delete", "closed"} =>
          /\ CountsFrom(ring, Len(heard))
          /\ task \in {"check", "send"} =>
                /\ CountsFrom(hand, Len(heard) + Len(ring))
                /\ received = Len(heard) + Len(ring) + Len(hand)
          /\ task = "recv" => received = Len(heard) + Len(ring)
          /\ listener \in {"open", "ring", "group", "task"} => received = 0 /\ ring = <<>> /\ heard = <<>>

StreamInv == StreamTypes /\ ObjectsFollow /\ UnitsFlow

-------------------------------------------------------------------------------
(* Invariant of the read-ahead.                                            *)

\* The reader or a token stands for the block that is ahead, except while the client
\* works on it and after a failed start.
HandOver ==
    /\ client \in {"lock", "copy", "unlock", "start"} => reader = "none" /\ sema = 0
    /\ sema = 1 => reader = "none"

Copied == client \in {"unlock", "start", "play"}
Given == Len(delivered) + (IF Copied /\ got # 0 THEN 1 ELSE 0)
Full == reader \in {"unlock", "give"} \/ sema = 1 \/ client \in {"lock", "copy"}

\* The end of the data: the file's, or an error.
AtEnd(n) == damaged \/ n = Blocks

BlocksFlow ==
    /\ CountsFrom(delivered, 0)
    /\ Copied /\ got # 0 => got = Len(delivered) + 1
    /\ Copied /\ got = 0 => AtEnd(Len(delivered))
    /\ client # "closed" /\ ~(Copied /\ got = 0) =>
          IF Full THEN \/ buffer = Given + 1 /\ pos = Given + 1
                       \/ buffer = 0 /\ pos = Given /\ AtEnd(Given)
                  ELSE pos = Given

ReadAheadInv == TypeOK /\ HandOver /\ BlocksFlow

PathInv == ReadAheadInv /\ StreamInv /\ DecoderInv

-------------------------------------------------------------------------------
(* The decoder driver.                                                     *)

\* DecoderInv holds initially, whatever the level of the DREQ line.
LEMMA DecoderStarts == DecoderInit => DecoderInv
<1> SUFFICES ASSUME DecoderInit PROVE DecoderInv
  OBVIOUS
<1>a. Idle \in [kind : Kinds, pc : Steps]
  BY DEF Idle, Steps, Kinds
<1>b. token \in 0..1
  BY DEF DecoderInit
<1>c. op \in [Callers -> [kind : Kinds, pc : Steps]]
  BY <1>a DEF DecoderInit
<1>1. DecoderTypes
  BY <1>b, <1>c DEF DecoderInit, DecoderTypes, Lines
<1>2. \A t \in Callers : op[t].pc = "idle"
  BY DEF DecoderInit, Idle
<1>3. BusOwned /\ TokenFresh /\ SentWhenReady
  BY <1>2 DEF DecoderInit, BusOwned, TokenFresh, SentWhenReady
<1>4. PlayerAtLine /\ WavTracked
  BY <1>2 DEF DecoderInit, PlayerAtLine, WavTracked, Callers
<1> QED BY <1>1, <1>3, <1>4 DEF DecoderInv

\* No step of a bus operation of either task disturbs DecoderInv.
LEMMA BusStepKeeps ==
  ASSUME DecoderInv, NEW t \in Callers, BusStep(t)
  PROVE  DecoderInv'
<1> USE DEF DecoderInv, Goes
<1>1. CASE TakeBefore(t)
  <2>1. DecoderTypes'  BY <1>1 DEF TakeBefore, playVars, DecoderTypes, Steps, Kinds, Lines, Callers
  <2>2. BusOwned'  BY <1>1 DEF TakeBefore, playVars, DecoderTypes, BusOwned
  <2>3. TokenFresh'  BY <1>1 DEF TakeBefore, playVars, DecoderTypes, BusOwned, TokenFresh, Callers
  <2>4. SentWhenReady'  BY <1>1 DEF TakeBefore, playVars, DecoderTypes, BusOwned, TokenFresh, SentWhenReady, Callers
  <2>5. (PlayerAtLine /\ WavTracked)'  BY <1>1 DEF TakeBefore, playVars, DecoderTypes, PlayerAtLine, WavTracked, Callers
  <2> QED BY <2>1, <2>2, <2>3, <2>4, <2>5
<1>2. CASE Transmit(t)
  <2>1. DecoderTypes'  BY <1>2 DEF Transmit, Effect, DecoderTypes, Steps, Kinds, Lines, Callers
  <2>2. BusOwned'  BY <1>2 DEF Transmit, Effect, DecoderTypes, BusOwned
  <2>3. TokenFresh'  BY <1>2 DEF Transmit, Effect, DecoderTypes, BusOwned, TokenFresh, Callers
  <2>4. SentWhenReady'  BY <1>2 DEF Transmit, Effect, DecoderTypes, BusOwned, TokenFresh, SentWhenReady, Callers
  <2>5. (PlayerAtLine /\ WavTracked)'  BY <1>2 DEF Transmit, Effect, DecoderTypes, PlayerAtLine, WavTracked, Callers
  <2> QED BY <2>1, <2>2, <2>3, <2>4, <2>5
<1>3. CASE WaitAfter(t)
  <2>1. DecoderTypes'  BY <1>3 DEF WaitAfter, playVars, DecoderTypes, Steps, Kinds, Lines, Callers
  <2>2. BusOwned'  BY <1>3 DEF WaitAfter, playVars, DecoderTypes, BusOwned
  <2>3. TokenFresh'  BY <1>3 DEF WaitAfter, playVars, DecoderTypes, BusOwned, TokenFresh, Callers
  <2>4. SentWhenReady'  BY <1>3 DEF WaitAfter, playVars, DecoderTypes, BusOwned, TokenFresh, SentWhenReady, Callers
  <2>5. (PlayerAtLine /\ WavTracked)'  BY <1>3 DEF WaitAfter, playVars, DecoderTypes, PlayerAtLine, WavTracked, Callers
  <2> QED BY <2>1, <2>2, <2>3, <2>4, <2>5
<1>4. CASE TakeAfter(t)
  <2>1. DecoderTypes'  BY <1>4 DEF TakeAfter, playVars, DecoderTypes, Steps, Kinds, Lines, Callers
  <2>2. BusOwned'  BY <1>4 DEF TakeAfter, playVars, DecoderTypes, BusOwned
  <2>3. TokenFresh'  BY <1>4 DEF TakeAfter, playVars, DecoderTypes, BusOwned, TokenFresh, Callers
  <2>4. SentWhenReady'  BY <1>4 DEF TakeAfter, playVars, DecoderTypes, BusOwned, TokenFresh, SentWhenReady, Callers
  <2>5. (PlayerAtLine /\ WavTracked)'  BY <1>4 DEF TakeAfter, playVars, DecoderTypes, PlayerAtLine, WavTracked, Callers
  <2> QED BY <2>1, <2>2, <2>3, <2>4, <2>5
<1> QED BY <1>1, <1>2, <1>3, <1>4 DEF BusStep

\* Nor does what the chip does.
LEMMA ChipStepKeeps == DecoderInv /\ ChipStep => DecoderInv'
<1> SUFFICES ASSUME DecoderInv, ChipStep PROVE DecoderInv'
  OBVIOUS
<1> USE DEF DecoderInv
<1>1. CASE ChipReady
  BY <1>1 DEF ChipReady, playVars, DecoderTypes, BusOwned, TokenFresh, SentWhenReady,
     PlayerAtLine, WavTracked
<1>2. CASE ChipLeavesWav
  BY <1>2 DEF ChipLeavesWav, busVars, DecoderTypes, BusOwned, TokenFresh, SentWhenReady,
     PlayerAtLine, WavTracked
<1> QED BY <1>1, <1>2 DEF ChipStep

\* A bus operation begins with the mutex free and the line looked at.
LEMMA EnterKeeps ==
  ASSUME DecoderInv, NEW t \in Callers, NEW kind \in Kinds, Enter(t, kind),
         UNCHANGED playVars, settings' \in Nat,
         t = "player" => line \notin {"pull", "done"} /\ (line = "final" => kind = "read")
  PROVE  DecoderInv'
<1> USE DEF DecoderInv, Enter, playVars
<1>1. DecoderTypes'  BY DEF DecoderTypes, Steps, Kinds, Lines, Callers
<1>2. BusOwned'  BY DEF DecoderTypes, BusOwned, Callers
<1>3. TokenFresh' /\ SentWhenReady'
  BY DEF DecoderTypes, BusOwned, TokenFresh, SentWhenReady, Callers
<1>4. PlayerAtLine'  BY DEF DecoderTypes, PlayerAtLine, Callers
<1>5. WavTracked'  BY DEF DecoderTypes, PlayerAtLine, WavTracked, Callers
<1> QED BY <1>1, <1>2, <1>3, <1>4, <1>5

\* The settings of the web server do not get in the player's way.
LEMMA WebKeeps == DecoderInv /\ (Setting \/ WebStep) => DecoderInv'
<1> SUFFICES ASSUME DecoderInv, Setting \/ WebStep PROVE DecoderInv'
  OBVIOUS
<1>1. CASE Setting
  <2>1. settings' \in Nat  BY <1>1 DEF Setting, DecoderInv, DecoderTypes
  <2>2. PICK kind \in {"read", "write"} : Enter("web", kind)  BY <1>1 DEF Setting
  <2> QED BY <1>1, <2>1, <2>2, EnterKeeps DEF Setting, Callers, Kinds
<1>2. CASE BusStep("web")
  BY <1>2, BusStepKeeps DEF Callers
<1>3. CASE SettingWrites
  <2>1. settings' \in Nat  BY <1>3 DEF SettingWrites, DecoderInv, DecoderTypes
  <2> QED BY <1>3, <2>1, EnterKeeps DEF SettingWrites, Callers, Kinds
<1>4. CASE SettingReturns
  <2> USE <1>4 DEF DecoderInv, SettingReturns, playVars
  <2>1. DecoderTypes'  BY DEF DecoderTypes, Steps, Kinds, Lines, Callers, Idle
  <2>2. BusOwned'  BY DEF DecoderTypes, BusOwned, Callers, Idle
  <2>3. TokenFresh' /\ SentWhenReady'
    BY DEF DecoderTypes, BusOwned, TokenFresh, SentWhenReady, Callers, Idle
  <2>4. PlayerAtLine' /\ WavTracked'
    BY DEF DecoderTypes, PlayerAtLine, WavTracked, Callers
  <2> QED BY <2>1, <2>2, <2>3, <2>4
<1> QED BY <1>1, <1>2, <1>3, <1>4 DEF WebStep

\* codec_init consists of ten bus operations.
LEMMA CodecInitShape ==
  Len(CodecInit) = 10 /\ \A k \in 1..10 : CodecInit[k] \in {"read", "write"}
<1>1. Len(CodecInit) = 10
  BY DEF CodecInit
<1>2. \A k \in 1..10 : CodecInit[k] \in {"read", "write"}
  <2> SUFFICES ASSUME NEW k \in 1..10 PROVE CodecInit[k] \in {"read", "write"}
    OBVIOUS
  <2>1. k \in {1, 2, 3, 4, 5, 6, 7, 8, 9, 10}
    OBVIOUS
  <2> QED BY <2>1 DEF CodecInit
<1> QED BY <1>1, <1>2

\* What may follow a statement: while the chip is in its WAV mode, only the statements
\* that lead to the last look at it and, from there, to the reset.
LEMMA FollowingShape ==
  ASSUME DecoderTypes, PlayerAtLine, line \notin {"pull", "done"}, NEW n \in Following
  PROVE  /\ n[1] \in Lines /\ n[2] \in Nat /\ (n[1] = "codec" => n[2] < 10)
         /\ line \in {"outofwav", "drain", "drained", "flush"} =>
                n[1] \in {"drain", "drained", "flush", "final"}
         /\ line = "final" /\ saw => n = <<"codec", 0>>
         /\ line = "codec" /\ count = 0 => n = <<"codec", 1>>
<1> USE DEF To, Loop, Lines, DecoderTypes, Following
<1>1. CASE line \in {"time1", "time2", "info", "prime", "position", "format", "mode"}
  BY <1>1
<1>2. CASE line \in {"send", "flush"}
  BY <1>2
<1>3. CASE line \in {"outofwav", "drain", "drained"}
  BY <1>3
<1>4. CASE line = "final"
  BY <1>4 DEF AfterFinal
<1>5. CASE line = "codec"
  BY <1>5, CodecInitShape DEF PlayerAtLine
<1> QED BY <1>1, <1>2, <1>3, <1>4, <1>5

\* Nor does any statement of vs1011_play.
LEMMA LineKeeps == DecoderInv /\ LineStep => DecoderInv'
<1> SUFFICES ASSUME DecoderInv, LineStep PROVE DecoderInv'
  OBVIOUS
<1>1. CASE LineCalls
  <2>1. LineKind \in Kinds /\ (line = "final" => LineKind = "read")
    <3>1. CASE line = "codec"
      BY <3>1, CodecInitShape DEF LineKind, DecoderInv, DecoderTypes, PlayerAtLine, Kinds
    <3>2. CASE line # "codec"
      BY <1>1, <3>2 DEF LineCalls, LineKind, DecoderInv, DecoderTypes, Lines, Kinds
    <3> QED BY <3>1, <3>2
  <2>2. settings' \in Nat  BY <1>1 DEF LineCalls, DecoderInv, DecoderTypes
  <2> QED BY <1>1, <2>1, <2>2, EnterKeeps DEF LineCalls, Callers
<1>2. CASE BusStep("player")
  BY <1>2, BusStepKeeps DEF Callers
<1>3. CASE LineReturns
  <2> USE <1>3 DEF DecoderInv, LineReturns
  <2>1. PICK n \in Following : line' = n[1] /\ count' = n[2]
    OBVIOUS
  <2>2. line \notin {"pull", "done"}
    BY DEF PlayerAtLine
  <2> USE <2>1, <2>2, FollowingShape
  <2>3. Idle \in [kind : Kinds, pc : Steps]
    BY DEF Idle, Steps, Kinds
  <2>4. DecoderTypes'
    BY <2>3 DEF DecoderTypes, Callers
  <2>5. op' = [op EXCEPT !["player"] = Idle] /\ op["player"].pc = "unlock" /\ Idle.pc = "idle" /\ Idle.kind = "none"
    BY DEF Idle
  <2>6. BusOwned'  BY <2>5 DEF DecoderTypes, BusOwned, Callers
  <2>7. TokenFresh' /\ SentWhenReady'
    BY <2>5 DEF DecoderTypes, BusOwned, TokenFresh, SentWhenReady, Callers
  <2>8. PlayerAtLine'
    BY <2>5 DEF DecoderTypes, PlayerAtLine, Callers
  <2>9. WavTracked'
    BY <2>5 DEF DecoderTypes, WavTracked, Callers
  <2> QED BY <2>4, <2>6, <2>7, <2>8, <2>9
<1> QED BY <1>1, <1>2, <1>3 DEF LineStep

\* DecoderInv is inductive.
LEMMA DecoderKeeps == DecoderInv /\ [DecoderNext]_decoderVars => DecoderInv'
<1> SUFFICES ASSUME DecoderInv, [DecoderNext]_decoderVars PROVE DecoderInv'
  OBVIOUS
<1>1. ASSUME NEW data \in BOOLEAN, Pulled(data) PROVE DecoderInv'
  BY <1>1 DEF Pulled, busVars, DecoderInv, DecoderTypes, BusOwned, TokenFresh, SentWhenReady,
     PlayerAtLine, WavTracked, Lines
<1>2. CASE UNCHANGED decoderVars
  BY <1>2 DEF decoderVars, busVars, playVars, DecoderInv, DecoderTypes, BusOwned, TokenFresh,
     SentWhenReady, PlayerAtLine, WavTracked
<1> QED BY <1>1, <1>2, LineKeeps, ChipStepKeeps, WebKeeps DEF DecoderNext

-------------------------------------------------------------------------------
(* The read-ahead.                                                         *)

\* ReadAheadInv holds when read_ahead_init has returned.
LEMMA ReadAheadStarts == Init => ReadAheadInv
<1> SUFFICES ASSUME Init PROVE ReadAheadInv
  OBVIOUS
<1> USE BlocksAssumption DEF Init, Started
<1>0. delivered \in Seq(1..Blocks)  BY EmptySeq
<1>a. 0 \in 0..Blocks /\ sema \in 0..1  OBVIOUS
<1>b. reader \in {"none", "lock", "read", "unlock", "give", "failed", "null"}  OBVIOUS
<1>1. TypeOK  BY <1>0, <1>a, <1>b DEF TypeOK
<1>2. HandOver  BY DEF HandOver
<1>3. CountsFrom(delivered, 0) /\ Len(delivered) = 0  BY DEF CountsFrom
<1>4. BlocksFlow  BY <1>3 DEF BlocksFlow, Copied, Given, Full
<1> QED BY <1>1, <1>2, <1>4 DEF ReadAheadInv

\* ReadAheadInv is inductive.
LEMMA ReadAheadKeeps == ReadAheadInv /\ [Next]_vars => ReadAheadInv'
<1> SUFFICES ASSUME ReadAheadInv, [Next]_vars PROVE ReadAheadInv'
  OBVIOUS
<1> USE BlocksAssumption DEF ReadAheadInv, TypeOK
<1>1. CASE ReaderLocks
  BY <1>1 DEF ReaderLocks, HandOver, BlocksFlow, CountsFrom, Copied, Given, Full, AtEnd
<1>2. CASE ReadBlock
  BY <1>2 DEF ReadBlock, HandOver, BlocksFlow, CountsFrom, Copied, Given, Full, AtEnd
<1>3. CASE ReadFails
  BY <1>3 DEF ReadFails, HandOver, BlocksFlow, CountsFrom, Copied, Given, Full, AtEnd
<1>4. CASE ReaderUnlocks
  BY <1>4 DEF ReaderUnlocks, HandOver, BlocksFlow, CountsFrom, Copied, Given, Full, AtEnd
<1>5. CASE ReaderGives
  BY <1>5 DEF ReaderGives, HandOver, BlocksFlow, CountsFrom, Copied, Given, Full, AtEnd
<1>6. CASE ClientCalls
  BY <1>6 DEF ClientCalls, HandOver, BlocksFlow, CountsFrom, Copied, Given, Full, AtEnd
<1>7. CASE ClientTakes
  BY <1>7 DEF ClientTakes, HandOver, BlocksFlow, CountsFrom, Copied, Given, Full, AtEnd
<1>8. CASE ClientLocks
  BY <1>8 DEF ClientLocks, HandOver, BlocksFlow, CountsFrom, Copied, Given, Full, AtEnd
<1>9. CASE ClientCopies
  BY <1>9 DEF ClientCopies, HandOver, BlocksFlow, CountsFrom, Copied, Given, Full, AtEnd
<1>10. CASE ClientUnlocks
  BY <1>10 DEF ClientUnlocks, HandOver, BlocksFlow, CountsFrom, Copied, Given, Full, AtEnd
<1>11. CASE ClientStarts
  BY <1>11 DEF ClientStarts, Started, HandOver, BlocksFlow, CountsFrom, Copied, Given, Full, AtEnd
<1>12. CASE ClientPlays
  <2>1. CASE got = 0
    BY <1>12, <2>1 DEF ClientPlays, HandOver, BlocksFlow, CountsFrom, Copied, Given, Full, AtEnd
  <2>2. CASE got # 0
    <3>1. got = Len(delivered) + 1 /\ delivered' = Append(delivered, got) /\ client' = "call"
      BY <1>12, <2>2 DEF ClientPlays, BlocksFlow, Copied
    <3>2. delivered' \in Seq(1..Blocks) /\ Len(delivered') = Len(delivered) + 1
      BY <2>2, <3>1
    <3>3. CountsFrom(delivered', 0)
      BY <3>1 DEF BlocksFlow, CountsFrom
    <3> QED BY <1>12, <2>2, <3>1, <3>2, <3>3 DEF ClientPlays, HandOver, BlocksFlow, Copied, Given,
           Full, AtEnd
  <2> QED BY <2>1, <2>2
<1>13. CASE ClientStops
  BY <1>13 DEF ClientStops, HandOver, BlocksFlow, CountsFrom, Copied, Given, Full, AtEnd
<1>14. CASE UNCHANGED vars
  BY <1>14 DEF vars, HandOver, BlocksFlow, CountsFrom, Copied, Given, Full, AtEnd
<1> QED BY <1>1, <1>2, <1>3, <1>4, <1>5, <1>6, <1>7, <1>8, <1>9, <1>10, <1>11, <1>12, <1>13,
       <1>14 DEF Next, ReaderStep, ClientStep

-------------------------------------------------------------------------------
(* The stream input.                                                       *)

\* StreamInv holds before stream_start.
LEMMA StreamBegins == StreamInit => StreamInv
<1> SUFFICES ASSUME StreamInit PROVE StreamInv
  OBVIOUS
<1> USE DEF StreamInit
<1>1. StreamTypes  BY EmptySeq DEF StreamTypes
<1>2. ObjectsFollow  BY DEF ObjectsFollow
<1>3. UnitsFlow  BY DEF UnitsFlow, CountsFrom
<1> QED BY <1>1, <1>2, <1>3 DEF StreamInv

\* stream_start keeps StreamInv, where it fails as well.
LEMMA StreamStartKeeps == StreamInv /\ (StartStep \/ StartFails) => StreamInv'
<1> SUFFICES ASSUME StreamInv, StartStep \/ StartFails PROVE StreamInv'
  OBVIOUS
<1> USE DEF StreamInv, Turns
<1>1. CASE OpenSocket
  BY <1>1 DEF OpenSocket, StreamTypes, ObjectsFollow, UnitsFlow, CountsFrom
<1>2. CASE CreateRing
  BY <1>2 DEF CreateRing, StreamTypes, ObjectsFollow, UnitsFlow, CountsFrom
<1>3. CASE CreateGroup
  BY <1>3 DEF CreateGroup, StreamTypes, ObjectsFollow, UnitsFlow, CountsFrom
<1>4. CASE CreateTask
  <2>1. StreamTypes' /\ ObjectsFollow'
    BY <1>4 DEF CreateTask, StreamTypes, ObjectsFollow
  <2>2. received = 0 /\ Len(ring) = 0 /\ Len(heard) = 0
    BY <1>4 DEF CreateTask, UnitsFlow
  <2>3. UnitsFlow'
    BY <1>4, <2>2 DEF CreateTask, UnitsFlow, CountsFrom
  <2> QED BY <2>1, <2>3
<1>5. CASE Filled
  BY <1>5 DEF Filled, StreamTypes, ObjectsFollow, UnitsFlow, CountsFrom
<1>6. CASE StartFails
  BY <1>6 DEF StartFails, StreamTypes, ObjectsFollow, UnitsFlow, CountsFrom
<1> QED BY <1>1, <1>2, <1>3, <1>4, <1>5, <1>6 DEF StartStep

\* The receiving task keeps StreamInv.
LEMMA ReceiverKeeps == StreamInv /\ ReceiverStep => StreamInv'
<1> SUFFICES ASSUME StreamInv, ReceiverStep PROVE StreamInv'
  OBVIOUS
<1> USE DEF StreamInv
<1>1. CASE Receive
  <2>1. PICK n \in 0..ChunkSize :
           /\ received + n <= Units /\ received' = received + n
           /\ hand' = [i \in 1..n |-> received + i]
    BY <1>1 DEF Receive
  <2>2. n \in Nat /\ hand' \in Seq(Nat) /\ Len(hand') = n /\ CountsFrom(hand', received)
    BY <2>1, StreamAssumption DEF StreamTypes, CountsFrom
  <2>3. StreamTypes' /\ ObjectsFollow'
    BY <1>1, <2>1, <2>2 DEF Receive, StreamTypes, ObjectsFollow
  <2>4. UnitsFlow'
    BY <1>1, <2>1, <2>2 DEF Receive, StreamTypes, ObjectsFollow, UnitsFlow, CountsFrom
  <2> QED BY <2>3, <2>4
<1>2. CASE CheckReceived
  BY <1>2 DEF CheckReceived, StreamTypes, ObjectsFollow, UnitsFlow, CountsFrom
<1>3. CASE SendToRing
  <2>1. ring' \in Seq(Nat) /\ Len(ring') = Len(ring) + Len(hand)
    BY <1>3 DEF SendToRing, StreamTypes
  <2>2. StreamTypes' /\ ObjectsFollow'
    BY <1>3, <2>1 DEF SendToRing, StreamTypes, ObjectsFollow
  <2>3. ASSUME listener \notin {"take", "put", "await", "delete", "closed"}
        PROVE  CountsFrom(ring', Len(heard))
    <3>1. CountsFrom(ring, Len(heard)) /\ CountsFrom(hand, Len(heard) + Len(ring))
      BY <1>3, <2>3 DEF SendToRing, UnitsFlow
    <3>2. \A i \in 1..Len(ring') :
             ring'[i] = IF i <= Len(ring) THEN ring[i] ELSE hand[i - Len(ring)]
      BY <1>3, <2>1, ConcatProperties DEF SendToRing, StreamTypes
    <3>3. ASSUME NEW i \in 1..Len(ring') PROVE ring'[i] = Len(heard) + i
      <4>1. CASE i <= Len(ring)
        BY <4>1, <3>1, <3>2 DEF StreamTypes, CountsFrom
      <4>2. CASE i > Len(ring)
        <5>1. i - Len(ring) \in 1..Len(hand)
          BY <2>1, <4>2 DEF StreamTypes
        <5>2. hand[i - Len(ring)] = Len(heard) + Len(ring) + (i - Len(ring))
          BY <3>1, <5>1 DEF CountsFrom
        <5> QED BY <4>2, <3>2, <5>2 DEF StreamTypes
      <4> QED BY <4>1, <4>2 DEF StreamTypes
    <3> QED BY <3>3 DEF CountsFrom
  <2>4. UnitsFlow'
    BY <1>3, <2>1, <2>3 DEF SendToRing, StreamTypes, ObjectsFollow, UnitsFlow
  <2> QED BY <2>2, <2>4
<1>4. CASE SendTimesOut
  BY <1>4 DEF SendTimesOut, StreamTypes, ObjectsFollow, UnitsFlow, CountsFrom
<1>5. CASE EndOfStream
  BY <1>5 DEF EndOfStream, StreamTypes, ObjectsFollow, UnitsFlow, CountsFrom
<1> QED BY <1>1, <1>2, <1>3, <1>4, <1>5 DEF ReceiverStep

\* stream_read keeps StreamInv: what it hands out is the front of the ring buffer.
LEMMA ReadKeeps == StreamInv /\ (ReadBits \/ ReadData \/ ReadUnderflow) => StreamInv'
<1> SUFFICES ASSUME StreamInv, ReadBits \/ ReadData \/ ReadUnderflow PROVE StreamInv'
  OBVIOUS
<1> USE DEF StreamInv, Turns
<1>1. CASE ReadBits
  BY <1>1 DEF ReadBits, StreamTypes, ObjectsFollow, UnitsFlow, CountsFrom
<1>2. CASE ReadUnderflow
  BY <1>2 DEF ReadUnderflow, StreamTypes, ObjectsFollow, UnitsFlow, CountsFrom
<1>3. CASE ReadData
  <2>1. PICK n \in 1..Len(ring) :
           heard' = heard \o SubSeq(ring, 1, n) /\ ring' = SubSeq(ring, n + 1, Len(ring))
    BY <1>3 DEF ReadData
  <2>2. /\ heard' \in Seq(Nat) /\ Len(heard') = Len(heard) + n
        /\ ring' \in Seq(Nat) /\ Len(ring') = Len(ring) - n
    <3>1. SubSeq(ring, 1, n) \in Seq(Nat) /\ Len(SubSeq(ring, 1, n)) = n
      BY SubSeqProperties DEF StreamTypes
    <3>2. ring' \in Seq(Nat) /\ Len(ring') = Len(ring) - n
      BY <2>1, SubSeqProperties DEF StreamTypes
    <3> QED BY <2>1, <3>1, <3>2, ConcatProperties DEF StreamTypes
  <2>3. StreamTypes' /\ ObjectsFollow'
    BY <1>3, <2>2 DEF ReadData, StreamTypes, ObjectsFollow
  <2>4. CountsFrom(ring, Len(heard)) /\ CountsFrom(heard, 0)
    BY <1>3 DEF ReadData, UnitsFlow
  <2>5. CountsFrom(heard', 0)
    <3> DEFINE part == SubSeq(ring, 1, n)
    <3>1. part \in Seq(Nat) /\ Len(part) = n /\ \A i \in 1..n : part[i] = ring[i]
      BY SubSeqProperties DEF StreamTypes
    <3>2. heard \in Seq(Nat) /\ Len(heard) \in Nat /\ n \in Nat /\ n <= Len(ring)
      BY DEF StreamTypes
    <3>3. heard' = heard \o part
      BY <2>1
    <3> HIDE DEF part
    <3>4. \A i \in 1..(Len(heard) + n) :
             heard'[i] = IF i <= Len(heard) THEN heard[i] ELSE part[i - Len(heard)]
      BY <3>1, <3>2, <3>3, ConcatProperties
    <3>5. ASSUME NEW i \in 1..(Len(heard) + n)
          PROVE  heard'[i] = i
      <4>1. CASE i <= Len(heard)
        BY <3>2, <3>4, <4>1, <2>4 DEF CountsFrom
      <4>2. CASE i > Len(heard)
        <5>1. i - Len(heard) \in 1..n /\ i - Len(heard) \in 1..Len(ring)
          BY <3>2, <4>2
        <5>2. heard'[i] = ring[i - Len(heard)]
          BY <3>1, <3>2, <3>4, <4>2, <5>1
        <5>3. ring[i - Len(heard)] = Len(heard) + (i - Len(heard))
          BY <5>1, <2>4, Zenon DEF CountsFrom
        <5> QED BY <5>2, <5>3, <3>2
      <4> QED BY <4>1, <4>2, <3>2
    <3> QED BY <3>5, <2>2, <3>2 DEF CountsFrom
  <2>6. CountsFrom(ring', Len(heard'))
    <3>1. \A i \in 1..(Len(ring) - n) : ring'[i] = ring[n + i]
      <4>1. \A i \in (n + 1)..Len(ring) : ring[i] \in Nat
        BY DEF StreamTypes
      <4>2. n + 1 \in Int /\ Len(ring) \in Int
        BY DEF StreamTypes
      <4>3. \A i \in 1..(Len(ring) - (n + 1) + 1) :
               SubSeq(ring, n + 1, Len(ring))[i] = ring[(n + 1) + i - 1]
        BY <4>1, <4>2, SubSeqProperties
      <4> QED BY <2>1, <4>2, <4>3
    <3> QED BY <2>2, <2>4, <3>1 DEF StreamTypes, CountsFrom
  <2>7. UnitsFlow'
    <3>1. Len(heard') + Len(ring') = Len(heard) + Len(ring)
      BY <2>2 DEF StreamTypes
    <3> QED BY <1>3, <2>5, <2>6, <3>1 DEF ReadData, UnitsFlow, CountsFrom
  <2> QED BY <2>3, <2>7
<1> QED BY <1>1, <1>2, <1>3

\* stream_stop keeps StreamInv: it deletes only after EOS_BIT.
LEMMA StreamStopKeeps == StreamInv /\ (SetStop \/ StopStep) => StreamInv'
<1> SUFFICES ASSUME StreamInv, SetStop \/ StopStep PROVE StreamInv'
  OBVIOUS
<1> USE DEF StreamInv, Turns
<1>1. CASE SetStop
  BY <1>1 DEF SetStop, StreamTypes, ObjectsFollow, UnitsFlow, CountsFrom
<1>2. CASE TakeOne
  <2>1. ring' \in Seq(Nat) /\ held' \in Nat
    <3>1. CASE ring = <<>>
      BY <1>2, <3>1 DEF TakeOne, StreamTypes
    <3>2. CASE ring # <<>>
      <4>1. ring' = Tail(ring) /\ held' = 1
        BY <1>2, <3>2 DEF TakeOne
      <4>2. Tail(ring) \in Seq(Nat)
        BY <3>2, HeadTailProperties DEF StreamTypes
      <4> QED BY <4>1, <4>2
    <3> QED BY <3>1, <3>2
  <2> QED BY <1>2, <2>1 DEF TakeOne, StreamTypes, ObjectsFollow, UnitsFlow, CountsFrom
<1>3. CASE PutDummy
  BY <1>3 DEF PutDummy, Dummy, StreamTypes, ObjectsFollow, UnitsFlow, CountsFrom
<1>4. CASE AwaitEos
  BY <1>4 DEF AwaitEos, StreamTypes, ObjectsFollow, UnitsFlow, CountsFrom
<1>5. CASE DeleteAll
  BY <1>5 DEF DeleteAll, StreamTypes, ObjectsFollow, UnitsFlow, CountsFrom
<1> QED BY <1>1, <1>2, <1>3, <1>4, <1>5 DEF StopStep

\* StreamInv is inductive.
LEMMA StreamKeeps == StreamInv /\ [StreamNext]_streamVars => StreamInv'
<1>1. StreamInv /\ UNCHANGED streamVars => StreamInv'
  BY DEF streamVars, StreamInv, StreamTypes, ObjectsFollow, UnitsFlow, CountsFrom
<1> QED BY <1>1, StreamStartKeeps, ReceiverKeeps, ReadKeeps, StreamStopKeeps DEF StreamNext

-------------------------------------------------------------------------------
(* The path.                                                               *)

\* A step of the path is, for each component, one of its steps or a stutter.
LEMMA PathStep ==
  ASSUME [PathNext]_pathVars
  PROVE  [Next]_vars /\ [StreamNext]_streamVars /\ [DecoderNext]_decoderVars
<1> USE DEF Next, ClientStep, StreamNext, DecoderNext
<1>1. CASE ReaderRuns
  BY <1>1 DEF ReaderRuns
<1>2. CASE ReceiverRuns
  BY <1>2 DEF ReceiverRuns
<1>3. CASE FileRead \/ FileReturns \/ FileStopped
  BY <1>3 DEF FileRead, FileReturns, FileStopped
<1>4. CASE StreamStarts \/ StreamFails \/ StreamStops
  BY <1>4 DEF StreamStarts, StreamFails, StreamStops
<1>5. CASE StreamRead \/ StreamReturns \/ StreamStopped
  BY <1>5 DEF StreamRead, StreamReturns, StreamStopped, ReadAtEos
<1>6. CASE DecoderRuns \/ ChipRuns \/ WebSets \/ WebRuns
  BY <1>6 DEF DecoderRuns, ChipRuns, WebSets, WebRuns
<1>7. CASE UNCHANGED pathVars
  BY <1>7 DEF pathVars
<1> QED BY <1>1, <1>2, <1>3, <1>4, <1>5, <1>6, <1>7 DEF PathNext, PlayerRuns

\* PathInv is an inductive invariant of the whole path.
THEOREM PathInductive == PathSpec => []PathInv
<1>1. PathInit => PathInv
  BY ReadAheadStarts, StreamBegins, DecoderStarts DEF PathInit, PathInv
<1>2. PathInv /\ [PathNext]_pathVars => PathInv'
  BY PathStep, ReadAheadKeeps, StreamKeeps, DecoderKeeps DEF PathInv
<1> QED BY <1>1, <1>2, PTL DEF PathSpec

\* Nothing reaches the chip while it holds DREQ low, with any number of settings from the
\* web server and whatever tokens the interrupt left behind.
THEOREM ChipAskedFor == PathSpec => []SentWhenReady
<1>1. PathInv => SentWhenReady
  BY DEF PathInv, DecoderInv
<1> QED BY <1>1, PathInductive, PTL

\* A play leaves the chip out of its WAV mode, for any bound of the drain and flush loops
\* and however late the chip leaves it by itself.
THEOREM WavLeft == PathSpec => []LeavesWav
<1>1. PathInv => LeavesWav
  BY DEF PathInv, DecoderInv, DecoderTypes, WavTracked, LeavesWav
<1> QED BY <1>1, PathInductive, PTL

\* A stream reaches the decoder in order, each unit once, for any size of chunk and ring
\* buffer and however recv cuts it.
THEOREM StreamOrdered == PathSpec => []StreamInOrder
<1>1. PathInv => StreamInOrder
  BY DEF PathInv, StreamInv, StreamTypes, UnitsFlow, CountsFrom, StreamInOrder
<1> QED BY <1>1, PathInductive, PTL

\* stream_stop deletes ring buffer, event group and socket only after the receiving task's
\* last use of them.
THEOREM StreamMemorySafe == PathSpec => []NothingAfterDelete
<1>1. PathInv => NothingAfterDelete
  BY DEF PathInv, StreamInv, StreamTypes, ObjectsFollow, NothingAfterDelete
<1> QED BY <1>1, PathInductive, PTL

\* The blocks of a file of any length reach the decoder in order, each once.
THEOREM FileOrdered == PathSpec => []DeliveredInOrder
<1>1. PathInv => DeliveredInOrder
  BY DEF PathInv, ReadAheadInv, TypeOK, BlocksFlow, CountsFrom, DeliveredInOrder
<1> QED BY <1>1, PathInductive, PTL

\* A play that ends without a stop request or a read error has delivered the whole file.
THEOREM FileWhole == PathSpec => []WholeFile
<1>1. PathInv => WholeFile
  BY DEF PathInv, ReadAheadInv, BlocksFlow, Copied, AtEnd, WholeFile
<1> QED BY <1>1, PathInductive, PTL

\* start() never creates a read task while the last one may still use the buffer.
THEOREM SingleReader == PathSpec => []OneReader
<1>1. PathInv => OneReader
  BY DEF PathInv, ReadAheadInv, HandOver, OneReader
<1> QED BY <1>1, PathInductive, PTL

===============================================================================
