------------------------------- MODULE Vs1011 ---------------------------------
(***************************************************************************)
(* firmware/main/audio/vs1011.c: the driver of the decoder chip.  Two      *)
(* tasks talk to the chip: the player, which runs vs1011_play, and the web *)
(* server, which sets volume and tone.  The chip asks for more through its *)
(* DREQ line, whose rising edge gives a binary semaphore.  What is played  *)
(* is left to the module that composes this one with a source of data.     *)
(***************************************************************************)
EXTENDS Naturals, Sequences

CONSTANTS
    Chunks,      \* chunks of VS_MAX_CHUNK_SIZE bytes in one buffer of vs1011_play
    MaxDrain,    \* chunks sent while waiting for SM_OUTOFWAV to clear (512 in the code)
    MaxFlush,    \* chunks sent at the end of a play (64 in the code)
    MaxSettings  \* bound: settings changed during one play

ASSUME DecoderAssumption ==
    /\ Chunks \in Nat \ {0} /\ MaxDrain \in Nat \ {0} /\ MaxFlush \in Nat \ {0}
    /\ MaxSettings \in Nat

VARIABLES
    dreq,      \* level of the DREQ line
    token,     \* dreq_sema
    bus,       \* holder of mutex, "none" if free
    op,        \* per task: the bus operation underway and its next step
    wav,       \* the chip: SM_OUTOFWAV in SCI_MODE
    saw,       \* the player: SM_OUTOFWAV when it last read a register
    line,      \* the player: the statement of vs1011_play
    count,     \* the player: its loop counter
    settings   \* the web server: settings changed

busVars == <<dreq, token, bus, op>>
playVars == <<wav, saw, line, count>>
decoderVars == <<busVars, playVars, settings>>

Callers == {"player", "web"}
Idle == [kind |-> "none", pc |-> "idle"]

\* codec_init, run again at the end of a play: a software reset in its second step.
CodecInit ==
    <<"read", "write", "write", "write", "read", "read", "write", "write", "read", "write">>

\* While the line is low no token of an earlier edge is left.
DecoderInit ==
    /\ dreq \in BOOLEAN /\ token \in (IF dreq THEN 0..1 ELSE {0})
    /\ bus = "none" /\ op = [t \in Callers |-> Idle]
    /\ wav = FALSE /\ saw = FALSE /\ line = "time1" /\ count = 0
    /\ settings = 0

-------------------------------------------------------------------------------
(* write_sci, read_sci and write_sdi, for any caller.                      *)

Goes(t, from, to) == op[t].pc = from /\ op' = [op EXCEPT ![t].pc = to]

\* The mutex is taken, and wait_for_dreq looks at the line: if it is high there is no
\* wait, and an old token stays.
Enter(t, kind) ==
    /\ op[t].pc = "idle" /\ bus = "none" /\ bus' = t
    /\ op' = [op EXCEPT ![t] = [kind |-> kind, pc |-> IF dreq THEN "transmit" ELSE "take"]]
    /\ UNCHANGED <<dreq, token>>

TakeBefore(t) ==
    /\ Goes(t, "take", "transmit") /\ token = 1
    /\ token' = 0
    /\ UNCHANGED <<dreq, bus, playVars, settings>>

\* The transfer.  The chip may lower DREQ while it is busy with what it got; after a
\* read_sci it does not, and read_sci does not wait.
Effect(t) ==
    /\ dreq' \in IF op[t].kind = "read" THEN {dreq} ELSE {dreq, FALSE}
    /\ saw' = IF t = "player" /\ op[t].kind = "read" THEN wav ELSE saw
    /\ wav' = CASE t = "player" /\ line = "outofwav" -> TRUE
                [] t = "player" /\ line = "codec" /\ count = 1 -> FALSE
                [] OTHER -> wav
    /\ UNCHANGED <<token, bus, line, count, settings>>

Transmit_WaitsOnce(t) == Goes(t, "transmit", "unlock") /\ Effect(t)

Transmit(t) ==
    /\ Goes(t, "transmit", IF op[t].kind = "read" THEN "unlock" ELSE "wait2")
    /\ Effect(t)

WaitAfter(t) ==
    /\ Goes(t, "wait2", IF dreq THEN "unlock" ELSE "take2")
    /\ UNCHANGED <<dreq, token, bus, playVars, settings>>

TakeAfter(t) ==
    /\ Goes(t, "take2", "unlock") /\ token = 1
    /\ token' = 0
    /\ UNCHANGED <<dreq, bus, playVars, settings>>

BusStep(t) ==
    TakeBefore(t) \/ Transmit(t) \/ WaitAfter(t) \/ TakeAfter(t)

-------------------------------------------------------------------------------
(* The chip.                                                               *)

\* DREQ rises and dreq_isr runs.
ChipReady ==
    /\ ~dreq /\ dreq' = TRUE /\ token' = 1
    /\ UNCHANGED <<bus, op, playVars, settings>>

ChipLeavesWav ==
    /\ wav /\ wav' = FALSE
    /\ UNCHANGED <<busVars, saw, line, count, settings>>

-------------------------------------------------------------------------------
(* vs1011_set_volume writes; the tone settings read their register first.  *)

Setting ==
    /\ op["web"] = Idle /\ settings < MaxSettings /\ settings' = settings + 1
    /\ \E kind \in {"read", "write"} : Enter("web", kind)
    /\ UNCHANGED playVars

SettingReturns ==
    /\ op["web"].pc = "unlock" /\ bus' = "none"
    /\ op' = [op EXCEPT !["web"] = IF @.kind = "read" THEN [@ EXCEPT !.pc = "idle"] ELSE Idle]
    /\ UNCHANGED <<dreq, token, playVars, settings>>

\* The register was read and its new value is written.
SettingWrites ==
    /\ op["web"].kind = "read" /\ Enter("web", "write")
    /\ UNCHANGED <<playVars, settings>>

WebStep == BusStep("web") \/ SettingReturns \/ SettingWrites

-------------------------------------------------------------------------------
(* vs1011_play.  Each statement is one call of the bus operations; at      *)
(* "pull" it is read_func's turn.                                          *)

LineKind ==
    CASE line \in {"time1", "time2", "outofwav"} -> "write"
      [] line \in {"info", "position", "format", "mode", "drained", "final"} -> "read"
      [] line \in {"prime", "send", "drain", "flush"} -> "sdi"
      [] line = "codec" -> CodecInit[count + 1]

LineCalls ==
    /\ line \notin {"pull", "done"} /\ Enter("player", LineKind)
    /\ UNCHANGED <<playVars, settings>>

To(next) == {<<next, 0>>}
Loop(times, next) == IF count + 1 < times THEN {<<line, count + 1>>} ELSE To(next)

\* "If SM_OUTOFWAV is on at this point, there is some weirdness going on."
AfterFinal_NoReset == To("done")

AfterFinal == To(IF saw THEN "codec" ELSE "done")

\* What may follow a statement.  Formats other than mp3 go through SM_OUTOFWAV; the
\* checks of codec_init may fail, which vs1011_play does not look at.
Following ==
    CASE line = "time1" -> To("time2")
      [] line = "time2" -> To("info")
      [] line = "info" -> To("prime")
      [] line = "prime" -> To("pull")
      [] line = "send" -> Loop(Chunks, "position")
      [] line = "position" -> To("pull")
      [] line = "format" -> To("mode") \cup To("flush")
      [] line = "mode" -> To("outofwav")
      [] line = "outofwav" -> To("drain")
      [] line = "drain" -> {<<"drained", count>>}
      [] line = "drained" -> IF saw /\ count + 1 < MaxDrain THEN {<<"drain", count + 1>>}
                                                           ELSE To("flush")
      [] line = "flush" -> Loop(MaxFlush, "final")
      [] line = "final" -> AfterFinal
      [] line = "codec" -> Loop(Len(CodecInit), "done")
                               \cup (IF count \in {4, 5, 8} THEN To("done") ELSE {})

LineReturns ==
    /\ op["player"].pc = "unlock" /\ bus' = "none"
    /\ op' = [op EXCEPT !["player"] = Idle]
    /\ \E n \in Following : line' = n[1] /\ count' = n[2]
    /\ UNCHANGED <<dreq, token, wav, saw, settings>>

\* read_func has returned: data to send, or the end.
Pulled(data) ==
    /\ line = "pull" /\ line' = IF data THEN "send" ELSE "format"
    /\ UNCHANGED <<busVars, wav, saw, count, settings>>

LineStep == LineCalls \/ BusStep("player") \/ LineReturns
ChipStep == ChipReady \/ ChipLeavesWav

-------------------------------------------------------------------------------

\* Nothing is sent to the chip while it holds DREQ low.  A token left by an edge that
\* nobody waited for lets the wait after a transfer return too early; it is the wait
\* before the next transfer that then stops the driver.
SentWhenReady == \A t \in Callers : op[t].pc = "transmit" => dreq

\* A play leaves the chip out of its WAV mode, whether it left it by itself in time or
\* had to be reset: the next play begins with a chip that takes a new format.
LeavesWav == line = "done" => ~wav

===============================================================================
