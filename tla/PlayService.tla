----------------------------- MODULE PlayService ------------------------------
(***************************************************************************)
(* What the player promises the schedulers: one name at a time is accepted,*)
(* shown while it is played, hidden, and answered exactly once.  Queues,   *)
(* event bits and stop requests are left out; a stop only makes Finish     *)
(* happen early.                                                           *)
(***************************************************************************)
CONSTANTS Names, Nothing

VARIABLES stage,  \* how far the request got
          name,   \* the name requested, Nothing between requests
          shown   \* the name player_get_now_playing reports

vars == <<stage, name, shown>>

Init == stage = "none" /\ name = Nothing /\ shown = Nothing

\* player_start hands over a name.
Request ==
    /\ stage = "none" /\ stage' = "requested"
    /\ name' \in Names
    /\ UNCHANGED shown

\* The player takes it up and shows it.
Begin ==
    /\ stage = "requested" /\ stage' = "playing"
    /\ shown' = name
    /\ UNCHANGED name

\* The play is over: played, failed or stopped.
Finish ==
    /\ stage = "playing" /\ stage' = "played"
    /\ shown' = Nothing
    /\ UNCHANGED name

\* player_start returns.
Return ==
    /\ stage = "played" /\ stage' = "none"
    /\ name' = Nothing
    /\ UNCHANGED shown

Next == Request \/ Begin \/ Finish \/ Return

Spec == Init /\ [][Next]_vars

===============================================================================
