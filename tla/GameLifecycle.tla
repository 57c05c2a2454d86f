--------------------------- MODULE GameLifecycle ---------------------------
(***************************************************************************)
(* What the players may rely on, whatever buttons are pressed: a game      *)
(* begins with nothing scored, it is played, somebody reaching the win     *)
(* puts it in a grace period, and only the end of that period closes it.   *)
(* A closed game is never resumed; it gives way to a new game or to none.  *)
(***************************************************************************)
VARIABLES phase,
          blank      \* a game has begun and its history is its beginning only

Phases == {"none", "playing", "closing", "over"}

Init == phase = "none" /\ ~blank

Begin  == phase' = "playing" /\ blank'                     \* a new game, at any time
Play   == phase # "none" /\ phase' = phase /\ blank' \in BOOLEAN
Reach  == phase = "playing" /\ phase' = "closing" /\ blank' \in BOOLEAN
Resume == phase = "closing" /\ phase' = "playing" /\ blank' \in BOOLEAN
Close  == phase = "closing" /\ phase' = "over" /\ blank' \in BOOLEAN
Leave  == phase' = "none" /\ ~blank'                       \* the screen is gone

Next == Begin \/ Play \/ Reach \/ Resume \/ Close \/ Leave

Spec == Init /\ [][Next]_<<phase, blank>>
=============================================================================
