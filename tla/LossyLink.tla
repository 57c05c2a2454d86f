----------------------------- MODULE LossyLink -----------------------------
(***************************************************************************)
(* What the cable promises of the table's messages: each is handled once   *)
(* at most, and none that was not sent.  Any may be lost.                  *)
(***************************************************************************)
EXTENDS Naturals, SequencesExt

VARIABLES sent,    \* messages 1..sent have been written
          got      \* the messages handled, in the order they were

Init == sent = 0 /\ got = <<>>

Send == sent' = sent + 1 /\ UNCHANGED got

Deliver(m) == /\ m \notin ToSet(got)
              /\ got' = Append(got, m)
              /\ UNCHANGED sent

Next == Send \/ \E m \in 1..sent : Deliver(m)

Spec == Init /\ [][Next]_<<sent, got>>
=============================================================================
