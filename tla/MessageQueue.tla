---------------------------- MODULE MessageQueue ----------------------------
(***************************************************************************)
(* What a queue object promises: a message that was accepted waits until   *)
(* one receiver, and only one, gets it, or until it is lost with a failed  *)
(* answer or a stopped process; nothing is got that does not wait.         *)
(***************************************************************************)
CONSTANTS Msgs, Receivers

VARIABLES waiting, delivered   \* delivered: receiver -> what it got

MQInit == waiting = {} /\ delivered = [r \in Receivers |-> {}]

Accept(m) == /\ m \notin waiting /\ \A r \in Receivers : m \notin delivered[r]
             /\ waiting' = waiting \cup {m}
             /\ UNCHANGED delivered

Deliver(r, m) == /\ m \in waiting
                 /\ waiting' = waiting \ {m}
                 /\ delivered' = [delivered EXCEPT ![r] = @ \cup {m}]

Lose == /\ waiting' \in SUBSET waiting
        /\ UNCHANGED delivered

MQNext == \/ \E m \in Msgs : Accept(m)
          \/ \E r \in Receivers, m \in Msgs : Deliver(r, m)
          \/ Lose

MQSpec == MQInit /\ [][MQNext]_<<waiting, delivered>>
=============================================================================
