-------------------------------- MODULE Outbox --------------------------------
(***************************************************************************)
(* What an agent that keeps a backlog promises to those who subscribe to a *)
(* topic: every notification at least once and the oldest first, unless    *)
(* there was no room for it or the server was restarted.  Once the disk    *)
(* has misbehaved there is no promise about order, or about what was       *)
(* waiting then.                                                           *)
(***************************************************************************)
EXTENDS Integers, Sequences

CONSTANTS Topics, Capacity

VARIABLES
  accepted,   \* how many notifications there have been; they are numbered from 1
  waiting,    \* those that the agent is responsible for
  received,   \* what each topic was given
  disturbed,  \* whether the disk has misbehaved
  restarts

vars == <<accepted, waiting, received, disturbed, restarts>>

Given(t, n) == \E i \in DOMAIN received[t] : received[t][i] = n

\* More are waiting than there is room for.
Full ==
  \E number \in [0..Capacity -> waiting] :
    \A i, j \in 0..Capacity : number[i] = number[j] => i = j

Accept ==
  /\ accepted' = accepted + 1
  /\ waiting' = waiting \union {accepted'}
  /\ UNCHANGED <<received, disturbed, restarts>>

Deliver ==
  /\ \E n \in waiting, t \in Topics :
       /\ disturbed \/ \A m \in waiting : n <= m
       /\ received' = [received EXCEPT ![t] = Append(@, n)]
  /\ UNCHANGED <<accepted, waiting, disturbed, restarts>>

Settle ==
  /\ \E n \in waiting :
       /\ \A t \in Topics : Given(t, n)
       /\ waiting' = waiting \ {n}
  /\ UNCHANGED <<accepted, received, disturbed, restarts>>

\* The newest is turned away when there is no room for it.
TurnAway ==
  /\ disturbed \/ Full
  /\ waiting' = waiting \ {accepted}
  /\ UNCHANGED <<accepted, received, disturbed, restarts>>

Restart ==
  /\ restarts' = restarts + 1
  /\ waiting' = {}
  /\ UNCHANGED <<accepted, received, disturbed>>

Disturb ==
  /\ disturbed' = TRUE
  /\ waiting' \in SUBSET waiting
  /\ UNCHANGED <<accepted, received, restarts>>

Init ==
  /\ accepted = 0 /\ waiting = {}
  /\ received = [t \in Topics |-> <<>>]
  /\ disturbed = FALSE /\ restarts = 0

Next == Accept \/ Deliver \/ Settle \/ TurnAway \/ Restart \/ Disturb

Spec == Init /\ [][Next]_vars
==============================================================================
