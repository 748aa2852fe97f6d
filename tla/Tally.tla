---------------------------------- MODULE Tally ----------------------------------
(***************************************************************************)
(* What the counters of the filter promise, whatever the threads batch: a  *)
(* total that follows what was noted, never ahead of it, never going back, *)
(* and behind it by no more than the slack the batches are allowed, apart  *)
(* from what went with a thread that ended.                                *)
(***************************************************************************)
EXTENDS Integers

CONSTANTS
  Counters,    \* the totals that are kept
  Slack,       \* how far a total may lag behind, a natural number
  Share        \* and how much of it may go with a thread that ends

VARIABLES noted, visible, lost

vars == <<noted, visible, lost>>

InStep(n, v, l) == \A c \in Counters :
  /\ v[c] + l[c] <= n[c]
  /\ n[c] <= v[c] + l[c] + Slack

Init ==
  /\ noted = [c \in Counters |-> 0]
  /\ visible = noted
  /\ lost = noted

(* A call is noted: it counts as a call, and as a dropped one if it was. *)
Note ==
  /\ \E some \in SUBSET Counters :
       noted' = [c \in Counters |-> IF c \in some THEN noted[c] + 1 ELSE noted[c]]
  /\ UNCHANGED <<visible, lost>>

(* Some of what was noted reaches the totals, or is lost for good, a share at a time. *)
Reveal ==
  /\ \A c \in Counters : visible'[c] >= visible[c]
  /\ UNCHANGED <<noted, lost>>

Lose ==
  /\ \A c \in Counters : lost'[c] - lost[c] \in 0 .. Share
  /\ UNCHANGED <<noted, visible>>

Next == (Note \/ Reveal \/ Lose) /\ InStep(noted', visible', lost')

Spec == Init /\ [][Next]_vars
=============================================================================
