-------------------------------- MODULE ShadowMap --------------------------------
(***************************************************************************)
(* What the table of contexts stands for, whatever slots, caches and        *)
(* generations it uses: a map from contexts to shadows.  A context that is   *)
(* created gets a fresh shadow or none, one that is destroyed loses the one  *)
(* it had, and in between only the thread that has the context current may   *)
(* change it.                                                               *)
(***************************************************************************)
CONSTANTS Threads, Handles, None, Values, Fresh

VARIABLES
  shadow,      \* the shadow of every context that is followed
  current      \* the context current on each thread, or none

vars == <<shadow, current>>

Init ==
  /\ shadow = [h \in {} |-> Fresh]
  /\ current = [t \in Threads |-> None]

Follow(h) ==
  /\ h \notin DOMAIN shadow
  /\ shadow' = [g \in DOMAIN shadow \cup {h} |-> IF g = h THEN Fresh ELSE shadow[g]]
  /\ UNCHANGED current

Forget(h) ==
  /\ h \in DOMAIN shadow
  /\ shadow' = [g \in DOMAIN shadow \ {h} |-> shadow[g]]
  /\ UNCHANGED current

Learn(t, v) ==
  /\ current[t] \in DOMAIN shadow
  /\ shadow' = [shadow EXCEPT ![current[t]] = v]
  /\ UNCHANGED current

MakeCurrent(t, h) ==
  /\ h = None \/ \A u \in Threads : current[u] # h
  /\ current' = [current EXCEPT ![t] = h]
  /\ UNCHANGED shadow

Next ==
  \/ \E h \in Handles : Follow(h) \/ Forget(h)
  \/ \E t \in Threads, v \in Values : Learn(t, v)
  \/ \E t \in Threads, h \in Handles \cup {None} : MakeCurrent(t, h)

Spec == Init /\ [][Next]_vars
=============================================================================
