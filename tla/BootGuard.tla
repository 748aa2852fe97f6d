------------------------------- MODULE BootGuard -------------------------------
(***************************************************************************)
(* The decisions of the crash-loop guard (BootGuard.h) and the marker file *)
(* they are taken from (BootMarker.cpp).  The file is one of: absent; empty,*)
(* after a write that got no further than truncating it; or a word, "open" *)
(* or "clean", with a count.                                               *)
(***************************************************************************)
EXTENDS Integers

CONSTANTS StableUptime,   \* kStableUptimeNs, in ticks of the clock
          StableFrames    \* kStableFrames

ASSUME BootAssumption == StableUptime \in Nat /\ StableFrames \in Nat \ {0}

Markers == [word : {"absent", "empty", "open", "clean"}, failures : Nat]

Absent      == [word |-> "absent", failures |-> 0]
Truncated   == [word |-> "empty", failures |-> 0]
Written(state) ==
  [word |-> IF state.markerOpen THEN "open" ELSE "clean",
   failures |-> state.consecutiveFailures]

(* A file without a first line is read like no file at all. *)
readMarker(marker) ==
  [markerOpen |-> marker.word = "open", consecutiveFailures |-> marker.failures]

(* Slip: the count goes the wrong way. *)
decideDownwards(state) ==
  [safeMode |-> state.markerOpen,
   consecutiveFailures |-> IF state.markerOpen THEN state.consecutiveFailures - 1 ELSE 0]

decideAtLoad(state) ==
  [safeMode |-> state.markerOpen,
   consecutiveFailures |-> IF state.markerOpen THEN state.consecutiveFailures + 1 ELSE 0]

(* Slip: a launch in safe mode does not open the marker. *)
openUnlessSafe(decision) ==
  [markerOpen |-> ~decision.safeMode, consecutiveFailures |-> decision.consecutiveFailures]

stateAfterLoad(decision) ==
  [markerOpen |-> TRUE, consecutiveFailures |-> decision.consecutiveFailures]

isProvenStable(uptime, frames) == uptime >= StableUptime /\ frames >= StableFrames

stateAfterStable == [markerOpen |-> FALSE, consecutiveFailures |-> 0]
=============================================================================
