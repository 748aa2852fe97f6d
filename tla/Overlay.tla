---------------------------------- MODULE Overlay ----------------------------------
(***************************************************************************)
(* The readout on the screen (FpsOptoPro.cpp): the render thread brings it *)
(* up to date every few frames, the menu shows it and takes it down, and   *)
(* mOverlayMutex, which is not recursive, lets one of them at it.  A       *)
(* critical section that waits for nothing is one step; what the text says *)
(* is left out.                                                            *)
(***************************************************************************)
EXTENDS Naturals

CONSTANT OverlayFrames    \* kOverlayFramesPerUpdate

ASSUME OverlayAssumption == OverlayFrames \in Nat \ {0}

Nobody == "nobody"

VARIABLES
  mOverlayEnabled,
  mOverlayMutex,          \* the thread that holds it
  mOverlayFrameCounter,
  screen                  \* what was submitted last: "text", or "empty"

overlayVars == <<mOverlayEnabled, mOverlayMutex, mOverlayFrameCounter, screen>>

(* Slip: a frame late. *)
updateDueLate == mOverlayFrameCounter >= OverlayFrames

(* updateOverlay: most frames only count; an update keeps the lock. *)
updateDue == mOverlayFrameCounter + 1 >= OverlayFrames

countFrame ==
  /\ mOverlayMutex = Nobody
  /\ ~updateDue
  /\ mOverlayFrameCounter' = mOverlayFrameCounter + 1
  /\ UNCHANGED <<mOverlayEnabled, mOverlayMutex, screen>>

startUpdate(thread) ==
  /\ mOverlayMutex = Nobody
  /\ updateDue
  /\ mOverlayFrameCounter' = 0
  /\ mOverlayMutex' = thread
  /\ UNCHANGED <<mOverlayEnabled, screen>>

(* Slip: only a readout that is on is submitted. *)
publishOverlayOn ==
  /\ mOverlayMutex = Nobody
  /\ screen' = IF mOverlayEnabled THEN "text" ELSE screen
  /\ UNCHANGED <<mOverlayEnabled, mOverlayMutex, mOverlayFrameCounter>>

(* publishOverlay: the text or, switched off, nothing. *)
publishOverlay ==
  /\ mOverlayMutex = Nobody
  /\ screen' = IF mOverlayEnabled THEN "text" ELSE "empty"
  /\ UNCHANGED <<mOverlayEnabled, mOverlayMutex, mOverlayFrameCounter>>

setOverlay(on) ==
  /\ mOverlayEnabled' = on
  /\ UNCHANGED <<mOverlayMutex, mOverlayFrameCounter, screen>>

OverlayInit ==
  /\ mOverlayEnabled = FALSE /\ mOverlayMutex = Nobody
  /\ mOverlayFrameCounter = 0 /\ screen = "empty"

OverlayTypeOK ==
  /\ mOverlayEnabled \in BOOLEAN
  /\ mOverlayMutex \in {Nobody, "render"}
  /\ mOverlayFrameCounter \in 0 .. OverlayFrames - 1
  /\ screen \in {"text", "empty"}
=============================================================================
