-------------------------- MODULE ModLifecycleProofs --------------------------
(***************************************************************************)
(* The crash-loop guard, for every number of frames and ticks a stable     *)
(* launch takes, every set of configurations and every number of launches. *)
(***************************************************************************)
EXTENDS ModLifecycle, TLAPS

LEMMA InitType == Init => TypeOK
<1> SUFFICES ASSUME Init PROVE TypeOK
  OBVIOUS
<1>1. marker \in Markers
  BY DEF Init, Absent, Markers
<1>2. config \in Config
  BY LifecycleAssumption DEF Init
<1>3. /\ frames \in 0 .. StableFrames /\ presented \in 0 .. StableFrames + 1
      /\ uptime \in 0 .. StableUptime /\ streak \in 0 .. MaxStreak
      /\ mConsecutiveFailures \in Nat
  BY BootAssumption, LifecycleAssumption DEF Init
<1>4. phase \in Phases
  BY DEF Init, Phases
<1> QED BY <1>1, <1>2, <1>3, <1>4 DEF Init, TypeOK

(* A step other than these leaves the type of every variable as it is. *)
LEMMA TypeStep == TypeOK /\ [Next]_vars => TypeOK'
<1> SUFFICES ASSUME TypeOK, [Next]_vars PROVE TypeOK'
  OBVIOUS
<1> USE BootAssumption, LifecycleAssumption DEF diskVars, bootVars, glVars, eglVars, policyVars, gameVars, history
<1>1. ASSUME NEW c \in Configs, Launch(c) PROVE TypeOK'
  <2>1. config' \in Config /\ phase' \in Phases
    BY <1>1 DEF Launch, Phases
  <2> QED BY <1>1, <2>1 DEF Launch, TypeOK
<1>2. CASE Die
  <2>1. phase' \in Phases /\ UNCHANGED diskVars
    BY <1>2 DEF Die, Phases
  <2>2. streak' \in 0 .. MaxStreak
    BY <1>2 DEF Die, TypeOK
  <2>5. faulty' \in BOOLEAN
    <3>1. faulty' = IF mRetired THEN readMarker(marker) # stateAfterStable
                   ELSE faulty \/ phase = "writeMarker"
      BY <1>2 DEF Die
    <3>2. (readMarker(marker) # stateAfterStable) \in BOOLEAN
          /\ (faulty \/ phase = "writeMarker") \in BOOLEAN
      OBVIOUS
    <3> QED BY <3>1, <3>2, Zenon
  <2>3. /\ mBegan' \in BOOLEAN /\ mSafeMode' \in BOOLEAN /\ mRetired' \in BOOLEAN
        /\ patched' \in BOOLEAN /\ glInstalled' \in BOOLEAN /\ hooksOn' \in BOOLEAN
        /\ eglInstalled' \in BOOLEAN /\ callback' \in BOOLEAN /\ swapped' \in BOOLEAN
        /\ mRunning' \in BOOLEAN /\ mActive' \in BOOLEAN /\ mAutoModeEnabled' \in BOOLEAN
        /\ rendering' \in BOOLEAN
    BY <1>2 DEF Die, FreshProcess
  <2>4. /\ mConsecutiveFailures' \in Nat /\ frames' \in 0 .. StableFrames
        /\ uptime' \in 0 .. StableUptime /\ presented' \in 0 .. StableFrames + 1
    BY <1>2 DEF Die, FreshProcess
  <2> QED BY <2>1, <2>2, <2>3, <2>4, <2>5 DEF TypeOK
<1>3. CASE load
  BY <1>3 DEF load, TypeOK, Phases
<1>4. CASE beginBootGuard
  <2>1. mSafeMode' \in BOOLEAN /\ mConsecutiveFailures' \in Nat /\ marker' \in Markers
    BY <1>4 DEF beginBootGuard, decideAtLoad, readMarker, Truncated, Markers, TypeOK
  <2>2. /\ phase' \in Phases /\ mBegan' \in BOOLEAN /\ mRetired' \in BOOLEAN
        /\ UNCHANGED <<config, glVars, eglVars, policyVars, gameVars, streak>>
    BY <1>4 DEF beginBootGuard, TypeOK, Phases
  <2>3. faulty' \in BOOLEAN
    <3>1. UNCHANGED faulty \/ faulty' = TRUE
      BY <1>4 DEF beginBootGuard
    <3> QED BY <3>1, Zenon DEF TypeOK
  <2> QED BY <2>1, <2>2, <2>3 DEF TypeOK
<1>5. CASE writeMarker
  <2>1. marker' \in Markers
    BY <1>5 DEF writeMarker, Written, stateAfterLoad, Markers, TypeOK
  <2>2. faulty' \in BOOLEAN
    <3>1. UNCHANGED faulty \/ faulty' = TRUE
      BY <1>5 DEF writeMarker
    <3> QED BY <3>1, Zenon DEF TypeOK
  <2> QED BY <1>5, <2>1, <2>2 DEF writeMarker, TypeOK, Phases
<1>6. CASE applyDecision
  BY <1>6 DEF applyDecision, TypeOK, Phases
<1>7. ASSUME NEW ok \in BOOLEAN,
             installGlFilter(ok) \/ installEglSensor(ok) \/ startPolicies(ok)
      PROVE  TypeOK'
  <2>1. CASE installGlFilter(ok)
    <3>1. patched' \in BOOLEAN /\ glInstalled' \in BOOLEAN /\ hooksOn' \in BOOLEAN
      BY <2>1 DEF installGlFilter, TypeOK
    <3>2. /\ phase' \in Phases
          /\ UNCHANGED <<diskVars, bootVars, eglVars, policyVars, gameVars, history>>
      BY <2>1 DEF installGlFilter, Phases
    <3> QED BY <3>1, <3>2 DEF TypeOK
  <2>2. CASE installEglSensor(ok)
    <3>1. frames' \in 0 .. StableFrames /\ eglInstalled' \in BOOLEAN /\ callback' \in BOOLEAN
      BY <2>2 DEF installEglSensor, TypeOK
    <3>2. phase' \in Phases
          /\ UNCHANGED <<diskVars, bootVars, glVars, swapped, policyVars, gameVars, history>>
      BY <2>2 DEF installEglSensor, Phases
    <3> QED BY <3>1, <3>2 DEF TypeOK
  <2>3. CASE startPolicies(ok)
    <3>1. mRunning' \in BOOLEAN /\ mActive' \in BOOLEAN
      BY <2>3 DEF startPolicies, TypeOK
    <3>2. /\ phase' \in Phases /\ UNCHANGED mAutoModeEnabled
          /\ UNCHANGED <<diskVars, bootVars, glVars, eglVars, gameVars, history>>
      BY <2>3 DEF startPolicies, Phases
    <3> QED BY <3>1, <3>2 DEF TypeOK
  <2> QED BY <1>7, <2>1, <2>2, <2>3
<1>8. CASE finishEnable
  BY <1>8 DEF finishEnable, applyAutoMode, TypeOK, Phases, Config
<1>9. ASSUME NEW key \in MenuKeys, NEW value \in BOOLEAN, handleConfigChanged(key, value)
      PROVE  TypeOK'
  <2>1. config' \in Config
    BY <1>9 DEF handleConfigChanged, MenuKeys, Config, TypeOK
  <2> QED BY <1>9, <2>1 DEF handleConfigChanged, applyAutoMode, TypeOK
<1>10. ASSUME NEW next \in {"loaded", "unloaded"}, disable(next) PROVE TypeOK'
  BY <1>10 DEF disable, TypeOK, Phases
<1>11. ASSUME NEW on \in BOOLEAN, Swap(on) PROVE TypeOK'
  <2>1. Least(frames + 1, StableFrames) \in 0 .. StableFrames
        /\ Least(presented + 1, StableFrames + 1) \in 0 .. StableFrames + 1
    BY DEF Least, TypeOK
  <2>2. /\ frames' \in 0 .. StableFrames /\ presented' \in 0 .. StableFrames + 1
        /\ swapped' \in BOOLEAN
        /\ UNCHANGED <<config, phase, patched, glInstalled, eglInstalled, callback,
                       policyVars, rendering, uptime, history>>
    BY <1>11, <2>1 DEF Swap, TypeOK
  <2>3. hooksOn' \in BOOLEAN
    BY <1>11 DEF Swap, onFrame, TypeOK
  <2>4. /\ mBegan' \in BOOLEAN /\ mSafeMode' \in BOOLEAN /\ mRetired' \in BOOLEAN
        /\ mConsecutiveFailures' \in Nat
    <3>1. \/ UNCHANGED bootVars
          \/ mRetired' = TRUE /\ UNCHANGED <<mBegan, mSafeMode>> /\ mConsecutiveFailures' = 0
      BY <1>11 DEF Swap, onFrame, noteFrame, stateAfterStable
    <3>2. CASE UNCHANGED bootVars
      BY <3>2 DEF TypeOK
    <3>3. CASE mRetired' = TRUE /\ UNCHANGED <<mBegan, mSafeMode>> /\ mConsecutiveFailures' = 0
      BY <3>3 DEF TypeOK
    <3> QED BY <3>1, <3>2, <3>3
  <2>5. marker' \in Markers
    <3>1. marker \in Markers /\ Truncated \in Markers /\ Written(stateAfterStable) \in Markers
      BY DEF TypeOK, Truncated, Written, stateAfterStable, Markers
    <3> QED BY <1>11, <3>1 DEF Swap, onFrame, noteFrame
  <2> QED BY <2>2, <2>3, <2>4, <2>5 DEF TypeOK
<1>12. CASE Tick
  BY <1>12 DEF Tick, TypeOK
<1>13. CASE UNCHANGED vars
  BY <1>13 DEF vars, TypeOK
<1> QED BY <1>1, <1>2, <1>3, <1>4, <1>5, <1>6, <1>7, <1>8, <1>9, <1>10, <1>11, <1>12, <1>13
        DEF Next, Enable, Frame

(* Types, for every configuration. *)
THEOREM TypeCorrect == Spec => []TypeOK
BY InitType, TypeStep, PTL DEF Spec

-----------------------------------------------------------------------------
(* Unless a write was lost, the marker of a launch that is not proven is     *)
(* open, with the count it started with, from the moment begin() has         *)
(* returned until it is retired.                                             *)
MarkerHeld ==
  LET found == readMarker(marker)
  IN /\ mRetired => mBegan
     /\ phase = "writeMarker" => mBegan /\ ~mRetired
     /\ phase = "off" => ~mBegan
     /\ ~faulty =>
          /\ mBegan => (mSafeMode <=> streak > 0)
          /\ mBegan /\ ~mRetired => mConsecutiveFailures = streak
          /\ mBegan /\ ~mRetired /\ phase # "writeMarker" =>
               found.markerOpen /\ found.consecutiveFailures = streak
          /\ ~mBegan => /\ found.markerOpen <=> streak > 0
                        /\ found.markerOpen => found.consecutiveFailures = streak - 1

(* begin() runs before the game renders: no frame can retire a marker that   *)
(* is still being written.                                                   *)
BeganFirst ==
  /\ phase = "writeMarker" => ~rendering
  /\ DurableDir /\ (rendering \/ phase \notin {"off", "unloaded", "loaded"}) => mBegan

LEMMA BeganFirstStep == TypeOK /\ BeganFirst /\ [Next]_vars => BeganFirst'
<1> SUFFICES ASSUME TypeOK, BeganFirst, [Next]_vars PROVE BeganFirst'
  OBVIOUS
<1> USE DEF diskVars, bootVars, glVars, eglVars, policyVars, gameVars, history
<1>1. CASE Die
  BY <1>1 DEF Die, FreshProcess, BeganFirst
<1>2. CASE beginBootGuard
  BY <1>2 DEF beginBootGuard, BeganFirst
<1>3. CASE finishEnable
  BY <1>3 DEF finishEnable, BeganFirst
<1>4. ASSUME NEW on \in BOOLEAN, Swap(on) PROVE BeganFirst'
  <2>1. UNCHANGED <<phase, rendering, mBegan>>
    BY <1>4 DEF Swap, onFrame, noteFrame
  <2> QED BY <2>1 DEF BeganFirst
<1>5. ASSUME UNCHANGED <<rendering, mBegan>>, phase' # "writeMarker",
             phase' \in {"off", "unloaded", "loaded"} \/ phase \notin {"off", "unloaded", "loaded"}
      PROVE  BeganFirst'
  BY <1>5 DEF BeganFirst
<1>6. ASSUME \/ \E c \in Configs : Launch(c)
             \/ load \/ writeMarker \/ applyDecision
             \/ \E ok \in BOOLEAN : installGlFilter(ok) \/ installEglSensor(ok) \/ startPolicies(ok)
             \/ \E next \in {"loaded", "unloaded"} : disable(next)
             \/ \E key \in MenuKeys, value \in BOOLEAN : handleConfigChanged(key, value)
      PROVE  BeganFirst'
  BY <1>5, <1>6 DEF Launch, load, writeMarker, applyDecision, installGlFilter,
     installEglSensor, startPolicies, disable, handleConfigChanged
<1>7. CASE Tick
  BY <1>7 DEF Tick, BeganFirst
<1>8. CASE UNCHANGED vars
  BY <1>8 DEF vars, BeganFirst
<1> QED BY <1>1, <1>2, <1>3, <1>4, <1>6, <1>7, <1>8 DEF Next, Enable, Frame

LEMMA MarkerHeldStep == TypeOK /\ BeganFirst /\ MarkerHeld /\ [Next]_vars => MarkerHeld'
<1> SUFFICES ASSUME TypeOK, BeganFirst, MarkerHeld, [Next]_vars
             PROVE  MarkerHeld'
  OBVIOUS
<1> USE BootAssumption, LifecycleAssumption DEF diskVars, bootVars, glVars, eglVars, policyVars, gameVars, history
<1>1. CASE Die
  <2>1. /\ marker' = marker /\ phase' = "off" /\ ~mBegan' /\ ~mRetired'
        /\ streak' = IF ~mBegan THEN streak ELSE IF mRetired THEN 0 ELSE streak + 1
        /\ faulty' = IF mRetired THEN readMarker(marker) # stateAfterStable
                     ELSE faulty \/ phase = "writeMarker"
    BY <1>1 DEF Die, FreshProcess
  <2>2. (readMarker(marker))' = readMarker(marker) /\ streak \in Nat
    BY <2>1 DEF readMarker, TypeOK
  <2>3. ASSUME ~faulty'
        PROVE  /\ readMarker(marker).markerOpen <=> streak' > 0
               /\ readMarker(marker).markerOpen =>
                    readMarker(marker).consecutiveFailures = streak' - 1
    <3>1. CASE mRetired
      <4>1. readMarker(marker) = stateAfterStable /\ streak' = 0
        BY <2>1, <2>3, <3>1 DEF MarkerHeld
      <4>2. readMarker(marker).markerOpen = FALSE
        BY <4>1 DEF stateAfterStable
      <4> QED BY <4>1, <4>2
    <3>2. CASE ~mRetired
      <4>1. ~faulty /\ phase # "writeMarker"
            /\ streak' = IF ~mBegan THEN streak ELSE streak + 1
        BY <2>1, <2>3, <3>2
      <4> QED BY <2>2, <3>2, <4>1 DEF MarkerHeld
    <3> QED BY <3>1, <3>2
  <2> QED BY <2>1, <2>2, <2>3 DEF MarkerHeld
<1>2. CASE beginBootGuard
  <2>1. CASE DurableDir /\ ~mBegan
    <3> DEFINE found == readMarker(marker)
    <3>1. /\ mBegan' /\ ~mRetired' /\ streak' = streak /\ phase' \in {"writeMarker", "decide"}
          /\ mSafeMode' = decideAtLoad(found).safeMode
          /\ mConsecutiveFailures' = decideAtLoad(found).consecutiveFailures
          /\ ~faulty' => phase' = "writeMarker" /\ ~faulty
      BY <1>2, <2>1 DEF beginBootGuard
    <3>2. /\ decideAtLoad(found).safeMode <=> found.markerOpen
          /\ decideAtLoad(found).consecutiveFailures =
               IF found.markerOpen THEN found.consecutiveFailures + 1 ELSE 0
      BY DEF decideAtLoad
    <3>3. ~faulty => /\ found.markerOpen <=> streak > 0
                     /\ found.markerOpen => found.consecutiveFailures = streak - 1
      BY <2>1 DEF MarkerHeld
    <3>4. streak \in Nat
      BY DEF TypeOK
    <3> HIDE DEF found
    <3> QED BY <3>1, <3>2, <3>3, <3>4 DEF MarkerHeld
  <2>2. CASE ~(DurableDir /\ ~mBegan)
    <3>1. /\ UNCHANGED <<marker, bootVars, history>>
          /\ phase' \notin {"writeMarker", "off"} /\ phase = "loaded"
      BY <1>2, <2>2 DEF beginBootGuard
    <3> QED BY <3>1 DEF MarkerHeld
  <2> QED BY <2>1, <2>2
<1>3. CASE writeMarker
  <2>1. mBegan /\ ~mRetired /\ phase' = "decide" /\ UNCHANGED <<bootVars, streak>>
    BY <1>3 DEF writeMarker, MarkerHeld
  <2>2. ASSUME ~faulty'
        PROVE  /\ ~faulty
               /\ (readMarker(marker))' =
                    [markerOpen |-> TRUE, consecutiveFailures |-> mConsecutiveFailures]
    <3>1. ~faulty /\ marker' = [word |-> "open", failures |-> mConsecutiveFailures]
      BY <1>3, <2>2 DEF writeMarker, Written, stateAfterLoad
    <3> QED BY <3>1 DEF readMarker
  <2> QED BY <2>1, <2>2 DEF MarkerHeld
<1>4. ASSUME NEW on \in BOOLEAN, Swap(on) PROVE MarkerHeld'
  <2>1. CASE UNCHANGED <<marker, bootVars>>
    BY <1>4, <2>1 DEF Swap, MarkerHeld
  <2>2. CASE ~(UNCHANGED <<marker, bootVars>>)
    <3>1. /\ mBegan /\ ~mRetired /\ mRetired'
          /\ UNCHANGED <<mBegan, mSafeMode, phase, history>>
      BY <1>4, <2>2 DEF Swap, onFrame, noteFrame
    <3>2. phase' # "writeMarker" /\ phase' # "off"
      BY <1>4, <3>1 DEF Swap, BeganFirst, MarkerHeld
    <3> QED BY <3>1, <3>2 DEF MarkerHeld
  <2> QED BY <2>1, <2>2
<1>5. ASSUME UNCHANGED <<marker, bootVars, history>>,
             phase' # "writeMarker", phase' # "off", phase # "writeMarker"
      PROVE  MarkerHeld'
  BY <1>5 DEF MarkerHeld
<1>6. ASSUME \/ \E c \in Configs : Launch(c)
             \/ load \/ applyDecision \/ finishEnable
             \/ \E ok \in BOOLEAN : installGlFilter(ok) \/ installEglSensor(ok) \/ startPolicies(ok)
             \/ \E next \in {"loaded", "unloaded"} : disable(next)
             \/ \E key \in MenuKeys, value \in BOOLEAN : handleConfigChanged(key, value)
      PROVE  MarkerHeld'
  BY <1>5, <1>6 DEF Launch, load, applyDecision, finishEnable, installGlFilter,
     installEglSensor, startPolicies, disable, handleConfigChanged
<1>7. CASE Tick
  BY <1>7 DEF Tick, MarkerHeld
<1>8. CASE UNCHANGED vars
  BY <1>8 DEF vars, MarkerHeld
<1> QED BY <1>1, <1>2, <1>3, <1>4, <1>6, <1>7, <1>8 DEF Next, Enable, Frame

(* A launch is in safe mode exactly when the launch before it ended          *)
(* unproven, wherever in the process that was and whatever the disk did       *)
(* before the last launch that left a clean marker.                          *)
THEOREM GuardCorrect == Spec => []SafeModeAfterCrash
<1>1. Init => TypeOK /\ BeganFirst /\ MarkerHeld
  <2>1. readMarker(Absent).markerOpen = FALSE
    BY DEF readMarker, Absent
  <2> QED BY <2>1, InitType DEF Init, BeganFirst, MarkerHeld
<1>2. TypeOK /\ BeganFirst /\ MarkerHeld /\ [Next]_vars => (TypeOK /\ BeganFirst /\ MarkerHeld)'
  BY TypeStep, BeganFirstStep, MarkerHeldStep
<1>3. TypeOK /\ MarkerHeld => SafeModeAfterCrash
  BY DEF MarkerHeld, SafeModeAfterCrash
<1> QED BY <1>1, <1>2, <1>3, PTL DEF Spec

-----------------------------------------------------------------------------
(* The sensor misses one of the frames the game presents, the first. *)
FramesSeen == phase = "enabled" /\ eglInstalled =>
  /\ presented > 0 => swapped
  /\ presented <= frames + 1

RInv == /\ TypeOK /\ FramesSeen /\ WatchedLoopRetires
        /\ callback => eglInstalled

LEMMA RInvStep == RInv /\ [Next]_vars => RInv'
<1> SUFFICES ASSUME RInv, [Next]_vars PROVE RInv'
  OBVIOUS
<1> TypeOK'
  BY TypeStep DEF RInv
<1> USE BootAssumption, LifecycleAssumption DEF diskVars, bootVars, glVars, eglVars, policyVars, gameVars, history
<1>1. ASSUME UNCHANGED <<bootVars, frames, swapped, presented>>,
             phase' # "enabled" \/ (phase = "enabled" /\ UNCHANGED <<eglInstalled, callback>>),
             callback' => eglInstalled'
      PROVE  RInv'
  BY <1>1 DEF RInv, FramesSeen, WatchedLoopRetires
<1>2. CASE Die
  BY <1>2 DEF Die, FreshProcess, RInv, FramesSeen, WatchedLoopRetires
<1>3. CASE beginBootGuard
  BY <1>3 DEF beginBootGuard, RInv, FramesSeen, WatchedLoopRetires
<1>4. ASSUME NEW ok \in BOOLEAN, installEglSensor(ok) PROVE RInv'
  BY <1>4 DEF installEglSensor, RInv, FramesSeen, WatchedLoopRetires
<1>5. CASE finishEnable
  BY <1>5 DEF finishEnable, RInv, FramesSeen, WatchedLoopRetires, TypeOK
<1>6. ASSUME NEW on \in BOOLEAN, Swap(on) PROVE RInv'
  <2> TypeOK /\ (callback => eglInstalled)
    BY DEF RInv
  <2>1. /\ UNCHANGED <<phase, eglInstalled, callback>>
        /\ presented' = IF uptime >= StableUptime THEN Least(presented + 1, StableFrames + 1)
                        ELSE presented
        /\ swapped' = (swapped \/ eglInstalled)
        /\ IF eglInstalled /\ swapped THEN frames' = Least(frames + 1, StableFrames)
                                      ELSE frames' = frames
    BY <1>6 DEF Swap
  <2>2. FramesSeen'
    <3> SUFFICES ASSUME phase = "enabled", eglInstalled
                 PROVE  (presented' > 0 => swapped') /\ presented' <= frames' + 1
      BY <2>1 DEF FramesSeen
    <3>1. /\ presented > 0 => swapped
          /\ presented <= frames + 1
      BY DEF RInv, FramesSeen
    <3>2. swapped' = TRUE
      BY <2>1
    <3>3. CASE swapped
      <4>1. frames' = Least(frames + 1, StableFrames)
        BY <2>1, <3>3
      <4> QED BY <2>1, <3>1, <3>2, <4>1 DEF Least, TypeOK
    <3>4. CASE ~swapped
      <4>1. frames' = frames /\ presented = 0
        BY <2>1, <3>1, <3>4 DEF TypeOK
      <4> QED BY <2>1, <3>2, <4>1 DEF Least, TypeOK
    <3> QED BY <3>3, <3>4
  <2>3. /\ mBegan' = mBegan /\ mSafeMode' = mSafeMode
        /\ mRetired => mRetired'
    BY <1>6 DEF Swap, onFrame, noteFrame
  <2>4. WatchedLoopRetires'
    <3> SUFFICES ASSUME phase = "enabled", mBegan, ~mSafeMode, callback,
                        presented' > StableFrames
                 PROVE  mRetired'
      BY <2>1, <2>3 DEF WatchedLoopRetires
    <3>1. CASE presented > StableFrames
      BY <2>3, <3>1 DEF RInv, WatchedLoopRetires
    <3>2. CASE ~(presented > StableFrames)
      <4>1. uptime >= StableUptime /\ presented = StableFrames
        BY <2>1, <3>2 DEF Least, TypeOK
      <4>2. eglInstalled /\ swapped /\ frames + 1 >= StableFrames
        BY <4>1 DEF RInv, FramesSeen, TypeOK
      <4>3. Least(frames + 1, StableFrames) = StableFrames
        BY <4>2 DEF Least, TypeOK
      <4>4. isProvenStable(uptime, Least(frames + 1, StableFrames))
        BY <4>1, <4>3 DEF isProvenStable
      <4> QED BY <1>6, <2>3, <4>2, <4>4 DEF Swap, onFrame, noteFrame
    <3> QED BY <3>1, <3>2
  <2> QED BY <2>1, <2>2, <2>4 DEF RInv
<1>7. ASSUME \/ \E c \in Configs : Launch(c)
             \/ load \/ writeMarker \/ applyDecision \/ Tick
             \/ \E ok \in BOOLEAN : installGlFilter(ok) \/ startPolicies(ok)
             \/ \E next \in {"loaded", "unloaded"} : disable(next)
             \/ \E key \in MenuKeys, value \in BOOLEAN : handleConfigChanged(key, value)
      PROVE  RInv'
  BY <1>1, <1>7 DEF Launch, load, writeMarker, applyDecision, Tick, installGlFilter,
     startPolicies, disable, handleConfigChanged, RInv
<1>8. CASE UNCHANGED vars
  BY <1>8 DEF vars, RInv, FramesSeen, WatchedLoopRetires
<1> QED BY <1>2, <1>3, <1>4, <1>5, <1>6, <1>7, <1>8 DEF Next, Enable, Frame

(* A launch in normal mode that the sensor watches is proven one frame after *)
(* the game has presented as many as it takes.                               *)
THEOREM WatchedRetires == Spec => []WatchedLoopRetires
<1>1. Init => RInv
  BY InitType DEF Init, RInv, FramesSeen, WatchedLoopRetires
<1>2. RInv => WatchedLoopRetires
  BY DEF RInv
<1> QED BY <1>1, <1>2, RInvStep, PTL DEF Spec

-----------------------------------------------------------------------------
(* The callback notes no frame of a launch in safe mode. *)
SafeUnretired == mSafeMode => ~mRetired

LEMMA SafeUnretiredStep == SafeUnretired /\ [Next]_vars => SafeUnretired'
<1> SUFFICES ASSUME SafeUnretired, [Next]_vars PROVE SafeUnretired'
  OBVIOUS
<1>1. CASE Die
  BY <1>1 DEF Die, FreshProcess, SafeUnretired
<1>2. CASE beginBootGuard
  BY <1>2 DEF beginBootGuard, bootVars, SafeUnretired
<1>3. ASSUME NEW on \in BOOLEAN, Swap(on) PROVE SafeUnretired'
  <2>1. UNCHANGED bootVars \/ (~mSafeMode /\ UNCHANGED mSafeMode)
    BY <1>3 DEF Swap, onFrame, noteFrame
  <2> QED BY <2>1 DEF bootVars, SafeUnretired
<1>4. CASE ~Die /\ ~beginBootGuard /\ ~Frame
  <2>1. UNCHANGED bootVars
    BY <1>4
    DEF Next, Enable, Launch, load, writeMarker, applyDecision, installGlFilter, installEglSensor,
        startPolicies, finishEnable, handleConfigChanged, disable, Tick, vars
  <2> QED BY <2>1 DEF bootVars, SafeUnretired
<1> QED BY <1>1, <1>2, <1>3, <1>4 DEF Frame

(* Over any number of launches: a launch that ended unproven is followed by launches *)
(* in safe mode until a write of the marker is lost.                                 *)
THEOREM SafeModeStays == Spec => OnlyLostWriteRecovers
<1>1. Init => TypeOK /\ BeganFirst /\ MarkerHeld /\ SafeUnretired
  <2>1. readMarker(Absent).markerOpen = FALSE
    BY DEF readMarker, Absent
  <2> QED BY <2>1, InitType DEF Init, BeganFirst, MarkerHeld, SafeUnretired
<1>2. TypeOK /\ BeganFirst /\ MarkerHeld /\ SafeUnretired /\ [Next]_vars
        => (TypeOK /\ BeganFirst /\ MarkerHeld /\ SafeUnretired)'
  BY TypeStep, BeganFirstStep, MarkerHeldStep, SafeUnretiredStep
<1>3. TypeOK /\ MarkerHeld /\ SafeUnretired /\ [Next]_vars
        => [streak > 0 /\ streak' = 0 => faulty]_vars
  <2> SUFFICES ASSUME TypeOK, MarkerHeld, SafeUnretired, Next, streak > 0, streak' = 0
               PROVE  faulty
    OBVIOUS
  <2>1. CASE Die
    <3>1. mRetired
      <4>1. streak' = IF ~mBegan THEN streak ELSE IF mRetired THEN 0 ELSE streak + 1
        BY <2>1 DEF Die
      <4> QED BY <4>1 DEF TypeOK
    <3> QED BY <3>1 DEF MarkerHeld, SafeUnretired
  <2>2. CASE ~Die
    <3>1. streak' = streak
      BY <2>2
      DEF Next, Enable, Frame, Launch, load, beginBootGuard, writeMarker, applyDecision,
          installGlFilter, installEglSensor, startPolicies, finishEnable, handleConfigChanged,
          disable, Swap, Tick, history
    <3> QED BY <3>1 DEF TypeOK
  <2> QED BY <2>1, <2>2
<1> QED BY <1>1, <1>2, <1>3, PTL DEF Spec, OnlyLostWriteRecovers
=============================================================================
