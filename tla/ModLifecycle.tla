----------------------------- MODULE ModLifecycle -----------------------------
(***************************************************************************)
(* The launches of the game with the mod in it (FpsOptoPro.cpp), and the   *)
(* boot marker that carries the outcome of one launch to the next.  A step *)
(* is one stage of enable(), one presented frame, one menu change or one   *)
(* call of the loader; the process may die before any of them.             *)
(*                                                                         *)
(* What the policies choose from frame to frame is left open here (module  *)
(* HookPolicy has the hooks, module BoostScheduler the priorities).        *)
(***************************************************************************)
EXTENDS BootGuard

CONSTANTS
  Configs,       \* the configurations a user may launch with
  DurableDir,    \* is there a directory to keep the marker in?
  TornWrites,    \* may the process die between truncating and writing the marker?
  DiskFails,     \* may a write of the marker fail?
  MaxStreak      \* bound on the launches that fail in a row

Config == [enableGlFilter : BOOLEAN, enableEglSensor : BOOLEAN,
           enableScheduler : BOOLEAN, allowAdpfSession : BOOLEAN, autoMode : BOOLEAN]

ASSUME LifecycleAssumption ==
  /\ Configs \subseteq Config
  /\ DurableDir \in BOOLEAN /\ TornWrites \in BOOLEAN /\ DiskFails \in BOOLEAN
  /\ MaxStreak \in Nat

VARIABLES
  \* on disk
  marker, config,
  \* the process: how far the loader and enable() have come
  phase,
  \* BootMarker
  mBegan, mSafeMode, mRetired, mConsecutiveFailures,
  \* GlInterceptor: detours in place, mInstalledCount > 0, some hook may drop
  patched, glInstalled, hooksOn,
  \* EglSensor: mInstalledCount > 0, mFrameCallback set, mLastSwapNs set, mFrames
  eglInstalled, callback, swapped, frames,
  \* ThreadScheduler, AdpfSession, the flag of the auto mode
  mRunning, mActive, mAutoModeEnabled,
  \* the game: does it render, how long is it up, and the frames it has presented
  \* since enable() with the uptime of a stable launch
  rendering, uptime, presented,
  \* history: launches in a row that opened the marker and ended before retiring it;
  \* a write of the marker was lost since a retired launch last left it clean
  streak, faulty

diskVars   == <<marker, config>>
bootVars   == <<mBegan, mSafeMode, mRetired, mConsecutiveFailures>>
glVars     == <<patched, glInstalled, hooksOn>>
eglVars    == <<eglInstalled, callback, swapped, frames>>
policyVars == <<mRunning, mActive, mAutoModeEnabled>>
gameVars   == <<rendering, uptime, presented>>
history    == <<streak, faulty>>
vars == <<diskVars, phase, bootVars, glVars, eglVars, policyVars, gameVars, history>>

Least(a, b) == IF a <= b THEN a ELSE b

-----------------------------------------------------------------------------
(* A process starts with every static object as its constructor leaves it. *)
FreshProcess ==
  /\ mBegan' = FALSE /\ mSafeMode' = FALSE /\ mRetired' = FALSE
  /\ mConsecutiveFailures' = 0
  /\ patched' = FALSE /\ glInstalled' = FALSE /\ hooksOn' = TRUE
  /\ eglInstalled' = FALSE /\ callback' = FALSE /\ swapped' = FALSE /\ frames' = 0
  /\ mRunning' = FALSE /\ mActive' = FALSE /\ mAutoModeEnabled' = TRUE
  /\ rendering' = FALSE /\ uptime' = 0 /\ presented' = 0

Launch(c) ==
  /\ phase = "off"
  /\ phase' = "unloaded"
  /\ config' = c
  /\ UNCHANGED <<marker, bootVars, glVars, eglVars, policyVars, gameVars, history>>

(* A crash, a kill by the system or the user leaving: the guard cannot tell. *)
Die ==
  /\ phase # "off"
  /\ TornWrites \/ phase # "writeMarker"
  /\ mBegan /\ ~mRetired => streak < MaxStreak
  /\ phase' = "off"
  /\ streak' = IF ~mBegan THEN streak ELSE IF mRetired THEN 0 ELSE streak + 1
  /\ faulty' = IF mRetired THEN readMarker(marker) # stateAfterStable
               ELSE faulty \/ phase = "writeMarker"
  /\ FreshProcess
  /\ UNCHANGED diskVars

load ==
  /\ phase = "unloaded"
  /\ phase' = "loaded"
  /\ UNCHANGED <<diskVars, bootVars, glVars, eglVars, policyVars, gameVars, history>>

-----------------------------------------------------------------------------
(* enable(), stage by stage.                                               *)

(* BootMarker::begin is idempotent: only the first call of a process reads  *)
(* the marker.  Its write truncates the file first.                         *)
beginBootGuard ==
  /\ phase = "loaded"
  /\ IF DurableDir /\ ~mBegan
     THEN LET decision == decideAtLoad(readMarker(marker))
          IN /\ mBegan' = TRUE
             /\ mSafeMode' = decision.safeMode
             /\ mConsecutiveFailures' = decision.consecutiveFailures
             /\ mRetired' = FALSE
             /\ \/ marker' = Truncated /\ phase' = "writeMarker" /\ UNCHANGED faulty
                \/ DiskFails /\ marker' = marker /\ phase' = "decide" /\ faulty' = TRUE
     ELSE /\ phase' = IF DurableDir THEN "decide" ELSE "installGl"
          /\ UNCHANGED <<marker, bootVars, faulty>>
  /\ UNCHANGED <<config, glVars, eglVars, policyVars, gameVars, streak>>

writeMarker ==
  /\ phase = "writeMarker"
  /\ \/ /\ marker' = Written(stateAfterLoad([safeMode |-> mSafeMode,
                                             consecutiveFailures |-> mConsecutiveFailures]))
        /\ UNCHANGED faulty
     \/ DiskFails /\ marker' = marker /\ faulty' = TRUE
  /\ phase' = "decide"
  /\ UNCHANGED <<config, bootVars, glVars, eglVars, policyVars, gameVars, streak>>

(* What safe mode does: switch off the hooks, the scheduler and the session. *)
applyDecision ==
  /\ phase = "decide"
  /\ hooksOn' = (hooksOn /\ ~mSafeMode)
  /\ mRunning' = (mRunning /\ ~mSafeMode)
  /\ mActive' = (mActive /\ ~mSafeMode)
  /\ phase' = "installGl"
  /\ UNCHANGED <<diskVars, bootVars, patched, glInstalled, eglVars, mAutoModeEnabled,
                 gameVars, history>>

(* Every hook is switched on at install, and left on when none can be hooked. *)
installGlFilter(succeeds) ==
  /\ phase = "installGl"
  /\ IF config.enableGlFilter /\ ~glInstalled
     THEN /\ hooksOn' = TRUE
          /\ glInstalled' = succeeds
          /\ patched' = (patched \/ succeeds)
     ELSE UNCHANGED glVars
  /\ phase' = "installEgl"
  /\ UNCHANGED <<diskVars, bootVars, eglVars, policyVars, gameVars, history>>

installEglSensor(succeeds) ==
  /\ phase = "installEgl"
  /\ IF config.enableEglSensor
     THEN /\ frames' = IF eglInstalled THEN frames ELSE 0
          /\ eglInstalled' = (eglInstalled \/ succeeds)
          /\ callback' = (callback \/ eglInstalled \/ succeeds)
     ELSE UNCHANGED <<frames, eglInstalled, callback>>
  /\ phase' = "startPolicies"
  /\ UNCHANGED <<diskVars, bootVars, glVars, swapped, policyVars, gameVars, history>>

(* The scheduler and, if the device has one, the hint session. *)
startPolicies(succeeds) ==
  /\ phase = "startPolicies"
  /\ mRunning' = (mRunning \/ config.enableScheduler)
  /\ mActive' = (mActive \/ (config.allowAdpfSession /\ succeeds))
  /\ phase' = "applyAutoMode"
  /\ UNCHANGED <<diskVars, bootVars, glVars, eglVars, mAutoModeEnabled, gameVars, history>>

(* Only a mode that is on is stated to the hooks. *)
applyAutoMode(enabled) ==
  /\ mAutoModeEnabled' = enabled
  /\ hooksOn' = (hooksOn \/ enabled)

(* The last stage; the game starts to render when enable() has returned. *)
finishEnable ==
  /\ phase = "applyAutoMode"
  /\ applyAutoMode(config.autoMode)
  /\ phase' = "enabled"
  /\ rendering' = TRUE /\ presented' = 0
  /\ UNCHANGED <<diskVars, bootVars, patched, glInstalled, eglVars, mRunning, mActive,
                 uptime, history>>

-----------------------------------------------------------------------------
(* The running mod.                                                        *)

(* The menu: only the auto mode takes effect in the running process. *)
handleConfigChanged(key, value) ==
  /\ phase = "enabled"
  /\ config' = [config EXCEPT ![key] = value]
  /\ IF key = "autoMode" THEN applyAutoMode(value) ELSE UNCHANGED <<mAutoModeEnabled, hooksOn>>
  /\ UNCHANGED <<marker, phase, bootVars, patched, glInstalled, eglVars, mRunning, mActive,
                 gameVars, history>>

(* disable() takes away neither the detours nor the permission to drop;     *)
(* unload() disables once more and lets go of the configuration.            *)
disable(next) ==
  /\ phase = "enabled" \/ (phase = "loaded" /\ next = "unloaded")
  /\ mRunning' = FALSE /\ mActive' = FALSE
  /\ callback' = FALSE
  /\ glInstalled' = FALSE
  /\ phase' = next
  /\ UNCHANGED <<diskVars, bootVars, patched, hooksOn, eglInstalled, swapped, frames,
                 mAutoModeEnabled, gameVars, history>>

(* BootMarker::noteFrame.  A write that fails is not tried again.  (A write  *)
(* cut short leaves an empty file, which is read like a clean one.)          *)
noteFrame(up, count) ==
  IF mBegan /\ ~mRetired /\ isProvenStable(up, count)
  THEN /\ mRetired' = TRUE
       /\ mConsecutiveFailures' = stateAfterStable.consecutiveFailures
       /\ \/ marker' = Written(stateAfterStable)
          \/ DiskFails /\ marker' \in {marker, Truncated}
       /\ UNCHANGED <<mBegan, mSafeMode>>
  ELSE UNCHANGED <<marker, bootVars>>

(* Slip: the frame is noted in safe mode only. *)
onFrameInverted(on) ==
  /\ IF ~mBegan \/ mSafeMode
     THEN noteFrame(uptime, Least(frames + 1, StableFrames))
     ELSE UNCHANGED <<marker, bootVars>>
  /\ IF mAutoModeEnabled /\ ~mSafeMode THEN hooksOn' = on ELSE hooksOn' = hooksOn

(* In safe mode the frame is not noted, and the policy leaves the hooks be. *)
onFrame(on) ==
  /\ IF ~mBegan \/ ~mSafeMode
     THEN noteFrame(uptime, Least(frames + 1, StableFrames))
     ELSE UNCHANGED <<marker, bootVars>>
  /\ IF mAutoModeEnabled /\ ~mSafeMode THEN hooksOn' = on ELSE hooksOn' = hooksOn

(* A presented frame.  The sensor needs two swaps for an interval. *)
Swap(on) ==
  /\ rendering
  /\ presented' = IF uptime >= StableUptime THEN Least(presented + 1, StableFrames + 1)
                   ELSE presented
  /\ swapped' = (swapped \/ eglInstalled)
  /\ IF eglInstalled /\ swapped
     THEN /\ frames' = Least(frames + 1, StableFrames)
          /\ IF callback THEN onFrame(on) ELSE UNCHANGED <<marker, bootVars, hooksOn>>
     ELSE UNCHANGED <<frames, marker, bootVars, hooksOn>>
  /\ UNCHANGED <<config, phase, patched, glInstalled, eglInstalled, callback, policyVars,
                 rendering, uptime, history>>

(* The clock counts from the start of the process. *)
Tick ==
  /\ phase # "off" /\ uptime < StableUptime
  /\ uptime' = uptime + 1
  /\ UNCHANGED <<diskVars, phase, bootVars, glVars, eglVars, policyVars, rendering,
                 presented, history>>

-----------------------------------------------------------------------------
Init ==
  /\ marker = Absent
  /\ config \in Configs
  /\ phase = "off"
  /\ mBegan = FALSE /\ mSafeMode = FALSE /\ mRetired = FALSE
  /\ mConsecutiveFailures = 0
  /\ patched = FALSE /\ glInstalled = FALSE /\ hooksOn = TRUE
  /\ eglInstalled = FALSE /\ callback = FALSE /\ swapped = FALSE /\ frames = 0
  /\ mRunning = FALSE /\ mActive = FALSE /\ mAutoModeEnabled = TRUE
  /\ rendering = FALSE /\ uptime = 0 /\ presented = 0
  /\ streak = 0 /\ faulty = FALSE

MenuKeys == {"enableGlFilter", "enableScheduler", "autoMode"}

Enable ==
  \/ beginBootGuard
  \/ writeMarker
  \/ applyDecision
  \/ \E succeeds \in BOOLEAN : installGlFilter(succeeds)
  \/ \E succeeds \in BOOLEAN : installEglSensor(succeeds)
  \/ \E succeeds \in BOOLEAN : startPolicies(succeeds)
  \/ finishEnable

Frame == \E on \in BOOLEAN : Swap(on)

Next ==
  \/ \E c \in Configs : Launch(c)
  \/ Die
  \/ load
  \/ Enable
  \/ \E key \in MenuKeys, value \in BOOLEAN : handleConfigChanged(key, value)
  \/ \E next \in {"loaded", "unloaded"} : disable(next)
  \/ Frame
  \/ Tick

(* Time passes, and a game that runs presents frames. *)
Spec == Init /\ [][Next]_vars /\ WF_vars(Tick) /\ WF_vars(Frame)

-----------------------------------------------------------------------------
Phases == {"off", "unloaded", "loaded", "writeMarker", "decide", "installGl", "installEgl",
           "startPolicies", "applyAutoMode", "enabled"}

(* Types, and that the counters stay within what they are compared with. *)
TypeOK ==
  /\ marker \in Markers /\ config \in Config
  /\ phase \in Phases
  /\ mBegan \in BOOLEAN /\ mSafeMode \in BOOLEAN /\ mRetired \in BOOLEAN
  /\ mConsecutiveFailures \in Nat
  /\ patched \in BOOLEAN /\ glInstalled \in BOOLEAN /\ hooksOn \in BOOLEAN
  /\ eglInstalled \in BOOLEAN /\ callback \in BOOLEAN /\ swapped \in BOOLEAN
  /\ frames \in 0 .. StableFrames
  /\ mRunning \in BOOLEAN /\ mActive \in BOOLEAN /\ mAutoModeEnabled \in BOOLEAN
  /\ rendering \in BOOLEAN
  /\ uptime \in 0 .. StableUptime /\ presented \in 0 .. StableFrames + 1
  /\ streak \in 0 .. MaxStreak /\ faulty \in BOOLEAN

(* "On the next load, a marker that is still open means the previous launch *)
(* never got that far": a launch is in safe mode exactly when the last one  *)
(* that began ended unproven, and it is told how many such there were.  A   *)
(* write of the marker that is lost spoils this only until a launch is      *)
(* retired and leaves a marker that reads clean.                            *)
SafeModeAfterCrash == mBegan /\ ~faulty =>
  /\ mSafeMode <=> streak > 0
  /\ ~mRetired => mConsecutiveFailures = streak

(* A launch that is watched by the sensor is proven if the game keeps       *)
(* presenting frames for as long as it takes.                               *)
LaunchProves ==
  (phase = "enabled" /\ mBegan /\ ~mSafeMode /\ callback) ~> (mRetired \/ phase # "enabled")

(* "Once the frame loop has been stable for a few seconds, the marker is    *)
(* retired": of any launch, whatever its mode and its configuration.        *)
StableLoopRetires == phase = "enabled" /\ mBegan /\ presented > StableFrames => mRetired

(* Of the launches the code does retire: those in normal mode, watched.     *)
WatchedLoopRetires ==
  phase = "enabled" /\ mBegan /\ ~mSafeMode /\ callback /\ presented > StableFrames => mRetired

(* What that comes to over many launches: from the first launch that ends unproven *)
(* on, every one is in safe mode and none is retired, however well it runs; only a   *)
(* write of the marker that is lost brings the normal mode back.                     *)
OnlyLostWriteRecovers == [][streak > 0 /\ streak' = 0 => faulty]_vars

(* "SafeMode: ... Run with every hook off": no call is dropped, no priority  *)
(* raised, no hint given once the mod is enabled.                           *)
SafeModeInert == phase = "enabled" /\ mSafeMode =>
  ~(patched /\ hooksOn) /\ ~mRunning /\ ~mActive
=============================================================================
