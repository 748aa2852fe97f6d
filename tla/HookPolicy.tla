------------------------------- MODULE HookPolicy -------------------------------
(***************************************************************************)
(* The auto mode (AutoPolicy.h and the frame callback of FpsOptoPro.cpp):   *)
(* which of the installed hooks may drop calls.  The render thread feeds    *)
(* the telemetry and the policy once per frame, sheds every hook when the   *)
(* frame is GPU-bound and otherwise reviews each; the menu's thread changes  *)
(* the mode and states it again.  AutoMode is not guarded: each of its loads *)
(* and stores is a step.  A loop over all hooks is one step, the loop over   *)
(* the hooks and the one over their mirror are two.  Calls of other threads  *)
(* than the render thread wait in batches before they are counted.           *)
(***************************************************************************)
EXTENDS Integers, Sequences

CONSTANTS
  Hooks,
  GpuLoads,            \* the GPU loads a frame may come with, in percent
  WarmFrames,          \* frames after which the balance counts as known
  BoundVotes, MaxVotes,\* kBoundVotes and kMaxVotes of the telemetry
  BoundHoldFrames,     \* kBoundHoldFrames
  MinCalls, LowYield, Revive,  \* kMinCallsToJudge, kLowYieldDropRate, kReviveDropRate
  MaxCalls             \* bound on the calls of a hook

ASSUME PolicyAssumption ==
  /\ WarmFrames \in Nat /\ BoundVotes \in Nat \ {0} /\ MaxVotes \in Nat /\ MaxVotes >= BoundVotes
  /\ BoundHoldFrames \in Nat \ {0}
  /\ MinCalls \in Nat /\ MaxCalls \in Nat
  /\ LowYield \in 0 .. 100 /\ Revive \in LowYield .. 100

VARIABLES
  \* FrameAccumulator: GPU time ever measured, a verdict on the GPU ever possible,
  \* votes for it, frames (up to one more than WarmFrames); the load of the last frame
  measured, mGpuTiming, mGpuVotes, mFrames, gpuLoad,
  \* AutoMode, the hold that update() is about to store, and the flag that mirrors
  \* the configuration
  mGpuBound, mHoldFrames, held, mAutoModeEnabled,
  \* GlInterceptor::mHookEnabled, the policy's copy of it
  hookEnabled, mHookEnabledState,
  \* GlCounters: the shared totals, and what the other threads' batches still hold
  calls, suppressed, batchCalls, batchDrops,
  \* where the frame callback and applyAutoMode() are
  pcF, pcM,
  \* history: the verdicts of the last judged frames since the mode was last stated;
  \* whether the menu and the frame callback have been at it at the same time since a
  \* change of the menu last began between two frames; the drops that were still in a
  \* batch when a review switched the hook off
  recent, overlapped, owed

telemetry == <<measured, mGpuTiming, mGpuVotes, mFrames, gpuLoad>>
traffic   == <<calls, suppressed, batchCalls, batchDrops>>
mode      == <<mGpuBound, mHoldFrames>>
switches  == <<hookEnabled, mHookEnabledState>>
vars == <<telemetry, mode, held, mAutoModeEnabled, switches, traffic, pcF, pcM,
          recent, overlapped, owed>>

Least(a, b) == IF a <= b THEN a ELSE b
All(value)  == [h \in Hooks |-> value]

-----------------------------------------------------------------------------
(* FrameAccumulator::push and gpuBound.  Votes are only ever added. *)
kGpuBoundLoad == 85
heavy(load) == load > kGpuBoundLoad

votesFor(s) ==
  IF s.gpuMeasured
  THEN (IF s.gpuOverran THEN 2 ELSE 0) + (IF heavy(s.gpuLoad) THEN 1 ELSE 0)
  ELSE IF s.gpuOverran THEN 2 ELSE 0

push(s) ==
  /\ measured' = (measured \/ s.gpuMeasured)
  /\ mGpuTiming' = (mGpuTiming \/ s.gpuMeasured \/ s.gpuOverran)
  /\ mGpuVotes' = Least(mGpuVotes + votesFor(s), MaxVotes)
  /\ mFrames' = Least(mFrames + 1, WarmFrames + 1)
  /\ gpuLoad' = s.gpuLoad

gpuBound == mGpuVotes >= BoundVotes \/ (mGpuTiming /\ heavy(gpuLoad))

(* A frame: the smoothed GPU load is zero until the GPU was first measured. *)
Samples ==
  [gpuMeasured : BOOLEAN, gpuOverran : BOOLEAN, paced : BOOLEAN, gpuLoad : GpuLoads]
Possible(s) == s.gpuLoad > 0 => measured \/ s.gpuMeasured

(* The frame callback up to the policy: a frame is judged once enough of them *)
(* are known, unless it is paced.                                            *)
Judged(s) == mFrames' > WarmFrames /\ ~s.paced

onFrame(s) ==
  /\ pcF = "idle"
  /\ Possible(s)
  /\ push(s)
  /\ \/ ~mAutoModeEnabled /\ UNCHANGED <<pcF, recent>>
     \/ mAutoModeEnabled /\ ~Judged(s) /\ pcF' = "review" /\ UNCHANGED recent
     \/ /\ mAutoModeEnabled /\ Judged(s) /\ pcF' = "compare"
        /\ recent' = IF Len(recent) < BoundHoldFrames THEN Append(recent, gpuBound')
                     ELSE Append(Tail(recent), gpuBound')
  /\ overlapped' = (overlapped \/ (pcM # "idle" /\ mAutoModeEnabled))
  /\ UNCHANGED <<mode, held, mAutoModeEnabled, switches, traffic, pcM, owed>>

(* AutoMode::update, access by access.  The verdict on the frame is an argument. *)
inUpdate ==
  UNCHANGED <<telemetry, mAutoModeEnabled, switches, traffic, pcM, recent, overlapped, owed>>

(* Slip: a frame that agrees does not end the hold. *)
compareKeepsHold ==
  /\ pcF = "compare"
  /\ pcF' = IF gpuBound = mGpuBound THEN "review" ELSE "load"
  /\ inUpdate /\ UNCHANGED <<mode, held>>

compare ==
  /\ pcF = "compare"
  /\ \/ gpuBound = mGpuBound /\ mHoldFrames' = 0 /\ pcF' = "review"
     \/ gpuBound # mGpuBound /\ UNCHANGED mHoldFrames /\ pcF' = "load"
  /\ inUpdate /\ UNCHANGED <<mGpuBound, held>>

loadHold ==
  /\ pcF = "load"
  /\ held' = mHoldFrames + 1
  /\ pcF' = "store"
  /\ inUpdate /\ UNCHANGED mode

(* Slip: the hold lasts a frame longer. *)
storeHoldLonger ==
  /\ pcF = "store"
  /\ mHoldFrames' = held
  /\ pcF' = IF held <= BoundHoldFrames THEN "review" ELSE "clear"
  /\ inUpdate /\ UNCHANGED <<mGpuBound, held>>

storeHold ==
  /\ pcF = "store"
  /\ mHoldFrames' = held
  /\ pcF' = IF held < BoundHoldFrames THEN "review" ELSE "clear"
  /\ inUpdate /\ UNCHANGED <<mGpuBound, held>>

clearHold ==
  /\ pcF = "clear"
  /\ mHoldFrames' = 0
  /\ pcF' = "commit"
  /\ inUpdate /\ UNCHANGED <<mGpuBound, held>>

commit ==
  /\ pcF = "commit"
  /\ mGpuBound' = gpuBound
  /\ pcF' = "answer"
  /\ inUpdate /\ UNCHANGED <<mHoldFrames, held>>

(* The action is chosen by the member, not by the argument. *)
answer ==
  /\ pcF = "answer"
  /\ pcF' = IF mGpuBound THEN "shed" ELSE "restore"
  /\ inUpdate /\ UNCHANGED <<mode, held>>

update == compare \/ loadHold \/ storeHold \/ clearHold \/ commit \/ answer

(* ShedCpuFeatures and RestoreCpuFeatures: the hooks, then their mirror. *)
shedOrRestore ==
  /\ pcF \in {"shed", "restore"}
  /\ hookEnabled' = All(pcF = "restore")
  /\ pcF' = IF pcF = "restore" THEN "mirrorOn" ELSE "mirrorOff"
  /\ UNCHANGED <<telemetry, mode, held, mAutoModeEnabled, mHookEnabledState, traffic, pcM,
                 recent, overlapped, owed>>

mirror ==
  /\ pcF \in {"mirrorOn", "mirrorOff"}
  /\ mHookEnabledState' = All(pcF = "mirrorOn")
  /\ pcF' = "review"
  /\ UNCHANGED <<telemetry, mode, held, mAutoModeEnabled, hookEnabled, traffic, pcM,
                 recent, overlapped, owed>>

(* Slip: the two thresholds change places. *)
evaluateSwapped(total, dropped, enabled) ==
  IF total < MinCalls THEN enabled
  ELSE 100 * dropped >= (IF enabled THEN Revive ELSE LowYield) * total

(* HookYieldJudge::evaluate. *)
evaluate(total, dropped, enabled) ==
  IF total < MinCalls THEN enabled
  ELSE 100 * dropped >= (IF enabled THEN LowYield ELSE Revive) * total

(* Slip: the copy the policy keeps is not brought up to date. *)
reviewHooksUnmirrored ==
  /\ pcF = "review" /\ ~mGpuBound
  /\ hookEnabled' = [h \in Hooks |->
                       evaluate(calls[h], suppressed[h], mHookEnabledState[h])]
  /\ pcF' = "idle"
  /\ UNCHANGED <<telemetry, mode, held, mAutoModeEnabled, mHookEnabledState, traffic, pcM,
                 recent, overlapped, owed>>

(* Every hook is judged on everything that was ever counted for it. *)
reviewHooks ==
  /\ pcF = "review" /\ ~mGpuBound
  /\ LET next == [h \in Hooks |-> evaluate(calls[h], suppressed[h], mHookEnabledState[h])]
     IN /\ hookEnabled' = [h \in Hooks |-> IF next[h] = mHookEnabledState[h] THEN hookEnabled[h]
                                           ELSE next[h]]
        /\ mHookEnabledState' = next
        /\ owed' = [h \in Hooks |-> IF mHookEnabledState[h] /\ ~next[h] THEN batchDrops[h]
                                    ELSE owed[h]]
  /\ pcF' = "idle"
  /\ UNCHANGED <<telemetry, mode, held, mAutoModeEnabled, traffic, pcM, recent, overlapped>>

(* The policy has shed the hooks, or the next review is not due. *)
noReview ==
  /\ pcF = "review"
  /\ pcF' = "idle"
  /\ UNCHANGED <<telemetry, mode, held, mAutoModeEnabled, switches, traffic, pcM,
                 recent, overlapped, owed>>

-----------------------------------------------------------------------------
(* The menu: the flag, then applyAutoMode().  Only a mode that is on is     *)
(* stated to the hooks.                                                     *)
handleConfigChanged(enabled) ==
  /\ pcM = "idle"
  /\ mAutoModeEnabled' = enabled
  /\ pcM' = "reset"
  /\ overlapped' = (pcF # "idle")
  /\ UNCHANGED <<telemetry, mode, held, switches, traffic, pcF, recent, owed>>

(* AutoMode::reset: two plain stores, which another thread may see in either order. *)
reset ==
  /\ \/ pcM \in {"reset", "resetBound"} /\ mGpuBound' = FALSE /\ UNCHANGED mHoldFrames
     \/ pcM \in {"reset", "resetHold"} /\ mHoldFrames' = 0 /\ UNCHANGED mGpuBound
  /\ \/ /\ pcM = "reset" /\ UNCHANGED recent
        /\ pcM' \in {"resetHold", "resetBound"}
        /\ pcM' = "resetHold" => ~mGpuBound'
        /\ pcM' = "resetBound" => mHoldFrames' = 0
     \/ /\ pcM # "reset" /\ recent' = <<>>
        /\ pcM' = IF mAutoModeEnabled THEN "hooks" ELSE "idle"
  /\ UNCHANGED <<telemetry, held, mAutoModeEnabled, switches, traffic, pcF, overlapped, owed>>

applyAutoMode ==
  /\ \/ /\ pcM = "hooks" /\ pcM' = "mirror"
        /\ hookEnabled' = All(TRUE) /\ UNCHANGED mHookEnabledState
     \/ /\ pcM = "mirror" /\ pcM' = "idle"
        /\ mHookEnabledState' = All(TRUE) /\ UNCHANGED hookEnabled
  /\ UNCHANGED <<telemetry, mode, held, mAutoModeEnabled, traffic, pcF, recent, overlapped, owed>>

-----------------------------------------------------------------------------
(* Filtered calls: a hook that may not drop forwards, and counts.  The render *)
(* thread publishes its batch before the policy reads the totals.             *)
May(h) == calls[h] + batchCalls[h] < MaxCalls
drops(h, isRedundant) == IF isRedundant /\ hookEnabled[h] THEN 1 ELSE 0
counting ==
  UNCHANGED <<telemetry, mode, held, mAutoModeEnabled, switches, pcF, pcM,
              recent, overlapped, owed>>

noteCall(h, isRedundant) ==
  /\ pcF = "idle" /\ May(h)
  /\ calls' = [calls EXCEPT ![h] = @ + 1]
  /\ suppressed' = [suppressed EXCEPT ![h] = @ + drops(h, isRedundant)]
  /\ UNCHANGED <<batchCalls, batchDrops>> /\ counting

(* A call of another thread, from its decision on, at any moment of the frame. *)
noteElsewhere(h, isRedundant) ==
  /\ May(h)
  /\ batchCalls' = [batchCalls EXCEPT ![h] = @ + 1]
  /\ batchDrops' = [batchDrops EXCEPT ![h] = @ + drops(h, isRedundant)]
  /\ UNCHANGED <<calls, suppressed>> /\ counting

(* A batch is folded counter by counter, and read so: any part of what the   *)
(* batches hold may be in the totals that the policy sees, and any part out.   *)
fold(h, n, d) ==
  /\ n <= batchCalls[h] /\ d <= batchDrops[h]
  /\ calls' = [calls EXCEPT ![h] = @ + n] /\ batchCalls' = [batchCalls EXCEPT ![h] = @ - n]
  /\ suppressed' = [suppressed EXCEPT ![h] = @ + d]
  /\ batchDrops' = [batchDrops EXCEPT ![h] = @ - d]
  /\ counting

-----------------------------------------------------------------------------
(* enable() has installed the hooks and is about to state the mode. *)
Init ==
  /\ measured = FALSE /\ mGpuTiming = FALSE /\ mGpuVotes = 0 /\ mFrames = 0 /\ gpuLoad = 0
  /\ mGpuBound = FALSE /\ mHoldFrames = 0 /\ held = 0 /\ mAutoModeEnabled \in BOOLEAN
  /\ hookEnabled = All(TRUE) /\ mHookEnabledState = All(FALSE)
  /\ calls = All(0) /\ suppressed = All(0) /\ batchCalls = All(0) /\ batchDrops = All(0)
  /\ pcF = "idle" /\ pcM = "reset"
  /\ recent = <<>> /\ overlapped = FALSE /\ owed = All(0)

Next ==
  \/ \E s \in Samples : onFrame(s)
  \/ update
  \/ shedOrRestore
  \/ mirror
  \/ reviewHooks
  \/ noReview
  \/ \E enabled \in BOOLEAN : handleConfigChanged(enabled)
  \/ reset
  \/ applyAutoMode
  \/ \E h \in Hooks, isRedundant \in BOOLEAN :
       noteCall(h, isRedundant) \/ noteElsewhere(h, isRedundant)
  \/ \E h \in Hooks, n, d \in 0 .. MaxCalls : fold(h, n, d)

Spec == Init /\ [][Next]_vars

-----------------------------------------------------------------------------
(* Types; the hold has the length that acts on it only where it is acted on. *)
TypeOK ==
  /\ measured \in BOOLEAN /\ mGpuTiming \in BOOLEAN
  /\ mGpuVotes \in 0 .. MaxVotes /\ mFrames \in 0 .. WarmFrames + 1 /\ gpuLoad \in GpuLoads \cup {0}
  /\ mGpuBound \in BOOLEAN /\ held \in 0 .. BoundHoldFrames
  /\ mHoldFrames \in 0 .. BoundHoldFrames /\ (mHoldFrames = BoundHoldFrames => pcF = "clear")
  /\ mAutoModeEnabled \in BOOLEAN
  /\ hookEnabled \in [Hooks -> BOOLEAN] /\ mHookEnabledState \in [Hooks -> BOOLEAN]
  /\ \A c \in {calls, suppressed, batchCalls, batchDrops, owed} : c \in [Hooks -> 0 .. MaxCalls]
  /\ pcF \in {"idle", "compare", "load", "store", "clear", "commit", "answer", "shed", "restore",
              "mirrorOn", "mirrorOff", "review"}
  /\ pcM \in {"idle", "reset", "resetHold", "resetBound", "hooks", "mirror"}
  /\ recent \in Seq(BOOLEAN) /\ Len(recent) <= BoundHoldFrames /\ overlapped \in BOOLEAN

Quiet == pcF = "idle" /\ pcM = "idle"

(* The policy knows what it did: between frames and menu changes the copy it *)
(* keeps is what the hooks do, and while it has shed them all are off ("while *)
(* shed ... every hook is deliberately off"), as long as the two took turns.  *)
(* Where they did not, the menu's next change sets it right, if that one does  *)
(* not fall into a frame again.                                               *)
MirrorHolds == Quiet /\ mAutoModeEnabled /\ ~overlapped =>
  /\ hookEnabled = mHookEnabledState
  /\ mGpuBound => hookEnabled = All(FALSE)

(* "Returns an action only when the new state has been the same for          *)
(* kBoundHoldFrames frames": of those that are judged, since the mode was last *)
(* stated, and as long as the menu and the frames took turns.  A reset between *)
(* two accesses of update() can leave a hold it has counted behind.           *)
HoldRespected ==
  [][commit /\ mGpuBound' # mGpuBound /\ ~overlapped =>
       /\ Len(recent) = BoundHoldFrames
       /\ \A i \in 1 .. BoundHoldFrames : recent[i] = mGpuBound']_vars

(* And then it does act: between two frames the last kBoundHoldFrames that were *)
(* judged never all say otherwise than the policy does.                        *)
ActsInTime == Quiet /\ ~overlapped /\ Len(recent) = BoundHoldFrames =>
  \E i \in 1 .. BoundHoldFrames : recent[i] = mGpuBound

(* "A hook sitting near the threshold stays wherever it is rather than        *)
(* chattering": a review that switches a hook back on does so on drops that    *)
(* were made before it was switched off and counted after; without them its    *)
(* rate is still below the threshold that had it switched off.                 *)
NoChatter ==
  [][reviewHooks /\ ~overlapped =>
       \A h \in Hooks : hookEnabled'[h] /\ ~hookEnabled[h] =>
         100 * (suppressed[h] - owed[h]) < LowYield * calls[h]]_vars
=============================================================================
