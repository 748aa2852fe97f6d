---------------------------- MODULE HookPolicyProofs ----------------------------
(***************************************************************************)
(* The auto mode, for every set of hooks, every hold and every threshold:   *)
(* its types, the copy it keeps of the hooks, and what it never does.       *)
(***************************************************************************)
EXTENDS HookPolicy, TLAPS

(* No hook has dropped more calls than it had, counted or not. *)
Budget == \A h \in Hooks :
  /\ calls[h] + batchCalls[h] <= MaxCalls
  /\ suppressed[h] + batchDrops[h] <= calls[h] + batchCalls[h]

TInv == TypeOK /\ Budget

LEMMA VotesBounded ==
  ASSUME TypeOK, NEW s \in Samples, push(s)
  PROVE  mGpuVotes' \in 0 .. MaxVotes
<1>1. votesFor(s) \in Nat
  BY DEF votesFor
<1> QED BY <1>1, PolicyAssumption DEF push, Least, TypeOK

LEMMA RecentGrows ==
  ASSUME TypeOK, NEW verdict \in BOOLEAN,
         recent' = IF Len(recent) < BoundHoldFrames THEN Append(recent, verdict)
                   ELSE Append(Tail(recent), verdict)
  PROVE  recent' \in Seq(BOOLEAN) /\ Len(recent') <= BoundHoldFrames
<1>1. recent \in Seq(BOOLEAN) /\ Len(recent) \in Nat /\ Len(recent) <= BoundHoldFrames
  BY DEF TypeOK
<1>2. CASE Len(recent) < BoundHoldFrames
  <2>1. Append(recent, verdict) \in Seq(BOOLEAN) /\ Len(Append(recent, verdict)) = Len(recent) + 1
    BY <1>1
  <2> QED BY <1>1, <1>2, <2>1, PolicyAssumption
<1>3. CASE ~(Len(recent) < BoundHoldFrames)
  <2>1. recent # <<>> /\ Len(recent) = BoundHoldFrames
    BY <1>1, <1>3, PolicyAssumption
  <2>2. Tail(recent) \in Seq(BOOLEAN) /\ Len(Tail(recent)) = Len(recent) - 1
    BY <1>1, <2>1
  <2>3. /\ Append(Tail(recent), verdict) \in Seq(BOOLEAN)
        /\ Len(Append(Tail(recent), verdict)) = Len(Tail(recent)) + 1
    BY <2>2
  <2> QED BY <1>1, <1>3, <2>1, <2>2, <2>3, PolicyAssumption
<1> QED BY <1>2, <1>3

LEMMA EvaluateType ==
  ASSUME NEW total \in Nat, NEW dropped \in Nat, NEW enabled \in BOOLEAN
  PROVE  evaluate(total, dropped, enabled) \in BOOLEAN
<1>1. CASE total < MinCalls
  BY <1>1 DEF evaluate
<1>2. CASE ~(total < MinCalls)
  <2> DEFINE yields == 100 * dropped >= (IF enabled THEN LowYield ELSE Revive) * total
  <2>1. yields \in BOOLEAN
    OBVIOUS
  <2>2. evaluate(total, dropped, enabled) = yields
    BY <1>2 DEF evaluate
  <2> HIDE DEF yields
  <2> QED BY <2>1, <2>2
<1> QED BY <1>1, <1>2

LEMMA GpuBoundIsBoolean == gpuBound \in BOOLEAN /\ (UNCHANGED telemetry => gpuBound' = gpuBound)
<1>1. gpuBound \in BOOLEAN
  BY Zenon DEF gpuBound
<1>2. UNCHANGED telemetry => gpuBound' = gpuBound
  BY DEF gpuBound, telemetry, heavy
<1> QED BY <1>1, <1>2

(* What a filtered call adds: one call, and a drop or none. *)
LEMMA DropType ==
  ASSUME NEW h \in Hooks, NEW isRedundant \in BOOLEAN
  PROVE  drops(h, isRedundant) \in {0, 1}
BY DEF drops

LEMMA TrafficTyped ==
  ASSUME TInv, NEW h \in Hooks, NEW isRedundant \in BOOLEAN, NEW n \in 0 .. MaxCalls,
         NEW d \in 0 .. MaxCalls,
         noteCall(h, isRedundant) \/ noteElsewhere(h, isRedundant) \/ fold(h, n, d)
  PROVE  /\ \A c \in {calls, suppressed, batchCalls, batchDrops}' : c \in [Hooks -> 0 .. MaxCalls]
         /\ Budget'
<1> DEFINE one == drops(h, isRedundant)
<1>1. one \in {0, 1}
  BY DropType
<1>2. /\ calls \in [Hooks -> 0 .. MaxCalls] /\ suppressed \in [Hooks -> 0 .. MaxCalls]
      /\ batchCalls \in [Hooks -> 0 .. MaxCalls] /\ batchDrops \in [Hooks -> 0 .. MaxCalls]
      /\ MaxCalls \in Nat /\ Budget
  BY PolicyAssumption DEF TInv, TypeOK
<1>3. CASE noteCall(h, isRedundant)
  <2>1. /\ calls' = [calls EXCEPT ![h] = @ + 1] /\ suppressed' = [suppressed EXCEPT ![h] = @ + one]
        /\ batchCalls' = batchCalls /\ batchDrops' = batchDrops /\ calls[h] + batchCalls[h] < MaxCalls
    BY <1>3 DEF noteCall, May
  <2> HIDE DEF one
  <2> QED BY <1>1, <1>2, <2>1 DEF Budget
<1>4. CASE noteElsewhere(h, isRedundant)
  <2>1. /\ batchCalls' = [batchCalls EXCEPT ![h] = @ + 1]
        /\ batchDrops' = [batchDrops EXCEPT ![h] = @ + one]
        /\ calls' = calls /\ suppressed' = suppressed /\ calls[h] + batchCalls[h] < MaxCalls
    BY <1>4 DEF noteElsewhere, May
  <2> HIDE DEF one
  <2> QED BY <1>1, <1>2, <2>1 DEF Budget
<1>5. CASE fold(h, n, d)
  <2>1. /\ calls' = [calls EXCEPT ![h] = @ + n] /\ batchCalls' = [batchCalls EXCEPT ![h] = @ - n]
        /\ suppressed' = [suppressed EXCEPT ![h] = @ + d]
        /\ batchDrops' = [batchDrops EXCEPT ![h] = @ - d]
        /\ n <= batchCalls[h] /\ d <= batchDrops[h]
    BY <1>5 DEF fold
  <2> QED BY <1>2, <2>1 DEF Budget
<1> QED BY <1>3, <1>4, <1>5

LEMMA TInvStep == TInv /\ [Next]_vars => TInv'
<1> SUFFICES ASSUME TInv, [Next]_vars PROVE TInv'
  OBVIOUS
<1> TypeOK
  BY DEF TInv
<1> USE PolicyAssumption DEF telemetry, traffic, mode, switches, All
<1>1. ASSUME NEW s \in Samples, onFrame(s) PROVE TInv'
  <2>0. overlapped' \in BOOLEAN
    BY <1>1, Zenon DEF onFrame, TypeOK
  <2>1. mGpuVotes' \in 0 .. MaxVotes
    BY <1>1, VotesBounded DEF onFrame
  <2>2. measured' \in BOOLEAN /\ mGpuTiming' \in BOOLEAN
    BY <1>1, Zenon DEF onFrame, push, TypeOK
  <2>3. mFrames' \in 0 .. WarmFrames + 1 /\ gpuLoad' \in GpuLoads \cup {0}
    BY <1>1 DEF onFrame, push, Least, Samples, TypeOK
  <2>4. recent' \in Seq(BOOLEAN) /\ Len(recent') <= BoundHoldFrames
    <3> DEFINE verdict == gpuBound'
    <3>1. verdict \in BOOLEAN
      BY Zenon DEF gpuBound
    <3>2. \/ recent' = recent
          \/ recent' = IF Len(recent) < BoundHoldFrames THEN Append(recent, verdict)
                       ELSE Append(Tail(recent), verdict)
      BY <1>1 DEF onFrame
    <3> HIDE DEF verdict
    <3>3. recent \in Seq(BOOLEAN) /\ Len(recent) <= BoundHoldFrames
      BY DEF TypeOK
    <3> QED BY <3>1, <3>2, <3>3, RecentGrows
  <2>5. pcF = "idle" /\ pcF' \in {"idle", "review", "compare"}
    BY <1>1 DEF onFrame
  <2>6. UNCHANGED <<mode, held, mAutoModeEnabled, switches, traffic, pcM, owed>>
    BY <1>1 DEF onFrame
  <2> QED BY <2>0, <2>1, <2>2, <2>3, <2>4, <2>5, <2>6 DEF TInv, TypeOK, Budget
<1>2. CASE update
  <2>1. mGpuBound' \in BOOLEAN
    BY <1>2, GpuBoundIsBoolean, Zenon
      DEF update, compare, loadHold, storeHold, clearHold, commit, answer, TypeOK
  <2>2. /\ mHoldFrames' \in 0 .. BoundHoldFrames /\ held' \in 0 .. BoundHoldFrames
        /\ (mHoldFrames' = BoundHoldFrames => pcF' = "clear")
        /\ pcF' \in {"review", "load", "store", "clear", "commit", "answer", "shed", "restore"}
    BY <1>2 DEF update, compare, loadHold, storeHold, clearHold, commit, answer, TypeOK
  <2>3. inUpdate
    BY <1>2 DEF update, compare, loadHold, storeHold, clearHold, commit, answer
  <2> QED BY <2>1, <2>2, <2>3 DEF inUpdate, TInv, TypeOK, Budget
<1>3. CASE shedOrRestore
  <2>1. hookEnabled' \in [Hooks -> BOOLEAN]
    BY <1>3 DEF shedOrRestore
  <2> QED BY <1>3, <2>1 DEF shedOrRestore, TInv, TypeOK, Budget
<1>4. CASE mirror
  <2>1. mHookEnabledState' \in [Hooks -> BOOLEAN]
    BY <1>4 DEF mirror
  <2> QED BY <1>4, <2>1 DEF mirror, TInv, TypeOK, Budget
<1>5. CASE reviewHooks
  <2> DEFINE next == [h \in Hooks |-> evaluate(calls[h], suppressed[h], mHookEnabledState[h])]
  <2>1. next \in [Hooks -> BOOLEAN]
    BY EvaluateType DEF TypeOK
  <2> HIDE DEF next
  <2>2. /\ mHookEnabledState' = next
        /\ hookEnabled' = [h \in Hooks |-> IF next[h] = mHookEnabledState[h] THEN hookEnabled[h]
                                           ELSE next[h]]
        /\ owed' = [h \in Hooks |-> IF mHookEnabledState[h] /\ ~next[h] THEN batchDrops[h]
                                    ELSE owed[h]]
    BY <1>5 DEF reviewHooks, next
  <2>3. hookEnabled' \in [Hooks -> BOOLEAN] /\ owed' \in [Hooks -> 0 .. MaxCalls]
    BY <2>1, <2>2 DEF TypeOK
  <2> QED BY <1>5, <2>1, <2>2, <2>3 DEF reviewHooks, TInv, TypeOK, Budget
<1>6. CASE noReview
  BY <1>6 DEF noReview, TInv, TypeOK, Budget
<1>7. ASSUME NEW enabled \in BOOLEAN, handleConfigChanged(enabled) PROVE TInv'
  <2>1. overlapped' \in BOOLEAN
    BY <1>7, Zenon DEF handleConfigChanged, TypeOK
  <2> QED BY <1>7, <2>1 DEF handleConfigChanged, TInv, TypeOK, Budget
<1>8. CASE reset
  <2>1. mGpuBound' \in BOOLEAN
    BY <1>8, Zenon DEF reset, TypeOK
  <2>2. /\ mHoldFrames' \in {0, mHoldFrames}
        /\ pcM' \in {"resetHold", "resetBound", "hooks", "idle"}
        /\ recent' \in {recent, <<>>}
    BY <1>8 DEF reset
  <2>3. recent' \in Seq(BOOLEAN) /\ Len(recent') <= BoundHoldFrames
    <3>1. <<>> \in Seq(BOOLEAN) /\ Len(<<>>) = 0
      OBVIOUS
    <3>2. recent \in Seq(BOOLEAN) /\ Len(recent) <= BoundHoldFrames
      BY DEF TypeOK
    <3>3. CASE recent' = recent
      BY <3>2, <3>3
    <3>4. CASE recent' = <<>>
      BY <3>1, <3>4
    <3> QED BY <2>2, <3>3, <3>4
  <2> QED BY <1>8, <2>1, <2>2, <2>3 DEF reset, TInv, TypeOK, Budget
<1>9. CASE applyAutoMode
  BY <1>9 DEF applyAutoMode, TInv, TypeOK, Budget
<1>10. ASSUME NEW h \in Hooks, NEW isRedundant \in BOOLEAN, NEW n \in 0 .. MaxCalls,
              NEW d \in 0 .. MaxCalls,
              noteCall(h, isRedundant) \/ noteElsewhere(h, isRedundant) \/ fold(h, n, d)
       PROVE  TInv'
  <2>1. counting
    BY <1>10 DEF noteCall, noteElsewhere, fold
  <2> QED BY <1>10, <2>1, TrafficTyped DEF counting, TInv, TypeOK
<1>11. CASE UNCHANGED vars
  BY <1>11 DEF vars, TInv, TypeOK, Budget
<1>12. 0 \in 0 .. MaxCalls
  OBVIOUS
<1> QED BY <1>1, <1>2, <1>3, <1>4, <1>5, <1>6, <1>7, <1>8, <1>9, <1>10, <1>11, <1>12 DEF Next

LEMMA TInvInit == Init => TInv
<1> SUFFICES ASSUME Init PROVE TInv
  OBVIOUS
<1> USE PolicyAssumption DEF Init, All
<1>1. recent \in Seq(BOOLEAN) /\ Len(recent) <= BoundHoldFrames
  OBVIOUS
<1>2. /\ \A c \in {calls, suppressed, batchCalls, batchDrops, owed} : c \in [Hooks -> 0 .. MaxCalls]
      /\ hookEnabled \in [Hooks -> BOOLEAN] /\ mHookEnabledState \in [Hooks -> BOOLEAN]
      /\ Budget
  BY DEF Budget
<1>3. /\ measured \in BOOLEAN /\ mGpuTiming \in BOOLEAN /\ mGpuBound \in BOOLEAN
      /\ overlapped \in BOOLEAN
  BY Zenon
<1> QED BY <1>1, <1>2, <1>3 DEF TInv, TypeOK

(* Types: the hold is as long as the one that acts only where it is acted on. *)
THEOREM PolicyTyped == Spec => []TypeOK
<1>1. TInv => TypeOK
  BY DEF TInv
<1> QED BY <1>1, TInvInit, TInvStep, PTL DEF Spec

-----------------------------------------------------------------------------
(* Who may be acting, on what: the policy while the mode is on, the menu     *)
(* while nothing is shed.                                                    *)
InTurn ==
  /\ pcF = "idle" \/ pcM = "idle"
  /\ pcF # "idle" => mAutoModeEnabled
  /\ pcF \in {"shed", "mirrorOff"} => mGpuBound
  /\ pcF \in {"restore", "mirrorOn"} => ~mGpuBound
  /\ pcM = "resetHold" => ~mGpuBound
  /\ pcM \in {"hooks", "mirror"} => ~mGpuBound /\ mAutoModeEnabled

(* The hooks where a loop over them is done and the one over the copy is not. *)
HalfWay ==
  /\ pcF = "mirrorOff" => hookEnabled = All(FALSE)
  /\ pcF = "mirrorOn" \/ pcM = "mirror" => hookEnabled = All(TRUE)

(* Where the callback is while it has not changed the verdict it acts on.  *)
Before == {"idle", "compare", "load", "store", "clear", "commit", "review"}

Settled == pcM = "idle" /\ pcF \in Before /\ mAutoModeEnabled =>
  /\ hookEnabled = mHookEnabledState
  /\ mGpuBound => hookEnabled = All(FALSE)

HInv == InTurn /\ HalfWay /\ Settled

LEMMA HInvStep == ~overlapped' /\ HInv /\ [Next]_vars => HInv'
<1> SUFFICES ASSUME ~overlapped', HInv, [Next]_vars PROVE HInv'
  OBVIOUS
<1> USE DEF telemetry, traffic, mode, switches, All, Before
<1>1. ASSUME NEW s \in Samples, onFrame(s) PROVE HInv'
  <2>0. pcM = "idle" \/ ~mAutoModeEnabled
    BY <1>1, Zenon DEF onFrame
  <2>1. /\ pcF = "idle" /\ pcM' = pcM /\ pcF' \in {"idle", "review", "compare"}
        /\ pcF' # "idle" => mAutoModeEnabled
        /\ UNCHANGED <<mGpuBound, mAutoModeEnabled, hookEnabled, mHookEnabledState>>
    BY <1>1 DEF onFrame
  <2> QED BY <2>0, <2>1 DEF HInv, InTurn, HalfWay, Settled
<1>2. CASE update
  <2>1. /\ UNCHANGED <<pcM, mAutoModeEnabled, hookEnabled, mHookEnabledState>>
        /\ pcF \in {"compare", "load", "store", "clear", "commit", "answer"}
        /\ \/ pcF' \in {"load", "store", "clear", "commit", "review"} /\ mGpuBound' = mGpuBound
              /\ pcF \in Before
           \/ pcF' = "answer"
           \/ pcF' = "shed" /\ mGpuBound /\ mGpuBound' = mGpuBound
           \/ pcF' = "restore" /\ ~mGpuBound /\ mGpuBound' = mGpuBound
    BY <1>2 DEF update, inUpdate, compare, loadHold, storeHold, clearHold, commit, answer
  <2>2. pcM = "idle" /\ mAutoModeEnabled
    BY <2>1 DEF HInv, InTurn
  <2> QED BY <2>1, <2>2 DEF HInv, InTurn, HalfWay, Settled
<1>3. CASE shedOrRestore
  BY <1>3 DEF shedOrRestore, HInv, InTurn, HalfWay, Settled
<1>4. CASE mirror
  BY <1>4 DEF mirror, HInv, InTurn, HalfWay, Settled
<1>5. CASE reviewHooks
  <2> DEFINE next == [h \in Hooks |-> evaluate(calls[h], suppressed[h], mHookEnabledState[h])]
  <2>1. /\ pcF = "review" /\ ~mGpuBound /\ pcF' = "idle" /\ mHookEnabledState' = next
        /\ hookEnabled' = [h \in Hooks |-> IF next[h] = mHookEnabledState[h] THEN hookEnabled[h]
                                           ELSE next[h]]
        /\ UNCHANGED <<mGpuBound, mAutoModeEnabled, pcM>>
    BY <1>5 DEF reviewHooks
  <2>2. hookEnabled = mHookEnabledState /\ pcM = "idle"
    BY <2>1 DEF HInv, InTurn, Settled
  <2>3. hookEnabled' = mHookEnabledState'
    <3>1. \A h \in Hooks : (IF next[h] = mHookEnabledState[h] THEN hookEnabled[h] ELSE next[h]) = next[h]
      BY <2>2
    <3> QED BY <2>1, <3>1
  <2> QED BY <2>1, <2>2, <2>3 DEF HInv, InTurn, HalfWay, Settled
<1>6. CASE noReview
  BY <1>6 DEF noReview, HInv, InTurn, HalfWay, Settled
<1>7. ASSUME NEW enabled \in BOOLEAN, handleConfigChanged(enabled) PROVE HInv'
  <2>1. pcF = "idle"
    BY <1>7, Zenon DEF handleConfigChanged
  <2> QED BY <1>7, <2>1 DEF handleConfigChanged, HInv, InTurn, HalfWay, Settled
<1>8. CASE reset
  BY <1>8 DEF reset, HInv, InTurn, HalfWay, Settled
<1>9. CASE applyAutoMode
  BY <1>9 DEF applyAutoMode, HInv, InTurn, HalfWay, Settled
<1>10. ASSUME counting PROVE HInv'
  BY <1>10 DEF counting, HInv, InTurn, HalfWay, Settled
<1>11. CASE UNCHANGED vars
  BY <1>11 DEF vars, HInv, InTurn, HalfWay, Settled
<1> QED BY <1>1, <1>2, <1>3, <1>4, <1>5, <1>6, <1>7, <1>8, <1>9, <1>10, <1>11
  DEF Next, noteCall, noteElsewhere, fold

(* Only a change of the menu that begins between two frames makes up for an   *)
(* overlap: it states the mode to every hook and to the copy.                 *)
LEMMA OverlapEnds ==
  ASSUME [Next]_vars, overlapped, ~overlapped'
  PROVE  pcF' = "idle" /\ pcM' = "reset"
<1>1. ASSUME NEW s \in Samples, onFrame(s) PROVE FALSE
  BY <1>1, Zenon DEF onFrame
<1>2. ASSUME NEW enabled \in BOOLEAN, handleConfigChanged(enabled)
      PROVE  pcF' = "idle" /\ pcM' = "reset"
  <2>1. pcF = "idle"
    BY <1>2, Zenon DEF handleConfigChanged
  <2> QED BY <1>2, <2>1 DEF handleConfigChanged
<1>3. ASSUME overlapped' = overlapped PROVE FALSE
  BY <1>3
<1> QED BY <1>1, <1>2, <1>3
  DEF Next, vars, update, compare, loadHold, storeHold, clearHold, commit, answer, inUpdate,
      shedOrRestore, mirror, reviewHooks, noReview, reset, applyAutoMode,
      noteCall, noteElsewhere, fold, counting

LEMMA FreshTurn == pcF' = "idle" /\ pcM' = "reset" => HInv'
BY DEF HInv, InTurn, HalfWay, Settled

(* The policy's copy of the hooks is what they do, and a GPU-bound mode has   *)
(* every one of them off, unless the menu cut into a frame or a frame into it   *)
(* and has not stated the mode between two frames since.                       *)
THEOREM MirrorCorrect == Spec => []MirrorHolds
<1> DEFINE Inv == ~overlapped => HInv
<1>1. Init => Inv
  BY DEF Init, HInv, InTurn, HalfWay, Settled
<1>2. Inv /\ [Next]_vars => Inv'
  BY HInvStep, OverlapEnds, FreshTurn, Zenon
<1>3. Inv => MirrorHolds
  BY DEF HInv, Settled, Before, MirrorHolds, Quiet
<1> QED BY <1>1, <1>2, <1>3, PTL DEF Spec

-----------------------------------------------------------------------------
(* A hook the policy has switched off was below the lower threshold then, and *)
(* still is but for the drops that were in a batch at that moment: it drops    *)
(* nothing more.                                                              *)
StillLow(h) == ~mHookEnabledState[h] =>
  100 * (suppressed[h] + batchDrops[h] - owed[h]) < LowYield * calls[h]

UnderReview == pcM = "idle" /\ pcF \in Before /\ mAutoModeEnabled /\ ~mGpuBound

JInv == UnderReview => \A h \in Hooks : StillLow(h)

LEMMA Scaled ==
  ASSUME NEW a \in Nat, NEW b \in Nat, NEW n \in Nat, a <= b
  PROVE  a * n <= b * n /\ n * a <= n * b
OBVIOUS

(* What a verdict says of the rate it was made on. *)
LEMMA EvaluateSays ==
  ASSUME NEW total \in Nat, NEW dropped \in Nat, NEW enabled \in BOOLEAN
  PROVE  /\ enabled /\ ~evaluate(total, dropped, enabled) => 100 * dropped < LowYield * total
         /\ ~enabled /\ evaluate(total, dropped, enabled) => 100 * dropped >= LowYield * total
<1>1. LowYield \in Nat /\ Revive \in Nat /\ LowYield <= Revive
  BY PolicyAssumption
<1>2. LowYield * total <= Revive * total /\ LowYield * total \in Nat /\ Revive * total \in Nat
  BY <1>1, Scaled
<1>3. CASE enabled
  BY <1>3, <1>2 DEF evaluate
<1>4. CASE ~enabled
  BY <1>4, <1>2 DEF evaluate
<1> QED BY <1>3, <1>4

(* The counters while a hook is off: more calls, and no more drops. *)
LEMMA OffDropsNothing ==
  ASSUME TypeOK, NEW h \in Hooks, NEW isRedundant \in BOOLEAN,
         NEW n \in 0 .. MaxCalls, NEW d \in 0 .. MaxCalls,
         noteCall(h, isRedundant) \/ noteElsewhere(h, isRedundant) \/ fold(h, n, d),
         NEW g \in Hooks, ~hookEnabled[g]
  PROVE  /\ calls'[g] >= calls[g] /\ calls'[g] \in Nat
         /\ suppressed'[g] \in Int /\ batchDrops'[g] \in Int
         /\ suppressed'[g] + batchDrops'[g] = suppressed[g] + batchDrops[g]
<1>1. /\ calls \in [Hooks -> 0 .. MaxCalls] /\ suppressed \in [Hooks -> 0 .. MaxCalls]
      /\ batchDrops \in [Hooks -> 0 .. MaxCalls] /\ MaxCalls \in Nat
  BY PolicyAssumption DEF TypeOK
<1> DEFINE one == drops(h, isRedundant)
<1>2. one \in {0, 1} /\ (g = h => one = 0)
  BY DEF drops
<1>3. CASE noteCall(h, isRedundant)
  <2>1. /\ calls' = [calls EXCEPT ![h] = @ + 1] /\ suppressed' = [suppressed EXCEPT ![h] = @ + one]
        /\ batchDrops' = batchDrops
    BY <1>3 DEF noteCall
  <2> HIDE DEF one
  <2> QED BY <1>1, <1>2, <2>1
<1>4. CASE noteElsewhere(h, isRedundant)
  <2>1. /\ batchDrops' = [batchDrops EXCEPT ![h] = @ + one]
        /\ calls' = calls /\ suppressed' = suppressed
    BY <1>4 DEF noteElsewhere
  <2> HIDE DEF one
  <2> QED BY <1>1, <1>2, <2>1
<1>5. CASE fold(h, n, d)
  <2>1. /\ calls' = [calls EXCEPT ![h] = @ + n] /\ suppressed' = [suppressed EXCEPT ![h] = @ + d]
        /\ batchDrops' = [batchDrops EXCEPT ![h] = @ - d]
    BY <1>5 DEF fold
  <2> QED BY <1>1, <2>1
<1> QED BY <1>3, <1>4, <1>5

LEMMA StillLowStep ==
  ASSUME TypeOK, NEW g \in Hooks, ~mHookEnabledState[g], StillLow(g),
         UNCHANGED <<mHookEnabledState, owed>>, calls'[g] \in Nat, calls'[g] >= calls[g],
         suppressed'[g] \in Int, batchDrops'[g] \in Int,
         suppressed'[g] + batchDrops'[g] = suppressed[g] + batchDrops[g]
  PROVE  StillLow(g)'
<1>1. calls[g] \in Nat /\ owed[g] \in Nat /\ suppressed[g] \in Nat /\ batchDrops[g] \in Nat
      /\ LowYield \in Nat
  BY PolicyAssumption DEF TypeOK
<1>2. LowYield * calls[g] <= LowYield * calls'[g]
  BY <1>1, Scaled
<1> DEFINE before == LowYield * calls[g]
           after  == LowYield * calls'[g]
           stale  == 100 * (suppressed[g] + batchDrops[g] - owed[g])
<1>3. before \in Int /\ after \in Int /\ stale \in Int
  BY <1>1
<1>4. stale < before /\ before <= after
  BY <1>2 DEF StillLow
<1> HIDE DEF before, after, stale
<1>5. stale < after
  BY <1>3, <1>4
<1>6. stale = 100 * (suppressed'[g] + batchDrops'[g] - owed'[g])
  <2>1. /\ owed'[g] = owed[g]
        /\ suppressed'[g] + batchDrops'[g] = suppressed[g] + batchDrops[g]
    OBVIOUS
  <2> QED BY <2>1, <1>1 DEF stale
<1> QED BY <1>5, <1>6 DEF StillLow, after

LEMMA JInvStep == ~overlapped' /\ TypeOK /\ HInv /\ JInv /\ [Next]_vars => JInv'
<1> SUFFICES ASSUME ~overlapped', TypeOK, HInv, JInv, [Next]_vars, UnderReview',
                    NEW g \in Hooks
             PROVE  StillLow(g)'
  BY DEF JInv
<1> USE DEF telemetry, traffic, mode, switches, Before
<1>0. ASSUME UNCHANGED <<mHookEnabledState, traffic, owed>>, UnderReview PROVE StillLow(g)'
  BY <1>0 DEF JInv, StillLow
<1>1. ASSUME NEW s \in Samples, onFrame(s) PROVE StillLow(g)'
  <2>1. pcF = "idle" /\ UNCHANGED <<mGpuBound, mAutoModeEnabled, pcM, mHookEnabledState, traffic, owed>>
    BY <1>1 DEF onFrame
  <2>2. UnderReview
    BY <2>1 DEF UnderReview
  <2> QED BY <1>0, <2>1, <2>2
<1>2. CASE update
  <2>1. /\ UNCHANGED <<mAutoModeEnabled, pcM, mHookEnabledState, traffic, owed>>
        /\ pcF' \notin {"answer", "shed", "restore"} => pcF \in Before /\ mGpuBound' = mGpuBound
    BY <1>2 DEF update, inUpdate, compare, loadHold, storeHold, clearHold, commit, answer
  <2>2. UnderReview
    BY <2>1 DEF UnderReview
  <2> QED BY <1>0, <2>1, <2>2
<1>3. CASE shedOrRestore
  BY <1>3 DEF shedOrRestore, UnderReview
<1>4. CASE mirror
  <2>1. pcF = "mirrorOn"
    BY <1>4 DEF mirror, UnderReview, HInv, InTurn
  <2>2. mHookEnabledState'[g]
    BY <1>4, <2>1 DEF mirror, All
  <2> QED BY <2>2 DEF StillLow
<1>5. CASE reviewHooks
  <2>1. UnderReview /\ UNCHANGED traffic
    BY <1>5 DEF reviewHooks, UnderReview, HInv, InTurn
  <2> DEFINE next == evaluate(calls[g], suppressed[g], mHookEnabledState[g])
  <2>2. /\ mHookEnabledState'[g] = next
        /\ owed'[g] = IF mHookEnabledState[g] /\ ~next THEN batchDrops[g] ELSE owed[g]
    BY <1>5 DEF reviewHooks
  <2>3. /\ calls[g] \in Nat /\ suppressed[g] \in Nat /\ mHookEnabledState[g] \in BOOLEAN
        /\ batchDrops[g] \in Nat
    BY DEF TypeOK
  <2>4. CASE mHookEnabledState[g]
    <3>1. ~next => 100 * suppressed[g] < LowYield * calls[g]
      BY <2>3, <2>4, EvaluateSays
    <3> HIDE DEF next
    <3>2. ~next => suppressed'[g] + batchDrops'[g] - owed'[g] = suppressed[g]
      BY <2>1, <2>2, <2>3, <2>4
    <3>3. ~next => StillLow(g)'
      <4> SUFFICES ASSUME ~next
                   PROVE  100 * (suppressed'[g] + batchDrops'[g] - owed'[g]) < LowYield * calls'[g]
        BY DEF StillLow
      <4> QED BY <2>1, <3>1, <3>2, Zenon
    <3>4. next => StillLow(g)'
      BY <2>2 DEF StillLow
    <3> QED BY <3>3, <3>4
  <2>5. CASE ~mHookEnabledState[g]
    BY <2>1, <2>2, <2>5 DEF JInv, StillLow
  <2> QED BY <2>4, <2>5
<1>6. CASE noReview
  <2>1. UnderReview
    BY <1>6 DEF noReview, UnderReview
  <2> QED BY <1>0, <1>6, <2>1 DEF noReview
<1>7. ASSUME NEW enabled \in BOOLEAN, handleConfigChanged(enabled) PROVE StillLow(g)'
  BY <1>7 DEF handleConfigChanged, UnderReview
<1>8. CASE reset
  <2>1. pcM' # "idle" \/ ~mAutoModeEnabled'
    BY <1>8 DEF reset
  <2> QED BY <2>1 DEF UnderReview
<1>9. CASE applyAutoMode
  <2>1. mHookEnabledState'[g]
    BY <1>9 DEF applyAutoMode, UnderReview, All
  <2> QED BY <2>1 DEF StillLow
<1>10. ASSUME NEW h \in Hooks, NEW isRedundant \in BOOLEAN, NEW n \in 0 .. MaxCalls,
              NEW d \in 0 .. MaxCalls,
              noteCall(h, isRedundant) \/ noteElsewhere(h, isRedundant) \/ fold(h, n, d)
       PROVE  StillLow(g)'
  <2>1. counting
    BY <1>10 DEF noteCall, noteElsewhere, fold
  <2>2. UnderReview /\ UNCHANGED <<mHookEnabledState, owed>>
    BY <2>1 DEF counting, UnderReview
  <2>3. StillLow(g) /\ hookEnabled = mHookEnabledState
    BY <2>2 DEF JInv, HInv, Settled, UnderReview
  <2>4. CASE mHookEnabledState[g]
    BY <2>2, <2>4 DEF StillLow
  <2>5. CASE ~mHookEnabledState[g]
    BY <1>10, <2>2, <2>3, <2>5, OffDropsNothing, StillLowStep
  <2> QED BY <2>4, <2>5
<1>11. CASE UNCHANGED vars
  <2>1. UnderReview
    BY <1>11 DEF vars, UnderReview
  <2> QED BY <1>0, <1>11, <2>1 DEF vars
<1>12. 0 \in 0 .. MaxCalls
  BY PolicyAssumption
<1> QED BY <1>1, <1>2, <1>3, <1>4, <1>5, <1>6, <1>7, <1>8, <1>9, <1>10, <1>11, <1>12 DEF Next

(* A review switches a hook back on only by drops that were made before it was *)
(* switched off and counted after.                                             *)
THEOREM NoChatterCorrect == Spec => NoChatter
<1> DEFINE Inv == TInv /\ (~overlapped => HInv /\ JInv)
           Calm == reviewHooks /\ ~overlapped =>
                     \A h \in Hooks : hookEnabled'[h] /\ ~hookEnabled[h] =>
                       100 * (suppressed[h] - owed[h]) < LowYield * calls[h]
<1>1. Init => Inv
  BY TInvInit DEF Init, HInv, InTurn, HalfWay, Settled, Before, JInv, UnderReview
<1>2. Inv /\ [Next]_vars => Inv'
  <2>1. TInv => TypeOK
    BY DEF TInv
  <2>2. pcM' = "reset" => JInv'
    BY DEF JInv, UnderReview
  <2> QED BY <2>1, <2>2, TInvStep, HInvStep, JInvStep, OverlapEnds, FreshTurn, Zenon
<1>3. Inv => Calm
  <2> SUFFICES ASSUME TypeOK, HInv, JInv, reviewHooks, NEW h \in Hooks, ~hookEnabled[h]
               PROVE  100 * (suppressed[h] - owed[h]) < LowYield * calls[h]
    BY DEF TInv
  <2>1. UnderReview /\ hookEnabled = mHookEnabledState
    BY DEF reviewHooks, UnderReview, Before, HInv, InTurn, Settled
  <2>2. 100 * (suppressed[h] + batchDrops[h] - owed[h]) < LowYield * calls[h]
    BY <2>1 DEF JInv, StillLow
  <2>3. /\ calls[h] \in Nat /\ suppressed[h] \in Nat /\ batchDrops[h] \in Nat /\ owed[h] \in Nat
        /\ LowYield \in Nat
    BY PolicyAssumption DEF TypeOK
  <2> DEFINE bound == LowYield * calls[h]
  <2>4. bound \in Int /\ 100 * (suppressed[h] + batchDrops[h] - owed[h]) < bound
    BY <2>2, <2>3
  <2> HIDE DEF bound
  <2>5. 100 * (suppressed[h] - owed[h]) < bound
    BY <2>3, <2>4
  <2> QED BY <2>5 DEF bound
<1> QED BY <1>1, <1>2, <1>3, PTL DEF Spec, NoChatter

-----------------------------------------------------------------------------
(* The last n of the verdicts say otherwise than the policy does, and no more. *)
Run(n, state, verdicts) ==
  /\ n <= Len(verdicts)
  /\ \A i \in 1 .. Len(verdicts) : i > Len(verdicts) - n => verdicts[i] # state
  /\ n < Len(verdicts) => verdicts[Len(verdicts) - n] = state

Extended(verdicts, verdict) ==
  IF Len(verdicts) < BoundHoldFrames THEN Append(verdicts, verdict)
  ELSE Append(Tail(verdicts), verdict)

(* A verdict is put behind the others, of which the oldest may have to go. *)
LEMMA ExtendedBy ==
  ASSUME NEW verdicts \in Seq(BOOLEAN), NEW verdict \in BOOLEAN, Len(verdicts) <= BoundHoldFrames
  PROVE  LET next == Extended(verdicts, verdict)
             gone == Len(verdicts) + 1 - Len(next)
         IN /\ next \in Seq(BOOLEAN)
            /\ Len(next) \in 1 .. BoundHoldFrames
            /\ gone \in {0, 1} /\ (gone = 1 => Len(next) = BoundHoldFrames)
            /\ next[Len(next)] = verdict
            /\ \A i \in 1 .. Len(next) - 1 : next[i] = verdicts[i + gone]
<1>1. Len(verdicts) \in Nat /\ BoundHoldFrames \in Nat \ {0}
  BY PolicyAssumption
<1>2. CASE Len(verdicts) < BoundHoldFrames
  <2>1. Extended(verdicts, verdict) = Append(verdicts, verdict)
    BY <1>2 DEF Extended
  <2>2. /\ Append(verdicts, verdict) \in Seq(BOOLEAN)
        /\ Len(Append(verdicts, verdict)) = Len(verdicts) + 1
        /\ \A i \in 1 .. Len(verdicts) : Append(verdicts, verdict)[i] = verdicts[i]
        /\ Append(verdicts, verdict)[Len(verdicts) + 1] = verdict
    OBVIOUS
  <2> QED BY <1>1, <1>2, <2>1, <2>2
<1>3. CASE ~(Len(verdicts) < BoundHoldFrames)
  <2> DEFINE rest == Tail(verdicts)
  <2>1. Extended(verdicts, verdict) = Append(rest, verdict)
    BY <1>3 DEF Extended
  <2>2. verdicts # <<>> /\ Len(verdicts) = BoundHoldFrames
    BY <1>1, <1>3
  <2>3. /\ rest \in Seq(BOOLEAN) /\ Len(rest) = Len(verdicts) - 1
        /\ \A i \in 1 .. Len(verdicts) - 1 : rest[i] = verdicts[i + 1]
    BY <2>2
  <2> HIDE DEF rest
  <2>4. /\ Append(rest, verdict) \in Seq(BOOLEAN)
        /\ Len(Append(rest, verdict)) = Len(rest) + 1
        /\ \A i \in 1 .. Len(rest) : Append(rest, verdict)[i] = rest[i]
        /\ Append(rest, verdict)[Len(rest) + 1] = verdict
    BY <2>3
  <2>5. Len(Append(rest, verdict)) = Len(verdicts) /\ Len(verdicts) >= 1
    BY <1>1, <2>2, <2>3, <2>4
  <2> QED BY <1>1, <2>1, <2>2, <2>3, <2>4, <2>5
<1> QED BY <1>2, <1>3

LEMMA RunGrows ==
  ASSUME NEW verdicts \in Seq(BOOLEAN), NEW verdict \in BOOLEAN, NEW state \in BOOLEAN,
         NEW n \in Nat, n < BoundHoldFrames, Len(verdicts) <= BoundHoldFrames,
         Run(n, state, verdicts)
  PROVE  IF verdict = state THEN Run(0, state, Extended(verdicts, verdict))
         ELSE Run(n + 1, state, Extended(verdicts, verdict))
<1> DEFINE next == Extended(verdicts, verdict)
           len  == Len(verdicts)
           gone == len + 1 - Len(next)
<1>1. /\ Len(next) \in 1 .. BoundHoldFrames /\ gone \in {0, 1}
      /\ (gone = 1 => Len(next) = BoundHoldFrames)
      /\ next[Len(next)] = verdict
      /\ \A i \in 1 .. Len(next) - 1 : next[i] = verdicts[i + gone]
  BY ExtendedBy
<1>2. len \in Nat /\ BoundHoldFrames \in Nat
  BY PolicyAssumption
<1> HIDE DEF next
<1>3. Len(next) = len + 1 - gone /\ Len(next) \in Nat
  BY <1>1, <1>2
<1> HIDE DEF gone
<1>4. CASE verdict = state
  BY <1>1, <1>3, <1>4 DEF Run, next
<1>5. CASE verdict # state
  <2>1. n + 1 <= Len(next)
    BY <1>1, <1>2, <1>3 DEF Run, len
  <2>2. ASSUME NEW i \in 1 .. Len(next), i > Len(next) - (n + 1) PROVE next[i] # state
    <3>1. CASE i = Len(next)
      BY <1>1, <1>5, <3>1
    <3>2. CASE i \in 1 .. Len(next) - 1
      <4>1. i + gone \in 1 .. len /\ i + gone > len - n
        BY <1>1, <1>2, <1>3, <2>2, <3>2
      <4>2. verdicts[i + gone] # state
        BY <4>1 DEF Run, len
      <4> QED BY <1>1, <3>2, <4>2, Zenon
    <3>3. i = Len(next) \/ i \in 1 .. Len(next) - 1
      BY <1>3
    <3> QED BY <3>1, <3>2, <3>3, Zenon
  <2>3. ASSUME n + 1 < Len(next) PROVE next[Len(next) - (n + 1)] = state
    <3> DEFINE k == Len(next) - (n + 1)
    <3>1. k \in 1 .. Len(next) - 1 /\ k + gone = len - n /\ n < len
      BY <1>1, <1>2, <1>3, <2>3
    <3>2. verdicts[len - n] = state
      BY <3>1 DEF Run, len
    <3> HIDE DEF k
    <3>3. next[k] = verdicts[k + gone]
      BY <1>1, <3>1
    <3>4. next[k] = state
      BY <3>1, <3>2, <3>3
    <3> QED BY <3>4 DEF k
  <2>4. Run(n + 1, state, next)
    BY <2>1, <2>2, <2>3 DEF Run
  <2> QED BY <1>5, <2>4 DEF next
<1> QED BY <1>4, <1>5

(* Where the hold has the full length, the verdicts kept are all the other way: *)
(* once the policy follows them, none says otherwise.                          *)
LEMMA RunTurns ==
  ASSUME NEW verdicts \in Seq(BOOLEAN), NEW state \in BOOLEAN, NEW other \in BOOLEAN,
         other # state, Len(verdicts) <= BoundHoldFrames, Run(BoundHoldFrames, state, verdicts)
  PROVE  /\ Len(verdicts) = BoundHoldFrames
         /\ \A i \in 1 .. BoundHoldFrames : verdicts[i] = other
         /\ Run(0, other, verdicts)
<1>1. BoundHoldFrames \in Nat \ {0} /\ Len(verdicts) = BoundHoldFrames
  BY PolicyAssumption DEF Run
<1>2. ASSUME NEW i \in 1 .. BoundHoldFrames PROVE verdicts[i] = other
  <2>1. verdicts[i] # state
    BY <1>1 DEF Run
  <2>2. verdicts[i] \in BOOLEAN
    BY <1>1
  <2>3. \A a, b, c \in BOOLEAN : a # b /\ c # b => a = c
    BY Zenon
  <2> QED BY <2>1, <2>2, <2>3
<1>3. Run(0, other, verdicts)
  BY <1>1, <1>2 DEF Run
<1> QED BY <1>1, <1>2, <1>3

LEMMA RunOfNone == ASSUME NEW state PROVE Run(0, state, <<>>)
BY DEF Run

(* The hold counts the last verdicts that say otherwise; what update() is about *)
(* to store does when it has read and not stored.                              *)
Stating == pcM \in {"reset", "resetHold", "resetBound"}

HoldKept ==
  /\ pcF = "compare" =>
       IF gpuBound = mGpuBound THEN Run(0, mGpuBound, recent)
       ELSE Run(mHoldFrames + 1, mGpuBound, recent)
  /\ pcF = "load" => gpuBound # mGpuBound /\ Run(mHoldFrames + 1, mGpuBound, recent)
  /\ pcF = "store" => gpuBound # mGpuBound /\ Run(held, mGpuBound, recent)
  /\ pcF \in {"clear", "commit"} => gpuBound # mGpuBound /\ Run(BoundHoldFrames, mGpuBound, recent)
  /\ pcF = "commit" => mHoldFrames = 0
  /\ pcF \notin {"compare", "load", "store", "clear", "commit"} => Run(mHoldFrames, mGpuBound, recent)

CInv == (pcM = "resetBound" => mHoldFrames = 0) /\ (~Stating => HoldKept)

LEMMA CInvStep == ~overlapped' /\ TypeOK /\ HInv /\ CInv /\ [Next]_vars => CInv'
<1> SUFFICES ASSUME ~overlapped', TypeOK, HInv, CInv, [Next]_vars PROVE CInv'
  OBVIOUS
<1> USE DEF telemetry, mode, switches, traffic, Stating
<1>t. /\ recent \in Seq(BOOLEAN) /\ Len(recent) <= BoundHoldFrames
      /\ mGpuBound \in BOOLEAN /\ gpuBound \in BOOLEAN
      /\ mHoldFrames \in Nat /\ BoundHoldFrames \in Nat \ {0} /\ held \in 0 .. BoundHoldFrames
      /\ (pcF # "clear" => mHoldFrames < BoundHoldFrames)
  BY PolicyAssumption, GpuBoundIsBoolean DEF TypeOK
<1>0. ASSUME UNCHANGED <<telemetry, mode, held, recent, pcM>>,
             UNCHANGED pcF \/ {pcF, pcF'} \cap {"compare", "load", "store", "clear", "commit"} = {}
      PROVE  CInv'
  <2>1. gpuBound' = gpuBound
    BY <1>0, GpuBoundIsBoolean
  <2>2. CASE UNCHANGED pcF
    BY <1>0, <2>1, <2>2 DEF CInv, HoldKept
  <2>3. CASE {pcF, pcF'} \cap {"compare", "load", "store", "clear", "commit"} = {}
    <3>1. /\ pcF \notin {"compare", "load", "store", "clear", "commit"}
          /\ pcF' \notin {"compare", "load", "store", "clear", "commit"}
      BY <2>3, Zenon
    <3> QED BY <1>0, <3>1 DEF CInv, HoldKept
  <2> QED BY <1>0, <2>2, <2>3
<1>1. ASSUME NEW s \in Samples, onFrame(s) PROVE CInv'
  <2>0. pcM = "idle" \/ ~mAutoModeEnabled
    BY <1>1, Zenon DEF onFrame
  <2>1. pcF = "idle" /\ UNCHANGED <<mode, held, pcM>>
    BY <1>1 DEF onFrame
  <2>2. CASE pcF' # "compare"
    <3>1. UNCHANGED recent /\ pcF' \in {"idle", "review"}
      BY <1>1, <2>2 DEF onFrame
    <3> QED BY <2>1, <3>1 DEF CInv, HoldKept
  <2>3. CASE pcF' = "compare"
    <3> DEFINE verdict == gpuBound'
    <3>1. verdict \in BOOLEAN
      BY Zenon DEF gpuBound
    <3>2. recent' = Extended(recent, verdict) /\ mAutoModeEnabled
      BY <1>1, <2>3, <2>1 DEF onFrame, Extended
    <3>3. Run(mHoldFrames, mGpuBound, recent) /\ mHoldFrames < BoundHoldFrames
      BY <1>t, <2>0, <2>1, <3>2 DEF CInv, HoldKept
    <3> HIDE DEF verdict
    <3>4. IF verdict = mGpuBound THEN Run(0, mGpuBound, recent')
          ELSE Run(mHoldFrames + 1, mGpuBound, recent')
      BY <1>t, <3>1, <3>2, <3>3, RunGrows
    <3> QED BY <2>0, <2>1, <2>3, <3>2, <3>4 DEF CInv, HoldKept, verdict
  <2> QED BY <2>2, <2>3
<1>2. CASE update
  <2>0. /\ UNCHANGED <<telemetry, pcM, recent>> /\ pcF \in Before \cup {"answer"} /\ pcF # "idle"
    BY <1>2 DEF update, inUpdate, compare, loadHold, storeHold, clearHold, commit, answer, Before
  <2>1. pcM = "idle" /\ pcM' = "idle" /\ HoldKept
    BY <2>0 DEF CInv, HInv, InTurn
  <2>2. gpuBound' = gpuBound
    BY <2>0, GpuBoundIsBoolean
  <2> SUFFICES HoldKept'
    BY <2>1 DEF CInv
  <2>3. CASE compare
    BY <2>0, <2>1, <2>2, <2>3 DEF compare, HoldKept
  <2>4. CASE loadHold
    BY <2>0, <2>1, <2>2, <2>4 DEF loadHold, HoldKept
  <2>5. CASE storeHold
    <3>1. held >= BoundHoldFrames => held = BoundHoldFrames
      BY <1>t
    <3>2. /\ pcF = "store" /\ mHoldFrames' = held /\ mGpuBound' = mGpuBound /\ held \in Int
          /\ pcF' = IF held < BoundHoldFrames THEN "review" ELSE "clear"
      BY <1>t, <2>5 DEF storeHold
    <3>3. gpuBound # mGpuBound /\ Run(held, mGpuBound, recent)
      BY <2>1, <3>2 DEF HoldKept
    <3>4. CASE held < BoundHoldFrames
      BY <2>0, <3>2, <3>3, <3>4 DEF HoldKept
    <3>5. CASE ~(held < BoundHoldFrames)
      <4>1. held = BoundHoldFrames /\ pcF' = "clear"
        BY <1>t, <3>1, <3>2, <3>5
      <4> QED BY <2>0, <2>2, <3>2, <3>3, <4>1 DEF HoldKept
    <3> QED BY <3>4, <3>5
  <2>6. CASE clearHold
    BY <2>0, <2>1, <2>2, <2>6 DEF clearHold, HoldKept
  <2>7. CASE commit
    <3>1. /\ pcF = "commit" /\ pcF' = "answer" /\ mGpuBound' = gpuBound
          /\ mHoldFrames' = mHoldFrames
      BY <2>7 DEF commit
    <3>2. gpuBound # mGpuBound /\ Run(BoundHoldFrames, mGpuBound, recent) /\ mHoldFrames = 0
      BY <2>1, <3>1 DEF HoldKept
    <3>3. Run(0, gpuBound, recent)
      <4> DEFINE other == gpuBound
      <4>1. other \in BOOLEAN /\ other # mGpuBound
        BY <1>t, <3>2
      <4> HIDE DEF other
      <4>2. Run(0, other, recent)
        BY <1>t, <3>2, <4>1, RunTurns
      <4> QED BY <4>2 DEF other
    <3> QED BY <2>0, <3>1, <3>2, <3>3 DEF HoldKept
  <2>8. CASE answer
    BY <2>0, <2>1, <2>8 DEF answer, HoldKept
  <2> QED BY <1>2, <2>3, <2>4, <2>5, <2>6, <2>7, <2>8 DEF update
<1>3. CASE shedOrRestore
  BY <1>0, <1>3 DEF shedOrRestore
<1>4. CASE mirror
  BY <1>0, <1>4 DEF mirror
<1>5. CASE reviewHooks
  BY <1>0, <1>5 DEF reviewHooks
<1>6. CASE noReview
  BY <1>0, <1>6 DEF noReview
<1>7. ASSUME NEW enabled \in BOOLEAN, handleConfigChanged(enabled) PROVE CInv'
  BY <1>7 DEF handleConfigChanged, CInv
<1>8. CASE reset
  <2>1. pcF = "idle" /\ pcF' = "idle"
    BY <1>8 DEF reset, HInv, InTurn
  <2>2. CASE pcM = "reset"
    BY <1>8, <2>2 DEF reset, CInv
  <2>3. CASE pcM # "reset"
    <3>1. /\ pcM' \in {"hooks", "idle"} /\ recent' = <<>> /\ mHoldFrames' = 0
      BY <1>8, <2>3 DEF reset, CInv
    <3>2. Run(mHoldFrames', mGpuBound', recent')
      BY <3>1, RunOfNone
    <3> QED BY <2>1, <3>1, <3>2 DEF CInv, HoldKept
  <2> QED BY <2>2, <2>3
<1>9. CASE applyAutoMode
  <2>1. /\ pcM \in {"hooks", "mirror"} /\ pcM' \in {"mirror", "idle"}
        /\ UNCHANGED <<telemetry, mode, held, recent, pcF>>
    BY <1>9 DEF applyAutoMode
  <2>2. gpuBound' = gpuBound
    BY <2>1, GpuBoundIsBoolean
  <2> QED BY <2>1, <2>2 DEF CInv, HoldKept
<1>10. ASSUME counting PROVE CInv'
  BY <1>0, <1>10 DEF counting
<1>11. CASE UNCHANGED vars
  BY <1>0, <1>11 DEF vars
<1> QED BY <1>1, <1>2, <1>3, <1>4, <1>5, <1>6, <1>7, <1>8, <1>9, <1>10, <1>11
  DEF Next, noteCall, noteElsewhere, fold

HoldInv == TInv /\ (~overlapped => HInv /\ CInv)

LEMMA HoldAlways == Spec => []HoldInv
<1>1. Init => HoldInv
  BY TInvInit DEF Init, HoldInv, HInv, InTurn, HalfWay, Settled, Before, CInv, Stating
<1>2. HoldInv /\ [Next]_vars => HoldInv'
  <2>1. TInv => TypeOK
    BY DEF TInv
  <2>2. pcM' = "reset" => CInv'
    BY DEF CInv, Stating
  <2> QED BY <2>1, <2>2, TInvStep, HInvStep, CInvStep, OverlapEnds, FreshTurn, Zenon DEF HoldInv
<1> QED BY <1>1, <1>2, PTL DEF Spec

(* The policy acts only when as many frames in a row as the hold is long say   *)
(* the same, unless a reset of the menu fell into a frame.                     *)
THEOREM HoldCorrect == Spec => HoldRespected
<1> DEFINE Held == commit /\ mGpuBound' # mGpuBound /\ ~overlapped =>
                     /\ Len(recent) = BoundHoldFrames
                     /\ \A i \in 1 .. BoundHoldFrames : recent[i] = mGpuBound'
<1>1. HoldInv => Held
  <2> SUFFICES ASSUME TypeOK, HInv, CInv, commit
               PROVE  /\ Len(recent) = BoundHoldFrames
                      /\ \A i \in 1 .. BoundHoldFrames : recent[i] = gpuBound
    BY DEF HoldInv, TInv, commit
  <2>1. gpuBound # mGpuBound /\ Run(BoundHoldFrames, mGpuBound, recent)
    BY DEF commit, HInv, InTurn, CInv, Stating, HoldKept
  <2> DEFINE other == gpuBound
  <2>2. other \in BOOLEAN /\ other # mGpuBound
    BY <2>1, GpuBoundIsBoolean
  <2> HIDE DEF other
  <2>3. /\ Len(recent) = BoundHoldFrames
        /\ \A i \in 1 .. BoundHoldFrames : recent[i] = other
    BY <2>1, <2>2, RunTurns DEF TypeOK
  <2> QED BY <2>3 DEF other
<1> QED BY <1>1, HoldAlways, PTL DEF Spec, HoldRespected

(* And it acts at the end of the hold: no full row of frames that say otherwise *)
(* goes by.                                                                    *)
THEOREM ActsCorrect == Spec => []ActsInTime
<1>1. HoldInv => ActsInTime
  <2> SUFFICES ASSUME TypeOK, CInv, Quiet, Len(recent) = BoundHoldFrames
               PROVE  \E i \in 1 .. BoundHoldFrames : recent[i] = mGpuBound
    BY DEF HoldInv, TInv, ActsInTime
  <2>1. Run(mHoldFrames, mGpuBound, recent)
    BY DEF Quiet, CInv, Stating, HoldKept
  <2>2. mHoldFrames \in Nat /\ mHoldFrames < BoundHoldFrames /\ BoundHoldFrames \in Nat
    BY PolicyAssumption DEF TypeOK, Quiet
  <2>3. /\ recent[BoundHoldFrames - mHoldFrames] = mGpuBound
        /\ BoundHoldFrames - mHoldFrames \in 1 .. BoundHoldFrames
    BY <2>1, <2>2 DEF Run
  <2> QED BY <2>3
<1> QED BY <1>1, HoldAlways, PTL
=============================================================================
