------------------------- MODULE BoostSchedulerProofs -------------------------
(***************************************************************************)
(* The lift of the render threads, for every set of threads, every boost    *)
(* and every sampling period.                                               *)
(***************************************************************************)
EXTENDS BoostScheduler, TLAPS

(* The governor asks for no more than it may, for nothing on a frame that is paced *)
(* or limited by the GPU, and for more than a small lift only when the CPU limits. *)
LEMMA DecisionBounds ==
  ASSUME NEW in \in FrameInputs(Int, Int), NEW b \in Nat
  PROVE  /\ decide(in, b) \in 0 .. b
         /\ in.paced \/ gpuLimited(in) => decide(in, b) = 0
         /\ decide(in, b) > 1 => cpuLimited(in)
<1>1. /\ in.paced \in BOOLEAN /\ smallLift(b) \in 0 .. b /\ smallLift(b) <= 1
      /\ unmeasured(in) \in BOOLEAN /\ gpuLimited(in) \in BOOLEAN
      /\ ~(unmeasured(in) /\ gpuLimited(in))
  BY DEF FrameInputs, smallLift, unmeasured, gpuLimited
<1>2. \/ (in.paced \/ gpuLimited(in)) /\ decide(in, b) = 0
      \/ ~in.paced /\ ~gpuLimited(in) /\ decide(in, b) = smallLift(b)
      \/ ~in.paced /\ ~gpuLimited(in) /\ decide(in, b) = b /\ cpuLimited(in)
  BY <1>1 DEF decide
<1> QED BY <1>1, <1>2

LEMMA DecisionIsNat ==
  ASSUME TypeOK, NEW in \in Inputs
  PROVE  decide(in, mMaxBoost) \in Nat
<1>1. in \in FrameInputs(Int, Int) /\ mMaxBoost \in Nat
  BY BoostAssumption DEF TypeOK
<1> QED BY <1>1, DecisionBounds

LEMMA InitType == Init => TypeOK
<1> USE BoostAssumption
<1> SUFFICES ASSUME Init PROVE TypeOK
  OBVIOUS
<1>1. mAppliedBoost \in Int /\ mFrameCounter \in 0 .. SamplePeriod - 1
  BY DEF Init
<1>2. gOriginalPriority \in [Tids -> [nice : Nices, captured : BOOLEAN]]
  BY DEF Init, NoRecord, Nices
<1>3. nice \in [Tids -> Nices] /\ given \in [Tids -> Nices]
  BY DEF Init, Nices
<1> QED BY <1>1, <1>2, <1>3 DEF Init, TypeOK, Actors

(* A priority stays one the system has. *)
LEMMA SetPriorityType ==
  ASSUME NEW t \in Tids, NEW value \in Nices, TypeOK, setpriority(t, value)
  PROVE  nice' \in [Tids -> Nices]
BY DEF setpriority, TypeOK

(* What has gone wrong stays known. *)
StillKnown ==
  /\ disturbed' \in BOOLEAN /\ (disturbed => disturbed')
  /\ recycled' \in BOOLEAN /\ (recycled => recycled')

LEMMA HistoryStep == TypeOK /\ [Next]_vars => StillKnown
<1> SUFFICES ASSUME TypeOK, [Next]_vars PROVE StillKnown
  OBVIOUS
<1> USE DEF history, disturb
<1>1. disturbed \in BOOLEAN /\ recycled \in BOOLEAN
  BY DEF TypeOK
<1>2. ASSUME NEW t \in Tids, NEW r \in {"render", "other"}, NEW n \in Givens, ThreadStarts(t, r, n)
      PROVE  StillKnown
  BY <1>1, <1>2, Zenon DEF ThreadStarts, StillKnown
<1>3. ASSUME NEW in \in Inputs, onFrame(in) PROVE StillKnown
  <2>1. recycled' = recycled
    BY <1>3 DEF onFrame
  <2>2. UNCHANGED disturbed \/ \E why \in BOOLEAN : disturb(why)
    BY <1>3, Zenon DEF onFrame, apply
  <2> QED BY <1>1, <2>1, <2>2, Zenon DEF StillKnown
<1>4. CASE start
  BY <1>1, <1>4, Zenon DEF start, StillKnown
<1>5. CASE stop
  BY <1>1, <1>5, Zenon DEF stop, StillKnown
<1>6. ASSUME NEW a \in Actors, NEW t \in Tids, readThreadName(a, t) PROVE StillKnown
  <2>1. recycled' = recycled
    BY <1>6 DEF readThreadName
  <2>2. UNCHANGED disturbed \/ disturb(mode[a] = "restore" /\ IsRenderThread(t))
    BY <1>6, Zenon DEF readThreadName
  <2> QED BY <1>1, <2>1, <2>2, Zenon DEF StillKnown
<1>7. ASSUME UNCHANGED history PROVE StillKnown
  BY <1>1, <1>7, Zenon DEF StillKnown
<1> QED
  BY <1>2, <1>3, <1>4, <1>5, <1>6, <1>7
  DEF Next, Walk, ThreadEnds, applyReturns, setMaxBoost, stopReturns, applyBoost, restoreBoost, vars

LEMMA TypeStep == TypeOK /\ [Next]_vars => TypeOK'
<1> SUFFICES ASSUME TypeOK, [Next]_vars PROVE TypeOK'
  OBVIOUS
<1> USE BoostAssumption DEF threadVars, schedVars, walkVars
<1>0. disturbed' \in BOOLEAN /\ recycled' \in BOOLEAN
  BY HistoryStep DEF StillKnown
<1>1. ASSUME NEW t \in Tids, NEW r \in {"render", "other"}, NEW n \in Givens, ThreadStarts(t, r, n)
      PROVE  TypeOK'
  BY <1>0, <1>1 DEF ThreadStarts, Nices, TypeOK
<1>2. ASSUME NEW t \in Tids, ThreadEnds(t) PROVE TypeOK'
  BY <1>0, <1>2 DEF ThreadEnds, TypeOK
<1>3. ASSUME NEW in \in Inputs, onFrame(in) PROVE TypeOK'
  <2> DEFINE boost == decide(in, mMaxBoost)
  <2>1. mFrameCounter' \in 0 .. SamplePeriod - 1
    BY <1>3 DEF onFrame, TypeOK
  <2>2. boost \in Nat
    BY DecisionIsNat
  <2> HIDE DEF boost
  <2>3. \/ UNCHANGED <<walkVars, mAppliedBoost>>
        \/ apply(boost)
    BY <1>3 DEF onFrame, boost
  <2>4. /\ mAppliedBoost' \in Int /\ decision' \in Nat
        /\ mode' \in [Actors -> {"idle", "boost", "restore"}] /\ mode'["loader"] # "boost"
        /\ ids' \in [Actors -> SUBSET Tids] /\ named' \in [Actors -> Tids \cup {NoTid}]
    BY <2>2, <2>3 DEF apply, BeginWalk, Actors, TypeOK
  <2>5. UNCHANGED <<threadVars, mRunning, mMaxBoost, gOriginalPriority>>
    BY <1>3 DEF onFrame
  <2> QED BY <1>0, <2>1, <2>4, <2>5 DEF TypeOK
<1>4. CASE applyReturns
  BY <1>0, <1>4 DEF applyReturns, TypeOK, Actors
<1>5. ASSUME NEW b \in Boosts, setMaxBoost(b) PROVE TypeOK'
  BY <1>0, <1>5 DEF setMaxBoost, TypeOK
<1>6. CASE start
  BY <1>0, <1>6 DEF start, TypeOK
<1>7. CASE stop
  <2>1. /\ mode' \in [Actors -> {"idle", "boost", "restore"}] /\ mode'["loader"] # "boost"
        /\ ids' \in [Actors -> SUBSET Tids] /\ named' \in [Actors -> Tids \cup {NoTid}]
    BY <1>7 DEF stop, BeginWalk, Actors, TypeOK
  <2>2. gOriginalPriority' \in [Tids -> [nice : Nices, captured : BOOLEAN]]
    <3>1. [t \in Tids |-> NoRecord] \in [Tids -> [nice : Nices, captured : BOOLEAN]]
      BY DEF NoRecord, Nices
    <3> QED BY <1>7, <3>1 DEF stop, TypeOK
  <2>3. mAppliedBoost' \in Int
    <3>1. mAppliedBoost' = mAppliedBoost \/ mAppliedBoost' = -1
      BY <1>7 DEF stop
    <3> QED BY <3>1 DEF TypeOK
  <2>4. mRunning' \in BOOLEAN
    BY <1>7 DEF stop
  <2> QED BY <1>0, <1>7, <2>1, <2>2, <2>3, <2>4 DEF stop, TypeOK
<1>8. CASE stopReturns
  BY <1>0, <1>8 DEF stopReturns, NoRecord, Nices, TypeOK, Actors
<1>9. ASSUME NEW a \in Actors, NEW t \in Tids, readThreadName(a, t) PROVE TypeOK'
  BY <1>0, <1>9 DEF readThreadName, TypeOK
<1>10. ASSUME NEW a \in Actors, applyBoost(a) PROVE TypeOK'
  <2> DEFINE t == named[a]
  <2>1. t \in Tids
    BY <1>10 DEF applyBoost, TypeOK
  <2>2. Greatest(MinNice, nice[t] - decision) \in Nices
    BY <2>1 DEF Greatest, Nices, TypeOK
  <2>3. nice' \in [Tids -> Nices]
    <3>1. CASE t \in live
      <4>1. setpriority(t, Greatest(MinNice, nice[t] - decision))
        BY <1>10, <3>1 DEF applyBoost
      <4> QED BY <2>1, <2>2, <4>1, SetPriorityType
    <3>2. CASE t \notin live
      BY <1>10, <3>2 DEF applyBoost, TypeOK
    <3> QED BY <3>1, <3>2
  <2>4. gOriginalPriority' \in [Tids -> [nice : Nices, captured : BOOLEAN]]
    <3>1. [nice |-> nice[t], captured |-> TRUE] \in [nice : Nices, captured : BOOLEAN]
      BY <2>1 DEF TypeOK
    <3>2. \/ UNCHANGED gOriginalPriority
          \/ gOriginalPriority' = [gOriginalPriority EXCEPT ![t] = [nice |-> nice[t], captured |-> TRUE]]
      BY <1>10 DEF applyBoost
    <3> QED BY <3>1, <3>2 DEF TypeOK
  <2> QED BY <1>0, <1>10, <2>3, <2>4 DEF applyBoost, TypeOK
<1>11. ASSUME NEW a \in Actors, restoreBoost(a) PROVE TypeOK'
  <2> DEFINE t == named[a]
  <2>1. t \in Tids
    BY <1>11 DEF restoreBoost, TypeOK
  <2>2. nice' \in [Tids -> Nices]
    <3>1. CASE captured(t)
      <4>1. setpriority(t, gOriginalPriority[t].nice)
        BY <1>11, <3>1 DEF restoreBoost
      <4> QED BY <2>1, <4>1, SetPriorityType DEF TypeOK
    <3>2. CASE ~captured(t)
      BY <1>11, <3>2 DEF restoreBoost, TypeOK
    <3> QED BY <3>1, <3>2
  <2>3. gOriginalPriority' \in [Tids -> [nice : Nices, captured : BOOLEAN]]
    <3>1. NoRecord \in [nice : Nices, captured : BOOLEAN]
      BY DEF NoRecord, Nices
    <3>2. \/ UNCHANGED gOriginalPriority
          \/ gOriginalPriority' = [gOriginalPriority EXCEPT ![t] = NoRecord]
      BY <1>11 DEF restoreBoost
    <3> QED BY <3>1, <3>2 DEF TypeOK
  <2> QED BY <1>0, <1>11, <2>2, <2>3 DEF restoreBoost, TypeOK
<1>12. CASE UNCHANGED vars
  BY <1>0, <1>12 DEF vars, TypeOK
<1> QED BY <1>1, <1>2, <1>3, <1>4, <1>5, <1>6, <1>7, <1>8, <1>9, <1>10, <1>11, <1>12 DEF Next, Walk

(* Types, for every set of threads and every option. *)
THEOREM TypeCorrect == Spec => []TypeOK
BY InitType, TypeStep, PTL DEF Spec

-----------------------------------------------------------------------------
(* What was recorded of a thread is at least as favourable as what the game *)
(* gave it, and only render threads are recorded or about to be.  A thread  *)
(* that starts has no record, since its id was never used.                  *)
Recorded(t) ==
  /\ captured(t) => gOriginalPriority[t].nice >= MinNice
  /\ captured(t) /\ t \in live => role[t] = "render" /\ gOriginalPriority[t].nice <= given[t]

Favoured(t) ==
  /\ nice[t] >= MinNice
  /\ t \in live => nice[t] <= given[t] /\ (role[t] = "other" => nice[t] = given[t])

LInv ==
  /\ TypeOK
  /\ \A t \in Tids : Recorded(t) /\ Favoured(t)
  /\ \A a \in Actors : named[a] # NoTid => (named[a] \in live => role[named[a]] = "render")

LEMMA LInvStep == ~recycled' /\ LInv /\ [Next]_vars => LInv'
<1> SUFFICES ASSUME ~recycled', LInv, [Next]_vars PROVE LInv'
  OBVIOUS
<1> TypeOK /\ TypeOK'
  BY TypeStep DEF LInv
<1> USE BoostAssumption DEF threadVars, schedVars, walkVars
<1>1. ASSUME NEW t \in Tids, NEW r \in {"render", "other"}, NEW n \in Givens, ThreadStarts(t, r, n)
      PROVE  LInv'
  <2>1. ~captured(t) /\ (\A a \in Actors : named[a] # t) /\ n \in Int /\ n >= MinNice
    <3>1. ~(captured(t) \/ \E a \in Actors : named[a] = t)
      BY <1>1, Zenon DEF ThreadStarts
    <3> QED BY <3>1
  <2>2. ASSUME NEW u \in Tids PROVE (Recorded(u) /\ Favoured(u))'
    BY <1>1, <2>1 DEF ThreadStarts, LInv, Recorded, Favoured, captured, TypeOK
  <2>3. ASSUME NEW a \in Actors, named'[a] # NoTid
        PROVE  named'[a] \in live' => role'[named'[a]] = "render"
    BY <1>1, <2>1, <2>3 DEF ThreadStarts, LInv, TypeOK
  <2> QED BY <2>2, <2>3 DEF LInv
<1>2. ASSUME NEW t \in Tids, ThreadEnds(t) PROVE LInv'
  BY <1>2 DEF ThreadEnds, LInv, Recorded, Favoured, captured
<1>3. ASSUME UNCHANGED <<threadVars>>,
             gOriginalPriority' = [u \in Tids |-> NoRecord] \/ UNCHANGED gOriginalPriority,
             \A a \in Actors : named'[a] \in {named[a], NoTid}
      PROVE  LInv'
  <2>1. ASSUME NEW u \in Tids PROVE (Recorded(u) /\ Favoured(u))'
    <3>1. Favoured(u)'
      BY <1>3 DEF LInv, Favoured
    <3>2. Recorded(u)'
      BY <1>3 DEF LInv, Recorded, captured, NoRecord
    <3> QED BY <3>1, <3>2
  <2>2. ASSUME NEW a \in Actors, named'[a] # NoTid
        PROVE  named'[a] \in live' => role'[named'[a]] = "render"
    BY <1>3, <2>2 DEF LInv
  <2> QED BY <2>1, <2>2 DEF LInv
<1>4. ASSUME NEW in \in Inputs, onFrame(in) PROVE LInv'
  <2>1. UNCHANGED <<threadVars, gOriginalPriority>>
        /\ \A a \in Actors : named'[a] \in {named[a], NoTid}
    BY <1>4 DEF onFrame, apply, BeginWalk, TypeOK
  <2> QED BY <1>3, <2>1
<1>5. CASE stop
  <2>1. \A a \in Actors : named'[a] \in {named[a], NoTid}
    BY <1>5 DEF stop, BeginWalk, TypeOK
  <2> QED BY <1>3, <1>5, <2>1 DEF stop
<1>6. ASSUME applyReturns \/ start \/ stopReturns \/ \E b \in Boosts : setMaxBoost(b)
      PROVE  LInv'
  BY <1>3, <1>6 DEF applyReturns, start, stopReturns, setMaxBoost
<1>7. ASSUME NEW a \in Actors, NEW t \in Tids, readThreadName(a, t) PROVE LInv'
  <2>1. UNCHANGED <<threadVars, gOriginalPriority>>
    BY <1>7 DEF readThreadName
  <2>2. ASSUME NEW u \in Tids PROVE (Recorded(u) /\ Favoured(u))'
    BY <2>1 DEF LInv, Recorded, Favoured, captured
  <2>3. \A b \in Actors : \/ named'[b] = named[b]
                          \/ named'[b] = t /\ t \in live /\ role[t] = "render"
    <3>1. \/ IsRenderThread(t) /\ named' = [named EXCEPT ![a] = t]
          \/ UNCHANGED named
      BY <1>7, Zenon DEF readThreadName
    <3> QED BY <3>1 DEF IsRenderThread, TypeOK
  <2> QED BY <2>1, <2>2, <2>3 DEF LInv, TypeOK
<1>8. ASSUME NEW a \in Actors, NEW t \in Tids, t = named[a],
             UNCHANGED <<live, role, given>>, named' = [named EXCEPT ![a] = NoTid],
             \A u \in Tids \ {t} : nice'[u] = nice[u] /\ gOriginalPriority'[u] = gOriginalPriority[u],
             (Recorded(t) /\ Favoured(t))'
      PROVE  LInv'
  <2>1. ASSUME NEW u \in Tids PROVE (Recorded(u) /\ Favoured(u))'
    BY <1>8 DEF LInv, Recorded, Favoured, captured
  <2>2. \A b \in Actors : named'[b] \in {named[b], NoTid}
    BY <1>8 DEF TypeOK
  <2> QED BY <1>8, <2>1, <2>2 DEF LInv
<1>9. ASSUME NEW a \in Actors, applyBoost(a) PROVE LInv'
  <2>1. PICK t \in Tids : t = named[a] /\ t # NoTid
    BY <1>9 DEF applyBoost, TypeOK
  <2> DEFINE target == Greatest(MinNice, nice[t] - decision)
  <2>2. target \in Int /\ target >= MinNice /\ target <= nice[t]
    BY <2>1 DEF Greatest, LInv, Favoured, Nices, TypeOK
  <2>3. CASE t \in live
    <3>1. /\ nice' \in {nice, [nice EXCEPT ![t] = target]}
          /\ gOriginalPriority' \in {gOriginalPriority, [gOriginalPriority EXCEPT ![t] =
                                        [nice |-> nice[t], captured |-> TRUE]]}
      BY <1>9, <2>1, <2>3 DEF applyBoost, setpriority
    <3>2. role[t] = "render"
      BY <1>9, <2>1, <2>3 DEF LInv
    <3>3. UNCHANGED <<live, role, given>>
      BY <1>9 DEF applyBoost
    <3>4. nice[t] <= given[t] /\ nice[t] >= MinNice /\ Recorded(t)
      BY <2>1, <2>3 DEF LInv, Favoured
    <3> HIDE DEF target
    <3>5. Favoured(t)'
      <4>1. nice'[t] \in {nice[t], target}
        BY <2>1, <3>1 DEF TypeOK
      <4> QED BY <2>1, <2>2, <3>2, <3>3, <3>4, <4>1 DEF Favoured, Nices, TypeOK
    <3>6. Recorded(t)'
      <4>1. CASE gOriginalPriority' = gOriginalPriority
        BY <3>3, <3>4, <4>1 DEF Recorded, captured
      <4>2. CASE gOriginalPriority' = [gOriginalPriority EXCEPT ![t] =
                                        [nice |-> nice[t], captured |-> TRUE]]
        <5>1. gOriginalPriority'[t].nice = nice[t]
          BY <2>1, <4>2 DEF TypeOK
        <5> QED BY <3>2, <3>3, <3>4, <5>1 DEF Recorded, captured
      <4> QED BY <3>1, <4>1, <4>2
    <3>7. \A u \in Tids \ {t} : nice'[u] = nice[u] /\ gOriginalPriority'[u] = gOriginalPriority[u]
      BY <3>1 DEF TypeOK
    <3>8. named' = [named EXCEPT ![a] = NoTid]
      BY <1>9 DEF applyBoost
    <3> QED BY <1>8, <2>1, <3>3, <3>5, <3>6, <3>7, <3>8
  <2>4. CASE t \notin live
    BY <1>3, <1>9, <2>1, <2>4 DEF applyBoost, TypeOK
  <2> QED BY <2>3, <2>4
<1>10. ASSUME NEW a \in Actors, restoreBoost(a) PROVE LInv'
  <2>1. PICK t \in Tids : t = named[a] /\ t # NoTid
    BY <1>10 DEF restoreBoost, TypeOK
  <2> DEFINE record == gOriginalPriority[t]
  <2>2. CASE captured(t)
    <3>1. /\ nice' \in {nice, [nice EXCEPT ![t] = record.nice]}
          /\ gOriginalPriority' = [gOriginalPriority EXCEPT ![t] = NoRecord]
      BY <1>10, <2>1, <2>2 DEF restoreBoost, setpriority
    <3>2. UNCHANGED <<live, role, given>> /\ named' = [named EXCEPT ![a] = NoTid]
      BY <1>10 DEF restoreBoost
    <3>3. /\ record.nice \in Int /\ record.nice >= MinNice
          /\ t \in live => record.nice <= given[t] /\ role[t] = "render"
      BY <2>1, <2>2 DEF LInv, Recorded, Nices, TypeOK
    <3>4. Recorded(t)'
      <4>1. gOriginalPriority'[t] = NoRecord
        BY <2>1, <3>1 DEF TypeOK
      <4> QED BY <4>1 DEF Recorded, captured, NoRecord
    <3>5. Favoured(t)'
      <4>1. nice'[t] \in {nice[t], record.nice} /\ Favoured(t)
        BY <2>1, <3>1 DEF LInv, TypeOK
      <4> HIDE DEF record
      <4>2. CASE nice'[t] = nice[t]
        BY <3>2, <4>1, <4>2 DEF Favoured
      <4>3. CASE nice'[t] = record.nice
        BY <3>2, <3>3, <4>3 DEF Favoured
      <4> QED BY <4>1, <4>2, <4>3
    <3>6. \A u \in Tids \ {t} : nice'[u] = nice[u] /\ gOriginalPriority'[u] = gOriginalPriority[u]
      BY <3>1 DEF TypeOK
    <3> QED BY <1>8, <2>1, <3>2, <3>4, <3>5, <3>6
  <2>3. CASE ~captured(t)
    <3>1. UNCHANGED threadVars /\ UNCHANGED gOriginalPriority
      BY <1>10, <2>1, <2>3 DEF restoreBoost
    <3>2. \A b \in Actors : named'[b] \in {named[b], NoTid}
      BY <1>10 DEF restoreBoost, TypeOK
    <3> QED BY <1>3, <3>1, <3>2
  <2> QED BY <2>2, <2>3
<1>11. CASE UNCHANGED vars
  BY <1>3, <1>11 DEF vars
<1> QED BY <1>1, <1>2, <1>4, <1>5, <1>6, <1>7, <1>9, <1>10, <1>11 DEF Next, Walk

(* As long as no id of a thread the scheduler may still hold is given to      *)
(* another, it only ever favours a thread, and only render threads, however   *)
(* its walks overlap and whatever fails.                                      *)
THEOREM LiftedOnly == Spec => []OnlyRenderThreadsLifted
<1> DEFINE Inv == TypeOK /\ (~recycled => LInv)
<1>1. Init => Inv
  BY InitType, BoostAssumption DEF Init, LInv, Recorded, Favoured, captured, NoRecord
<1>2. Inv /\ [Next]_vars => Inv'
  BY TypeStep, HistoryStep, LInvStep, Zenon DEF StillKnown
<1>3. Inv => OnlyRenderThreadsLifted
  BY DEF LInv, TypeOK, Favoured, OnlyRenderThreadsLifted
<1> QED BY <1>1, <1>2, <1>3, PTL DEF Spec

-----------------------------------------------------------------------------
(* Undisturbed, the walks take turns with the whole list of threads: a thread has exactly  *)
(* the record of what the game gave it, a walk that restores has every       *)
(* recorded thread still before it, and none is left when no boost is in     *)
(* force.                                                                    *)
AllIdle == \A a \in Actors : Idle(a)

Exact(t) == t \in live =>
  IF captured(t) THEN gOriginalPriority[t].nice = given[t] ELSE nice[t] = given[t]

Ahead(t) == \A a \in Actors :
  t \in live /\ captured(t) /\ mode[a] = "restore" => t \in ids[a] \/ t = named[a]

Turns ==
  /\ Idle("frame") \/ Idle("loader")
  /\ mode["frame"] # "idle" => mRunning
  /\ mode["frame"] = "boost" => decision > 0
  /\ mode["loader"] # "idle" => ~mRunning
  /\ ~mRunning /\ Idle("loader") => mAppliedBoost = -1

SInv ==
  /\ LInv /\ Turns
  /\ \A t \in Tids : Exact(t) /\ Ahead(t)
  /\ AllIdle /\ mAppliedBoost <= 0 => \A t \in live : ~captured(t)

LEMMA SInvStep == ~disturbed' /\ ~recycled' /\ SInv /\ [Next]_vars => SInv'
<1> SUFFICES ASSUME ~disturbed', ~recycled', SInv, [Next]_vars PROVE SInv'
  OBVIOUS
<1> LInv /\ LInv' /\ TypeOK /\ TypeOK'
  BY LInvStep DEF SInv, LInv
<1> USE BoostAssumption DEF threadVars, schedVars, walkVars
<1>0. /\ "frame" \in Actors /\ "loader" \in Actors
      /\ \A a \in Actors : a = "frame" \/ a = "loader"
  BY DEF Actors
<1>1. ASSUME NEW t \in Tids, NEW r \in {"render", "other"}, NEW n \in Givens, ThreadStarts(t, r, n)
      PROVE  SInv'
  <2>1. ~captured(t)
    BY <1>1, Zenon DEF ThreadStarts
  <2>2. ASSUME NEW u \in Tids PROVE (Exact(u) /\ Ahead(u))'
    BY <1>1, <2>1 DEF ThreadStarts, SInv, Exact, Ahead, captured, TypeOK
  <2>3. Turns'
    BY <1>1 DEF ThreadStarts, SInv, Turns, Idle
  <2>4. (AllIdle /\ mAppliedBoost <= 0 => \A u \in live : ~captured(u))'
    BY <1>1, <2>1 DEF ThreadStarts, SInv, AllIdle, Idle, captured
  <2> QED BY <2>2, <2>3, <2>4 DEF SInv
<1>2. ASSUME NEW t \in Tids, ThreadEnds(t) PROVE SInv'
  <2>1. ASSUME NEW u \in Tids PROVE (Exact(u) /\ Ahead(u))'
    BY <1>2 DEF ThreadEnds, SInv, Exact, Ahead, captured
  <2>2. Turns' /\ (AllIdle /\ mAppliedBoost <= 0 => \A u \in live : ~captured(u))'
    BY <1>2 DEF ThreadEnds, SInv, Turns, AllIdle, Idle, captured
  <2> QED BY <2>1, <2>2 DEF SInv
<1>3. ASSUME UNCHANGED <<threadVars, gOriginalPriority>> PROVE \A u \in Tids : Exact(u)'
  BY <1>3 DEF SInv, Exact, captured
<1>4. ASSUME UNCHANGED <<threadVars, gOriginalPriority>>,
             \A a \in Actors : mode'[a] = mode[a] /\ ids'[a] = ids[a] /\ named'[a] = named[a]
      PROVE  \A u \in Tids : Ahead(u)'
  BY <1>4 DEF SInv, Ahead, captured
(* A walk back that begins has every thread before it. *)
<1>5. ASSUME NEW a \in Actors, NEW kind \in {"boost", "restore"}, NEW listed,
             BeginWalk(a, kind, listed), kind = "restore" => listed,
             UNCHANGED <<threadVars, gOriginalPriority>>,
             \A b \in Actors : Idle(b)
      PROVE  /\ \A u \in Tids : Ahead(u)'
             /\ \A b \in Actors : mode'[b] = IF b = a THEN kind ELSE "idle"
  <2>1. \A b \in Actors : mode'[b] = IF b = a THEN kind ELSE "idle"
    BY <1>5 DEF BeginWalk, Idle, TypeOK
  <2>2. kind = "restore" => ids'[a] = live
    BY <1>5 DEF BeginWalk, TypeOK
  <2> QED BY <1>5, <2>1, <2>2 DEF Ahead
<1>6. ASSUME NEW in \in Inputs, onFrame(in) PROVE SInv'
  <2> DEFINE boost == decide(in, mMaxBoost)
  <2>1. boost \in Nat
    BY DecisionIsNat
  <2> HIDE DEF boost
  <2>2. /\ mRunning /\ mRunning' = mRunning /\ UNCHANGED <<threadVars, gOriginalPriority>>
        /\ AllIdle
    BY <1>0, <1>6 DEF onFrame, SInv, Turns, AllIdle, Idle
  <2>3. CASE UNCHANGED <<walkVars, mAppliedBoost>>
    <3>1. Turns' /\ (AllIdle /\ mAppliedBoost <= 0 => \A u \in live : ~captured(u))'
      BY <2>2, <2>3 DEF SInv, Turns, AllIdle, Idle, captured
    <3> QED BY <1>3, <1>4, <2>2, <2>3, <3>1 DEF SInv
  <2>4. CASE apply(boost) /\ (boost > 0 \/ mAppliedBoost > 0)
    <3> DEFINE kind == IF boost > 0 THEN "boost" ELSE "restore"
    <3>0. PICK listed \in BOOLEAN : BeginWalk("frame", kind, listed) /\ disturb(boost = 0 /\ ~listed)
      BY <2>4 DEF apply
    <3>1. decision' = boost /\ (kind = "restore" => listed)
      <4>1. boost = 0 => listed
        BY <3>0, Zenon DEF disturb
      <4>2. decision' = boost
        BY <2>4 DEF apply
      <4> QED BY <2>1, <4>1, <4>2
    <3>2. /\ \A u \in Tids : Ahead(u)'
          /\ \A b \in Actors : mode'[b] = IF b = "frame" THEN kind ELSE "idle"
      BY <1>0, <1>5, <2>2, <3>0, <3>1 DEF AllIdle
    <3>3. mode'["frame"] = kind /\ mode'["loader"] = "idle"
      BY <1>0, <3>2
    <3>4. Turns' /\ ~AllIdle'
      BY <1>0, <2>2, <3>1, <3>3 DEF Turns, AllIdle, Idle
    <3> QED BY <1>3, <2>2, <3>2, <3>4 DEF SInv
  <2>5. CASE apply(boost) /\ ~(boost > 0 \/ mAppliedBoost > 0)
    <3>1. mAppliedBoost' = boost /\ UNCHANGED walkVars /\ mAppliedBoost <= 0
      BY <2>5 DEF apply, TypeOK
    <3>2. \A u \in live : ~captured(u)
      BY <2>2, <3>1 DEF SInv
    <3>3. Turns' /\ (\A u \in live : ~captured(u))'
      BY <2>2, <3>1, <3>2 DEF SInv, Turns, Idle, captured
    <3> QED BY <1>3, <1>4, <2>2, <3>1, <3>3 DEF SInv
  <2> QED BY <1>6, <2>3, <2>4, <2>5 DEF onFrame, boost
<1>7. ASSUME NEW a \in Actors, WalkDone(a), mode[a] = "restore"
      PROVE  \A u \in live : ~captured(u)
  BY <1>7 DEF WalkDone, SInv, Ahead, TypeOK
<1>8. CASE applyReturns
  <2>1. /\ mode'["frame"] = "idle" /\ mode'["loader"] = mode["loader"]
        /\ UNCHANGED <<threadVars, gOriginalPriority, mRunning, ids, named, decision>>
        /\ mAppliedBoost' = decision /\ WalkDone("frame") /\ mode["frame"] # "idle"
    BY <1>0, <1>8 DEF applyReturns, WalkDone, Idle, TypeOK
  <2>2. mRunning /\ mode["loader"] = "idle"
    BY <2>1 DEF SInv, Turns, Idle
  <2>3. Turns'
    BY <2>1, <2>2 DEF Turns, Idle
  <2>4. \A u \in Tids : Ahead(u)'
    BY <1>0, <2>1, <2>2 DEF Ahead
  <2>5. ASSUME mAppliedBoost' <= 0 PROVE (\A u \in live : ~captured(u))'
    <3>1. mode["frame"] = "restore"
      BY <1>0, <2>1, <2>5 DEF SInv, Turns, TypeOK
    <3> QED BY <1>0, <1>7, <2>1, <3>1 DEF captured
  <2> QED BY <1>3, <2>1, <2>3, <2>4, <2>5 DEF SInv
<1>9. ASSUME NEW b \in Boosts, setMaxBoost(b) PROVE SInv'
  <2>1. Turns' /\ (AllIdle /\ mAppliedBoost <= 0 => \A u \in live : ~captured(u))'
    BY <1>9 DEF setMaxBoost, SInv, Turns, AllIdle, Idle, captured
  <2> QED BY <1>3, <1>4, <1>9, <2>1 DEF setMaxBoost, SInv
<1>10. CASE start
  <2>0. Idle("frame")
    BY <1>10, Zenon DEF start, disturb
  <2>1. AllIdle /\ mAppliedBoost = -1
    BY <1>0, <1>10, <2>0 DEF start, SInv, Turns, AllIdle
  <2>2. (\A u \in live : ~captured(u))'
    BY <1>10, <2>1 DEF start, SInv, captured
  <2>3. Turns'
    BY <1>10, <1>0, <2>1 DEF start, Turns, AllIdle, Idle
  <2> QED BY <1>3, <1>4, <1>10, <2>2, <2>3 DEF start, SInv
(* With no live thread recorded, the records can be thrown away. *)
<1>11. ASSUME UNCHANGED threadVars, gOriginalPriority' = [u \in Tids |-> NoRecord],
              \A u \in live : ~captured(u)
       PROVE  (\A u \in Tids : Exact(u) /\ Ahead(u))' /\ (\A u \in live : ~captured(u))'
  <2>1. \A u \in Tids : ~captured(u)'
    BY <1>11 DEF captured, NoRecord
  <2>2. \A u \in Tids : Exact(u)'
    BY <1>11, <2>1 DEF SInv, Exact
  <2>3. \A u \in Tids : Ahead(u)'
    BY <2>1 DEF Ahead
  <2> QED BY <1>11, <2>1, <2>2, <2>3 DEF TypeOK
<1>12. CASE stop
  <2>0. Idle("frame")
    BY <1>12, Zenon DEF stop, disturb
  <2>1. AllIdle /\ mRunning' = FALSE /\ UNCHANGED threadVars
    BY <1>0, <1>12, <2>0 DEF stop, AllIdle
  <2>2. CASE mAppliedBoost > 0
    <3>1. BeginWalk("loader", "restore", TRUE) /\ UNCHANGED gOriginalPriority
      <4>1. PICK listed \in BOOLEAN : BeginWalk("loader", "restore", listed)
                                     /\ disturb(~listed \/ ~Idle("frame"))
        BY <1>12, <2>2 DEF stop
      <4>2. listed
        BY <4>1, Zenon DEF disturb
      <4> QED BY <1>12, <2>2, <4>1, <4>2 DEF stop, BeginWalk
    <3>2. /\ \A u \in Tids : Ahead(u)'
          /\ \A b \in Actors : mode'[b] = IF b = "loader" THEN "restore" ELSE "idle"
      BY <1>0, <1>5, <2>1, <3>1 DEF AllIdle
    <3>3. mode'["frame"] = "idle" /\ mode'["loader"] = "restore"
      BY <1>0, <3>2
    <3>4. Turns' /\ ~AllIdle'
      BY <1>0, <2>1, <3>3 DEF Turns, AllIdle, Idle
    <3> QED BY <1>3, <2>1, <3>1, <3>2, <3>4 DEF SInv
  <2>3. CASE ~(mAppliedBoost > 0)
    <3>1. /\ gOriginalPriority' = [u \in Tids |-> NoRecord] /\ mAppliedBoost' = -1
          /\ UNCHANGED <<mode, ids, named>> /\ mAppliedBoost <= 0
      BY <1>12, <2>3 DEF stop, TypeOK
    <3>2. \A u \in live : ~captured(u)
      BY <2>1, <3>1 DEF SInv
    <3>3. Turns'
      BY <1>0, <2>1, <3>1 DEF Turns, AllIdle, Idle
    <3> QED BY <1>11, <2>1, <3>1, <3>2, <3>3 DEF SInv
  <2> QED BY <2>2, <2>3
<1>13. CASE stopReturns
  <2>1. /\ mode'["loader"] = "idle" /\ mode'["frame"] = mode["frame"]
        /\ UNCHANGED <<threadVars, mRunning>>
        /\ gOriginalPriority' = [u \in Tids |-> NoRecord]
        /\ mAppliedBoost' = -1 /\ WalkDone("loader") /\ mode["loader"] # "idle"
    BY <1>0, <1>13 DEF stopReturns, WalkDone, Idle, TypeOK
  <2>2. ~mRunning /\ mode["frame"] = "idle" /\ mode["loader"] = "restore"
    BY <1>0, <2>1 DEF SInv, Turns, Idle, TypeOK
  <2>3. \A u \in live : ~captured(u)
    BY <1>0, <1>7, <2>1, <2>2
  <2>4. Turns'
    BY <2>1, <2>2 DEF Turns, Idle
  <2> QED BY <1>11, <2>1, <2>3, <2>4 DEF SInv
<1>14. ASSUME NEW a \in Actors, NEW t \in Tids, readThreadName(a, t) PROVE SInv'
  <2>1. /\ UNCHANGED <<threadVars, gOriginalPriority, mRunning, mAppliedBoost, mode, decision>>
        /\ ~Idle(a)
    BY <1>14 DEF readThreadName
  <2>2. Turns' /\ ~AllIdle'
    BY <2>1 DEF SInv, Turns, AllIdle, Idle
  <2>3. ASSUME NEW u \in Tids PROVE Ahead(u)'
    <3> SUFFICES ASSUME NEW b \in Actors, u \in live, captured(u), mode[b] = "restore"
                 PROVE  u \in ids'[b] \/ u = named'[b]
      BY <2>1 DEF Ahead, captured
    <3>1. u \in ids[b] \/ u = named[b]
      BY DEF SInv, Ahead
    <3>2. CASE b # a
      BY <1>14, <3>1, <3>2 DEF readThreadName, TypeOK
    <3>3. CASE b = a /\ u # t
      BY <1>14, <3>1, <3>3 DEF readThreadName, TypeOK
    <3>4. CASE b = a /\ u = t
      <4>1. mode[a] = "restore" /\ IsRenderThread(t)
        BY <3>4 DEF LInv, Recorded, IsRenderThread
      <4>2. named' = [named EXCEPT ![a] = t]
        BY <1>14, <4>1, Zenon DEF readThreadName, disturb
      <4> QED BY <3>4, <4>2 DEF TypeOK
    <3> QED BY <3>2, <3>3, <3>4
  <2> QED BY <1>3, <2>1, <2>2, <2>3 DEF SInv
<1>15. ASSUME NEW a \in Actors, applyBoost(a) PROVE SInv'
  <2>1. PICK t \in Tids : t = named[a] /\ t # NoTid
    BY <1>15 DEF applyBoost, TypeOK
  <2>2. /\ UNCHANGED <<live, role, given, mRunning, mAppliedBoost, mode, decision>>
        /\ mode[a] = "boost"
    BY <1>15 DEF applyBoost
  <2>3. Turns' /\ ~AllIdle'
    BY <2>2 DEF SInv, Turns, AllIdle, Idle
  <2>4. \A b \in Actors : mode'[b] # "restore"
    BY <1>0, <2>2 DEF SInv, Turns, Idle, TypeOK
  <2>5. ASSUME NEW u \in Tids PROVE Exact(u)'
    <3>1. CASE u # t \/ u \notin live
      <4>1. u \in live => nice'[u] = nice[u] /\ gOriginalPriority'[u] = gOriginalPriority[u]
        BY <1>15, <2>1, <3>1 DEF applyBoost, setpriority, TypeOK
      <4>2. Exact(u)
        BY DEF SInv
      <4> QED BY <2>2, <4>1, <4>2 DEF Exact, captured
    <3>2. CASE u = t /\ u \in live /\ captured(t)
      <4>1. gOriginalPriority' = gOriginalPriority
        BY <1>15, <2>1, <3>2 DEF applyBoost
      <4>2. Exact(u)
        BY DEF SInv
      <4> QED BY <2>2, <3>2, <4>1, <4>2 DEF Exact, captured
    <3>3. CASE u = t /\ u \in live /\ ~captured(t)
      <4>1. gOriginalPriority' = [gOriginalPriority EXCEPT ![t] = [nice |-> nice[t], captured |-> TRUE]]
        BY <1>15, <2>1, <3>3 DEF applyBoost
      <4>2. gOriginalPriority'[u] = [nice |-> nice[u], captured |-> TRUE]
        BY <3>3, <4>1 DEF TypeOK
      <4>3. Exact(u)
        BY DEF SInv
      <4>4. nice[u] = given[u]
        BY <3>3, <4>3 DEF Exact
      <4> QED BY <2>2, <4>2, <4>4 DEF Exact, captured
    <3> QED BY <3>1, <3>2, <3>3
  <2> QED BY <2>3, <2>4, <2>5 DEF SInv, Ahead
<1>16. ASSUME NEW a \in Actors, restoreBoost(a) PROVE SInv'
  <2>1. PICK t \in Tids : t = named[a] /\ t # NoTid
    BY <1>16 DEF restoreBoost, TypeOK
  <2>2. /\ UNCHANGED <<live, role, given, mRunning, mAppliedBoost, mode, ids, decision>>
        /\ mode[a] = "restore" /\ named' = [named EXCEPT ![a] = NoTid]
    BY <1>16 DEF restoreBoost
  <2>3. Turns' /\ ~AllIdle'
    BY <2>2 DEF SInv, Turns, AllIdle, Idle
  <2>4. \A u \in Tids \ {t} : nice'[u] = nice[u] /\ gOriginalPriority'[u] = gOriginalPriority[u]
    BY <1>16, <2>1 DEF restoreBoost, setpriority, TypeOK
  <2>5. ~captured(t)'
    <3>1. CASE captured(t)
      <4>1. gOriginalPriority' = [gOriginalPriority EXCEPT ![t] = NoRecord]
        BY <1>16, <2>1, <3>1 DEF restoreBoost
      <4> QED BY <4>1 DEF captured, NoRecord, TypeOK
    <3>2. CASE ~captured(t)
      BY <1>16, <2>1, <3>2 DEF restoreBoost, captured
    <3> QED BY <3>1, <3>2
  <2>6. t \in live => nice'[t] = given[t]
    <3> SUFFICES ASSUME t \in live PROVE nice'[t] = given[t]
      OBVIOUS
    <3>1. Exact(t) /\ Favoured(t)
      BY DEF SInv, LInv
    <3>2. CASE captured(t)
      <4>1. gOriginalPriority[t].nice = given[t] /\ nice[t] <= given[t]
        BY <3>1, <3>2 DEF Exact, Favoured
      <4>2. setpriority(t, given[t])
        BY <1>16, <2>1, <3>2, <4>1 DEF restoreBoost
      <4>3. nice[t] \in Int /\ given[t] \in Int
        BY DEF Nices, TypeOK
      <4>4. nice' = [nice EXCEPT ![t] = given[t]]
        BY <4>1, <4>2, <4>3 DEF setpriority
      <4> QED BY <4>4 DEF TypeOK
    <3>3. CASE ~captured(t)
      BY <1>16, <2>1, <3>1, <3>3 DEF restoreBoost, Exact
    <3> QED BY <3>2, <3>3
  <2>7. ASSUME NEW u \in Tids PROVE Exact(u)'
    <3>1. CASE u = t
      BY <2>2, <2>5, <2>6, <3>1 DEF Exact
    <3>2. CASE u # t
      <4>1. Exact(u)
        BY DEF SInv
      <4> QED BY <2>2, <2>4, <3>2, <4>1 DEF Exact, captured
    <3> QED BY <3>1, <3>2
  <2>8. ASSUME NEW u \in Tids PROVE Ahead(u)'
    <3> SUFFICES ASSUME NEW b \in Actors, u \in live, captured(u)', mode[b] = "restore"
                 PROVE  u \in ids[b] \/ u = named'[b]
      BY <2>2 DEF Ahead
    <3>1. u # t /\ captured(u)
      BY <2>4, <2>5 DEF captured
    <3>2. u \in ids[b] \/ u = named[b]
      BY <3>1 DEF SInv, Ahead
    <3> QED BY <2>1, <2>2, <3>1, <3>2 DEF TypeOK
  <2> QED BY <2>3, <2>7, <2>8 DEF SInv
<1>17. CASE UNCHANGED vars
  <2>1. Turns' /\ (AllIdle /\ mAppliedBoost <= 0 => \A u \in live : ~captured(u))'
    BY <1>17 DEF vars, SInv, Turns, AllIdle, Idle, captured
  <2> QED BY <1>3, <1>4, <1>17, <2>1 DEF vars, SInv
<1> QED BY <1>1, <1>2, <1>6, <1>8, <1>9, <1>10, <1>12, <1>13, <1>14, <1>15, <1>16, <1>17
        DEF Next, Walk

LEMMA SInvInit == Init => SInv
<1> SUFFICES ASSUME Init PROVE SInv
  OBVIOUS
<1>1. LInv
  BY InitType, BoostAssumption DEF Init, LInv, Recorded, Favoured, captured, NoRecord
<1>2. Turns
  BY DEF Init, Turns, Idle, Actors
<1> QED BY <1>1, <1>2 DEF Init, SInv, Exact, Ahead

(* Whatever starts, stops, fails and comes and goes: what has not been        *)
(* disturbed is as SInv says.                                                 *)
IInv == TypeOK /\ (~disturbed /\ ~recycled => SInv)

LEMMA IInvStep == IInv /\ [Next]_vars => IInv'
BY TypeStep, HistoryStep, SInvStep, Zenon DEF IInv, StillKnown

LEMMA IInvInit == Init => IInv
BY InitType, SInvInit DEF IInv

(* Unless stop() or start() cuts into a callback, a walk back misses a thread  *)
(* or an id comes back, every lift is taken back when it should be.            *)
THEOREM ReturnCorrect == Spec => []LiftReturned
<1>1. IInv => LiftReturned
  BY DEF IInv, SInv, LInv, TypeOK, LiftReturned, Exact, AllIdle
<1> QED BY <1>1, IInvInit, IInvStep, PTL DEF Spec

(* And it is taken back in one step, to what the game gave. *)
THEOREM ExactCorrect == Spec => ExactReturn
<1> DEFINE Back == ~disturbed' /\ ~recycled' =>
                     \A t \in live \cap live' : nice'[t] > nice[t] => nice'[t] = given[t]
<1>1. IInv /\ [Next]_vars => [Back]_vars
  <2>0. IInv /\ [Next]_vars /\ ~disturbed' /\ ~recycled' => SInv
    BY HistoryStep, Zenon DEF IInv, StillKnown
  <2> SUFFICES ASSUME SInv, Next, NEW t \in live \cap live', nice'[t] > nice[t]
               PROVE  nice'[t] = given[t]
    BY <2>0 DEF vars
  <2> TypeOK /\ t \in Tids
    BY DEF SInv, LInv, TypeOK
  <2>1. nice[t] \in Int
    BY DEF Nices, TypeOK
  <2>2. CASE nice'[t] = nice[t]
    BY <2>1, <2>2
  <2>3. ASSUME NEW u \in Tids, NEW r \in {"render", "other"}, NEW n \in Givens, ThreadStarts(u, r, n)
        PROVE  nice'[t] = nice[t]
    BY <2>3 DEF ThreadStarts, TypeOK
  <2>4. ASSUME NEW a \in Actors, applyBoost(a) PROVE nice'[t] <= nice[t]
    <3>1. CASE t # named[a] \/ nice' = nice
      BY <2>1, <2>4, <3>1 DEF applyBoost, setpriority, TypeOK
    <3>2. CASE t = named[a] /\ nice' # nice
      <4>1. nice' = [nice EXCEPT ![t] = Greatest(MinNice, nice[t] - decision)]
        BY <2>4, <3>2 DEF applyBoost, setpriority
      <4>2. Greatest(MinNice, nice[t] - decision) <= nice[t]
        BY BoostAssumption DEF SInv, LInv, Favoured, Greatest, Nices, TypeOK
      <4> QED BY <4>1, <4>2 DEF TypeOK
    <3> QED BY <3>1, <3>2
  <2>5. ASSUME NEW a \in Actors, restoreBoost(a) PROVE nice'[t] = nice[t] \/ nice'[t] = given[t]
    <3>1. CASE t = named[a] /\ captured(t)
      <4>1. gOriginalPriority[t].nice = given[t]
        BY <3>1 DEF SInv, Exact
      <4> QED BY <2>5, <3>1, <4>1 DEF restoreBoost, setpriority, TypeOK
    <3>2. CASE t # named[a] \/ ~captured(t)
      BY <2>5, <3>2 DEF restoreBoost, setpriority, TypeOK
    <3> QED BY <3>1, <3>2
  <2>6. ASSUME \/ \E u \in Tids : ThreadEnds(u)
               \/ \E in \in Inputs : onFrame(in)
               \/ applyReturns \/ start \/ stop \/ stopReturns
               \/ \E b \in Boosts : setMaxBoost(b)
               \/ \E a \in Actors, u \in Tids : readThreadName(a, u)
        PROVE  nice' = nice
    BY <2>6 DEF ThreadEnds, onFrame, applyReturns, start, stop, stopReturns, setMaxBoost,
       readThreadName, threadVars
  <2>7. CASE \E a \in Actors : applyBoost(a)
    <3>1. nice'[t] <= nice[t] /\ nice'[t] \in Int
      BY <2>4, <2>7, TypeStep DEF Nices, TypeOK
    <3> QED BY <2>1, <3>1
  <2> QED BY <2>2, <2>3, <2>5, <2>6, <2>7 DEF Next, Walk
<1> QED BY <1>1, IInvInit, IInvStep, PTL DEF Spec, ExactReturn
=============================================================================
