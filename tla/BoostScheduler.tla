----------------------------- MODULE BoostScheduler -----------------------------
(***************************************************************************)
(* The scheduler of the render threads (ThreadScheduler.cpp).  The frame    *)
(* callback samples a decision and walks the threads of the process to      *)
(* apply it or to take it back; the loader's thread starts and stops the    *)
(* scheduler, and stop() walks them too.  A walk lists the thread ids once, *)
(* then for each of them reads its name and, in a later step, changes its   *)
(* priority; threads come and go meanwhile.                                 *)
(*                                                                         *)
(* Each access to the map of recorded priorities is atomic here; in the     *)
(* code two walks at once also race on the map.                             *)
(***************************************************************************)
EXTENDS FrameGovernor

CONSTANTS
  Tids,          \* thread ids of the process
  NoTid,
  Givens,        \* nice values the game gives its threads
  MinNice,       \* the most favourable nice value, -20 on Linux
  Boosts,        \* values of the option maxWorkerBoost, clamped
  Inputs,        \* the statistics a frame may come with
  SamplePeriod   \* kSamplePeriodFrames

ASSUME BoostAssumption ==
  /\ NoTid \notin Tids
  /\ MinNice \in Int /\ MinNice <= 0 /\ Givens \subseteq {n \in Int : n >= MinNice}
  /\ Boosts \subseteq Nat /\ SamplePeriod \in Nat \ {0}
  /\ Inputs \subseteq FrameInputs(Int, Int)

VARIABLES
  \* the threads: alive, named like a render thread or not, their nice value, and
  \* (history) the one the game gave them
  live, role, nice, given,
  \* ThreadScheduler
  mRunning, mFrameCounter, mAppliedBoost, mMaxBoost, gOriginalPriority,
  \* the walk of each actor: its kind, the ids left, the id whose name matched;
  \* and the boost the frame callback is applying
  mode, ids, named, decision,
  \* history: a walk that takes lifts back missed a thread, or the scheduler was
  \* started or stopped in the middle of a callback; and the id of a thread that
  \* still had a record, or was about to be changed, was given to a new one
  disturbed, recycled

threadVars == <<live, role, nice, given>>
schedVars  == <<mRunning, mFrameCounter, mAppliedBoost, mMaxBoost>>
walkVars   == <<mode, ids, named, decision>>
history    == <<disturbed, recycled>>
vars == <<threadVars, schedVars, gOriginalPriority, walkVars, history>>

Actors == {"frame", "loader"}
Nices == {n \in Int : n >= MinNice}
NoRecord == [nice |-> 0, captured |-> FALSE]
captured(t) == gOriginalPriority[t].captured
Idle(a) == mode[a] = "idle"

-----------------------------------------------------------------------------
(* The game and the system, which may give the id of a dead thread to a new one. *)
ThreadStarts(t, r, n) ==
  /\ t \notin live
  /\ live' = live \cup {t}
  /\ role' = [role EXCEPT ![t] = r]
  /\ nice' = [nice EXCEPT ![t] = n] /\ given' = [given EXCEPT ![t] = n]
  /\ recycled' = (recycled \/ captured(t) \/ \E a \in Actors : named[a] = t)
  /\ UNCHANGED <<schedVars, gOriginalPriority, walkVars, disturbed>>

ThreadEnds(t) ==
  /\ t \in live
  /\ live' = live \ {t}
  /\ UNCHANGED <<role, nice, given, schedVars, gOriginalPriority, walkVars, history>>

-----------------------------------------------------------------------------
disturb(why) == disturbed' = (disturbed \/ why)

(* forEachRenderThread.  Listing the threads or reading a name may fail. *)
BeginWalk(a, kind, listed) ==
  /\ mode' = [mode EXCEPT ![a] = kind]
  /\ ids' = [ids EXCEPT ![a] = IF listed THEN live ELSE {}]
  /\ named' = [named EXCEPT ![a] = NoTid]

IsRenderThread(t) == t \in live /\ role[t] = "render"

(* Slip: the name of the thread is not looked at. *)
anyThreadName(a, t) ==
  /\ ~Idle(a) /\ named[a] = NoTid /\ t \in ids[a]
  /\ ids' = [ids EXCEPT ![a] = @ \ {t}]
  /\ named' = [named EXCEPT ![a] = t]
  /\ UNCHANGED <<threadVars, schedVars, gOriginalPriority, mode, decision, history>>

readThreadName(a, t) ==
  /\ ~Idle(a) /\ named[a] = NoTid /\ t \in ids[a]
  /\ ids' = [ids EXCEPT ![a] = @ \ {t}]
  /\ \/ IsRenderThread(t) /\ named' = [named EXCEPT ![a] = t] /\ UNCHANGED disturbed
     \/ UNCHANGED named /\ disturb(mode[a] = "restore" /\ IsRenderThread(t))
  /\ UNCHANGED <<threadVars, schedVars, gOriginalPriority, mode, decision, recycled>>

(* setpriority takes effect on a live thread; the system may refuse a raise *)
(* of priority, never a return to a lower one.                              *)
setpriority(t, value) ==
  \/ t \in live /\ nice' = [nice EXCEPT ![t] = value]
  \/ (t \notin live \/ value < nice[t]) /\ nice' = nice

Greatest(a, b) == IF a >= b THEN a ELSE b

(* Slip: every boost records the priority it finds. *)
applyBoostRecaptures(a) ==
  /\ mode[a] = "boost" /\ named[a] # NoTid
  /\ LET t == named[a]
     IN IF t \in live
        THEN /\ gOriginalPriority' = [gOriginalPriority EXCEPT ![t] =
                                        [nice |-> nice[t], captured |-> TRUE]]
             /\ setpriority(t, Greatest(MinNice, nice[t] - decision))
        ELSE UNCHANGED <<gOriginalPriority, nice>>
  /\ named' = [named EXCEPT ![a] = NoTid]
  /\ UNCHANGED <<live, role, given, schedVars, mode, ids, decision, history>>

(* Slip: a lift on a lift goes past the best priority there is. *)
applyBoostUnclamped(a) ==
  /\ mode[a] = "boost" /\ named[a] # NoTid
  /\ LET t == named[a]
     IN IF t \in live
        THEN /\ gOriginalPriority' = IF captured(t) THEN gOriginalPriority
                                     ELSE [gOriginalPriority EXCEPT ![t] =
                                             [nice |-> nice[t], captured |-> TRUE]]
             /\ setpriority(t, nice[t] - decision)
        ELSE UNCHANGED <<gOriginalPriority, nice>>
  /\ named' = [named EXCEPT ![a] = NoTid]
  /\ UNCHANGED <<live, role, given, schedVars, mode, ids, decision, history>>

applyBoost(a) ==
  /\ mode[a] = "boost" /\ named[a] # NoTid
  /\ LET t == named[a]
     IN IF t \in live
        THEN /\ gOriginalPriority' = IF captured(t) THEN gOriginalPriority
                                     ELSE [gOriginalPriority EXCEPT ![t] =
                                             [nice |-> nice[t], captured |-> TRUE]]
             /\ setpriority(t, Greatest(MinNice, nice[t] - decision))
        ELSE UNCHANGED <<gOriginalPriority, nice>>
  /\ named' = [named EXCEPT ![a] = NoTid]
  /\ UNCHANGED <<live, role, given, schedVars, mode, ids, decision, history>>

restoreBoost(a) ==
  /\ mode[a] = "restore" /\ named[a] # NoTid
  /\ LET t == named[a]
     IN IF captured(t)
        THEN /\ setpriority(t, gOriginalPriority[t].nice)
             /\ gOriginalPriority' = [gOriginalPriority EXCEPT ![t] = NoRecord]
        ELSE UNCHANGED <<gOriginalPriority, nice>>
  /\ named' = [named EXCEPT ![a] = NoTid]
  /\ UNCHANGED <<live, role, given, schedVars, mode, ids, decision, history>>

WalkDone(a) == ~Idle(a) /\ named[a] = NoTid /\ ids[a] = {}

-----------------------------------------------------------------------------
(* apply(): a boost is given to every render thread, none is taken back from *)
(* those that have one, and the first decision not to boost has no one to    *)
(* take it from.                                                             *)
apply(boost) ==
  IF boost > 0 \/ mAppliedBoost > 0
  THEN /\ \E listed \in BOOLEAN :
            /\ BeginWalk("frame", IF boost > 0 THEN "boost" ELSE "restore", listed)
            /\ disturb(boost = 0 /\ ~listed)
       /\ decision' = boost
       /\ UNCHANGED mAppliedBoost
  ELSE mAppliedBoost' = boost /\ UNCHANGED <<walkVars, disturbed>>

(* A frame of a running scheduler.  Only every SamplePeriod-th decision is   *)
(* looked at, and only one that differs from the last one applied is.  Of    *)
(* the frame counter the code reads the remainder only, which is what is kept. *)
onFrame(in) ==
  /\ mRunning /\ Idle("frame")
  /\ mFrameCounter' = (mFrameCounter + 1) % SamplePeriod
  /\ LET boost == decide(in, mMaxBoost)
     IN IF (mFrameCounter' # 0 \/ boost = mAppliedBoost)
        THEN UNCHANGED <<walkVars, mAppliedBoost, disturbed>>
        ELSE apply(boost)
  /\ UNCHANGED <<threadVars, mRunning, mMaxBoost, gOriginalPriority, recycled>>

(* The callback has walked the threads: the decision counts as applied. *)
applyReturns ==
  /\ WalkDone("frame")
  /\ mAppliedBoost' = decision
  /\ mode' = [mode EXCEPT !["frame"] = "idle"]
  /\ UNCHANGED <<threadVars, mRunning, mFrameCounter, mMaxBoost, gOriginalPriority,
                 ids, named, decision, history>>

(* From enable() and from the menu, at any time. *)
setMaxBoost(maxBoost) ==
  /\ maxBoost # mMaxBoost
  /\ mMaxBoost' = maxBoost
  /\ UNCHANGED <<threadVars, mRunning, mFrameCounter, mAppliedBoost, gOriginalPriority,
                 walkVars, history>>

start ==
  /\ ~mRunning /\ Idle("loader")
  /\ mRunning' = TRUE /\ mFrameCounter' = 0 /\ mAppliedBoost' = -1
  /\ disturb(~Idle("frame"))
  /\ UNCHANGED <<threadVars, mMaxBoost, gOriginalPriority, walkVars, recycled>>

(* Slip: the records are dropped without a walk to return the lifts. *)
stopForgets ==
  /\ mRunning /\ Idle("loader")
  /\ mRunning' = FALSE
  /\ gOriginalPriority' = [t \in Tids |-> NoRecord] /\ mAppliedBoost' = -1
  /\ disturb(~Idle("frame"))
  /\ UNCHANGED <<threadVars, mFrameCounter, mMaxBoost, walkVars, recycled>>

(* From disable(), in the middle of a callback or not. *)
stop ==
  /\ mRunning /\ Idle("loader")
  /\ mRunning' = FALSE
  /\ IF mAppliedBoost > 0
     THEN /\ \E listed \in BOOLEAN :
               BeginWalk("loader", "restore", listed) /\ disturb(~listed \/ ~Idle("frame"))
          /\ UNCHANGED <<gOriginalPriority, mAppliedBoost>>
     ELSE /\ gOriginalPriority' = [t \in Tids |-> NoRecord] /\ mAppliedBoost' = -1
          /\ UNCHANGED <<mode, ids, named>> /\ disturb(~Idle("frame"))
  /\ UNCHANGED <<threadVars, mFrameCounter, mMaxBoost, decision, recycled>>

stopReturns ==
  /\ WalkDone("loader")
  /\ gOriginalPriority' = [t \in Tids |-> NoRecord] /\ mAppliedBoost' = -1
  /\ mode' = [mode EXCEPT !["loader"] = "idle"]
  /\ UNCHANGED <<threadVars, mRunning, mFrameCounter, mMaxBoost, ids, named, decision, history>>

-----------------------------------------------------------------------------
Init ==
  /\ live = {}
  /\ role = [t \in Tids |-> "other"]
  /\ nice = [t \in Tids |-> MinNice] /\ given = nice
  /\ mRunning = FALSE /\ mFrameCounter = 0 /\ mAppliedBoost = -1 /\ mMaxBoost \in Boosts
  /\ gOriginalPriority = [t \in Tids |-> NoRecord]
  /\ mode = [a \in Actors |-> "idle"] /\ ids = [a \in Actors |-> {}]
  /\ named = [a \in Actors |-> NoTid] /\ decision = 0
  /\ disturbed = FALSE /\ recycled = FALSE

Walk ==
  \E a \in Actors :
    \/ \E t \in Tids : readThreadName(a, t)
    \/ applyBoost(a)
    \/ restoreBoost(a)

Next ==
  \/ \E t \in Tids, r \in {"render", "other"}, n \in Givens : ThreadStarts(t, r, n)
  \/ \E t \in Tids : ThreadEnds(t)
  \/ \E in \in Inputs : onFrame(in)
  \/ applyReturns
  \/ \E maxBoost \in Boosts : setMaxBoost(maxBoost)
  \/ start
  \/ stop
  \/ stopReturns
  \/ Walk

Spec == Init /\ [][Next]_vars

-----------------------------------------------------------------------------
(* Types: no priority, given or set, is better than the best there is. *)
TypeOK ==
  /\ live \subseteq Tids
  /\ role \in [Tids -> {"render", "other"}]
  /\ nice \in [Tids -> Nices] /\ given \in [Tids -> Nices]
  /\ mRunning \in BOOLEAN /\ mFrameCounter \in 0 .. SamplePeriod - 1
  /\ mAppliedBoost \in Int /\ mMaxBoost \in Boosts
  /\ gOriginalPriority \in [Tids -> [nice : Nices, captured : BOOLEAN]]
  /\ mode \in [Actors -> {"idle", "boost", "restore"}] /\ mode["loader"] # "boost"
  /\ ids \in [Actors -> SUBSET Tids] /\ named \in [Actors -> Tids \cup {NoTid}]
  /\ decision \in Nat
  /\ disturbed \in BOOLEAN /\ recycled \in BOOLEAN

(* "Fully reversible", "handed back exactly": whenever no lift is meant to   *)
(* be in force (the last decision was none, or the scheduler is stopped) and *)
(* no walk is under way, every thread has the priority the game gave it,     *)
(* unless a walk back was cut short or an id came back with another thread.  *)
LiftReturned ==
  ~disturbed /\ ~recycled /\ (\A a \in Actors : Idle(a)) /\ mAppliedBoost <= 0 =>
    \A t \in live : nice[t] = given[t]

(* "Only ever moves a thread toward more favourable scheduling", and         *)
(* "anything absent from this list is left completely alone", whatever walks *)
(* overlap and whatever fails, as long as ids stay with their threads.       *)
OnlyRenderThreadsLifted ==
  ~recycled =>
    \A t \in live : nice[t] <= given[t] /\ (role[t] = "other" => nice[t] = given[t])

(* A priority that is lowered goes back to the one the game gave, in one     *)
(* step: no thread is left half way.                                         *)
ExactReturn ==
  [][~disturbed' /\ ~recycled' =>
       \A t \in live \cap live' : nice'[t] > nice[t] => nice'[t] = given[t]]_vars
=============================================================================
