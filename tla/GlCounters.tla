-------------------------------- MODULE GlCounters --------------------------------
(***************************************************************************)
(* GlCounters.h: every thread that issues filtered calls adds them up in a *)
(* batch of its own and folds the batch into the shared totals when it is  *)
(* full; the render thread folds its own once per frame as well, and then  *)
(* may read the totals, for the hook review, the overlay and the log line. *)
(* A fold and a reading go counter by counter, each counter one atomic     *)
(* step, and other threads run in between.  reset() is for the host's      *)
(* tests only.                                                             *)
(***************************************************************************)
EXTENDS Integers, FiniteSets

CONSTANTS
  Threads,       \* threads that issue filtered calls
  Render,        \* the one of them that presents frames
  HookCount,     \* kGlHookCount
  FlushEvery,    \* kFlushEvery
  MaxNoted,      \* bound on the calls of a hook
  MaxExits       \* bound on the threads that end

ASSUME CountersAssumption ==
  /\ Render \in Threads /\ IsFiniteSet(Threads)
  /\ HookCount \in Nat \ {0} /\ FlushEvery \in Nat \ {0}
  /\ MaxNoted \in Nat /\ MaxExits \in Nat

(* The counters, in the order a fold and a reading visit them. *)
Cells == 1 .. 2 * HookCount
callsOf(hook)      == 2 * hook - 1
suppressedOf(hook) == 2 * hook
Zero == [c \in Cells |-> 0]

VARIABLES
  batch, pending,    \* LocalBatch of each thread
  cursor,            \* the cell a thread's fold is at, 0 outside one
  total,             \* mCalls and mSuppressed
  frame,             \* the render thread: in the game, in publish(), past it
  reading, out,      \* the cell snapshot() is at, 0 outside it, and what it has read
  noted, lost,       \* history: what was noted, what went with its thread
  exits              \* and how many threads have ended

shared == <<total, out>>
past   == <<noted, lost, exits>>
vars   == <<batch, pending, cursor, shared, frame, reading, past>>

after(c) == IF c = 2 * HookCount THEN 0 ELSE c + 1

-----------------------------------------------------------------------------
(* What a call of the hook counts in. *)
counts(hook, suppressed) ==
  {callsOf(hook)} \cup IF suppressed THEN {suppressedOf(hook)} ELSE {}
plusOne(count, cells) == [c \in Cells |-> IF c \in cells THEN count[c] + 1 ELSE count[c]]

running(t) == cursor[t] = 0 /\ (t = Render => frame = "game")

(* Slip: the batch is folded one call late. *)
noteLate(t, hook, suppressed) ==
  /\ running(t)
  /\ noted' = plusOne(noted, counts(hook, suppressed))
  /\ batch' = [batch EXCEPT ![t] = plusOne(@, counts(hook, suppressed))]
  /\ pending' = [pending EXCEPT ![t] = @ + 1]
  /\ cursor' = [cursor EXCEPT ![t] = IF pending'[t] > FlushEvery THEN 1 ELSE 0]
  /\ UNCHANGED <<shared, frame, reading, lost, exits>>

(* note: the batch grows, and a full one is folded at once. *)
note(t, hook, suppressed) ==
  /\ running(t)
  /\ noted' = plusOne(noted, counts(hook, suppressed))
  /\ batch' = [batch EXCEPT ![t] = plusOne(@, counts(hook, suppressed))]
  /\ pending' = [pending EXCEPT ![t] = @ + 1]
  /\ cursor' = [cursor EXCEPT ![t] = IF pending'[t] >= FlushEvery THEN 1 ELSE 0]
  /\ UNCHANGED <<shared, frame, reading, lost, exits>>

(* Slip: the cell is left in the batch. *)
foldKeeps(t) ==
  /\ cursor[t] # 0
  /\ total' = [total EXCEPT ![cursor[t]] = @ + batch[t][cursor[t]]]
  /\ cursor' = [cursor EXCEPT ![t] = after(@)]
  /\ pending' = IF cursor'[t] = 0 THEN [pending EXCEPT ![t] = 0] ELSE pending
  /\ frame' = IF t = Render /\ frame = "publish" /\ cursor'[t] = 0 THEN "readers" ELSE frame
  /\ UNCHANGED <<batch, reading, out, past>>

(* flush, one cell: into the total and out of the batch, which is empty after *)
(* the last.                                                                  *)
fold(t) ==
  /\ cursor[t] # 0
  /\ total' = [total EXCEPT ![cursor[t]] = @ + batch[t][cursor[t]]]
  /\ batch' = [batch EXCEPT ![t][cursor[t]] = 0]
  /\ cursor' = [cursor EXCEPT ![t] = after(@)]
  /\ pending' = IF cursor'[t] = 0 THEN [pending EXCEPT ![t] = 0] ELSE pending
  /\ frame' = IF t = Render /\ frame = "publish" /\ cursor'[t] = 0 THEN "readers" ELSE frame
  /\ UNCHANGED <<reading, out, past>>

(* Slip: a small batch is not worth a fold. *)
publishFull ==
  /\ running(Render)
  /\ IF 2 * pending[Render] < FlushEvery
     THEN frame' = "readers" /\ UNCHANGED cursor
     ELSE frame' = "publish" /\ cursor' = [cursor EXCEPT ![Render] = 1]
  /\ UNCHANGED <<batch, pending, shared, reading, past>>

(* publish(), from the frame callback: only the caller's batch is folded. *)
publish ==
  /\ running(Render)
  /\ IF pending[Render] = 0
     THEN frame' = "readers" /\ UNCHANGED cursor
     ELSE frame' = "publish" /\ cursor' = [cursor EXCEPT ![Render] = 1]
  /\ UNCHANGED <<batch, pending, shared, reading, past>>

(* snapshot(), taken by what follows in the callback, none, one or more times; *)
(* the last reading is kept until the next.                                    *)
snapshot ==
  /\ frame = "readers"
  /\ \/ reading = 0 /\ reading' = 1 /\ out' = Zero
     \/ /\ reading # 0
        /\ out' = [out EXCEPT ![reading] = total[reading]]
        /\ reading' = after(reading)
  /\ UNCHANGED <<batch, pending, cursor, total, frame, past>>

endFrame ==
  /\ frame = "readers" /\ reading = 0
  /\ frame' = "game"
  /\ UNCHANGED <<batch, pending, cursor, shared, reading, past>>

(* A worker ends and another takes its place: a batch has no destructor. *)
threadExit(t) ==
  /\ t # Render /\ cursor[t] = 0
  /\ lost' = [c \in Cells |-> lost[c] + batch[t][c]]
  /\ batch' = [batch EXCEPT ![t] = Zero]
  /\ pending' = [pending EXCEPT ![t] = 0]
  /\ exits' = exits + 1
  /\ UNCHANGED <<cursor, shared, frame, reading, noted>>

-----------------------------------------------------------------------------
Init ==
  /\ batch = [t \in Threads |-> Zero] /\ pending = [t \in Threads |-> 0]
  /\ cursor = [t \in Threads |-> 0]
  /\ total = Zero /\ frame = "game" /\ reading = 0 /\ out = Zero
  /\ noted = Zero /\ lost = Zero /\ exits = 0

Next ==
  \/ \E t \in Threads, h \in 1 .. HookCount, s \in BOOLEAN :
       noted[callsOf(h)] < MaxNoted /\ note(t, h, s)
  \/ \E t \in Threads : fold(t)
  \/ publish
  \/ snapshot
  \/ endFrame
  \/ exits < MaxExits /\ \E t \in Threads : threadExit(t)

(* The game goes on presenting frames, and a callback that has begun goes on. *)
Fairness == WF_vars(publish) /\ WF_vars(fold(Render)) /\ WF_vars(endFrame)
            /\ WF_vars(reading # 0 /\ snapshot)

Spec == Init /\ [][Next]_vars /\ Fairness

-----------------------------------------------------------------------------
(* Types; a batch holds no more than it has pending, nor that than it may. *)
TypeOK ==
  /\ batch \in [Threads -> [Cells -> Nat]] /\ pending \in [Threads -> 0 .. FlushEvery]
  /\ cursor \in [Threads -> {0} \cup Cells] /\ reading \in {0} \cup Cells
  /\ \A count \in {total, out, noted, lost} : count \in [Cells -> Nat]
  /\ frame \in {"game", "publish", "readers"}
  /\ exits \in Nat
  /\ \A t \in Threads, c \in Cells : batch[t][c] <= pending[t]

(* "It only ever needs to be approximately current" (GlCounters.h): the totals *)
(* never run ahead of what was noted, count nothing twice, never go back, and  *)
(* lag by no more than the batches the threads may hold; a thread that ends    *)
(* takes less than a batch with it ("small enough that the overlay is not      *)
(* showing stale numbers").                                                    *)
Promise == INSTANCE Tally WITH
  Counters <- Cells, Slack <- Cardinality(Threads) * FlushEvery, Share <- FlushEvery - 1,
  visible <- total

ImplementsTally == Promise!Spec

(* A reading misses none of the render thread's own calls, and is not ahead of  *)
(* the totals: the callback publishes before anything of it reads.              *)
ReadsOwnCalls ==
  /\ frame = "readers" => batch[Render] = Zero
  /\ \A c \in Cells : out[c] <= total[c]

(* "So a thread that goes quiet does not strand the last few counts": true of   *)
(* the render thread, whose calls are counted at the next frame.                *)
RenderCounted == pending[Render] > 0 ~> pending[Render] = 0
=============================================================================
