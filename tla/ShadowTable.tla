------------------------------ MODULE ShadowTable ------------------------------
(***************************************************************************)
(* The table of context shadows, and the threads that use it               *)
(* (GlInterceptor::shadow, noteContextCreated, noteContextDestroyed, and   *)
(* the EGL detours that call them).                                        *)
(*                                                                         *)
(* A detour looks up the slot of the calling thread's context, through a   *)
(* thread-local cache validated by a generation count or else by a scan    *)
(* under mContextMutex, and then works on the slot without any lock.  A    *)
(* step is one access to shared memory, one critical section or one call   *)
(* of the driver.  The shadow is abstracted to a single value field that a *)
(* new context holds at 1 (depthMask, say): module GlDetours has the rest. *)
(***************************************************************************)
EXTENDS Integers, FiniteSets

CONSTANTS
  Threads,
  Handles,         \* EGLContext handles, which the driver gives out again
  None,            \* handle 0, the null slot pointer
  MaxContexts,     \* kMaxContexts, the number of slots
  MaxGeneration    \* bound on mContextGeneration

Slots == 1 .. MaxContexts
Bit   == 0 .. 1
Fresh == 1

ASSUME TableAssumption ==
  /\ None \notin Handles /\ None \notin Slots
  /\ MaxContexts \in Nat
  /\ MaxGeneration \in Nat

VARIABLES
  driver,      \* the driver's value of the field, per handle
  live,        \* handles of contexts the driver has
  known,       \* handles the game may use
  current,     \* the context current on each thread
  slotHandle,  \* mContexts[s].handle, None when the slot is not used
  slotState,   \* mContexts[s].state
  generation,  \* mContextGeneration
  cache,       \* mCache of each thread
  pc, value, seen, slot, handle,  \* where a thread is, and its locals
  strayed      \* history: a slot was freed while a detour was at work on it

driverVars == <<driver, live, known, current>>
tableVars  == <<slotHandle, slotState, generation>>
localVars  == <<value, seen, slot, handle>>
vars == <<driverVars, tableVars, cache, pc, localVars, strayed>>

(* Slip: the scan leaves out the first slot. *)
LookupFromSecond(h) == IF \E s \in Slots \ {1} : slotHandle[s] = h
                       THEN CHOOSE s \in Slots \ {1} : slotHandle[s] = h ELSE None

Lookup(h) == IF \E s \in Slots : slotHandle[s] = h
             THEN CHOOSE s \in Slots : slotHandle[s] = h ELSE None

Goto(t, label) == pc' = [pc EXCEPT ![t] = label]

-----------------------------------------------------------------------------
(* A GL state call on thread t, with value v.                              *)

(* Slip: a cache hit is decided by the generation alone. *)
StartCallAnyHandle(t, v) ==
  LET hit == cache[t].generation = generation /\ cache[t].handle # None
  IN /\ pc[t] = "idle" /\ current[t] # None
     /\ value' = [value EXCEPT ![t] = v]
     /\ seen' = [seen EXCEPT ![t] = generation]
     /\ IF hit THEN /\ slot' = [slot EXCEPT ![t] = cache[t].slot]
                    /\ Goto(t, IF cache[t].slot = None THEN "forward" ELSE "compare")
               ELSE slot' = slot /\ Goto(t, "scan")
     /\ UNCHANGED <<driverVars, tableVars, cache, handle, strayed>>

(* shadow(): the generation is read before the cache is judged by it. *)
StartCall(t, v) ==
  LET hit == cache[t].generation = generation /\ cache[t].handle = current[t]
  IN /\ pc[t] = "idle" /\ current[t] # None
     /\ value' = [value EXCEPT ![t] = v]
     /\ seen' = [seen EXCEPT ![t] = generation]
     /\ IF hit THEN /\ slot' = [slot EXCEPT ![t] = cache[t].slot]
                    /\ Goto(t, IF cache[t].slot = None THEN "forward" ELSE "compare")
               ELSE slot' = slot /\ Goto(t, "scan")
     /\ UNCHANGED <<driverVars, tableVars, cache, handle, strayed>>

(* Slip: the detour does not ask whether the scan found a slot. *)
ScanUnchecked(t) ==
  /\ pc[t] = "scan"
  /\ slot' = [slot EXCEPT ![t] = Lookup(current[t])]
  /\ Goto(t, "compare")
  /\ UNCHANGED <<driverVars, tableVars, cache, value, seen, handle, strayed>>

(* The scan, under the lock.  The cache remembers the generation read before. *)
Scan(t) ==
  LET found == Lookup(current[t])
  IN /\ pc[t] = "scan"
     /\ slot' = [slot EXCEPT ![t] = found]
     /\ cache' = [cache EXCEPT ![t] =
                    [generation |-> seen[t], handle |-> current[t], slot |-> found]]
     /\ Goto(t, IF found = None THEN "forward" ELSE "compare")
     /\ UNCHANGED <<driverVars, tableVars, value, seen, handle, strayed>>

(* The detour itself holds no lock. *)
Compare(t) ==
  /\ pc[t] = "compare"
  /\ Goto(t, IF slotState[slot[t]] = value[t] THEN "idle" ELSE "learn")
  /\ UNCHANGED <<driverVars, tableVars, cache, localVars, strayed>>

Learn(t) ==
  /\ pc[t] = "learn"
  /\ slotState' = [slotState EXCEPT ![slot[t]] = value[t]]
  /\ Goto(t, "forward")
  /\ UNCHANGED <<driverVars, slotHandle, generation, cache, localVars, strayed>>

ForwardCall(t) ==
  /\ pc[t] = "forward"
  /\ driver' = [driver EXCEPT ![current[t]] = value[t]]
  /\ Goto(t, "idle")
  /\ UNCHANGED <<live, known, current, tableVars, cache, localVars, strayed>>

-----------------------------------------------------------------------------
(* The EGL detours.  The driver is called first, the table told afterwards. *)

InUse(h) == \E t \in Threads : current[t] = h

BeingDestroyed(h) == \E t \in Threads : pc[t] = "noteDestroyed" /\ handle[t] = h

(* A context that is current when it is destroyed keeps its handle until    *)
(* it is released; any other handle may come back at once, before the table *)
(* was told of the destruction.                                             *)
eglCreateContext(t, h) ==
  /\ pc[t] = "idle" /\ generation < MaxGeneration
  /\ h \notin live /\ ~InUse(h)
  /\ live' = live \cup {h}
  /\ driver' = [driver EXCEPT ![h] = Fresh]
  /\ handle' = [handle EXCEPT ![t] = h]
  /\ Goto(t, "noteCreated")
  /\ UNCHANGED <<known, current, tableVars, cache, value, seen, slot, strayed>>

FreeSlots == {s \in Slots : slotHandle[s] = None}

(* Slip: the new owner of a slot finds the state of the last one. *)
noteContextCreatedStale(t) ==
  LET h == handle[t]
  IN /\ pc[t] = "noteCreated"
     /\ IF Lookup(h) # None \/ FreeSlots = {}
        THEN UNCHANGED tableVars
        ELSE /\ \E s \in FreeSlots : slotHandle' = [slotHandle EXCEPT ![s] = h]
             /\ generation' = generation + 1
             /\ UNCHANGED slotState
     /\ known' = known \cup {h}
     /\ Goto(t, "idle")
     /\ UNCHANGED <<driver, live, current, cache, localVars, strayed>>

(* Nothing happens for a handle that has a slot, or when no slot is free. *)
noteContextCreated(t) ==
  LET h == handle[t]
  IN /\ pc[t] = "noteCreated"
     /\ IF Lookup(h) # None \/ FreeSlots = {}
        THEN UNCHANGED tableVars
        ELSE \E s \in FreeSlots :
               /\ \A r \in FreeSlots : s <= r
               /\ slotHandle' = [slotHandle EXCEPT ![s] = h]
               /\ slotState' = [slotState EXCEPT ![s] = Fresh]
               /\ generation' = generation + 1
     /\ known' = known \cup {h}
     /\ Goto(t, "idle")
     /\ UNCHANGED <<driver, live, current, cache, localVars, strayed>>

(* Of any context, current or not.  The driver may refuse; the table is told  *)
(* all the same.                                                             *)
eglDestroyContext(t, h, succeeds) ==
  /\ pc[t] = "idle" /\ generation < MaxGeneration
  /\ h \in known
  /\ live'  = IF succeeds THEN live \ {h} ELSE live
  /\ known' = IF succeeds THEN known \ {h} ELSE known
  /\ handle' = [handle EXCEPT ![t] = h]
  /\ Goto(t, "noteDestroyed")
  /\ UNCHANGED <<driver, current, tableVars, cache, value, seen, slot, strayed>>

AtWorkOn(s) == \E u \in Threads : pc[u] \in {"compare", "learn"} /\ slot[u] = s

(* Slip: the slot is freed without a new generation. *)
noteContextDestroyedQuietly(t) ==
  /\ pc[t] = "noteDestroyed"
  /\ slotHandle' = [s \in Slots |-> IF slotHandle[s] = handle[t] THEN None ELSE slotHandle[s]]
  /\ Goto(t, "idle")
  /\ UNCHANGED <<driverVars, slotState, generation, cache, localVars, strayed>>

noteContextDestroyed(t) ==
  LET s == Lookup(handle[t])
  IN /\ pc[t] = "noteDestroyed"
     /\ IF s = None
        THEN UNCHANGED <<tableVars, strayed>>
        ELSE /\ slotHandle' = [slotHandle EXCEPT ![s] = None]
             /\ generation' = generation + 1
             /\ strayed' = (strayed \/ AtWorkOn(s))
             /\ UNCHANGED slotState
     /\ Goto(t, "idle")
     /\ UNCHANGED <<driverVars, cache, localVars>>

(* A context is current to one thread at a time.  Nothing is reset. *)
eglMakeCurrent(t, h) ==
  /\ pc[t] = "idle"
  /\ h = None \/ (h \in known /\ ~InUse(h))
  /\ current' = [current EXCEPT ![t] = h]
  /\ UNCHANGED <<driver, live, known, tableVars, cache, pc, localVars, strayed>>

-----------------------------------------------------------------------------
(* The contexts that exist when the hooks are installed are not in the table. *)
Init ==
  /\ driver = [h \in Handles |-> Fresh]
  /\ live \in SUBSET Handles
  /\ known = live
  /\ current = [t \in Threads |-> None]
  /\ slotHandle = [s \in Slots |-> None]
  /\ slotState = [s \in Slots |-> Fresh]
  /\ generation = 0
  /\ cache = [t \in Threads |-> [generation |-> 0, handle |-> None, slot |-> None]]
  /\ pc = [t \in Threads |-> "idle"]
  /\ value = [t \in Threads |-> Fresh]
  /\ seen = [t \in Threads |-> 0]
  /\ slot = [t \in Threads |-> None]
  /\ handle = [t \in Threads |-> None]
  /\ strayed = FALSE

Next == \E t \in Threads :
  \/ \E v \in Bit : StartCall(t, v)
  \/ Scan(t)
  \/ Compare(t)
  \/ Learn(t)
  \/ ForwardCall(t)
  \/ \E h \in Handles : eglCreateContext(t, h)
  \/ noteContextCreated(t)
  \/ \E h \in Handles, succeeds \in BOOLEAN : eglDestroyContext(t, h, succeeds)
  \/ noteContextDestroyed(t)
  \/ \E h \in Handles \cup {None} : eglMakeCurrent(t, h)

Spec == Init /\ [][Next]_vars

-----------------------------------------------------------------------------
(* Types: every slot pointer a thread works through is a slot of the table. *)
Labels == {"idle", "scan", "compare", "learn", "forward", "noteCreated", "noteDestroyed"}

TypeOK ==
  /\ driver \in [Handles -> Bit]
  /\ live \subseteq Handles /\ known \subseteq Handles
  /\ current \in [Threads -> Handles \cup {None}]
  /\ slotHandle \in [Slots -> Handles \cup {None}]
  /\ slotState \in [Slots -> Bit]
  /\ generation \in Nat
  /\ cache \in [Threads -> [generation : Nat, handle : Handles \cup {None},
                            slot : Slots \cup {None}]]
  /\ pc \in [Threads -> Labels]
  /\ value \in [Threads -> Bit]
  /\ seen \in [Threads -> Nat]
  /\ slot \in [Threads -> Slots \cup {None}]
  /\ handle \in [Threads -> Handles \cup {None}] /\ strayed \in BOOLEAN
  /\ \A t \in Threads :
       /\ pc[t] \in {"compare", "learn"} => slot[t] \in Slots
       /\ pc[t] \in {"noteCreated", "noteDestroyed"} => handle[t] \in Handles
       /\ pc[t] \in {"scan", "compare", "learn", "forward"} => current[t] # None

(* Two threads that create and destroy contexts never give a handle two slots. *)
OneSlotPerHandle == \A r, s \in Slots :
  slotHandle[r] = slotHandle[s] /\ slotHandle[r] # None => r = s

(* "a cached pointer can never outlive the slot it points into": a cache    *)
(* entry of the current generation says what a scan would say now.          *)
CacheSound == \A t \in Threads :
  cache[t].generation = generation /\ cache[t].handle # None
    => cache[t].slot = Lookup(cache[t].handle)

(* "a filter decision only touches the current context's own state": the    *)
(* slot a detour compares with and writes to is its own context's, until    *)
(* one is freed in the middle of the detour that is at work on it.          *)
OwnSlot == ~strayed => \A t \in Threads :
  pc[t] \in {"compare", "learn"} => slotHandle[slot[t]] = current[t]

(* What a thread finds in the table about a context it may use is what the  *)
(* driver holds, but for a call that is on its way there, and but for a     *)
(* handle that came back while the table had yet to be told of the context  *)
(* that had it.  Once it was told, the handle's new context has no slot, or *)
(* a fresh one.                                                             *)
ShadowSound == ~strayed => \A s \in Slots :
  slotHandle[s] \in known /\ ~BeingDestroyed(slotHandle[s]) =>
    \/ slotState[s] = driver[slotHandle[s]]
    \/ \E t \in Threads : /\ current[t] = slotHandle[s] /\ pc[t] = "forward"
                          /\ slotState[s] = value[t]

(* The table as the map it stands for: what a scan would find.              *)
Followed == {h \in Handles : Lookup(h) # None}

Map == INSTANCE ShadowMap WITH shadow <- [h \in Followed |-> slotState[Lookup(h)]],
                               Values <- Bit

(* "The shadow is per context: every context created after the hooks has its *)
(* own": slots that are given out again, caches and detours without a lock   *)
(* add up to a map in which only the thread that has a context current       *)
(* changes its shadow, until a slot is freed in the middle of a detour.      *)
ImplementsMap == Map!Init /\ [][strayed \/ Map!Next]_(Map!vars)
=============================================================================
