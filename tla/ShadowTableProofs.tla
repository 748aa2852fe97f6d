--------------------------- MODULE ShadowTableProofs ---------------------------
(***************************************************************************)
(* What holds of the context table for any number of threads, handles and  *)
(* slots, with no assumption on the game or on the driver's handles.  The   *)
(* generation count makes the thread-local caches sound; which slot a      *)
(* detour works on, and what the slot says, hold until a slot is freed in  *)
(* the middle of the detour that is at work on it.                         *)
(***************************************************************************)
EXTENDS ShadowTable, TLAPS

(* A scan finds a slot of the handle, and misses none. *)
LEMMA LookupFinds ==
  ASSUME TypeOK, NEW h \in Handles
  PROVE  /\ Lookup(h) \in Slots \cup {None}
         /\ Lookup(h) # None => slotHandle[Lookup(h)] = h
         /\ Lookup(h) = None => \A s \in Slots : slotHandle[s] # h
<1>1. CASE \E s \in Slots : slotHandle[s] = h
  <2>1. Lookup(h) \in Slots /\ slotHandle[Lookup(h)] = h
    BY <1>1, Zenon DEF Lookup
  <2> QED BY <2>1, TableAssumption
<1>2. CASE ~\E s \in Slots : slotHandle[s] = h
  BY <1>2 DEF Lookup
<1> QED BY <1>1, <1>2

-----------------------------------------------------------------------------
LEMMA TypeInit == Init => TypeOK
<1> SUFFICES ASSUME Init PROVE TypeOK
  OBVIOUS
<1> USE TableAssumption DEF Bit, Fresh, Labels
<1>1. strayed \in BOOLEAN
  BY DEF Init
<1>2. known \subseteq Handles /\ live \subseteq Handles
  BY DEF Init
<1> QED BY <1>1, <1>2 DEF Init, TypeOK

(* The type invariant is inductive, slot pointers included. *)
LEMMA TypeStep == TypeOK /\ [Next]_vars => TypeOK'
<1> SUFFICES ASSUME TypeOK, [Next]_vars PROVE TypeOK'
  OBVIOUS
<1> USE TableAssumption DEF Bit, Labels, Goto, driverVars, tableVars, localVars
<1>1. ASSUME NEW t \in Threads, NEW v \in Bit, StartCall(t, v) PROVE TypeOK'
  BY <1>1 DEF TypeOK, StartCall
<1>2. ASSUME NEW t \in Threads, Scan(t) PROVE TypeOK'
  <2>1. current[t] \in Handles
    BY <1>2 DEF TypeOK, Scan
  <2>2. Lookup(current[t]) \in Slots \cup {None}
    BY <2>1, LookupFinds
  <2> QED BY <1>2, <2>1, <2>2 DEF TypeOK, Scan
<1>3. ASSUME NEW t \in Threads, Compare(t) PROVE TypeOK'
  BY <1>3 DEF TypeOK, Compare
<1>4. ASSUME NEW t \in Threads, Learn(t) PROVE TypeOK'
  BY <1>4 DEF TypeOK, Learn
<1>5. ASSUME NEW t \in Threads, ForwardCall(t) PROVE TypeOK'
  BY <1>5 DEF TypeOK, ForwardCall
<1>6. ASSUME NEW t \in Threads, NEW h \in Handles, eglCreateContext(t, h) PROVE TypeOK'
  BY <1>6 DEF TypeOK, eglCreateContext, Fresh
<1>7. ASSUME NEW t \in Threads, noteContextCreated(t) PROVE TypeOK'
  <2>1. handle[t] \in Handles
    BY <1>7 DEF TypeOK, noteContextCreated
  <2>2. /\ slotHandle' \in [Slots -> Handles \cup {None}]
        /\ slotState' \in [Slots -> Bit]
        /\ generation' \in Nat
    <3>1. slotHandle \in [Slots -> Handles \cup {None}] /\ slotState \in [Slots -> Bit]
          /\ generation \in Nat
      BY DEF TypeOK
    <3>2. CASE UNCHANGED tableVars
      BY <3>1, <3>2
    <3>3. CASE \E s \in FreeSlots :
                  /\ slotHandle' = [slotHandle EXCEPT ![s] = handle[t]]
                  /\ slotState' = [slotState EXCEPT ![s] = Fresh]
                  /\ generation' = generation + 1
      <4> PICK s \in Slots : /\ slotHandle' = [slotHandle EXCEPT ![s] = handle[t]]
                             /\ slotState' = [slotState EXCEPT ![s] = Fresh]
                             /\ generation' = generation + 1
        BY <3>3 DEF FreeSlots
      <4> QED BY <2>1, <3>1 DEF Fresh
    <3> QED BY <1>7, <3>2, <3>3 DEF noteContextCreated
  <2>3. /\ known' \subseteq Handles
        /\ pc' \in [Threads -> Labels]
        /\ \A u \in Threads : pc'[u] = IF u = t THEN "idle" ELSE pc[u]
        /\ UNCHANGED <<driver, live, current, cache, localVars, strayed>>
    BY <1>7, <2>1 DEF TypeOK, noteContextCreated
  <2> QED BY <2>2, <2>3 DEF TypeOK
<1>8. ASSUME NEW t \in Threads, NEW h \in Handles, NEW ok \in BOOLEAN,
             eglDestroyContext(t, h, ok)
      PROVE TypeOK'
  BY <1>8 DEF TypeOK, eglDestroyContext
<1>9. ASSUME NEW t \in Threads, noteContextDestroyed(t) PROVE TypeOK'
  <2>1. handle[t] \in Handles
    BY <1>9 DEF TypeOK, noteContextDestroyed
  <2>2. /\ slotHandle' \in [Slots -> Handles \cup {None}]
        /\ slotState' = slotState
        /\ generation' \in Nat
    BY <1>9 DEF TypeOK, noteContextDestroyed
  <2>3. /\ pc' \in [Threads -> Labels]
        /\ \A u \in Threads : pc'[u] = IF u = t THEN "idle" ELSE pc[u]
        /\ UNCHANGED <<driverVars, cache, localVars>>
    BY <1>9 DEF TypeOK, noteContextDestroyed
  <2>4. strayed' \in BOOLEAN
    BY <1>9, Zenon DEF TypeOK, noteContextDestroyed
  <2> QED BY <2>2, <2>3, <2>4 DEF TypeOK
<1>10. ASSUME NEW t \in Threads, NEW h \in Handles \cup {None}, eglMakeCurrent(t, h)
       PROVE TypeOK'
  BY <1>10 DEF TypeOK, eglMakeCurrent
<1>11. CASE UNCHANGED vars
  BY <1>11 DEF TypeOK, vars
<1> QED BY <1>1, <1>2, <1>3, <1>4, <1>5, <1>6, <1>7, <1>8, <1>9, <1>10, <1>11 DEF Next

-----------------------------------------------------------------------------
(* Generations are stamped on the caches before they are reached. *)
Stamped == \A t \in Threads : cache[t].generation <= generation /\ seen[t] <= generation

(* A changed table is a new generation. *)
LEMMA TableStep ==
  ASSUME TypeOK, [Next]_vars
  PROVE  \/ slotHandle' = slotHandle /\ generation' = generation
         \/ generation' = generation + 1 /\ cache' = cache /\ seen' = seen
<1> USE DEF tableVars, localVars, driverVars
<1>1. ASSUME NEW t \in Threads, noteContextCreated(t)
      PROVE  \/ slotHandle' = slotHandle /\ generation' = generation
             \/ generation' = generation + 1 /\ cache' = cache /\ seen' = seen
  BY <1>1 DEF noteContextCreated
<1>2. ASSUME NEW t \in Threads, noteContextDestroyed(t)
      PROVE  \/ slotHandle' = slotHandle /\ generation' = generation
             \/ generation' = generation + 1 /\ cache' = cache /\ seen' = seen
  BY <1>2 DEF noteContextDestroyed
<1> QED BY <1>1, <1>2 DEF Next, vars, StartCall, Scan, Compare, Learn, ForwardCall,
             eglCreateContext, eglDestroyContext, eglMakeCurrent

(* Only StartCall sets seen, to the generation, and only Scan sets a cache. *)
LEMMA CacheStep ==
  ASSUME TypeOK, [Next]_vars, NEW t \in Threads
  PROVE  /\ seen'[t] = seen[t] \/ seen'[t] = generation
         /\ \/ cache'[t] = cache[t]
            \/ /\ cache'[t] = [generation |-> seen[t], handle |-> current[t],
                               slot |-> Lookup(current[t])]
               /\ current[t] \in Handles
               /\ slotHandle' = slotHandle
<1> USE DEF tableVars, localVars, driverVars
<1>1. ASSUME NEW u \in Threads, Scan(u)
      PROVE  /\ seen'[t] = seen[t]
             /\ \/ cache'[t] = cache[t]
                \/ /\ cache'[t] = [generation |-> seen[t], handle |-> current[t],
                                   slot |-> Lookup(current[t])]
                   /\ current[t] \in Handles
                   /\ slotHandle' = slotHandle
  BY <1>1 DEF Scan, TypeOK
<1>2. ASSUME NEW u \in Threads, NEW v \in Bit, StartCall(u, v)
      PROVE  cache' = cache /\ (seen'[t] = seen[t] \/ seen'[t] = generation)
  BY <1>2 DEF StartCall, TypeOK
<1> QED BY <1>1, <1>2 DEF Next, vars, Compare, Learn, ForwardCall, eglCreateContext,
             noteContextCreated, eglDestroyContext, noteContextDestroyed, eglMakeCurrent

LEMMA StampedStep == TypeOK /\ Stamped /\ [Next]_vars => Stamped'
<1> SUFFICES ASSUME TypeOK, Stamped, [Next]_vars, NEW t \in Threads
             PROVE  cache'[t].generation <= generation' /\ seen'[t] <= generation'
  BY DEF Stamped
<1>1. generation \in Nat /\ seen[t] \in Nat /\ cache[t].generation \in Nat
  BY DEF TypeOK
<1>2. cache[t].generation <= generation /\ seen[t] <= generation
  BY DEF Stamped
<1>3. seen'[t] \in Nat /\ seen'[t] <= generation
  <2>1. seen'[t] = seen[t] \/ seen'[t] = generation
    BY CacheStep, Zenon
  <2> QED BY <1>1, <1>2, <2>1
<1>4. cache'[t].generation \in Nat /\ cache'[t].generation <= generation
  <2>1. CASE cache'[t] = cache[t]
    BY <1>1, <1>2, <2>1
  <2>2. CASE cache'[t] = [generation |-> seen[t], handle |-> current[t],
                          slot |-> Lookup(current[t])]
    <3>1. cache'[t].generation = seen[t]
      BY <2>2
    <3> QED BY <1>1, <1>2, <3>1
  <2> QED BY <2>1, <2>2, CacheStep
<1>5. generation' = generation \/ generation' = generation + 1
  BY TableStep
<1> QED BY <1>1, <1>3, <1>4, <1>5

(* An entry stamped with the new generation survived no change of the table. *)
LEMMA CacheSoundStep == TypeOK /\ Stamped /\ CacheSound /\ [Next]_vars => CacheSound'
<1> SUFFICES ASSUME TypeOK, Stamped, CacheSound, [Next]_vars, NEW t \in Threads,
                    cache'[t].generation = generation', cache'[t].handle # None
             PROVE  cache'[t].slot = (Lookup(cache[t].handle))'
  BY DEF CacheSound
<1>1. generation \in Nat /\ cache[t].generation \in Nat
      /\ cache[t].generation <= generation
  BY DEF TypeOK, Stamped
<1>2. slotHandle' = slotHandle /\ generation' = generation
  BY <1>1, TableStep
<1>4. CASE cache'[t] = cache[t]
  <2>1. cache[t].slot = Lookup(cache[t].handle)
    BY <1>2, <1>4 DEF CacheSound
  <2>2. (Lookup(cache[t].handle))' = Lookup(cache[t].handle)
    BY <1>2, <1>4 DEF Lookup
  <2> QED BY <1>4, <2>1, <2>2
<1>5. CASE cache'[t] = [generation |-> seen[t], handle |-> current[t],
                        slot |-> Lookup(current[t])]
  <2>1. cache'[t].handle = current[t] /\ cache'[t].slot = Lookup(current[t])
    BY <1>5
  <2>2. (Lookup(cache[t].handle))' = Lookup(current[t])
    BY <1>2, <2>1 DEF Lookup
  <2> QED BY <2>1, <2>2
<1> QED BY <1>4, <1>5, CacheStep

-----------------------------------------------------------------------------
(* No two slots carry one handle: a context gets a slot only if it has none. *)
LEMMA OneSlotStep == TypeOK /\ OneSlotPerHandle /\ [Next]_vars => OneSlotPerHandle'
<1> SUFFICES ASSUME TypeOK, OneSlotPerHandle, [Next]_vars
             PROVE  OneSlotPerHandle'
  OBVIOUS
<1> USE DEF tableVars, localVars, driverVars
<1>1. ASSUME NEW t \in Threads, noteContextCreated(t) PROVE OneSlotPerHandle'
  <2>1. handle[t] \in Handles /\ slotHandle \in [Slots -> Handles \cup {None}]
    BY <1>1 DEF noteContextCreated, TypeOK
  <2>2. CASE slotHandle' = slotHandle
    BY <2>2 DEF OneSlotPerHandle
  <2>3. CASE slotHandle' # slotHandle
    <3>1. Lookup(handle[t]) = None
      BY <1>1, <2>3 DEF noteContextCreated
    <3>2. \A r \in Slots : slotHandle[r] # handle[t]
      BY <2>1, <3>1, LookupFinds
    <3>3. PICK s \in Slots : slotHandle' = [slotHandle EXCEPT ![s] = handle[t]]
      BY <1>1, <2>3 DEF noteContextCreated, FreeSlots
    <3> QED BY <2>1, <3>2, <3>3 DEF OneSlotPerHandle
  <2> QED BY <2>2, <2>3
<1>2. ASSUME NEW t \in Threads, noteContextDestroyed(t) PROVE OneSlotPerHandle'
  <2>1. \A s \in Slots : slotHandle'[s] = slotHandle[s] \/ slotHandle'[s] = None
    BY <1>2 DEF noteContextDestroyed, TypeOK
  <2> QED BY <2>1 DEF OneSlotPerHandle
<1>3. CASE slotHandle' = slotHandle
  BY <1>3 DEF OneSlotPerHandle
<1> QED BY <1>1, <1>2, <1>3 DEF Next, vars, StartCall, Scan, Compare, Learn, ForwardCall,
             eglCreateContext, eglDestroyContext, eglMakeCurrent

TInv == TypeOK /\ OneSlotPerHandle /\ Stamped /\ CacheSound

LEMMA TInvInductive == Spec => []TInv
<1>1. Init => TInv
  <2> SUFFICES ASSUME Init PROVE TInv
    OBVIOUS
  <2>1. TypeOK
    BY TypeInit
  <2>2. OneSlotPerHandle /\ Stamped /\ CacheSound
    BY DEF Init, OneSlotPerHandle, Stamped, CacheSound
  <2> QED BY <2>1, <2>2 DEF TInv
<1>2. TInv /\ [Next]_vars => TInv'
  BY TypeStep, OneSlotStep, StampedStep, CacheSoundStep DEF TInv
<1> QED BY <1>1, <1>2, PTL DEF Spec

(* Whatever the game and the driver do, the table gives a context one slot  *)
(* at most and every slot pointer used is one of the table's.               *)
THEOREM TableCorrect == Spec => [](TypeOK /\ OneSlotPerHandle)
<1>1. TInv => TypeOK /\ OneSlotPerHandle
  BY DEF TInv
<1> QED BY <1>1, TInvInductive, PTL

(* The types alone. *)
THEOREM TableTyped == Spec => []TypeOK
<1>1. TInv => TypeOK
  BY DEF TInv
<1> QED BY <1>1, TInvInductive, PTL

(* Whatever the game and the driver do, an entry of a thread's cache that   *)
(* passes the generation check names the slot a scan would find: the count  *)
(* read before the scan is enough, though the lock is not held for it.      *)
THEOREM CacheCorrect == Spec => []CacheSound
<1>1. TInv => CacheSound
  BY DEF TInv
<1> QED BY <1>1, TInvInductive, PTL

-----------------------------------------------------------------------------
(* Which slot a detour is at work on: its own context's, from the lookup on, *)
(* since slots change hands only by being freed first.                       *)
Own == \A t \in Threads :
  pc[t] \in {"compare", "learn"} => slotHandle[slot[t]] = current[t]

OInv == TInv /\ Own

LEMMA StrayedStep == TypeOK /\ [Next]_vars => (strayed => strayed')
BY DEF Next, vars, StartCall, Scan, Compare, Learn, ForwardCall, eglCreateContext,
       noteContextCreated, eglDestroyContext, noteContextDestroyed, eglMakeCurrent

LEMMA OwnStep == OInv /\ ~strayed' /\ [Next]_vars => Own'
<1> SUFFICES ASSUME OInv, ~strayed', [Next]_vars PROVE Own'
  OBVIOUS
<1> USE TableAssumption DEF tableVars, localVars, driverVars, Goto
<1> TypeOK /\ Own
  BY DEF OInv, TInv
<1>1. ASSUME NEW t \in Threads, NEW v \in Bit, StartCall(t, v) PROVE Own'
  <2>1. current[t] \in Handles
    BY <1>1 DEF StartCall, TypeOK
  <2>2. CASE /\ cache[t].generation = generation /\ cache[t].handle = current[t]
             /\ cache[t].slot # None
    <3>1. cache[t].slot = Lookup(current[t])
      BY <2>1, <2>2 DEF OInv, TInv, CacheSound
    <3>2. slotHandle[cache[t].slot] = current[t]
      BY <2>1, <2>2, <3>1, LookupFinds
    <3> QED BY <1>1, <2>2, <3>2 DEF StartCall, Own, TypeOK
  <2>3. CASE ~(/\ cache[t].generation = generation /\ cache[t].handle = current[t]
               /\ cache[t].slot # None)
    BY <1>1, <2>3 DEF StartCall, Own, TypeOK
  <2> QED BY <2>2, <2>3
<1>2. ASSUME NEW t \in Threads, Scan(t) PROVE Own'
  <2>1. current[t] \in Handles
    BY <1>2 DEF Scan, TypeOK
  <2>2. Lookup(current[t]) # None => slotHandle[Lookup(current[t])] = current[t]
    BY <2>1, LookupFinds
  <2> QED BY <1>2, <2>2 DEF Scan, Own, TypeOK
<1>3. ASSUME NEW t \in Threads, Compare(t) PROVE Own'
  BY <1>3 DEF Compare, Own, TypeOK
<1>4. ASSUME NEW t \in Threads, Learn(t) PROVE Own'
  BY <1>4 DEF Learn, Own, TypeOK
<1>5. ASSUME NEW t \in Threads, ForwardCall(t) PROVE Own'
  BY <1>5 DEF ForwardCall, Own, TypeOK
<1>6. ASSUME NEW t \in Threads, NEW h \in Handles, eglCreateContext(t, h) PROVE Own'
  BY <1>6 DEF eglCreateContext, Own, TypeOK
<1>7. ASSUME NEW t \in Threads, noteContextCreated(t) PROVE Own'
  <2>1. \A s \in Slots : slotHandle[s] # None => slotHandle'[s] = slotHandle[s]
    BY <1>7 DEF noteContextCreated, FreeSlots, TypeOK
  <2>2. \A u \in Threads : pc'[u] \in {"compare", "learn"}
          => /\ pc[u] \in {"compare", "learn"} /\ slot'[u] = slot[u]
             /\ current'[u] = current[u]
    BY <1>7 DEF noteContextCreated, TypeOK
  <2>3. \A u \in Threads : pc[u] \in {"compare", "learn"}
          => current[u] # None /\ slot[u] \in Slots
    BY DEF TypeOK
  <2> QED BY <2>1, <2>2, <2>3 DEF Own
<1>8. ASSUME NEW t \in Threads, NEW h \in Handles, NEW ok \in BOOLEAN,
             eglDestroyContext(t, h, ok)
      PROVE  Own'
  BY <1>8 DEF eglDestroyContext, Own, TypeOK
<1>9. ASSUME NEW t \in Threads, noteContextDestroyed(t) PROVE Own'
  <2>1. handle[t] \in Handles
    BY <1>9 DEF noteContextDestroyed, TypeOK
  <2>2. \A u \in Threads : pc'[u] \in {"compare", "learn"}
          => /\ pc[u] \in {"compare", "learn"} /\ slot'[u] = slot[u]
             /\ current'[u] = current[u] /\ slot[u] \in Slots
    BY <1>9 DEF noteContextDestroyed, TypeOK
  <2>3. CASE Lookup(handle[t]) = None
    BY <1>9, <2>2, <2>3 DEF noteContextDestroyed, Own
  <2>4. CASE Lookup(handle[t]) # None
    <3>1. ~AtWorkOn(Lookup(handle[t]))
      BY <1>9, <2>4 DEF noteContextDestroyed
    <3>2. \A s \in Slots : s # Lookup(handle[t]) => slotHandle'[s] = slotHandle[s]
      BY <1>9, <2>4 DEF noteContextDestroyed, TypeOK
    <3> QED BY <2>2, <3>1, <3>2 DEF AtWorkOn, Own
  <2> QED BY <2>3, <2>4
<1>10. ASSUME NEW t \in Threads, NEW h \in Handles \cup {None}, eglMakeCurrent(t, h)
       PROVE Own'
  BY <1>10 DEF eglMakeCurrent, Own, TypeOK
<1>11. CASE UNCHANGED vars
  BY <1>11 DEF Own, vars
<1> QED BY <1>1, <1>2, <1>3, <1>4, <1>5, <1>6, <1>7, <1>8, <1>9, <1>10, <1>11 DEF Next

LEMMA OInvInductive == Spec => [](TInv /\ (~strayed => Own))
<1>1. Init => TInv /\ (~strayed => Own)
  <2> SUFFICES ASSUME Init PROVE TInv /\ Own
    OBVIOUS
  <2>1. TInv
    BY TypeInit DEF Init, TInv, OneSlotPerHandle, Stamped, CacheSound
  <2> QED BY <2>1 DEF Init, Own
<1>2. TInv /\ (~strayed => Own) /\ [Next]_vars => (TInv /\ (~strayed => Own))'
  <2> SUFFICES ASSUME TInv, ~strayed => Own, [Next]_vars
               PROVE  TInv' /\ (~strayed' => Own')
    OBVIOUS
  <2>1. TInv'
    BY TypeStep, OneSlotStep, StampedStep, CacheSoundStep DEF TInv
  <2>2. strayed => strayed'
    BY StrayedStep DEF TInv
  <2>3. ~strayed' => Own'
    BY <2>2, OwnStep DEF OInv
  <2> QED BY <2>1, <2>3
<1> QED BY <1>1, <1>2, PTL DEF Spec

(* Every detour compares with and writes to its own context's slot, though it *)
(* holds no lock while it does and contexts are destroyed while current: until *)
(* one is destroyed in the middle of its detour.                               *)
THEOREM OwnSlotCorrect == Spec => []OwnSlot
<1>1. TInv /\ (~strayed => Own) => OwnSlot
  BY DEF OwnSlot, Own
<1> QED BY <1>1, OInvInductive, PTL

-----------------------------------------------------------------------------
(* What ties the table to the driver: a slot whose handle is not the driver's  *)
(* any more, or is again before the table was told, is about to be freed.      *)
CurrentOne == \A t, u \in Threads : current[t] = current[u] /\ current[t] # None => t = u

KnownLive == known \subseteq live

SlotLive == \A s \in Slots : slotHandle[s] # None
  => slotHandle[s] \in live \/ BeingDestroyed(slotHandle[s])

(* A context whose creation the table has not heard of is nobody's yet. *)
Pending(t) ==
  /\ handle[t] \in live \ known /\ ~InUse(handle[t])
  /\ driver[handle[t]] = Fresh
  /\ \A s \in Slots : slotHandle[s] = handle[t] => BeingDestroyed(handle[t])
  /\ \A u \in Threads : pc[u] = "noteCreated" /\ handle[u] = handle[t] => u = t

LateCreate == \A t \in Threads : pc[t] = "noteCreated" => Pending(t)

(* A call on its way to the driver is what its context's slot says. *)
ForwardOwn == \A t \in Threads : pc[t] = "forward" =>
  \A s \in Slots : slotHandle[s] = current[t] => slotState[s] = value[t]

Sound == \A s \in Slots :
  slotHandle[s] \in known /\ ~BeingDestroyed(slotHandle[s]) =>
    \/ slotState[s] = driver[slotHandle[s]]
    \/ \E t \in Threads : /\ current[t] = slotHandle[s] /\ pc[t] = "forward"
                          /\ slotState[s] = value[t]

SInv == /\ OInv
        /\ CurrentOne /\ KnownLive /\ SlotLive
        /\ LateCreate /\ ForwardOwn /\ Sound

LEMMA SInvInit == Init => SInv
<1> SUFFICES ASSUME Init PROVE SInv
  OBVIOUS
<1>1. OInv
  BY TypeInit DEF Init, OInv, TInv, OneSlotPerHandle, Stamped, CacheSound, Own
<1>2. CurrentOne /\ KnownLive /\ SlotLive /\ LateCreate /\ ForwardOwn
  BY DEF Init, CurrentOne, KnownLive, SlotLive, LateCreate, ForwardOwn
<1>3. Sound
  <2> SUFFICES ASSUME NEW s \in Slots, slotHandle[s] \in known PROVE FALSE
    BY DEF Sound
  <2> QED BY TableAssumption DEF Init
<1> QED BY <1>1, <1>2, <1>3 DEF SInv

(* The steps of a state call: the contexts, the handles and the slots'      *)
(* owners stay as they are.                                                 *)
LEMMA SInvCall ==
  ASSUME SInv, OInv', NEW t \in Threads,
         \/ \E v \in Bit : StartCall(t, v)
         \/ Scan(t) \/ Compare(t) \/ Learn(t) \/ ForwardCall(t)
  PROVE  SInv'
<1> USE TableAssumption DEF tableVars, localVars, driverVars, Goto
<1> TypeOK /\ OneSlotPerHandle /\ CacheSound /\ Own /\ CurrentOne /\ LateCreate
    /\ ForwardOwn /\ Sound
  BY DEF SInv, OInv, TInv
<1>1. /\ UNCHANGED <<live, known, current, slotHandle, handle>>
      /\ \A u \in Threads \ {t} : /\ pc'[u] = pc[u] /\ value'[u] = value[u]
      /\ pc[t] \notin {"noteCreated", "noteDestroyed"}
      /\ pc'[t] \notin {"noteCreated", "noteDestroyed"}
      /\ current[t] \in Handles
  BY DEF StartCall, Scan, Compare, Learn, ForwardCall, TypeOK
<1>0. \A h : BeingDestroyed(h)' <=> BeingDestroyed(h)
  BY <1>1 DEF BeingDestroyed
<1>2. CurrentOne' /\ KnownLive'
  BY <1>1 DEF SInv, CurrentOne, KnownLive
<1>3. SlotLive'
  BY <1>0, <1>1 DEF SInv, SlotLive
<1>4. LateCreate'
  <2> SUFFICES ASSUME NEW u \in Threads, pc'[u] = "noteCreated" PROVE (Pending(u))'
    BY DEF LateCreate
  <2>1. pc[u] = "noteCreated" /\ Pending(u) /\ u # t
    BY <1>1 DEF LateCreate
  <2>2. current[t] # handle[u]
    BY <1>1, <2>1 DEF Pending, InUse
  <2>3. driver'[handle[u]] = driver[handle[u]]
    BY <1>1, <2>2 DEF StartCall, Scan, Compare, Learn, ForwardCall, TypeOK
  <2> QED BY <1>0, <1>1, <2>1, <2>3 DEF Pending, InUse
<1>5. \A s \in Slots : slotHandle[s] # current[t] =>
        /\ slotState'[s] = slotState[s]
        /\ slotHandle[s] \in Handles => driver'[slotHandle[s]] = driver[slotHandle[s]]
  BY DEF StartCall, Scan, Compare, Learn, ForwardCall, Own, TypeOK
<1>6. pc'[t] = "forward" =>
        \A s \in Slots : slotHandle[s] = current[t] => slotState'[s] = value'[t]
  <2>1. ASSUME NEW v \in Bit, StartCall(t, v), pc'[t] = "forward",
               NEW s \in Slots, slotHandle[s] = current[t]
        PROVE  FALSE
    <3>1. cache[t].slot = None /\ cache[t].generation = generation
          /\ cache[t].handle = current[t]
      BY <2>1 DEF StartCall, TypeOK
    <3>2. Lookup(current[t]) = None
      BY <1>1, <3>1 DEF CacheSound
    <3> QED BY <1>1, <2>1, <3>2, LookupFinds
  <2>2. ASSUME Scan(t), pc'[t] = "forward", NEW s \in Slots, slotHandle[s] = current[t]
        PROVE  FALSE
    <3>1. Lookup(current[t]) = None
      BY <2>2 DEF Scan, TypeOK
    <3> QED BY <1>1, <2>2, <3>1, LookupFinds
  <2>3. ASSUME Learn(t), NEW s \in Slots, slotHandle[s] = current[t]
        PROVE  slotState'[s] = value'[t]
    <3>1. slot[t] \in Slots /\ slotHandle[slot[t]] = current[t]
      BY <2>3 DEF Learn, Own, TypeOK
    <3>2. s = slot[t]
      BY <1>1, <2>3, <3>1 DEF OneSlotPerHandle
    <3> QED BY <2>3, <3>2 DEF Learn, TypeOK
  <2>4. Compare(t) \/ ForwardCall(t) => pc'[t] # "forward"
    BY DEF Compare, ForwardCall, TypeOK
  <2> QED BY <2>1, <2>2, <2>3, <2>4
<1>7. ForwardOwn'
  <2> SUFFICES ASSUME NEW u \in Threads, pc'[u] = "forward",
                      NEW s \in Slots, slotHandle[s] = current[u]
               PROVE  slotState'[s] = value'[u]
    BY <1>1 DEF ForwardOwn
  <2>1. CASE u = t
    BY <1>6, <2>1
  <2>2. CASE u # t
    <3>1. current[u] # None
      BY <1>1, <2>2 DEF TypeOK
    <3>2. slotHandle[s] # current[t]
      BY <2>2, <3>1 DEF CurrentOne
    <3> QED BY <1>1, <1>5, <2>2, <3>2 DEF ForwardOwn
  <2> QED BY <2>1, <2>2
<1>8. Sound'
  <2> SUFFICES ASSUME NEW s \in Slots, slotHandle[s] \in known, ~BeingDestroyed(slotHandle[s])
               PROVE  \/ slotState'[s] = driver'[slotHandle[s]]
                      \/ \E u \in Threads : /\ current[u] = slotHandle[s]
                                            /\ pc'[u] = "forward"
                                            /\ slotState'[s] = value'[u]
    BY <1>0, <1>1 DEF Sound
  <2>1. CASE slotHandle[s] # current[t]
    <3>1. slotHandle[s] \in Handles
      BY DEF TypeOK
    <3>2. slotState'[s] = slotState[s] /\ driver'[slotHandle[s]] = driver[slotHandle[s]]
      BY <1>5, <2>1, <3>1
    <3>3. CASE slotState[s] = driver[slotHandle[s]]
      BY <3>2, <3>3
    <3>4. CASE \E u \in Threads : current[u] = slotHandle[s] /\ pc[u] = "forward"
                                  /\ slotState[s] = value[u]
      BY <1>1, <2>1, <3>2, <3>4
    <3> QED BY <3>3, <3>4 DEF Sound
  <2>2. CASE slotHandle[s] = current[t]
    <3>1. CASE pc'[t] = "forward"
      BY <1>6, <2>2, <3>1
    <3>2. CASE ForwardCall(t)
      BY <2>2, <3>2 DEF ForwardCall, ForwardOwn, TypeOK
    <3>3. CASE pc'[t] # "forward" /\ ~ForwardCall(t)
      <4>1. slotState' = slotState /\ driver' = driver /\ pc[t] # "forward"
        BY <3>3 DEF StartCall, Scan, Compare, Learn, ForwardCall, TypeOK
      <4>2. \A u \in Threads : current[u] = slotHandle[s] => u = t
        BY <1>1, <2>2 DEF CurrentOne
      <4> QED BY <4>1, <4>2 DEF Sound
    <3> QED BY <3>1, <3>2, <3>3
  <2> QED BY <2>1, <2>2
<1> QED BY <1>2, <1>3, <1>4, <1>7, <1>8 DEF SInv

LEMMA SInvCreate ==
  ASSUME SInv, OInv', NEW t \in Threads, NEW h \in Handles,
         eglCreateContext(t, h)
  PROVE  SInv'
<1> USE TableAssumption DEF tableVars, localVars, driverVars, Goto
<1> TypeOK /\ CurrentOne /\ LateCreate /\ ForwardOwn /\ Sound
    /\ KnownLive /\ SlotLive
  BY DEF SInv, OInv, TInv
<1>1. /\ UNCHANGED <<known, current, slotHandle, slotState, value>>
      /\ pc[t] = "idle" /\ pc'[t] = "noteCreated" /\ handle'[t] = h
      /\ \A u \in Threads \ {t} : pc'[u] = pc[u] /\ handle'[u] = handle[u]
      /\ live' = live \cup {h} /\ h \notin live
      /\ driver'[h] = Fresh /\ \A k \in Handles \ {h} : driver'[k] = driver[k]
      /\ ~InUse(h)
      /\ \A g : BeingDestroyed(g)' <=> BeingDestroyed(g)
  <2>1. /\ UNCHANGED <<known, current, slotHandle, slotState, value>>
        /\ pc[t] = "idle" /\ pc'[t] = "noteCreated" /\ handle'[t] = h
        /\ \A u \in Threads \ {t} : pc'[u] = pc[u] /\ handle'[u] = handle[u]
        /\ live' = live \cup {h} /\ h \notin live
        /\ driver'[h] = Fresh /\ \A k \in Handles \ {h} : driver'[k] = driver[k]
        /\ ~InUse(h)
    BY DEF eglCreateContext, TypeOK
  <2> QED BY <2>1 DEF BeingDestroyed
<1>2. CurrentOne' /\ KnownLive'
  BY <1>1 DEF CurrentOne, KnownLive
<1>3. SlotLive'
  BY <1>1 DEF SlotLive
<1>4. LateCreate'
  <2> SUFFICES ASSUME NEW u \in Threads, pc'[u] = "noteCreated" PROVE (Pending(u))'
    BY DEF LateCreate
  <2>1. CASE u = t
    <3>1. \A s \in Slots : slotHandle[s] = h => BeingDestroyed(h)
      BY <1>1 DEF SlotLive
    <3>2. \A v \in Threads \ {t} : pc[v] = "noteCreated" => handle[v] # h
      BY <1>1 DEF LateCreate, Pending
    <3> QED BY <1>1, <2>1, <3>1, <3>2 DEF Pending, KnownLive, InUse
  <2>2. CASE u # t
    <3>1. pc[u] = "noteCreated" /\ Pending(u) /\ handle[u] # h /\ handle[u] \in Handles
      BY <1>1, <2>2 DEF LateCreate, Pending, TypeOK
    <3> QED BY <1>1, <2>2, <3>1 DEF Pending, InUse
  <2> QED BY <2>1, <2>2
<1>5. ForwardOwn'
  BY <1>1 DEF ForwardOwn
<1>6. Sound'
  <2> SUFFICES ASSUME NEW s \in Slots, slotHandle[s] \in known, ~BeingDestroyed(slotHandle[s])
               PROVE  \/ slotState[s] = driver'[slotHandle[s]]
                      \/ \E u \in Threads : /\ current[u] = slotHandle[s]
                                            /\ pc'[u] = "forward"
                                            /\ slotState[s] = value[u]
    BY <1>1 DEF Sound
  <2>1. slotHandle[s] \in Handles \ {h}
    BY <1>1 DEF KnownLive, TypeOK
  <2> QED BY <1>1, <2>1 DEF Sound
<1> QED BY <1>2, <1>3, <1>4, <1>5, <1>6 DEF SInv

LEMMA SInvNoteCreated ==
  ASSUME SInv, OInv', NEW t \in Threads, noteContextCreated(t)
  PROVE  SInv'
<1> USE TableAssumption DEF tableVars, localVars, driverVars, Goto
<1> DEFINE h == handle[t]
<1> TypeOK /\ CurrentOne /\ LateCreate /\ ForwardOwn /\ Sound
    /\ KnownLive /\ SlotLive
  BY DEF SInv, OInv, TInv
<1>1. /\ UNCHANGED <<driver, live, current, value, handle>>
      /\ pc[t] = "noteCreated" /\ pc'[t] = "idle"
      /\ \A u \in Threads \ {t} : pc'[u] = pc[u]
      /\ known' = known \cup {h} /\ h \in Handles
      /\ Pending(t)
  BY DEF noteContextCreated, LateCreate, TypeOK
<1>0. \A g : BeingDestroyed(g)' <=> BeingDestroyed(g)
  BY <1>1 DEF BeingDestroyed
<1>2. \A s \in Slots : \/ slotHandle'[s] = slotHandle[s] /\ slotState'[s] = slotState[s]
                       \/ slotHandle'[s] = h /\ slotState'[s] = Fresh
  <2>1. CASE UNCHANGED tableVars
    BY <2>1
  <2>2. CASE \E s \in FreeSlots : /\ slotHandle' = [slotHandle EXCEPT ![s] = h]
                                 /\ slotState' = [slotState EXCEPT ![s] = Fresh]
    BY <2>2 DEF FreeSlots, TypeOK
  <2> QED BY <2>1, <2>2 DEF noteContextCreated
<1>3. h \in live /\ h \notin known /\ driver[h] = Fresh
      /\ ~InUse(h) /\ \A s \in Slots : slotHandle[s] = h => BeingDestroyed(h)
  BY <1>1 DEF Pending
<1>4. CurrentOne' /\ KnownLive'
  BY <1>1, <1>3 DEF CurrentOne, KnownLive
<1>5. SlotLive'
  <2> SUFFICES ASSUME NEW s \in Slots, slotHandle'[s] # None
               PROVE  slotHandle'[s] \in live \/ BeingDestroyed(slotHandle'[s])
    BY <1>0, <1>1 DEF SlotLive
  <2>1. CASE slotHandle'[s] = h
    BY <1>3, <2>1
  <2>2. CASE slotHandle'[s] = slotHandle[s]
    <3>1. slotHandle[s] \in live \/ BeingDestroyed(slotHandle[s])
      BY <2>2 DEF SlotLive
    <3> QED BY <2>2, <3>1
  <2> QED BY <1>2, <2>1, <2>2
<1>6. LateCreate'
  <2> SUFFICES ASSUME NEW u \in Threads, pc'[u] = "noteCreated" PROVE (Pending(u))'
    BY DEF LateCreate
  <2>1. u # t /\ pc[u] = "noteCreated" /\ Pending(u)
    BY <1>1 DEF LateCreate
  <2>2. handle[u] # h
    BY <1>1, <2>1 DEF Pending
  <2> QED BY <1>0, <1>1, <1>2, <2>1, <2>2 DEF Pending, InUse
<1>7. ForwardOwn'
  <2> SUFFICES ASSUME NEW u \in Threads, pc'[u] = "forward",
                      NEW s \in Slots, slotHandle'[s] = current[u]
               PROVE  slotState'[s] = value[u]
    BY <1>1 DEF ForwardOwn
  <2>1. pc[u] = "forward" /\ current[u] # None
    BY <1>1 DEF TypeOK
  <2>2. current[u] # h
    BY <1>3, <2>1 DEF InUse
  <2> QED BY <1>2, <2>1, <2>2 DEF ForwardOwn
<1>8. Sound'
  <2> SUFFICES ASSUME NEW s \in Slots, slotHandle'[s] \in known \cup {h},
                      ~BeingDestroyed(slotHandle'[s])
               PROVE  \/ slotState'[s] = driver[slotHandle'[s]]
                      \/ \E u \in Threads : /\ current[u] = slotHandle'[s]
                                            /\ pc'[u] = "forward"
                                            /\ slotState'[s] = value[u]
    BY <1>0, <1>1 DEF Sound
  <2>1. CASE slotHandle'[s] = h
    BY <1>2, <1>3, <2>1
  <2>2. CASE slotHandle'[s] # h
    <3>1. slotHandle'[s] = slotHandle[s] /\ slotState'[s] = slotState[s]
          /\ slotHandle[s] \in known
      BY <1>2, <2>2
    <3> QED BY <1>1, <3>1 DEF Sound
  <2> QED BY <2>1, <2>2
<1> QED BY <1>4, <1>5, <1>6, <1>7, <1>8 DEF SInv

LEMMA SInvDestroy ==
  ASSUME SInv, OInv', NEW t \in Threads, NEW h \in Handles, NEW ok \in BOOLEAN,
         eglDestroyContext(t, h, ok)
  PROVE  SInv'
<1> USE TableAssumption DEF tableVars, localVars, driverVars, Goto
<1> TypeOK /\ CurrentOne /\ LateCreate /\ ForwardOwn /\ Sound /\ KnownLive /\ SlotLive
  BY DEF SInv, OInv, TInv
<1>1. /\ UNCHANGED <<driver, current, slotHandle, slotState, value>>
      /\ pc[t] = "idle" /\ pc'[t] = "noteDestroyed" /\ handle'[t] = h
      /\ \A u \in Threads \ {t} : pc'[u] = pc[u] /\ handle'[u] = handle[u]
      /\ h \in known
      /\ \/ live' = live /\ known' = known
         \/ live' = live \ {h} /\ known' = known \ {h}
  BY DEF eglDestroyContext, TypeOK
<1>0. \A g : BeingDestroyed(g)' <=> (BeingDestroyed(g) \/ g = h)
  BY <1>1 DEF BeingDestroyed
<1>2. CurrentOne' /\ KnownLive'
  BY <1>1 DEF CurrentOne, KnownLive
<1>3. SlotLive'
  BY <1>0, <1>1 DEF SlotLive
<1>4. LateCreate'
  <2> SUFFICES ASSUME NEW u \in Threads, pc'[u] = "noteCreated" PROVE (Pending(u))'
    BY DEF LateCreate
  <2>1. u # t /\ pc[u] = "noteCreated" /\ Pending(u)
    BY <1>1 DEF LateCreate
  <2> QED BY <1>0, <1>1, <2>1 DEF Pending, InUse
<1>5. ForwardOwn' /\ Sound'
  BY <1>0, <1>1 DEF ForwardOwn, Sound
<1> QED BY <1>2, <1>3, <1>4, <1>5 DEF SInv

LEMMA SInvNoteDestroyed ==
  ASSUME SInv, OInv', NEW t \in Threads, noteContextDestroyed(t)
  PROVE  SInv'
<1> USE TableAssumption DEF tableVars, localVars, driverVars, Goto
<1> TypeOK /\ OneSlotPerHandle /\ CurrentOne /\ LateCreate /\ ForwardOwn /\ Sound
    /\ KnownLive /\ SlotLive
  BY DEF SInv, OInv, TInv
<1>1. /\ UNCHANGED <<driver, live, known, current, slotState, value, handle>>
      /\ pc[t] = "noteDestroyed" /\ pc'[t] = "idle" /\ handle[t] \in Handles
      /\ \A u \in Threads \ {t} : pc'[u] = pc[u]
  BY DEF noteContextDestroyed, TypeOK
<1>2. \A s \in Slots : \/ slotHandle'[s] = None
                       \/ slotHandle'[s] = slotHandle[s] /\ slotHandle[s] # handle[t]
  <2>1. CASE Lookup(handle[t]) = None
    BY <1>1, <2>1, LookupFinds DEF noteContextDestroyed
  <2>2. CASE Lookup(handle[t]) # None
    <3>1. Lookup(handle[t]) \in Slots /\ slotHandle[Lookup(handle[t])] = handle[t]
      BY <1>1, <2>2, LookupFinds
    <3>2. \A s \in Slots : slotHandle[s] = handle[t] => s = Lookup(handle[t])
      BY <1>1, <3>1 DEF OneSlotPerHandle
    <3>3. slotHandle' = [slotHandle EXCEPT ![Lookup(handle[t])] = None]
      BY <2>2 DEF noteContextDestroyed
    <3> QED BY <3>2, <3>3 DEF TypeOK
  <2> QED BY <2>1, <2>2
<1>0. \A g : g # handle[t] => (BeingDestroyed(g)' <=> BeingDestroyed(g))
  BY <1>1 DEF BeingDestroyed
<1>3. CurrentOne' /\ KnownLive'
  BY <1>1 DEF CurrentOne, KnownLive
<1>4. SlotLive'
  BY <1>0, <1>1, <1>2 DEF SlotLive
<1>5. LateCreate'
  <2> SUFFICES ASSUME NEW u \in Threads, pc'[u] = "noteCreated" PROVE (Pending(u))'
    BY DEF LateCreate
  <2>1. u # t /\ pc[u] = "noteCreated" /\ Pending(u) /\ handle[u] \in Handles
    BY <1>1 DEF LateCreate, TypeOK
  <2> QED BY <1>0, <1>1, <1>2, <2>1, TableAssumption DEF Pending, InUse
<1>6. ForwardOwn'
  BY <1>1, <1>2 DEF ForwardOwn, TypeOK
<1>7. None \notin known
  BY DEF TypeOK
<1>8. Sound'
  <2> SUFFICES ASSUME NEW s \in Slots, slotHandle'[s] \in known,
                      ~(BeingDestroyed(slotHandle[s]))'
               PROVE  \/ slotState[s] = driver[slotHandle'[s]]
                      \/ \E u \in Threads : /\ current[u] = slotHandle'[s]
                                            /\ pc'[u] = "forward"
                                            /\ slotState[s] = value[u]
    BY <1>1 DEF Sound
  <2>1. slotHandle'[s] = slotHandle[s] /\ slotHandle[s] # handle[t]
    BY <1>2, <1>7
  <2>2. ~BeingDestroyed(slotHandle[s])
    BY <1>0, <2>1
  <2> QED BY <1>1, <2>1, <2>2 DEF Sound
<1> QED BY <1>3, <1>4, <1>5, <1>6, <1>8 DEF SInv

LEMMA SInvMakeCurrent ==
  ASSUME SInv, OInv', NEW t \in Threads, NEW h \in Handles \cup {None},
         eglMakeCurrent(t, h)
  PROVE  SInv'
<1> USE TableAssumption DEF tableVars, localVars, driverVars, Goto
<1> TypeOK /\ CurrentOne /\ LateCreate /\ ForwardOwn /\ Sound /\ KnownLive /\ SlotLive
  BY DEF SInv, OInv, TInv
<1>1. /\ UNCHANGED <<driver, live, known, slotHandle, slotState, value, pc, handle>>
      /\ pc[t] = "idle" /\ current'[t] = h
      /\ h = None \/ (h \in known /\ \A u \in Threads : current[u] # h)
      /\ \A u \in Threads \ {t} : current'[u] = current[u]
  BY DEF eglMakeCurrent, InUse, TypeOK
<1>0. \A g : BeingDestroyed(g)' <=> BeingDestroyed(g)
  BY <1>1 DEF BeingDestroyed
<1>2. CurrentOne' /\ KnownLive'
  BY <1>1 DEF CurrentOne, KnownLive
<1>3. SlotLive' /\ LateCreate'
  <2>1. SlotLive'
    BY <1>0, <1>1 DEF SlotLive
  <2>2. ASSUME NEW u \in Threads, pc[u] = "noteCreated" PROVE (Pending(u))'
    <3>1. Pending(u) /\ handle[u] # h
      BY <1>1, <2>2 DEF LateCreate, Pending, KnownLive, TypeOK
    <3> QED BY <1>0, <1>1, <3>1 DEF Pending, InUse
  <2> QED BY <1>1, <2>1, <2>2 DEF LateCreate
<1>4. ForwardOwn' /\ Sound'
  BY <1>0, <1>1 DEF ForwardOwn, Sound
<1> QED BY <1>2, <1>3, <1>4 DEF SInv

LEMMA SInvInductive == Spec => [](TInv /\ (~strayed => SInv))
<1>1. Init => TInv /\ (~strayed => SInv)
  BY SInvInit DEF SInv, OInv
<1>2. TInv /\ (~strayed => SInv) /\ [Next]_vars => (TInv /\ (~strayed => SInv))'
  <2> SUFFICES ASSUME TInv, ~strayed => SInv, [Next]_vars
               PROVE  TInv' /\ (~strayed' => SInv')
    OBVIOUS
  <2>1. TInv'
    BY TypeStep, OneSlotStep, StampedStep, CacheSoundStep DEF TInv
  <2>2. ASSUME ~strayed' PROVE SInv'
    <3>1. SInv
      BY <2>2, StrayedStep DEF TInv
    <3>2. OInv'
      BY <2>1, <2>2, <3>1, OwnStep DEF SInv, OInv
    <3>3. CASE UNCHANGED vars
      BY <3>1, <3>2, <3>3 DEF vars, driverVars, tableVars, localVars, SInv, CurrentOne, KnownLive,
         SlotLive, LateCreate, Pending, InUse, ForwardOwn, Sound, BeingDestroyed
    <3>4. CASE Next
      BY <3>1, <3>2, <3>4, SInvCall, SInvCreate, SInvNoteCreated, SInvDestroy, SInvNoteDestroyed,
         SInvMakeCurrent DEF Next
    <3> QED BY <3>3, <3>4
  <2> QED BY <2>1, <2>2
<1> QED BY <1>1, <1>2, PTL DEF Spec

(* Whatever the interleaving of calls, creations and destructions, and however *)
(* soon the driver gives a handle out again: what a thread finds in a slot     *)
(* about a context it may use is what the driver holds, but while the table    *)
(* has yet to be told of the context that had the handle before.               *)
THEOREM TableShadowCorrect == Spec => []ShadowSound
<1>1. TInv /\ (~strayed => SInv) => ShadowSound
  BY DEF SInv, Sound, ShadowSound
<1> QED BY <1>1, SInvInductive, PTL

-----------------------------------------------------------------------------
(* The table implements the map: with one slot per handle, a scan finds the  *)
(* slot that holds the handle.                                               *)
Found(h, s) == slotHandle[s] = h

LookupIs == \A h \in Handles :
  /\ \A s \in Slots : Found(h, s) => Lookup(h) = s
  /\ h \in Followed <=> \E s \in Slots : Found(h, s)

LEMMA ScanFinds == OneSlotPerHandle => LookupIs
<1> SUFFICES ASSUME OneSlotPerHandle, NEW h \in Handles
             PROVE  /\ \A s \in Slots : Found(h, s) => Lookup(h) = s
                    /\ h \in Followed <=> \E s \in Slots : Found(h, s)
  BY DEF LookupIs
<1>1. CASE \E s \in Slots : slotHandle[s] = h
  <2>1. Lookup(h) \in Slots /\ slotHandle[Lookup(h)] = h
    BY <1>1, Zenon DEF Lookup
  <2>2. Lookup(h) # None
    BY <2>1, TableAssumption
  <2>3. ASSUME NEW s \in Slots, Found(h, s) PROVE Lookup(h) = s
    BY <2>1, <2>3, TableAssumption DEF Found, OneSlotPerHandle
  <2> QED BY <1>1, <2>2, <2>3 DEF Found, Followed
<1>2. CASE ~\E s \in Slots : slotHandle[s] = h
  <2>1. Lookup(h) = None
    BY <1>2 DEF Lookup
  <2> QED BY <1>2, <2>1 DEF Found, Followed
<1> QED BY <1>1, <1>2

Shadows == [h \in Followed |-> slotState[Lookup(h)]]

(* Only four steps show in the map. *)
LEMMA MapStep == OInv /\ TInv' /\ [Next]_vars => [Map!Next]_(Map!vars)
<1> SUFFICES ASSUME OInv, TInv', [Next]_vars PROVE Map!Next \/ UNCHANGED <<Shadows, current>>
  BY DEF Map!vars, Shadows
<1> USE TableAssumption DEF tableVars, localVars, driverVars
<1> /\ TypeOK /\ OneSlotPerHandle /\ Own /\ LookupIs
    /\ TypeOK' /\ OneSlotPerHandle' /\ LookupIs'
  <2>1. LookupIs'
    BY ScanFinds, PTL DEF OInv, TInv
  <2> QED BY ScanFinds, <2>1 DEF OInv, TInv
<1>0. ASSUME UNCHANGED <<slotHandle, slotState, current>> PROVE UNCHANGED <<Shadows, current>>
  BY <1>0 DEF Shadows, Followed, Lookup
<1>1. ASSUME NEW t \in Threads, Learn(t) PROVE Map!Next
  <2> DEFINE h == current[t]
  <2>1. /\ h \in Handles /\ slot[t] \in Slots /\ slotHandle[slot[t]] = h
        /\ value[t] \in Bit /\ UNCHANGED <<slotHandle, current>>
        /\ slotState' = [slotState EXCEPT ![slot[t]] = value[t]]
    BY <1>1 DEF Learn, Own, TypeOK
  <2>2. Followed' = Followed /\ \A g : Lookup(g)' = Lookup(g)
    BY <2>1 DEF Followed, Lookup
  <2>3. h \in Followed /\ Lookup(h) = slot[t]
    BY <2>1 DEF LookupIs, Found
  <2>4. ASSUME NEW g \in Followed
        PROVE  slotState'[Lookup(g)'] = IF g = h THEN value[t] ELSE slotState[Lookup(g)]
    <3>1. g \in Handles /\ Lookup(g) \in Slots /\ slotHandle[Lookup(g)] = g
      BY DEF LookupIs, Found, Followed
    <3> QED BY <2>1, <2>2, <2>3, <3>1 DEF TypeOK
  <2>5. Shadows' = [Shadows EXCEPT ![h] = value[t]]
    BY <2>2, <2>3, <2>4 DEF Shadows
  <2>6. Map!Learn(t, value[t])
    BY <2>1, <2>3, <2>5 DEF Map!Learn, Shadows
  <2> QED BY <2>1, <2>6 DEF Map!Next
<1>2. ASSUME NEW t \in Threads, noteContextCreated(t) PROVE Map!Next \/ UNCHANGED <<Shadows, current>>
  <2>0. PICK h \in Handles : h = handle[t]
    BY <1>2 DEF noteContextCreated, TypeOK
  <2>1. CASE UNCHANGED tableVars
    BY <1>0, <1>2, <2>1 DEF noteContextCreated
  <2>2. CASE ~UNCHANGED tableVars
    <3>0. PICK s \in FreeSlots : /\ slotHandle' = [slotHandle EXCEPT ![s] = h]
                                 /\ slotState' = [slotState EXCEPT ![s] = Fresh]
      BY <1>2, <2>0, <2>2 DEF noteContextCreated
    <3>1. /\ h \in Handles /\ Lookup(h) = None /\ UNCHANGED current
          /\ s \in Slots /\ slotHandle[s] = None
      BY <1>2, <2>0, <2>2 DEF noteContextCreated, TypeOK, FreeSlots
    <3>2. /\ slotHandle'[s] = h /\ slotState'[s] = Fresh
          /\ \A r \in Slots \ {s} : slotHandle'[r] = slotHandle[r] /\ slotState'[r] = slotState[r]
      BY <3>0, <3>1 DEF TypeOK
    <3>3. ASSUME NEW g \in Handles
          PROVE  /\ g \in Followed' <=> g \in Followed \cup {h}
                 /\ g \in Followed /\ g # h => slotState'[Lookup(g)'] = slotState[Lookup(g)]
      <4>1. g \in Followed => Lookup(g) \in Slots \ {s} /\ slotHandle[Lookup(g)] = g
        BY <3>1 DEF LookupIs, Found, Followed
      <4>2. g \in Followed' <=> \E r \in Slots : slotHandle'[r] = g
        BY DEF LookupIs, Found
      <4>3. g \in Followed <=> \E r \in Slots : slotHandle[r] = g
        BY DEF LookupIs, Found
      <4>4. g \in Followed' <=> g \in Followed \cup {h}
        BY <3>1, <3>2, <4>2, <4>3
      <4>5. g \in Followed => Lookup(g)' = Lookup(g)
        BY <3>2, <4>1 DEF LookupIs, Found
      <4> QED BY <3>2, <4>1, <4>4, <4>5
    <3>4. Lookup(h)' = s
      BY <3>1, <3>2 DEF LookupIs, Found
    <3>5. h \notin Followed
      BY <3>1 DEF Followed
    <3>6. Followed' = Followed \cup {h}
      BY <3>1, <3>3 DEF Followed
    <3>7. Shadows' = [g \in Followed \cup {h} |-> IF g = h THEN Fresh ELSE Shadows[g]]
      <4>1. ASSUME NEW g \in Followed \cup {h}
            PROVE  slotState'[Lookup(g)'] = IF g = h THEN Fresh ELSE Shadows[g]
        BY <3>1, <3>2, <3>3, <3>4, <3>5 DEF Shadows, Followed
      <4> QED BY <3>6, <4>1 DEF Shadows
    <3>8. Map!Follow(h)
      BY <3>1, <3>5, <3>7 DEF Map!Follow, Shadows
    <3> QED BY <3>1, <3>8 DEF Map!Next
  <2> QED BY <2>1, <2>2
<1>3. ASSUME NEW t \in Threads, noteContextDestroyed(t) PROVE Map!Next \/ UNCHANGED <<Shadows, current>>
  <2> DEFINE h == handle[t]
             s == Lookup(h)
  <2>1. CASE s = None
    BY <1>0, <1>3, <2>1 DEF noteContextDestroyed
  <2>2. CASE s # None
    <3>1. /\ h \in Handles /\ h \in Followed /\ s \in Slots /\ slotHandle[s] = h
          /\ UNCHANGED <<current, slotState>>
          /\ slotHandle' = [slotHandle EXCEPT ![s] = None]
      <4>1. h \in Handles
        BY <1>3 DEF noteContextDestroyed, TypeOK
      <4>2. h \in Followed /\ s \in Slots /\ slotHandle[s] = h
        BY <2>2, <4>1 DEF LookupIs, Found, Followed
      <4> QED BY <1>3, <2>2, <4>1, <4>2 DEF noteContextDestroyed
    <3> HIDE DEF s
    <3>2. slotHandle'[s] = None /\ \A r \in Slots \ {s} : slotHandle'[r] = slotHandle[r]
      BY <3>1 DEF TypeOK
    <3>3. ASSUME NEW g \in Handles
          PROVE  /\ g \in Followed' <=> g \in Followed \ {h}
                 /\ g \in Followed \ {h} => Lookup(g)' = Lookup(g)
      <4>1. g \in Followed => Lookup(g) \in Slots /\ slotHandle[Lookup(g)] = g
        BY DEF LookupIs, Found, Followed
      <4>2. g \in Followed' <=> \E r \in Slots : slotHandle'[r] = g
        BY DEF LookupIs, Found
      <4>3. g \in Followed <=> \E r \in Slots : slotHandle[r] = g
        BY DEF LookupIs, Found
      <4>4. g \in Followed' <=> g \in Followed \ {h}
        BY <3>1, <3>2, <4>2, <4>3 DEF OneSlotPerHandle
      <4>5. g \in Followed \ {h} => Lookup(g)' = Lookup(g)
        BY <3>1, <3>2, <4>1 DEF LookupIs, Found
      <4> QED BY <4>4, <4>5
    <3>4. Followed' = Followed \ {h}
      BY <3>3 DEF Followed
    <3>5. Shadows' = [g \in Followed \ {h} |-> Shadows[g]]
      BY <3>1, <3>3, <3>4 DEF Shadows, Followed
    <3>6. Map!Forget(h)
      BY <3>1, <3>5 DEF Map!Forget, Shadows
    <3> QED BY <3>1, <3>6 DEF Map!Next
  <2> QED BY <2>1, <2>2
<1>4. ASSUME NEW t \in Threads, NEW h \in Handles \cup {None}, eglMakeCurrent(t, h) PROVE Map!Next
  <2>1. /\ h = None \/ \A u \in Threads : current[u] # h
        /\ current' = [current EXCEPT ![t] = h] /\ UNCHANGED <<slotHandle, slotState>>
    BY <1>4 DEF eglMakeCurrent, InUse
  <2>2. Shadows' = Shadows
    BY <2>1 DEF Shadows, Followed, Lookup
  <2> QED BY <2>1, <2>2 DEF Map!Next, Map!MakeCurrent, Shadows
<1>5. ASSUME UNCHANGED <<slotHandle, slotState, current>> PROVE UNCHANGED <<Shadows, current>>
  BY <1>0, <1>5
<1> QED BY <1>1, <1>2, <1>3, <1>4, <1>5
  DEF Next, vars, StartCall, Scan, Compare, ForwardCall, eglCreateContext, eglDestroyContext

(* Until a slot is freed in the middle of a detour, the table is a map from     *)
(* contexts to shadows in which a context's shadow starts fresh and is changed *)
(* by the thread that has the context current, and by no other.               *)
THEOREM TableIsMap == Spec => ImplementsMap
<1>1. Init => Map!Init
  <2> SUFFICES ASSUME Init PROVE Shadows = [h \in {} |-> Fresh] /\ Map!Init
    OBVIOUS
  <2>1. Followed = {}
    BY TableAssumption DEF Init, Followed, Lookup
  <2>2. Shadows = [h \in {} |-> Fresh]
    BY <2>1 DEF Shadows
  <2> QED BY <2>2 DEF Init, Map!Init, Shadows
<1>2. /\ TInv /\ (~strayed => Own) /\ TInv' /\ [Next]_vars
      => [strayed \/ Map!Next]_(Map!vars)
  BY MapStep DEF OInv
<1> QED BY <1>1, <1>2, OInvInductive, PTL DEF Spec, ImplementsMap
=============================================================================
