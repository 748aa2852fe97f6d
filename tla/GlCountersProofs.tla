----------------------------- MODULE GlCountersProofs -----------------------------
(* The batches of the threads stay within their bounds, whatever the threads, *)
(* the counters and the size of a batch.                                      *)
EXTENDS GlCounters, FiniteSetTheorems, TLAPS

(* What a thread outside a fold holds, and what a fold has emptied so far. *)
Progress == \A t \in Threads :
  /\ cursor[t] = 0 => pending[t] < FlushEvery
  /\ \A c \in Cells : c < cursor[t] => batch[t][c] = 0

RenderAt ==
  /\ frame = "publish" => cursor[Render] # 0
  /\ frame = "readers" => cursor[Render] = 0 /\ pending[Render] = 0

Inv == TypeOK /\ Progress /\ RenderAt /\ ReadsOwnCalls

LEMMA CellSteps ==
  /\ \A h \in 1 .. HookCount : callsOf(h) \in Cells /\ suppressedOf(h) \in Cells
  /\ 1 \in Cells
  /\ \A c \in Cells : /\ after(c) \in {0} \cup Cells
                      /\ after(c) = 0 => \A d \in Cells : d <= c
                      /\ after(c) # 0 => after(c) = c + 1
BY CountersAssumption, SMT DEF Cells, callsOf, suppressedOf, after

LEMMA InitInv == Init => Inv
<1> SUFFICES ASSUME Init PROVE Inv
  OBVIOUS
<1>1. TypeOK
  BY CountersAssumption DEF Init, TypeOK, Zero
<1>2. Progress /\ RenderAt
  BY CountersAssumption DEF Init, Progress, RenderAt, Zero
<1>3. ReadsOwnCalls
  BY DEF Init, ReadsOwnCalls, Zero
<1> QED BY <1>1, <1>2, <1>3 DEF Inv

LEMMA NoteInv ==
  ASSUME Inv, NEW t \in Threads, NEW h \in 1 .. HookCount, NEW s \in BOOLEAN, note(t, h, s)
  PROVE  Inv'
<1> USE CountersAssumption, CellSteps
<1>1. \A n \in [Cells -> Nat] : /\ plusOne(n, counts(h, s)) \in [Cells -> Nat]
                                /\ \A c \in Cells : plusOne(n, counts(h, s))[c] <= n[c] + 1
  BY DEF plusOne
<1> DEFINE grown == plusOne(batch[t], counts(h, s))
<1>2. /\ batch' = [batch EXCEPT ![t] = grown] /\ pending' = [pending EXCEPT ![t] = @ + 1]
      /\ cursor[t] = 0 /\ pending[t] < FlushEvery
      /\ grown \in [Cells -> Nat] /\ \A c \in Cells : grown[c] <= pending[t] + 1
  <2>1. \A c \in Cells : grown[c] <= batch[t][c] + 1 /\ batch[t][c] <= pending[t]
    BY <1>1 DEF Inv, TypeOK
  <2>2. grown \in [Cells -> Nat]
    BY <1>1 DEF Inv, TypeOK
  <2>3. \A c \in Cells : grown[c] <= pending[t] + 1
    BY <2>1, <2>2, SMT DEF Inv, TypeOK
  <2> QED BY <2>2, <2>3 DEF Inv, note, running, Progress
<1> HIDE DEF grown
<1>3. TypeOK'
  <2>1. batch' \in [Threads -> [Cells -> Nat]] /\ pending' \in [Threads -> 0 .. FlushEvery]
    BY <1>2 DEF Inv, TypeOK
  <2>2. \A u \in Threads, c \in Cells : batch'[u][c] <= pending'[u]
    BY <1>2 DEF Inv, TypeOK
  <2>3. cursor' \in [Threads -> {0} \cup Cells] /\ noted' \in [Cells -> Nat]
    BY <1>1 DEF Inv, TypeOK, note
  <2> QED BY <2>1, <2>2, <2>3 DEF Inv, TypeOK, note, shared
<1>7. Progress'
  <2>1. \A u \in Threads : cursor'[u] = 0 => pending'[u] < FlushEvery
    BY <1>2 DEF Inv, TypeOK, note, Progress
  <2>2. cursor'[t] \in {0, 1} /\ \A u \in Threads \ {t} : /\ cursor'[u] = cursor[u]
                                                            /\ batch'[u] = batch[u]
    BY <1>2 DEF Inv, TypeOK, note
  <2>3. \A u \in Threads, c \in Cells : c < cursor'[u] => batch'[u][c] = 0
    <3> SUFFICES ASSUME NEW u \in Threads, NEW c \in Cells, c < cursor'[u] PROVE batch'[u][c] = 0
      OBVIOUS
    <3>1. CASE u = t
      BY <3>1, <2>2, SMT DEF Cells
    <3>2. CASE u # t
      BY <3>2, <2>2 DEF Inv, Progress
    <3> QED BY <3>1, <3>2
  <2> QED BY <2>1, <2>3 DEF Progress
<1>4. RenderAt'
  BY DEF Inv, TypeOK, note, running, RenderAt
<1>5. ReadsOwnCalls'
  BY DEF Inv, TypeOK, note, running, RenderAt, ReadsOwnCalls, shared
<1> QED BY <1>3, <1>4, <1>5, <1>7 DEF Inv

LEMMA FoldInv ==
  ASSUME Inv, NEW t \in Threads, fold(t)
  PROVE  Inv'
<1> USE CountersAssumption, CellSteps
<1> DEFINE c == cursor[t]
<1>1. c \in Cells /\ cursor' = [cursor EXCEPT ![t] = after(c)]
  BY DEF Inv, TypeOK, fold
<1>2. batch' \in [Threads -> [Cells -> Nat]] /\ total' \in [Cells -> Nat]
  BY <1>1 DEF Inv, TypeOK, fold
<1>3. \A d \in Cells : d < c => batch[t][d] = 0
  BY <1>1 DEF Inv, Progress
<1>4. /\ batch'[t] = [batch[t] EXCEPT ![c] = 0]
      /\ \A u \in Threads \ {t} : batch'[u] = batch[u]
  BY <1>1 DEF Inv, TypeOK, fold
<1>5. after(c) = 0 => \A d \in Cells : batch'[t][d] = 0
  <2> SUFFICES ASSUME after(c) = 0, NEW d \in Cells PROVE batch'[t][d] = 0
    OBVIOUS
  <2>1. d <= c
    BY <1>1
  <2>2. CASE d = c
    BY <2>2, <1>1, <1>4 DEF Inv, TypeOK
  <2>3. CASE d # c
    BY <2>1, <2>3, <1>1, <1>3, <1>4, SMT DEF Inv, TypeOK, Cells
  <2> QED BY <2>2, <2>3
<1>6. /\ pending'[t] = (IF after(c) = 0 THEN 0 ELSE pending[t])
      /\ \A u \in Threads \ {t} : pending'[u] = pending[u]
      /\ pending' \in [Threads -> 0 .. FlushEvery]
  BY <1>1 DEF Inv, TypeOK, fold
<1>7. \A u \in Threads, d \in Cells : batch'[u][d] <= pending'[u]
  <2> SUFFICES ASSUME NEW u \in Threads, NEW d \in Cells PROVE batch'[u][d] <= pending'[u]
    OBVIOUS
  <2>1. CASE u # t
    BY <2>1, <1>4, <1>6 DEF Inv, TypeOK
  <2>2. CASE u = t /\ after(c) = 0
    BY <2>2, <1>5, <1>6
  <2>3. CASE u = t /\ after(c) # 0
    BY <2>3, <1>1, <1>4, <1>6 DEF Inv, TypeOK
  <2> QED BY <2>1, <2>2, <2>3
<1>8. TypeOK'
  <2>1. frame' \in {"game", "publish", "readers"} /\ reading' \in {0} \cup Cells /\ exits' \in Nat
    BY DEF Inv, TypeOK, fold, past
  <2>2. cursor' \in [Threads -> {0} \cup Cells]
    BY <1>1 DEF Inv, TypeOK
  <2>3. \A count \in {total', out', noted', lost'} : count \in [Cells -> Nat]
    BY <1>2 DEF Inv, TypeOK, fold, past
  <2> QED BY <1>2, <1>6, <1>7, <2>1, <2>2, <2>3 DEF TypeOK
<1>9. Progress'
  <2> SUFFICES ASSUME NEW u \in Threads
               PROVE  /\ cursor'[u] = 0 => pending'[u] < FlushEvery
                      /\ \A d \in Cells : d < cursor'[u] => batch'[u][d] = 0
    BY DEF Progress
  <2>1. CASE u # t
    BY <2>1, <1>1, <1>4, <1>6 DEF Inv, TypeOK, Progress
  <2>2. CASE u = t /\ after(c) = 0
    BY <2>2, <1>1, <1>5, <1>6 DEF Inv, TypeOK
  <2>3. CASE u = t /\ after(c) # 0
    <3>1. cursor'[t] = c + 1
      BY <2>3, <1>1 DEF Inv, TypeOK
    <3> SUFFICES ASSUME NEW d \in Cells, d < c + 1 PROVE batch'[t][d] = 0
      BY <2>3, <3>1, <1>1, SMT DEF Cells
    <3>2. CASE d = c
      BY <3>2, <1>1, <1>4 DEF Inv, TypeOK
    <3>3. CASE d < c
      <4>1. d # c
        BY <3>3, <1>1, SMT DEF Cells
      <4> QED BY <3>3, <4>1, <1>3, <1>4 DEF Inv, TypeOK
    <3> QED BY <3>2, <3>3, <1>1, SMT DEF Cells
  <2> QED BY <2>1, <2>2, <2>3
<1>10. RenderAt'
  <2>1. CASE t # Render
    BY <2>1, <1>1, <1>6 DEF Inv, TypeOK, RenderAt, fold
  <2>2. CASE t = Render
    BY <2>2, <1>1, <1>6 DEF Inv, TypeOK, RenderAt, fold
  <2> QED BY <2>1, <2>2
<1>11. ReadsOwnCalls'
  <2>1. frame' = "readers" => batch'[Render] = Zero
    <3> SUFFICES ASSUME frame' = "readers" PROVE batch'[Render] = Zero
      OBVIOUS
    <3>1. \A d \in Cells : batch'[Render][d] <= 0
      BY <1>7, <1>10 DEF RenderAt
    <3>2. \A d \in Cells : batch'[Render][d] = 0
      BY <3>1, <1>2, SMT
    <3> QED BY <3>2, <1>2 DEF Zero
  <2>2. \A d \in Cells : total[d] <= total'[d]
    BY <1>1 DEF Inv, TypeOK, fold
  <2>3. \A d \in Cells : out'[d] <= total'[d]
    BY <2>2, <1>2 DEF Inv, TypeOK, ReadsOwnCalls, fold
  <2> QED BY <2>1, <2>3 DEF ReadsOwnCalls
<1> QED BY <1>8, <1>9, <1>10, <1>11 DEF Inv

LEMMA PublishInv ==
  ASSUME Inv, publish
  PROVE  Inv'
<1> USE CountersAssumption, CellSteps
<1>1. TypeOK'
  BY DEF Inv, TypeOK, publish, shared, past
<1>2. Progress'
  <2>1. cursor'[Render] \in {0, 1} /\ \A u \in Threads \ {Render} : cursor'[u] = cursor[u]
    BY DEF Inv, TypeOK, publish, running
  <2>2. \A u \in Threads : cursor'[u] = 0 => cursor[u] = 0
    BY <2>1 DEF publish, running
  <2>3. \A c \in Cells : ~(c < cursor'[Render])
    BY <2>1, SMT DEF Cells
  <2> QED BY <2>1, <2>2, <2>3 DEF Inv, Progress, publish
<1>3. RenderAt'
  BY DEF Inv, TypeOK, RenderAt, publish, running
<1>4. ReadsOwnCalls'
  <2>1. pending[Render] = 0 => batch[Render] = Zero
    <3> SUFFICES ASSUME pending[Render] = 0 PROVE batch[Render] = Zero
      OBVIOUS
    <3>1. \A d \in Cells : batch[Render][d] = 0
      BY SMT DEF Inv, TypeOK
    <3> QED BY <3>1 DEF Inv, TypeOK, Zero
  <2> QED BY <2>1 DEF Inv, ReadsOwnCalls, publish, shared
<1> QED BY <1>1, <1>2, <1>3, <1>4 DEF Inv

LEMMA ReaderInv ==
  ASSUME Inv, snapshot \/ endFrame
  PROVE  Inv'
<1> USE CountersAssumption, CellSteps
<1>1. TypeOK'
  BY DEF Inv, TypeOK, snapshot, endFrame, shared, past, Zero
<1>2. Progress' /\ RenderAt'
  BY DEF Inv, Progress, RenderAt, snapshot, endFrame, past
<1>3. UNCHANGED <<batch, total>> /\ frame = "readers"
  BY DEF snapshot, endFrame, shared
<1>4. ASSUME NEW c \in Cells PROVE out'[c] <= total[c]
  <2>1. out[c] <= total[c] /\ total[c] \in Nat /\ out \in [Cells -> Nat]
    BY DEF Inv, TypeOK, ReadsOwnCalls
  <2>2. out' = Zero \/ out' = [out EXCEPT ![reading] = total[reading]] \/ out' = out
    BY DEF snapshot, endFrame, shared
  <2>3. CASE out' = Zero
    BY <2>1, <2>3 DEF Zero
  <2>4. CASE out' = [out EXCEPT ![reading] = total[reading]] \/ out' = out
    BY <2>1, <2>4
  <2> QED BY <2>2, <2>3, <2>4
<1>5. ReadsOwnCalls'
  BY <1>3, <1>4 DEF Inv, ReadsOwnCalls
<1> QED BY <1>1, <1>2, <1>5 DEF Inv

LEMMA ExitInv ==
  ASSUME Inv, NEW t \in Threads, threadExit(t)
  PROVE  Inv'
<1> USE CountersAssumption
<1>1. TypeOK'
  BY DEF Inv, TypeOK, threadExit, shared, Zero
<1>2. Progress'
  BY DEF Inv, TypeOK, Progress, threadExit, Zero
<1>3. RenderAt' /\ ReadsOwnCalls'
  BY DEF Inv, TypeOK, RenderAt, ReadsOwnCalls, threadExit, shared
<1> QED BY <1>1, <1>2, <1>3 DEF Inv

LEMMA NextInv == Inv /\ [Next]_vars => Inv'
<1> SUFFICES ASSUME Inv, [Next]_vars PROVE Inv'
  OBVIOUS
<1>1. CASE \E t \in Threads, h \in 1 .. HookCount, s \in BOOLEAN : note(t, h, s)
  BY <1>1, NoteInv
<1>2. CASE \E t \in Threads : fold(t)
  BY <1>2, FoldInv
<1>3. CASE publish
  BY <1>3, PublishInv
<1>4. CASE snapshot \/ endFrame
  BY <1>4, ReaderInv
<1>5. CASE \E t \in Threads : threadExit(t)
  BY <1>5, ExitInv
<1>6. CASE UNCHANGED vars
  BY <1>6 DEF vars, shared, past, Inv, TypeOK, Progress, RenderAt, ReadsOwnCalls
<1> QED BY <1>1, <1>2, <1>3, <1>4, <1>5, <1>6 DEF Next

(* Every batch stays within FlushEvery and the fields within their types. *)
THEOREM CountersTyped == Spec => []TypeOK
<1>1. Inv => TypeOK
  BY DEF Inv
<1> QED BY <1>1, InitInv, NextInv, PTL DEF Spec

(* What the callback's readers see misses no call of the render thread. *)
THEOREM ReadersSeeOwnCalls == Spec => []ReadsOwnCalls
<1>1. Inv => ReadsOwnCalls
  BY DEF Inv
<1> QED BY <1>1, InitInv, NextInv, PTL DEF Spec

-----------------------------------------------------------------------------
(* The refinement of Tally.  What the threads still hold of a counter is not *)
(* summed up but counted: one token for each unit in each batch.             *)

Tokens(b) == {p \in Threads \X (1 .. FlushEvery) : p[2] <= b[p[1]]}
Slice(c)  == [t \in Threads |-> batch[t][c]]

(* Nothing is lost or counted twice: noted, folded, gone, or in some batch. *)
Balanced == \A c \in Cells : noted[c] = total[c] + lost[c] + Cardinality(Tokens(Slice(c)))

LEMMA TokensBounded ==
  ASSUME NEW b
  PROVE  /\ IsFiniteSet(Tokens(b)) /\ Cardinality(Tokens(b)) \in Nat
         /\ Cardinality(Threads) \in Nat
         /\ Cardinality(Tokens(b)) <= Cardinality(Threads) * FlushEvery
<1>1. /\ IsFiniteSet(Threads) /\ Cardinality(Threads) \in Nat
      /\ IsFiniteSet(1 .. FlushEvery) /\ Cardinality(1 .. FlushEvery) = FlushEvery
  <2>1. Cardinality(1 .. FlushEvery) = IF 1 > FlushEvery THEN 0 ELSE FlushEvery - 1 + 1
    BY CountersAssumption, FS_Interval
  <2>2. IsFiniteSet(1 .. FlushEvery)
    BY CountersAssumption, FS_Interval
  <2>3. Cardinality(1 .. FlushEvery) = FlushEvery
    BY <2>1, CountersAssumption, SMT
  <2> QED BY <2>2, <2>3, CountersAssumption, FS_CardinalityType
<1>2. /\ IsFiniteSet(Threads \X (1 .. FlushEvery))
      /\ Cardinality(Threads \X (1 .. FlushEvery)) = Cardinality(Threads) * FlushEvery
  BY <1>1, FS_Product
<1>3. Tokens(b) \in SUBSET (Threads \X (1 .. FlushEvery))
  BY DEF Tokens
<1> QED BY <1>1, <1>2, <1>3, FS_Subset, FS_CardinalityType

(* One call more is one token more ... *)
LEMMA TokenAdded ==
  ASSUME NEW b \in [Threads -> Nat], NEW d \in [Threads -> Nat], NEW t \in Threads,
         b[t] < FlushEvery, d[t] = b[t] + 1, \A u \in Threads \ {t} : d[u] = b[u]
  PROVE  Cardinality(Tokens(d)) = Cardinality(Tokens(b)) + 1
<1> DEFINE new == <<t, b[t] + 1>>
<1>1. new \notin Tokens(b)
  BY DEF Tokens
<1>2. Tokens(d) = Tokens(b) \cup {new}
  <2>1. ASSUME NEW u \in Threads, NEW k \in 1 .. FlushEvery
        PROVE  k <= d[u] <=> k <= b[u] \/ <<u, k>> = new
    <3>1. CASE u = t
      BY <3>1, SMT
    <3>2. CASE u # t
      BY <3>2
    <3> QED BY <3>1, <3>2
  <2>2. new \in Threads \X (1 .. FlushEvery)
    BY CountersAssumption
  <2> QED BY <2>1, <2>2 DEF Tokens
<1> QED BY <1>1, <1>2, TokensBounded, FS_AddElement

(* ... and a batch that is emptied takes as many tokens as it had. *)
LEMMA TokensTaken ==
  ASSUME NEW b \in [Threads -> Nat], NEW d \in [Threads -> Nat], NEW t \in Threads,
         b[t] <= FlushEvery, d[t] = 0, \A u \in Threads \ {t} : d[u] = b[u]
  PROVE  Cardinality(Tokens(b)) = Cardinality(Tokens(d)) + b[t]
<1> DEFINE own == {t} \X (1 .. b[t])
<1>1. IsFiniteSet(own) /\ Cardinality(own) = b[t]
  <2>1. IsFiniteSet({t}) /\ Cardinality({t}) = 1
    BY FS_Singleton
  <2>2. IsFiniteSet(1 .. b[t]) /\ Cardinality(1 .. b[t]) = b[t]
    BY FS_Interval
  <2>3. IsFiniteSet(own) /\ Cardinality(own) = 1 * b[t]
    BY <2>1, <2>2, FS_Product
  <2> QED BY <2>3
<1>2. Tokens(b) = Tokens(d) \cup own /\ Tokens(d) \cap own = {}
  <2>1. ASSUME NEW u \in Threads, NEW k \in 1 .. FlushEvery
        PROVE  /\ k <= b[u] <=> k <= d[u] \/ <<u, k>> \in own
               /\ ~(k <= d[u] /\ <<u, k>> \in own)
    <3>1. CASE u = t
      BY <3>1, SMT
    <3>2. CASE u # t
      BY <3>2
    <3> QED BY <3>1, <3>2
  <2>2. own \subseteq Threads \X (1 .. FlushEvery)
    BY CountersAssumption
  <2> QED BY <2>1, <2>2 DEF Tokens
<1>3. Cardinality(Tokens(d) \cap own) = 0
  BY <1>2, FS_EmptySet
<1>4. Cardinality(Tokens(b)) =
        Cardinality(Tokens(d)) + Cardinality(own) - Cardinality(Tokens(d) \cap own)
  BY <1>1, <1>2, TokensBounded, FS_Union
<1> QED BY <1>1, <1>3, <1>4, TokensBounded, SMT

LEMMA Slices ==
  ASSUME TypeOK, NEW c \in Cells
  PROVE  /\ Slice(c) \in [Threads -> Nat]
         /\ \A t \in Threads : Slice(c)[t] = batch[t][c] /\ Slice(c)[t] <= FlushEvery
BY CountersAssumption DEF TypeOK, Slice

LEMMA InitBalanced == Init => Balanced
<1> SUFFICES ASSUME Init, NEW c \in Cells
             PROVE  noted[c] = total[c] + lost[c] + Cardinality(Tokens(Slice(c)))
  BY DEF Balanced
<1>1. Tokens(Slice(c)) = {}
  BY DEF Init, Slice, Tokens, Zero
<1> QED BY <1>1, FS_EmptySet DEF Init, Zero

LEMMA NoteBalanced ==
  ASSUME Inv, Balanced, NEW t \in Threads, NEW h \in 1 .. HookCount, NEW s \in BOOLEAN,
         note(t, h, s)
  PROVE  Balanced'
<1> SUFFICES ASSUME NEW c \in Cells
             PROVE  noted'[c] = total'[c] + lost'[c] + Cardinality(Tokens(Slice(c)'))
  BY DEF Balanced
<1> USE CountersAssumption
<1>1. TypeOK /\ TypeOK' /\ total' = total /\ lost' = lost
  BY NoteInv DEF Inv, note, shared
<1>2. /\ noted'[c] = IF c \in counts(h, s) THEN noted[c] + 1 ELSE noted[c]
      /\ batch'[t][c] = IF c \in counts(h, s) THEN batch[t][c] + 1 ELSE batch[t][c]
      /\ \A u \in Threads \ {t} : batch'[u] = batch[u]
  BY DEF Inv, TypeOK, note, plusOne
<1>3. /\ Slice(c) \in [Threads -> Nat] /\ Slice(c)' \in [Threads -> Nat]
      /\ \A u \in Threads : Slice(c)[u] = batch[u][c] /\ Slice(c)'[u] = batch'[u][c]
  BY <1>1 DEF TypeOK, Slice
<1>4. CASE c \in counts(h, s)
  <2>1. batch[t][c] < FlushEvery
    BY DEF Inv, TypeOK, Progress, note, running
  <2>2. Cardinality(Tokens(Slice(c)')) = Cardinality(Tokens(Slice(c))) + 1
    BY <1>2, <1>3, <1>4, <2>1, TokenAdded
  <2> QED BY <1>1, <1>2, <1>4, <2>2, TokensBounded, SMT DEF Balanced, TypeOK
<1>5. CASE c \notin counts(h, s)
  <2>1. Slice(c)' = Slice(c)
    BY <1>2, <1>5 DEF Slice
  <2> QED BY <1>1, <1>2, <1>5, <2>1 DEF Balanced
<1> QED BY <1>4, <1>5

LEMMA FoldBalanced ==
  ASSUME Inv, Balanced, NEW t \in Threads, fold(t)
  PROVE  Balanced'
<1> SUFFICES ASSUME NEW c \in Cells
             PROVE  noted'[c] = total'[c] + lost'[c] + Cardinality(Tokens(Slice(c)'))
  BY DEF Balanced
<1> USE CountersAssumption
<1>1. TypeOK /\ TypeOK' /\ noted' = noted /\ lost' = lost /\ cursor[t] \in Cells
  BY FoldInv DEF Inv, TypeOK, fold, past
<1>2. /\ total'[c] = IF c = cursor[t] THEN total[c] + batch[t][c] ELSE total[c]
      /\ batch'[t][c] = IF c = cursor[t] THEN 0 ELSE batch[t][c]
      /\ \A u \in Threads \ {t} : batch'[u] = batch[u]
  BY <1>1 DEF TypeOK, fold
<1>3. /\ Slice(c) \in [Threads -> Nat] /\ Slice(c)' \in [Threads -> Nat]
      /\ \A u \in Threads : Slice(c)[u] = batch[u][c] /\ Slice(c)'[u] = batch'[u][c]
  BY <1>1 DEF TypeOK, Slice
<1>4. CASE c = cursor[t]
  <2>1. Slice(c)[t] <= FlushEvery
    BY <1>1, Slices
  <2>2. Cardinality(Tokens(Slice(c))) = Cardinality(Tokens(Slice(c)')) + batch[t][c]
    BY <1>2, <1>3, <1>4, <2>1, TokensTaken
  <2>3. batch[t][c] \in Nat /\ total[c] \in Nat /\ lost[c] \in Nat
    BY <1>1 DEF TypeOK
  <2> QED BY <1>1, <1>2, <1>4, <2>2, <2>3, TokensBounded, SMT DEF Balanced
<1>5. CASE c # cursor[t]
  <2>1. Slice(c)' = Slice(c)
    BY <1>2, <1>5 DEF Slice
  <2> QED BY <1>1, <1>2, <1>5, <2>1 DEF Balanced
<1> QED BY <1>4, <1>5

LEMMA ExitBalanced ==
  ASSUME Inv, Balanced, NEW t \in Threads, threadExit(t)
  PROVE  Balanced'
<1> SUFFICES ASSUME NEW c \in Cells
             PROVE  noted'[c] = total'[c] + lost'[c] + Cardinality(Tokens(Slice(c)'))
  BY DEF Balanced
<1>1. TypeOK /\ TypeOK' /\ noted' = noted /\ total' = total
  BY ExitInv DEF Inv, threadExit, shared
<1>2. /\ lost'[c] = lost[c] + batch[t][c] /\ batch'[t][c] = 0
      /\ \A u \in Threads \ {t} : batch'[u] = batch[u]
  BY <1>1 DEF TypeOK, threadExit, Zero
<1>3. /\ Slice(c) \in [Threads -> Nat] /\ Slice(c)' \in [Threads -> Nat]
      /\ \A u \in Threads : Slice(c)[u] = batch[u][c] /\ Slice(c)'[u] = batch'[u][c]
  BY <1>1 DEF TypeOK, Slice
<1>4. Slice(c)[t] <= FlushEvery
  BY <1>1, Slices
<1>5. Cardinality(Tokens(Slice(c))) = Cardinality(Tokens(Slice(c)')) + batch[t][c]
  BY <1>2, <1>3, <1>4, TokensTaken
<1>6. batch[t][c] \in Nat /\ total[c] \in Nat /\ lost[c] \in Nat
  BY <1>1 DEF TypeOK
<1> QED BY <1>1, <1>2, <1>5, <1>6, TokensBounded, SMT DEF Balanced

LEMMA NextBalanced == Inv /\ Balanced /\ [Next]_vars => Balanced'
<1> SUFFICES ASSUME Inv, Balanced, [Next]_vars PROVE Balanced'
  OBVIOUS
<1>1. CASE \E t \in Threads, h \in 1 .. HookCount, s \in BOOLEAN : note(t, h, s)
  BY <1>1, NoteBalanced
<1>2. CASE \E t \in Threads : fold(t)
  BY <1>2, FoldBalanced
<1>3. CASE \E t \in Threads : threadExit(t)
  BY <1>3, ExitBalanced
<1>4. CASE publish \/ snapshot \/ endFrame \/ UNCHANGED vars
  <2>1. UNCHANGED <<batch, total, noted, lost>>
    BY <1>4 DEF publish, snapshot, endFrame, vars, shared, past
  <2> QED BY <2>1 DEF Balanced, Slice
<1> QED BY <1>1, <1>2, <1>3, <1>4 DEF Next

(* What Tally asks of every state, and a balance is all it takes. *)
Lag == \A c \in Cells :
  /\ total[c] + lost[c] <= noted[c]
  /\ noted[c] <= total[c] + lost[c] + Cardinality(Threads) * FlushEvery

LEMMA BalancedLag == TypeOK /\ Balanced => Lag
<1> SUFFICES ASSUME TypeOK, Balanced, NEW c \in Cells
             PROVE  /\ total[c] + lost[c] <= noted[c]
                    /\ noted[c] <= total[c] + lost[c] + Cardinality(Threads) * FlushEvery
  BY DEF Lag
<1> DEFINE held  == Cardinality(Tokens(Slice(c)))
           slack == Cardinality(Threads) * FlushEvery
<1>1. noted[c] = total[c] + lost[c] + held
  BY DEF Balanced
<1>2. held \in Nat /\ held <= slack /\ slack \in Int
  BY TokensBounded, CountersAssumption
<1>3. noted[c] \in Nat /\ total[c] \in Nat /\ lost[c] \in Nat
  BY DEF TypeOK
<1> HIDE DEF held, slack
<1>4. total[c] + lost[c] <= noted[c] /\ noted[c] <= total[c] + lost[c] + slack
  BY <1>1, <1>2, <1>3, SMT
<1> QED BY <1>4 DEF slack

LEMMA TallyStep == Inv /\ Lag' /\ [Next]_vars => [Promise!Next]_Promise!vars
<1> SUFFICES ASSUME Inv, Lag', [Next]_vars PROVE [Promise!Next]_Promise!vars
  OBVIOUS
<1>2. Promise!InStep(noted', total', lost')
  BY DEF Lag, Promise!InStep
<1>3. CASE \E t \in Threads, h \in 1 .. HookCount, s \in BOOLEAN : note(t, h, s)
  <2> PICK t \in Threads, h \in 1 .. HookCount, s \in BOOLEAN : note(t, h, s)
    BY <1>3
  <2>1. counts(h, s) \in SUBSET Cells
    BY CellSteps DEF counts
  <2>2. /\ noted' = [c \in Cells |-> IF c \in counts(h, s) THEN noted[c] + 1 ELSE noted[c]]
        /\ UNCHANGED <<total, lost>>
    BY DEF note, plusOne, shared
  <2>3. Promise!Note
    BY <2>1, <2>2 DEF Promise!Note
  <2> QED BY <1>2, <2>3 DEF Promise!Next
<1>4. CASE \E t \in Threads : fold(t)
  <2> PICK t \in Threads : fold(t)
    BY <1>4
  <2>1. UNCHANGED <<noted, lost>> /\ \A c \in Cells : total'[c] >= total[c]
    BY DEF fold, past, Inv, TypeOK
  <2> QED BY <1>2, <2>1 DEF Promise!Next, Promise!Reveal
<1>5. CASE \E t \in Threads : threadExit(t)
  <2> PICK t \in Threads : threadExit(t)
    BY <1>5
  <2>1. \A c \in Cells : batch[t][c] \in 0 .. FlushEvery - 1
    BY CountersAssumption DEF threadExit, Inv, TypeOK, Progress
  <2>2. UNCHANGED <<noted, total>>
        /\ \A c \in Cells : lost'[c] - lost[c] \in 0 .. FlushEvery - 1
    BY <2>1 DEF threadExit, shared, Inv, TypeOK
  <2> QED BY <1>2, <2>2 DEF Promise!Next, Promise!Lose
<1>6. CASE publish \/ snapshot \/ endFrame \/ UNCHANGED vars
  BY <1>6 DEF publish, snapshot, endFrame, vars, shared, past, Promise!vars
<1> QED BY <1>3, <1>4, <1>5, <1>6 DEF Next

(* Whatever the threads hold back, whenever folds of theirs overlap and whoever *)
(* ends, the totals follow what was noted within the size of all batches.       *)
THEOREM CountersTally == Spec => ImplementsTally
<1>1. Init => Promise!Init
  BY DEF Init, Zero, Promise!Init
<1>2. Spec => [](Inv /\ Balanced)
  BY InitInv, NextInv, InitBalanced, NextBalanced, PTL DEF Spec
<1>3. Inv /\ Balanced => Lag
  BY BalancedLag DEF Inv
<1> QED BY <1>1, <1>2, <1>3, TallyStep, PTL DEF Spec, ImplementsTally, Promise!Spec
=============================================================================
