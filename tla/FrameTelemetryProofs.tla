--------------------------- MODULE FrameTelemetryProofs ---------------------------
(* The cadence stays a twentieth above any frame of the window at the most, and *)
(* a steady game loses the verdict of pacing for a frame at a time, for every   *)
(* window no longer than the wait before the cadence is stretched.              *)
EXTENDS FrameTelemetry, FiniteSetTheorems, WellFoundedInduction, TLAPS

(* A frame of the window is at least the cadence, or the cadence has been       *)
(* stretched past it once, since that frame.                                    *)
Above(best, atBest, frame, age) ==
  best <= frame \/ (20 * best <= 21 * frame /\ atBest <= age)

Inv ==
  /\ TypeOK
  /\ mWindow # <<>> => mBestFrameMs > 0
  /\ \A i \in 1 .. Len(mWindow) :
       Above(mBestFrameMs, mFramesAtBest, mWindow[i], Len(mWindow) - i)

LEMMA TowardsIsNat ==
  ASSUME NEW ema \in Nat, NEW frame \in Nat PROVE towards(ema, frame) \in Nat
<1>1. CASE frame >= ema
  BY <1>1, SMT DEF towards
<1>2. CASE ema > frame
  <2>1. ((ema - frame) + 9) \div 10 <= ema - frame /\ ((ema - frame) + 9) \div 10 \in Nat
    BY <1>2, SMT
  <2> QED BY <1>2, <2>1, SMT DEF towards
<1> QED BY <1>1, <1>2, SMT

LEMMA StretchBounds ==
  ASSUME NEW best \in Nat
  PROVE  stretched(best) \in Nat /\ best <= stretched(best) /\ 20 * stretched(best) <= 21 * best
BY SMT DEF stretched

LEMMA FrameIsNat ==
  ASSUME NEW window \in Seq(FrameTimes), NEW i \in 1 .. Len(window)
  PROVE  window[i] \in Nat /\ window[i] > 0
<1>1. window[i] \in FrameTimes
  OBVIOUS
<1>2. FrameTimes \subseteq Nat \ {0}
  BY TelemetryAssumption
<1>3. window[i] \in Nat \ {0}
  BY <1>1, <1>2
<1> QED BY <1>3, SMT

(* What a window holds once a frame is added to it, and the age each has then. *)
LEMMA KeptWindow ==
  ASSUME TypeOK, NEW frame \in FrameTimes
  PROVE  /\ kept(frame) \in Seq(FrameTimes) /\ Len(kept(frame)) \in 1 .. Window
         /\ \A i \in 1 .. Len(kept(frame)) :
              \/ i = Len(kept(frame)) /\ kept(frame)[i] = frame
              \/ \E j \in 1 .. Len(mWindow) :
                   /\ kept(frame)[i] = mWindow[j]
                   /\ Len(kept(frame)) - i = Len(mWindow) - j + 1
<1> USE TelemetryAssumption DEF TypeOK
<1>1. CASE Len(mWindow) < Window
  <2> DEFINE w == Append(mWindow, frame)
  <2>1. w \in Seq(FrameTimes) /\ Len(w) = Len(mWindow) + 1 /\ w[Len(w)] = frame
    OBVIOUS
  <2>2. \A i \in 1 .. Len(mWindow) : w[i] = mWindow[i] /\ Len(w) - i = Len(mWindow) - i + 1
    BY <2>1
  <2>3. \A i \in 1 .. Len(w) : i = Len(w) \/ i \in 1 .. Len(mWindow)
    BY <2>1
  <2>4. kept(frame) = w
    BY <1>1 DEF kept
  <2> HIDE DEF w
  <2> QED BY <1>1, <2>1, <2>2, <2>3, <2>4
<1>2. CASE ~(Len(mWindow) < Window)
  <2> DEFINE w == Append(Tail(mWindow), frame)
  <2>0. Len(mWindow) = Window /\ mWindow # <<>>
    BY <1>2
  <2>1. Tail(mWindow) \in Seq(FrameTimes) /\ Len(Tail(mWindow)) = Len(mWindow) - 1
        /\ \A i \in 1 .. Len(mWindow) - 1 : Tail(mWindow)[i] = mWindow[i + 1]
    BY <2>0
  <2>2. w \in Seq(FrameTimes) /\ Len(w) = Len(mWindow) /\ w[Len(w)] = frame
    BY <2>0, <2>1
  <2>3. \A i \in 1 .. Len(mWindow) - 1 :
          w[i] = mWindow[i + 1] /\ i + 1 \in 1 .. Len(mWindow)
          /\ Len(w) - i = Len(mWindow) - (i + 1) + 1
    BY <2>0, <2>1, <2>2
  <2>5. kept(frame) = w
    BY <1>2 DEF kept
  <2> HIDE DEF w
  <2>6. Len(mWindow) \in Nat
    OBVIOUS
  <2>4. \A i \in 1 .. Len(w) : i = Len(w) \/ i \in 1 .. Len(mWindow) - 1
    BY <2>2, <2>6, SMT
    <2>7. ASSUME NEW i \in 1 .. Len(w), i # Len(w)
        PROVE  \E j \in 1 .. Len(mWindow) :
                 w[i] = mWindow[j] /\ Len(w) - i = Len(mWindow) - j + 1
    <3>1. i \in 1 .. Len(mWindow) - 1
      BY <2>4, <2>7
    <3>2. i + 1 \in 1 .. Len(mWindow)
      BY <2>6, <3>1, SMT
    <3> QED BY <2>3, <3>1, <3>2
  <2>8. Len(w) \in 1 .. Window
    BY <2>0, <2>2, SMT
  <2> QED BY <2>2, <2>5, <2>7, <2>8
<1> QED BY <1>1, <1>2

LEMMA PushInv ==
  ASSUME Inv, NEW frame \in FrameTimes, push(frame), mLastSwapNs' = TRUE
  PROVE  Inv'
<1> USE TelemetryAssumption
<1>1. frame \in Nat /\ frame > 0 /\ mWindow' = kept(frame)
  BY DEF push
<1>0. /\ stretched(mBestFrameMs) \in Nat /\ mBestFrameMs <= stretched(mBestFrameMs)
      /\ 20 * stretched(mBestFrameMs) <= 21 * mBestFrameMs
      /\ mBestFrameMs \in Nat /\ mFramesAtBest \in 0 .. BestDecayFrames
  BY StretchBounds DEF Inv, TypeOK
<1>2. /\ mWindow' \in Seq(FrameTimes) /\ Len(mWindow') \in 1 .. Window
      /\ \A i \in 1 .. Len(mWindow') :
           \/ i = Len(mWindow') /\ mWindow'[i] = frame
           \/ \E j \in 1 .. Len(mWindow) :
                mWindow'[i] = mWindow[j] /\ Len(mWindow') - i = Len(mWindow) - j + 1
  BY <1>1, KeptWindow DEF Inv
<1>3. \/ /\ mBestFrameMs' = frame /\ mFramesAtBest' = 0
         /\ frame < mBestFrameMs \/ mBestFrameMs = 0
      \/ /\ mBestFrameMs' = stretched(mBestFrameMs) /\ mFramesAtBest' = 0
         /\ mFramesAtBest = BestDecayFrames /\ mBestFrameMs <= frame /\ mBestFrameMs > 0
      \/ /\ mBestFrameMs' = mBestFrameMs /\ mFramesAtBest' = mFramesAtBest + 1
         /\ mFramesAtBest < BestDecayFrames /\ mBestFrameMs <= frame /\ mBestFrameMs > 0
  BY <1>1 DEF push, cadence, Inv, TypeOK
<1>4. mBestFrameMs' \in Nat /\ mBestFrameMs' > 0 /\ mFramesAtBest' \in 0 .. BestDecayFrames
  BY <1>0, <1>1, <1>3, SMT
<1>5. TypeOK'
  <2>1. mEmaFrameMs' \in Nat
    BY <1>1, TowardsIsNat DEF push, Inv, TypeOK
  <2>2. settled' \in BOOLEAN
    BY DEF push
  <2>3. mLastSwapNs' \in BOOLEAN
    OBVIOUS
  <2> QED BY <1>2, <1>4, <2>1, <2>2, <2>3 DEF TypeOK
<1>6. Above(mBestFrameMs', mFramesAtBest', frame, 0)
  BY <1>0, <1>1, <1>3, SMT DEF Above
<1>7. ASSUME NEW j \in 1 .. Len(mWindow)
      PROVE  Above(mBestFrameMs', mFramesAtBest', mWindow[j], Len(mWindow) - j + 1)
  <2>1. /\ mWindow[j] \in Nat /\ Len(mWindow) - j \in Nat /\ Len(mWindow) - j < Window
        /\ Above(mBestFrameMs, mFramesAtBest, mWindow[j], Len(mWindow) - j)
        /\ mBestFrameMs > 0
    <3>1. mWindow \in Seq(FrameTimes) /\ Len(mWindow) \in 0 .. Window /\ j \in 1 .. Len(mWindow)
      BY DEF Inv, TypeOK
    <3>2. mWindow # <<>>
      BY <3>1
    <3> QED BY <3>1, <3>2, FrameIsNat DEF Inv
  <2>2. 20 * mBestFrameMs <= 21 * mWindow[j]
    BY <2>1, SMT DEF Above, Inv, TypeOK
  <2>3. CASE mBestFrameMs' = frame /\ mFramesAtBest' = 0 /\ frame < mBestFrameMs
    BY <1>1, <2>1, <2>2, <2>3, SMT DEF Above, Inv, TypeOK
  <2>4. CASE /\ mBestFrameMs' = stretched(mBestFrameMs) /\ mFramesAtBest' = 0
             /\ mFramesAtBest = BestDecayFrames
    <3>1. mBestFrameMs <= mWindow[j]
      BY <2>1, <2>4, SMT DEF Above, Inv, TypeOK
    <3> QED BY <1>0, <2>1, <2>4, <3>1, SMT DEF Above
  <2>5. CASE mBestFrameMs' = mBestFrameMs /\ mFramesAtBest' = mFramesAtBest + 1
    BY <2>1, <2>5, SMT DEF Above, Inv, TypeOK
  <2> QED BY <1>3, <2>1, <2>3, <2>4, <2>5
<1>8. \A i \in 1 .. Len(mWindow') :
        Above(mBestFrameMs', mFramesAtBest', mWindow'[i], Len(mWindow') - i)
  <2> SUFFICES ASSUME NEW i \in 1 .. Len(mWindow')
               PROVE  Above(mBestFrameMs', mFramesAtBest', mWindow'[i], Len(mWindow') - i)
    OBVIOUS
  <2>1. CASE i = Len(mWindow') /\ mWindow'[i] = frame
    <3>1. Len(mWindow') - i = 0
      BY <1>2, <2>1
    <3> QED BY <1>6, <2>1, <3>1
  <2>2. CASE \E j \in 1 .. Len(mWindow) :
               mWindow'[i] = mWindow[j] /\ Len(mWindow') - i = Len(mWindow) - j + 1
    BY <1>7, <2>2
  <2> QED BY <1>2, <2>1, <2>2
<1> QED BY <1>4, <1>5, <1>8 DEF Inv

LEMMA InitInv == Init => Inv
<1> SUFFICES ASSUME Init PROVE Inv
  OBVIOUS
<1>1. mWindow \in Seq(FrameTimes) /\ Len(mWindow) = 0 /\ mWindow = <<>>
  BY DEF Init
<1>2. TypeOK
  <2>1. Len(mWindow) <= Window
    BY <1>1, TelemetryAssumption, SMT
  <2>2. mEmaFrameMs = 0 /\ mBestFrameMs = 0 /\ mFramesAtBest = 0
    BY DEF Init
  <2>3. mFramesAtBest \in 0 .. BestDecayFrames
    BY <2>2, TelemetryAssumption, SMT
  <2>4. mLastSwapNs \in BOOLEAN /\ settled \in BOOLEAN
    BY DEF Init
  <2> QED BY <1>1, <2>1, <2>2, <2>3, <2>4 DEF TypeOK
<1>3. \A i \in 1 .. Len(mWindow) : FALSE
  BY <1>1, SMT
<1> QED BY <1>1, <1>2, <1>3 DEF Inv

LEMMA NextInv == Inv /\ [Next]_vars => Inv'
<1> SUFFICES ASSUME Inv, [Next]_vars PROVE Inv'
  OBVIOUS
<1>1. ASSUME NEW frame \in FrameTimes \cup {0}, endFrame(frame) PROVE Inv'
  <2>1. CASE mLastSwapNs /\ frame # 0
    <3>1. frame \in FrameTimes /\ push(frame)
      BY <1>1, <2>1 DEF endFrame
    <3> QED BY <1>1, <3>1, PushInv DEF endFrame
  <2>2. CASE ~(mLastSwapNs /\ frame # 0)
    BY <1>1, <2>2 DEF endFrame, Inv, TypeOK
  <2> QED BY <2>1, <2>2
<1>2. CASE UNCHANGED vars
  BY <1>2 DEF vars, Inv, TypeOK
<1> QED BY <1>1, <1>2 DEF Next

(* The fields of the accumulator keep their types. *)
THEOREM TelemetryTyped == Spec => []TypeOK
<1>1. Inv => TypeOK
  BY DEF Inv
<1> QED BY <1>1, InitInv, NextInv, PTL DEF Spec

(* The cadence is never more than a twentieth above a frame of the window. *)
THEOREM CadenceStaysRecent == Spec => []CadenceRecent
<1>1. Inv => CadenceRecent
  <2> SUFFICES ASSUME Inv, NEW i \in 1 .. Len(mWindow) PROVE 20 * mBestFrameMs <= 21 * mWindow[i]
    BY DEF CadenceRecent
  <2>1. mWindow[i] \in Nat /\ Above(mBestFrameMs, mFramesAtBest, mWindow[i], Len(mWindow) - i)
    BY FrameIsNat DEF Inv, TypeOK
  <2> QED BY <2>1, SMT DEF Above, Inv, TypeOK
<1> QED BY <1>1, InitInv, NextInv, PTL DEF Spec

-----------------------------------------------------------------------------
(* The lock on the cadence.                                                *)

(* A finite set that is not empty has a greatest and a least element: of the  *)
(* sets of what is above an element, one has no other within it.             *)
LEMMA MaxMin ==
  ASSUME NEW S, IsFiniteSet(S), S # {}, S \subseteq Int
  PROVE  /\ Max(S) \in S /\ \A y \in S : Max(S) >= y
         /\ Min(S) \in S /\ \A y \in S : Min(S) <= y
<1>1. IsWellFoundedOn(StrictSubsetOrdering(S), FiniteSubsetsOf(S))
  BY FS_StrictSubsetOrderingWellFounded
<1>2. \E x \in S : \A y \in S : x >= y
  <2> DEFINE over(x) == {y \in S : y > x}
             T == {over(x) : x \in S}
  <2>1. \A x \in S : over(x) \in FiniteSubsetsOf(S)
    BY FS_Subset DEF FiniteSubsetsOf
  <2>2. PICK X \in T : \A Y \in T : <<Y, X>> \notin StrictSubsetOrdering(S)
    <3>1. T \subseteq FiniteSubsetsOf(S) /\ T # {}
      BY <2>1
    <3> HIDE DEF T
    <3> QED BY <1>1, <3>1, WFMin
  <2>3. PICK x \in S : X = over(x)
    OBVIOUS
  <2>4. ASSUME NEW y \in S, y > x PROVE FALSE
    <3>0. ~(y > y) /\ \A z \in S : z > y => z > x
      <4>1. x \in Int /\ y \in Int
        OBVIOUS
      <4> QED BY <2>4, <4>1, SMT
    <3>1. over(y) \subseteq over(x) /\ y \in over(x) /\ y \notin over(y)
      BY <2>4, <3>0, Zenon
    <3>2. <<over(y), over(x)>> \in StrictSubsetOrdering(S)
      BY <3>1, <2>1 DEF StrictSubsetOrdering, FiniteSubsetsOf
    <3> QED BY <2>2, <2>3, <3>2
  <2> QED BY <2>4
<1>3. \E x \in S : \A y \in S : x <= y
  <2> DEFINE under(x) == {y \in S : y < x}
             T == {under(x) : x \in S}
  <2>1. \A x \in S : under(x) \in FiniteSubsetsOf(S)
    BY FS_Subset DEF FiniteSubsetsOf
  <2>2. PICK X \in T : \A Y \in T : <<Y, X>> \notin StrictSubsetOrdering(S)
    <3>1. T \subseteq FiniteSubsetsOf(S) /\ T # {}
      BY <2>1
    <3> HIDE DEF T
    <3> QED BY <1>1, <3>1, WFMin
  <2>3. PICK x \in S : X = under(x)
    OBVIOUS
  <2>4. ASSUME NEW y \in S, y < x PROVE FALSE
    <3>0. ~(y < y) /\ \A z \in S : z < y => z < x
      <4>1. x \in Int /\ y \in Int
        OBVIOUS
      <4> QED BY <2>4, <4>1, SMT
    <3>1. under(y) \subseteq under(x) /\ y \in under(x) /\ y \notin under(y)
      BY <2>4, <3>0, Zenon
    <3>2. <<under(y), under(x)>> \in StrictSubsetOrdering(S)
      BY <3>1, <2>1 DEF StrictSubsetOrdering, FiniteSubsetsOf
    <3> QED BY <2>2, <2>3, <3>2
  <2> QED BY <2>4
<1> QED BY <1>2, <1>3 DEF Max, Min

(* The spread is the greatest difference between two frames of the window. *)
Close(window) == \A i, j \in 1 .. Len(window) : window[i] - window[j] <= Tolerance

LEMMA SpreadIsClose ==
  ASSUME NEW window \in Seq(FrameTimes), window # <<>>
  PROVE  spreadMs(window) <= Tolerance <=> Close(window)
<1> DEFINE times == {window[i] : i \in 1 .. Len(window)}
<1>1. \A i \in 1 .. Len(window) : window[i] \in Nat
  BY FrameIsNat
<1>2. times \subseteq Int /\ times # {}
  BY <1>1
<1>3. IsFiniteSet(times)
  <2>1. window \in Surjection(1 .. Len(window), times)
    BY DEF Surjection
  <2>2. IsFiniteSet(1 .. Len(window))
    BY FS_Interval
  <2> QED BY <2>1, <2>2, FS_Surjection
<1>4. /\ Max(times) \in times /\ \A t \in times : Max(times) >= t
      /\ Min(times) \in times /\ \A t \in times : Min(times) <= t
  BY <1>2, <1>3, MaxMin
<1>5. spreadMs(window) = Max(times) - Min(times)
  BY <1>2 DEF spreadMs
<1> DEFINE hi == Max(times)
           lo == Min(times)
<1>6. hi \in Int /\ lo \in Int /\ Tolerance \in Nat
  BY <1>2, <1>4, TelemetryAssumption
<1>7. ASSUME hi - lo <= Tolerance PROVE Close(window)
  <2> SUFFICES ASSUME NEW i \in 1 .. Len(window), NEW j \in 1 .. Len(window)
               PROVE  window[i] - window[j] <= Tolerance
    BY DEF Close
  <2>1. /\ window[i] <= hi /\ lo <= window[j]
        /\ window[i] \in Int /\ window[j] \in Int
    BY <1>1, <1>4
  <2> HIDE DEF hi, lo
  <2> QED BY <1>6, <1>7, <2>1, SMT
<1>8. ASSUME Close(window) PROVE hi - lo <= Tolerance
  <2>1. PICK i \in 1 .. Len(window) : hi = window[i]
    BY <1>4
  <2>2. PICK j \in 1 .. Len(window) : lo = window[j]
    BY <1>4
  <2> QED BY <1>8, <2>1, <2>2 DEF Close
<1> QED BY <1>5, <1>7, <1>8

(* The average stays between where it was and the frame. *)
LEMMA TowardsBetween ==
  ASSUME NEW ema \in Nat, NEW frame \in Nat, NEW next, next = towards(ema, frame)
  PROVE  next \in Nat /\ ((ema <= next /\ next <= frame) \/ (frame <= next /\ next <= ema))
<1>1. CASE frame >= ema
  <2>1. ((frame - ema) + 9) \div 10 \in 0 .. frame - ema
    BY <1>1, SMT
  <2> QED BY <1>1, <2>1, SMT DEF towards
<1>2. CASE ema > frame
  <2>1. ((ema - frame) + 9) \div 10 \in 0 .. ema - frame
    BY <1>2, SMT
  <2> QED BY <1>2, <2>1, SMT DEF towards
<1> QED BY <1>1, <1>2, SMT

Near(a, b) == a - b <= Tolerance /\ b - a <= Tolerance

LEMMA NearIsAbs ==
  ASSUME NEW a \in Int, NEW b \in Int
  PROVE  Abs(a - b) <= Tolerance <=> Near(a, b)
BY TelemetryAssumption, SMT DEF Abs, Near

newest == mWindow[Len(mWindow)]

(* Once settled, the frames stay close together and the average close to them; *)
(* the cadence is close to both, or it has just been stretched past the frame. *)
Locked == settled =>
  /\ mLastSwapNs /\ mWindow # <<>>
  /\ Len(mWindow) >= Window \div 4 /\ Close(mWindow)
  /\ Near(mEmaFrameMs, newest)
  /\ \/ Near(mEmaFrameMs, mBestFrameMs) /\ Near(mBestFrameMs, newest)
     \/ mBestFrameMs > newest /\ mFramesAtBest = 0

LEMMA PacedMeans ==
  ASSUME Inv, mWindow # <<>>
  PROVE  paced <=> /\ Len(mWindow) >= Window \div 4 /\ Close(mWindow)
                   /\ Near(mEmaFrameMs, mBestFrameMs)
<1>1. mWindow \in Seq(FrameTimes) /\ mBestFrameMs > 0
      /\ mEmaFrameMs \in Int /\ mBestFrameMs \in Int
  BY DEF Inv, TypeOK
<1>2. spreadMs(mWindow) <= Tolerance <=> Close(mWindow)
  BY <1>1, SpreadIsClose
<1>3. Abs(mEmaFrameMs - mBestFrameMs) <= Tolerance <=> Near(mEmaFrameMs, mBestFrameMs)
  BY <1>1, NearIsAbs
<1> QED BY <1>1, <1>2, <1>3 DEF paced, vsyncLocked

(* Frames alike: the average closes in; the cadence follows the frames or is    *)
(* stretched, and the next frame brings it back.                                *)
LEMMA AlikeFrame ==
  ASSUME NEW frame \in Nat,
         mEmaFrameMs \in Nat, mBestFrameMs \in Nat, mFramesAtBest \in Nat,
         mEmaFrameMs' \in Nat, mBestFrameMs' \in Nat, mFramesAtBest' \in Nat,
         \/ mEmaFrameMs <= mEmaFrameMs' /\ mEmaFrameMs' <= frame
         \/ frame <= mEmaFrameMs' /\ mEmaFrameMs' <= mEmaFrameMs,
         Near(mEmaFrameMs, frame),
         \/ Near(mEmaFrameMs, mBestFrameMs) /\ Near(mBestFrameMs, frame)
         \/ mBestFrameMs > frame /\ mFramesAtBest = 0,
         \/ mBestFrameMs' = frame /\ mFramesAtBest' = 0 /\ frame < mBestFrameMs
         \/ mBestFrameMs <= mBestFrameMs' /\ mFramesAtBest' = 0 /\ mBestFrameMs <= frame
         \/ mBestFrameMs' = mBestFrameMs /\ mBestFrameMs <= frame
  PROVE  /\ Near(mEmaFrameMs', frame)
         /\ \/ Near(mEmaFrameMs', mBestFrameMs') /\ Near(mBestFrameMs', frame)
            \/ mBestFrameMs' > frame /\ mFramesAtBest' = 0
         /\ Near(mEmaFrameMs, mBestFrameMs) \/ Near(mEmaFrameMs', mBestFrameMs')
<1>1. PICK nextEma \in Nat : nextEma = mEmaFrameMs'
  OBVIOUS
<1>2. PICK nextBest \in Nat : nextBest = mBestFrameMs'
  OBVIOUS
<1>3. PICK nextAt \in Nat : nextAt = mFramesAtBest'
  OBVIOUS
<1>4. /\ (mEmaFrameMs <= nextEma /\ nextEma <= frame) \/ (frame <= nextEma /\ nextEma <= mEmaFrameMs)
      /\ \/ nextBest = frame /\ nextAt = 0 /\ frame < mBestFrameMs
         \/ mBestFrameMs <= nextBest /\ nextAt = 0 /\ mBestFrameMs <= frame
         \/ nextBest = mBestFrameMs /\ mBestFrameMs <= frame
  BY <1>1, <1>2, <1>3, Zenon
<1>5. /\ Near(nextEma, frame)
      /\ \/ Near(nextEma, nextBest) /\ Near(nextBest, frame)
         \/ nextBest > frame /\ nextAt = 0
      /\ Near(mEmaFrameMs, mBestFrameMs) \/ Near(nextEma, nextBest)
  BY <1>4, TelemetryAssumption, SMT DEF Near
<1> QED BY <1>1, <1>2, <1>3, <1>5, Zenon

LEMMA KeptNewest ==
  ASSUME TypeOK, NEW frame \in FrameTimes
  PROVE  kept(frame)[Len(kept(frame))] = frame /\ Len(kept(frame)) >= Len(mWindow)
<1>1. CASE Len(mWindow) < Window
  BY <1>1 DEF kept, TypeOK
<1>2. CASE ~(Len(mWindow) < Window)
  <2>1. mWindow \in Seq(FrameTimes) /\ mWindow # <<>>
    BY <1>2, TelemetryAssumption DEF TypeOK
  <2>2. Tail(mWindow) \in Seq(FrameTimes) /\ Len(Tail(mWindow)) = Len(mWindow) - 1
    BY <2>1
  <2>3. \A tail \in Seq(FrameTimes) : /\ Len(Append(tail, frame)) = Len(tail) + 1
                                       /\ Append(tail, frame)[Len(tail) + 1] = frame
    OBVIOUS
  <2>4. Len(mWindow) \in Nat
    BY <2>1
  <2> QED BY <1>2, <2>2, <2>3, <2>4 DEF kept
<1> QED BY <1>1, <1>2

(* What one more frame like the last does to the window. *)
LEMMA AlikeWindow ==
  ASSUME TypeOK, NEW frame \in FrameTimes, mWindow # <<>>, frame = newest, Close(mWindow)
  PROVE  /\ kept(frame)[Len(kept(frame))] = frame /\ Len(kept(frame)) >= Len(mWindow)
         /\ Close(kept(frame))
<1> DEFINE w == kept(frame)
<1>1. /\ w \in Seq(FrameTimes) /\ mWindow \in Seq(FrameTimes)
      /\ \A i \in 1 .. Len(w) : \E j \in 1 .. Len(mWindow) : w[i] = mWindow[j]
  <2>1. mWindow \in Seq(FrameTimes) /\ Len(mWindow) \in 1 .. Len(mWindow)
    BY DEF TypeOK
  <2> QED BY <2>1, KeptWindow DEF newest
<1>2. w[Len(w)] = frame /\ Len(w) >= Len(mWindow)
  BY KeptNewest
<1>3. Close(w)
  <2> SUFFICES ASSUME NEW i \in 1 .. Len(w), NEW j \in 1 .. Len(w)
               PROVE  w[i] - w[j] <= Tolerance
    BY DEF Close
  <2> HIDE DEF w
  <2> QED BY <1>1 DEF Close
<1> QED BY <1>2, <1>3

(* One frame: what it keeps of the lock, and the property of the step. *)
LEMMA PushLocked ==
  ASSUME Inv, Locked, NEW frame \in FrameTimes, push(frame),
         mLastSwapNs' = TRUE
  PROVE  /\ Locked'
         /\ settled /\ settled' => (paced \/ paced') /\ (paced' \/ mFramesAtBest' = 0)
<1> SUFFICES ASSUME settled'
             PROVE  /\ Locked'
                    /\ settled => (paced \/ paced') /\ (paced' \/ mFramesAtBest' = 0)
  BY DEF Locked
<1>0. Tolerance \in Nat
  BY TelemetryAssumption
<1>1. Inv'
  BY PushInv
<1>2. /\ mWindow' = kept(frame) /\ mWindow' \in Seq(FrameTimes) /\ mWindow' # <<>>
      /\ newest' = frame
      /\ mEmaFrameMs' \in Nat /\ mBestFrameMs' \in Nat /\ mFramesAtBest' \in Nat
      /\ frame \in Nat
  <2>1. mWindow' = kept(frame)
    BY DEF push
  <2>2. kept(frame) \in Seq(FrameTimes) /\ Len(kept(frame)) \in 1 .. Window
    BY KeptWindow DEF Inv
  <2>3. kept(frame)[Len(kept(frame))] = frame
    BY KeptNewest DEF Inv
  <2>4. frame \in Nat
    BY TelemetryAssumption
  <2> QED BY <2>1, <2>2, <2>3, <2>4, <1>1 DEF Inv, TypeOK, newest
<1>3. paced' <=> /\ Len(mWindow') >= Window \div 4 /\ Close(mWindow)'
                 /\ Near(mEmaFrameMs, mBestFrameMs)'
  <2>1. (Inv /\ mWindow # <<>> =>
           (paced <=> /\ Len(mWindow) >= Window \div 4 /\ Close(mWindow)
                      /\ Near(mEmaFrameMs, mBestFrameMs)))'
    BY PacedMeans, PTL
  <2> QED BY <1>1, <1>2, <2>1
<1>4. CASE /\ paced'
           /\ \A ms \in {mEmaFrameMs', mBestFrameMs'} : Abs(ms - frame) <= Tolerance
  <2>1. Near(mEmaFrameMs', frame) /\ Near(mBestFrameMs', frame)
    BY <1>2, <1>4, NearIsAbs
  <2> QED BY <1>2, <1>3, <1>4, <2>1 DEF Locked, Near
<1>5. CASE settled /\ mWindow # <<>> /\ frame = newest
  <2>1. /\ mWindow # <<>> /\ Len(mWindow) >= Window \div 4 /\ Close(mWindow)
        /\ Near(mEmaFrameMs, frame)
        /\ \/ Near(mEmaFrameMs, mBestFrameMs) /\ Near(mBestFrameMs, frame)
           \/ mBestFrameMs > frame /\ mFramesAtBest = 0
    BY <1>5 DEF Locked
  <2>2. Len(mWindow') >= Window \div 4 /\ Close(mWindow)'
    <3>1. Len(mWindow') >= Len(mWindow) /\ Close(mWindow')
      BY <1>2, <1>5, <2>1, AlikeWindow DEF Inv
    <3> QED BY <1>2, <2>1, <3>1, TelemetryAssumption DEF Close, Inv, TypeOK
  <2>3. \/ mEmaFrameMs <= mEmaFrameMs' /\ mEmaFrameMs' <= frame
        \/ frame <= mEmaFrameMs' /\ mEmaFrameMs' <= mEmaFrameMs
    BY <1>2, <1>5, TowardsBetween DEF push, Inv, TypeOK
  <2>4. \/ mBestFrameMs' = frame /\ mFramesAtBest' = 0 /\ frame < mBestFrameMs
        \/ mBestFrameMs <= mBestFrameMs' /\ mFramesAtBest' = 0 /\ mBestFrameMs <= frame
        \/ mBestFrameMs' = mBestFrameMs /\ mBestFrameMs <= frame
    <3>1. mBestFrameMs > 0 /\ mBestFrameMs \in Nat
      BY <2>1 DEF Inv, TypeOK
    <3>2. mBestFrameMs <= stretched(mBestFrameMs)
      BY <3>1, StretchBounds
    <3>3. \/ mBestFrameMs' = frame /\ mFramesAtBest' = 0 /\ frame < mBestFrameMs
          \/ ~(frame < mBestFrameMs) /\ mBestFrameMs' = stretched(mBestFrameMs)
             /\ mFramesAtBest' = 0
          \/ ~(frame < mBestFrameMs) /\ mBestFrameMs' = mBestFrameMs
      BY <3>1 DEF push, cadence
    <3>4. frame \in Nat
      BY <1>2
    <3> QED BY <3>1, <3>2, <3>3, <3>4, SMT
  \* The average closes in; the cadence follows the frames or is stretched, and
  \* the next frame brings it back.
  <2>5. /\ Near(mEmaFrameMs', frame)
        /\ \/ Near(mEmaFrameMs', mBestFrameMs') /\ Near(mBestFrameMs', frame)
           \/ mBestFrameMs' > frame /\ mFramesAtBest' = 0
        /\ Near(mEmaFrameMs, mBestFrameMs) \/ Near(mEmaFrameMs', mBestFrameMs')
    <3>1. mBestFrameMs > 0 /\ mEmaFrameMs \in Nat /\ mBestFrameMs \in Nat
          /\ mFramesAtBest \in Nat
      BY <2>1 DEF Inv, TypeOK
    <3>2. /\ mEmaFrameMs' \in Nat /\ mBestFrameMs' \in Nat /\ mFramesAtBest' \in Nat
          /\ frame \in Nat
      BY <1>2
    <3>3. /\ Near(mEmaFrameMs, frame)
          /\ \/ Near(mEmaFrameMs, mBestFrameMs) /\ Near(mBestFrameMs, frame)
             \/ mBestFrameMs > frame /\ mFramesAtBest = 0
      BY <2>1
    <3> QED BY <2>3, <2>4, <3>1, <3>2, <3>3, AlikeFrame
  <2>6. Locked'
    BY <1>2, <2>2, <2>5 DEF Locked, Near
  <2>7. paced \/ paced'
    BY <1>3, <2>1, <2>2, <2>5, PacedMeans DEF Near
  <2>8. paced' \/ mFramesAtBest' = 0
    BY <1>3, <2>2, <2>5 DEF Near
  <2> QED BY <2>6, <2>7, <2>8
<1> QED BY <1>4, <1>5 DEF push, newest

LEMMA NextLocked ==
  Inv /\ Locked /\ [Next]_vars =>
    /\ Locked'
    /\ [settled /\ settled' => (paced \/ paced') /\ (paced' \/ mFramesAtBest' = 0)]_vars
<1> SUFFICES ASSUME Inv, Locked, [Next]_vars
             PROVE  /\ Locked'
                    /\ [settled /\ settled' => (paced \/ paced')
                                               /\ (paced' \/ mFramesAtBest' = 0)]_vars
  OBVIOUS
<1>1. ASSUME NEW frame \in FrameTimes \cup {0}, endFrame(frame), mLastSwapNs /\ frame # 0
      PROVE  /\ Locked'
             /\ settled /\ settled' => (paced \/ paced') /\ (paced' \/ mFramesAtBest' = 0)
  <2>1. frame \in FrameTimes /\ push(frame) /\ mLastSwapNs' = TRUE
    BY <1>1 DEF endFrame
  <2> QED BY <2>1, PushLocked
<1>2. ASSUME NEW frame \in FrameTimes \cup {0}, endFrame(frame), ~(mLastSwapNs /\ frame # 0)
      PROVE  Locked' /\ (settled => UNCHANGED vars)
  <2>1. UNCHANGED <<mWindow, mEmaFrameMs, mBestFrameMs, mFramesAtBest, settled>>
        /\ mLastSwapNs' = TRUE
    BY <1>2 DEF endFrame
  <2>2. Locked'
    BY <2>1 DEF Locked, Close, Near, newest
  <2>3. settled => mLastSwapNs = TRUE
    BY DEF Locked, Inv, TypeOK
  <2> QED BY <2>1, <2>2, <2>3 DEF vars
<1>3. CASE UNCHANGED vars
  BY <1>3 DEF vars, Locked, Close, Near, newest
<1> QED BY <1>1, <1>2, <1>3 DEF Next

(* A game whose frames are alike loses the verdict of pacing for one frame at a *)
(* time, and only when the cadence is stretched.                                *)
THEOREM LockRarelyLost == Spec => LockLostOnce
<1>1. Init => Locked
  BY DEF Init, Locked
<1> QED BY <1>1, InitInv, NextInv, NextLocked, PTL DEF Spec, LockLostOnce
=============================================================================
