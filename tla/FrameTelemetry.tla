------------------------------ MODULE FrameTelemetry ------------------------------
(***************************************************************************)
(* What the swap tells the rest of the mod about pacing: EglSensor::endFrame *)
(* turns the times of two swaps into a frame time, FrameAccumulator::push  *)
(* keeps the last of them, their moving average and the fastest of recent  *)
(* frames, the cadence, which is stretched when nothing has reached it for *)
(* long; vsyncLocked() says whether the swap chain paces the game.  Times   *)
(* are whole units; the average is rounded towards the frame.  The GPU's   *)
(* votes are in HookPolicy.                                                *)
(***************************************************************************)
EXTENDS Integers, Sequences, FiniteSetsExt

CONSTANTS
  FrameTimes,          \* intervals between two swaps
  Window,              \* the frames that are kept
  BestDecayFrames,     \* kBestDecayFrames
  Tolerance            \* of vsyncLocked()

ASSUME TelemetryAssumption ==
  /\ FrameTimes \subseteq Nat \ {0}
  /\ Window \in Nat \ {0} /\ BestDecayFrames \in Nat /\ Window <= BestDecayFrames
  /\ Tolerance \in Nat

VARIABLES
  mLastSwapNs,         \* was there a swap before?
  mWindow,             \* the last frames, the newest at the end
  mEmaFrameMs, mBestFrameMs, mFramesAtBest,
  settled              \* history: found paced, with the average and the cadence close to
                       \* the frame, and every frame alike since

vars == <<mLastSwapNs, mWindow, mEmaFrameMs, mBestFrameMs, mFramesAtBest, settled>>

-----------------------------------------------------------------------------
Abs(n) == IF n < 0 THEN -n ELSE n

(* A tenth of the way (kEmaAlpha), and a stretch by a twentieth (kBestDecayFactor). *)
towards(ema, frame) ==
  IF frame >= ema THEN ema + ((frame - ema) + 9) \div 10 ELSE ema - ((ema - frame) + 9) \div 10
stretched(best) == (21 * best) \div 20

kept(frame) == IF Len(mWindow) < Window THEN Append(mWindow, frame)
               ELSE Append(Tail(mWindow), frame)

spreadMs(window) == LET frames == {window[i] : i \in 1 .. Len(window)}
                    IN IF frames = {} THEN 0 ELSE Max(frames) - Min(frames)

(* vsyncLocked: enough frames, on the cadence, close together. *)
vsyncLocked(window, ema, best) ==
  /\ Len(window) >= Window \div 4 /\ best > 0
  /\ Abs(ema - best) <= Tolerance
  /\ spreadMs(window) <= Tolerance

paced == vsyncLocked(mWindow, mEmaFrameMs, mBestFrameMs)

(* Slips: the cadence is never stretched; it is stretched however short the while; *)
(* stretching it does not begin a new count; it follows a faster frame smoothly.   *)
cadenceFixed(frame) ==
  IF frame < mBestFrameMs \/ mBestFrameMs <= 0
  THEN mBestFrameMs' = frame /\ mFramesAtBest' = 0
  ELSE /\ mFramesAtBest' = (mFramesAtBest + 1) % (BestDecayFrames + 1)
       /\ UNCHANGED mBestFrameMs

cadenceHasty(frame) ==
  /\ mBestFrameMs' = IF frame < mBestFrameMs \/ mBestFrameMs <= 0 THEN frame
                     ELSE stretched(mBestFrameMs)
  /\ mFramesAtBest' = 0

cadenceCountsOn(frame) ==
  IF frame < mBestFrameMs \/ mBestFrameMs <= 0
  THEN mBestFrameMs' = frame /\ mFramesAtBest' = 0
  ELSE /\ mFramesAtBest' = mFramesAtBest + 1
       /\ mBestFrameMs' = IF mFramesAtBest' > BestDecayFrames THEN stretched(mBestFrameMs)
                          ELSE mBestFrameMs

cadenceSmooth(frame) ==
  IF frame < mBestFrameMs \/ mBestFrameMs <= 0
  THEN /\ mBestFrameMs' = IF mBestFrameMs <= 0 THEN frame ELSE towards(mBestFrameMs, frame)
       /\ mFramesAtBest' = 0
  ELSE IF mFramesAtBest + 1 > BestDecayFrames
       THEN mBestFrameMs' = stretched(mBestFrameMs) /\ mFramesAtBest' = 0
       ELSE mFramesAtBest' = mFramesAtBest + 1 /\ UNCHANGED mBestFrameMs

(* The cadence: a faster frame is the new one; without one for long, it drifts. *)
cadence(frame) ==
  IF frame < mBestFrameMs \/ mBestFrameMs <= 0
  THEN mBestFrameMs' = frame /\ mFramesAtBest' = 0
  ELSE IF mFramesAtBest + 1 > BestDecayFrames
       THEN mBestFrameMs' = stretched(mBestFrameMs) /\ mFramesAtBest' = 0
       ELSE mFramesAtBest' = mFramesAtBest + 1 /\ UNCHANGED mBestFrameMs

(* FrameAccumulator::push. *)
push(frame) ==
  /\ mWindow' = kept(frame)
  /\ mEmaFrameMs' = IF mWindow = <<>> THEN frame ELSE towards(mEmaFrameMs, frame)
  /\ cadence(frame)
  /\ settled' = \/ paced' /\ \A ms \in {mEmaFrameMs', mBestFrameMs'} : Abs(ms - frame) <= Tolerance
                \/ settled /\ mWindow # <<>> /\ frame = mWindow[Len(mWindow)]

(* endFrame: the first swap, and one that finds the clock where it was, have no  *)
(* frame time, and nothing is pushed.                                            *)
endFrame(frame) ==
  /\ mLastSwapNs' = TRUE
  /\ IF mLastSwapNs /\ frame # 0 THEN push(frame)
     ELSE UNCHANGED <<mWindow, mEmaFrameMs, mBestFrameMs, mFramesAtBest, settled>>

Init ==
  /\ mLastSwapNs = FALSE /\ mWindow = <<>>
  /\ mEmaFrameMs = 0 /\ mBestFrameMs = 0 /\ mFramesAtBest = 0
  /\ settled = FALSE

Next == \E frame \in FrameTimes \cup {0} : endFrame(frame)

(* The game presents frames. *)
Fairness == WF_vars(\E frame \in FrameTimes : endFrame(frame))

Spec == Init /\ [][Next]_vars /\ Fairness

-----------------------------------------------------------------------------
TypeOK ==
  /\ mLastSwapNs \in BOOLEAN /\ settled \in BOOLEAN
  /\ mWindow \in Seq(FrameTimes) /\ Len(mWindow) <= Window
  /\ mEmaFrameMs \in Nat /\ mBestFrameMs \in Nat
  /\ mFramesAtBest \in 0 .. BestDecayFrames

(* "The fastest swap-to-swap interval seen recently": the cadence is at most a    *)
(* twentieth above any frame of the window, however often it has been stretched. *)
CadenceRecent == \A i \in 1 .. Len(mWindow) : 20 * mBestFrameMs <= 21 * mWindow[i]

(* "A device which got faster (or throttled) is not judged against a cadence it   *)
(* can no longer reach": frames that all take the same time are found paced in   *)
(* the end, and again and again.                                                  *)
SteadyEndsPaced ==
  \A frame \in FrameTimes :
    <>[](mWindow # <<>> /\ mWindow[Len(mWindow)] = frame) => []<>paced

(* "A steady cadence is reported as paced" (test_telemetry.cpp): of frames alike,    *)
(* once found paced with the average and the cadence close to them, no two in a row *)
(* are not; the one that may be is the one that stretched the cadence.              *)
LockLostOnce ==
  [][settled /\ settled' => (paced \/ paced') /\ (paced' \/ mFramesAtBest' = 0)]_vars
=============================================================================
