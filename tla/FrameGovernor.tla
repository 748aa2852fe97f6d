----------------------------- MODULE FrameGovernor -----------------------------
(***************************************************************************)
(* The policy of the frame governor (FrameGovernor.h): what a frame's       *)
(* statistics say about the lift of the render threads.  Loads are in       *)
(* percent of the frame.                                                    *)
(***************************************************************************)
EXTENDS Integers

kCpuHeadroomLoad  == 55
kCpuSaturatedLoad == 80
kGpuSaturatedLoad == 90

(* Nothing measured, and no sign of a limit on either side. *)
unmeasured(in) ==
  /\ ~in.workloadKnown /\ ~in.gpuTimingAvailable
  /\ in.gpuLoad <= 0 /\ in.cpuLoad < kCpuHeadroomLoad

(* The caller folds overruns into the GPU votes and passes none on. *)
gpuLimited(in) == in.gpuTimingAvailable /\ in.gpuLoad >= kGpuSaturatedLoad

cpuLimited(in) ==
  \/ in.cpuLoad >= kCpuSaturatedLoad
  \/ in.cpuLoad >= kCpuHeadroomLoad /\ ~in.gpuTimingAvailable
  \/ in.cpuLoad >= kCpuHeadroomLoad /\ in.gpuLoad < kGpuSaturatedLoad

smallLift(maxBoost) == IF maxBoost > 0 THEN 1 ELSE 0

(* The boost of a decision; its bound and its target rate are only reported. *)
decide(in, maxBoost) ==
  CASE in.paced      -> 0
    [] ~in.paced /\ unmeasured(in) -> smallLift(maxBoost)
    [] ~in.paced /\ ~unmeasured(in) /\ gpuLimited(in) -> 0
    [] ~in.paced /\ ~unmeasured(in) /\ ~gpuLimited(in) ->
         IF cpuLimited(in) THEN maxBoost ELSE smallLift(maxBoost)

(* The statistics of a frame: without GPU timing the GPU load is zero. *)
FrameInputs(cpuLoads, gpuLoads) ==
  {in \in [cpuLoad : cpuLoads, gpuLoad : gpuLoads, gpuTimingAvailable : BOOLEAN,
           paced : BOOLEAN, workloadKnown : BOOLEAN] :
     ~in.gpuTimingAvailable => in.gpuLoad = 0}
=============================================================================
