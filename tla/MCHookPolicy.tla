------------------------------ MODULE MCHookPolicy ------------------------------
(* GPU loads on both sides of the threshold of the telemetry. *)
EXTENDS HookPolicy

EdgeGpuLoads == {0, kGpuBoundLoad, kGpuBoundLoad + 1}
=============================================================================
