--------------------------- MODULE MCBoostScheduler ---------------------------
(* Thread ids that stand for each other, and the statistics at the edges of the *)
(* governor's thresholds.                                                       *)
EXTENDS BoostScheduler, TLC

NiceValues == {-1, 0}
LowestNice == -2
BoostValues == {0, 2}

EdgeInputs == FrameInputs({0, kCpuHeadroomLoad, kCpuSaturatedLoad},
                          {0, kGpuSaturatedLoad - 1, kGpuSaturatedLoad})
Symmetry == Permutations(Tids)
=============================================================================
