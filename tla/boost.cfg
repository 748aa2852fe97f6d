SPECIFICATION Spec
CONSTANTS
  Tids = {t1, t2}
  NoTid = NoTid
  Givens <- NiceValues
  MinNice <- LowestNice
  Boosts <- BoostValues
  Inputs <- EdgeInputs
  SamplePeriod = 2
SYMMETRY Symmetry
INVARIANTS TypeOK LiftReturned OnlyRenderThreadsLifted
PROPERTIES ExactReturn
