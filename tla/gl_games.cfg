SPECIFICATION Spec
CONSTANTS
  c1 = c1
  c2 = c2
  Unknown = Unknown
  Orphan = Orphan
  NoContext = NoContext
  Invalid <- MCInvalid
  Capabilities <- MCCapabilities
  OtherCapabilities <- MCOtherCapabilities
  Factors <- MCFactors
  Equations <- MCEquations
  Colours <- MCColours
  DepthFuncs <- MCDepthFuncs
  Faces <- MCFaces
  Windings <- MCWindings
  DepthRanges <- MCDepthRanges
  Coverages <- MCCoverages
  Rects <- MCRects
  PixelValues <- MCPixelValues
  Flags <- MCFlags
  OtherTargets <- MCOtherTargets
  TargetArgs <- MCTargetArgs
  Names = {0, 1}
  Installed <- AllHooks
  Units = {0, 1, 2}
  TrackedUnits = {0, 1}
  UnitArgs = {0, 1, 2}
  Contexts = {c1, c2}
  MaxContexts = 1
  Games <- AllGames
INVARIANTS TypeOK ShadowSound TrackedLive
PROPERTIES Transparent
