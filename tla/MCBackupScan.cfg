CONSTANTS
  Inputs <- MCInputs
  Universe <- MCUniverse
  Rank <- MCRank
  SafeName <- MCSafeName
  HashOf <- MCHashOf
  FoldCase <- MCFoldCase
  DotBeak = ".beak"
  Target = 6
  SmallPart = 2
  Trigger = 6
  Depth = 2
  None = None
SPECIFICATION Spec
INVARIANTS StorageDirsAreNeeded PointIsOrigin EveryFileIsListedOnce IndexKnowsAllBelow TouchIsLocal
