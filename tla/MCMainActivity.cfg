SPECIFICATION FairSpec
CONSTANTS
  f1 = f1
  f2 = f2
  Flow = {f1, f2}
  MaxHost = 2
  NoFlow = NoFlow
  NoDialog = NoDialog
PROPERTIES
  MainFragmentLife
  ResultShown
  DismissReturns
INVARIANTS
  FieldTracksDialog
  PopsOwnFlow
  InfosOfOwnFlow
  InfosReachDialog
  EveryFlowReported
CHECK_DEADLOCK FALSE
