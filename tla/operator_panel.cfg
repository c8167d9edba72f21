SPECIFICATION FairSpec
CONSTANTS
  First = 1
  Valid = {1, 2}
  Invalid = {3}
  MaxClicks = 2
  MaxLosses = 1
INVARIANTS PanelInv RecipeAgrees
PROPERTIES RecipeHeldWhileCycling PanelCatchesUp
