SPECIFICATION Spec
CONSTANTS
  SlotMax = 16
  WordMax = 130
  SlotCounts <- MCSlotCounts
  Raws <- MCRaws
  MaskSets <- MCMaskSets
CHECK_DEADLOCK FALSE
INVARIANTS
  ReadmeLayout
