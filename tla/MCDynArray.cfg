CONSTANTS
  Threads = {p, q}
  DYNARRAY_LEVEL_LENGTH = 2
  DYNARRAY_LEVELS = 3
  dynarray_idxes_in_prev_levels <- InPrevLevels
  dynarray_idxes_in_prev_level <- InPrevLevel
  Asked = {1, 2, 7, 8}
  Blocks = {1, 2, 3, 4, 5, 6}
  Root = Root
  Null = Null
  MaxCalls = 2
SYMMETRY ThreadSymmetry
SPECIFICATION Spec
INVARIANTS OneCellPerIndex ArraysInOnePlace DestroyFreesAll
CHECK_DEADLOCK FALSE
