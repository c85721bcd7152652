SPECIFICATION Spec
CONSTANTS
  W = 64
  Blocks = 4
  block_size = 2
  Sizes = {1, 2, 3}
  com_size = 3
  Stored = {1, 3}
  Headers = {0, 1}
  idx_cache_num = 3
  Junk = {0, 12}
  Wants = {3, 6, 9}
INVARIANTS Delivered BlockFits
PROPERTIES ReadReturns
