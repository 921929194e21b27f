SPECIFICATION Spec
CONSTANTS
  Workers = {w1, w2}
  base_tbl_len = 2
  MaxCalls = 3
  MaxGen = 1
INVARIANTS
  OneHolder
  NothingForgotten
  
  

  
CHECK_DEADLOCK FALSE
