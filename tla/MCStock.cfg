SPECIFICATION FairSpec
CONSTANTS
  o1 = o1
  o2 = o2
  o3 = o3
  save = save
  tee = tee
  mug = mug
  Order = {o1, o2, o3}
  Row = {tee, mug}
  Save = {save}
  Qty <- const_Qty
  MaxStock = 2
INVARIANTS TypeOK
PROPERTIES Atomic NobodyHangs
CHECK_DEADLOCK FALSE
