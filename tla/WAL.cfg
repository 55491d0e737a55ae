SPECIFICATION Spec
CONSTANTS
  Op = {set}
  CheckpointOp = cp
  Retain = 2
  Batch = 2
  Reader = {r1}
  MaxSeq = 6
INVARIANTS TypeOK LogIsTail AfterIsExact RetentionWindow NoLostWakeup AnswerContinues
PROPERTIES WaiterIsWoken
