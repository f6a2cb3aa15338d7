\* Two tasks, two commands under way, a single tag in each queue.  Programs may
\* exit, and a task may wait for itself: then nothing happens any more.
SPECIFICATION Spec
CONSTANTS
  t1 = t1
  t2 = t2
  c1 = c1
  c2 = c2
  Tasks = {t1, t2}
  Cmds = {c1, c2}
  Inputs <- SomeInputs
  Depth = 1
CHECK_DEADLOCK FALSE
INVARIANTS
  TypeOK
  HeldUntilDone
  PduReadAsWritten
  NsOutlivesUse
  MetadataDelivered
PROPERTIES
  EndsUnlessSelfWait
  RefinesUserCommand
