CONSTANTS
  Jobs = {demo, drifted, real}
  DemoJobs = {demo, drifted}
  DemoOrders = {demo}
  Ticks = {tick}
  Buttons = {button}
  Batch = 2
  MaxTries = 2
  MaxRearms = 1
  MaxCrashes = 1
  MaxOverruns = 2
SPECIFICATION Spec
INVARIANTS
  Consistent
  OneRunnerPerRow
PROPERTIES
  DoneStaysDone
  EveryJobIsAnswered
CHECK_DEADLOCK FALSE
