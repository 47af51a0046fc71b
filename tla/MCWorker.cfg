SPECIFICATION Spec
CONSTANTS
  None = None
  put = put write = write meta = meta note = note send = send flush = flush
  Workers <- ThreeWorkers
  SchedWorker = 0
  NetWorker = 2
  IoWorkers <- OneIo
  Tasks <- MainTasks
  Roots <- MainRoots
  Periodic <- MainPeriodic
  ZeroPeriod = {flush}
  NetTasks = {send}
  Large = {write}
  FireForget = {note}
  Movable = {put, meta}
  Program <- MainProgram
  LaneDepth = 4
  MaxMoves = 2
  MigrateFails = FALSE
INVARIANT WorkerInv
PROPERTIES  NoRestart Served
CHECK_DEADLOCK FALSE
