CONSTANTS
  Main = Main
  Reaper = Reaper
  Idle = Idle
  Workers = {w1}
  kMaxPriority = 31
  BasePriority <- const_BasePriority
SPECIFICATION FairSpec
CHECK_DEADLOCK FALSE
INVARIANTS
  ReadyQueues
  AlwaysSomethingToRun
  ReapQueue
PROPERTIES
  DeadStayDead
  HighestGoesFirst
  TimesliceArmed
  Reaped
