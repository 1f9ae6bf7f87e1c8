SPECIFICATION FairSpec
CONSTANTS
  MaxTasks = 5
  Spawned  = {"th1", "th2"}
  Creators = {"krnl_sched"}
  Killers  = {}
  Exiters  = {}
  Killable = {}
INVARIANTS OwnContext NoLostTask UniquePids
PROPERTIES EveryTaskRuns CreateTerminates ImplementsRoundRobin
