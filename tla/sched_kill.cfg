SPECIFICATION Spec
CONSTANTS
  MaxTasks = 4
  Spawned  = {"th"}
  Creators = {"krnl_sched", "th"}
  Killers  = {"krnl_sched", "th"}
  Exiters  = {"th"}
  Killable = {0, 1, 2}
INVARIANTS TypeOK NoUseAfterFree OneRunning
