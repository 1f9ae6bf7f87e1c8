------------------------------ MODULE Scheduler ------------------------------
(***************************************************************************)
(* The preemptive round-robin scheduler of base/core/scheduler.cpp, its    *)
(* bring-up in krnl/krnl.cpp and the exit system call of                   *)
(* base/core/syscall.cpp.                                                  *)
(*                                                                         *)
(* There is one CPU.  A timer interrupt runs sched() with interrupts       *)
(* disabled, so sched() is one step; create_task() and kill_task() are     *)
(* ordinary code that an interrupt may cut between any two accesses to     *)
(* shared memory, so they are one step per access.                         *)
(*                                                                         *)
(* A task_struct is named by its allocation number: malloc() never returns *)
(* an address twice (theorem NeverTheSameAddress of HeapProofs), so an     *)
(* address identifies one allocation forever.  An allocation is one step   *)
(* here: module Heap has the steps of malloc().                            *)
(* A context has no stack here: which words a task finds on the stack when *)
(* it is resumed is the subject of ContextSwitch.                          *)
(***************************************************************************)
EXTENDS Integers, FiniteSets

CONSTANTS
  MaxTasks,   \* bound: how many task_structs are ever allocated
  Spawned,    \* the entry points that tasks pass to create_task()
  Creators,   \* the entry points whose code calls create_task()
  Killers,    \* the entry points whose code calls kill_task()
  Exiters,    \* the entry points whose code makes system call 0
  Killable    \* the pids that are passed to kill_task()

ASSUME MaxTasksAssumption == MaxTasks \in Nat /\ MaxTasks >= 2

Slots == 1..MaxTasks
NULL  == 0

Entries == Spawned \cup {"idle", "krnl_sched"}

\* Idle only executes hlt; the code running before the scheduler is "boot".
ASSUME EntryAssumption ==
  /\ Spawned \subseteq STRING /\ {"idle", "boot", "none"} \cap Spawned = {}
  /\ Creators \subseteq Entries \ {"idle"}
  /\ Killers  \subseteq Entries \ {"idle"}
  /\ Exiters  \subseteq Entries \ {"idle"}
  /\ Killable \subseteq Nat

VARIABLES
  stub,          \* stubs[0], the handler of the timer interrupt
  root_task,     \* head of the task list
  current_task,  \* the task that sched() takes to be running
  nextpid,
  nalloc,        \* number of task_structs allocated so far
  freed,         \* the task_structs given back to the allocator
  task,          \* the contents of every task_struct
  cpu            \* the registers of the CPU: the context being executed

vars == <<stub, root_task, current_task, nextpid, nalloc, freed, task, cpu>>

(***************************************************************************)
(* A context is what registers_t holds as far as the properties can tell:  *)
(* whose code is executing (owner, fn), where it stands (pc) and the       *)
(* locals that create_task() and kill_task() keep in registers.            *)
(***************************************************************************)
Creating == {"c_pid", "c_inc", "c_root", "c_walk", "c_link"}
Killing  == {"k_walk", "k_set"}
Labels   == Creating \cup Killing \cup {"run", "wild", "panic"}

Context == [owner : Slots \cup {NULL}, fn : Entries \cup {"boot", "none"},
            pc : Labels, new : Slots \cup {NULL}, idk : Slots \cup {NULL},
            arg : Nat]

\* Back from a call: its locals are dead.
Returned(c) == [c EXCEPT !.pc = "run", !.new = NULL, !.idk = NULL, !.arg = 0]

Entered(t, e) == [owner |-> t, fn |-> e, pc |-> "run",
                  new |-> NULL, idk |-> NULL, arg |-> 0]

\* What a jump to an address that no task was started at executes.
Wild == [Entered(NULL, "none") EXCEPT !.pc = "wild"]

TaskState == {"CREATED", "RUNNING", "PENDING", "KILLED"}

TaskStruct == [pid : Nat, state : TaskState, next : Slots \cup {NULL},
               entry : Entries \cup {"none"}, regs : Context]

\* A task_struct cleared by memset(); also the content of unallocated memory.
Zeroed == [pid |-> 0, state |-> "CREATED", next |-> NULL,
           entry |-> "none", regs |-> Wild]

Init ==
  /\ stub = "timer"
  /\ root_task = NULL
  /\ current_task = NULL
  /\ nextpid = 0
  /\ nalloc = 0
  /\ freed = {}
  /\ task = [t \in Slots |-> Zeroed]
  /\ cpu = Entered(NULL, "boot")

(***************************************************************************)
(* The nodes that the loops "t = head; while (t) t = t->next" visit.       *)
(***************************************************************************)
Closed(S) == \A t \in S : task[t].next # NULL => task[t].next \in S

ReachFrom(head) ==
  {t \in Slots : /\ head # NULL
                 /\ \A S \in SUBSET Slots : head \in S /\ Closed(S) => t \in S}

Reach == ReachFrom(root_task)

-----------------------------------------------------------------------------
(***************************************************************************)
(* Kernel::Main: sched_init(), create_task(krnl_sched), sched_start().     *)
(***************************************************************************)
sched_init ==
  /\ cpu.fn = "boot" /\ nalloc = 0
  /\ nalloc' = 1
  /\ task' = [task EXCEPT ![1] = [Zeroed EXCEPT !.entry = "idle",
                                                !.pid = nextpid]]
  /\ root_task' = 1
  /\ current_task' = 1
  /\ nextpid' = nextpid + 1
  /\ UNCHANGED <<stub, freed, cpu>>

sched_start ==
  /\ cpu.fn = "boot" /\ cpu.pc = "run" /\ nalloc = 2 /\ stub = "timer"
  /\ stub' = "sched"
  /\ UNCHANGED <<root_task, current_task, nextpid, nalloc, freed, task, cpu>>

(***************************************************************************)
(* create_task(): allocate and fill the struct, take a pid, walk to the    *)
(* tail, link.  Only the memory that other contexts can see makes a step.  *)
(***************************************************************************)
MayCreate(e) ==
  \/ cpu.fn = "boot" /\ nalloc = 1 /\ e = "krnl_sched"
  \/ cpu.fn \in Creators /\ e \in Spawned

create_task(e) ==
  /\ cpu.pc = "run" /\ MayCreate(e) /\ nalloc < MaxTasks
  /\ nalloc' = nalloc + 1
  /\ task' = [task EXCEPT ![nalloc + 1] = [Zeroed EXCEPT !.entry = e]]
  /\ cpu' = [cpu EXCEPT !.pc = "c_pid", !.new = nalloc + 1]
  /\ UNCHANGED <<stub, root_task, current_task, nextpid, freed>>

CreateTakePid ==
  /\ cpu.pc = "c_pid"
  /\ task' = [task EXCEPT ![cpu.new].pid = nextpid]
  /\ cpu' = [cpu EXCEPT !.pc = "c_inc"]
  /\ UNCHANGED <<stub, root_task, current_task, nextpid, nalloc, freed>>

\* Variants: the increment forgotten; a decrement.
CreateStepPid_NoIncrement ==
  /\ cpu.pc = "c_inc"
  /\ nextpid' = task[cpu.new].pid
  /\ cpu' = [cpu EXCEPT !.pc = "c_root"]
  /\ UNCHANGED <<stub, root_task, current_task, nalloc, freed, task>>

CreateStepPid_Decrement ==
  /\ cpu.pc = "c_inc"
  /\ nextpid' = task[cpu.new].pid - 1
  /\ cpu' = [cpu EXCEPT !.pc = "c_root"]
  /\ UNCHANGED <<stub, root_task, current_task, nalloc, freed, task>>

CreateStepPid ==
  /\ cpu.pc = "c_inc"
  /\ nextpid' = task[cpu.new].pid + 1
  /\ cpu' = [cpu EXCEPT !.pc = "c_root"]
  /\ UNCHANGED <<stub, root_task, current_task, nalloc, freed, task>>

CreateReadRoot ==
  /\ cpu.pc = "c_root"
  /\ cpu' = [cpu EXCEPT !.pc = "c_walk", !.idk = root_task]
  /\ UNCHANGED <<stub, root_task, current_task, nextpid, nalloc, freed, task>>

\* Variant: link at the head without looking for the tail.
CreateWalk_NoWalk ==
  /\ cpu.pc = "c_walk"
  /\ cpu' = [cpu EXCEPT !.pc = "c_link"]
  /\ UNCHANGED <<stub, root_task, current_task, nextpid, nalloc, freed, task>>

CreateWalk ==
  /\ cpu.pc = "c_walk"
  /\ LET n == task[cpu.idk].next
     IN  \/ n # NULL /\ cpu' = [cpu EXCEPT !.idk = n]
         \/ n = NULL /\ cpu' = [cpu EXCEPT !.pc = "c_link"]
  /\ UNCHANGED <<stub, root_task, current_task, nextpid, nalloc, freed, task>>

\* Variants: the two sides of the assignment swapped; insertion behind root.
CreateLink_Swapped ==
  /\ cpu.pc = "c_link"
  /\ task' = [task EXCEPT ![cpu.new].next = cpu.idk]
  /\ cpu' = Returned(cpu)
  /\ UNCHANGED <<stub, root_task, current_task, nextpid, nalloc, freed>>

CreateLink_AtHead ==
  /\ cpu.pc = "c_link"
  /\ task' = [task EXCEPT ![cpu.new].next = task[root_task].next,
                          ![root_task].next = cpu.new]
  /\ cpu' = Returned(cpu)
  /\ UNCHANGED <<stub, root_task, current_task, nextpid, nalloc, freed>>

CreateLink ==
  /\ cpu.pc = "c_link"
  /\ task' = [task EXCEPT ![cpu.idk].next = cpu.new]
  /\ cpu' = Returned(cpu)
  /\ UNCHANGED <<stub, root_task, current_task, nextpid, nalloc, freed>>

(***************************************************************************)
(* kill_task(pid) called from a task, and the same search made by          *)
(* syscall_int() for kill_task(getpid()) with interrupts disabled.         *)
(***************************************************************************)
kill_task(p) ==
  /\ cpu.pc = "run" /\ cpu.fn \in Killers
  /\ cpu' = [cpu EXCEPT !.pc = "k_walk", !.idk = root_task, !.arg = p]
  /\ UNCHANGED <<stub, root_task, current_task, nextpid, nalloc, freed, task>>

KillWalk ==
  /\ cpu.pc = "k_walk"
  /\ \/ cpu.idk = NULL /\ cpu' = Returned(cpu)
     \/ /\ cpu.idk # NULL /\ task[cpu.idk].pid = cpu.arg
        /\ cpu' = [cpu EXCEPT !.pc = "k_set"]
     \/ /\ cpu.idk # NULL /\ task[cpu.idk].pid # cpu.arg
        /\ cpu' = [cpu EXCEPT !.idk = task[cpu.idk].next]
  /\ UNCHANGED <<stub, root_task, current_task, nextpid, nalloc, freed, task>>

KillMark ==
  /\ cpu.pc = "k_set"
  /\ task' = [task EXCEPT ![cpu.idk].state = "KILLED"]
  /\ cpu' = Returned(cpu)
  /\ UNCHANGED <<stub, root_task, current_task, nextpid, nalloc, freed>>

WithPid(p) == {t \in Reach : task[t].pid = p}

syscall_int ==
  /\ cpu.pc = "run" /\ cpu.fn \in Exiters
  /\ \E t \in WithPid(task[current_task].pid) :
       /\ WithPid(task[current_task].pid) \subseteq ReachFrom(t)
       /\ task' = [task EXCEPT ![t].state = "KILLED"]
  /\ UNCHANGED <<stub, root_task, current_task, nextpid, nalloc, freed, cpu>>

-----------------------------------------------------------------------------
(***************************************************************************)
(* sched(), the timer handler once sched_start() has installed it.  tk is  *)
(* the memory as the earlier part of the handler left it.                  *)
(***************************************************************************)
Dispatch(t, tk) ==
  /\ cpu' = IF tk[t].state = "CREATED" THEN Entered(t, tk[t].entry)
                                        ELSE tk[t].regs
  /\ task' = [tk EXCEPT ![t].state = "RUNNING"]
  /\ current_task' = t

\* Variants: state or registers not saved; no wrap from the tail to the root.
Rotate_KeepState(t, tk) ==
  LET after == IF tk[t].next = NULL THEN root_task ELSE tk[t].next
  IN  Dispatch(after, [tk EXCEPT ![t].regs = cpu])

Rotate_KeepRegs(t, tk) ==
  LET after == IF tk[t].next = NULL THEN root_task ELSE tk[t].next
  IN  Dispatch(after, [tk EXCEPT ![t].state = "PENDING"])

Rotate_NoWrap(t, tk) ==
  LET after == IF tk[t].next = NULL THEN t ELSE tk[t].next
  IN  Dispatch(after, [tk EXCEPT ![t].regs = cpu, ![t].state = "PENDING"])

Rotate(t, tk) ==
  LET after == IF tk[t].next = NULL THEN root_task ELSE tk[t].next
  IN  Dispatch(after, [tk EXCEPT ![t].regs = cpu, ![t].state = "PENDING"])

Panic ==
  /\ cpu' = [cpu EXCEPT !.pc = "panic"]
  /\ current_task' = NULL

SchedFrom(t, tk) ==
  \/ t = NULL /\ Panic /\ task' = tk
  \/ t # NULL /\ tk[t].state = "CREATED" /\ Dispatch(t, tk)
  \/ t # NULL /\ tk[t].state # "CREATED" /\ Rotate(t, tk)

\* Variant: freed without being taken off the list.
Unlinked_StillLinked(c) == [task EXCEPT ![c] = Zeroed]

\* The list without c, and c's struct cleared.
Unlinked(c) ==
  [t \in Slots |->
     IF t = c THEN Zeroed
     ELSE IF t \in Reach /\ task[t].next = c
          THEN [task[t] EXCEPT !.next = task[c].next]
          ELSE task[t]]

SchedLive ==
  /\ task[current_task].state # "KILLED"
  /\ SchedFrom(current_task, task)
  /\ freed' = freed

SchedReap ==
  /\ task[current_task].state = "KILLED"
  /\ SchedFrom(task[current_task].next, Unlinked(current_task))
  /\ freed' = freed \cup {current_task}

sched ==
  /\ stub = "sched" /\ cpu.pc # "panic"
  /\ SchedLive \/ SchedReap
  /\ UNCHANGED <<stub, root_task, nextpid, nalloc>>

\* panic() disables interrupts and halts for good.
Halted == cpu.pc = "panic" /\ UNCHANGED vars

-----------------------------------------------------------------------------
CreateStep ==
  CreateTakePid \/ CreateStepPid \/ CreateReadRoot \/ CreateWalk \/ CreateLink

KillStep == KillWalk \/ KillMark

Next ==
  \/ sched_init
  \/ sched_start
  \/ \E e \in Spawned \cup {"krnl_sched"} : create_task(e)
  \/ CreateStep
  \/ \E p \in Killable : kill_task(p)
  \/ KillStep
  \/ syscall_int
  \/ sched
  \/ Halted

Spec == Init /\ [][Next]_vars

(***************************************************************************)
(* The timer keeps firing, and a context that gets the CPU again and again *)
(* executes its next instruction at some point: a tick is 55 ms away.      *)
(***************************************************************************)
Progress(t) == cpu.owner = t /\ (CreateStep \/ KillStep)

Fairness ==
  /\ WF_vars(sched)
  /\ WF_vars(sched_init) /\ WF_vars(sched_start)
  /\ WF_vars(cpu.fn = "boot" /\ create_task("krnl_sched"))
  /\ \A t \in Slots \cup {NULL} : SF_vars(Progress(t))

FairSpec == Spec /\ Fairness

-----------------------------------------------------------------------------
\* Pointers are NULL or task_structs, and registers hold whole contexts: what
\* sched() copies in and out of the interrupt frame is never half a context.
TypeOK ==
  /\ stub \in {"timer", "sched"}
  /\ root_task \in Slots \cup {NULL}
  /\ current_task \in Slots \cup {NULL}
  /\ nextpid \in Nat
  /\ nalloc \in 0..MaxTasks
  /\ freed \subseteq Slots
  /\ task \in [Slots -> TaskStruct]
  /\ cpu \in Context

\* The task_structs that are allocated and not yet given back.
Live == 1..nalloc \ freed

\* The contexts that will be executed: the CPU's and those saved in the
\* task_structs that sched() can still resume.
Suspended == {t \in Live \ {current_task} : task[t].state # "CREATED"}
Contexts  == {cpu} \cup {task[t].regs : t \in Suspended}

(***************************************************************************)
(* No use after free: neither root_task nor current_task nor any node that *)
(* a list walk from root_task visits has been freed by the reaper, wherever *)
(* the interrupt cut a create_task() or a kill_task().  (A walk that was   *)
(* cut may itself still stand on a node that is reaped meanwhile.)         *)
(***************************************************************************)
NoUseAfterFree ==
  /\ Reach \cap freed = {}
  /\ nalloc > 0 => root_task \in Live
  /\ current_task # NULL => current_task \in Reach

(***************************************************************************)
(* sched() marks a task RUNNING only when it gives it the CPU, and unmarks *)
(* it when it takes the CPU away: no two tasks are RUNNING, and the one    *)
(* that is RUNNING is current_task.                                        *)
(***************************************************************************)
OneRunning ==
  \A t \in Live : task[t].state = "RUNNING" => t = current_task

(***************************************************************************)
(* Every suspended task will resume its own execution: sched() saved in a  *)
(* task_struct the registers of that task and of no other, and the CPU     *)
(* executes the code of current_task.                                      *)
(***************************************************************************)
OwnContext ==
  /\ \A t \in Suspended : task[t].regs.owner = t
  /\ stub = "sched" /\ cpu.owner # NULL => cpu.owner = current_task

(***************************************************************************)
(* No task gets lost: once create_task() has returned, the task stays on   *)
(* the list that sched() walks until it is reaped, although the walk to    *)
(* the tail and the link are separate steps.                               *)
(***************************************************************************)
NoLostTask ==
  \A t \in Live :
    t \in Reach \/ \E c \in Contexts : c.pc \in Creating /\ c.new = t

(***************************************************************************)
(* Two tasks on the list never share a pid, although nextpid is read and   *)
(* written in separate steps; kill_task() finds the task that is meant.    *)
(***************************************************************************)
UniquePids ==
  \A t, u \in Reach : task[t].pid = task[u].pid => t = u

(***************************************************************************)
(* scheduler.cpp:21, "Set state to TASK_KILLED for scheduler to remove     *)
(* task": sched() never gives the CPU to a task that is marked KILLED.     *)
(* The code breaks this (README, deviations).                              *)
(***************************************************************************)
KilledNeverRuns ==
  [][\A t \in Live : task[t].state = "KILLED" => task'[t].state # "RUNNING"]_vars

(***************************************************************************)
(* scheduler.cpp:50, panic("Scheduler: No more processes. ..."): sched()   *)
(* panics only when the list is empty.  The code breaks this (README,      *)
(* deviations).                                                            *)
(***************************************************************************)
PanicOnlyWhenEmpty == cpu.pc = "panic" => Reach = {}

(***************************************************************************)
(* Starvation freedom: a task on the list gets the CPU again and again.    *)
(***************************************************************************)
EveryTaskRuns ==
  \A t \in Slots : t \in Reach ~> (current_task = t /\ task[t].state = "RUNNING")

(***************************************************************************)
(* create_task() terminates: the task being created ends up on the list,   *)
(* however often the creator is preempted.                                 *)
(***************************************************************************)
CreateTerminates ==
  \A t \in Slots : (t \in Live) ~> (t \in Reach)

=============================================================================
