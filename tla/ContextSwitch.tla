---------------------------- MODULE ContextSwitch ----------------------------
(***************************************************************************)
(* The stack under a task switch: exception_handler of base/core/idt2.asm  *)
(* and the copies that sched() of base/core/scheduler.cpp makes of the     *)
(* frame it builds (the order of the tasks and their states are the        *)
(* subject of Scheduler; all tasks here are linked, and none is killed).   *)
(*                                                                         *)
(* The kernel never changes privilege, so iret pops EIP, CS and EFLAGS     *)
(* only, and popa skips the saved ESP: every task continues at the stack   *)
(* pointer of the task that was interrupted, and the stacks that           *)
(* create_task() allocates are never used.  The fields useresp and ss of   *)
(* registers_t are the two words on top of the interrupted stack, which    *)
(* sched() saves and overwrites with the rest.                             *)
(***************************************************************************)
EXTENDS Integers

CONSTANTS
  N,         \* number of tasks; 1 is idle, and t is followed by t + 1
  Callers,   \* the tasks that call and return with interrupts enabled
  Framers,   \* the tasks that take a stack frame, keep it and spin
  MaxWords   \* bound: size of the stack in words

Tasks == 1 .. N
NoTask == 0

\* The boot code has its frames at the bottom.
Base == 2

ASSUME TaskAssumption ==
  /\ N \in Nat \ {0} /\ MaxWords \in Nat /\ MaxWords >= Base
  /\ Callers \subseteq Tasks \ {1} /\ Framers \subseteq Tasks \ {1}

\* A return address that task's call number depth left.
Word == [task : Tasks \cup {NoTask}, depth : Nat]
Frame(t, d) == [task |-> t, depth |-> d]
Boot == Frame(NoTask, 0)

VARIABLES
  current_task,
  started,  \* the tasks that are no longer TASK_CREATED
  regs,     \* per task: the registers that sched() saved
  depth,    \* per task: the number of its calls that have not returned
  mem, esp, \* the one stack: its words and the number of them in use
  wild      \* a return went to an address that is not its caller's

vars == <<current_task, started, regs, depth, mem, esp, wild>>

Registers == [esp : 0 .. MaxWords, useresp : Word, ss : Word]

Init ==
  /\ current_task = 1
  /\ started = {}
  /\ regs = [t \in Tasks |-> [esp |-> 0, useresp |-> Boot, ss |-> Boot]]
  /\ depth = [t \in Tasks |-> 0]
  /\ mem = [k \in 1 .. MaxWords |-> Boot]
  /\ esp = Base
  /\ wild = FALSE

-----------------------------------------------------------------------------
(***************************************************************************)
(* What the current task does between two ticks.                           *)
(***************************************************************************)
Running(t) == ~wild /\ current_task = t /\ t \in started

Push(t) ==
  /\ esp < MaxWords
  /\ esp' = esp + 1
  /\ mem' = [mem EXCEPT ![esp + 1] = Frame(t, depth[t] + 1)]
  /\ depth' = [depth EXCEPT ![t] = @ + 1]
  /\ UNCHANGED <<current_task, started, regs, wild>>

Call(t) == Running(t) /\ t \in Callers /\ Push(t)

\* th1 and th2: "sub esp" on entry; all calls are between cli and sti.
TakeFrame(t) == Running(t) /\ t \in Framers /\ depth[t] = 0 /\ Push(t)

Ret(t) ==
  /\ Running(t) /\ t \in Callers /\ depth[t] > 0 /\ esp > 0
  /\ esp' = esp - 1
  /\ depth' = [depth EXCEPT ![t] = @ - 1]
  /\ wild' = (mem[esp] # Frame(t, depth[t]))
  /\ UNCHANGED <<current_task, started, regs, mem>>

-----------------------------------------------------------------------------
(***************************************************************************)
(* A tick: exception_handler builds the frame, sched() copies it out and   *)
(* another one in, exception_handler takes it off.                         *)
(***************************************************************************)
\* Variant: the two words above the frame are not saved.
Saved_FrameOnly(t) == [regs EXCEPT ![t].esp = esp]

Saved(t) ==
  [regs EXCEPT ![t] = [esp |-> esp, useresp |-> mem[esp], ss |-> mem[esp - 1]]]

Successor(t) == IF t = N THEN 1 ELSE t + 1

\* Variant: error code and interrupt number are left on the stack.
ExceptionReturn_NoCleanup == esp' = esp + 2

\* popa, add esp, iret.
ExceptionReturn == esp' = esp

StartFirst ==
  /\ current_task \notin started
  /\ started' = started \cup {current_task}
  /\ UNCHANGED <<current_task, regs, mem>>

StartNext(t) ==
  /\ current_task \in started /\ t \notin started
  /\ regs' = Saved(current_task)
  /\ current_task' = t
  /\ started' = started \cup {t}
  /\ mem' = mem

Resume(t) ==
  /\ current_task \in started /\ t \in started
  /\ regs' = Saved(current_task)
  /\ current_task' = t
  /\ started' = started
  /\ mem' = [mem EXCEPT ![esp] = regs'[t].useresp, ![esp - 1] = regs'[t].ss]

sched ==
  /\ ~wild
  /\ \/ StartFirst
     \/ StartNext(Successor(current_task))
     \/ Resume(Successor(current_task))
  /\ ExceptionReturn
  /\ UNCHANGED <<depth, wild>>

Next == sched \/ \E t \in Tasks : Call(t) \/ TakeFrame(t) \/ Ret(t)

Spec == Init /\ [][Next]_vars

-----------------------------------------------------------------------------
\* The values that the registers and the words of the stack can have; the
\* stack pointer never leaves the stack below the frames of the boot code.
TypeOK ==
  /\ current_task \in Tasks
  /\ started \subseteq Tasks
  /\ regs \in [Tasks -> Registers]
  /\ depth \in [Tasks -> Nat]
  /\ mem \in [1 .. MaxWords -> Word]
  /\ esp \in Base .. MaxWords
  /\ wild \in BOOLEAN

(***************************************************************************)
(* Every return goes to its caller, although all tasks run on one stack    *)
(* and every switch overwrites its two top words.                          *)
(***************************************************************************)
ReturnsToCaller == ~wild

(***************************************************************************)
(* idt2.asm:100, "pops 5 things at once: CS, EIP, EFLAGS, SS, and ESP": a  *)
(* task that is resumed gets back the stack pointer it was interrupted at. *)
(* The code breaks this (README, deviations).                              *)
(***************************************************************************)
EspRestored ==
  [][current_task' # current_task /\ current_task' \in started =>
       esp' = regs[current_task'].esp]_vars

==============================================================================
