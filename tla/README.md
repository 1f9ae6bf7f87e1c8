# TLA+ models of x86os_v2

x86os_v2 is a small 32-bit x86 kernel: a multiboot bootstrap, a heap, an interrupt
layer on the legacy PIC, an ACPI layer on top of the LAI interpreter (whose source is
part of the repository and of the kernel image), a round-robin scheduler for kernel
tasks, the start-up of further processors, and an unfinished file system layer. This
directory holds TLA+ models of its core and of the interpreter, the TLC configurations
that check them, and proofs for TLAPS. Every definition is translated from the source;
`PROJECT.json` gives the lines.

    tlc -config sched_boot.cfg SchedulerRing     # model-check one run
    tlapm SchedulerProofs.tla                    # check one proof module

## 1. Inventory

| Part | Source | State | Operations | Modelled by |
|---|---|---|---|---|
| Scheduler | `base/core/scheduler.cpp` | `root_task`, `current_task`, `nextpid`, the `task_struct` list | `sched_init`, `create_task`, `sched_start`, `kill_task`, `getpid`, `sched` (timer handler) | `Scheduler`, `RoundRobin` |
| Context switch | `base/core/idt2.asm`, `sched()` | the kernel stack, saved `registers_t` | `exception_handler` | `ContextSwitch` |
| Kernel main | `krnl/krnl.cpp` | - | `Kernel::Main`, `krnl_sched`, `th1`, `th2` | in `Scheduler` and `ContextSwitch` |
| System calls | `base/core/syscall.cpp` | - | `syscall_int` (exit) | in `Scheduler` |
| Heap | `base/memory/malloc.cpp` | `big`, the block headers in memory | `pmm_setup`, `malloc`, `free` | `Heap` |
| Processor start-up | `base/other/madt.cpp`, `trampoline.S` | `lapic_ids`, `bspdone`, `aprunning`, `cpuid`, `bsp_l` | `madt_setup`, `ap_startup` | `SmpBoot` |
| Power button, ACPI set-up | `base/other/acpi.cpp`, `lai/helpers/sci.c`, `pm.c`, `lai/drivers/timer.c` | `fadt`, the chipset's event registers | `ACPI::Setup`, `acpi_event`, `lai_start_pm_timer`, `lai_enable_acpi`, `lai_enter_sleep` | `AcpiEvents` |
| AML interpreter | `lai/core/exec.c`, `exec_impl.h`, `eval.c` | `lai_state_t`: four stacks | `lai_populate`, `lai_eval_args`, `lai_exec_process`, `lai_exec_parse` | `LaiExec`, `LaiCode`, `LaiEval` |
| AML operators and objects | `exec-operand.c`, `object.c`, `variable.c`, the reductions of `exec.c` | strings, buffers, packages | load, store, convert, compare; the operators | `LaiObjects`, `LaiOps`, `LaiReduce` |
| ACPI namespace | `lai/core/ns.c`, `util-hash.h` | tree of nodes, array of nodes, a hash table of children per node | install, uninstall, resolve, look up, walk | `LaiNamespace`, `LaiHashTable`, `LaiChildren` |
| Fields of operation regions | `lai/core/opregion.c` | registers of the hardware | read and write fields, index fields, bank fields | `LaiOpregion`, `LaiFields` |
| Interrupts, PIC | `base/core/idt.cpp` | `stubs` | `SetStub`, `irq_handler` | in `AcpiEvents` (SCI) |
| LAI helpers and drivers | `lai/helpers/pci.c`, `resource.c`, `pc-bios.c`, `lai/drivers/ec.c` | - | no caller in the kernel | no |
| Logger, spinlock | `logging.cpp`, `spinlock.cpp` | a lock per logger | `info` ... `critical` | no |
| Paging | `paging.cpp`, `paging2.S` | directory and one table | `page_setup` | no |
| VFS, drive manager, tmpfs | `vfs.cpp`, `vfs_drive_mgr.cpp`, `tmpfs.cpp` | `first_node`, 16 drives | no caller | no |
| list, tree, hash map | `list.cpp`, `hashmap.hpp` | - | no caller | no |
| libc, console, GDT, bootstrap | `base/libc/`, `putc.cpp`, `gdt.cpp`, `init/` | cursor, constant tables | `printf`, `putc` ... | no |

### How the parts interact

`init_main` runs the heap set-up, the console, `IDT::Init` (interrupts are enabled
from here on) and `Kernel::Main`, which sets up paging and ACPI (with the other
processors), then calls `sched_init`, `create_task(krnl_sched)`, `sched_start` and
spins. `ACPI::Setup` installs `acpi_event()` as the handler of the SCI, lets LAI load
the tables into the namespace, evaluates `_INI` and `_STA` of the devices, and takes
the events over from the firmware. The timer interrupt runs `sched()`, which copies
registers between the interrupt frame and `task_struct`s. All other interaction is
shared memory without locks:

* code that is interrupted and the interrupt handlers share the heap, the loggers,
  the console, the event registers and, through `acpi_event()`, the interpreter;
* tasks that are preempted anywhere share the task list, `nextpid`, the heap - and
  the stack, because the interrupt return does not restore a stack pointer;
* the processors share `bspdone`, `aprunning`, `cpuid` and `bsp_l`;
* AML code that is evaluated while LAI walks over the children of a node changes these
  children.

One fact about the present commit: `page_setup()` enables paging with a directory
that maps nothing, so a boot ends there with a triple fault. What `Kernel::Main` does
behind it (ACPI, processor start-up, scheduler) is modelled as its code stands. The
fault is why resets that leave old memory contents behind matter to the heap.

### What is hard, and what must hold

* *Scheduler*: preemption inside `create_task()` and `kill_task()`; reaping a task
  that list walks may stand on. No use after free, no lost or starved task, one
  running task, every task resumes its own execution, unique pids.
* *Context switch*: one stack for all tasks. Every return goes to its caller.
* *Heap*: interrupts inside `malloc()` and `free()`, pointer arithmetic in three
  different units, stale headers after a reset. Owners never share memory, headers
  survive, no address is returned twice, headers and memory stay off the kernel image,
  `malloc()` returns.
* *Processor start-up*: unsynchronised counters on several processors, a compiler
  that reads shared variables once. Counters are consistent, nobody runs before the
  release, everybody arrives.
* *Power button*: events at any point of the start-up, a firmware that is late, a
  handler that does not acknowledge. No press is lost, the start-up ends, and nothing
  but a press switches off.
* *Interpreter*: four stacks that move, pointers kept over nested calls, jumps out of
  nested blocks, names that live as long as a call, registers that must be selected
  before every access, walks over a table that changes. It computes what the code means.

`PROJECT.json` lists the hazards line by line with the properties aimed at them.

## 2. Modules

### Scheduler (`Scheduler`, `RoundRobin`, `SchedulerRing`)

| TLA+ | Code |
|---|---|
| `task[t]`, `root_task`, `current_task`, `nextpid` | `task_struct` number `t`, the globals |
| `nalloc`, `freed` | allocations so far, structs given to `free()` |
| `stub` | `stubs[0]`: `timer` before `sched_start()`, `sched` after |
| `cpu` | the registers: whose code, which step of which function, its locals |
| `create_task`, `CreateTakePid`, `CreateStepPid`, `CreateReadRoot`, `CreateWalk`, `CreateLink` | `create_task()`, one step per access to shared memory |
| `kill_task`, `KillWalk`, `KillMark`, `syscall_int` | `kill_task()`; the same search with interrupts disabled |
| `SchedReap` / `SchedLive`, `SchedFrom`, `Rotate`, `Dispatch`, `Panic` | the parts of `sched()`, one atomic step since the gate disables interrupts |

A `task_struct` is named by the number of its allocation. This is faithful because
`malloc()` never returns an address twice, which is a theorem of `HeapProofs`. The
allocation is one step: only one context allocates in the scheduler's runs, and what
an interrupt can do to `malloc()` is the subject of `Heap`. `timer_tick`, names and
stacks are left out.

`RoundRobin` is the abstract specification: a ring that tasks join at the end and a
turn that goes round. `SchedulerRing` gives the mapping (the list as a sequence, the
turn once a task executes), and the run `sched_boot` checks that the scheduler
implements it when nobody kills.

### Context switch (`ContextSwitch`)

One stack `mem` with `esp` words in use, per task the number of its open calls and the
registers saved for it. `sched` saves and overwrites the two words on top of the
interrupted stack (the fields `useresp` and `ss` of `registers_t`, which the processor
does not push here) and leaves `esp` alone. A return that pops another word than its
caller's makes the CPU `wild`.

### Heap (`Heap`)

Memory is the partial function `hdr` from addresses that carry a signature to the
header's `allocated` and `size`. `malloc()` is a walk (`WalkPast`) that ends in a block
(`WalkFound`, `Take`), a hole (`WalkHole`, `CarveLink`, `CarveSign`, `CarveSize`: the
signature is written before the size) or nothing (`WalkFailed`). `CarveLink` is the store
`prev->next = d` of line 96. Nobody reads `next`, but `prev` has no value until the walk
has passed a block: for the first block of a boot the store goes to any word of `Wild`.
`strays` counts these stores and `struck` says whether one has hit a header or the kernel
image; the model ends there, since nothing is known of what such a kernel does. So the
properties of the heap speak of boots in which the store misses both, and `OneStray` says
that there is no other such store. Contexts in `Handlers` run to completion. `Write` is an owner filling its memory and destroying the headers found
there; `Reset` keeps any subset of the headers. Sizes, strides and address truncation
are those of the build: 28-byte headers, steps of 28 bytes times (size + 28), memory
112 bytes behind a new header and 784 behind a reused one, addresses modulo `Word`
(a parameter, 2^32 in the code), comparison of a signed 32-bit pointer with the end.
Since `free()` looks 112 bytes in front of every pointer, it ignores those of reused
blocks: a block is lost after one reuse, and no address is ever returned twice.

### Processor start-up (`SmpBoot`)

The BSP's steps through `madt_setup()` and each AP's through the trampoline and
`ap_startup()`, one per access to a shared variable and in the order of the compiled
code: `ap_startup()` reads `bsp_l` once and never sets it, `cpuid++` is a load and a
store with the store of `bsp_l` between them, the BSP reads `cpuid` once before its last
loop. An INIT makes a processor wait for a STARTUP, whose target is the index `i` (its low
eight bits); absent processors ignore both. Between them the BSP waits in
`lai_busy_wait_pm_timer(10)`, a step `Delay` that ends, as `AcpiEvents` shows of the same
function. `Capacity` stands for the 256 bytes of `lapic_ids`: the entry of a larger table
that is stored behind them (`madt.cpp:124`) ends the model (`overrun`). A machine without a MADT is the empty table.

### Power button (`AcpiEvents`)

| TLA+ | Code |
|---|---|
| `pc`, `a`, `polls` | the place in `ACPI::Setup()`, the status read by `lai_get_sci_event()`, the loop counter of `lai_enable_acpi()` |
| `stub` | `stubs[fadt->SCI_Interrupt]` |
| `status`, `enable`, `acpi_mode`, `smi` | the PM1 event registers, SCI_EN, the command to the firmware |
| `lai_start_pm_timer`, `ReadEvents`, `ClearEvents`, `lai_set_sci_event`, `RequestAcpi`, `Poll` | one access to a register each |
| `timer`, `goal` | the power management timer and the goal of `lai_busy_wait_pm_timer(10)`, which `laihost_sleep(10)` is (`acpi.cpp:186`) |
| `SleepNot`, `Sleep`, `Wait`, `Awake` | the wait of `lai_enable_acpi()` after its request and between two polls: the returns without waiting, the goal, the loop and its end (`timer.c:62-77`) |
| `irq_handler` | `irq_handler()` with `acpi_event()`; `lai_enter_sleep` switches off if the tables have `_S5` |
| `Event`, `Firmware`, `Tick`, `Line` (external) | buttons and timer, the firmware's hand-over, the count of the timer, the line of the SCI |

The SCI is level triggered and comes between any two accesses. The CPU may finish the
instruction that makes the line active, which is `late`. `machine` is what differs from
one machine to another: bit 9 of the event port's number (the thing that `acpi_event()`
tests), the width of the timer, if there is one that the code accepts, and `_S5`. The timer
may stand anywhere when a wait begins, and is followed until the wait ends. A goal that a
timer of 24 bits cannot reach, and a goal of 32 bits that wraps, end the wait at once
(`timer.c:66-71`). The label `done` is the end of `lai_enable_acpi()`: `ACPI::Setup()`
then calls `madt_setup()`, which is `SmpBoot`.

### ACPI namespace (`LaiNamespace`, `LaiHashTable`, `LaiChildren`)

`LaiNamespace` has the tree as operators on a record: nodes by allocation, the set of
nodes linked into the table of their parent, the set in `ns_array`. `LaiHashTable` is
the table itself, with `elem_ptr_tab`, `elem_hash_tab` and `bucket_tab`, its growth, the
probe loop (`Chain`: the probes at which it stops) and the users in `ns.c`, among them
the walk `lai_ns_child_iterate()` that keeps a slot number. `LaiChildren` is what the
rest of LAI takes it for: a set of nodes with different names, lookups that find exactly
its members, walks that give every node once that stays while they last. A walk is
interleaved with installations and removals because its callers evaluate AML code
between its steps. `Junk` is the content of memory that `malloc()` gives.

### Fields (`LaiOpregion`, `LaiFields`)

`LaiOpregion` has the loops over the words of a field, as functions of the number of
words done, on a set of bits that stands for the hardware. The code takes a `uint64_t` to
have 64 bits, but here it has 32 (`base/include/stdint.h:5`), and the processor takes shift
counts modulo 32. So the mask of a whole word of 32 bits, `(1 << 32) - 1`, is 0 (`LowBits`,
`opregion.c:450`, `479`): where a field fills such a word it reads as zero and a write changes
nothing. Accesses of 64 bits reach half of a word. An index field has its index and data
register, and a bank register is written before every access.
`Cell` says which register an address reaches and is external; `LaiFields` gives it a
chip with an index port and a banked window, and lets AML read and write any set of named
fields, on `lai_fields` ten that cross words and share them; one fills a word of 32 bits.

`LaiFields` also says what a reasonable layout is. A position is a bit of a byte of a
region; `Bits` are the positions of a field, `Span` those of the words that a write to it
goes to, `Place` the bit of the hardware that a position stands for, `Live` the positions
that the code moves: all but those in words of 32 bits that the field fills.
`FieldsAssumption`: accesses of 8, 16 or 32 bits, a window only behind its bank register,
indexed registers of one byte. `ChipAssumption` and `LayoutAssumption`: the selecting
registers are not themselves selected, and no field lies on another, on a selecting
register or on the padding. Words that two fields share are allowed.

### Interpreter (`LaiObjects`, `LaiOps`, `LaiReduce`, `LaiCode`, `LaiExec`, `LaiEval`, `LaiEvaluation`)

| TLA+ | Code |
|---|---|
| `mem` = [heap, ns, inv, cur, io] | objects, namespace, method invocations, hardware |
| `LaiObjects`, `LaiOps` | `object.c`, `variable.c`, `exec-operand.c`: objects, conversions, load and store of operands |
| `LaiReduce` | one operator per case of `lai_exec_reduce_op()` and `lai_exec_reduce_node()` |
| `LaiCode` | tokens, operand modes, declarations, methods of the operating system |
| `state` of `LaiExec` | `lai_state_t`: context, block, execution and operand stack with their capacities |
| `Mode`, `Parse...` | `lai_exec_parse()` in the mode that the item on top asks for |
| `Reduce...`, `Decide...`, `End...`, `InvokeMethod`, `CreatePackage` | the branches of `lai_exec_process()` |
| `lai_populate`, `lai_eval_args`, `Finish` | begin and end of a call |

An action is one call of `lai_exec_process()`. Code is a sequence of tokens, an opcode
with its immediate data, instead of bytes; the sizes of packages count tokens. The
counters, the frames of items, the growth of every stack at its capacity and the effect
of pointers taken before it (`Counted`) are kept. A panic, and an access outside an
object, end the behavior.

Integers have `IntBytes` bytes: 4 in this build, where LAI expects 8. What the code derives
from the type (`sizeof`, `~0`, wrapping) is given in `IntBytes`, and where it writes 8 bytes
or 16 digits out, in `QWord`, twice as much. Shifts by the size of an integer or more, which
C leaves undefined, are taken modulo that size: the compiler leaves them to the processor.
The model therefore has what this build does and 64 bits would not:
`FindSetRightBit` gives 33 more than the number of the bit (`exec.c:279`), `FromBCD` adds
every digit twice (`exec.c:1239`), a field of 5 to 8 bytes reads as an integer with its upper
bytes on top of the lower ones (`opregion.c:531`), `ToInteger` refuses buffers of less than 8
bytes (`object.c:492`), and storing an integer to a longer buffer reads behind the integer
(`object.c:276`, the model ends there).

`LaiEval` is the abstract specification: the value of an evaluation by recursion on the
code, in one step, without stacks. `EvaluatesItsCode` (in `LaiEvaluation`) says that
`LaiExec` implements it, with the memory of the interpreter seen between calls only.

## 3. Runs

| Run | Bounds | Shows |
|---|---|---|
| `sched_boot` | 5 tasks, one creator (as in `krnl.cpp`), no kills | own contexts, no lost task, unique pids; every task runs again and again, `create_task()` ends, `RoundRobin` is implemented |
| `sched_kill` | 4 tasks, creators, killers and exiters at once | types, no use after free, one running task |
| `switch_one_caller` | 4 tasks, 7 words | with one task using the stack every return finds its caller |
| `heap` | 3 maps, 3 sizes, 3 blocks, a reset, frees in a handler | types, fresh addresses, disjoint memory, headers safe, off the kernel image, one stray store, bounded overrun, `malloc()` returns |
| `heap_interrupt` | a handler that allocates | *violation*: two owners of one hole |
| `smp_start` | 4 processors, 5 tables, room for 4 ids | consistent counters, release last, all arrive |
| `acpi_button` | 12 kinds of machines, 3 polls, waits of 2 ticks on a timer of 5 values | every press that comes when its event is enabled switches off, `lai_enable_acpi()` ends (on machines where `acpi_event()` can switch off) |
| `acpi_off` | the same | *violation*: the sleep button and the timer switch off |
| `lai_children` | 5 nodes, 4 names of which two collide always and one until the table grows, a negative hash | `LaiChildren` is implemented, the tables agree, no assertion fails, walks end |
| `lai_fields` | 10 fields, plain, indexed, banked, up to 3 values each, one that fills a word of 32 bits | what was written is read back through any history, but for that word, which reads as zero; the bits in between stay |
| `lai_exec` | 121 programs, 1 or 2 calls of 10 kinds, stacks of 1 or 2 items that grow, 16-bit integers | the machine computes what `LaiEval` says; operands, contexts and blocks stay in step; names of a method go with it |
| `lai_continue` | one loop | *violation*: `Continue` never answers |

The bounds are the smallest that contain the interesting cases: five tasks let two
creations overlap with a full rotation and a wrap; four tasks let one be reaped while
two others are inside list walks; three blocks of three sizes reach the end of the
regions and a damaged chain, also the region across the sign boundary of the pointer
comparison, and the reset keeps any subset of headers; four words above the base let
both saved words, and words below them, belong to open calls; three APs let increments
of `cpuid` be lost and observed. Three polls stand for the 100 of the code: the loop
only counts. A timer of 5 values and waits of 2 ticks stand for 2^24 or 2^32 and 35800: a
wait may be far from the wrap, end just below it, or be refused. Five nodes make the table grow twice, to 8 slots and 16 buckets, with holes
in every probe sequence, and two nodes of one name let a name change its node during a
walk. The stacks of the interpreter start with room for one or two items (8 and 16 in
the code), so that each of them moves under every kind of item. The programs have every statement form and every operator, those that
convert on an integer, a string, a buffer and a package; bodies of a loop are all pairs
of six statements. The interpreter has no other input and is deterministic, so the run is as
strong as its programs. What `EvaluatesItsCode` compares is the machinery: both sides use
the same operators on objects (`LaiObjects`, `LaiOps`, `LaiReduce`), so a wrong width in one of
these would not show. The programs leave out a `Continue` before the end of a body
(`lai_continue` has it), a method without `Return` as a later operand (section 6), and a
stack that moves while the size of a `VarPackage` is pushed (`exec.c:1496`). Deadlock is not checked where the system really stops: the
heap's bound on blocks, the processors' final loops, a machine that is off.

### Deviations

A *violation* run states what a comment or a message of the source says and shows the
code doing otherwise; `PROJECT.json` quotes the line under `findings`:

* `malloc()` in a handler gets memory that is being given away (`malloc.cpp:94`);
* any SCI switches off, not only the power button (`acpi.cpp:278`);
* `Continue` leaves the counter of the loop's block at its own opcode, which is parsed again
  for ever (`exec.c:2412`); inside an `If`, the counter is behind the `If`, and the rest of
  the body is executed.

Five further properties are in the modules, next to those that hold, each with the line
of the source that it states; the code breaks them too. No run of its own is kept for
them. TLC refutes each with the constants below, the specification named, and the
property alone in the configuration:

| Property | Module, constants | What happens |
|---|---|---|
| `KilledNeverRuns` | `Scheduler`, `Spec`, as `sched_kill` with 3 tasks | a kill of a task that is not running has no effect (`scheduler.cpp:80`) |
| `PanicOnlyWhenEmpty` | `Scheduler`, `Spec`, as `sched_kill` with 3 tasks | a dying tail task panics the kernel (`scheduler.cpp:50`) |
| `EspRestored` | `MCContextSwitch`, `Spec`, `N = 4`, `Callers = {2}`, `Framers = {3, 4}`, `MaxWords = 8` | `iret` restores no stack pointer (`idt2.asm:100`), so as soon as `th1` keeps its frame the returns of `krnl_sched` are off |
| `BspGetsThere` | `MCSmpBoot`, `FairSpec`, as `smp_start` | the BSP hangs (`madt.cpp:169`) |
| `BspNotReset` | `MCSmpBoot`, `Spec`, as `smp_start` | the BSP resets itself (`madt.cpp:149`) |

### Fairness

* `Scheduler`: weak fairness of the timer tick (the PIT keeps firing), of the boot
  steps, and strong fairness of a context's next step: a context gets the CPU again and
  again but only between ticks, and a tick is 55 ms long.
* `Heap`: strong fairness of each context's steps in `malloc()`: handlers interrupt it
  but do not run for ever.
* `SmpBoot`: weak fairness of every processor: each executes its instructions at its
  own speed.
* `AcpiEvents`: weak fairness of the start-up's instructions and of taking an interrupt
  whose line stays active, and of the ticks of the timer; strong fairness of the end of a
  wait (`Awake`). The loop `while (lai_read_pm_timer_value() < goal)` ends only at a read
  that meets a value from the goal to the wrap. With a goal at the very end of the range these
  are few values, and a processor whose reads kept step with the timer could miss them for
  ever; the assumption is that it does not. Without it TLC refutes `SetupEnds`. Nothing is assumed of the firmware or of the events.
* `LaiHashTable`: weak fairness of the walk: its caller goes on with it, between AML
  evaluations that end. Nothing is assumed of installations and removals.
* `LaiExec`: weak fairness of `lai_exec_process()`: the loop of `lai_exec_run()` waits
  for nothing.

## 4. Proofs

Theorems hold for every value of the constants that satisfies the `ASSUME`s of the
module and the hypotheses named here; the properties they state are also checked by TLC
on the runs above. `Spec` is used throughout: no theorem needs fairness.

**`SchedulerProofs`: `TypeCorrect`, `ReaperSafe`, `OneTaskRuns`** (`TypeOK`,
`NoUseAfterFree`, `OneRunning`), for any number of tasks and any sets of creators,
killers and exiters. `NoUseAfterFree` is not inductive: a creator that was interrupted
between finding the tail and linking writes to a node that may have been reaped, and a
link in the wrong place could cut the current task off the list. The invariant `IInv`
adds: idle is the root for ever and never reaped (`InvRoot`, `InvIdle`); no node has two
predecessors (`InvNext`); a struct under construction is known to its creator only
(`InvMakes`); walks stand on allocated structs (`InvWalks`); and a creator about to link
stands, if it and its tail are on the list, before that tail (`InvOrder`), so linking
never removes the running task. `OneRunning` follows by itself: `sched()` takes the mark
from the task it leaves, and reaping clears it. The module begins with the facts about linked
lists that this needs: reachability as the least closed set, and what linking, cutting and
appending at the tail do to it.

**`SchedulerProofs`, second part: `OwnContexts`, `NoTaskLost`, `PidsUnique`, `GoesRound`**
(`OwnContext`, `NoLostTask`, `UniquePids`, the safety part of `ImplementsRoundRobin`), for
any number of tasks, under hypotheses that describe the kernel's own use of the scheduler. `NoKills`: no entry point kills or makes system call
0, as in `krnl.cpp:33-60`; with kills `OwnContext` is false (section 6). `OneCreator`
(for the last three): `krnl_sched` is the only task that creates tasks and is not itself
created again, as in `krnl.cpp:33-44`; with two creators tasks get lost and pids are
shared. `sched_boot` satisfies both, so neither is vacuous. The invariants: each slot
holds the context of its owner, except that the first tick drops the context of
`Kernel::Main` (`InvOwner`); at most one context stands in `create_task()`, that of
`krnl_sched` (`InvRole`); every struct is on the list or is the one under construction,
and the tail that its creator has found is still the tail (`InvListed`); the pids on the
list are below `nextpid`, or below what it is about to become (`InvPids`). The step that
needs them is `CreateLink`, which keeps the whole list because the walk ended at the
tail and nobody else appends.

`GoesRound` is `Spec => RR!Safety`, the refinement of `RoundRobin` without its fairness.
The mapping orders the list by how many nodes a walk from a node still visits. As the one
creator links tasks in the order in which it has allocated them, the list is always
`1, 2, ..., k` (`InvInLine`), so the ring is that sequence (`LineIsRing`), `CreateLink`
and `sched_init` are `Join(k + 1)`, a tick is `FirstTurn` or `NextTurn`, and every other
step stutters.

**`HeapProofs`: `NoSharedMemory`, `NeverTheSameAddress`, `ChainSurvives`,
`OverrunBounded`, `OffTheImage`, `StrayOnce`, `TypesKept`** (`PayloadsDisjoint`,
`FreshPointers`, `HeadersSafe`, `OverrunBound`, `OffTheKernel`, `OneStray`, `TypeOK`), for every address width, memory
map, request sizes and any number of contexts and handlers. All but the last are under
the hypothesis `OneMallocer`: a single context calls `malloc()` (`heap_interrupt` shows
what happens otherwise). The invariant `HeapInv` says that what the walk has passed since
the last reset is a set of blocks laid end to end up to an address `top`, and that each
pointer handed out belongs to one of them at one of the two offsets; headers beyond `top`
or inside blocks, left by an earlier boot, do not count. Assumptions: `SizeAssumption`, a
step from the lower half of the address space does not wrap (requests below 73 MiB),
`MapAssumption`, `ContextAssumption`. Nothing is assumed of `Wild`, but the model ends when
a stray store hits a header or the kernel image. `StrayOnce` needs that a header, once
there at the first place, stays there: no owner's memory overlaps it (`FirstLinked`).

These theorems hold for any number of resets, but `OverrunBounded` and
`OffTheImage` say `resets <= 1 => ...`, and that is a limit of the code: with
`MaxResets = 2` TLC refutes `OverrunBound` in 37 states. The first reset comes between
the two writes of a header, so that the header has its signature and a size that was in
memory before; in the second boot, `free()` of a reused block, which looks 112 bytes
below a pointer that is 784 bytes behind its header, hits that header and marks it free;
the third boot hands it out as if it had that size. `HeapInv` therefore says of the time
before the second reset only that a header that the walk can meet, and every block that was
handed out, has a size that fits or is not free (`Fitted`), and what the first reset
leaves of this (`Kept`). The run has `MaxResets = 1`.

**`SmpBootProofs`: `CpuidNeverAhead`, `NoneRunsEarly`, `TypesKept`** (`CpuidLags`,
`ReleaseLast`, `TypeOK`), for every set of up to 256 processors and every table.
`cpuid <= aprunning` is not inductive, as an AP may store an old value late; `SmpInv`
bounds `cpuid` and every value in an AP's register by the number of APs that have
stored. That there are at most 255 APs gives that the byte `aprunning` does not wrap.

**`ContextSwitchProofs`: `OneStackUser`, `StackKept`** (`ReturnsToCaller`, `TypeOK`), for
any number of tasks and any stack, under the hypothesis `OneUser`: only one task uses the
stack while interrupts are enabled, as `krnl_sched` does before `th1` and `th2` keep a
frame. `StackInv`: while that task is suspended its two top words are in its saved
registers, the deeper ones on the stack, and `esp` is where it left it. Without the
hypothesis `esp` can leave the stack, so the type of `esp` needs it too.

**`AcpiEventsProofs`: `TypesKept`, `NoPressLost`, `PressServed`** (`TypeOK`, and two
properties stated there), for every set of machines, every number of polls, every range of
the timer and every length of a wait. They are
the safety half of `PressSwitchesOff`: a press that comes when its event is enabled stays
in the status register, on an active line and with `acpi_event()` installed, until an
interrupt takes it (`PressKept`), and the first interrupt taken then switches off where
the machine lets `acpi_event()` do so at all (`ServedAtOnce`). What is left to TLC is
that the interrupt is taken. The invariant is about the last two accesses of the
start-up: what it is about to clear was read before, so a press that came after that
read is not in it (`ArmedHolds`), and the firmware hands over only after the stub is
set (`Order`).

**`LaiHashTableProofs`: `TypesKept`, `TablesConsistent`, `NoPanic`, `Refinement`**
(`TypeOK`, `TablesAgree`, `NeverPanics`, `ImplementsLaiChildren`), for any set of nodes,
all names and hashes, and so for tables of every capacity. The invariant `TableInv` says
that the bucket table lists the used slots one to one, that the stored hashes are those
of the nodes, that one slot is always free, and that no two children have one name; as
a lookup goes through the whole bucket table, it need not say where an entry lies. A probe goes through all
buckets once (`ProbeFacts`), so an insertion into the table, which is half empty, ends.
Growing enters the used slots one after the other, a recursive function over a set;
that each of its results is a `Filled` table is shown by looking at the least slot at
which it is not, since an induction theorem would need an operator as a parameter.
`Refinement` is the whole of `LaiChildren`, which has no fairness: lookups and walks see
exactly the installed nodes, whatever is installed between two steps of a walk.

**`LaiFieldsProofs`: `ReadBack`, `PaddingKept`, `TypesKept`** (`ReadsAsWritten`,
`PaddingPreserved`, `TypeOK`), for fields of any number and size at any offset, plain,
indexed and banked, any values and any history of reads and writes, under the three
assumptions on the layout. Accesses of 64 bits are excluded because they reach half of a
word. `ReadBack` says that a field reads as what was last written to its `Live` positions and
as zero at the others: those in words of 32 bits that it fills read as zero and are not
written. The selecting registers must be live, since nothing is selected otherwise. The
arithmetic of 32 bits is in two lemmas: `PassNumbers` gives the bits that a pass handles, and
`Masks` what is left of them behind masks and shifts. The proof goes by bits. Whatever index and bank registers hold, a
read or write selects first, and then every position of the field is at its `Place`
(`SelectRegister`, `DataRegister`, `BankSelected`). A loop over words is a statement
about the bits of the words done so far (`ReadLoop`, `WriteLoop`), shown by looking at the
first pass that breaks it (`Induction`). So a read gives exactly the bits at the places of
the field (`ReadExact`) and disturbs selecting registers only; a write changes those and the
places of the words it covers (`WriteExact`). `ReadsAsWritten` speaks of what a read would
give; the inductive invariant `FieldsInv` has `Stored` instead, which compares `held` with
the hardware without reading it, and `HeldLive`, that `held` has live positions only.

**`LaiExecProofs`: `StacksInStep`** (`StacksAgree`), for every program, well-formed or not,
all calls and every capacity of the stacks, with no assumption about what operators,
declarations and methods of the host do to the memory. So whenever an item is processed
there is a context and a block: the assertions at `exec.c:1382-1383` and `1921-1922` cannot
fail, which no test of single statements shows, as a `Return` or `Break` leaves any number
of conditions and loops at once. Inside one action the stacks are out of step; the proof
follows them with `Ahead(s, c, b)`: c contexts and b blocks are on their stacks whose items
are not yet, or no longer, on the execution stack. Every helper of the model (`Push`, `Pop`,
`Reserve`, `lai_exec_commit_pc`, `Counted`, `Unnest`) has a lemma about it, and every action
begins and ends at `Ahead(s, 0, 0)` or ends the call. Two facts carry it: the jumps leave
nothing but conditions and loops above the loop or method that they look for
(`NestedFacts`), so as many blocks as items are popped and one context at most; and the item
at the bottom is a scope or a method (`Items_OK`), so an item is never without both.

Only model-checked, and why:

* Liveness under fairness (`EveryTaskRuns`, `CreateTerminates`, `MallocReturns`,
  `ApsArrive`, `PressSwitchesOff`, `SetupEnds`, `WalksEnd`, and that the ring of
  `ImplementsRoundRobin` keeps going round): out of the prover's reach.
* `EvaluatesItsCode`: `LaiEval` recurses over code (RECURSIVE operators, which the prover
  does not support), and the proof would be an induction over code.
* `LaiExec`'s `TypeOK` and `OperandsFit`: they hold of code that a compiler could have made
  only, so a proof needs what well-formed code is, by recursion over code.
* `ListsEveryName` and `MethodNodesGone`: declarations install several names with a fold
  over their fields, and what a fold does is an induction over data.

## 5. Plan

1. `GoesRound` for several creators: tasks that get lost apart, the ring is then no
   longer in the order of allocation, and the proof needs that linking at the tail
   changes the position of no other node.
2. What liveness rests on, as safety properties: that the walk of `malloc()` moves up with
   every step, and that a walk of `create_task()` visits no node twice.
3. `OverrunBound` from the third boot on: what junk sizes can at most do.
4. Models that are still worth writing: gates and masks of the PIC (vectors without a
   gate), and reference counts of AML objects.

## 6. Not modelled

* Code without a caller in this kernel: the file system layer, tmpfs, lists and maps,
  the spinlock, LAI's PCI, resource, BIOS table and embedded controller helpers,
  `lai_stop_pm_timer()`, overrides of regions and notifications.
* Pure input and output, and constants: port, PCI, serial and framebuffer accesses, the
  console, the GDT, the page tables, `ssfn.h` and `multiboot.h`; the formatting library,
  messages, and names and counters that nothing reads. The logger's lock is dropped by
  the compiler (`logging.cpp:25`), so it has no behavior to model.
* Of ACPI: the search for tables by signature, hardware-reduced machines, a second event
  block, `lai_disable_acpi()` and reset, and a power management timer that is neither behind
  a port nor in memory (its read panics, `timer.c:22`).
* Of the interpreter: `Load`, `Timer`, the reference counts of objects and their frees
  (an object of the model lives for ever), failed allocations, and AML that is malformed
  beyond what the panics catch. `acpi_event()` evaluates AML in a handler, possibly inside
  an evaluation that it has interrupted; there is one evaluation at a time in the model. A
  method that ends without `Return` panics when it is called as a later operand
  (`exec.c:1421`); `LaiEval` gives 0, and the programs of `lai_exec` do not do it.
* The contents of memory other than block headers and return addresses, so neither the
  damage done by the `memset` of a dead task's stack (`scheduler.cpp:44`), nor the AP
  stacks that `trampoline.S:40` places at an arbitrary address. After a reaping, the dead
  task's registers are saved into its successor (`scheduler.cpp:64`): the model does so
  too, which is why `OwnContext` is checked only without kills.
