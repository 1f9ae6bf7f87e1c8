-------------------------------- MODULE SmpBoot --------------------------------
(***************************************************************************)
(* The start of the application processors (APs): madt_setup() and         *)
(* ap_startup() of base/other/madt.cpp, and base/other/trampoline.S.       *)
(*                                                                         *)
(* The variables bsp_l and cpuid are shared without synchronisation.  The  *)
(* model takes what the compiler made of that: ap_startup() reads bsp_l    *)
(* once and never stores true in it, cpuid++ is a load and a store, and    *)
(* madt_setup() reads cpuid once before its last loop.  A processor is     *)
(* named by its local APIC id; the local APIC is external.                 *)
(***************************************************************************)
EXTENDS Integers, FiniteSets, Sequences

CONSTANTS
  Cpus,    \* the APIC ids of the processors of the machine
  Bsp,     \* the one that runs the kernel
  Madts,   \* the MADTs the firmware may provide: sequences of records
  Capacity \* the size of the array lapic_ids: 256

LAPIC == 0   \* APIC_TYPE_LOCAL_APIC
IOAPIC == 1  \* APIC_TYPE_IO_APIC

Record == [type : {LAPIC, IOAPIC}, apic_id : 0 .. 255]

\* APIC ids are bytes.
ASSUME CpuAssumption == Cpus \subseteq 0 .. 255 /\ Bsp \in Cpus

ASSUME MadtAssumption == \A m \in Madts : m \in Seq(Record)

ASSUME CapacityAssumption == Capacity \in Nat

VARIABLES
  madt,       \* the MADT, or the empty sequence when there is none
  p,          \* number of records parsed
  lapic_ids,  \* the APIC ids found
  i,          \* index of the processor being started, from 0
  pc,         \* where the BSP stands in madt_setup()
  seen,       \* the value of cpuid that the BSP has read
  bspdone, aprunning, cpuid, bsp_l,
  ap,         \* where each processor but the BSP stands
  eax         \* the value of cpuid that an AP has loaded

vars == <<madt, p, lapic_ids, i, pc, seen, bspdone, aprunning, cpuid, bsp_l,
          ap, eax>>
bspVars == <<madt, p, lapic_ids, i, pc, seen, bspdone>>

Aps == Cpus \ {Bsp}

BspLabels == {"parse", "loop", "init", "delay", "startup", "release", "read",
              "wait", "done", "reset", "overrun"}
ApLabels == {"off", "sipi", "spin", "enter", "lock", "load", "unlock", "store",
             "halt"}

Init ==
  /\ madt \in Madts \cup {<<>>}
  /\ p = 0 /\ lapic_ids = <<>> /\ i = 0
  /\ pc = "parse"
  /\ seen = 0
  /\ bspdone = 0 /\ aprunning = 0 /\ cpuid = 0 /\ bsp_l = FALSE
  /\ ap = [c \in Aps |-> "off"]
  /\ eax = [c \in Aps |-> 0]

-----------------------------------------------------------------------------
(***************************************************************************)
(* madt_setup() on the BSP.                                                *)
(***************************************************************************)
NoMadt ==
  /\ pc = "parse" /\ madt = <<>>
  /\ pc' = "done"
  /\ UNCHANGED <<madt, p, lapic_ids, i, seen, bspdone, aprunning, cpuid, bsp_l,
                 ap, eax>>

\* Nothing keeps the BSP from storing behind the array; what comes of it is undefined, and
\* the model ends.
ParseRecord ==
  /\ pc = "parse" /\ p < Len(madt)
  /\ p' = p + 1
  /\ \/ madt[p + 1].type # LAPIC /\ UNCHANGED <<lapic_ids, pc>>
     \/ /\ madt[p + 1].type = LAPIC /\ Len(lapic_ids) < Capacity
        /\ lapic_ids' = Append(lapic_ids, madt[p + 1].apic_id) /\ pc' = pc
     \/ /\ madt[p + 1].type = LAPIC /\ Len(lapic_ids) >= Capacity
        /\ lapic_ids' = lapic_ids /\ pc' = "overrun"
  /\ UNCHANGED <<madt, i, seen, bspdone, aprunning, cpuid, bsp_l, ap, eax>>

ParseEnd ==
  /\ pc = "parse" /\ madt # <<>> /\ p = Len(madt)
  /\ pc' = "loop"
  /\ UNCHANGED <<madt, p, lapic_ids, i, seen, bspdone, aprunning, cpuid, bsp_l,
                 ap, eax>>

numcores == Len(lapic_ids)

\* Variant: bspdone is set before the loop.
LoopTest_EarlyRelease ==
  /\ pc = "loop"
  /\ \/ i = numcores /\ pc' = "release" /\ i' = i /\ bspdone' = bspdone
     \/ /\ i < numcores /\ lapic_ids[i + 1] = Bsp
        /\ pc' = pc /\ i' = i + 1 /\ bspdone' = 1
     \/ /\ i < numcores /\ lapic_ids[i + 1] # Bsp
        /\ pc' = "init" /\ i' = i /\ bspdone' = 1
  /\ UNCHANGED <<madt, p, lapic_ids, seen, aprunning, cpuid, bsp_l, ap, eax>>

LoopTest ==
  /\ pc = "loop"
  /\ \/ i = numcores /\ pc' = "release" /\ i' = i
     \/ i < numcores /\ lapic_ids[i + 1] = Bsp /\ pc' = pc /\ i' = i + 1
     \/ i < numcores /\ lapic_ids[i + 1] # Bsp /\ pc' = "init" /\ i' = i
  /\ UNCHANGED <<madt, p, lapic_ids, seen, bspdone, aprunning, cpuid, bsp_l,
                 ap, eax>>

(***************************************************************************)
(* The destination written to the interrupt command register is the low    *)
(* byte of i (i << 24), not lapic_ids[i].  An INIT resets the processor, and a STARTUP is taken by  *)
(* one that waits for it; an absent processor takes nothing.               *)
(***************************************************************************)
Target == i % 256

SendInit ==
  /\ pc = "init"
  /\ pc' = IF Target = Bsp THEN "reset" ELSE "delay"
  /\ ap' = [c \in Aps |-> IF c = Target THEN "sipi" ELSE ap[c]]
  /\ UNCHANGED <<madt, p, lapic_ids, i, seen, bspdone, aprunning, cpuid, bsp_l,
                 eax>>

\* lai_busy_wait_pm_timer(10), which returns, if only because it does not wait (AcpiEvents).
Delay ==
  /\ pc = "delay"
  /\ pc' = "startup"
  /\ UNCHANGED <<madt, p, lapic_ids, i, seen, bspdone, aprunning, cpuid, bsp_l,
                 ap, eax>>

\* Variant: the processor enters the trampoline behind its spin loop.
SendStartup_NoSpin ==
  /\ pc = "startup"
  /\ pc' = "loop" /\ i' = i + 1
  /\ ap' = [c \in Aps |-> IF c = Target /\ ap[c] = "sipi" THEN "enter" ELSE ap[c]]
  /\ UNCHANGED <<madt, p, lapic_ids, seen, bspdone, aprunning, cpuid, bsp_l, eax>>

\* Sent twice: the second one finds the processor running.
SendStartup ==
  /\ pc = "startup"
  /\ pc' = "loop" /\ i' = i + 1
  /\ ap' = [c \in Aps |-> IF c = Target /\ ap[c] = "sipi" THEN "spin" ELSE ap[c]]
  /\ UNCHANGED <<madt, p, lapic_ids, seen, bspdone, aprunning, cpuid, bsp_l, eax>>

Release ==
  /\ pc = "release"
  /\ pc' = "read"
  /\ bspdone' = 1
  /\ UNCHANGED <<madt, p, lapic_ids, i, seen, aprunning, cpuid, bsp_l, ap, eax>>

ReadCpuid ==
  /\ pc = "read"
  /\ pc' = "wait"
  /\ seen' = cpuid
  /\ UNCHANGED <<madt, p, lapic_ids, i, bspdone, aprunning, cpuid, bsp_l, ap, eax>>

\* while (cpuid < aprunning), with cpuid in a register.
WaitTest ==
  /\ pc = "wait" /\ ~(seen < aprunning)
  /\ pc' = "done"
  /\ UNCHANGED <<madt, p, lapic_ids, i, seen, bspdone, aprunning, cpuid, bsp_l,
                 ap, eax>>

BspStep ==
  \/ NoMadt \/ ParseRecord \/ ParseEnd \/ LoopTest
  \/ SendInit \/ Delay \/ SendStartup \/ Release \/ ReadCpuid \/ WaitTest

-----------------------------------------------------------------------------
(***************************************************************************)
(* The trampoline and ap_startup() on processor c.                         *)
(***************************************************************************)
ApStep(c, from, to) == ap[c] = from /\ ap' = [ap EXCEPT ![c] = to]

ApReleased(c) ==
  /\ ApStep(c, "spin", "enter") /\ bspdone # 0
  /\ UNCHANGED <<bspVars, aprunning, cpuid, bsp_l, eax>>

\* lock incb
ApCount(c) ==
  /\ ApStep(c, "enter", "lock")
  /\ aprunning' = (aprunning + 1) % 256
  /\ UNCHANGED <<bspVars, cpuid, bsp_l, eax>>

\* while (bsp_l), tested once: a processor that sees true spins for good.
bsp_lock(c) ==
  /\ ApStep(c, "lock", "load") /\ ~bsp_l
  /\ UNCHANGED <<bspVars, aprunning, cpuid, bsp_l, eax>>

CpuidLoad(c) ==
  /\ ApStep(c, "load", "unlock")
  /\ eax' = [eax EXCEPT ![c] = cpuid]
  /\ UNCHANGED <<bspVars, aprunning, cpuid, bsp_l>>

\* Variant: the lock is left held.
bsp_unlock_Held(c) ==
  /\ ApStep(c, "unlock", "store")
  /\ bsp_l' = TRUE
  /\ UNCHANGED <<bspVars, aprunning, cpuid, eax>>

bsp_unlock(c) ==
  /\ ApStep(c, "unlock", "store")
  /\ bsp_l' = FALSE
  /\ UNCHANGED <<bspVars, aprunning, cpuid, eax>>

\* Variant: the slots are handed out downwards.
CpuidStore_Down(c) ==
  /\ ApStep(c, "store", "halt")
  /\ cpuid' = eax[c] - 1
  /\ UNCHANGED <<bspVars, aprunning, bsp_l, eax>>

\* Variant: the increment applied once more.
CpuidStore_Twice(c) ==
  /\ ApStep(c, "store", "halt")
  /\ cpuid' = eax[c] + 2
  /\ UNCHANGED <<bspVars, aprunning, bsp_l, eax>>

CpuidStore(c) ==
  /\ ApStep(c, "store", "halt")
  /\ cpuid' = eax[c] + 1
  /\ UNCHANGED <<bspVars, aprunning, bsp_l, eax>>

ApNext(c) ==
  \/ ApReleased(c) \/ ApCount(c) \/ bsp_lock(c)
  \/ CpuidLoad(c) \/ bsp_unlock(c) \/ CpuidStore(c)

Next == BspStep \/ \E c \in Aps : ApNext(c)

Spec == Init /\ [][Next]_vars

(***************************************************************************)
(* Every processor executes its instructions at some speed of its own.     *)
(***************************************************************************)
Fairness == WF_vars(BspStep) /\ \A c \in Aps : WF_vars(ApNext(c))

FairSpec == Spec /\ Fairness

-----------------------------------------------------------------------------
\* Counters are natural numbers, aprunning is a byte, and lapic_ids is an array.
TypeOK ==
  /\ madt \in Seq(Record)
  /\ p \in Nat /\ i \in Nat
  /\ lapic_ids \in Seq(0 .. 255) /\ Len(lapic_ids) <= Capacity
  /\ pc \in BspLabels
  /\ seen \in Nat /\ cpuid \in Nat
  /\ bspdone \in {0, 1} /\ aprunning \in 0 .. 255
  /\ bsp_l \in BOOLEAN
  /\ ap \in [Aps -> ApLabels]
  /\ eax \in [Aps -> Nat]

\* The processors that have counted themselves in aprunning.
Counted == {c \in Aps : ap[c] \in {"lock", "load", "unlock", "store", "halt"}}

(***************************************************************************)
(* cpuid lags behind aprunning, whatever increments of cpuid get lost, and *)
(* aprunning is exact: the loop of madt_setup() that waits for the two to  *)
(* meet waits for a real condition.                                        *)
(***************************************************************************)
CpuidLags == cpuid <= aprunning /\ aprunning = Cardinality(Counted)

(***************************************************************************)
(* No processor runs kernel code before the BSP has started them all, so   *)
(* none is reset in the middle of it.                                      *)
(***************************************************************************)
ReleaseLast ==
  \A c \in Aps : ap[c] \notin {"off", "sipi", "spin"} =>
    pc \in {"read", "wait", "done"} /\ i = numcores

(***************************************************************************)
(* Every started processor reaches the end of ap_startup() once the BSP    *)
(* has released them.                                                      *)
(***************************************************************************)
ApsArrive ==
  \A c \in Aps : ap[c] = "spin" /\ bspdone = 1 ~> ap[c] = "halt"

(***************************************************************************)
(* madt.cpp:168, "now you'll have the number of running APs in             *)
(* 'aprunning'": the BSP gets to the point where it has the number.  The   *)
(* code breaks this (README, deviations).                                  *)
(***************************************************************************)
BspGetsThere == <>(pc = "done")

(***************************************************************************)
(* madt.cpp:145, "do not start BSP, that's already running this code".     *)
(* The code breaks this (README, deviations).                              *)
(***************************************************************************)
BspNotReset == pc # "reset"

==============================================================================
