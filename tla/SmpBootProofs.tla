---------------------------- MODULE SmpBootProofs ----------------------------
(***************************************************************************)
(* Proofs about SmpBoot, for every set of processors and every MADT.       *)
(*                                                                         *)
(* cpuid <= aprunning is not inductive: an AP that has loaded cpuid stores *)
(* an old value later.  The invariant bounds cpuid, and every value that   *)
(* an AP holds in a register, by the number of APs that have stored; the   *)
(* others in ap_startup() are counted in aprunning and have not stored.    *)
(***************************************************************************)
EXTENDS SmpBoot, FiniteSetTheorems, TLAPS

Stored == {c \in Aps : ap[c] = "halt"}

Waiting == {"off", "sipi", "spin"}

\* The BSP releases the APs after its loop, and they wait for it.
Phases ==
  /\ bspdone = 1 => pc \in {"read", "wait", "done"}
  /\ \A c \in Aps : ap[c] \notin Waiting => bspdone = 1
  /\ pc \in {"release", "read", "wait", "done"} => i = numcores
  /\ pc = "parse" => i = 0
  /\ madt = <<>> => lapic_ids = <<>>

Counts ==
  /\ aprunning = Cardinality(Counted)
  /\ cpuid <= Cardinality(Stored)
  /\ \A c \in Aps : ap[c] \in {"unlock", "store"} => eax[c] <= Cardinality(Stored)

SmpInv == TypeOK /\ Phases /\ Counts

-----------------------------------------------------------------------------
\* There are at most 255 APs, and every set of APs is finite.
LEMMA ApsFinite ==
  /\ IsFiniteSet(Aps) /\ Cardinality(Aps) \in 0 .. 255
  /\ \A S \in SUBSET Aps : /\ IsFiniteSet(S) /\ Cardinality(S) \in Nat
                           /\ Cardinality(S) <= Cardinality(Aps)
                           /\ S # Aps => Cardinality(S) < Cardinality(Aps)
<1>1. IsFiniteSet(0 .. 255) /\ Cardinality(0 .. 255) = 256
  <2>1. \A a, b \in Int : /\ IsFiniteSet(a .. b)
                          /\ Cardinality(a .. b) = IF a > b THEN 0 ELSE b - a + 1
    BY FS_Interval, Zenon
  <2>2. 0 \in Int /\ 255 \in Int
    OBVIOUS
  <2>3. /\ IsFiniteSet(0 .. 255)
        /\ Cardinality(0 .. 255) = IF 0 > 255 THEN 0 ELSE 255 - 0 + 1
    BY <2>1, <2>2, Zenon
  <2> QED
    BY <2>3
<1>2. IsFiniteSet(Cpus) /\ Cardinality(Cpus) <= 256 /\ Cardinality(Cpus) \in Nat
  <2>1. IsFiniteSet(Cpus) /\ Cardinality(Cpus) <= Cardinality(0 .. 255)
    BY <1>1, CpuAssumption, FS_Subset
  <2> QED
    BY <1>1, <2>1, FS_CardinalityType
<1>3. IsFiniteSet(Aps) /\ Cardinality(Aps) = Cardinality(Cpus) - 1
  BY <1>2, CpuAssumption, FS_RemoveElement DEF Aps
<1>4. Cardinality(Aps) \in Nat
  BY <1>3, FS_CardinalityType
<1>5. \A S \in SUBSET Aps : /\ IsFiniteSet(S) /\ Cardinality(S) \in Nat
                            /\ Cardinality(S) <= Cardinality(Aps)
                            /\ S # Aps => Cardinality(S) < Cardinality(Aps)
  BY <1>3, FS_Subset, FS_CardinalityType
<1> QED
  BY <1>2, <1>3, <1>4, <1>5

\* Adding an AP to a set of APs.
LEMMA OneMore ==
  ASSUME NEW S \in SUBSET Aps, NEW c \in Aps, c \notin S
  PROVE  /\ Cardinality(S \cup {c}) = Cardinality(S) + 1
         /\ Cardinality(S) \in 0 .. 254
<1>1. IsFiniteSet(S) /\ S # Aps
  BY ApsFinite
<1>2. Cardinality(S \cup {c}) = Cardinality(S) + 1
  BY <1>1, FS_AddElement
<1> QED
  BY <1>1, <1>2, ApsFinite

\* A larger set of APs has at least as many members.
LEMMA Monotone ==
  ASSUME NEW S \in SUBSET Aps, NEW T \in SUBSET Aps, S \subseteq T
  PROVE  Cardinality(S) <= Cardinality(T) /\ Cardinality(S) \in Nat /\ Cardinality(T) \in Nat
  BY ApsFinite, FS_Subset

\* Nothing runs at first.
LEMMA InitInv == Init => SmpInv
<1> SUFFICES ASSUME Init PROVE SmpInv
  OBVIOUS
<1>1. Counted = {} /\ Stored = {} /\ Cardinality({}) = 0
  BY FS_EmptySet DEF Init, Counted, Stored
<1>2. madt \in Seq(Record) /\ lapic_ids \in Seq(0 .. 255) /\ Len(lapic_ids) = 0
  <2>1. <<>> \in Seq(Record) /\ <<>> \in Seq(0 .. 255) /\ Len(<<>>) = 0
    OBVIOUS
  <2>2. madt \in Seq(Record)
    BY <2>1, MadtAssumption DEF Init
  <2> QED
    BY <2>1, <2>2 DEF Init
<1>3. /\ ap \in [Aps -> ApLabels] /\ eax \in [Aps -> Nat]
      /\ pc \in BspLabels
      /\ p \in Nat /\ i \in Nat /\ seen \in Nat /\ cpuid \in Nat
      /\ bspdone \in {0, 1} /\ aprunning \in 0 .. 255
  BY DEF Init, BspLabels, ApLabels
<1>4. bsp_l \in BOOLEAN
  BY Zenon DEF Init
<1>5. TypeOK
  BY <1>2, <1>3, <1>4, CapacityAssumption DEF TypeOK
<1> QED
  BY <1>1, <1>2, <1>5 DEF SmpInv, Phases, Counts, Init, Waiting, numcores

\* Steps of the BSP leave the counters alone: it resets waiting APs only.
LEMMA BspInv ==
  ASSUME SmpInv, BspStep
  PROVE  SmpInv'
<1>1. UNCHANGED <<madt, aprunning, cpuid, bsp_l, eax>>
  BY DEF BspStep, NoMadt, ParseRecord, ParseEnd, LoopTest, SendInit, Delay,
     SendStartup, Release, ReadCpuid, WaitTest
<1>2. /\ ap' \in [Aps -> ApLabels]
      /\ \A c \in Aps : ap'[c] = ap[c] \/ (ap[c] \in Waiting /\ ap'[c] \in Waiting)
  <2>1. CASE SendInit
    <3>1. pc = "init" /\ bspdone = 0
      BY <2>1 DEF SendInit, SmpInv, Phases, TypeOK
    <3>2. \A c \in Aps : ap[c] \in Waiting
      BY <3>1 DEF SmpInv, Phases
    <3> QED
      BY <2>1, <3>2 DEF SendInit, SmpInv, TypeOK, ApLabels, Waiting
  <2>2. CASE SendStartup
    BY <2>2 DEF SendStartup, SmpInv, TypeOK, ApLabels, Waiting
  <2>3. CASE ~SendInit /\ ~SendStartup
    BY <2>3 DEF BspStep, NoMadt, ParseRecord, ParseEnd, LoopTest, Delay, Release,
       ReadCpuid, WaitTest, SmpInv, TypeOK
  <2> QED
    BY <2>1, <2>2, <2>3
<1>3. Counted' = Counted /\ Stored' = Stored
  BY <1>2 DEF Counted, Stored, Waiting
<1>4. Counts'
  BY <1>1, <1>2, <1>3 DEF SmpInv, Counts, Waiting
<1>5. TypeOK'
  <2>1. lapic_ids' \in Seq(0 .. 255) /\ Len(lapic_ids') <= Capacity /\ p' \in Nat
    <3>1. CASE ParseRecord
      <4>1. madt[p + 1] \in Record /\ p' \in Nat
        BY <3>1 DEF ParseRecord, SmpInv, TypeOK
      <4>2. madt[p + 1].apic_id \in 0 .. 255
        BY <4>1 DEF Record
      <4>3. /\ lapic_ids \in Seq(0 .. 255) /\ Len(lapic_ids) <= Capacity
            /\ Len(lapic_ids) \in Nat
        BY DEF SmpInv, TypeOK
      <4>4. CASE lapic_ids' = lapic_ids
        BY <4>1, <4>3, <4>4
      <4>5. CASE /\ Len(lapic_ids) < Capacity
                 /\ lapic_ids' = Append(lapic_ids, madt[p + 1].apic_id)
        <5>1. /\ lapic_ids' \in Seq(0 .. 255)
              /\ Len(lapic_ids') = Len(lapic_ids) + 1
          BY <4>2, <4>3, <4>5
        <5> QED
          BY <4>1, <4>3, <4>5, <5>1, CapacityAssumption
      <4> QED
        BY <3>1, <4>4, <4>5 DEF ParseRecord
    <3>2. CASE ~ParseRecord
      BY <3>2 DEF BspStep, NoMadt, ParseEnd, LoopTest, SendInit, Delay, SendStartup,
         Release, ReadCpuid, WaitTest, SmpInv, TypeOK
    <3> QED
      BY <3>1, <3>2
  <2>2. pc' \in BspLabels /\ i' \in Nat /\ seen' \in Nat /\ bspdone' \in {0, 1}
    BY DEF BspStep, NoMadt, ParseRecord, ParseEnd, LoopTest, SendInit, Delay,
       SendStartup, Release, ReadCpuid, WaitTest, SmpInv, TypeOK, BspLabels
  <2> QED
    BY <1>1, <1>2, <2>1, <2>2 DEF SmpInv, TypeOK
<1>6. Phases'
  <2>1. /\ bspdone' = 1 => pc' \in {"read", "wait", "done"}
        /\ \A c \in Aps : ap'[c] \notin Waiting => bspdone' = 1
    BY <1>2 DEF BspStep, NoMadt, ParseRecord, ParseEnd, LoopTest, SendInit, Delay,
       SendStartup, Release, ReadCpuid, WaitTest, SmpInv, Phases, TypeOK
  <2>2. madt' = <<>> => lapic_ids' = <<>>
    BY <1>1 DEF BspStep, NoMadt, ParseRecord, ParseEnd, LoopTest, SendInit, Delay,
       SendStartup, Release, ReadCpuid, WaitTest, SmpInv, Phases, TypeOK
  <2>3. pc' \in {"release", "read", "wait", "done"} => i' = numcores'
    <3>1. CASE NoMadt
      BY <3>1 DEF NoMadt, SmpInv, Phases, numcores
    <3>2. CASE ~NoMadt
      BY <3>2 DEF BspStep, ParseRecord, ParseEnd, LoopTest, SendInit, Delay,
         SendStartup, Release, ReadCpuid, WaitTest, SmpInv, Phases, numcores
    <3> QED
      BY <3>1, <3>2
  <2>4. pc' = "parse" => i' = 0
    BY DEF BspStep, NoMadt, ParseRecord, ParseEnd, LoopTest, SendInit, Delay,
       SendStartup, Release, ReadCpuid, WaitTest, SmpInv, Phases
  <2> QED
    BY <2>1, <2>2, <2>3, <2>4 DEF Phases
<1> QED
  BY <1>4, <1>5, <1>6 DEF SmpInv

\* What the steps of an AP have in common: the BSP's state stays, and the AP
\* moves on from a label where it was released.
LEMMA ApMoves ==
  ASSUME SmpInv, NEW c \in Aps, ApNext(c)
  PROVE  /\ UNCHANGED bspVars
         /\ ap' \in [Aps -> ApLabels] /\ ap'[c] \notin Waiting
         /\ \A d \in Aps \ {c} : ap'[d] = ap[d]
         /\ bspdone = 1
<1>1. UNCHANGED bspVars
  BY DEF ApNext, ApReleased, ApCount, bsp_lock, CpuidLoad, bsp_unlock, CpuidStore
<1>2. \E to \in ApLabels \ Waiting : ap' = [ap EXCEPT ![c] = to]
  BY DEF ApNext, ApReleased, ApCount, bsp_lock, CpuidLoad, bsp_unlock,
     CpuidStore, ApStep, ApLabels, Waiting
<1>3. /\ ap' \in [Aps -> ApLabels] /\ ap'[c] \notin Waiting
      /\ \A d \in Aps \ {c} : ap'[d] = ap[d]
  BY <1>2 DEF SmpInv, TypeOK
<1>4. bspdone = 1
  BY DEF ApNext, ApReleased, ApCount, bsp_lock, CpuidLoad, bsp_unlock,
     CpuidStore, ApStep, Waiting, SmpInv, Phases, TypeOK
<1> QED
  BY <1>1, <1>3, <1>4

\* An AP counts itself once in aprunning, which 255 APs do not overflow, and
\* stores once in cpuid.
LEMMA ApInv ==
  ASSUME SmpInv, NEW c \in Aps, ApNext(c)
  PROVE  SmpInv'
<1>1. /\ UNCHANGED bspVars
      /\ ap' \in [Aps -> ApLabels] /\ ap'[c] \notin Waiting
      /\ \A d \in Aps \ {c} : ap'[d] = ap[d]
      /\ bspdone = 1
  BY ApMoves
<1>2. Phases'
  BY <1>1 DEF bspVars, SmpInv, Phases, numcores
<1>3. TypeOK
  BY DEF SmpInv
<1>4. Counted \in SUBSET Aps /\ Stored \in SUBSET Aps
  BY DEF Counted, Stored
<1>5. Cardinality(Stored) \in Nat
  BY <1>4, ApsFinite
<1>6. Counts
  BY DEF SmpInv
<1>7. CASE ApReleased(c) \/ bsp_lock(c) \/ bsp_unlock(c)
  <2>1. Counted' = Counted /\ Stored' = Stored
    BY <1>1, <1>3, <1>7 DEF ApReleased, bsp_lock, bsp_unlock, ApStep, Counted,
       Stored, TypeOK
  <2>2. UNCHANGED <<aprunning, cpuid, eax>> /\ bsp_l' \in BOOLEAN
    BY <1>3, <1>7 DEF ApReleased, bsp_lock, bsp_unlock, TypeOK
  <2>3. \A d \in Aps : ap'[d] \in {"unlock", "store"} => ap[d] \in {"unlock", "store"}
    BY <1>1, <1>3, <1>7 DEF ApReleased, bsp_lock, bsp_unlock, ApStep, TypeOK
  <2>4. Counts'
    BY <1>6, <2>1, <2>2, <2>3 DEF Counts
  <2>5. TypeOK'
    BY <1>1, <1>3, <2>2 DEF TypeOK, bspVars
  <2> QED
    BY <1>2, <2>4, <2>5 DEF SmpInv
<1>8. CASE ApCount(c)
  <2>1. Counted' = Counted \cup {c} /\ Stored' = Stored /\ c \notin Counted
    BY <1>1, <1>3, <1>8 DEF ApCount, ApStep, Counted, Stored, TypeOK
  <2>2. /\ Cardinality(Counted') = Cardinality(Counted) + 1
        /\ Cardinality(Counted) \in 0 .. 254
    BY <1>4, <2>1, OneMore
  <2>3. aprunning' = Cardinality(Counted') /\ aprunning' \in 0 .. 255
    BY <1>6, <1>8, <2>2 DEF ApCount, Counts
  <2>4. UNCHANGED <<cpuid, eax, bsp_l>>
    BY <1>8 DEF ApCount
  <2>5. \A d \in Aps : ap'[d] \in {"unlock", "store"} => ap[d] \in {"unlock", "store"}
    BY <1>1, <1>3, <1>8 DEF ApCount, ApStep, TypeOK
  <2>6. Counts'
    BY <1>6, <2>1, <2>3, <2>4, <2>5 DEF Counts
  <2>7. TypeOK'
    BY <1>1, <1>3, <2>3, <2>4 DEF TypeOK, bspVars
  <2> QED
    BY <1>2, <2>6, <2>7 DEF SmpInv
<1>9. CASE CpuidLoad(c)
  <2>1. Counted' = Counted /\ Stored' = Stored
    BY <1>1, <1>3, <1>9 DEF CpuidLoad, ApStep, Counted, Stored, TypeOK
  <2>2. /\ eax' \in [Aps -> Nat] /\ eax'[c] = cpuid
        /\ \A d \in Aps \ {c} : eax'[d] = eax[d]
    BY <1>3, <1>9 DEF CpuidLoad, TypeOK
  <2>3. UNCHANGED <<aprunning, cpuid, bsp_l>>
    BY <1>9 DEF CpuidLoad
  <2>4. Counts'
    BY <1>1, <1>6, <2>1, <2>2, <2>3 DEF Counts
  <2>5. TypeOK'
    BY <1>1, <1>3, <2>2, <2>3 DEF TypeOK, bspVars
  <2> QED
    BY <1>2, <2>4, <2>5 DEF SmpInv
<1>10. CASE CpuidStore(c)
  <2>1. Counted' = Counted /\ Stored' = Stored \cup {c} /\ c \notin Stored
    BY <1>1, <1>3, <1>10 DEF CpuidStore, ApStep, Counted, Stored, TypeOK
  <2>2. Cardinality(Stored') = Cardinality(Stored) + 1
    BY <1>4, <2>1, OneMore
  <2>3. UNCHANGED <<aprunning, eax, bsp_l>> /\ cpuid' = eax[c] + 1
    BY <1>10 DEF CpuidStore
  <2>4. eax[c] <= Cardinality(Stored) /\ eax[c] \in Nat
    BY <1>3, <1>6, <1>10 DEF CpuidStore, ApStep, Counts, TypeOK
  <2>5. cpuid' <= Cardinality(Stored') /\ cpuid' \in Nat
    BY <1>5, <2>2, <2>3, <2>4
  <2>6. \A d \in Aps : ap'[d] \in {"unlock", "store"} =>
          eax[d] <= Cardinality(Stored) /\ eax[d] \in Nat
    BY <1>1, <1>3, <1>6, <1>10 DEF CpuidStore, ApStep, Counts, TypeOK
  <2>7. \A d \in Aps : ap'[d] \in {"unlock", "store"} => eax'[d] <= Cardinality(Stored')
    BY <1>5, <2>2, <2>3, <2>6
  <2>8. Counts'
    BY <1>6, <2>1, <2>3, <2>5, <2>7 DEF Counts
  <2>9. TypeOK'
    BY <1>1, <1>3, <2>3, <2>5 DEF TypeOK, bspVars
  <2> QED
    BY <1>2, <2>8, <2>9 DEF SmpInv
<1> QED
  BY <1>7, <1>8, <1>9, <1>10 DEF ApNext

-----------------------------------------------------------------------------
\* The invariant holds in every reachable state, and implies what is claimed.
LEMMA Invariance == Spec => []SmpInv
<1>1. SmpInv /\ [Next]_vars => SmpInv'
  <2> SUFFICES ASSUME SmpInv, [Next]_vars PROVE SmpInv'
    OBVIOUS
  <2>1. CASE BspStep
    BY <2>1, BspInv
  <2>2. CASE \E c \in Aps : ApNext(c)
    BY <2>2, ApInv
  <2>3. CASE UNCHANGED vars
    BY <2>3 DEF vars, SmpInv, TypeOK, Phases, Counts, Counted, Stored, numcores
  <2> QED
    BY <2>1, <2>2, <2>3 DEF Next
<1> QED
  BY InitInv, <1>1, PTL DEF Spec

(***************************************************************************)
(* aprunning counts the APs that run the kernel exactly, without ever      *)
(* wrapping, and cpuid never passes it although increments of cpuid get    *)
(* lost, for every machine of up to 256 processors and every MADT.         *)
(***************************************************************************)
THEOREM CpuidNeverAhead == Spec => []CpuidLags
<1>1. SmpInv => CpuidLags
  <2> SUFFICES ASSUME SmpInv PROVE CpuidLags
    OBVIOUS
  <2>1. /\ Counted \in SUBSET Aps /\ Stored \in SUBSET Aps
        /\ Stored \subseteq Counted
    BY DEF Counted, Stored
  <2>2. /\ Cardinality(Stored) <= Cardinality(Counted)
        /\ Cardinality(Stored) \in Nat /\ Cardinality(Counted) \in Nat
    BY <2>1, Monotone
  <2> QED
    BY <2>2 DEF SmpInv, TypeOK, Counts, CpuidLags
<1> QED
  BY Invariance, <1>1, PTL

(***************************************************************************)
(* An AP leaves the spin loop of the trampoline only when the BSP has sent *)
(* the last INIT: no AP is reset while it runs kernel code, for every      *)
(* machine and every MADT.                                                 *)
(***************************************************************************)
THEOREM NoneRunsEarly == Spec => []ReleaseLast
<1>1. SmpInv => ReleaseLast
  BY DEF SmpInv, Phases, ReleaseLast, Waiting
<1> QED
  BY Invariance, <1>1, PTL

(***************************************************************************)
(* The counters stay in their ranges and every processor in a known place, *)
(* for every machine and every MADT: aprunning, a byte, holds the number   *)
(* of all APs.                                                             *)
(***************************************************************************)
THEOREM TypesKept == Spec => []TypeOK
<1>1. SmpInv => TypeOK
  BY DEF SmpInv
<1> QED
  BY Invariance, <1>1, PTL

==============================================================================
