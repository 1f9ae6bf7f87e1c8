------------------------------- MODULE MCSmpBoot -------------------------------
(***************************************************************************)
(* Instances of SmpBoot: firmware tables for a machine of four processors. *)
(***************************************************************************)
EXTENDS SmpBoot

Cpu(id) == [type |-> LAPIC, apic_id |-> id]
Io == [type |-> IOAPIC, apic_id |-> 9]

\* APIC ids equal to the position in the table, as emulators provide them.
InOrder == << Cpu(0), Cpu(1), Io, Cpu(2), Cpu(3) >>

\* An absent processor listed; the BSP listed last; too few entries; more than the array
\* has room for.
MCMadts == { InOrder, << Cpu(0), Cpu(1), Cpu(7), Cpu(3) >>,
             << Cpu(1), Cpu(2), Cpu(0) >>, << Cpu(0), Cpu(3) >>,
             << Cpu(0), Cpu(1), Cpu(2), Cpu(3), Cpu(7) >> }

==============================================================================
