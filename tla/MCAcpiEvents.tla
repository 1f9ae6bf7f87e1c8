---------------------------- MODULE MCAcpiEvents ----------------------------
(* AcpiEvents on all kinds of machines.                                    *)
EXTENDS AcpiEvents

Machines_ == Machine
=============================================================================
