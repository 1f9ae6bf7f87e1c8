-------------------------------- MODULE MCHeap --------------------------------
(***************************************************************************)
(* Instances of Heap: a 64 KiB address space with the true struct sizes.   *)
(***************************************************************************)
EXTENDS Heap

Usual(addr, len) ==
  << [addr |-> 0, len |-> 640, type |-> 1],
     [addr |-> 1024, len |-> 1024, type |-> 2],
     [addr |-> addr, len |-> len, type |-> 1] >>

\* The kernel at the start of the largest region; a larger region behind the
\* kernel's that crosses the middle of the address space; one beyond it.
MCMaps ==
  { Usual(4096, 3000),
    Append(Usual(4096, 2000), [addr |-> 31000, len |-> 4000, type |-> 1]),
    Append(Usual(4096, 2000), [addr |-> 96000, len |-> 4000, type |-> 1]) }

OneMap == { Usual(4096, 3000) }
==============================================================================
