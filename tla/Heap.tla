--------------------------------- MODULE Heap ---------------------------------
(***************************************************************************)
(* The kernel heap of base/memory/malloc.cpp: a chain of block headers     *)
(* laid over the largest region of the memory map.                         *)
(*                                                                         *)
(* An execution context is a flow of control that an interrupt can cut     *)
(* between two accesses to memory; a handler runs until it is idle again.  *)
(* A header counts when its signature is in memory, so memory is the       *)
(* partial function hdr from the addresses with a signature to what the    *)
(* header says; it survives a reset of the machine.  The fields id, prev   *)
(* and next are written and never read; but next is written through the    *)
(* local prev of malloc(), which has no value for the first block of a     *)
(* boot: that store goes anywhere.                                         *)
(***************************************************************************)
EXTENDS Integers, Sequences, Functions

CONSTANTS
  Word,          \* 2^32: addresses are computed modulo Word
  KernelStart,   \* kernel_start and kernel_end of link.ld
  KernelEnd,
  Maps,          \* memory maps: sequences of [addr, len, type]
  Sizes,         \* the sizes that are requested
  Stale,         \* what a size field may hold that malloc() did not write
  Wild,          \* where the store through prev goes while prev has no value
  Contexts,      \* the contexts that execute
  Handlers,      \* the contexts that are interrupt handlers
  Mallocers,     \* the contexts that call malloc()
  MaxBlocks,     \* bound: how many requests are satisfied between resets
  MaxResets      \* bound: how often the machine is reset

sizeof_alloc_struct == 28
sizeof_uint32 == 4
AVAILABLE == 1

\* What malloc() adds to d: "d += n" steps over n structs, and the pointer
\* of a new block is computed in units of four bytes.  (Variant: in bytes.)
Stride_Bytes(size) == size + sizeof_alloc_struct

Stride(size) == sizeof_alloc_struct * (size + sizeof_alloc_struct)
ToNew    == sizeof_uint32 * sizeof_alloc_struct
ToReused == sizeof_alloc_struct * sizeof_alloc_struct

ASSUME ContextAssumption ==
  Handlers \subseteq Contexts /\ Mallocers \subseteq Contexts

Region == [addr : Nat, len : Nat, type : Nat]

ASSUME MapAssumption ==
  /\ KernelStart \in Nat /\ KernelEnd \in Nat /\ KernelStart <= KernelEnd
  /\ \A m \in Maps : m \in Seq(Region)

\* The step over any block from the lower half of the address space, where
\* the walk stays, does not wrap around: requests are below 73 MiB.
ASSUME SizeAssumption ==
  /\ Word \in Nat /\ Word >= 2 * Stride(0) /\ MaxBlocks \in Nat /\ MaxResets \in Nat
  /\ Sizes \subseteq Nat /\ Stale \subseteq Nat /\ Wild \subseteq Nat
  /\ \A s \in Sizes \cup Stale : Word \div 2 + Stride(s) <= Word

Addr == 0 .. Word - 1
NoValue == -1

VARIABLES
  mmap,     \* the memory map of this machine
  up,       \* pmm_setup() has run since the last reset
  big,      \* the region that the heap uses
  hdr,      \* the headers in memory
  pc, at, req, prev,  \* per context: where it stands in malloc(), d, size and prev
  handed,   \* the pointers returned by malloc() since the last reset
  live,     \* which of them have not been given to free()
  strays,   \* how many stores went through prev without a value, since the last reset
  struck,   \* what such stores have hit: "header", "kernel" or nothing of these
  resets    \* number of resets so far

stray == <<strays, struck>>
vars == <<mmap, up, big, hdr, pc, at, req, prev, handed, live, stray, resets>>

Header == [allocated : BOOLEAN, size : Nat]
Memory == [ptr : Addr, size : Nat]
NoRegion == [addr |-> 0, len |-> 0]

Put(d, h) == [x \in DOMAIN hdr \cup {d} |-> IF x = d THEN h ELSE hdr[x]]

check_magic(d) == d \in DOMAIN hdr

-----------------------------------------------------------------------------
(***************************************************************************)
(* pmm_setup(): the first of the longest available regions; when the       *)
(* kernel is at its start, the heap begins behind the kernel, and the      *)
(* length shrinks by the difference of two int pointers.                   *)
(***************************************************************************)
Usable(m) == {i \in DOMAIN m : m[i].type = AVAILABLE /\ m[i].len > 0}

Longest(m) ==
  {i \in Usable(m) : \A j \in Usable(m) : \/ m[j].len < m[i].len
                                          \/ m[j].len = m[i].len /\ i <= j}

Biggest(m) ==
  IF Longest(m) = {} THEN NoRegion
  ELSE LET i == CHOOSE i \in Longest(m) : TRUE
       IN  [addr |-> m[i].addr, len |-> m[i].len]

\* Variant: the heap is not moved off the kernel.
BehindKernel_Skipped(r) == r

BehindKernel(r) ==
  IF r.addr = KernelStart
  THEN [addr |-> KernelEnd,
        len |-> r.len - (KernelEnd - KernelStart) \div sizeof_uint32]
  ELSE r

pmm_setup ==
  /\ ~up /\ up' = TRUE
  /\ big' = BehindKernel(Biggest(mmap))
  /\ hdr' = Put(big'.addr % Word, [allocated |-> FALSE, size |-> 0])
  /\ UNCHANGED <<mmap, pc, at, req, prev, handed, live, stray, resets>>

End   == big.addr + big.len

\* Variant: the address is not truncated to a pointer.
First_Untruncated == big.addr + sizeof_alloc_struct

First == (big.addr + sizeof_alloc_struct) % Word

\* (int)d is negative in the upper half of the address space.
InHeap(d) == d < Word \div 2 /\ d < End

\* Variant: the size of the request left out of the check.
Fits_NoSize(d, size) == (d + sizeof_alloc_struct) % Word <= End

Fits(d, size) == ((d + sizeof_alloc_struct) % Word) + size <= End

Init ==
  /\ mmap \in Maps
  /\ up = FALSE
  /\ big = NoRegion
  /\ hdr = <<>>
  /\ pc = [c \in Contexts |-> "idle"]
  /\ at = [c \in Contexts |-> 0]
  /\ req = [c \in Contexts |-> 0]
  /\ prev = [c \in Contexts |-> NoValue]
  /\ handed = <<>>
  /\ live = {}
  /\ strays = 0 /\ struck = {}
  /\ resets = 0

(***************************************************************************)
(* malloc(): the walk, and what it does where it stops.                    *)
(***************************************************************************)
\* Nothing is known of a kernel whose image, or one of its headers, is hit by
\* a store through prev without a value: the model ends there.
Unharmed == struck = {}

MayRun(c) == up /\ Unharmed /\ \A h \in Handlers \ {c} : pc[h] = "idle"

Goto(c, label) == pc' = [pc EXCEPT ![c] = label]

\* Back from malloc(): its locals are dead.
Leave(c) ==
  /\ Goto(c, "idle")
  /\ at' = [at EXCEPT ![c] = 0] /\ req' = [req EXCEPT ![c] = 0]
  /\ prev' = [prev EXCEPT ![c] = NoValue]

Return(c, pointer) ==
  /\ Leave(c)
  /\ handed' = Append(handed, [ptr |-> pointer % Word, size |-> req[c]])
  /\ live' = live \cup {Len(handed) + 1}

malloc(c, size) ==
  /\ MayRun(c) /\ pc[c] = "idle" /\ c \in Mallocers
  /\ Len(handed) < MaxBlocks
  /\ Goto(c, "walk")
  /\ at' = [at EXCEPT ![c] = First]
  /\ req' = [req EXCEPT ![c] = size]
  /\ UNCHANGED <<mmap, up, big, hdr, prev, handed, live, stray, resets>>

Suits(d, size) == ~hdr[d].allocated /\ hdr[d].size >= size

\* Variant: the size of the header left out of the stride.
WalkPast_NoHeader(c) ==
  /\ MayRun(c) /\ pc[c] = "walk" /\ InHeap(at[c]) /\ check_magic(at[c])
  /\ ~Suits(at[c], req[c])
  /\ at' = [at EXCEPT ![c] =
              (at[c] + sizeof_alloc_struct * hdr[at[c]].size) % Word]
  /\ prev' = [prev EXCEPT ![c] = at[c]]
  /\ UNCHANGED <<mmap, up, big, hdr, pc, req, handed, live, stray, resets>>

\* Variant: prev is not advanced with d.
WalkPast_KeepPrev(c) ==
  /\ MayRun(c) /\ pc[c] = "walk" /\ InHeap(at[c]) /\ check_magic(at[c])
  /\ ~Suits(at[c], req[c])
  /\ at' = [at EXCEPT ![c] = (at[c] + Stride(hdr[at[c]].size)) % Word]
  /\ UNCHANGED <<mmap, up, big, hdr, pc, req, prev, handed, live, stray, resets>>

WalkPast(c) ==
  /\ MayRun(c) /\ pc[c] = "walk" /\ InHeap(at[c]) /\ check_magic(at[c])
  /\ ~Suits(at[c], req[c])
  /\ at' = [at EXCEPT ![c] = (at[c] + Stride(hdr[at[c]].size)) % Word]
  /\ prev' = [prev EXCEPT ![c] = at[c]]
  /\ UNCHANGED <<mmap, up, big, hdr, pc, req, handed, live, stray, resets>>

WalkFound(c) ==
  /\ MayRun(c) /\ pc[c] = "walk" /\ InHeap(at[c]) /\ check_magic(at[c])
  /\ Suits(at[c], req[c])
  /\ Goto(c, "take")
  /\ UNCHANGED <<mmap, up, big, hdr, at, req, prev, handed, live, stray, resets>>

WalkHole(c) ==
  /\ MayRun(c) /\ pc[c] = "walk" /\ InHeap(at[c]) /\ ~check_magic(at[c])
  /\ Fits(at[c], req[c])
  /\ Goto(c, "carve")
  /\ UNCHANGED <<mmap, up, big, hdr, at, req, prev, handed, live, stray, resets>>

\* malloc() returns (void *)-1.
WalkFailed(c) ==
  /\ MayRun(c) /\ pc[c] = "walk"
  /\ InHeap(at[c]) => ~check_magic(at[c]) /\ ~Fits(at[c], req[c])
  /\ Leave(c)
  /\ UNCHANGED <<mmap, up, big, hdr, handed, live, stray, resets>>

\* Variant: the block is returned without being marked.
Take_Unmarked(c) ==
  /\ MayRun(c) /\ pc[c] = "take"
  /\ Return(c, at[c] + ToReused)
  /\ UNCHANGED <<mmap, up, big, hdr, stray, resets>>

Take(c) ==
  /\ MayRun(c) /\ pc[c] = "take"
  /\ hdr' = [hdr EXCEPT ![at[c]].allocated = TRUE]
  /\ Return(c, at[c] + ToReused)
  /\ UNCHANGED <<mmap, up, big, stray, resets>>

\* Two byte ranges [p, p + m) and [q, q + n) without a common byte.
Apart(p, m, q, n) == p + m <= q \/ q + n <= p

\* What a store of a word at w hits while the header at d is written.
Strikes(w, d) ==
  {x \in {"header", "kernel"} :
     \/ x = "header" /\ \E h \in DOMAIN hdr \cup {d} :
                          ~Apart(h, sizeof_alloc_struct, w, sizeof_uint32)
     \/ x = "kernel" /\ ~Apart(KernelStart, KernelEnd - KernelStart, w, sizeof_uint32)}

\* "prev->next = d".
CarveLink(c) ==
  /\ MayRun(c) /\ pc[c] = "carve"
  /\ IF prev[c] = NoValue
     THEN strays' = strays + 1 /\ \E w \in Wild : struck' = Strikes(w, at[c])
     ELSE UNCHANGED stray
  /\ Goto(c, "linked")
  /\ UNCHANGED <<mmap, up, big, hdr, at, req, prev, handed, live, resets>>

CarveSign(c) ==
  /\ MayRun(c) /\ pc[c] = "linked"
  /\ \E junk \in Stale : hdr' = Put(at[c], [allocated |-> TRUE, size |-> junk])
  /\ Goto(c, "sized")
  /\ UNCHANGED <<mmap, up, big, at, req, prev, handed, live, stray, resets>>

CarveSize(c) ==
  /\ MayRun(c) /\ pc[c] = "sized"
  /\ hdr' = [hdr EXCEPT ![at[c]].size = req[c]]
  /\ Return(c, at[c] + ToNew)
  /\ UNCHANGED <<mmap, up, big, stray, resets>>

MallocStep(c) ==
  \/ WalkPast(c) \/ WalkFound(c) \/ WalkHole(c) \/ WalkFailed(c)
  \/ Take(c) \/ CarveLink(c) \/ CarveSign(c) \/ CarveSize(c)

-----------------------------------------------------------------------------
(***************************************************************************)
(* free() of the i-th pointer handed out.  Nobody else writes the header   *)
(* of an allocated block, so its three accesses make one step.             *)
(***************************************************************************)
FreeBlock(i) == (handed[i].ptr - ToNew) % Word

free(c, i) ==
  /\ MayRun(c) /\ pc[c] = "idle" /\ i \in live
  /\ live' = live \ {i}
  /\ hdr' = IF check_magic(FreeBlock(i))
            THEN [hdr EXCEPT ![FreeBlock(i)].allocated = FALSE] ELSE hdr
  /\ UNCHANGED <<mmap, up, big, pc, at, req, prev, handed, stray, resets>>

\* The owner fills its memory: a header found there is gone.
Write(i) ==
  /\ up /\ Unharmed /\ i \in live
  /\ hdr' = Restrict(hdr, {d \in DOMAIN hdr :
                             Apart(d, sizeof_alloc_struct,
                                   handed[i].ptr, handed[i].size)})
  /\ UNCHANGED <<mmap, up, big, pc, at, req, prev, handed, live, stray, resets>>

\* A reset, as after a triple fault: memory keeps what the firmware and the
\* boot loader do not overwrite.
Reset ==
  /\ up /\ up' = FALSE /\ Unharmed
  /\ resets < MaxResets /\ resets' = resets + 1
  /\ big' = NoRegion
  /\ \E kept \in SUBSET DOMAIN hdr : hdr' = Restrict(hdr, kept)
  /\ pc' = [c \in Contexts |-> "idle"]
  /\ at' = [c \in Contexts |-> 0]
  /\ req' = [c \in Contexts |-> 0]
  /\ prev' = [c \in Contexts |-> NoValue]
  /\ handed' = <<>> /\ live' = {} /\ strays' = 0
  /\ UNCHANGED <<mmap, struck>>

Next ==
  \/ pmm_setup
  \/ Reset
  \/ \E c \in Contexts : MallocStep(c)
  \/ \E c \in Contexts, s \in Sizes : malloc(c, s)
  \/ \E c \in Contexts : \E i \in live : free(c, i)
  \/ \E i \in live : Write(i)

Spec == Init /\ [][Next]_vars

(***************************************************************************)
(* A context that is not cut for good by handlers executes its loop.       *)
(***************************************************************************)
Fairness == \A c \in Contexts : SF_vars(MallocStep(c))

FairSpec == Spec /\ Fairness

-----------------------------------------------------------------------------
MemoryTypes ==
  /\ mmap \in Maps
  /\ up \in BOOLEAN
  /\ big \in [addr : Nat, len : Int]
  /\ DOMAIN hdr \subseteq Addr
  /\ \A d \in DOMAIN hdr : hdr[d] \in Header
  /\ pc \in [Contexts -> {"idle", "walk", "take", "carve", "linked", "sized"}]
  /\ at \in [Contexts -> Addr]
  /\ req \in [Contexts -> Nat]
  /\ handed \in Seq(Memory)
  /\ live \subseteq DOMAIN handed
  /\ resets \in 0 .. MaxResets

\* Headers and pointers are addresses of the 32-bit space, also when the
\* heap lies beyond it.
TypeOK ==
  /\ MemoryTypes
  /\ prev \in [Contexts -> Addr \cup {NoValue}]
  /\ strays \in Nat /\ struck \subseteq {"header", "kernel"}

(***************************************************************************)
(* malloc() stores through prev without a value at most once between two   *)
(* resets: from the first block on, the walk finds a header where it begins, whatever the   *)
(* owners of memory write and handlers free.                               *)
(***************************************************************************)
OneStray == strays <= 1

(***************************************************************************)
(* Memory that two owners hold at the same time does not overlap, although *)
(* new and reused blocks place it differently behind their header, the     *)
(* handler frees while malloc() walks, and headers of the time before a    *)
(* reset may still be in memory.                                           *)
(***************************************************************************)
PayloadsDisjoint ==
  \A i, j \in live :
    i # j => Apart(handed[i].ptr, handed[i].size, handed[j].ptr, handed[j].size)

(***************************************************************************)
(* malloc() never returns an address twice between two resets: the pointer *)
(* to a reused block is not the one free() can find the header of, so no   *)
(* block is handed out a third time.                                       *)
(***************************************************************************)
FreshPointers ==
  \A i, j \in DOMAIN handed : handed[i].ptr = handed[j].ptr => i = j

(***************************************************************************)
(* The headers that the walk of malloc() visits: the least set that holds  *)
(* the first one and, with each, the one that follows it inside the heap.  *)
(***************************************************************************)
Following(d) == (d + Stride(hdr[d].size)) % Word

Visits(d, S) == InHeap(d) /\ check_magic(d) => d \in S

ChainClosed(S) == Visits(First, S) /\ \A d \in S : Visits(Following(d), S)

Chain ==
  {d \in DOMAIN hdr : \A S \in SUBSET DOMAIN hdr : ChainClosed(S) => d \in S}

(***************************************************************************)
(* An owner that fills the memory it was given does not destroy a header   *)
(* that the walk of malloc() visits: the chain stays intact.               *)
(***************************************************************************)
HeadersSafe ==
  \A i \in live : \A d \in Chain :
    Apart(d, sizeof_alloc_struct, handed[i].ptr, handed[i].size)

(***************************************************************************)
(* Headers and memory handed out stay off the kernel image, as long as the *)
(* kernel was loaded at the start of the region it is in, other regions    *)
(* are well below or above it, and the largest region does not begin       *)
(* beyond Word.  (The store that OneStray counts may hit the image.)       *)
(***************************************************************************)
KernelApart(m) ==
  \A i \in DOMAIN m : \/ m[i].addr = KernelStart \/ m[i].addr >= KernelEnd
                      \/ m[i].addr + m[i].len + ToReused <= KernelStart

OffTheKernel ==
  up /\ big.addr + sizeof_alloc_struct < Word /\ KernelApart(mmap) =>
    /\ \A d \in Chain :
         Apart(d, sizeof_alloc_struct, KernelStart, KernelEnd - KernelStart)
    /\ \A i \in live :
         Apart(handed[i].ptr, handed[i].size, KernelStart, KernelEnd - KernelStart)

(***************************************************************************)
(* How far malloc() may reach beyond the end of its region: its check      *)
(* counts the header, the memory begins up to ToReused behind it.  It      *)
(* holds until the second reset, as OffTheKernel does: a reset can leave a *)
(* header without its size, the next boot mark it free, the third hand it  *)
(* out.                                                                    *)
(***************************************************************************)
OverrunBound ==
  \A i \in live :
    handed[i].ptr + handed[i].size <= End + ToReused - sizeof_alloc_struct

(***************************************************************************)
(* malloc() returns: the walk advances over every block, also over blocks  *)
(* of size 0, until it finds one, a hole or the end.                       *)
(***************************************************************************)
MallocReturns ==
  \A c \in Contexts : pc[c] # "idle" ~> pc[c] = "idle" \/ ~Unharmed

(***************************************************************************)
(* malloc.cpp:87, "Found unallocated space": the space in which malloc()   *)
(* is about to write a header has no header.                               *)
(***************************************************************************)
SpaceUnallocated ==
  \A c \in Contexts : pc[c] = "carve" => ~check_magic(at[c])

==============================================================================
