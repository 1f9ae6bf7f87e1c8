------------------------------ MODULE HeapProofs ------------------------------
(***************************************************************************)
(* Proofs about Heap, for every address width, memory map, set of sizes    *)
(* and number of contexts, when a single context calls malloc().           *)
(*                                                                         *)
(* The invariant says that the part of memory which malloc() has walked    *)
(* since the last reset is a set S of blocks, laid end to end below an     *)
(* address top where nothing has been looked at yet.  Headers that an      *)
(* earlier boot left beyond top or inside the blocks of S do not count.    *)
(*                                                                         *)
(* Until the second reset, a header that malloc() finds free also carries  *)
(* a size that fits into the region: a header that malloc() was writing    *)
(* when the first reset came may have a junk size, but it is not free.     *)
(* The boot after that may mark it free, from inside a block that it does  *)
(* not walk over; after the second reset the walk may hand it out.         *)
(***************************************************************************)
EXTENDS Heap, TLAPS

OneMallocer == \A a, b \in Mallocers : a = b

Half == Word \div 2

BlockEnd(d) == d + Stride(hdr[d].size)

Laid(S, top) ==
  /\ S \subseteq DOMAIN hdr
  /\ First \in S \cup {top}
  /\ \A d \in S : /\ First <= d /\ d < Half /\ d < End
                  /\ BlockEnd(d) <= top
                  /\ BlockEnd(d) \in S \cup {top}
  /\ \A d, e \in S : d < e => BlockEnd(d) <= e

\* A header at d and size bytes fit into the region.
Room(d, size) == d + sizeof_alloc_struct + size <= End

Walking(S, top) ==
  \A c \in Contexts : pc[c] # "idle" =>
    /\ c \in Mallocers /\ req[c] \in Sizes
    /\ at[c] \in S \cup {top}
    /\ pc[c] = "take" => at[c] \in S /\ Suits(at[c], req[c])
    /\ pc[c] \in {"carve", "linked", "sized"} => at[c] = top /\ InHeap(top) /\ Room(top, req[c])
    /\ pc[c] \in {"carve", "linked"} => top \notin DOMAIN hdr
    /\ pc[c] = "sized" => top \in DOMAIN hdr /\ hdr[top].allocated

Owner(b, i) ==
  /\ handed[i].ptr \in {b + ToNew, b + ToReused}
  /\ handed[i].size <= hdr[b].size

Owned(S) ==
  /\ \A i \in DOMAIN handed : \E b \in S : Owner(b, i)
  /\ \A b \in S, i \in live : handed[i].ptr = b + ToNew => hdr[b].allocated
  /\ \A b \in S, j \in DOMAIN handed : handed[j].ptr = b + ToReused =>
       /\ hdr[b].allocated
       /\ \A i \in live : handed[i].ptr # b + ToNew

\* Where pmm_setup() writes a header.
Origin == big.addr % Word

\* Until the second reset, the sizes of the headers that malloc() can find free, and of
\* the blocks it has handed out, fit into the region: a size that was not yet written
\* when the machine was reset is in a header that is not free.
Fitted(S, top) ==
  resets <= 1 =>
    /\ \A d \in DOMAIN hdr :
         (d \in S \/ top <= d) /\ d < Half => hdr[d].allocated \/ Room(d, hdr[d].size)
    /\ \A b \in S, i \in DOMAIN handed :
         handed[i].ptr \in {b + ToNew, b + ToReused} => Room(b, hdr[b].size)
    /\ resets = 0 => DOMAIN hdr \subseteq S \cup {top, Origin}

Blocks(S, top) ==
  /\ Laid(S, top) /\ Walking(S, top) /\ Owned(S) /\ Fitted(S, top)

\* What a reset leaves in memory, seen from the region that pmm_setup() will choose.
Region0 == BehindKernel(Biggest(mmap))

Kept ==
  /\ resets = 0 => DOMAIN hdr = {}
  /\ resets <= 1 =>
       \A d \in DOMAIN hdr :
         d < Half /\ d # Region0.addr % Word =>
           \/ hdr[d].allocated
           \/ d + sizeof_alloc_struct + hdr[d].size <= Region0.addr + Region0.len

Known == Sizes \cup Stale \cup {0}

Steady ==
  /\ MemoryTypes
  /\ \A d \in DOMAIN hdr : hdr[d].size \in Known
  /\ FreshPointers

HeapInv ==
  /\ Steady
  /\ up => big = Region0 /\ \E S \in SUBSET Addr, top \in Addr : Blocks(S, top)
  /\ ~up => Kept /\ handed = <<>> /\ \A c \in Contexts : pc[c] = "idle"

-----------------------------------------------------------------------------
\* Reduction modulo Word leaves an address alone.
LEMMA ModAddr == \A x \in Addr : x % Word = x
  BY SizeAssumption DEF Addr, Stride, sizeof_alloc_struct

\* A result of the modulo operation is an address.
LEMMA ModRange == \A x \in Int : x % Word \in Addr
  BY SizeAssumption DEF Addr, Stride, sizeof_alloc_struct

\* A remainder is what is left below a multiple of Word, whichever multiple that is.
LEMMA ModUnique ==
  ASSUME NEW q \in Int, NEW p \in Int, NEW r \in Addr, NEW s \in Addr,
         Word * q + r = Word * p + s
  PROVE  r = s
<1>1. Word \in Nat /\ r \in 0 .. Word - 1 /\ s \in 0 .. Word - 1
  BY SizeAssumption DEF Addr
<1>2. \A x, y \in Int : x > y => Word * x >= Word * y + Word
  <2> TAKE x, y \in Int
  <2> HAVE x > y
  <2>1. Word * x >= Word * (y + 1)
    BY <1>1
  <2>2. Word * (y + 1) = Word * y + Word
    BY <1>1
  <2> QED BY <1>1, <2>1, <2>2
<1>3. Word * q \in Int /\ Word * p \in Int
  BY <1>1
<1>4. q = p
  BY <1>1, <1>2, <1>3
<1> QED BY <1>1, <1>3, <1>4

\* The first header lies a struct behind the origin of the region, unless that wraps.
LEMMA ModStep ==
  ASSUME NEW a \in Nat
  PROVE  (a + 28) % Word = IF (a % Word) + 28 < Word THEN (a % Word) + 28
                           ELSE (a % Word) + 28 - Word
<1>1. Word \in Nat /\ Word >= 1568
  BY SizeAssumption DEF Stride, sizeof_alloc_struct
<1>2. \A x \in Int : /\ x = Word * (x \div Word) + (x % Word)
                      /\ x \div Word \in Int /\ x % Word \in 0 .. Word - 1
  BY <1>1
<1>3. PICK q \in Int, r \in 0 .. Word - 1 : a = Word * q + r /\ r = a % Word
  BY <1>2
<1>4. PICK p \in Int, s \in 0 .. Word - 1 : a + 28 = Word * p + s /\ s = (a + 28) % Word
  BY <1>2
<1>5. CASE r + 28 < Word
  <2>1. r + 28 \in 0 .. Word - 1 /\ Word * q + (r + 28) = Word * p + s
    BY <1>1, <1>3, <1>4, <1>5
  <2>2. r + 28 = s
    BY <2>1, ModUnique DEF Addr
  <2> QED BY <1>3, <1>4, <1>5, <2>2
<1>6. CASE r + 28 >= Word
  <2>1. r + 28 - Word \in 0 .. Word - 1 /\ Word * (q + 1) = Word * q + Word
    BY <1>1, <1>6
  <2>2. Word * (q + 1) + (r + 28 - Word) = Word * p + s
    BY <1>1, <1>3, <1>4, <2>1
  <2>3. r + 28 - Word = s
    BY <2>1, <2>2, ModUnique DEF Addr
  <2>4. ~ (r + 28 < Word)
    BY <1>1, <1>6
  <2> QED BY <1>3, <1>4, <2>3, <2>4
<1> QED BY <1>1, <1>5, <1>6

\* What the proofs use of the three distances in malloc.cpp: a stride covers
\* both places where a block's memory may begin, and does not wrap.
LEMMA StrideFacts ==
  /\ ToNew = 112 /\ ToReused = 784 /\ sizeof_alloc_struct = 28
  /\ \A s \in Known : /\ s \in Nat /\ Stride(s) \in Nat
                      /\ ToReused + s <= Stride(s)
                      /\ Half + Stride(s) <= Word
  /\ Half \in Nat /\ Half + 784 <= Word /\ Half <= Word /\ Word \in Nat
  BY SizeAssumption
  DEF Known, Stride, ToNew, ToReused, Half, sizeof_alloc_struct, sizeof_uint32

\* The blocks of S end inside the address space, so no step over them wraps.
LEMMA EndOfBlock ==
  ASSUME Steady, NEW d \in DOMAIN hdr
  PROVE  /\ d \in Addr /\ hdr[d].size \in Nat /\ hdr[d].allocated \in BOOLEAN
         /\ hdr[d].size \in Known
         /\ BlockEnd(d) \in Nat /\ d + 784 + hdr[d].size <= BlockEnd(d)
         /\ d < Half => BlockEnd(d) \in Addr /\ Following(d) = BlockEnd(d)
<1>1. d \in Addr /\ hdr[d] \in Header /\ hdr[d].size \in Known
  BY DEF Steady, MemoryTypes
<1>2. d \in Nat /\ Stride(hdr[d].size) \in Nat /\ 784 + hdr[d].size <= Stride(hdr[d].size)
      /\ hdr[d].size \in Nat /\ Half + Stride(hdr[d].size) <= Word
  BY <1>1, StrideFacts DEF Addr
<1>3. d < Half => BlockEnd(d) \in Addr
  BY <1>2, StrideFacts DEF BlockEnd, Addr
<1> QED
  BY <1>1, <1>2, <1>3, ModAddr DEF BlockEnd, Following, Header

\* What membership in Seq says.
LEMMA SeqFacts ==
  ASSUME NEW R, NEW s \in Seq(R)
  PROVE  /\ Len(s) \in Nat /\ DOMAIN s = 1 .. Len(s)
         /\ \A i \in DOMAIN s : s[i] \in R
  OBVIOUS

\* The entries of handed are typed.
LEMMA HandedType ==
  ASSUME MemoryTypes
  PROVE  /\ Len(handed) \in Nat /\ DOMAIN handed = 1 .. Len(handed)
         /\ \A i \in DOMAIN handed :
              handed[i].ptr \in Addr /\ handed[i].size \in Nat
<1>1. /\ Len(handed) \in Nat /\ DOMAIN handed = 1 .. Len(handed)
      /\ \A i \in DOMAIN handed : handed[i] \in Memory
  BY SeqFacts DEF MemoryTypes
<1> QED
  BY <1>1 DEF Memory

\* Memory handed out lies inside the block it belongs to, behind the header.
LEMMA Inside ==
  ASSUME Steady, NEW S, NEW top \in Addr, Blocks(S, top),
         NEW b \in S, NEW i \in DOMAIN handed, Owner(b, i)
  PROVE  /\ handed[i].ptr \in Nat /\ handed[i].size \in Nat
         /\ b + 112 <= handed[i].ptr
         /\ handed[i].ptr + handed[i].size <= BlockEnd(b)
         /\ BlockEnd(b) <= top
<1>1. handed[i].ptr \in Addr /\ handed[i].size \in Nat
  BY HandedType DEF Steady, MemoryTypes
<1>2. b \in DOMAIN hdr /\ BlockEnd(b) <= top
  BY DEF Blocks, Laid
<1>3. b \in Nat /\ hdr[b].size \in Nat /\ b + 784 + hdr[b].size <= BlockEnd(b) /\ BlockEnd(b) \in Nat
  BY <1>2, EndOfBlock DEF Addr
<1> QED
  BY <1>1, <1>2, <1>3, StrideFacts DEF Owner, Addr

\* What the walk looks at becomes part of the walked blocks.
LEMMA Visit ==
  ASSUME Steady, OneMallocer,
         NEW S \in SUBSET Addr, NEW top \in Addr, Blocks(S, top),
         NEW c \in Contexts, pc[c] = "walk", InHeap(at[c]), check_magic(at[c])
  PROVE  \E T \in SUBSET Addr, u \in Addr : Blocks(T, u) /\ at[c] \in T
<1>1. CASE at[c] \in S
  BY <1>1
<1>2. CASE at[c] = top /\ top \notin S
  <2> DEFINE T == S \cup {top}
             u == BlockEnd(top)
  <2>1. top \in DOMAIN hdr /\ top < Half /\ top < End
    BY <1>2 DEF check_magic, InHeap, Half
  <2>2. /\ top \in Nat /\ hdr[top].size \in Nat /\ u \in Nat /\ u \in Addr
        /\ top + 784 + hdr[top].size <= u
    BY <2>1, EndOfBlock DEF Addr
  <2>3. \A d \in S : d \in DOMAIN hdr /\ BlockEnd(d) <= top /\ d + 784 <= BlockEnd(d)
                     /\ BlockEnd(d) \in S \cup {top} /\ d \in Nat /\ BlockEnd(d) \in Nat
    BY EndOfBlock DEF Blocks, Laid, Addr
  <2>4. Laid(T, u)
    <3>1. T \subseteq DOMAIN hdr /\ First \in T \cup {u}
      BY <2>1 DEF Blocks, Laid
    <3>2. ASSUME NEW d \in T
          PROVE  First <= d /\ d < Half /\ d < End /\ BlockEnd(d) <= u
                 /\ BlockEnd(d) \in T \cup {u}
      <4>1. CASE d = top
        <5>1. First <= top
          BY <2>2, <2>3 DEF Blocks, Laid
        <5> QED BY <4>1, <5>1, <2>1, <2>2
      <4>2. CASE d \in S
        BY <4>2, <2>2, <2>3 DEF Blocks, Laid
      <4> QED
        BY <4>1, <4>2
    <3>3. ASSUME NEW d \in T, NEW e \in T, d < e
          PROVE  BlockEnd(d) <= e
      <4>1. CASE d \in S /\ e \in S
        BY <4>1, <3>3 DEF Blocks, Laid
      <4>2. CASE d \in S /\ e = top
        BY <4>2, <2>3
      <4>3. CASE d = top
        BY <4>3, <3>3, <2>2, <2>3
      <4> QED
        BY <4>1, <4>2, <4>3
    <3> QED
      BY <3>1, <3>2, <3>3 DEF Laid
  <2>5. Walking(T, u)
    BY <1>2 DEF Blocks, Walking, OneMallocer
  <2>6. \A i \in DOMAIN handed :
          handed[i].ptr # top + ToNew /\ handed[i].ptr # top + ToReused
    <3> TAKE i \in DOMAIN handed
    <3>1. PICK b \in S : Owner(b, i)
      BY DEF Blocks, Owned
    <3>2. handed[i].ptr \in Nat /\ handed[i].size \in Nat
          /\ handed[i].ptr + handed[i].size <= top
      BY <3>1, <2>3, Inside, HandedType DEF Addr, Steady
    <3> QED
      BY <3>2, <2>2, StrideFacts
  <2>7. live \subseteq DOMAIN handed
    BY DEF Steady, MemoryTypes
  <2>8. Owned(T)
    BY <2>6, <2>7 DEF Blocks, Owned
  <2>9. Fitted(T, u)
    <3>1. \A d \in Nat : d \in T \/ u <= d => d \in S \/ top <= d
      BY <2>2
    <3>2. \A d \in DOMAIN hdr : d \in Nat
      BY DEF Steady, MemoryTypes, Addr
    <3>3. T \cup {u, Origin} = S \cup {top, u, Origin}
      OBVIOUS
    <3> QED BY <2>6, <3>1, <3>2, <3>3 DEF Blocks, Fitted
  <2> HIDE DEF T, u
  <2>10. Blocks(T, u)
    BY <2>4, <2>5, <2>8, <2>9 DEF Blocks
  <2>11. T \in SUBSET Addr /\ u \in Addr /\ at[c] \in T
    BY <1>2, <2>2 DEF T
  <2> QED
    BY <2>10, <2>11
<1> QED
  BY <1>1, <1>2 DEF Blocks, Walking

-----------------------------------------------------------------------------
\* The region chosen from a memory map is a region.
LEMMA RegionType ==
  ASSUME NEW m \in Maps
  PROVE  BehindKernel(Biggest(m)) \in [addr : Nat, len : Int]
<1>1. Biggest(m) \in [addr : Nat, len : Int]
  <2>1. CASE Longest(m) = {}
    BY <2>1 DEF Biggest, NoRegion
  <2>2. CASE Longest(m) # {}
    <3> DEFINE i == CHOOSE i \in Longest(m) : TRUE
    <3>1. i \in DOMAIN m
      BY <2>2 DEF Longest, Usable
    <3>2. m[i] \in Region
      BY <3>1, MapAssumption, SeqFacts
    <3> QED
      BY <2>2, <3>2 DEF Biggest, Region
  <2> QED
    BY <2>1, <2>2
<1> PICK r \in [addr : Nat, len : Int] : r = Biggest(m)
  BY <1>1
<1>2. (KernelEnd - KernelStart) \div sizeof_uint32 \in Int
  BY MapAssumption DEF sizeof_uint32
<1> QED
  BY <1>2, MapAssumption DEF BehindKernel

\* Before pmm_setup() nothing is handed out and nobody is in malloc().
LEMMA InitInv == Init => HeapInv
<1> SUFFICES ASSUME Init PROVE HeapInv
  OBVIOUS
<1>1. handed = <<>> /\ DOMAIN hdr = {} /\ live = {} /\ DOMAIN handed = {}
  BY DEF Init
<1>2. 0 \in Addr
  BY StrideFacts DEF Addr
<1>3. MemoryTypes
  <2>1. handed \in Seq(Memory)
    BY <1>1
  <2>2. big \in [addr : Nat, len : Int] /\ resets \in 0 .. MaxResets
    BY SizeAssumption DEF Init, NoRegion
  <2> QED
    BY <1>1, <1>2, <2>1, <2>2 DEF Init, MemoryTypes
<1> QED
  BY <1>1, <1>3 DEF Init, HeapInv, Steady, FreshPointers, Kept

\* pmm_setup() starts with no walked blocks.
LEMMA SetupStep ==
  ASSUME HeapInv, pmm_setup
  PROVE  HeapInv'
<1>1. handed = <<>> /\ DOMAIN handed = {} /\ live = {}
      /\ \A c \in Contexts : pc[c] = "idle"
  BY DEF HeapInv, pmm_setup, Steady, MemoryTypes
<1>2. big' \in [addr : Nat, len : Int]
  BY RegionType DEF pmm_setup, HeapInv, Steady, MemoryTypes
<1>3. big'.addr % Word \in Addr /\ First' \in Addr
  <2>1. big'.addr \in Int /\ big'.addr + sizeof_alloc_struct \in Int
    BY <1>2, StrideFacts
  <2> QED
    BY <2>1, ModRange DEF First
<1>4. /\ DOMAIN hdr' = DOMAIN hdr \cup {big'.addr % Word}
      /\ \A d \in DOMAIN hdr' : hdr'[d] \in Header /\ hdr'[d].size \in Known
  BY DEF pmm_setup, Put, HeapInv, Steady, MemoryTypes, Header, Known
<1>5. MemoryTypes'
  BY <1>2, <1>3, <1>4 DEF pmm_setup, HeapInv, Steady, MemoryTypes
<1>6. Steady'
  BY <1>1, <1>4, <1>5 DEF Steady, FreshPointers, pmm_setup
<1>7. big' = Region0 /\ mmap' = mmap /\ resets' = resets /\ Region0' = Region0
  BY DEF pmm_setup, Region0
<1>8. Fitted({}, First)'
  <2>1. PICK o \in Addr, f \in Addr : o = big'.addr % Word /\ f = First'
    BY <1>3
  <2>2. f = IF o + 28 < Word THEN o + 28 ELSE o + 28 - Word
    BY <1>2, <2>1, ModStep, StrideFacts DEF First
  <2>3. f > o \/ o >= Half
    BY <2>1, <2>2, StrideFacts DEF Addr
  <2>4. DOMAIN hdr' = DOMAIN hdr \cup {o} /\ \A d \in DOMAIN hdr : d # o => hdr'[d] = hdr[d]
    BY <2>1 DEF pmm_setup, Put
  <2>5. Kept
    BY DEF HeapInv, pmm_setup
  <2>6. ASSUME resets <= 1, NEW d \in DOMAIN hdr', f <= d, d < Half
        PROVE  hdr'[d].allocated \/ Room(d, hdr[d].size)'
    <3>1. d # o
      BY <2>1, <2>3, <2>6, StrideFacts DEF Addr
    <3>2. d \in DOMAIN hdr /\ hdr'[d] = hdr[d]
      BY <2>4, <3>1
    <3> QED BY <1>7, <2>1, <2>5, <2>6, <3>1, <3>2 DEF Kept, Room, End
  <2>7. resets = 0 => DOMAIN hdr' = {o}
    BY <2>4, <2>5 DEF Kept
  <2> QED BY <1>7, <2>1, <2>6, <2>7 DEF Fitted, Origin
<1>9. Blocks({}, First)'
  BY <1>1, <1>8 DEF Blocks, Laid, Walking, Owned, pmm_setup
<1>10. \E S \in SUBSET Addr, top \in Addr : Blocks(S, top)'
  <2> PICK top \in Addr : top = First'
    BY <1>3
  <2>1. Blocks({}, top)'
    BY <1>9 DEF Blocks, Laid, Walking, Owned, Fitted
  <2> QED
    BY <2>1
<1> QED
  BY <1>6, <1>10, <1>7 DEF HeapInv, pmm_setup

\* A reset forgets the walked blocks, whatever headers it keeps.
LEMMA ResetStep ==
  ASSUME HeapInv, Reset
  PROVE  HeapInv'
<1> PICK kept \in SUBSET DOMAIN hdr : hdr' = Restrict(hdr, kept)
  BY DEF Reset
<1>1. DOMAIN hdr' \subseteq DOMAIN hdr /\ \A d \in DOMAIN hdr' : hdr'[d] = hdr[d]
  BY DEF Restrict
<1>2. handed' = <<>> /\ DOMAIN handed' = {} /\ live' = {} /\ 0 \in Addr
  BY StrideFacts DEF Reset, Addr
<1>3. MemoryTypes'
  <2>1. handed' \in Seq(Memory)
    BY <1>2
  <2>2. big' \in [addr : Nat, len : Int] /\ resets' \in 0 .. MaxResets
    BY SizeAssumption DEF Reset, NoRegion, HeapInv, Steady, MemoryTypes
  <2> QED
    BY <1>1, <1>2, <2>1, <2>2 DEF HeapInv, Steady, MemoryTypes, Reset
<1>4. Kept'
  <2>1. PICK S \in SUBSET Addr, top \in Addr : Blocks(S, top)
    BY DEF HeapInv, Reset
  <2>2. big = Region0 /\ Region0' = Region0 /\ resets' = resets + 1 /\ resets \in Nat
    BY SizeAssumption DEF HeapInv, Steady, MemoryTypes, Reset, Region0
  <2>3. ASSUME resets' <= 1, NEW d \in DOMAIN hdr', d < Half, d # Region0.addr % Word
        PROVE  \/ hdr[d].allocated
               \/ d + sizeof_alloc_struct + hdr[d].size <= Region0.addr + Region0.len
    <3>1. d \in S \cup {top} /\ resets = 0
      BY <1>1, <2>1, <2>2, <2>3 DEF Blocks, Fitted, Origin
    <3>2. d \in DOMAIN hdr /\ (d \in S \/ top <= d)
      BY <1>1, <3>1 DEF Addr
    <3> QED BY <2>1, <2>2, <2>3, <3>1, <3>2 DEF Blocks, Fitted, Room, End
  <2> QED BY <1>1, <2>2, <2>3 DEF Kept
<1> QED
  BY <1>1, <1>2, <1>3, <1>4 DEF HeapInv, Steady, FreshPointers, Reset

\* Steps that change nothing but where a context stands.
LEMMA LocalStep ==
  ASSUME HeapInv, up, UNCHANGED <<mmap, up, big, hdr, handed, live, resets>>,
         pc' \in [Contexts -> {"idle", "walk", "take", "carve", "linked", "sized"}],
         at' \in [Contexts -> Addr], req' \in [Contexts -> Nat],
         NEW S \in SUBSET Addr, NEW top \in Addr, Blocks(S, top),
         Walking(S, top)'
  PROVE  HeapInv'
<1>1. MemoryTypes'
  BY DEF HeapInv, Steady, MemoryTypes
<1>2. Steady'
  BY <1>1 DEF HeapInv, Steady, FreshPointers
<1>3. Blocks(S, top)'
  BY DEF Blocks, Laid, Owned, BlockEnd, First, End, Owner, Fitted, Room, Origin
<1> QED
  BY <1>2, <1>3 DEF HeapInv, Region0

\* malloc() starts its walk at First.
LEMMA MallocCall ==
  ASSUME HeapInv, NEW c \in Contexts, NEW s \in Sizes, malloc(c, s)
  PROVE  HeapInv'
<1>1. PICK S \in SUBSET Addr, top \in Addr : Blocks(S, top)
  BY DEF HeapInv, malloc, MayRun
<1>2. MemoryTypes /\ up /\ s \in Nat
  BY SizeAssumption DEF HeapInv, Steady, malloc, MayRun
<1>3. First \in Addr
  <2>1. big.addr + sizeof_alloc_struct \in Int
    BY <1>2, StrideFacts DEF MemoryTypes
  <2> QED
    BY <2>1, ModRange DEF First
<1>4. /\ pc' = [pc EXCEPT ![c] = "walk"] /\ at' = [at EXCEPT ![c] = First]
      /\ req' = [req EXCEPT ![c] = s]
      /\ UNCHANGED <<mmap, up, big, hdr, handed, live, resets>>
      /\ c \in Mallocers
  BY DEF malloc, Goto
<1>5. /\ pc' \in [Contexts -> {"idle", "walk", "take", "carve", "linked", "sized"}]
      /\ at' \in [Contexts -> Addr] /\ req' \in [Contexts -> Nat]
  BY <1>2, <1>3, <1>4 DEF MemoryTypes
<1>6. Walking(S, top)'
  BY <1>1, <1>2, <1>4 DEF Blocks, Walking, Laid, Suits, InHeap, End, Room, MemoryTypes
<1> QED
  BY <1>1, <1>2, <1>4, <1>5, <1>6, LocalStep

\* The steps of the walk.
LEMMA WalkSteps ==
  ASSUME HeapInv, OneMallocer, NEW c \in Contexts,
         WalkPast(c) \/ WalkFound(c) \/ WalkHole(c) \/ WalkFailed(c)
  PROVE  HeapInv'
<1>1. Steady /\ MemoryTypes /\ up /\ pc[c] = "walk" /\ 0 \in Addr
      /\ UNCHANGED <<mmap, up, big, hdr, handed, live, resets>>
  BY StrideFacts DEF HeapInv, Steady, MayRun, WalkPast, WalkFound, WalkHole, WalkFailed, Addr
<1>2. PICK S0 \in SUBSET Addr, t0 \in Addr : Blocks(S0, t0)
  BY <1>1 DEF HeapInv
<1>3. CASE WalkPast(c)
  <2>1. PICK S \in SUBSET Addr, top \in Addr : Blocks(S, top) /\ at[c] \in S
    BY <1>1, <1>2, <1>3, Visit DEF WalkPast
  <2>2. at' = [at EXCEPT ![c] = Following(at[c])] /\ UNCHANGED <<pc, req>>
    BY <1>3 DEF WalkPast, Following
  <2>3. at[c] \in DOMAIN hdr /\ at[c] < Half /\ BlockEnd(at[c]) \in S \cup {top}
    BY <2>1 DEF Blocks, Laid
  <2>4. Following(at[c]) \in S \cup {top}
    BY <1>1, <2>3, EndOfBlock
  <2>5. /\ pc' \in [Contexts -> {"idle", "walk", "take", "carve", "linked", "sized"}]
        /\ at' \in [Contexts -> Addr] /\ req' \in [Contexts -> Nat]
    BY <1>1, <2>2, <2>4 DEF MemoryTypes
  <2>6. Walking(S, top)'
    BY <1>1, <2>1, <2>2, <2>4 DEF Blocks, Walking, Suits, InHeap, End, Room, MemoryTypes
  <2> QED
    BY <1>1, <2>1, <2>5, <2>6, LocalStep
<1>4. CASE WalkFound(c)
  <2>1. PICK S \in SUBSET Addr, top \in Addr : Blocks(S, top) /\ at[c] \in S
    BY <1>1, <1>2, <1>4, Visit DEF WalkFound
  <2>2. pc' = [pc EXCEPT ![c] = "take"] /\ UNCHANGED <<at, req>> /\ Suits(at[c], req[c])
    BY <1>4 DEF WalkFound, Goto
  <2>3. /\ pc' \in [Contexts -> {"idle", "walk", "take", "carve", "linked", "sized"}]
        /\ at' \in [Contexts -> Addr] /\ req' \in [Contexts -> Nat]
    BY <1>1, <2>2 DEF MemoryTypes
  <2>4. Walking(S, top)'
    BY <1>1, <2>1, <2>2 DEF Blocks, Walking, Suits, InHeap, End, Room, MemoryTypes
  <2> QED
    BY <1>1, <2>1, <2>3, <2>4, LocalStep
<1>5. CASE WalkHole(c)
  <2>1. pc' = [pc EXCEPT ![c] = "carve"] /\ UNCHANGED <<at, req>>
        /\ InHeap(at[c]) /\ at[c] \notin DOMAIN hdr
    BY <1>5 DEF WalkHole, Goto, check_magic
  <2>2. at[c] = t0 /\ Room(t0, req[c])
    <3>1. at[c] = t0
      BY <1>1, <1>2, <2>1 DEF Blocks, Laid, Walking
    <3>2. t0 + sizeof_alloc_struct \in Addr
      BY <2>1, <3>1, StrideFacts DEF InHeap, Half, Addr
    <3> QED BY <1>5, <3>1, <3>2, ModAddr DEF WalkHole, Fits, Room
  <2>3. /\ pc' \in [Contexts -> {"idle", "walk", "take", "carve", "linked", "sized"}]
        /\ at' \in [Contexts -> Addr] /\ req' \in [Contexts -> Nat]
    BY <1>1, <2>1 DEF MemoryTypes
  <2>4. Walking(S0, t0)'
    BY <1>1, <1>2, <2>1, <2>2 DEF Blocks, Walking, Suits, InHeap, End, Room, MemoryTypes
  <2> QED
    BY <1>1, <1>2, <2>3, <2>4, LocalStep
<1>6. CASE WalkFailed(c)
  <2>1. pc' = [pc EXCEPT ![c] = "idle"] /\ at' = [at EXCEPT ![c] = 0]
        /\ req' = [req EXCEPT ![c] = 0]
    BY <1>6 DEF WalkFailed, Leave, Goto
  <2>2. /\ pc' \in [Contexts -> {"idle", "walk", "take", "carve", "linked", "sized"}]
        /\ at' \in [Contexts -> Addr] /\ req' \in [Contexts -> Nat]
    BY <1>1, <2>1 DEF MemoryTypes
  <2>3. Walking(S0, t0)'
    BY <1>1, <1>2, <2>1 DEF Blocks, Walking, Suits, InHeap, End, Room, MemoryTypes
  <2> QED
    BY <1>1, <1>2, <2>2, <2>3, LocalStep
<1> QED
  BY <1>3, <1>4, <1>5, <1>6

-----------------------------------------------------------------------------
\* What Append does.
LEMMA AppendFacts ==
  ASSUME NEW R, NEW s \in Seq(R), NEW e \in R
  PROVE  /\ Append(s, e) \in Seq(R)
         /\ DOMAIN Append(s, e) = DOMAIN s \cup {Len(s) + 1}
         /\ \A i \in DOMAIN s : Append(s, e)[i] = s[i]
         /\ Append(s, e)[Len(s) + 1] = e
         /\ Len(s) + 1 \notin DOMAIN s
  OBVIOUS

\* malloc() returns an address that it has not returned before.
LEMMA ReturnStep ==
  ASSUME MemoryTypes, FreshPointers, NEW c \in Contexts, NEW p \in Addr,
         Return(c, p), \A i \in DOMAIN handed : handed[i].ptr # p
  PROVE  LET n == Len(handed) + 1 IN
         /\ handed' \in Seq(Memory)
         /\ DOMAIN handed' = DOMAIN handed \cup {n} /\ n \notin DOMAIN handed
         /\ \A i \in DOMAIN handed : handed'[i] = handed[i]
         /\ handed'[n].ptr = p /\ handed'[n].size = req[c]
         /\ live' = live \cup {n} /\ live' \subseteq DOMAIN handed'
         /\ FreshPointers'
         /\ pc' = [pc EXCEPT ![c] = "idle"]
         /\ at' = [at EXCEPT ![c] = 0] /\ req' = [req EXCEPT ![c] = 0]
         /\ pc' \in [Contexts -> {"idle", "walk", "take", "carve", "linked", "sized"}]
         /\ at' \in [Contexts -> Addr] /\ req' \in [Contexts -> Nat]
<1> DEFINE n == Len(handed) + 1
           m == [ptr |-> p, size |-> req[c]]
<1>1. m \in Memory /\ handed' = Append(handed, m)
  BY ModAddr DEF Return, Memory, MemoryTypes
<1>2. m.ptr = p /\ m.size = req[c]
  OBVIOUS
<1> HIDE DEF m
<1>3. /\ handed' \in Seq(Memory)
      /\ DOMAIN handed' = DOMAIN handed \cup {n} /\ n \notin DOMAIN handed
      /\ \A i \in DOMAIN handed : handed'[i] = handed[i]
      /\ handed'[n] = m
  BY <1>1, AppendFacts DEF MemoryTypes
<1>4. live' = live \cup {n}
  BY DEF Return
<1>5. FreshPointers'
  BY <1>2, <1>3 DEF FreshPointers
<1>6. 0 \in Addr
  BY StrideFacts DEF Addr
<1>7. /\ pc' = [pc EXCEPT ![c] = "idle"]
      /\ at' = [at EXCEPT ![c] = 0] /\ req' = [req EXCEPT ![c] = 0]
  BY DEF Return, Leave, Goto
<1> QED
  BY <1>2, <1>3, <1>4, <1>5, <1>6, <1>7 DEF MemoryTypes

\* A free block is handed out again.
LEMMA TakeStep ==
  ASSUME HeapInv, OneMallocer, NEW c \in Contexts, Take(c)
  PROVE  HeapInv'
<1>1. Steady /\ MemoryTypes /\ FreshPointers /\ up /\ pc[c] = "take"
      /\ UNCHANGED <<mmap, up, big, resets>>
  BY DEF HeapInv, Steady, MayRun, Take
<1>2. PICK S \in SUBSET Addr, top \in Addr : Blocks(S, top)
  BY <1>1 DEF HeapInv
<1>3. PICK b \in S : b = at[c]
  BY <1>1, <1>2 DEF Blocks, Walking
<1>4. ~hdr[b].allocated /\ hdr[b].size >= req[c] /\ c \in Mallocers
  BY <1>1, <1>2, <1>3 DEF Blocks, Walking, Suits
<1>5. b \in DOMAIN hdr /\ b < Half /\ S \subseteq DOMAIN hdr
  BY <1>2, <1>3 DEF Blocks, Laid
<1>6. b \in Nat /\ hdr[b] \in Header /\ hdr[b].size \in Nat /\ BlockEnd(b) \in Nat
      /\ b + 784 + hdr[b].size <= BlockEnd(b)
  BY <1>1, <1>5, EndOfBlock DEF Addr, MemoryTypes
<1>7. PICK p \in Addr : p = b + ToReused
  BY <1>5, <1>6, StrideFacts DEF Addr
<1>8. \A i \in DOMAIN handed : handed[i].ptr # p
  BY <1>2, <1>4, <1>7 DEF Blocks, Owned
<1>9. Return(c, p) /\ hdr' = [hdr EXCEPT ![b].allocated = TRUE]
  BY <1>3, <1>7 DEF Take
<1>10. PICK n : n = Len(handed) + 1
  OBVIOUS
<1>11. /\ handed' \in Seq(Memory)
       /\ DOMAIN handed' = DOMAIN handed \cup {n} /\ n \notin DOMAIN handed
       /\ \A i \in DOMAIN handed : handed'[i] = handed[i]
       /\ handed'[n].ptr = p /\ handed'[n].size = req[c]
       /\ live' = live \cup {n} /\ live' \subseteq DOMAIN handed'
       /\ FreshPointers'
       /\ pc' = [pc EXCEPT ![c] = "idle"]
       /\ pc' \in [Contexts -> {"idle", "walk", "take", "carve", "linked", "sized"}]
       /\ at' \in [Contexts -> Addr] /\ req' \in [Contexts -> Nat]
  BY <1>1, <1>8, <1>9, <1>10, ReturnStep
<1>12. /\ DOMAIN hdr' = DOMAIN hdr
       /\ \A d \in DOMAIN hdr : /\ hdr'[d] \in Header /\ hdr'[d].size = hdr[d].size
                                /\ d # b => hdr'[d] = hdr[d]
       /\ hdr'[b].allocated
  BY <1>1, <1>5, <1>6, <1>9 DEF Header, MemoryTypes
<1>13. Steady'
  BY <1>1, <1>11, <1>12 DEF Steady, MemoryTypes
<1>14. Laid(S, top)'
  BY <1>1, <1>2, <1>5, <1>12 DEF Blocks, Laid, BlockEnd, First, End
<1>15. Walking(S, top)'
  BY <1>1, <1>2, <1>4, <1>11 DEF Blocks, Walking, OneMallocer, Room, End, MemoryTypes
<1>16. live \subseteq DOMAIN handed /\ \A e \in S : e \in Nat /\ BlockEnd(e) \in Nat
         /\ e + 784 <= BlockEnd(e) /\ hdr[e].size \in Nat
  BY <1>1, <1>5, EndOfBlock DEF MemoryTypes, Addr
<1>17. \A e \in S : p = e + ToReused => e = b
  BY <1>6, <1>7, <1>16, StrideFacts
<1>18. \A e \in S : p # e + ToNew
  <2> SUFFICES ASSUME NEW e \in S, p = e + ToNew PROVE FALSE
    OBVIOUS
  <2>1. e = b + 672
    BY <1>6, <1>7, <1>16, StrideFacts
  <2>2. BlockEnd(b) <= e
    BY <1>2, <1>6, <2>1 DEF Blocks, Laid
  <2> QED
    BY <1>6, <2>1, <2>2
<1>19. \A i \in live : handed[i].ptr # b + ToNew
  BY <1>2, <1>4 DEF Blocks, Owned
<1>20. Owned(S)'
  <2>1. \A i \in DOMAIN handed' : \E e \in S : Owner(e, i)'
    <3> SUFFICES ASSUME NEW i \in DOMAIN handed' PROVE \E e \in S : Owner(e, i)'
      OBVIOUS
    <3>1. CASE i = n
      BY <3>1, <1>4, <1>5, <1>7, <1>11, <1>12 DEF Owner
    <3>2. CASE i \in DOMAIN handed
      <4> PICK e \in S : Owner(e, i)
        BY <3>2, <1>2 DEF Blocks, Owned
      <4> QED
        BY <3>2, <1>5, <1>11, <1>12 DEF Owner
    <3> QED
      BY <1>11, <3>1, <3>2
  <2>2. ASSUME NEW e \in S, NEW i \in live', handed'[i].ptr = e + ToNew
        PROVE  hdr'[e].allocated
    <3>1. i \in live /\ handed'[i] = handed[i]
      BY <1>11, <1>16, <1>18, <2>2
    <3> QED
      BY <3>1, <1>2, <1>5, <1>12, <2>2 DEF Blocks, Owned
  <2>3. ASSUME NEW e \in S, NEW j \in DOMAIN handed', handed'[j].ptr = e + ToReused
        PROVE  hdr'[e].allocated /\ \A i \in live' : handed'[i].ptr # e + ToNew
    <3>1. CASE e = b
      <4>1. \A i \in live' : handed'[i].ptr # b + ToNew
        BY <1>11, <1>16, <1>18, <1>19
      <4> QED
        BY <3>1, <4>1, <1>12
    <3>2. CASE e # b
      <4>1. j \in DOMAIN handed /\ handed[j].ptr = e + ToReused
        BY <3>2, <2>3, <1>11, <1>17
      <4>2. hdr[e].allocated /\ \A i \in live : handed[i].ptr # e + ToNew
        BY <4>1, <1>2 DEF Blocks, Owned
      <4> QED
        BY <3>2, <4>2, <1>5, <1>11, <1>12, <1>16, <1>18
    <3> QED
      BY <3>1, <3>2
  <2> QED
    BY <2>1, <2>2, <2>3 DEF Owned
<1>21. Fitted(S, top)'
  <2>1. ASSUME resets <= 1 PROVE Room(b, hdr[b].size)
    BY <1>2, <1>4, <1>5, <2>1 DEF Blocks, Fitted
  <2>2. ASSUME resets <= 1, NEW d \in DOMAIN hdr, d \in S \/ top <= d, d < Half
        PROVE  hdr'[d].allocated \/ Room(d, hdr[d].size)
    BY <1>2, <1>12, <2>2 DEF Blocks, Fitted
  <2>3. ASSUME resets <= 1, NEW e \in S, NEW i \in DOMAIN handed',
               handed'[i].ptr \in {e + ToNew, e + ToReused}
        PROVE  Room(e, hdr[e].size)
    <3>1. CASE i = n
      BY <1>11, <1>17, <1>18, <2>1, <2>3, <3>1
    <3>2. CASE i \in DOMAIN handed
      BY <1>2, <1>11, <2>3, <3>2 DEF Blocks, Fitted
    <3> QED BY <1>11, <3>1, <3>2
  <2>4. resets = 0 => DOMAIN hdr' \subseteq S \cup {top, Origin}
    BY <1>2, <1>12 DEF Blocks, Fitted
  <2> QED BY <1>1, <1>5, <1>12, <2>2, <2>3, <2>4 DEF Fitted, Room, End, Origin
<1>22. Blocks(S, top)'
  BY <1>14, <1>15, <1>20, <1>21 DEF Blocks
<1> QED
  BY <1>1, <1>13, <1>22 DEF HeapInv, Region0

\* The store through prev does not change what the invariant speaks of.
LEMMA LinkStep ==
  ASSUME HeapInv, NEW c \in Contexts, CarveLink(c)
  PROVE  HeapInv'
<1>1. MemoryTypes /\ up /\ pc[c] = "carve"
      /\ UNCHANGED <<mmap, up, big, hdr, at, req, handed, live, resets>>
      /\ pc' = [pc EXCEPT ![c] = "linked"]
  BY DEF HeapInv, Steady, MayRun, CarveLink, Goto
<1>2. PICK S \in SUBSET Addr, top \in Addr : Blocks(S, top)
  BY <1>1 DEF HeapInv
<1>3. /\ pc' \in [Contexts -> {"idle", "walk", "take", "carve", "linked", "sized"}]
      /\ at' \in [Contexts -> Addr] /\ req' \in [Contexts -> Nat]
  BY <1>1 DEF MemoryTypes
<1>4. Walking(S, top)'
  BY <1>1, <1>2 DEF Blocks, Walking, Suits, InHeap, End, Room, MemoryTypes
<1> QED
  BY <1>1, <1>2, <1>3, <1>4, LocalStep

\* A header appears at top; the walked blocks do not change yet.
LEMMA SignStep ==
  ASSUME HeapInv, OneMallocer, NEW c \in Contexts, CarveSign(c)
  PROVE  HeapInv'
<1>1. Steady /\ MemoryTypes /\ FreshPointers /\ up /\ pc[c] = "linked"
      /\ UNCHANGED <<mmap, up, big, at, req, handed, live, resets>>
      /\ pc' = [pc EXCEPT ![c] = "sized"]
  BY DEF HeapInv, Steady, MayRun, CarveSign, Goto
<1>2. PICK S \in SUBSET Addr, top \in Addr : Blocks(S, top)
  BY <1>1 DEF HeapInv
<1>3. at[c] = top /\ InHeap(top) /\ top \notin DOMAIN hdr /\ c \in Mallocers
  BY <1>1, <1>2 DEF Blocks, Walking
<1>4. PICK junk \in Stale : hdr' = Put(top, [allocated |-> TRUE, size |-> junk])
  BY <1>3 DEF CarveSign
<1>5. /\ DOMAIN hdr' = DOMAIN hdr \cup {top}
      /\ \A d \in DOMAIN hdr : hdr'[d] = hdr[d]
      /\ hdr'[top] \in Header /\ hdr'[top].size \in Known
      /\ hdr'[top].allocated
  BY <1>3, <1>4, SizeAssumption DEF Put, Header, Known
<1>6. Steady'
  BY <1>1, <1>5 DEF Steady, MemoryTypes, FreshPointers
<1>7. S \subseteq DOMAIN hdr
  BY <1>2 DEF Blocks, Laid
<1>8. Laid(S, top)'
  BY <1>1, <1>2, <1>5, <1>7 DEF Blocks, Laid, BlockEnd, First, End
<1>9. Walking(S, top)'
  BY <1>1, <1>2, <1>3, <1>5 DEF Blocks, Walking, OneMallocer, MemoryTypes, InHeap, End, Room
<1>10. Owned(S)'
  BY <1>1, <1>2, <1>5, <1>7 DEF Blocks, Owned, Owner
<1>11. Fitted(S, top)'
  BY <1>1, <1>2, <1>5, <1>7 DEF Blocks, Fitted, Room, End, Origin
<1>12. Blocks(S, top)'
  BY <1>8, <1>9, <1>10, <1>11 DEF Blocks
<1> QED
  BY <1>1, <1>6, <1>12 DEF HeapInv, Region0

\* The new block is complete and joins the walked blocks.
LEMMA SizeStep ==
  ASSUME HeapInv, OneMallocer, NEW c \in Contexts, CarveSize(c)
  PROVE  HeapInv'
<1>1. Steady /\ MemoryTypes /\ FreshPointers /\ up /\ pc[c] = "sized"
      /\ UNCHANGED <<mmap, up, big, resets>>
  BY DEF HeapInv, Steady, MayRun, CarveSize
<1>2. PICK S \in SUBSET Addr, top \in Addr : Blocks(S, top)
  BY <1>1 DEF HeapInv
<1>3. at[c] = top /\ InHeap(top) /\ top \in DOMAIN hdr /\ c \in Mallocers
      /\ req[c] \in Sizes
  BY <1>1, <1>2 DEF Blocks, Walking
<1>4. top \in Nat /\ top < Half /\ top < End /\ hdr[top] \in Header
      /\ req[c] \in Known /\ req[c] \in Nat
  BY <1>1, <1>3, SizeAssumption DEF InHeap, Half, Addr, MemoryTypes, Known
<1>5. PICK u \in Addr : u = top + Stride(req[c])
  BY <1>4, StrideFacts DEF Addr
<1>6. u \in Nat /\ top + 784 + req[c] <= u
  BY <1>4, <1>5, StrideFacts DEF Addr
<1>7. PICK p \in Addr : p = top + ToNew
  BY <1>4, StrideFacts DEF Addr
<1>8. \A e \in S : /\ e \in DOMAIN hdr /\ e \in Nat /\ BlockEnd(e) \in Nat
                   /\ e + 784 <= BlockEnd(e) /\ BlockEnd(e) <= top
                   /\ BlockEnd(e) \in S \cup {top}
  BY <1>1, <1>2, EndOfBlock DEF Blocks, Laid, Addr
<1>9. top \notin S
  BY <1>4, <1>8
<1>10. \A i \in DOMAIN handed : handed[i].ptr # p /\ handed[i].ptr # top + ToReused
  <2> TAKE i \in DOMAIN handed
  <2>1. PICK b \in S : Owner(b, i)
    BY <1>2 DEF Blocks, Owned
  <2>2. handed[i].ptr \in Nat /\ handed[i].size \in Nat
        /\ handed[i].ptr + handed[i].size <= top
    BY <1>1, <1>2, <1>8, <2>1, Inside DEF Addr
  <2> QED
    BY <1>4, <1>7, <2>2, StrideFacts
<1>11. Return(c, p) /\ hdr' = [hdr EXCEPT ![top].size = req[c]]
  BY <1>3, <1>7 DEF CarveSize
<1>12. PICK n : n = Len(handed) + 1
  OBVIOUS
<1>13. /\ handed' \in Seq(Memory)
       /\ DOMAIN handed' = DOMAIN handed \cup {n} /\ n \notin DOMAIN handed
       /\ \A i \in DOMAIN handed : handed'[i] = handed[i]
       /\ handed'[n].ptr = p /\ handed'[n].size = req[c]
       /\ live' = live \cup {n} /\ live' \subseteq DOMAIN handed'
       /\ FreshPointers'
       /\ pc' = [pc EXCEPT ![c] = "idle"]
       /\ pc' \in [Contexts -> {"idle", "walk", "take", "carve", "linked", "sized"}]
       /\ at' \in [Contexts -> Addr] /\ req' \in [Contexts -> Nat]
  BY <1>1, <1>10, <1>11, <1>12, ReturnStep
<1>14. /\ DOMAIN hdr' = DOMAIN hdr
       /\ \A d \in DOMAIN hdr : hdr'[d] \in Header /\ (d # top => hdr'[d] = hdr[d])
       /\ hdr'[top].size = req[c] /\ hdr'[top].allocated = hdr[top].allocated
  BY <1>1, <1>3, <1>4, <1>11 DEF Header, MemoryTypes
<1>15. Steady'
  BY <1>1, <1>4, <1>13, <1>14 DEF Steady, MemoryTypes
<1>16. \A e \in S : hdr'[e] = hdr[e] /\ BlockEnd(e)' = BlockEnd(e)
  BY <1>8, <1>9, <1>14 DEF BlockEnd
<1>17. BlockEnd(top)' = u /\ End' = End /\ First' = First
  BY <1>1, <1>5, <1>14 DEF BlockEnd, End, First
<1> DEFINE T == S \cup {top}
<1>18. Laid(T, u)'
  <2>1. T \subseteq DOMAIN hdr' /\ First' \in T \cup {u}
    BY <1>2, <1>3, <1>14, <1>17 DEF Blocks, Laid
  <2>2. ASSUME NEW d \in T
        PROVE  First' <= d /\ d < Half /\ d < End' /\ BlockEnd(d)' <= u
               /\ BlockEnd(d)' \in T \cup {u}
    <3>1. CASE d = top
      <4>1. First <= top
        BY <1>2, <1>4, <1>8 DEF Blocks, Laid
      <4> QED BY <3>1, <4>1, <1>4, <1>6, <1>17
    <3>2. CASE d \in S
      BY <3>2, <1>2, <1>4, <1>6, <1>8, <1>16, <1>17 DEF Blocks, Laid
    <3> QED
      BY <3>1, <3>2
  <2>3. ASSUME NEW d \in T, NEW e \in T, d < e
        PROVE  BlockEnd(d)' <= e
    <3>1. CASE d \in S /\ e \in S
      BY <3>1, <2>3, <1>2, <1>16 DEF Blocks, Laid
    <3>2. CASE d \in S /\ e = top
      BY <3>2, <1>8, <1>16
    <3>3. CASE d = top
      BY <3>3, <2>3, <1>4, <1>8
    <3> QED
      BY <3>1, <3>2, <3>3
  <2> QED
    BY <2>1, <2>2, <2>3 DEF Laid
<1>19. Walking(T, u)'
  BY <1>1, <1>2, <1>3, <1>13 DEF Blocks, Walking, OneMallocer, Room, End, MemoryTypes
<1>20. p # top + ToReused /\ \A e \in S : p # e + ToReused /\ p # e + ToNew
  BY <1>4, <1>7, <1>8, StrideFacts
<1>21. live \subseteq DOMAIN handed
  BY <1>1 DEF MemoryTypes
<1>22. hdr[top].allocated
  BY <1>1, <1>2, <1>3 DEF Blocks, Walking
<1>23. Owned(T)'
  <2>1. \A i \in DOMAIN handed' : \E e \in T : Owner(e, i)'
    <3> SUFFICES ASSUME NEW i \in DOMAIN handed' PROVE \E e \in T : Owner(e, i)'
      OBVIOUS
    <3>1. CASE i = n
      BY <3>1, <1>4, <1>7, <1>13, <1>14 DEF Owner
    <3>2. CASE i \in DOMAIN handed
      <4> PICK e \in S : Owner(e, i)
        BY <3>2, <1>2 DEF Blocks, Owned
      <4> QED
        BY <3>2, <1>13, <1>16 DEF Owner
    <3> QED
      BY <1>13, <3>1, <3>2
  <2>2. ASSUME NEW e \in T, NEW i \in live', handed'[i].ptr = e + ToNew
        PROVE  hdr'[e].allocated
    <3>1. CASE e = top
      BY <3>1, <1>14, <1>22
    <3>2. CASE e \in S
      <4>1. i \in live /\ handed'[i] = handed[i]
        BY <3>2, <2>2, <1>13, <1>20, <1>21
      <4> QED
        BY <3>2, <4>1, <2>2, <1>2, <1>16 DEF Blocks, Owned
    <3> QED
      BY <3>1, <3>2
  <2>3. ASSUME NEW e \in T, NEW j \in DOMAIN handed', handed'[j].ptr = e + ToReused
        PROVE  hdr'[e].allocated /\ \A i \in live' : handed'[i].ptr # e + ToNew
    <3>1. e \in S /\ j \in DOMAIN handed /\ handed[j].ptr = e + ToReused
      BY <2>3, <1>10, <1>13, <1>20
    <3>2. hdr[e].allocated /\ \A i \in live : handed[i].ptr # e + ToNew
      BY <3>1, <1>2 DEF Blocks, Owned
    <3> QED
      BY <3>1, <3>2, <1>13, <1>16, <1>20, <1>21
  <2> QED
    BY <2>1, <2>2, <2>3 DEF Owned
<1>24. Fitted(T, u)'
  <2>1. Room(top, req[c])
    BY <1>1, <1>2 DEF Blocks, Walking
  <2>2. ASSUME resets <= 1, NEW d \in DOMAIN hdr, d \in T \/ u <= d, d < Half
        PROVE  hdr'[d].allocated \/ Room(d, hdr'[d].size)
    <3>1. CASE d = top
      BY <1>14, <2>1, <3>1
    <3>2. CASE d # top
      <4>1. d \in S \/ top <= d
        BY <1>1, <1>4, <1>6, <2>2, <3>2 DEF MemoryTypes, Addr
      <4> QED BY <1>2, <1>14, <2>2, <3>2, <4>1 DEF Blocks, Fitted
    <3> QED BY <3>1, <3>2
  <2>3. ASSUME resets <= 1, NEW e \in T, NEW i \in DOMAIN handed',
               handed'[i].ptr \in {e + ToNew, e + ToReused}
        PROVE  Room(e, hdr'[e].size)
    <3>1. CASE e = top
      BY <1>14, <2>1, <3>1
    <3>2. CASE e \in S
      <4>1. i \in DOMAIN handed /\ handed'[i] = handed[i]
        BY <1>13, <1>20, <2>3, <3>2
      <4> QED BY <1>2, <1>16, <2>3, <3>2, <4>1 DEF Blocks, Fitted
    <3> QED BY <3>1, <3>2
  <2>4. resets = 0 => DOMAIN hdr' \subseteq T \cup {u, Origin}
    BY <1>2, <1>14 DEF Blocks, Fitted
  <2> QED BY <1>1, <1>14, <2>2, <2>3, <2>4 DEF Fitted, Room, End, Origin
<1> HIDE DEF T
<1>25. Blocks(T, u)' /\ T \in SUBSET Addr
  <2>1. Blocks(T, u)'
    BY <1>18, <1>19, <1>23, <1>24 DEF Blocks
  <2> QED
    BY <2>1 DEF T
<1> QED
  BY <1>1, <1>15, <1>25 DEF HeapInv, Region0

\* free() finds either the block of a new pointer, or no block of S.
LEMMA FreeStep ==
  ASSUME HeapInv, NEW c \in Contexts, NEW i \in live, free(c, i)
  PROVE  HeapInv'
<1>1. Steady /\ MemoryTypes /\ FreshPointers /\ up /\ live' = live \ {i}
      /\ UNCHANGED <<mmap, up, big, pc, at, req, handed, resets>>
  BY DEF HeapInv, Steady, MayRun, free
<1>2. PICK S \in SUBSET Addr, top \in Addr : Blocks(S, top)
  BY <1>1 DEF HeapInv
<1>3. live \subseteq DOMAIN handed /\ i \in DOMAIN handed
  BY <1>1 DEF MemoryTypes
<1>4. PICK b \in S : Owner(b, i)
  BY <1>2, <1>3 DEF Blocks, Owned
<1>5. \A e \in S : /\ e \in DOMAIN hdr /\ e \in Nat /\ BlockEnd(e) \in Nat
                   /\ hdr[e].size \in Nat
                   /\ e + 784 + hdr[e].size <= BlockEnd(e) /\ BlockEnd(e) <= top
  BY <1>1, <1>2, EndOfBlock DEF Blocks, Laid, Addr
<1>6. PICK f : f = FreeBlock(i)
  OBVIOUS
<1>7. f = handed[i].ptr - 112 /\ f \in Nat /\ f \in {b, b + 672} /\ f # top
  <2>1. handed[i].ptr \in Addr
    BY <1>1, <1>3, HandedType
  <2>2. handed[i].ptr - 112 \in {b, b + 672}
    BY <1>4, <1>5, <2>1, StrideFacts DEF Owner, Addr
  <2>3. handed[i].ptr - 112 \in Addr
    BY <1>5, <2>1, <2>2, StrideFacts DEF Addr
  <2>4. FreeBlock(i) = handed[i].ptr - 112
    BY <2>3, ModAddr, StrideFacts DEF FreeBlock
  <2> QED
    BY <1>5, <1>6, <2>2, <2>3, <2>4 DEF Addr
<1>8. \A e \in S : e = f => e = b /\ handed[i].ptr = e + ToNew
  <2> SUFFICES ASSUME NEW e \in S, e = f PROVE e = b /\ handed[i].ptr = e + ToNew
    OBVIOUS
  <2>1. e # b + 672
    <3> SUFFICES ASSUME e = b + 672 PROVE FALSE
      OBVIOUS
    <3>1. BlockEnd(b) <= e
      BY <1>2, <1>5 DEF Blocks, Laid
    <3> QED
      BY <1>5, <3>1
  <2>2. handed[i].ptr \in Int
    BY <1>1, <1>3, HandedType DEF Addr
  <2> QED
    BY <1>7, <2>1, <2>2, StrideFacts
<1>9. /\ DOMAIN hdr' = DOMAIN hdr
      /\ \A d \in DOMAIN hdr : /\ hdr'[d] \in Header /\ hdr'[d].size = hdr[d].size
                               /\ d # f => hdr'[d] = hdr[d]
                               /\ ~hdr[d].allocated => ~hdr'[d].allocated
  <2>1. hdr' = IF f \in DOMAIN hdr THEN [hdr EXCEPT ![f].allocated = FALSE] ELSE hdr
    BY <1>6 DEF free, check_magic
  <2> QED
    BY <1>1, <2>1 DEF MemoryTypes, Header
<1>10. Steady'
  BY <1>1, <1>3, <1>9 DEF Steady, MemoryTypes, FreshPointers
<1>11. Laid(S, top)'
  BY <1>1, <1>2, <1>5, <1>9 DEF Blocks, Laid, BlockEnd, First, End
<1>12. Walking(S, top)'
  <2> SUFFICES ASSUME NEW x \in Contexts, pc[x] # "idle"
               PROVE  /\ x \in Mallocers /\ req[x] \in Sizes
                      /\ at[x] \in S \cup {top}
                      /\ pc[x] = "take" => at[x] \in S /\ Suits(at[x], req[x])'
                      /\ pc[x] \in {"carve", "linked", "sized"} =>
                           at[x] = top /\ InHeap(top)' /\ Room(top, req[x])'
                      /\ pc[x] \in {"carve", "linked"} => top \notin DOMAIN hdr'
                      /\ pc[x] = "sized" => top \in DOMAIN hdr' /\ hdr'[top].allocated
    BY <1>1 DEF Walking, Suits
  <2>1. /\ x \in Mallocers /\ req[x] \in Sizes
        /\ at[x] \in S \cup {top}
        /\ pc[x] = "take" => at[x] \in S /\ Suits(at[x], req[x])
        /\ pc[x] \in {"carve", "linked", "sized"} => at[x] = top /\ InHeap(top) /\ Room(top, req[x])
        /\ pc[x] \in {"carve", "linked"} => top \notin DOMAIN hdr
        /\ pc[x] = "sized" => top \in DOMAIN hdr /\ hdr[top].allocated
    BY <1>2 DEF Blocks, Walking
  <2>2. pc[x] = "take" => at[x] \in S /\ Suits(at[x], req[x])'
    <3> SUFFICES ASSUME pc[x] = "take" PROVE at[x] \in S /\ Suits(at[x], req[x])'
      OBVIOUS
    <3>1. PICK a \in S : a = at[x]
      BY <2>1
    <3>2. ~hdr[a].allocated /\ hdr[a].size >= req[x] /\ a \in DOMAIN hdr
      BY <1>5, <2>1, <3>1 DEF Suits
    <3>3. ~hdr'[a].allocated /\ hdr'[a].size >= req[x]
      BY <1>9, <3>2
    <3> QED
      BY <1>1, <3>1, <3>3 DEF Suits
  <2>3. InHeap(top) /\ Room(top, req[x]) => InHeap(top)' /\ Room(top, req[x])'
    BY <1>1 DEF InHeap, Room, End
  <2>4. DOMAIN hdr' = DOMAIN hdr /\ (top \in DOMAIN hdr => hdr'[top] = hdr[top])
    BY <1>7, <1>9
  <2> QED
    BY <2>1, <2>2, <2>3, <2>4
<1>13. Owned(S)'
  <2>1. \A j \in DOMAIN handed' : \E e \in S : Owner(e, j)'
    <3> SUFFICES ASSUME NEW j \in DOMAIN handed PROVE \E e \in S : Owner(e, j)'
      BY <1>1
    <3> PICK e \in S : Owner(e, j)
      BY <1>2 DEF Blocks, Owned
    <3> QED
      BY <1>1, <1>5, <1>9 DEF Owner
  <2>2. ASSUME NEW e \in S, NEW j \in live', handed'[j].ptr = e + ToNew
        PROVE  hdr'[e].allocated
    <3>1. j \in live /\ j # i /\ handed[j].ptr = e + ToNew /\ hdr[e].allocated
      BY <1>1, <1>2, <2>2 DEF Blocks, Owned
    <3>2. e # f
      BY <1>1, <1>3, <1>8, <3>1 DEF FreshPointers
    <3> QED
      BY <1>5, <1>9, <3>1, <3>2
  <2>3. ASSUME NEW e \in S, NEW j \in DOMAIN handed', handed'[j].ptr = e + ToReused
        PROVE  hdr'[e].allocated /\ \A k \in live' : handed'[k].ptr # e + ToNew
    <3>1. hdr[e].allocated /\ \A k \in live : handed[k].ptr # e + ToNew
      BY <1>1, <1>2, <2>3 DEF Blocks, Owned
    <3>2. e # f
      BY <1>8, <3>1
    <3> QED
      BY <1>1, <1>5, <1>9, <3>1, <3>2
  <2> QED
    BY <2>1, <2>2, <2>3 DEF Owned
<1>14. Fitted(S, top)'
  <2>1. f < top
    BY <1>4, <1>5, <1>7 DEF Addr
  <2>2. ASSUME resets <= 1, NEW d \in DOMAIN hdr, d \in S \/ top <= d, d < Half
        PROVE  hdr'[d].allocated \/ Room(d, hdr[d].size)
    <3>1. CASE d = f
      <4>1. d \in S
        BY <1>7, <2>1, <2>2, <3>1 DEF Addr
      <4>2. d = b /\ handed[i].ptr = b + ToNew
        BY <1>8, <3>1, <4>1
      <4> QED BY <1>2, <1>3, <2>2, <4>2 DEF Blocks, Fitted
    <3>2. CASE d # f
      BY <1>2, <1>9, <2>2, <3>2 DEF Blocks, Fitted
    <3> QED BY <3>1, <3>2
  <2> QED BY <1>1, <1>2, <1>5, <1>9, <2>2 DEF Blocks, Fitted, Room, End, Origin
<1>15. Blocks(S, top)'
  BY <1>11, <1>12, <1>13, <1>14 DEF Blocks
<1> QED
  BY <1>1, <1>10, <1>15 DEF HeapInv, Region0

\* Headers of walked blocks, and the one being written at top, are not part
\* of any memory handed out.
LEMMA HeadersApart ==
  ASSUME Steady, NEW S \in SUBSET Addr, NEW top \in Addr, Blocks(S, top),
         NEW i \in live, NEW d \in Nat, d \in S \/ top <= d
  PROVE  Apart(d, sizeof_alloc_struct, handed[i].ptr, handed[i].size)
<1>1. i \in DOMAIN handed
  BY DEF Steady, MemoryTypes
<1>2. PICK b \in S : Owner(b, i)
  BY <1>1 DEF Blocks, Owned
<1>3. /\ handed[i].ptr \in Nat /\ handed[i].size \in Nat
      /\ b + 112 <= handed[i].ptr /\ BlockEnd(b) <= top
      /\ handed[i].ptr + handed[i].size <= BlockEnd(b)
  BY <1>1, <1>2, Inside
<1>4. \A e \in S : /\ e \in Nat /\ BlockEnd(e) \in Nat /\ e + 784 <= BlockEnd(e)
  BY EndOfBlock DEF Blocks, Laid, Addr
<1>5. top \in Nat
  BY DEF Addr
<1>6. CASE top <= d
  BY <1>3, <1>4, <1>5, <1>6, StrideFacts DEF Apart
<1>7. CASE d \in S
  <2>1. d = b \/ BlockEnd(d) <= b \/ BlockEnd(b) <= d
    BY <1>2, <1>4, <1>7 DEF Blocks, Laid
  <2> QED
    BY <1>3, <1>4, <1>7, <2>1, StrideFacts DEF Apart
<1> QED
  BY <1>6, <1>7

\* Filling memory that was handed out destroys no walked header.
LEMMA WriteStep ==
  ASSUME HeapInv, NEW i \in live, Write(i)
  PROVE  HeapInv'
<1>1. Steady /\ MemoryTypes /\ FreshPointers /\ up
      /\ UNCHANGED <<mmap, up, big, pc, at, req, handed, live, resets>>
  BY DEF HeapInv, Steady, Write
<1>2. PICK S \in SUBSET Addr, top \in Addr : Blocks(S, top)
  BY <1>1 DEF HeapInv
<1>3. PICK K \in SUBSET DOMAIN hdr :
        /\ K = {d \in DOMAIN hdr : Apart(d, sizeof_alloc_struct,
                                         handed[i].ptr, handed[i].size)}
        /\ hdr' = Restrict(hdr, K)
  BY DEF Write
<1>4. DOMAIN hdr' = K /\ \A d \in K : hdr'[d] = hdr[d]
  BY <1>3 DEF Restrict
<1>5. S \subseteq DOMAIN hdr /\ S \subseteq Nat /\ top \in Nat
  BY <1>2 DEF Blocks, Laid, Addr
<1>6. S \subseteq K
  BY <1>1, <1>2, <1>3, <1>5, HeadersApart
<1>7. top \in DOMAIN hdr => top \in K
  BY <1>1, <1>2, <1>3, <1>5, HeadersApart
<1>8. Steady'
  BY <1>1, <1>4 DEF Steady, MemoryTypes, FreshPointers
<1>9. Laid(S, top)'
  BY <1>1, <1>2, <1>4, <1>6 DEF Blocks, Laid, BlockEnd, First, End
<1>10. Walking(S, top)'
  BY <1>1, <1>2, <1>4, <1>6, <1>7 DEF Blocks, Walking, Suits, InHeap, End, Room
<1>11. Owned(S)'
  BY <1>1, <1>2, <1>4, <1>6 DEF Blocks, Owned, Owner
<1>12. Fitted(S, top)'
  BY <1>1, <1>2, <1>3, <1>4, <1>6 DEF Blocks, Fitted, Room, End, Origin
<1>13. Blocks(S, top)'
  BY <1>9, <1>10, <1>11, <1>12 DEF Blocks
<1> QED
  BY <1>1, <1>8, <1>13 DEF HeapInv, Region0

-----------------------------------------------------------------------------
\* Every step keeps the invariant.
LEMMA NextInv ==
  ASSUME HeapInv, OneMallocer, [Next]_vars
  PROVE  HeapInv'
<1>1. CASE UNCHANGED vars
  <2>1. UNCHANGED <<mmap, up, big, hdr, pc, at, req, handed, live, resets>>
    BY <1>1 DEF vars
  <2>2. Steady'
    BY <2>1 DEF HeapInv, Steady, MemoryTypes, FreshPointers
  <2>3. ASSUME NEW S, NEW top, Blocks(S, top) PROVE Blocks(S, top)'
    BY <2>1, <2>3 DEF Blocks, Laid, Walking, Owned, Owner, BlockEnd, First,
       End, Suits, InHeap, Fitted, Room, Origin
  <2>4. Kept => Kept'
    BY <2>1 DEF Kept, Region0
  <2> QED
    BY <2>1, <2>2, <2>3, <2>4 DEF HeapInv, Region0
<1>2. CASE Next
  <2>1. CASE pmm_setup \/ Reset
    BY <2>1, SetupStep, ResetStep
  <2>2. ASSUME NEW c \in Contexts, MallocStep(c) PROVE HeapInv'
    BY <2>2, WalkSteps, TakeStep, LinkStep, SignStep, SizeStep DEF MallocStep
  <2>3. ASSUME NEW c \in Contexts, NEW s \in Sizes, malloc(c, s) PROVE HeapInv'
    BY <2>3, MallocCall
  <2>4. ASSUME NEW c \in Contexts, NEW i \in live, free(c, i) PROVE HeapInv'
    BY <2>4, FreeStep
  <2>5. ASSUME NEW i \in live, Write(i) PROVE HeapInv'
    BY <2>5, WriteStep
  <2> QED
    BY <1>2, <2>1, <2>2, <2>3, <2>4, <2>5 DEF Next
<1> QED
  BY <1>1, <1>2

\* The invariant implies that memory with two owners does not overlap.
LEMMA InvDisjoint ==
  ASSUME HeapInv
  PROVE  PayloadsDisjoint
<1> SUFFICES ASSUME NEW i \in live, NEW j \in live, i # j
             PROVE  Apart(handed[i].ptr, handed[i].size,
                          handed[j].ptr, handed[j].size)
  BY DEF PayloadsDisjoint
<1>1. Steady /\ FreshPointers /\ i \in DOMAIN handed /\ j \in DOMAIN handed
  BY DEF HeapInv, Steady, MemoryTypes
<1>2. PICK S \in SUBSET Addr, top \in Addr : Blocks(S, top)
  BY <1>1 DEF HeapInv
<1>3. PICK b \in S : Owner(b, i)
  BY <1>1, <1>2 DEF Blocks, Owned
<1>4. PICK e \in S : Owner(e, j)
  BY <1>1, <1>2 DEF Blocks, Owned
<1>5. b # e
  <2> SUFFICES ASSUME b = e PROVE FALSE
    OBVIOUS
  <2>1. handed[i].ptr # handed[j].ptr
    BY <1>1 DEF FreshPointers
  <2>2. \/ handed[i].ptr = b + ToReused /\ handed[j].ptr = b + ToNew
        \/ handed[j].ptr = b + ToReused /\ handed[i].ptr = b + ToNew
    BY <1>3, <1>4, <2>1 DEF Owner
  <2> QED
    BY <1>1, <1>2, <2>2 DEF Blocks, Owned
<1>6. BlockEnd(b) <= e \/ BlockEnd(e) <= b
  <2>1. b \in Nat /\ e \in Nat
    BY DEF Addr
  <2> QED
    BY <1>2, <1>5, <2>1 DEF Blocks, Laid
<1>7. /\ b \in Nat /\ e \in Nat /\ BlockEnd(b) \in Nat /\ BlockEnd(e) \in Nat
      /\ handed[i].ptr \in Nat /\ handed[i].size \in Nat
      /\ handed[j].ptr \in Nat /\ handed[j].size \in Nat
      /\ b + 112 <= handed[i].ptr /\ handed[i].ptr + handed[i].size <= BlockEnd(b)
      /\ e + 112 <= handed[j].ptr /\ handed[j].ptr + handed[j].size <= BlockEnd(e)
  BY <1>1, <1>2, <1>3, <1>4, Inside, EndOfBlock DEF Addr, Blocks, Laid
<1> QED
  BY <1>6, <1>7 DEF Apart

\* The invariant implies that no visited header lies in memory handed out.
LEMMA InvHeaders ==
  ASSUME HeapInv
  PROVE  HeadersSafe
<1> SUFFICES ASSUME NEW i \in live, NEW d \in Chain
             PROVE  Apart(d, sizeof_alloc_struct, handed[i].ptr, handed[i].size)
  BY DEF HeadersSafe
<1>1. Steady /\ MemoryTypes /\ i \in DOMAIN handed
  BY DEF HeapInv, Steady, MemoryTypes
<1>2. up
  BY <1>1 DEF HeapInv
<1>3. PICK S \in SUBSET Addr, top \in Addr : Blocks(S, top)
  BY <1>2 DEF HeapInv
<1>4. S \subseteq DOMAIN hdr /\ First \in S \cup {top} /\ top \in Nat
      /\ \A e \in S : e < Half /\ e < End /\ BlockEnd(e) \in S \cup {top}
  BY <1>3 DEF Blocks, Laid, Addr
<1>5. \A e \in DOMAIN hdr : /\ e \in Nat /\ BlockEnd(e) \in Nat /\ e <= BlockEnd(e)
                            /\ e < Half => Following(e) = BlockEnd(e)
  BY <1>1, EndOfBlock DEF Addr
<1>6. PICK T \in SUBSET DOMAIN hdr :
        T = {e \in DOMAIN hdr : InHeap(e) /\ (e \in S \/ top <= e)}
  OBVIOUS
<1>7. ChainClosed(T)
  <2>1. Visits(First, T)
    BY <1>4, <1>6 DEF Visits, check_magic
  <2>2. ASSUME NEW e \in T PROVE Visits(Following(e), T)
    <3>1. e \in DOMAIN hdr /\ e < Half /\ (e \in S \/ top <= e)
      BY <1>6 DEF InHeap, Half
    <3>2. Following(e) = BlockEnd(e) /\ (BlockEnd(e) \in S \/ top <= BlockEnd(e))
      BY <1>4, <1>5, <3>1
    <3> QED
      BY <1>6, <3>2 DEF Visits, check_magic
  <2> QED
    BY <2>1, <2>2 DEF ChainClosed
<1>8. d \in T
  BY <1>7 DEF Chain
<1> QED
  BY <1>1, <1>3, <1>5, <1>6, <1>8, HeadersApart

\* The walk does not leave the region.
LEMMA ChainInside ==
  ASSUME Steady, NEW d \in Chain, First \in Addr
  PROVE  d \in Addr /\ First <= d /\ InHeap(d)
<1>1. \A e \in DOMAIN hdr : /\ e \in Addr /\ e \in Nat /\ BlockEnd(e) \in Nat /\ e <= BlockEnd(e)
                            /\ e < Half => Following(e) = BlockEnd(e)
  BY EndOfBlock DEF Addr
<1>2. PICK T \in SUBSET DOMAIN hdr :
        T = {e \in DOMAIN hdr : InHeap(e) /\ First <= e}
  OBVIOUS
<1>3. Visits(First, T)
  BY <1>2 DEF Visits, check_magic, Addr
<1>4. ASSUME NEW e \in T PROVE Visits(Following(e), T)
  <2>1. e \in DOMAIN hdr /\ e < Half /\ First <= e
    BY <1>2 DEF InHeap, Half
  <2>2. Following(e) = BlockEnd(e) /\ First <= BlockEnd(e)
    BY <1>1, <2>1 DEF Addr
  <2> QED BY <1>2, <2>2 DEF Visits, check_magic
<1>5. d \in T
  BY <1>3, <1>4 DEF ChainClosed, Chain
<1> QED BY <1>1, <1>2, <1>5

\* The invariant bounds the distance by which a block sticks out of the region.
LEMMA InvOverrun ==
  ASSUME HeapInv, resets <= 1
  PROVE  /\ \A i \in live : handed[i].ptr + handed[i].size <= End + 756
         /\ OverrunBound
<1>1. Steady /\ MemoryTypes /\ live \subseteq DOMAIN handed /\ big.addr + big.len \in Int
  BY DEF HeapInv, Steady, MemoryTypes
<1>2. ASSUME NEW i \in live PROVE handed[i].ptr + handed[i].size <= End + 756
  <2>1. up /\ i \in DOMAIN handed
    BY <1>1 DEF HeapInv
  <2>2. PICK S \in SUBSET Addr, top \in Addr : Blocks(S, top)
    BY <2>1 DEF HeapInv
  <2>3. PICK b \in S : Owner(b, i)
    BY <2>1, <2>2 DEF Blocks, Owned
  <2>4. Room(b, hdr[b].size)
    BY <2>1, <2>2, <2>3 DEF Blocks, Fitted, Owner
  <2>5. b \in Nat /\ hdr[b].size \in Nat
    BY <1>1, <2>2, EndOfBlock DEF Blocks, Laid, Addr
  <2>6. handed[i].ptr \in Nat /\ handed[i].size \in Nat
    BY <1>1, <2>1, HandedType DEF Addr
  <2> QED BY <1>1, <2>3, <2>4, <2>5, <2>6, StrideFacts DEF Owner, Room, End
<1> QED BY <1>1, <1>2, StrideFacts DEF OverrunBound, End

\* The region is behind the kernel, well below it, or empty.
LEMMA RegionApart ==
  ASSUME NEW m \in Maps, KernelApart(m)
  PROVE  LET r == BehindKernel(Biggest(m)) IN
         \/ r.addr >= KernelEnd
         \/ r.addr + r.len + 784 <= KernelStart
         \/ r.addr + r.len <= 0
<1>1. CASE Longest(m) = {}
  BY <1>1, MapAssumption DEF Biggest, NoRegion, BehindKernel
<1>2. CASE Longest(m) # {}
  <2>1. PICK i \in DOMAIN m : Biggest(m) = [addr |-> m[i].addr, len |-> m[i].len]
    BY <1>2 DEF Biggest, Longest, Usable
  <2>2. m[i] \in Region
    BY MapAssumption, SeqFacts
  <2>3. CASE m[i].addr = KernelStart
    BY <2>1, <2>3, MapAssumption DEF BehindKernel
  <2>4. CASE m[i].addr # KernelStart
    BY <2>1, <2>2, <2>4, MapAssumption, StrideFacts DEF BehindKernel, KernelApart
  <2> QED BY <2>3, <2>4
<1> QED BY <1>1, <1>2

\* The invariant keeps the heap off the kernel image.
LEMMA InvOffKernel ==
  ASSUME HeapInv, resets <= 1
  PROVE  OffTheKernel
<1> SUFFICES ASSUME up, big.addr + 28 < Word, KernelApart(mmap)
             PROVE  /\ \A d \in Chain : Apart(d, 28, KernelStart, KernelEnd - KernelStart)
                    /\ \A i \in live : Apart(handed[i].ptr, handed[i].size,
                                            KernelStart, KernelEnd - KernelStart)
  BY StrideFacts DEF OffTheKernel
<1>1. /\ Steady /\ MemoryTypes /\ big = Region0 /\ mmap \in Maps
      /\ big.addr \in Nat /\ big.len \in Int /\ live \subseteq DOMAIN handed
      /\ KernelStart \in Nat /\ KernelEnd \in Nat /\ KernelStart <= KernelEnd
  BY MapAssumption DEF HeapInv, Steady, MemoryTypes
<1>2. First = big.addr + 28 /\ First \in Addr
  <2>1. big.addr + 28 \in Addr
    BY <1>1, StrideFacts DEF Addr
  <2> QED BY <2>1, ModAddr, StrideFacts DEF First
<1>3. \/ big.addr >= KernelEnd
      \/ End + 784 <= KernelStart
      \/ End <= 0
  BY <1>1, RegionApart DEF Region0, End
<1>4. End \in Int
  BY <1>1 DEF End
<1>5. ASSUME NEW d \in Chain PROVE Apart(d, 28, KernelStart, KernelEnd - KernelStart)
  <2>1. d \in Nat /\ First <= d /\ d < End
    BY <1>1, <1>2, ChainInside DEF InHeap, Addr
  <2> QED BY <1>1, <1>2, <1>3, <1>4, <2>1 DEF Apart
<1>6. ASSUME NEW i \in live
      PROVE  Apart(handed[i].ptr, handed[i].size, KernelStart, KernelEnd - KernelStart)
  <2>1. PICK S \in SUBSET Addr, top \in Addr : Blocks(S, top)
    BY DEF HeapInv
  <2>2. PICK b \in S : Owner(b, i)
    BY <1>1, <2>1 DEF Blocks, Owned
  <2>3. First <= b /\ b < End /\ b \in Nat
    BY <2>1 DEF Blocks, Laid, Addr
  <2>4. handed[i].ptr \in Nat /\ handed[i].size \in Nat /\ b + 112 <= handed[i].ptr
    BY <1>1, <2>1, <2>2, Inside
  <2>5. handed[i].ptr + handed[i].size <= End + 756
    BY InvOverrun
  <2> QED BY <1>1, <1>2, <1>3, <1>4, <2>3, <2>4, <2>5 DEF Apart
<1> QED BY <1>5, <1>6

\* The invariant holds in every reachable state.
LEMMA HeapInvariance ==
  ASSUME OneMallocer
  PROVE  Spec => []HeapInv
  BY InitInv, NextInv, PTL DEF Spec

(***************************************************************************)
(* Owners never share memory, whatever the sizes, the order of malloc()    *)
(* and free(), the interrupts in which free() runs and the headers that a  *)
(* reset left behind, as long as a single context calls malloc().          *)
(***************************************************************************)
THEOREM NoSharedMemory ==
  ASSUME OneMallocer
  PROVE  Spec => []PayloadsDisjoint
  BY HeapInvariance, InvDisjoint, PTL

(***************************************************************************)
(* Under the same condition malloc() never returns an address twice.       *)
(***************************************************************************)
THEOREM NeverTheSameAddress ==
  ASSUME OneMallocer
  PROVE  Spec => []FreshPointers
<1>1. HeapInv => FreshPointers
  BY DEF HeapInv, Steady
<1> QED
  BY <1>1, HeapInvariance, PTL

(***************************************************************************)
(* Under the same condition an owner that fills the memory it was given    *)
(* destroys none of the headers that malloc() walks over.                  *)
(***************************************************************************)
THEOREM ChainSurvives ==
  ASSUME OneMallocer
  PROVE  Spec => []HeadersSafe
  BY HeapInvariance, InvHeaders, PTL

(***************************************************************************)
(* Until the machine has been reset twice, memory handed out sticks out of *)
(* the region by less than a struct's stride: malloc() checks the size of  *)
(* a new block against the end, and finds no header free whose size it has *)
(* not checked.  After a second reset this is lost: a size that the first  *)
(* reset cut off can have been marked free by the second boot, by free()   *)
(* of a reused block in front of it, and is found by the third.            *)
(***************************************************************************)
THEOREM OverrunBounded ==
  ASSUME OneMallocer
  PROVE  Spec => [](resets <= 1 => OverrunBound)
<1>1. HeapInv => (resets <= 1 => OverrunBound)
  BY InvOverrun
<1> QED
  BY <1>1, HeapInvariance, PTL

(***************************************************************************)
(* Until the machine has been reset twice, neither the headers of the heap *)
(* nor the memory handed out overlaps the kernel image, for every memory   *)
(* map that keeps the other regions well apart from it.  The store through *)
(* prev without a value is not a header's: StrayOnce is about it.          *)
(***************************************************************************)
THEOREM OffTheImage ==
  ASSUME OneMallocer
  PROVE  Spec => [](resets <= 1 => OffTheKernel)
<1>1. HeapInv => (resets <= 1 => OffTheKernel)
  BY InvOffKernel
<1> QED
  BY <1>1, HeapInvariance, PTL

-----------------------------------------------------------------------------
\* The types do not depend on who calls malloc(): what the steps do to them one by one.
LEMMA FirstType == ASSUME MemoryTypes PROVE First \in Addr
<1>1. big.addr + sizeof_alloc_struct \in Int
  BY StrideFacts DEF MemoryTypes
<1> QED
  BY <1>1, ModRange DEF First

\* A return from malloc() keeps the types, whatever the pointer.
LEMMA ReturnType ==
  ASSUME MemoryTypes, NEW c \in Contexts, NEW p \in Nat, Return(c, p)
  PROVE  /\ handed' \in Seq(Memory) /\ live' \subseteq DOMAIN handed'
         /\ pc' \in [Contexts -> {"idle", "walk", "take", "carve", "linked", "sized"}]
         /\ at' \in [Contexts -> Addr] /\ req' \in [Contexts -> Nat]
<1> DEFINE m == [ptr |-> p % Word, size |-> req[c]]
<1>1. m \in Memory /\ handed' = Append(handed, m) /\ live' = live \cup {Len(handed) + 1}
  BY ModRange DEF Return, Memory, MemoryTypes
<1> HIDE DEF m
<1>2. handed' \in Seq(Memory) /\ DOMAIN handed' = DOMAIN handed \cup {Len(handed) + 1}
  BY <1>1, AppendFacts DEF MemoryTypes
<1>3. 0 \in Addr
  BY StrideFacts DEF Addr
<1> QED
  BY <1>1, <1>2, <1>3 DEF MemoryTypes, Return, Leave, Goto

\* The steps of malloc().
LEMMA MallocType ==
  ASSUME MemoryTypes, NEW c \in Contexts, MallocStep(c)
  PROVE  MemoryTypes'
<1>1. CASE WalkPast(c)
  <2>1. hdr[at[c]] \in Header /\ at[c] \in Addr
    BY <1>1 DEF MemoryTypes, WalkPast, check_magic
  <2>2. at[c] + Stride(hdr[at[c]].size) \in Int
    BY <2>1 DEF Header, Stride, sizeof_alloc_struct, Addr
  <2>3. (at[c] + Stride(hdr[at[c]].size)) % Word \in Addr
    BY <2>2, ModRange
  <2> QED
    BY <1>1, <2>3 DEF MemoryTypes, WalkPast
<1>2. CASE WalkFound(c) \/ WalkHole(c)
  BY <1>2 DEF MemoryTypes, WalkFound, WalkHole, Goto
<1>3. CASE WalkFailed(c)
  <2>1. 0 \in Addr
    BY StrideFacts DEF Addr
  <2> QED
    BY <1>3, <2>1 DEF MemoryTypes, WalkFailed, Leave, Goto
<1>4. CASE Take(c)
  <2>1. at[c] + ToReused \in Nat
    BY StrideFacts DEF MemoryTypes, Addr
  <2>2. DOMAIN hdr' \subseteq Addr /\ \A d \in DOMAIN hdr' : hdr'[d] \in Header
    BY <1>4 DEF MemoryTypes, Take, Header
  <2> QED
    BY <1>4, <2>1, <2>2, ReturnType DEF MemoryTypes, Take
<1>5. CASE CarveSign(c)
  <2>1. PICK junk \in Stale : hdr' = Put(at[c], [allocated |-> TRUE, size |-> junk])
    BY <1>5 DEF CarveSign
  <2>2. junk \in Nat
    BY SizeAssumption
  <2>3. DOMAIN hdr' \subseteq Addr /\ \A d \in DOMAIN hdr' : hdr'[d] \in Header
    BY <2>1, <2>2 DEF MemoryTypes, Put, Header
  <2> QED
    BY <1>5, <2>3 DEF MemoryTypes, CarveSign, Goto
<1>6. CASE CarveSize(c)
  <2>1. at[c] + ToNew \in Nat
    BY StrideFacts DEF MemoryTypes, Addr
  <2>2. DOMAIN hdr' \subseteq Addr /\ \A d \in DOMAIN hdr' : hdr'[d] \in Header
    BY <1>6 DEF MemoryTypes, CarveSize, Header
  <2> QED
    BY <1>6, <2>1, <2>2, ReturnType DEF MemoryTypes, CarveSize
<1>7. CASE CarveLink(c)
  BY <1>7 DEF MemoryTypes, CarveLink, Goto
<1> QED
  BY <1>1, <1>2, <1>3, <1>4, <1>5, <1>6, <1>7 DEF MallocStep

\* Every step keeps the types, also with several contexts in malloc().
LEMMA TypeStep == ASSUME MemoryTypes, [Next]_vars PROVE MemoryTypes'
<1>1. CASE pmm_setup
  <2>1. big' \in [addr : Nat, len : Int]
    BY <1>1, RegionType DEF pmm_setup, MemoryTypes
  <2>2. big'.addr % Word \in Addr
    BY <2>1, ModRange
  <2>3. DOMAIN hdr' \subseteq Addr /\ \A d \in DOMAIN hdr' : hdr'[d] \in Header
    BY <1>1, <2>2 DEF MemoryTypes, pmm_setup, Put, Header
  <2> QED
    BY <1>1, <2>1, <2>3 DEF MemoryTypes, pmm_setup
<1>2. CASE Reset
  <2>1. 0 \in Addr
    BY StrideFacts DEF Addr
  <2>2. handed' \in Seq(Memory) /\ live' \subseteq DOMAIN handed'
    BY <1>2 DEF Reset
  <2>3. big' \in [addr : Nat, len : Int] /\ resets' \in 0 .. MaxResets
    BY <1>2, SizeAssumption DEF Reset, NoRegion, MemoryTypes
  <2>4. DOMAIN hdr' \subseteq Addr /\ \A d \in DOMAIN hdr' : hdr'[d] \in Header
    BY <1>2 DEF MemoryTypes, Reset, Restrict
  <2> QED
    BY <1>2, <2>1, <2>2, <2>3, <2>4 DEF MemoryTypes, Reset
<1>3. CASE \E c \in Contexts : MallocStep(c)
  BY <1>3, MallocType
<1>4. CASE \E c \in Contexts, s \in Sizes : malloc(c, s)
  BY <1>4, FirstType, SizeAssumption DEF MemoryTypes, malloc, Goto
<1>5. ASSUME NEW c \in Contexts, NEW i \in live, free(c, i) PROVE MemoryTypes'
  <2>1. DOMAIN hdr' \subseteq Addr /\ \A d \in DOMAIN hdr' : hdr'[d] \in Header
    BY <1>5 DEF MemoryTypes, free, Header
  <2> QED
    BY <1>5, <2>1 DEF MemoryTypes, free
<1>6. CASE \E i \in live : Write(i)
  BY <1>6 DEF MemoryTypes, Write, Restrict
<1>7. CASE UNCHANGED vars
  BY <1>7 DEF MemoryTypes, vars
<1> QED
  BY <1>1, <1>2, <1>3, <1>4, <1>5, <1>6, <1>7 DEF Next

\* prev holds the address of a header that the walk has seen.
StrayTypes ==
  /\ prev \in [Contexts -> Addr \cup {NoValue}]
  /\ strays \in Nat /\ struck \subseteq {"header", "kernel"}

LEMMA StrayType ==
  ASSUME MemoryTypes, StrayTypes, [Next]_vars
  PROVE  StrayTypes'
<1>1. CASE pmm_setup
  BY <1>1 DEF pmm_setup, StrayTypes, stray
<1>2. CASE Reset
  BY <1>2 DEF Reset, StrayTypes
<1>3. ASSUME NEW c \in Contexts, MallocStep(c) PROVE StrayTypes'
  <2>1. CASE WalkPast(c)
    <3>1. at[c] \in Addr
      BY DEF MemoryTypes
    <3> QED BY <2>1, <3>1 DEF WalkPast, StrayTypes, stray
  <2>2. CASE WalkFound(c) \/ WalkHole(c) \/ CarveSign(c)
    BY <2>2 DEF WalkFound, WalkHole, CarveSign, StrayTypes, stray
  <2>3. CASE WalkFailed(c) \/ Take(c) \/ CarveSize(c)
    BY <2>3 DEF WalkFailed, Take, CarveSize, Return, Leave, StrayTypes, stray
  <2>4. CASE CarveLink(c)
    <3>1. \A w : Strikes(w, at[c]) \subseteq {"header", "kernel"}
      BY DEF Strikes
    <3>2. UNCHANGED stray \/ (strays' = strays + 1 /\ \E w \in Wild : struck' = Strikes(w, at[c]))
      BY <2>4 DEF CarveLink
    <3>3. prev' = prev
      BY <2>4 DEF CarveLink
    <3>4. CASE UNCHANGED stray
      BY <3>3, <3>4 DEF StrayTypes, stray
    <3>5. CASE strays' = strays + 1 /\ \E w \in Wild : struck' = Strikes(w, at[c])
      BY <3>1, <3>3, <3>5 DEF StrayTypes
    <3> QED BY <3>2, <3>4, <3>5
  <2> QED BY <1>3, <2>1, <2>2, <2>3, <2>4 DEF MallocStep
<1>4. ASSUME NEW c \in Contexts, NEW s \in Sizes, malloc(c, s) PROVE StrayTypes'
  BY <1>4 DEF malloc, StrayTypes, stray
<1>5. ASSUME NEW c \in Contexts, NEW i \in live, free(c, i) PROVE StrayTypes'
  BY <1>5 DEF free, StrayTypes, stray
<1>6. ASSUME NEW i \in live, Write(i) PROVE StrayTypes'
  BY <1>6 DEF Write, StrayTypes, stray
<1>7. CASE UNCHANGED vars
  BY <1>7 DEF vars, StrayTypes, stray
<1> QED
  BY <1>1, <1>2, <1>3, <1>4, <1>5, <1>6, <1>7 DEF Next

\* Why there is one stray store: prev has no value only at First, and a header or
\* the context about to write one is found there after the store.
FirstLinked ==
  /\ \A c \in Contexts : pc[c] \in {"walk", "carve"} /\ prev[c] = NoValue => at[c] = First
  /\ strays = 0 \/ check_magic(First) \/ \E c \in Contexts : pc[c] = "linked" /\ at[c] = First
  /\ ~up => strays = 0
  /\ OneStray

LEMMA FirstStep ==
  ASSUME HeapInv, OneMallocer, StrayTypes, FirstLinked, [Next]_vars
  PROVE  FirstLinked'
<1> USE DEF FirstLinked, OneStray, check_magic
<1>1. pc \in [Contexts -> {"idle", "walk", "take", "carve", "linked", "sized"}]
      /\ at \in [Contexts -> Addr]
  BY DEF HeapInv, Steady, MemoryTypes
<1>2. CASE pmm_setup
  <2>1. strays' = 0 /\ up' /\ \A c \in Contexts : pc'[c] = "idle"
    BY <1>2 DEF pmm_setup, HeapInv, stray
  <2> QED BY <2>1
<1>3. CASE Reset
  <2>1. strays' = 0 /\ \A c \in Contexts : pc'[c] = "idle"
    BY <1>3 DEF Reset
  <2> QED BY <2>1
<1>4. ASSUME NEW c \in Contexts, MallocStep(c) PROVE FirstLinked'
  <2>1. CASE WalkPast(c)
    <3>1. pc[c] = "walk" /\ at[c] # NoValue
      BY <1>1, <2>1 DEF WalkPast, Addr, NoValue
    <3>2. /\ UNCHANGED <<pc, strays, hdr, big, up>> /\ First' = First
          /\ at' = [at EXCEPT ![c] = at'[c]] /\ prev' = [prev EXCEPT ![c] = at[c]]
      BY <1>1, <2>1 DEF WalkPast, stray, First
    <3>3. \A x \in Contexts : /\ x # c => at'[x] = at[x] /\ prev'[x] = prev[x]
                              /\ prev'[c] = at[c]
      BY <1>1, <3>2 DEF StrayTypes
    <3>4. \A x \in Contexts :
            pc'[x] \in {"walk", "carve"} /\ prev'[x] = NoValue => at'[x] = First
      BY <3>1, <3>2, <3>3
    <3>5. \A x \in Contexts : pc[x] = "linked" => pc'[x] = "linked" /\ at'[x] = at[x]
      BY <3>1, <3>2, <3>3
    <3> QED BY <3>2, <3>4, <3>5
  <2>2. CASE WalkFound(c) \/ WalkHole(c)
    <3>1. pc[c] = "walk" /\ UNCHANGED <<at, prev, strays, hdr, big, up>> /\ First' = First
      BY <2>2 DEF WalkFound, WalkHole, stray, First
    <3>2. \A x \in Contexts : IF x = c THEN pc'[x] \in {"take", "carve"} ELSE pc'[x] = pc[x]
      BY <1>1, <2>2 DEF WalkFound, WalkHole, Goto
    <3> QED BY <3>1, <3>2
  <2>3. CASE WalkFailed(c) \/ Take(c) \/ CarveSize(c)
    <3>1. pc[c] \in {"walk", "take", "sized"} /\ UNCHANGED <<strays, big, up>> /\ First' = First
          /\ DOMAIN hdr' = DOMAIN hdr
      BY <2>3 DEF WalkFailed, Take, CarveSize, stray, First
    <3>2. Leave(c)
      BY <2>3 DEF WalkFailed, Take, CarveSize, Return
    <3>3. \A x \in Contexts : /\ x = c => pc'[x] = "idle"
                              /\ x # c => pc'[x] = pc[x] /\ at'[x] = at[x] /\ prev'[x] = prev[x]
      BY <1>1, <3>2 DEF Leave, Goto, StrayTypes
    <3>4. \A x \in Contexts :
            pc'[x] \in {"walk", "carve"} /\ prev'[x] = NoValue => at'[x] = First
      BY <3>3
    <3>5. \A x \in Contexts : pc[x] = "linked" => pc'[x] = "linked" /\ at'[x] = at[x]
      BY <3>1, <3>3
    <3> QED BY <3>1, <3>4, <3>5
  <2>4. CASE CarveLink(c)
    <3>1. pc[c] = "carve" /\ up /\ UNCHANGED <<at, prev, hdr, big, up>> /\ First' = First
      BY <2>4 DEF CarveLink, MayRun, First
    <3>2. \A x \in Contexts : IF x = c THEN pc'[x] = "linked" ELSE pc'[x] = pc[x]
      BY <1>1, <2>4 DEF CarveLink, Goto
    <3>3. CASE prev[c] # NoValue
      <4>1. strays' = strays
        BY <2>4, <3>3 DEF CarveLink, stray
      <4> QED BY <3>1, <3>2, <4>1
    <3>4. CASE prev[c] = NoValue
      <4>1. PICK S \in SUBSET Addr, top \in Addr : Blocks(S, top)
        BY <3>1 DEF HeapInv
      <4>2. at[c] = First /\ First \notin DOMAIN hdr
        BY <3>1, <3>4, <4>1 DEF Blocks, Walking
      <4>3. \A x \in Contexts : pc[x] # "linked"
        BY <3>1, <4>1 DEF Blocks, Walking, OneMallocer
      <4>4. strays = 0 /\ strays' = strays + 1
        BY <2>4, <3>4, <4>2, <4>3 DEF CarveLink
      <4> QED BY <3>1, <3>2, <4>2, <4>4
    <3> QED BY <3>3, <3>4
  <2>5. CASE CarveSign(c)
    <3>1. pc[c] = "linked" /\ UNCHANGED <<at, prev, strays, big, up>> /\ First' = First
          /\ DOMAIN hdr' = DOMAIN hdr \cup {at[c]}
      BY <2>5 DEF CarveSign, Put, stray, First
    <3>2. \A x \in Contexts : IF x = c THEN pc'[x] = "sized" ELSE pc'[x] = pc[x]
      BY <1>1, <2>5 DEF CarveSign, Goto
    <3> QED BY <3>1, <3>2
  <2> QED BY <1>4, <2>1, <2>2, <2>3, <2>4, <2>5 DEF MallocStep
<1>5. ASSUME NEW c \in Contexts, NEW s \in Sizes, malloc(c, s) PROVE FirstLinked'
  <2>1. pc[c] = "idle" /\ UNCHANGED <<prev, strays, hdr, big, up>> /\ First' = First
    BY <1>5 DEF malloc, stray, First
  <2>2. \A x \in Contexts : IF x = c THEN pc'[x] = "walk" /\ at'[x] = First
                             ELSE pc'[x] = pc[x] /\ at'[x] = at[x]
    BY <1>1, <1>5 DEF malloc, Goto
  <2> QED BY <2>1, <2>2
<1>6. ASSUME NEW c \in Contexts, NEW i \in live, free(c, i) PROVE FirstLinked'
  <2>1. UNCHANGED <<pc, at, prev, strays, big, up>> /\ First' = First /\ DOMAIN hdr' = DOMAIN hdr
    BY <1>6 DEF free, stray, First
  <2> QED BY <2>1
<1>7. ASSUME NEW i \in live, Write(i) PROVE FirstLinked'
  <2>1. UNCHANGED <<pc, at, prev, strays, big, up>> /\ First' = First /\ up
    BY <1>7 DEF Write, stray, First
  <2>2. PICK S \in SUBSET Addr, top \in Addr : Blocks(S, top)
    BY <2>1 DEF HeapInv
  <2>3. First \in S \cup {top}
    BY <2>2 DEF Blocks, Laid
  <2>4. First \in DOMAIN hdr =>
          Apart(First, sizeof_alloc_struct, handed[i].ptr, handed[i].size)
    <3> PICK d \in Addr : d = First
      BY <2>3
    <3>1. d \in Nat /\ (d \in S \/ top <= d) /\ Steady
      BY <2>3 DEF Addr, HeapInv
    <3> QED BY <2>2, <3>1, HeadersApart
  <2>5. First \in DOMAIN hdr => First \in DOMAIN hdr'
    BY <1>7, <2>4 DEF Write, Restrict
  <2> QED BY <2>1, <2>5
<1>8. CASE UNCHANGED vars
  <2>1. UNCHANGED <<pc, at, prev, strays, hdr, big, up>> /\ First' = First
    BY <1>8 DEF vars, stray, First
  <2> QED BY <2>1
<1> QED
  BY <1>2, <1>3, <1>4, <1>5, <1>6, <1>7, <1>8 DEF Next

(***************************************************************************)
(* malloc() stores through prev without a value at most once between two   *)
(* resets (malloc.cpp:96): for the first block, whatever owners write into *)
(* their memory and handlers free.                                         *)
(***************************************************************************)
THEOREM StrayOnce ==
  ASSUME OneMallocer
  PROVE  Spec => []OneStray
<1>1. Init => HeapInv /\ StrayTypes /\ FirstLinked
  <2>1. Init => FirstLinked /\ StrayTypes
    BY DEF Init, FirstLinked, OneStray, StrayTypes
  <2> QED BY <2>1, InitInv
<1>2. HeapInv /\ StrayTypes /\ FirstLinked /\ [Next]_vars => (HeapInv /\ StrayTypes /\ FirstLinked)'
  BY NextInv, StrayType, FirstStep DEF HeapInv, Steady
<1>3. FirstLinked => OneStray
  BY DEF FirstLinked
<1> QED
  BY <1>1, <1>2, <1>3, PTL DEF Spec

(***************************************************************************)
(* Headers and pointers are addresses of the 32-bit space, also when the   *)
(* heap lies beyond it and whoever calls malloc(): all the arithmetic of   *)
(* the walk, of the new block and of free() is done modulo Word.           *)
(***************************************************************************)
THEOREM TypesKept == Spec => []TypeOK
<1>1. Init => TypeOK
  BY InitInv DEF HeapInv, Steady, TypeOK, Init
<1>2. ASSUME TypeOK, [Next]_vars PROVE TypeOK'
  <2>1. MemoryTypes'
    BY <1>2, TypeStep DEF TypeOK
  <2>2. StrayTypes'
    BY <1>2, StrayType DEF TypeOK, StrayTypes
  <2> QED BY <2>1, <2>2 DEF TypeOK, StrayTypes
<1> QED
  BY <1>1, <1>2, PTL DEF Spec

==============================================================================
