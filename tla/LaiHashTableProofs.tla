------------------------ MODULE LaiHashTableProofs -------------------------
(***************************************************************************)
(* Proofs about LaiHashTable, for every set of nodes, all names and hashes *)
(* and so for tables of every capacity: the table is consistent after any  *)
(* history of insertions, removals and growth, no LAI_ENSURE() is reached, *)
(* and the table implements the set of children that LaiChildren promises. *)
(*                                                                         *)
(* A lookup goes through the whole bucket table, so the invariant does not *)
(* say where an entry lies: it says that the bucket table is a one-to-one  *)
(* list of the used slots.  Facts about a table are stated for any table   *)
(* t, and used for ht, for the table that has grown and for the next one.  *)
(***************************************************************************)
EXTENDS LaiHashTable, FiniteSetTheorems, TLAPS

\* A bucket table of m buckets that lists the slots in U, each once.
Filled(B, m, U) ==
    /\ B \in [0 .. m - 1 -> Nat \cup {-1}]
    /\ \A b \in 0 .. m - 1 : B[b] \in U \cup {-1}
    /\ \A k \in U : \E b \in 0 .. m - 1 : B[b] = k
    /\ \A b, c \in 0 .. m - 1 : B[b] = B[c] /\ B[b] # -1 => b = c

Fields == {"elem_capacity", "bucket_capacity", "num_elems",
           "elem_ptr_tab", "elem_hash_tab", "bucket_tab"}

\* The two element tables.
Elements(t) ==
    /\ DOMAIN t = Fields
    /\ t.elem_capacity \in Nat
    /\ t.elem_ptr_tab \in [Slots(t) -> Nodes \cup {NULL}]
    /\ t.elem_hash_tab \in [Slots(t) -> Int]
    /\ t.num_elems = Cardinality(Used(t))
    /\ \A k \in Used(t) : t.elem_hash_tab[k] = HashOf(t.elem_ptr_tab[k])

\* No two children have the same name.
NamesDiffer(t) ==
    \A j, k \in Used(t) : NameOf[t.elem_ptr_tab[j]] = NameOf[t.elem_ptr_tab[k]] => j = k

Consistent(t) ==
    /\ Elements(t)
    /\ t.bucket_capacity = 2 * t.elem_capacity
    /\ Filled(t.bucket_tab, t.bucket_capacity, Used(t))
    /\ t.elem_capacity > 0 => t.num_elems < t.elem_capacity
    /\ NamesDiffer(t)

TableInv ==
    /\ Consistent(ht)
    /\ iter \in Nat \cup {NoWalk}
    /\ answer \in Nodes \cup {NULL, "LAI_ERROR_NONE", "LAI_ERROR_UNEXPECTED_RESULT"}
    /\ panicked = FALSE

-----------------------------------------------------------------------------
(* Numbers.                                                                *)

\* A set of natural numbers has a least one: Least() is what it says.
LEMMA LeastExists ==
  ASSUME NEW S \in SUBSET Nat, S # {}
  PROVE  Least(S) \in S /\ \A j \in S : Least(S) <= j
<1> DEFINE R == OpToRel(<, Nat)
<1>1. IsWellFoundedOn(R, Nat)
  BY NatLessThanWellFounded
<1>2. PICK i \in S : \A j \in S : ~ (<<j, i>> \in R)
  <2> HIDE DEF R
  <2> QED
    BY <1>1, WFMin
<1>3. \A j \in S : ~ (j < i)
  BY <1>2 DEF OpToRel
<1>4. \A j \in S : i <= j
  BY <1>3
<1> QED
  BY <1>4 DEF Least

\* Division with remainder, and its uniqueness.
LEMMA Division ==
  ASSUME NEW m \in Nat \ {0}, NEW x \in Int
  PROVE  \E q \in Int, r \in 0 .. m - 1 : x = m * q + r /\ x % m = r
<1>1. x % m \in 0 .. m - 1 /\ x \div m \in Int /\ x = m * (x \div m) + (x % m)
  OBVIOUS
<1> QED
  BY <1>1

LEMMA Remainder ==
  ASSUME NEW m \in Nat \ {0}, NEW q \in Int, NEW r \in 0 .. m - 1
  PROVE  (m * q + r) % m = r
<1>1. m * q + r \in Int
  OBVIOUS
<1>2. PICK d \in Int, s \in 0 .. m - 1 : m * q + r = m * d + s /\ (m * q + r) % m = s
  BY <1>1, Division
<1>3. m * (q - d) = s - r
  BY <1>2
<1>4. CASE q - d >= 1
  <2>1. m * (q - d) >= m
    BY <1>4
  <2> QED
    BY <1>3, <2>1
<1>5. CASE q - d <= -1
  <2>1. m * (q - d) <= -m
    BY <1>5
  <2> QED
    BY <1>3, <2>1
<1>6. CASE q = d
  BY <1>2, <1>6
<1> QED
  BY <1>4, <1>5, <1>6

\* The probes of a hash go through all buckets, each bucket once.
LEMMA ProbeFacts ==
  ASSUME NEW m \in Nat \ {0}, NEW h \in Int
  PROVE  /\ \A i \in 0 .. m - 1 : Probe(h, i, m) \in 0 .. m - 1
         /\ \A b \in 0 .. m - 1 : \E i \in 0 .. m - 1 : Probe(h, i, m) = b
         /\ \A i, j \in 0 .. m - 1 : Probe(h, i, m) = Probe(h, j, m) => i = j
<1>1. ASSUME NEW i \in 0 .. m - 1 PROVE Probe(h, i, m) \in 0 .. m - 1
  <2>1. h + i \in Int
    OBVIOUS
  <2> QED
    BY <2>1, Division DEF Probe
<1>2. ASSUME NEW b \in 0 .. m - 1 PROVE \E i \in 0 .. m - 1 : Probe(h, i, m) = b
  <2>1. b - h \in Int
    OBVIOUS
  <2>2. PICK q \in Int, i \in 0 .. m - 1 : b - h = m * q + i
    BY <2>1, Division
  <2>3. PICK p \in Int : p = -q
    OBVIOUS
  <2>4. m * p = -(m * q)
    BY <2>3
  <2>5. h + i = m * p + b
    BY <2>2, <2>4
  <2>6. (m * p + b) % m = b
    BY Remainder
  <2> QED
    BY <2>5, <2>6 DEF Probe
<1>3. ASSUME NEW i \in 0 .. m - 1, NEW j \in 0 .. m - 1, Probe(h, i, m) = Probe(h, j, m)
      PROVE  i = j
  <2>1. h + i \in Int /\ h + j \in Int
    OBVIOUS
  <2>2. PICK p \in Int, r \in 0 .. m - 1 : h + i = m * p + r /\ Probe(h, i, m) = r
    BY <2>1, Division DEF Probe
  <2>3. PICK q \in Int, s \in 0 .. m - 1 : h + j = m * q + s /\ Probe(h, j, m) = s
    BY <2>1, Division DEF Probe
  <2>4. PICK d \in Int : d = p - q
    OBVIOUS
  <2>5. m * d = m * p - m * q
    BY <2>4
  <2>6. i = m * d + j
    <3>1. PICK x \in Int, y \in Int : x = m * p /\ y = m * q
      OBVIOUS
    <3>2. h + i = x + r /\ h + j = y + r /\ m * d = x - y
      BY <1>3, <2>2, <2>3, <2>5, <3>1
    <3>3. i = (x - y) + j
      BY <3>2
    <3> QED
      BY <3>2, <3>3
  <2>7. (m * d + j) % m = j /\ (m * 0 + i) % m = i
    BY Remainder
  <2>8. m * 0 + i = i
    OBVIOUS
  <2> QED
    BY <2>6, <2>7, <2>8
<1> QED
  BY <1>1, <1>2, <1>3

-----------------------------------------------------------------------------
(* The bucket table.                                                       *)

\* More buckets than slots: one of them is free.
LEMMA FreeBucket ==
  ASSUME NEW m \in Nat, NEW n \in Nat, n < m,
         NEW U \in SUBSET (0 .. n - 1), NEW B, Filled(B, m, U)
  PROVE  \E b \in 0 .. m - 1 : B[b] = -1
<1> SUFFICES ASSUME \A b \in 0 .. m - 1 : B[b] # -1 PROVE FALSE
  OBVIOUS
<1>1. B \in [0 .. m - 1 -> 0 .. n - 1]
  BY DEF Filled
<1>2. /\ IsFiniteSet(0 .. m - 1) /\ Cardinality(0 .. m - 1) = m
      /\ IsFiniteSet(0 .. n - 1) /\ Cardinality(0 .. n - 1) = n
  <2>1. 0 \in Int /\ m - 1 \in Int /\ n - 1 \in Int
    OBVIOUS
  <2>2. /\ IsFiniteSet(0 .. m - 1)
        /\ Cardinality(0 .. m - 1) = IF 0 > m - 1 THEN 0 ELSE (m - 1) - 0 + 1
    BY <2>1, FS_Interval, Zenon
  <2>3. /\ IsFiniteSet(0 .. n - 1)
        /\ Cardinality(0 .. n - 1) = IF 0 > n - 1 THEN 0 ELSE (n - 1) - 0 + 1
    BY <2>1, FS_Interval, Zenon
  <2> QED
    BY <2>2, <2>3
<1>3. \E b, c \in 0 .. m - 1 : b # c /\ B[b] = B[c]
  <2>1. Cardinality(0 .. n - 1) < Cardinality(0 .. m - 1)
    BY <1>2
  <2> QED
    BY <1>1, <1>2, <2>1, FS_PigeonHole, Zenon
<1> QED
  BY <1>3 DEF Filled

\* Entered() puts one slot more into the list.
LEMMA EnteredFills ==
  ASSUME NEW m \in Nat \ {0}, NEW h \in Int, NEW U \in SUBSET Nat, NEW B,
         Filled(B, m, U), \E b \in 0 .. m - 1 : B[b] = -1,
         NEW k \in Nat \ U
  PROVE  Filled(Entered(B, m, h, k), m, U \cup {k})
<1> DEFINE free == {j \in 0 .. m - 1 : B[Probe(h, j, m)] < 0}
           p == Probe(h, Least(free), m)
<1>1. \E i \in 0 .. m - 1 : B[Probe(h, i, m)] = -1
  <2> PICK b \in 0 .. m - 1 : B[b] = -1
    OBVIOUS
  <2> PICK i \in 0 .. m - 1 : Probe(h, i, m) = b
    BY ProbeFacts
  <2> QED
    OBVIOUS
<1>2. free \in SUBSET Nat /\ free # {}
  BY <1>1
<1>3. Least(free) \in free
  <2> HIDE DEF free
  <2> QED
    BY <1>2, LeastExists
<1>4. p \in 0 .. m - 1 /\ B[p] < 0
  BY <1>3, ProbeFacts
<1>5. B[p] = -1
  BY <1>4 DEF Filled
<1>6. Entered(B, m, h, k) = [B EXCEPT ![p] = k]
  BY DEF Entered
<1> HIDE DEF p
<1> QED
  BY <1>4, <1>5, <1>6 DEF Filled

(***************************************************************************)
(* The recursive function of lai_hashtable_grow().  That a function with   *)
(* these equations exists, and what it returns, is shown by the least      *)
(* number for which it would fail.                                         *)
(***************************************************************************)
Refills(t, m, j, f) ==
    f = [k \in 0 .. j |->
          IF k = 0 THEN [b \in 0 .. m - 1 |-> -1]
          ELSE IF k - 1 \in Used(t)
               THEN Entered(f[k - 1], m, t.elem_hash_tab[k - 1], k - 1)
               ELSE f[k - 1]]

LEMMA RefillExists ==
  ASSUME NEW t, NEW m, NEW n \in Nat
  PROVE  \E f : Refills(t, m, n, f)
<1> DEFINE T == {j \in Nat : ~ \E f : Refills(t, m, j, f)}
<1>1. T = {}
  <2> SUFFICES ASSUME T # {} PROVE FALSE
    OBVIOUS
  <2>1. PICK j \in T : \A i \in T : j <= i
    <3>1. T \in SUBSET Nat
      OBVIOUS
    <3> HIDE DEF T
    <3> QED
      BY <3>1, LeastExists
  <2>2. CASE j = 0
    <3> DEFINE f == [k \in 0 .. 0 |-> [b \in 0 .. m - 1 |-> -1]]
    <3>1. Refills(t, m, 0, f)
      BY DEF Refills
    <3> QED
      BY <2>2, <3>1
  <2>3. CASE j # 0
    <3>1. j \in Nat /\ j - 1 \in Nat /\ j - 1 \notin T
      BY <2>1, <2>3
    <3>2. PICK f : Refills(t, m, j - 1, f)
      BY <3>1
    <3> DEFINE e == IF j - 1 \in Used(t)
                    THEN Entered(f[j - 1], m, t.elem_hash_tab[j - 1], j - 1)
                    ELSE f[j - 1]
               g == [k \in 0 .. j |-> IF k = j THEN e ELSE f[k]]
    <3>3. \A k \in 0 .. j : g[k] =
            IF k = 0 THEN [b \in 0 .. m - 1 |-> -1]
            ELSE IF k - 1 \in Used(t)
                 THEN Entered(g[k - 1], m, t.elem_hash_tab[k - 1], k - 1)
                 ELSE g[k - 1]
      <4> TAKE k \in 0 .. j
      <4>1. k - 1 \in 0 .. j => g[k - 1] = f[k - 1]
        BY <3>1
      <4>2. CASE k = j
        BY <2>3, <3>1, <4>1, <4>2
      <4>3. CASE k # j
        <5>1. k \in 0 .. j - 1 /\ g[k] = f[k]
          BY <3>1, <4>3
        <5>2. f[k] = IF k = 0 THEN [b \in 0 .. m - 1 |-> -1]
                     ELSE IF k - 1 \in Used(t)
                          THEN Entered(f[k - 1], m, t.elem_hash_tab[k - 1], k - 1)
                          ELSE f[k - 1]
          BY <3>2, <5>1 DEF Refills
        <5>3. k # 0 => g[k - 1] = f[k - 1]
          BY <3>1, <4>1
        <5> HIDE DEF g
        <5> QED
          BY <5>1, <5>2, <5>3
      <4> QED
        BY <4>2, <4>3
    <3>4. g = [k \in 0 .. j |-> g[k]]
      OBVIOUS
    <3> HIDE DEF g
    <3>5. Refills(t, m, j, g)
      BY <3>3, <3>4 DEF Refills
    <3> QED
      BY <3>5
  <2> QED
    BY <2>2, <2>3
<1> QED
  BY <1>1

LEMMA RefillFills ==
  ASSUME NEW t, Elements(t), NEW m \in Nat, m > t.elem_capacity,
         NEW f, Refills(t, m, t.elem_capacity, f)
  PROVE  Filled(f[t.elem_capacity], m, Used(t))
<1> DEFINE n == t.elem_capacity
           T == {j \in 0 .. n : ~Filled(f[j], m, Used(t) \cap (0 .. j - 1))}
<1>1. n \in Nat /\ Used(t) \subseteq 0 .. n - 1
  BY DEF Elements, Used, Slots
<1>2. T = {}
  <2> SUFFICES ASSUME T # {} PROVE FALSE
    OBVIOUS
  <2>1. PICK j \in T : \A i \in T : j <= i
    <3>1. T \in SUBSET Nat
      BY <1>1
    <3> HIDE DEF T
    <3> QED
      BY <3>1, LeastExists
  <2>2. CASE j = 0
    <3>1. f[0] = [b \in 0 .. m - 1 |-> -1]
      BY <1>1 DEF Refills
    <3>2. Used(t) \cap (0 .. 0 - 1) = {}
      OBVIOUS
    <3>3. Filled([b \in 0 .. m - 1 |-> -1], m, {})
      BY DEF Filled
    <3> QED
      BY <2>1, <2>2, <3>1, <3>2, <3>3
  <2>3. CASE j # 0
    <3>1. j \in 0 .. n /\ j - 1 \in 0 .. n /\ j - 1 \in Nat /\ j - 1 \notin T
      BY <1>1, <2>1, <2>3
    <3>2. Filled(f[j - 1], m, Used(t) \cap (0 .. j - 1 - 1))
      BY <3>1
    <3>3. f[j] = IF j - 1 \in Used(t)
                 THEN Entered(f[j - 1], m, t.elem_hash_tab[j - 1], j - 1)
                 ELSE f[j - 1]
      BY <1>1, <2>3, <3>1 DEF Refills
    <3>4. CASE j - 1 \in Used(t)
      <4> DEFINE U == Used(t) \cap (0 .. j - 1 - 1)
      <4>1. /\ t.elem_hash_tab[j - 1] \in Int /\ m \in Nat \ {0}
            /\ U \in SUBSET Nat /\ U \in SUBSET (0 .. n - 1) /\ j - 1 \in Nat \ U
            /\ U \cup {j - 1} = Used(t) \cap (0 .. j - 1)
        BY <1>1, <3>1, <3>4 DEF Elements, Slots
      <4> HIDE DEF U
      <4>2. \E b \in 0 .. m - 1 : f[j - 1][b] = -1
        BY <1>1, <3>2, <4>1, FreeBucket DEF U
      <4>3. Filled(Entered(f[j - 1], m, t.elem_hash_tab[j - 1], j - 1), m, U \cup {j - 1})
        BY <3>2, <4>1, <4>2, EnteredFills DEF U
      <4> QED
        BY <2>1, <3>3, <3>4, <4>1, <4>3
    <3>5. CASE j - 1 \notin Used(t)
      <4>1. Used(t) \cap (0 .. j - 1 - 1) = Used(t) \cap (0 .. j - 1)
        BY <1>1, <3>1, <3>5
      <4> QED
        BY <2>1, <3>2, <3>3, <3>5, <4>1
    <3> QED
      BY <3>4, <3>5
  <2> QED
    BY <2>2, <2>3
<1>3. Used(t) \cap (0 .. n - 1) = Used(t) /\ n \in 0 .. n
  BY <1>1
<1> QED
  BY <1>2, <1>3

\* A table that has grown has the same elements in the same slots, all listed.
LEMMA GrowFacts ==
  ASSUME NEW t, Elements(t), NEW n \in Nat, n >= t.elem_capacity,
         NEW m \in Nat, m > t.elem_capacity
  PROVE  LET g == lai_hashtable_grow(t, n, m)
         IN  /\ Elements(g) /\ g.elem_capacity = n /\ g.bucket_capacity = m
             /\ Used(g) = Used(t)
             /\ \A k \in Used(t) : g.elem_ptr_tab[k] = t.elem_ptr_tab[k]
             /\ g.num_elems = t.num_elems
             /\ Filled(g.bucket_tab, m, Used(t))
<1> DEFINE g == lai_hashtable_grow(t, n, m)
<1>1. /\ DOMAIN g = Fields
      /\ g.elem_capacity = n /\ g.bucket_capacity = m /\ g.num_elems = t.num_elems
      /\ g.elem_ptr_tab = [k \in 0 .. n - 1 |-> IF k \in Used(t) THEN t.elem_ptr_tab[k] ELSE NULL]
      /\ g.elem_hash_tab = [k \in 0 .. n - 1 |-> IF k \in Used(t) THEN t.elem_hash_tab[k] ELSE Junk]
  BY DEF lai_hashtable_grow, Fields
<1>2. g.bucket_tab = (CHOOSE f : Refills(t, m, t.elem_capacity, f))[t.elem_capacity]
  BY DEF lai_hashtable_grow, Refills
<1> HIDE DEF g
<1>3. Used(t) \subseteq 0 .. n - 1 /\ Used(t) \subseteq Slots(t)
      /\ \A k \in Used(t) : t.elem_ptr_tab[k] # NULL
  BY DEF Used, Slots, Elements
<1>4. Used(g) = Used(t)
  BY <1>1, <1>3 DEF Used, Slots
<1>5. /\ g.elem_ptr_tab \in [Slots(g) -> Nodes \cup {NULL}]
      /\ g.elem_hash_tab \in [Slots(g) -> Int]
  BY <1>1, <1>3, HashAssumption DEF Elements, Slots
<1>6. Elements(g)
  BY <1>1, <1>3, <1>4, <1>5 DEF Elements
<1>7. Filled(g.bucket_tab, m, Used(t))
  <2>1. PICK f : f = CHOOSE x : Refills(t, m, t.elem_capacity, x)
    OBVIOUS
  <2>2. Refills(t, m, t.elem_capacity, f)
    <3>1. \E x : Refills(t, m, t.elem_capacity, x)
      BY RefillExists DEF Elements
    <3> QED
      BY <2>1, <3>1, Zenon
  <2> QED
    BY <1>2, <2>1, <2>2, RefillFills
<1> QED
  BY <1>1, <1>3, <1>4, <1>6, <1>7 DEF g

-----------------------------------------------------------------------------
(* The operations.                                                         *)

\* What everybody uses of a consistent table.
LEMMA TableFacts ==
  ASSUME NEW t, Consistent(t)
  PROVE  /\ t.elem_capacity \in Nat
         /\ Slots(t) = 0 .. t.elem_capacity - 1 /\ Used(t) \subseteq Slots(t) /\ Used(t) \subseteq Nat
         /\ IsFiniteSet(Slots(t)) /\ Cardinality(Slots(t)) = t.elem_capacity
         /\ IsFiniteSet(Used(t)) /\ Cardinality(Used(t)) \in Nat
         /\ t.num_elems = Cardinality(Used(t))
         /\ \A k \in Used(t) : /\ t.elem_ptr_tab[k] \in Nodes /\ t.elem_ptr_tab[k] # NULL
                               /\ t.elem_hash_tab[k] = HashOf(t.elem_ptr_tab[k])
<1>1. /\ t.elem_capacity \in Nat
      /\ Slots(t) = 0 .. t.elem_capacity - 1 /\ Used(t) \subseteq Slots(t) /\ Used(t) \subseteq Nat
  BY DEF Consistent, Elements, Slots, Used
<1>2. IsFiniteSet(Slots(t)) /\ Cardinality(Slots(t)) = t.elem_capacity
  <2>1. 0 \in Int /\ t.elem_capacity - 1 \in Int
    BY <1>1
  <2>2. /\ IsFiniteSet(0 .. t.elem_capacity - 1)
        /\ Cardinality(0 .. t.elem_capacity - 1) =
             IF 0 > t.elem_capacity - 1 THEN 0 ELSE (t.elem_capacity - 1) - 0 + 1
    BY <2>1, FS_Interval, Zenon
  <2> QED
    BY <1>1, <2>2
<1>3. IsFiniteSet(Used(t)) /\ Cardinality(Used(t)) \in Nat
  BY <1>1, <1>2, FS_Subset, FS_CardinalityType
<1> QED
  BY <1>1, <1>2, <1>3 DEF Consistent, Elements, Used

\* After Grown() there is room, and nothing else has changed.
LEMMA GrownFacts ==
  ASSUME NEW t, Consistent(t)
  PROVE  LET g == Grown(t)
         IN  /\ Consistent(g)
             /\ g.elem_capacity > 0 /\ g.num_elems + 1 < g.elem_capacity
             /\ Used(g) = Used(t)
             /\ \A k \in Used(t) : g.elem_ptr_tab[k] = t.elem_ptr_tab[k]
<1>1. /\ Elements(t) /\ t.elem_capacity \in Nat /\ t.num_elems \in Nat
      /\ t.bucket_capacity = 2 * t.elem_capacity
      /\ NamesDiffer(t)
      /\ t.elem_capacity > 0 => t.num_elems < t.elem_capacity
  BY TableFacts DEF Consistent
<1>2. CASE t.elem_capacity = 0
  <2> DEFINE g == lai_hashtable_grow(t, 2, 4)
  <2>1. Grown(t) = g
    BY <1>2 DEF Grown
  <2>2. /\ Elements(g) /\ g.elem_capacity = 2 /\ g.bucket_capacity = 4
        /\ Used(g) = Used(t)
        /\ \A k \in Used(t) : g.elem_ptr_tab[k] = t.elem_ptr_tab[k]
        /\ g.num_elems = t.num_elems
        /\ Filled(g.bucket_tab, 4, Used(t))
    BY <1>1, <1>2, GrowFacts
  <2> HIDE DEF g
  <2>3. t.num_elems = 0
    <3>1. Used(t) = {}
      BY <1>2 DEF Used, Slots
    <3> QED
      BY <3>1, FS_EmptySet, TableFacts
  <2> QED
    BY <1>1, <2>1, <2>2, <2>3 DEF Consistent, NamesDiffer
<1>3. CASE t.elem_capacity # 0 /\ t.num_elems + 1 >= t.elem_capacity
  <2> DEFINE g == lai_hashtable_grow(t, 2 * t.elem_capacity, 2 * t.bucket_capacity)
  <2>1. Grown(t) = g
    BY <1>3 DEF Grown
  <2>2. /\ 2 * t.elem_capacity \in Nat /\ 2 * t.elem_capacity >= t.elem_capacity
        /\ 2 * t.bucket_capacity \in Nat /\ 2 * t.bucket_capacity > t.elem_capacity
    BY <1>1, <1>3
  <2>3. /\ Elements(g) /\ g.elem_capacity = 2 * t.elem_capacity
        /\ g.bucket_capacity = 2 * t.bucket_capacity
        /\ Used(g) = Used(t)
        /\ \A k \in Used(t) : g.elem_ptr_tab[k] = t.elem_ptr_tab[k]
        /\ g.num_elems = t.num_elems
        /\ Filled(g.bucket_tab, 2 * t.bucket_capacity, Used(t))
    BY <1>1, <2>2, GrowFacts
  <2> HIDE DEF g
  <2> QED
    BY <1>1, <1>3, <2>1, <2>3 DEF Consistent, NamesDiffer
<1>4. CASE t.elem_capacity # 0 /\ ~(t.num_elems + 1 >= t.elem_capacity)
  <2>1. Grown(t) = t
    BY <1>4 DEF Grown
  <2> QED
    BY <1>1, <1>4, <2>1
<1> QED
  BY <1>2, <1>3, <1>4

\* The LAI_ENSURE() of lai_hashtable_insert() holds: there is a free slot.
LEMMA RoomFacts ==
  ASSUME NEW t, Consistent(t)
  PROVE  LET g == Grown(t)
             k == Least(Slots(g) \ Used(g))
         IN  HasRoom(t) /\ k \in Slots(g) /\ k \notin Used(t) /\ k \in Nat
<1> PICK g : g = Grown(t)
  OBVIOUS
<1>1. Consistent(g) /\ g.num_elems + 1 < g.elem_capacity /\ Used(g) = Used(t)
  BY GrownFacts
<1>2. /\ Used(g) \subseteq Slots(g) /\ Slots(g) \subseteq Nat
      /\ Cardinality(Used(g)) < Cardinality(Slots(g))
  BY <1>1, TableFacts
<1>3. Slots(g) \ Used(g) \in SUBSET Nat /\ Slots(g) \ Used(g) # {} /\ Used(g) # Slots(g)
  <2>1. Used(g) # Slots(g)
    <3> SUFFICES ASSUME Used(g) = Slots(g) PROVE FALSE
      OBVIOUS
    <3>1. Cardinality(Slots(g)) < Cardinality(Slots(g)) /\ Cardinality(Slots(g)) \in Nat
      BY <1>1, <1>2, TableFacts
    <3> QED
      BY <3>1
  <2> QED
    BY <1>2, <2>1
<1>4. Least(Slots(g) \ Used(g)) \in Slots(g) \ Used(g)
  BY <1>3, LeastExists
<1> QED
  BY <1>1, <1>2, <1>3, <1>4 DEF HasRoom

\* lai_hashtable_insert() of a node with a name that is not there.
LEMMA InsertFacts ==
  ASSUME NEW t, Consistent(t), NEW n \in Nodes,
         \A j \in Used(t) : NameOf[t.elem_ptr_tab[j]] # NameOf[n]
  PROVE  LET r == lai_hashtable_insert(t, HashOf(n), n)
         IN  /\ Consistent(r)
             /\ \E k \in Nat : /\ k \notin Used(t) /\ Used(r) = Used(t) \cup {k}
                               /\ r.elem_ptr_tab[k] = n
             /\ \A j \in Used(t) : r.elem_ptr_tab[j] = t.elem_ptr_tab[j]
<1> DEFINE r == lai_hashtable_insert(t, HashOf(n), n)
<1> PICK g : g = Grown(t)
  OBVIOUS
<1> PICK k : k = Least(Slots(g) \ Used(g))
  OBVIOUS
<1>1. /\ Consistent(g) /\ g.elem_capacity > 0 /\ g.num_elems + 1 < g.elem_capacity
      /\ Used(g) = Used(t)
      /\ \A j \in Used(t) : g.elem_ptr_tab[j] = t.elem_ptr_tab[j]
  BY GrownFacts
<1>2. k \in Slots(g) /\ k \notin Used(t) /\ k \in Nat
  BY RoomFacts
<1>3. /\ DOMAIN g = Fields /\ g.elem_capacity \in Nat
      /\ g.elem_ptr_tab \in [Slots(g) -> Nodes \cup {NULL}]
      /\ g.elem_hash_tab \in [Slots(g) -> Int]
      /\ g.bucket_capacity = 2 * g.elem_capacity
      /\ Filled(g.bucket_tab, g.bucket_capacity, Used(g))
      /\ NamesDiffer(g)
  BY <1>1 DEF Consistent, Elements
<1>4. HashOf(n) \in Int /\ n # NULL
  BY HashAssumption DEF HashOf
<1>5. r = [g EXCEPT !.elem_ptr_tab[k] = n,
                    !.elem_hash_tab[k] = HashOf(n),
                    !.num_elems = @ + 1,
                    !.bucket_tab = Entered(@, g.bucket_capacity, HashOf(n), k)]
  BY DEF lai_hashtable_insert
<1> HIDE DEF r
<1>6. /\ DOMAIN r = Fields
      /\ r.elem_capacity = g.elem_capacity /\ r.bucket_capacity = g.bucket_capacity
      /\ r.num_elems = g.num_elems + 1
      /\ r.elem_ptr_tab = [g.elem_ptr_tab EXCEPT ![k] = n]
      /\ r.elem_hash_tab = [g.elem_hash_tab EXCEPT ![k] = HashOf(n)]
      /\ r.bucket_tab = Entered(g.bucket_tab, g.bucket_capacity, HashOf(n), k)
  BY <1>3, <1>5 DEF Fields
<1>7. /\ Slots(r) = Slots(g)
      /\ r.elem_ptr_tab \in [Slots(r) -> Nodes \cup {NULL}]
      /\ r.elem_hash_tab \in [Slots(r) -> Int]
  BY <1>2, <1>3, <1>4, <1>6 DEF Slots
<1>8. /\ Used(r) = Used(t) \cup {k} /\ r.elem_ptr_tab[k] = n /\ r.elem_hash_tab[k] = HashOf(n)
      /\ \A j \in Used(t) : /\ r.elem_ptr_tab[j] = t.elem_ptr_tab[j]
                            /\ r.elem_hash_tab[j] = g.elem_hash_tab[j]
  <2>1. /\ r.elem_ptr_tab[k] = n /\ r.elem_hash_tab[k] = HashOf(n)
        /\ \A j \in Slots(g) : j # k => /\ r.elem_ptr_tab[j] = g.elem_ptr_tab[j]
                                      /\ r.elem_hash_tab[j] = g.elem_hash_tab[j]
    BY <1>2, <1>3, <1>6
  <2>2. Used(r) = Used(g) \cup {k} /\ Used(g) \subseteq Slots(g)
    <3>1. Used(r) \subseteq Slots(g) /\ Used(g) \subseteq Slots(g)
      BY <1>7 DEF Used
    <3>2. \A j \in Slots(g) : j \in Used(r) <=> j \in Used(g) \cup {k}
      BY <1>4, <1>7, <2>1 DEF Used
    <3> QED
      BY <1>2, <3>1, <3>2
  <2> QED
    BY <1>1, <1>2, <2>1, <2>2
<1>9. r.num_elems = Cardinality(Used(r))
  <2>1. /\ IsFiniteSet(Used(g)) /\ Cardinality(Used(g)) \in Nat
        /\ g.num_elems = Cardinality(Used(g))
    BY <1>1, TableFacts
  <2>2. Cardinality(Used(g) \cup {k}) = Cardinality(Used(g)) + 1
    BY <1>1, <1>2, <2>1, FS_AddElement
  <2> QED
    BY <1>1, <1>6, <1>8, <2>1, <2>2
<1>10. Filled(r.bucket_tab, r.bucket_capacity, Used(r))
  <2>1. /\ g.bucket_capacity \in Nat \ {0} /\ g.elem_capacity < g.bucket_capacity
        /\ Used(g) \in SUBSET (0 .. g.elem_capacity - 1) /\ Used(g) \in SUBSET Nat
        /\ k \in Nat \ Used(g)
    BY <1>1, <1>2, <1>3, TableFacts
  <2>2. \E b \in 0 .. g.bucket_capacity - 1 : g.bucket_tab[b] = -1
    <3>1. PICK m \in Nat : m = g.bucket_capacity
      BY <2>1
    <3>2. PICK c \in Nat : c = g.elem_capacity
      BY <1>3, <2>1
    <3>3. PICK U, B : U = Used(g) /\ B = g.bucket_tab
      OBVIOUS
    <3>4. c < m /\ U \in SUBSET (0 .. c - 1) /\ Filled(B, m, U)
      BY <1>3, <2>1, <3>1, <3>2, <3>3
    <3>5. \E b \in 0 .. m - 1 : B[b] = -1
      BY <3>4, FreeBucket
    <3> QED
      BY <3>1, <3>3, <3>5
  <2>3. Filled(Entered(g.bucket_tab, g.bucket_capacity, HashOf(n), k),
               g.bucket_capacity, Used(g) \cup {k})
    BY <1>3, <1>4, <2>1, <2>2, EnteredFills
  <2> QED
    BY <1>1, <1>6, <1>8, <2>3
<1>11. NamesDiffer(r)
  BY <1>1, <1>3, <1>8 DEF NamesDiffer
<1>12. Elements(r)
  <2>1. \A j \in Used(t) : g.elem_hash_tab[j] = HashOf(g.elem_ptr_tab[j])
    BY <1>1, TableFacts
  <2>2. \A j \in Used(r) : r.elem_hash_tab[j] = HashOf(r.elem_ptr_tab[j])
    BY <1>1, <1>8, <2>1
  <2>3. r.elem_capacity \in Nat
    BY <1>3, <1>6
  <2> QED
    BY <1>6, <1>7, <1>9, <2>2, <2>3 DEF Elements
<1>13. Consistent(r)
  <2>1. r.num_elems < r.elem_capacity
    BY <1>1, <1>6
  <2> QED
    BY <1>3, <1>6, <1>10, <1>11, <1>12, <2>1 DEF Consistent
<1> QED
  BY <1>2, <1>8, <1>13 DEF r

\* A chain stops at the used slots with its hash, and at nothing else.
LEMMA ChainFacts ==
  ASSUME NEW t, Consistent(t), NEW h \in Int
  PROVE  /\ Chain(t, h) \subseteq Buckets(t) /\ Chain(t, h) \subseteq Nat
         /\ \A i \in Chain(t, h) :
              LET b == Probe(h, i, t.bucket_capacity)
              IN  b \in Buckets(t) /\ t.bucket_tab[b] \in Used(t)
         /\ \A k \in Used(t) : t.elem_hash_tab[k] = h =>
              \E i \in Chain(t, h) : t.bucket_tab[Probe(h, i, t.bucket_capacity)] = k
<1> PICK m, B : m = t.bucket_capacity /\ B = t.bucket_tab
  OBVIOUS
<1>1. m \in Nat /\ Buckets(t) = 0 .. m - 1 /\ Filled(B, m, Used(t)) /\ Used(t) \subseteq Nat
  BY TableFacts DEF Consistent, Buckets
<1>2. Chain(t, h) \subseteq Buckets(t) /\ Chain(t, h) \subseteq Nat
  BY <1>1 DEF Chain
<1>3. ASSUME NEW i \in Chain(t, h)
      PROVE  Probe(h, i, m) \in Buckets(t) /\ B[Probe(h, i, m)] \in Used(t)
  <2>1. i \in 0 .. m - 1 /\ m \in Nat \ {0} /\ B[Probe(h, i, m)] >= 0
    BY <1>1, <1>2 DEF Chain
  <2>2. Probe(h, i, m) \in 0 .. m - 1
    BY <2>1, ProbeFacts
  <2> QED
    BY <1>1, <2>1, <2>2 DEF Filled
<1>4. ASSUME NEW k \in Used(t), t.elem_hash_tab[k] = h
      PROVE  \E i \in Chain(t, h) : B[Probe(h, i, m)] = k
  <2>1. PICK b \in 0 .. m - 1 : B[b] = k
    BY <1>1 DEF Filled
  <2>2. m \in Nat \ {0}
    BY <1>1, <2>1
  <2>3. PICK i \in 0 .. m - 1 : Probe(h, i, m) = b
    BY <2>2, ProbeFacts
  <2>4. i \in Chain(t, h)
    BY <1>1, <1>4, <2>1, <2>3 DEF Chain
  <2> QED
    BY <2>1, <2>3, <2>4
<1> QED
  BY <1>2, <1>3, <1>4

\* LAI_ENSURE(elem) holds at every stop.
LEMMA SoundFacts ==
  ASSUME NEW t, Consistent(t), NEW h \in Int
  PROVE  Sound(t, h)
  BY ChainFacts, TableFacts DEF Sound, lai_hashtable_chain_get

\* lai_ns_get_child() finds a child of the name if there is one.
LEMMA LookupFacts ==
  ASSUME NEW t, Consistent(t), NEW x \in Nodes
  PROVE  LET named == {k \in Used(t) : NameOf[t.elem_ptr_tab[k]] = NameOf[x]}
             found == lai_ns_get_child(t, NameOf[x])
         IN  /\ named = {} => found = NULL
             /\ named # {} => found # NULL /\ \E k \in named : found = t.elem_ptr_tab[k]
<1> DEFINE h == Hash[NameOf[x]]
           named == {k \in Used(t) : NameOf[t.elem_ptr_tab[k]] = NameOf[x]}
           hits == Hits(t, NameOf[x])
<1>1. h \in Int
  BY HashAssumption
<1>2. hits \subseteq Chain(t, h) /\ Chain(t, h) \subseteq Nat
  BY <1>1, ChainFacts DEF Hits
<1>3. ASSUME NEW i \in hits
      PROVE  \E k \in named : lai_hashtable_chain_get(t, h, i) = t.elem_ptr_tab[k]
  <2>1. PICK k \in Used(t) : k = t.bucket_tab[Probe(h, i, t.bucket_capacity)]
    BY <1>1, <1>2, <1>3, ChainFacts
  <2>2. lai_hashtable_chain_get(t, h, i) = t.elem_ptr_tab[k]
    BY <2>1 DEF lai_hashtable_chain_get
  <2>3. NameOf[lai_hashtable_chain_get(t, h, i)] = NameOf[x]
    BY <1>3 DEF Hits
  <2> QED
    BY <2>2, <2>3
<1>4. ASSUME NEW k \in named PROVE hits # {}
  <2>1. t.elem_hash_tab[k] = h
    BY <1>4, TableFacts DEF HashOf
  <2>2. PICK i \in Chain(t, h) : t.bucket_tab[Probe(h, i, t.bucket_capacity)] = k
    BY <1>1, <1>4, <2>1, ChainFacts
  <2>3. lai_hashtable_chain_get(t, h, i) = t.elem_ptr_tab[k]
    BY <2>2 DEF lai_hashtable_chain_get
  <2>4. i \in hits
    BY <1>4, <2>3 DEF Hits
  <2> QED
    BY <2>4
<1>5. hits # {} => Least(hits) \in hits
  <2>1. hits \in SUBSET Nat
    BY <1>2
  <2> HIDE DEF hits
  <2> QED
    BY <2>1, LeastExists
<1>6. lai_ns_get_child(t, NameOf[x]) =
        IF hits = {} THEN NULL ELSE lai_hashtable_chain_get(t, h, Least(hits))
  BY DEF lai_ns_get_child
<1> HIDE DEF hits, h
<1>7. \A k \in named : t.elem_ptr_tab[k] # NULL
  BY TableFacts
<1> QED
  BY <1>3, <1>4, <1>5, <1>6, <1>7

\* lai_uninstall_nsnode() of an installed node finds it once.
LEMMA FoundOnce ==
  ASSUME NEW t, Consistent(t), NEW k \in Used(t), NEW n, n = t.elem_ptr_tab[k]
  PROVE  LET h == HashOf(n)
             found == {i \in Chain(t, h) : lai_hashtable_chain_get(t, h, i) = n}
         IN  /\ Cardinality(found) = 1 /\ Least(found) \in Chain(t, h)
             /\ t.bucket_tab[Probe(h, Least(found), t.bucket_capacity)] = k
<1> DEFINE h == HashOf(n)
           found == {i \in Chain(t, h) : lai_hashtable_chain_get(t, h, i) = n}
<1>1. n \in Nodes /\ h \in Int /\ t.elem_hash_tab[k] = h
  BY TableFacts, HashAssumption DEF HashOf
<1>2. PICK m, B : m = t.bucket_capacity /\ B = t.bucket_tab
  OBVIOUS
<1>3. m \in Nat /\ Buckets(t) = 0 .. m - 1 /\ Filled(B, m, Used(t)) /\ Used(t) \subseteq Nat
      /\ NamesDiffer(t)
  BY <1>2, TableFacts DEF Consistent, Buckets
<1>4. PICK i \in Chain(t, h) : B[Probe(h, i, m)] = k
  BY <1>1, <1>2, ChainFacts
<1>5. i \in found
  BY <1>2, <1>4 DEF lai_hashtable_chain_get
<1>6. ASSUME NEW j \in found PROVE j = i
  <2>1. PICK l \in Used(t) : l = B[Probe(h, j, m)]
    BY <1>1, <1>2, <1>6, ChainFacts
  <2>2. t.elem_ptr_tab[l] = n
    BY <1>2, <1>6, <2>1 DEF lai_hashtable_chain_get
  <2>3. l = k
    BY <1>3, <2>2 DEF NamesDiffer
  <2>4. i \in 0 .. m - 1 /\ j \in 0 .. m - 1 /\ m \in Nat \ {0}
    BY <1>1, <1>3, <1>6, ChainFacts
  <2>5. Probe(h, i, m) \in 0 .. m - 1 /\ Probe(h, j, m) \in 0 .. m - 1
    BY <1>1, <2>4, ProbeFacts
  <2>6. Probe(h, i, m) = Probe(h, j, m)
    <3>1. k # -1
      BY <1>3
    <3> QED
      BY <1>3, <1>4, <2>1, <2>3, <2>5, <3>1 DEF Filled
  <2> QED
    BY <1>1, <2>4, <2>6, ProbeFacts
<1>7. found = {i}
  BY <1>5, <1>6
<1>8. Cardinality({i}) = 1
  BY FS_Singleton
<1>9. Least({i}) = i
  <2>1. i \in Nat
    BY <1>1, ChainFacts
  <2>2. {i} \in SUBSET Nat /\ {i} # {}
    BY <2>1
  <2>3. Least({i}) \in {i}
    BY <2>2, LeastExists
  <2> QED
    BY <2>3
<1> QED
  BY <1>2, <1>4, <1>7, <1>8, <1>9

\* A set without one of its elements.
LEMMA OneLess ==
  ASSUME NEW S, IsFiniteSet(S), NEW x \in S
  PROVE  Cardinality(S \ {x}) = Cardinality(S) - 1
  BY FS_RemoveElement

\* What removing an element from a chain leaves.
LEMMA RemoveFacts ==
  ASSUME NEW t, Consistent(t), NEW k \in Used(t), NEW h \in Int, NEW i \in Chain(t, h),
         t.bucket_tab[Probe(h, i, t.bucket_capacity)] = k
  PROVE  LET r == lai_hashtable_chain_remove(t, h, i)
         IN  /\ Consistent(r) /\ Used(r) = Used(t) \ {k}
             /\ \A j \in Used(r) : r.elem_ptr_tab[j] = t.elem_ptr_tab[j]
<1> DEFINE r == lai_hashtable_chain_remove(t, h, i)
<1> PICK b : b = Probe(h, i, t.bucket_capacity)
  OBVIOUS
<1>1. b \in Buckets(t) /\ t.bucket_tab[b] = k
  BY ChainFacts
<1>2. /\ DOMAIN t = Fields /\ t.elem_capacity \in Nat
      /\ t.elem_ptr_tab \in [Slots(t) -> Nodes \cup {NULL}]
      /\ t.elem_hash_tab \in [Slots(t) -> Int]
      /\ t.bucket_capacity = 2 * t.elem_capacity /\ Buckets(t) = 0 .. t.bucket_capacity - 1
      /\ Filled(t.bucket_tab, t.bucket_capacity, Used(t))
      /\ t.elem_capacity > 0 => t.num_elems < t.elem_capacity
      /\ NamesDiffer(t)
  BY DEF Consistent, Elements, Buckets
<1>3. r = [t EXCEPT !.elem_ptr_tab[t.bucket_tab[b]] = NULL,
                    !.bucket_tab[b] = -1,
                    !.num_elems = @ - 1]
  BY DEF lai_hashtable_chain_remove
<1> HIDE DEF r
<1>4. /\ DOMAIN r = Fields
      /\ r.elem_capacity = t.elem_capacity /\ r.bucket_capacity = t.bucket_capacity
      /\ r.num_elems = t.num_elems - 1
      /\ r.elem_ptr_tab = [t.elem_ptr_tab EXCEPT ![k] = NULL]
      /\ r.elem_hash_tab = t.elem_hash_tab
      /\ r.bucket_tab = [t.bucket_tab EXCEPT ![b] = -1]
  BY <1>1, <1>2, <1>3 DEF Fields
<1>5. /\ Slots(r) = Slots(t) /\ k \in Slots(t) /\ Used(t) \subseteq Slots(t)
      /\ r.elem_ptr_tab \in [Slots(r) -> Nodes \cup {NULL}]
      /\ r.elem_hash_tab \in [Slots(r) -> Int]
  BY <1>2, <1>4 DEF Slots, Used
<1>6. /\ r.elem_ptr_tab[k] = NULL
      /\ \A j \in Slots(t) : j # k => r.elem_ptr_tab[j] = t.elem_ptr_tab[j]
  BY <1>2, <1>4, <1>5
<1>7. Used(r) = Used(t) \ {k}
  <2>1. Used(r) \subseteq Slots(t)
    BY <1>5 DEF Used
  <2>2. \A j \in Slots(t) : j \in Used(r) <=> j \in Used(t) \ {k}
    BY <1>5, <1>6 DEF Used
  <2> QED
    BY <1>5, <2>1, <2>2
<1>8. \A j \in Used(r) : r.elem_ptr_tab[j] = t.elem_ptr_tab[j]
  BY <1>5, <1>6, <1>7
<1>9. r.num_elems = Cardinality(Used(r)) /\ r.num_elems < t.num_elems /\ t.num_elems \in Nat
      /\ r.num_elems \in Int
  <2>1. /\ IsFiniteSet(Used(t)) /\ Cardinality(Used(t)) \in Nat
        /\ t.num_elems = Cardinality(Used(t))
    BY TableFacts
  <2>2. Cardinality(Used(t) \ {k}) = Cardinality(Used(t)) - 1
    BY <2>1, OneLess
  <2> QED
    BY <1>4, <1>7, <2>1, <2>2
<1>10. Filled(r.bucket_tab, r.bucket_capacity, Used(r))
  <2>1. PICK m, B, C, U :
          /\ m = t.bucket_capacity /\ B = t.bucket_tab /\ C = r.bucket_tab /\ U = Used(t)
    OBVIOUS
  <2>2. /\ b \in 0 .. m - 1 /\ B[b] = k /\ k \in Nat /\ k \in U /\ Filled(B, m, U)
        /\ C = [B EXCEPT ![b] = -1]
    BY <1>1, <1>2, <1>4, <2>1, TableFacts
  <2>3. \A c \in 0 .. m - 1 : c # b => B[c] # k
    BY <2>2 DEF Filled
  <2>4. Filled(C, m, U \ {k})
    BY <2>2, <2>3 DEF Filled
  <2> QED
    BY <1>4, <1>7, <2>1, <2>4
<1>11. NamesDiffer(r)
  BY <1>2, <1>7, <1>8 DEF NamesDiffer
<1>12. Elements(r)
  <2>1. \A j \in Used(r) : r.elem_hash_tab[j] = HashOf(r.elem_ptr_tab[j])
    BY <1>4, <1>7, <1>8, TableFacts
  <2> QED
    BY <1>2, <1>4, <1>5, <1>9, <2>1 DEF Elements
<1>13. Consistent(r)
  <2>1. r.elem_capacity > 0 => r.num_elems < r.elem_capacity
    BY <1>2, <1>4, <1>9
  <2> QED
    BY <1>2, <1>4, <1>10, <1>11, <1>12, <2>1 DEF Consistent
<1> QED
  BY <1>7, <1>8, <1>13 DEF r

-----------------------------------------------------------------------------
(* The steps: each keeps the invariant and is a step of LaiChildren.       *)

Pending == IF iter = NoWalk THEN {} ELSE {ht.elem_ptr_tab[k] : k \in Ahead(ht, iter)}

\* The hash of a node is a number.
LEMMA HashType == \A n \in Nodes : HashOf(n) \in Int
  BY HashAssumption DEF HashOf

\* lai_hashtable_init() leaves an empty table.
LEMMA InitInv == Init => TableInv /\ Children!Init
<1> SUFFICES ASSUME Init PROVE TableInv /\ Children!Init
  OBVIOUS
<1>1. /\ DOMAIN ht = Fields /\ ht.elem_capacity = 0 /\ ht.bucket_capacity = 0
      /\ ht.num_elems = 0
      /\ ht.elem_ptr_tab = << >> /\ ht.elem_hash_tab = << >> /\ ht.bucket_tab = << >>
  BY DEF Init, Empty, Fields
<1>2. Slots(ht) = {} /\ Used(ht) = {} /\ Installed = {}
  BY <1>1 DEF Slots, Used, Installed
<1>3. Elements(ht)
  <2>1. Cardinality(Used(ht)) = 0
    BY <1>2, FS_EmptySet
  <2> QED
    BY <1>1, <1>2, <2>1 DEF Elements
<1>4. Filled(ht.bucket_tab, ht.bucket_capacity, Used(ht))
  BY <1>1, <1>2 DEF Filled
<1>5. Consistent(ht)
  BY <1>1, <1>2, <1>3, <1>4 DEF Consistent, NamesDiffer
<1>6. iter = NoWalk /\ answer = NULL /\ panicked = FALSE
  BY DEF Init
<1> QED
  BY <1>2, <1>5, <1>6 DEF TableInv, Children!Init

\* A node is installed, or refused because its name is taken.
LEMMA InstallStep ==
  ASSUME TableInv, NEW n \in Nodes \ Installed, lai_install_nsnode(n)
  PROVE  TableInv' /\ Children!Install(n)
<1>1. Consistent(ht) /\ HashOf(n) \in Int
  BY HashType DEF TableInv
<1>2. Sound(ht, HashOf(n)) /\ HasRoom(ht)
  BY <1>1, SoundFacts, RoomFacts
<1> DEFINE named == {k \in Used(ht) : NameOf[ht.elem_ptr_tab[k]] = NameOf[n]}
<1>3. CASE lai_ns_get_child(ht, NameOf[n]) # NULL
  <2>1. answer' = "LAI_ERROR_UNEXPECTED_RESULT" /\ UNCHANGED <<ht, iter, panicked>>
    BY <1>2, <1>3 DEF lai_install_nsnode
  <2>2. named # {}
    BY <1>1, <1>3, LookupFacts
  <2>3. {x \in Installed : NameOf[x] = NameOf[n]} # {}
    BY <2>2 DEF Installed
  <2>4. TableInv'
    BY <2>1 DEF TableInv
  <2> QED
    BY <2>1, <2>3, <2>4 DEF Children!Install, Children!Named, Installed, Ahead, Used, Slots
<1>4. CASE lai_ns_get_child(ht, NameOf[n]) = NULL
  <2>1. /\ ht' = lai_hashtable_insert(ht, HashOf(n), n)
        /\ answer' = "LAI_ERROR_NONE" /\ UNCHANGED <<iter, panicked>>
    BY <1>2, <1>4 DEF lai_install_nsnode
  <2>2. named = {}
    BY <1>1, <1>4, LookupFacts
  <2>3. \A j \in Used(ht) : NameOf[ht.elem_ptr_tab[j]] # NameOf[n]
    BY <2>2
  <2>4. PICK k \in Nat :
          /\ Consistent(ht') /\ k \notin Used(ht)
          /\ Used(ht') = Used(ht) \cup {k} /\ ht'.elem_ptr_tab[k] = n
          /\ \A j \in Used(ht) : ht'.elem_ptr_tab[j] = ht.elem_ptr_tab[j]
    BY <1>1, <2>1, <2>3, InsertFacts
  <2>5. TableInv'
    BY <2>1, <2>4 DEF TableInv
  <2>6. {x \in Installed : NameOf[x] = NameOf[n]} = {}
    BY <2>3 DEF Installed
  <2>7. Installed' = Installed \cup {n}
    <3>1. Installed' = {ht'.elem_ptr_tab[j] : j \in Used(ht')}
      BY DEF Installed
    <3> QED
      BY <2>4, <3>1 DEF Installed
  <2>8. Pending' \in IF iter # NoWalk THEN {Pending, Pending \cup {n}} ELSE {{}}
    <3>1. CASE iter = NoWalk
      BY <2>1, <3>1 DEF Pending
    <3>2. CASE iter # NoWalk
      <4>1. /\ Pending' = {ht'.elem_ptr_tab[j] : j \in Ahead(ht', iter)}
            /\ Pending = {ht.elem_ptr_tab[j] : j \in Ahead(ht, iter)}
        BY <2>1, <3>2 DEF Pending
      <4>2. \/ Ahead(ht', iter) = Ahead(ht, iter)
            \/ Ahead(ht', iter) = Ahead(ht, iter) \cup {k}
        BY <2>4 DEF Ahead
      <4>3. /\ \A j \in Ahead(ht, iter) : ht'.elem_ptr_tab[j] = ht.elem_ptr_tab[j]
            /\ ht'.elem_ptr_tab[k] = n
        BY <2>4 DEF Ahead
      <4>4. Pending' = Pending \/ Pending' = Pending \cup {n}
        BY <4>1, <4>2, <4>3
      <4> QED
        BY <3>2, <4>4
    <3> QED
      BY <3>1, <3>2
  <2> QED
    BY <2>1, <2>5, <2>6, <2>7, <2>8 DEF Children!Install, Children!Named, Pending
<1> QED
  BY <1>3, <1>4

\* A node is uninstalled, and does not come up any more.
LEMMA UninstallStep ==
  ASSUME TableInv, NEW n \in Installed, lai_uninstall_nsnode(n)
  PROVE  TableInv' /\ Children!Uninstall(n)
<1> DEFINE found == {i \in Chain(ht, HashOf(n)) : lai_hashtable_chain_get(ht, HashOf(n), i) = n}
<1>1. PICK k \in Used(ht) : n = ht.elem_ptr_tab[k]
  BY DEF Installed
<1>2. Consistent(ht) /\ n \in Nodes /\ HashOf(n) \in Int /\ NamesDiffer(ht)
  BY <1>1, HashType, TableFacts DEF TableInv, Consistent
<1>3. /\ Cardinality(found) = 1 /\ Least(found) \in Chain(ht, HashOf(n))
      /\ ht.bucket_tab[Probe(HashOf(n), Least(found), ht.bucket_capacity)] = k
  BY <1>1, <1>2, FoundOnce
<1>4. /\ ht' = lai_hashtable_chain_remove(ht, HashOf(n), Least(found))
      /\ UNCHANGED <<iter, answer, panicked>>
  <2>1. Sound(ht, HashOf(n))
    BY <1>2, SoundFacts
  <2> QED
    BY <1>3, <2>1 DEF lai_uninstall_nsnode
<1> HIDE DEF found
<1>5. /\ Consistent(ht') /\ Used(ht') = Used(ht) \ {k}
      /\ \A j \in Used(ht') : ht'.elem_ptr_tab[j] = ht.elem_ptr_tab[j]
  BY <1>2, <1>3, <1>4, RemoveFacts
<1>6. TableInv'
  BY <1>4, <1>5 DEF TableInv
<1>7. \A j \in Used(ht) : ht.elem_ptr_tab[j] = n => j = k
  BY <1>1, <1>2 DEF NamesDiffer
<1>8. Installed' = Installed \ {n}
  <2>1. Installed' = {ht'.elem_ptr_tab[j] : j \in Used(ht')}
    BY DEF Installed
  <2> QED
    BY <1>1, <1>5, <1>7, <2>1 DEF Installed
<1>9. Pending' = Pending \ {n}
  <2>1. CASE iter = NoWalk
    BY <1>4, <2>1 DEF Pending
  <2>2. CASE iter # NoWalk
    <3>1. /\ Pending' = {ht'.elem_ptr_tab[j] : j \in Ahead(ht', iter)}
          /\ Pending = {ht.elem_ptr_tab[j] : j \in Ahead(ht, iter)}
      BY <1>4, <2>2 DEF Pending
    <3>2. /\ Ahead(ht', iter) = Ahead(ht, iter) \ {k}
          /\ Ahead(ht', iter) \subseteq Used(ht') /\ Ahead(ht, iter) \subseteq Used(ht)
      BY <1>5 DEF Ahead
    <3> QED
      BY <1>1, <1>5, <1>7, <3>1, <3>2
  <2> QED
    BY <2>1, <2>2
<1> QED
  BY <1>4, <1>6, <1>8, <1>9 DEF Children!Uninstall, Pending

\* A lookup answers with the child of the name, if there is one.
LEMMA GetChildStep ==
  ASSUME TableInv, NEW n \in Nodes, GetChild(NameOf[n])
  PROVE  TableInv' /\ Children!GetChild(NameOf[n])
<1> DEFINE named == {k \in Used(ht) : NameOf[ht.elem_ptr_tab[k]] = NameOf[n]}
           named_nodes == {x \in Installed : NameOf[x] = NameOf[n]}
<1>1. Consistent(ht) /\ HashOf(n) \in Int
  BY HashType DEF TableInv
<1>2. answer' = lai_ns_get_child(ht, NameOf[n]) /\ UNCHANGED <<ht, iter, panicked>>
  <2>1. Sound(ht, Hash[NameOf[n]])
    BY <1>1, SoundFacts DEF HashOf
  <2> QED
    BY <2>1 DEF GetChild
<1>3. /\ named = {} => answer' = NULL
      /\ named # {} => \E k \in named : answer' = ht.elem_ptr_tab[k]
  BY <1>1, <1>2, LookupFacts
<1>4. answer' \in Nodes \cup {NULL}
  BY <1>1, <1>3, TableFacts
<1>5. answer' \in IF named_nodes = {} THEN {NULL} ELSE named_nodes
  BY <1>3 DEF Installed
<1>6. TableInv'
  BY <1>2, <1>4 DEF TableInv
<1> QED
  BY <1>2, <1>5, <1>6 DEF Children!GetChild, Children!Named, Installed, Ahead, Used, Slots

\* A walk begins with all children before it.
LEMMA StartStep ==
  ASSUME TableInv, StartWalk
  PROVE  TableInv' /\ Children!StartWalk
<1>1. iter = NoWalk /\ iter' = 0 /\ UNCHANGED <<ht, answer, panicked>> /\ iter' # NoWalk
  BY DEF StartWalk, NoWalk
<1>2. Consistent(ht)
  BY DEF TableInv
<1>3. Ahead(ht, 0) = Used(ht)
  BY <1>2, TableFacts DEF Ahead
<1>4. Pending' = Installed /\ Installed' = Installed
  <2>1. Pending' = {ht.elem_ptr_tab[k] : k \in Ahead(ht, 0)}
    BY <1>1 DEF Pending
  <2>2. Installed' = Installed
    BY <1>1 DEF Installed
  <2> QED
    BY <1>3, <2>1, <2>2 DEF Installed
<1>5. TableInv'
  BY <1>1 DEF TableInv
<1> QED
  BY <1>1, <1>4, <1>5 DEF Children!StartWalk, Pending

\* A step of the walk gives a node that it has still to give, and only that one is done.
LEMMA WalkStep ==
  ASSUME TableInv, lai_ns_child_iterate
  PROVE  TableInv' /\ Children!WalkNext
<1> DEFINE ahead == Ahead(ht, iter)
<1>1. /\ Consistent(ht) /\ iter \in Nat /\ iter # NoWalk /\ NamesDiffer(ht)
      /\ UNCHANGED <<ht, panicked>>
  BY DEF TableInv, lai_ns_child_iterate, Consistent
<1>2. ahead \subseteq Used(ht) /\ Used(ht) \subseteq Nat
  BY <1>1, TableFacts DEF Ahead
<1>3. Pending = {ht.elem_ptr_tab[k] : k \in ahead} /\ Installed' = Installed
  BY <1>1 DEF Pending, Installed
<1>4. CASE ahead = {}
  <2>1. answer' = NULL /\ iter' = NoWalk /\ Pending = {} /\ Pending' = {}
    BY <1>3, <1>4 DEF lai_ns_child_iterate, Pending
  <2>2. TableInv'
    BY <1>1, <2>1 DEF TableInv
  <2> QED
    BY <1>1, <1>3, <2>1, <2>2 DEF Children!WalkNext, Pending
<1>5. CASE ahead # {}
  <2> PICK k : k = Least(ahead)
    OBVIOUS
  <2>1. k \in ahead /\ \A j \in ahead : k <= j
    <3>1. ahead \in SUBSET Nat
      BY <1>2
    <3> HIDE DEF ahead
    <3> QED
      BY <1>5, <3>1, LeastExists
  <2>2. k \in Nat /\ k \in Used(ht)
    BY <1>2, <2>1
  <2>3. answer' = ht.elem_ptr_tab[k] /\ iter' = k + 1
    BY <1>5 DEF lai_ns_child_iterate
  <2>4. iter' \in Nat /\ iter' # NoWalk /\ answer' \in Nodes
    BY <1>1, <2>2, <2>3, TableFacts DEF NoWalk
  <2>5. Ahead(ht, k + 1) = ahead \ {k}
    BY <1>1, <1>2, <2>1, <2>2 DEF Ahead
  <2>6. \A j \in ahead : ht.elem_ptr_tab[j] = ht.elem_ptr_tab[k] => j = k
    BY <1>1, <1>2, <2>2 DEF NamesDiffer
  <2>7. Pending' = Pending \ {answer'}
    <3>1. Pending' = {ht.elem_ptr_tab[j] : j \in Ahead(ht, k + 1)}
      BY <1>1, <2>3, <2>4 DEF Pending
    <3> HIDE DEF ahead
    <3> QED
      BY <1>3, <2>3, <2>5, <2>6, <3>1
  <2>8. answer' \in Pending
    BY <1>3, <2>1, <2>3
  <2>9. TableInv'
    BY <1>1, <2>4 DEF TableInv
  <2> QED
    BY <1>1, <1>3, <2>4, <2>7, <2>8, <2>9 DEF Children!WalkNext, Pending
<1> QED
  BY <1>4, <1>5

\* Every step keeps the invariant and is a step of LaiChildren, or changes nothing there.
LEMMA NextStep ==
  ASSUME TableInv, [Next]_vars
  PROVE  TableInv' /\ [Children!Next]_(Children!vars)
<1>1. CASE \E n \in Nodes \ Installed : lai_install_nsnode(n)
  BY <1>1, InstallStep DEF Children!Next
<1>2. CASE \E n \in Installed : lai_uninstall_nsnode(n)
  <2>1. Installed \subseteq Nodes
    BY TableFacts DEF TableInv, Installed
  <2> QED
    BY <1>2, <2>1, UninstallStep DEF Children!Next
<1>3. CASE \E n \in Nodes : GetChild(NameOf[n])
  BY <1>3, GetChildStep DEF Children!Next
<1>4. CASE StartWalk
  BY <1>4, StartStep DEF Children!Next
<1>5. CASE lai_ns_child_iterate
  BY <1>5, WalkStep DEF Children!Next
<1>6. CASE UNCHANGED vars
  <2>1. ht' = ht /\ iter' = iter /\ answer' = answer /\ panicked' = panicked
    BY <1>6 DEF vars
  <2>2. TableInv'
    BY <2>1 DEF TableInv
  <2>3. Pending' = Pending /\ Installed' = Installed
    BY <2>1 DEF Pending, Installed
  <2> QED
    BY <2>1, <2>2, <2>3 DEF Children!vars, Pending
<1> QED
  BY <1>1, <1>2, <1>3, <1>4, <1>5, <1>6 DEF Next

LEMMA Invariance == Spec => []TableInv
<1>1. Init => TableInv
  BY InitInv
<1>2. TableInv /\ [Next]_vars => TableInv'
  BY NextStep
<1> QED
  BY <1>1, <1>2, PTL DEF Spec

-----------------------------------------------------------------------------
(* The theorems.                                                           *)

\* The type invariant: lai_hashtable_grow() keeps two buckets for a slot, and every bucket
\* that is not free holds the number of a slot of elem_ptr_tab.
THEOREM TypesKept == Spec => []TypeOK
<1>1. TableInv => TypeOK
  <2> SUFFICES ASSUME TableInv PROVE TypeOK
    OBVIOUS
  <2>1. Elements(ht) /\ ht.bucket_capacity = 2 * ht.elem_capacity
        /\ Filled(ht.bucket_tab, ht.bucket_capacity, Used(ht))
    BY DEF TableInv, Consistent
  <2>2. ht.bucket_tab \in [Buckets(ht) -> Slots(ht) \cup {-1}]
    BY <2>1 DEF Filled, Buckets, Used
  <2> QED
    BY <2>1, <2>2 DEF TypeOK, TableInv, Elements
<1> QED
  BY <1>1, Invariance, PTL

\* The element tables and the bucket table of lai_hashtable_insert(), _grow() and
\* _chain_remove() describe each other, and the element table is never full.
THEOREM TablesConsistent == Spec => []TablesAgree
<1>1. TableInv => TablesAgree
  <2> SUFFICES ASSUME TableInv PROVE TablesAgree
    OBVIOUS
  <2> DEFINE InUse == {b \in Buckets(ht) : ht.bucket_tab[b] >= 0}
  <2>1. Elements(ht) /\ Filled(ht.bucket_tab, ht.bucket_capacity, Used(ht))
        /\ (ht.elem_capacity > 0 => ht.num_elems < ht.elem_capacity)
    BY DEF TableInv, Consistent
  <2>2. \A b \in Buckets(ht) : ht.bucket_tab[b] \in Nat \cup {-1}
    BY <2>1 DEF Filled, Buckets
  <2>3. \A b \in InUse : ht.bucket_tab[b] \in Used(ht)
    BY <2>1, <2>2 DEF Filled, Buckets
  <2>4. \A k \in Used(ht) : k \in Nat /\ \E b \in InUse : ht.bucket_tab[b] = k
    <3>1. Used(ht) \subseteq Nat
      BY TableFacts DEF TableInv
    <3> QED
      BY <2>1, <3>1 DEF Filled, Buckets
  <2>5. {ht.bucket_tab[b] : b \in InUse} = Used(ht)
    BY <2>3, <2>4
  <2>6. \A b, c \in InUse : ht.bucket_tab[b] = ht.bucket_tab[c] => b = c
    BY <2>1, <2>2 DEF Filled, Buckets
  <2> QED
    BY <2>1, <2>5, <2>6 DEF TablesAgree, Elements
<1> QED
  BY <1>1, Invariance, PTL

\* LAI_ENSURE(k < ht->elem_capacity), LAI_ENSURE(elem) and the panic of
\* lai_uninstall_nsnode() for a node that is not found once are never reached.
THEOREM NoPanic == Spec => []NeverPanics
<1>1. TableInv => NeverPanics
  BY DEF TableInv, NeverPanics
<1> QED
  BY <1>1, Invariance, PTL

\* The refinement: to the callers of ns.c the table is a set of children with different
\* names, and lai_ns_child_iterate() gives each of them once whatever is installed and
\* uninstalled between two calls.
THEOREM Refinement == Spec => ImplementsLaiChildren
<1>1. Init => Children!Init
  BY InitInv
<1>2. TableInv /\ [Next]_vars => [Children!Next]_(Children!vars)
  BY NextStep
<1> QED
  BY <1>1, <1>2, Invariance, PTL DEF Spec, ImplementsLaiChildren, Children!Spec

=============================================================================
