---------------------------- MODULE LaiHashTable ----------------------------
(***************************************************************************)
(* The hash table in which a namespace node keeps its children             *)
(* (lai/core/util-hash.h), and its users in lai/core/ns.c.  The elements   *)
(* lie in the slots of elem_ptr_tab; bucket_tab is an open-addressing      *)
(* table of slot numbers.  A removed entry leaves no mark, so a lookup     *)
(* goes on through the whole bucket table.  A walk over the children goes  *)
(* through the slots and keeps the number of the next one, while the AML   *)
(* code evaluated between its steps (_STA, _INI, _ADR, ...) installs and   *)
(* uninstalls children of the same node and makes the table grow.          *)
(***************************************************************************)
EXTENDS Integers, FiniteSets

CONSTANTS
    Nodes,          \* the nodes that may become children
    NameOf,         \* their names
    Hash,           \* lai_hash_string() of a name, as an int
    Junk,           \* what malloc() leaves where the hash of a free slot belongs
    NULL            \* no node

ASSUME HashAssumption ==
    /\ \A n \in Nodes : Hash[NameOf[n]] \in Int
    /\ Junk \in Int
    /\ NULL \notin Nodes

VARIABLES
    ht,             \* struct lai_hashtable: the children
    iter,           \* the walk: the number of its next slot, or NoWalk
    answer,         \* what the last call returned
    panicked        \* whether an LAI_ENSURE() has failed

vars == <<ht, iter, answer, panicked>>

NoWalk == -1

Slots(t) == 0 .. t.elem_capacity - 1
Buckets(t) == 0 .. t.bucket_capacity - 1
Used(t) == {k \in Slots(t) : t.elem_ptr_tab[k] # NULL}

Least(S) == CHOOSE i \in S : \A j \in S : i <= j

-----------------------------------------------------------------------------
(* lai/core/util-hash.h                                                    *)

Empty ==
    [elem_capacity |-> 0, bucket_capacity |-> 0, num_elems |-> 0,
     elem_ptr_tab |-> << >>, elem_hash_tab |-> << >>, bucket_tab |-> << >>]

\* The bucket of the i-th probe for a hash; the capacity is a power of 2.
Probe(h, i, capacity) == (h + i) % capacity

\* Slot `k` goes to the first free bucket.
Entered(bucket_tab, capacity, h, k) ==
    LET i == Least({j \in 0 .. capacity - 1 : bucket_tab[Probe(h, j, capacity)] < 0})
    IN  [bucket_tab EXCEPT ![Probe(h, i, capacity)] = k]

\* Elements keep their slots; the buckets are filled anew.
lai_hashtable_grow(t, n, m) ==
    LET bucket_tab[k \in 0 .. t.elem_capacity] ==
          IF k = 0 THEN [b \in 0 .. m - 1 |-> -1]
          ELSE IF k - 1 \in Used(t)
               THEN Entered(bucket_tab[k - 1], m, t.elem_hash_tab[k - 1], k - 1)
               ELSE bucket_tab[k - 1]
    IN  [elem_capacity   |-> n,
         bucket_capacity |-> m,
         num_elems       |-> t.num_elems,
         elem_ptr_tab    |-> [k \in 0 .. n - 1 |-> IF k \in Used(t) THEN t.elem_ptr_tab[k] ELSE NULL],
         elem_hash_tab   |-> [k \in 0 .. n - 1 |-> IF k \in Used(t) THEN t.elem_hash_tab[k] ELSE Junk],
         bucket_tab      |-> bucket_tab[t.elem_capacity]]

\* Variant: the table grows when it is full, one element late.
Grown_Late(t) ==
    IF t.elem_capacity = 0 THEN lai_hashtable_grow(t, 2, 4)
    ELSE IF t.num_elems > t.elem_capacity
         THEN lai_hashtable_grow(t, 2 * t.elem_capacity, 2 * t.bucket_capacity)
         ELSE t
\* Variant: only the element table grows.
Grown_BucketsStay(t) ==
    IF t.elem_capacity = 0 THEN lai_hashtable_grow(t, 2, 4)
    ELSE IF t.num_elems + 1 >= t.elem_capacity
         THEN lai_hashtable_grow(t, 2 * t.elem_capacity, t.bucket_capacity)
         ELSE t
\* The table with room for one element more.
Grown(t) ==
    IF t.elem_capacity = 0 THEN lai_hashtable_grow(t, 2, 4)
    ELSE IF t.num_elems + 1 >= t.elem_capacity
         THEN lai_hashtable_grow(t, 2 * t.elem_capacity, 2 * t.bucket_capacity)
         ELSE t

\* Into the first free slot, `k`; LAI_ENSURE(k < ht->elem_capacity) is HasRoom.
HasRoom(t) == Used(Grown(t)) # Slots(Grown(t))

lai_hashtable_insert(t, h, elem) ==
    LET g == Grown(t)
        k == Least(Slots(g) \ Used(g))
    IN  [g EXCEPT !.elem_ptr_tab[k] = elem,
                  !.elem_hash_tab[k] = h,
                  !.num_elems = @ + 1,
                  !.bucket_tab = Entered(@, g.bucket_capacity, h, k)]

\* Variant: the probe ends at a free bucket.
Chain_ToHole(t, h) ==
    {i \in Buckets(t) :
        /\ \A j \in 0 .. i : t.bucket_tab[Probe(h, j, t.bucket_capacity)] >= 0
        /\ t.elem_hash_tab[t.bucket_tab[Probe(h, i, t.bucket_capacity)]] = h}
\* The probes at which lai_hashtable_chain_advance() stops, in ascending order, and the
\* element lai_hashtable_chain_get() gives there.
Chain(t, h) ==
    {i \in Buckets(t) :
        LET k == t.bucket_tab[Probe(h, i, t.bucket_capacity)]
        IN  k >= 0 /\ t.elem_hash_tab[k] = h}

lai_hashtable_chain_get(t, h, i) == t.elem_ptr_tab[t.bucket_tab[Probe(h, i, t.bucket_capacity)]]

\* Variant: the bucket keeps the number of the slot.
lai_hashtable_chain_remove_BucketStays(t, h, i) ==
    [t EXCEPT !.elem_ptr_tab[t.bucket_tab[Probe(h, i, t.bucket_capacity)]] = NULL,
              !.num_elems = @ - 1]
lai_hashtable_chain_remove(t, h, i) ==
    LET b == Probe(h, i, t.bucket_capacity)
    IN  [t EXCEPT !.elem_ptr_tab[t.bucket_tab[b]] = NULL,
                  !.bucket_tab[b] = -1,
                  !.num_elems = @ - 1]

-----------------------------------------------------------------------------
(* lai/core/ns.c                                                           *)

HashOf(n) == Hash[NameOf[n]]

\* The probes that hit a child of the name; LAI_ENSURE(elem) of a stop is Sound.
Hits(t, name) ==
    {i \in Chain(t, Hash[name]) : NameOf[lai_hashtable_chain_get(t, Hash[name], i)] = name}

lai_ns_get_child(t, name) ==
    IF Hits(t, name) = {} THEN NULL
    ELSE lai_hashtable_chain_get(t, Hash[name], Least(Hits(t, name)))

\* LAI_ENSURE(elem): all elements on the chain are there.
Sound(t, h) == \A i \in Chain(t, h) : lai_hashtable_chain_get(t, h, i) # NULL

\* lai_panic() does not return; nothing is said of what would follow.
Panic == panicked' = TRUE /\ UNCHANGED <<ht, iter, answer>>

Init ==
    /\ ht = Empty
    /\ iter = NoWalk
    /\ answer = NULL
    /\ panicked = FALSE

\* A new node.
lai_install_nsnode(n) ==
    IF ~Sound(ht, HashOf(n)) THEN Panic
    ELSE IF lai_ns_get_child(ht, NameOf[n]) # NULL
         THEN /\ answer' = "LAI_ERROR_UNEXPECTED_RESULT"
              /\ UNCHANGED <<ht, iter, panicked>>
         ELSE IF ~HasRoom(ht) THEN Panic
              ELSE /\ ht' = lai_hashtable_insert(ht, HashOf(n), n)
                   /\ answer' = "LAI_ERROR_NONE"
                   /\ UNCHANGED <<iter, panicked>>

\* A node that is missing from the table, or in it twice, is a panic.
lai_uninstall_nsnode(n) ==
    LET found == {i \in Chain(ht, HashOf(n)) : lai_hashtable_chain_get(ht, HashOf(n), i) = n}
    IN  IF ~Sound(ht, HashOf(n)) \/ Cardinality(found) # 1 THEN Panic
        ELSE /\ ht' = lai_hashtable_chain_remove(ht, HashOf(n), Least(found))
             /\ UNCHANGED <<iter, answer, panicked>>

GetChild(name) ==
    IF ~Sound(ht, Hash[name]) THEN Panic
    ELSE answer' = lai_ns_get_child(ht, name) /\ UNCHANGED <<ht, iter, panicked>>

\* The loop of lai_init_children(), lai_pci_find_device() or lai_pci_find_bus().
StartWalk ==
    /\ iter = NoWalk
    /\ iter' = 0
    /\ UNCHANGED <<ht, answer, panicked>>

\* The slots that are still to come.
Ahead(t, i) == {k \in Used(t) : k >= i}

\* Variant: the number of the slot is not increased behind the node.
lai_ns_child_iterate_Again ==
    /\ iter # NoWalk
    /\ IF Ahead(ht, iter) = {}
       THEN answer' = NULL /\ iter' = NoWalk
       ELSE /\ answer' = ht.elem_ptr_tab[Least(Ahead(ht, iter))]
            /\ iter' = Least(Ahead(ht, iter))
    /\ UNCHANGED <<ht, panicked>>
\* The next node; the caller's loop ends when there is none.
lai_ns_child_iterate ==
    /\ iter # NoWalk
    /\ IF Ahead(ht, iter) = {}
       THEN answer' = NULL /\ iter' = NoWalk
       ELSE /\ answer' = ht.elem_ptr_tab[Least(Ahead(ht, iter))]
            /\ iter' = Least(Ahead(ht, iter)) + 1
    /\ UNCHANGED <<ht, panicked>>

Installed == {ht.elem_ptr_tab[k] : k \in Used(ht)}

Next ==
    \/ \E n \in Nodes \ Installed : lai_install_nsnode(n)
    \/ \E n \in Installed : lai_uninstall_nsnode(n)
    \/ \E n \in Nodes : GetChild(NameOf[n])
    \/ StartWalk
    \/ lai_ns_child_iterate

Spec == Init /\ [][Next]_vars

\* The caller of a walk goes on with it: the AML code it evaluates in between returns.
Fairness == WF_vars(lai_ns_child_iterate)
FairSpec == Spec /\ Fairness

-----------------------------------------------------------------------------
(* Properties                                                              *)

TypeOK ==
    /\ ht.elem_capacity \in Nat /\ ht.bucket_capacity = 2 * ht.elem_capacity
    /\ ht.elem_ptr_tab \in [Slots(ht) -> Nodes \cup {NULL}]
    /\ ht.elem_hash_tab \in [Slots(ht) -> Int]
    /\ ht.bucket_tab \in [Buckets(ht) -> Slots(ht) \cup {-1}]
    /\ iter \in Nat \cup {NoWalk}
    /\ answer \in Nodes \cup {NULL, "LAI_ERROR_NONE", "LAI_ERROR_UNEXPECTED_RESULT"}
    /\ panicked \in BOOLEAN

\* The two tables describe each other after any history of insertions, removals and
\* growth: exactly the used slots have a bucket, one each, under the hash of their node,
\* a slot and half the buckets are free, and num_elems is right.
TablesAgree ==
    LET InUse == {b \in Buckets(ht) : ht.bucket_tab[b] >= 0}
    IN  /\ {ht.bucket_tab[b] : b \in InUse} = Used(ht)
        /\ \A b, c \in InUse : ht.bucket_tab[b] = ht.bucket_tab[c] => b = c
        /\ \A k \in Used(ht) : ht.elem_hash_tab[k] = HashOf(ht.elem_ptr_tab[k])
        /\ ht.num_elems = Cardinality(Used(ht))
        /\ ht.elem_capacity > 0 => ht.num_elems < ht.elem_capacity

\* No LAI_ENSURE() of the table and no panic of lai_uninstall_nsnode() is ever reached.
NeverPanics == ~panicked

\* The table is the set of children that the namespace takes it for: lookups find exactly
\* what is installed, no name is there twice, and a walk gives every node once that stays
\* installed while it lasts, no node twice and none that is gone.
Children == INSTANCE LaiChildren WITH
    children <- Installed,
    walking  <- iter # NoWalk,
    pending  <- IF iter = NoWalk THEN {} ELSE {ht.elem_ptr_tab[k] : k \in Ahead(ht, iter)}
ImplementsLaiChildren == Children!Spec

\* A walk ends although nodes are installed behind and ahead of it all the time: a free
\* slot is used again, so the table grows with the number of names and not with the
\* number of installations.
WalksEnd == iter # NoWalk ~> iter = NoWalk
=============================================================================
