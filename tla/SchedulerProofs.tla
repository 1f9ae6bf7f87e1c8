--------------------------- MODULE SchedulerProofs ---------------------------
(***************************************************************************)
(* Proofs about Scheduler.  First, for any number of tasks and any set of  *)
(* creating, killing and exiting tasks: type correctness, the absence of   *)
(* use after free, and that one task runs.  Then for the way the kernel    *)
(* uses it, where nobody calls kill_task() or exits and krnl_sched alone   *)
(* creates tasks once the scheduler runs: every task resumes its own       *)
(* execution, no task gets lost between the walk and the link of           *)
(* create_task(), no two tasks share a pid, and every step is a step of    *)
(* RoundRobin or a stutter.                                                *)
(***************************************************************************)
EXTENDS SchedulerRing, Sequences, FiniteSetTheorems, TLAPS

-----------------------------------------------------------------------------
(***************************************************************************)
(* Facts about singly linked lists in memory: N is the set of nodes, nx    *)
(* the next pointers, nil the null pointer.  The kernel's lists are all of *)
(* the form "t = head; while (t) t = t->next".                             *)
(***************************************************************************)
ClosedUnder(N, nx, nil, S) == \A x \in S : nx[x] # nil => nx[x] \in S

\* The nodes visited from h: what every closed set that holds h holds.
From(N, nx, nil, h) ==
  {t \in N : /\ h # nil
             /\ \A S \in SUBSET N : h \in S /\ ClosedUnder(N, nx, nil, S) => t \in S}

\* No two nodes share a successor.
Unshared(N, nx, nil) ==
  \A x, y \in N : nx[x] = nx[y] /\ nx[x] # nil => x = y

\* A walk visits its head.
LEMMA ListHead ==
  ASSUME NEW N, NEW nx, NEW nil, nil \notin N, NEW h \in N
  PROVE  h \in From(N, nx, nil, h)
BY DEF From

\* A walk visits the successor of each node it visits.
LEMMA ListStep ==
  ASSUME NEW N, NEW nx, NEW nil, nil \notin N, NEW h \in N,
         NEW x \in From(N, nx, nil, h), nx[x] \in N
  PROVE  nx[x] \in From(N, nx, nil, h)
BY DEF From, ClosedUnder

\* A walk stays in any set that holds its head and is closed under next.
LEMMA ListWithin ==
  ASSUME NEW N, NEW nx, NEW nil, NEW h, NEW S \in SUBSET N,
         h \in S, ClosedUnder(N, nx, nil, S)
  PROVE  From(N, nx, nil, h) \subseteq S
BY DEF From

\* A walk is itself closed under next.
LEMMA ListClosed ==
  ASSUME NEW N, NEW nx, NEW nil, nil \notin N, NEW h \in N,
         \A t \in N : nx[t] \in N \cup {nil}
  PROVE  /\ ClosedUnder(N, nx, nil, From(N, nx, nil, h))
         /\ From(N, nx, nil, h) \subseteq N
<1>1. From(N, nx, nil, h) \subseteq N
  BY DEF From
<1>2. \A x \in From(N, nx, nil, h) : nx[x] # nil => nx[x] \in N
  BY <1>1
<1> QED BY <1>1, <1>2, ListStep DEF ClosedUnder

\* Only the next pointers matter.
LEMMA ListSameNext ==
  ASSUME NEW N, NEW nx, NEW ny, NEW nil, NEW h,
         \A x \in N : nx[x] = ny[x]
  PROVE  From(N, nx, nil, h) = From(N, ny, nil, h)
<1>1. \A S \in SUBSET N : ClosedUnder(N, nx, nil, S) <=> ClosedUnder(N, ny, nil, S)
  BY DEF ClosedUnder
<1> QED BY <1>1 DEF From

\* A later starting point visits fewer nodes.
LEMMA ListSuffix ==
  ASSUME NEW N, NEW nx, NEW nil, nil \notin N, NEW h \in N,
         \A t \in N : nx[t] \in N \cup {nil},
         NEW x \in From(N, nx, nil, h)
  PROVE  From(N, nx, nil, x) \subseteq From(N, nx, nil, h)
BY ListClosed, ListWithin

\* Every node but the head is the successor of a node of the walk.
LEMMA ListPred ==
  ASSUME NEW N, NEW nx, NEW nil, nil \notin N, NEW h \in N,
         \A t \in N : nx[t] \in N \cup {nil},
         NEW x \in From(N, nx, nil, h), x # h
  PROVE  \E y \in From(N, nx, nil, h) : nx[y] = x
<1> DEFINE F == From(N, nx, nil, h)
<1> SUFFICES ASSUME \A y \in F : nx[y] # x PROVE FALSE
  OBVIOUS
<1>1. ClosedUnder(N, nx, nil, F) /\ F \subseteq N /\ h \in F
  BY ListClosed, ListHead
<1>2. ClosedUnder(N, nx, nil, F \ {x}) /\ h \in F \ {x} /\ F \ {x} \in SUBSET N
  BY <1>1 DEF ClosedUnder
<1>3. F \subseteq F \ {x}
  <2> HIDE DEF F
  <2> SUFFICES From(N, nx, nil, h) \subseteq F \ {x}
    BY DEF F
  <2> QED BY <1>2, ListWithin
<1> QED BY <1>3

\* The rest of the walk after its first node.
LEMMA ListUnfold ==
  ASSUME NEW N, NEW nx, NEW nil, nil \notin N, NEW h \in N,
         \A t \in N : nx[t] \in N \cup {nil}
  PROVE  /\ nx[h] = nil => From(N, nx, nil, h) \subseteq {h}
         /\ nx[h] # nil =>
              From(N, nx, nil, h) \subseteq {h} \cup From(N, nx, nil, nx[h])
<1>1. ASSUME nx[h] = nil PROVE From(N, nx, nil, h) \subseteq {h}
  <2>1. ClosedUnder(N, nx, nil, {h}) /\ {h} \in SUBSET N
    BY <1>1 DEF ClosedUnder
  <2> QED BY <2>1, ListWithin
<1>2. ASSUME nx[h] # nil
      PROVE  From(N, nx, nil, h) \subseteq {h} \cup From(N, nx, nil, nx[h])
  <2>1. nx[h] \in N
    BY <1>2
  <2> DEFINE G == From(N, nx, nil, nx[h])
  <2>2. nx[h] \in G /\ ClosedUnder(N, nx, nil, G) /\ G \subseteq N
    BY <2>1, ListHead, ListClosed
  <2>3. ClosedUnder(N, nx, nil, {h} \cup G) /\ {h} \cup G \in SUBSET N
    BY <2>2 DEF ClosedUnder
  <2> QED BY <2>3, ListWithin
<1> QED BY <1>1, <1>2

\* Only the next pointers of the nodes of the walk matter.
LEMMA ListSameOn ==
  ASSUME NEW N, NEW nx, NEW ny, NEW nil, nil \notin N, NEW h \in N,
         \A t \in N : nx[t] \in N \cup {nil} /\ ny[t] \in N \cup {nil},
         \A x \in From(N, nx, nil, h) : ny[x] = nx[x]
  PROVE  From(N, ny, nil, h) = From(N, nx, nil, h)
<1> DEFINE F == From(N, nx, nil, h)
           G == From(N, ny, nil, h)
<1>1. ClosedUnder(N, nx, nil, F) /\ F \subseteq N /\ h \in F
  BY ListClosed, ListHead
<1>2. ClosedUnder(N, ny, nil, F)
  BY <1>1 DEF ClosedUnder
<1>3. G \subseteq F
  BY <1>1, <1>2, ListWithin
<1>4. ClosedUnder(N, ny, nil, G) /\ G \subseteq N /\ h \in G
  BY ListClosed, ListHead
<1>5. ClosedUnder(N, nx, nil, G)
  BY <1>3, <1>4 DEF ClosedUnder
<1>6. F \subseteq G
  BY <1>4, <1>5, ListWithin
<1> QED BY <1>3, <1>6

\* Of two nodes of a walk, one is visited from the other.
LEMMA ListComparable ==
  ASSUME NEW N, NEW nx, NEW nil, nil \notin N, NEW h \in N,
         \A t \in N : nx[t] \in N \cup {nil},
         NEW s \in From(N, nx, nil, h), NEW x \in From(N, nx, nil, h)
  PROVE  s \in From(N, nx, nil, x) \/ x \in From(N, nx, nil, s)
<1> DEFINE F(z) == From(N, nx, nil, z)
           A    == {z \in F(h) : s \in F(z) \/ z \in F(s)}
<1>1. ClosedUnder(N, nx, nil, F(h)) /\ F(h) \subseteq N /\ h \in F(h)
  BY ListClosed, ListHead
<1>2. ClosedUnder(N, nx, nil, F(s)) /\ s \in F(s) /\ s \in N
  BY <1>1, ListClosed, ListHead
<1>3. ASSUME NEW z \in A, nx[z] # nil PROVE nx[z] \in A
  <2>1. nx[z] \in F(h) /\ z \in N
    BY <1>1, <1>3 DEF ClosedUnder
  <2>2. CASE z \in F(s)
    BY <1>2, <1>3, <2>1, <2>2 DEF ClosedUnder
  <2>3. CASE s \in F(z) /\ z # s
    BY <1>3, <2>1, <2>3, ListUnfold
  <2>4. CASE z = s
    BY <1>2, <2>2, <2>4
  <2> QED BY <2>2, <2>3, <2>4
<1>4. ClosedUnder(N, nx, nil, A) /\ A \in SUBSET N /\ h \in A
  <2>1. h \in A
    BY <1>1
  <2>2. ClosedUnder(N, nx, nil, A)
    BY <1>3 DEF ClosedUnder
  <2> QED BY <1>1, <2>1, <2>2
<1>5. F(h) \subseteq A
  BY <1>4, ListWithin
<1> QED BY <1>5

-----------------------------------------------------------------------------
(***************************************************************************)
(* Appending: p->next = w, where w is a fresh node.  p need not be the     *)
(* tail, nor be on the list at all.                                        *)
(***************************************************************************)
Linked(N, nx, ny, p, w) ==
  \A x \in N : ny[x] = IF x = p THEN w ELSE nx[x]

Fresh(N, nx, nil, w) ==
  w \in N /\ nx[w] = nil /\ \A x \in N : nx[x] # w

\* The list grows by w at most.
LEMMA LinkGrows ==
  ASSUME NEW N, NEW nx, NEW ny, NEW nil, nil \notin N, NEW r \in N,
         \A t \in N : nx[t] \in N \cup {nil},
         NEW p \in N, NEW w \in N, p # w,
         Fresh(N, nx, nil, w), Linked(N, nx, ny, p, w)
  PROVE  From(N, ny, nil, r) \subseteq From(N, nx, nil, r) \cup {w}
<1> DEFINE F == From(N, nx, nil, r)
<1>1. ClosedUnder(N, nx, nil, F) /\ F \subseteq N /\ r \in F
  BY ListClosed, ListHead
<1>2. ClosedUnder(N, ny, nil, F \cup {w})
  BY <1>1 DEF ClosedUnder, Fresh, Linked
<1> QED BY <1>1, <1>2, ListWithin

\* What p->next pointed to before, and all behind it, is cut off.
LEMMA LinkCuts ==
  ASSUME NEW N, NEW nx, NEW ny, NEW nil, nil \notin N, NEW r \in N,
         \A t \in N : nx[t] \in N \cup {nil} /\ nx[t] # r,
         Unshared(N, nx, nil),
         NEW p \in N, NEW w \in N, p # w,
         Fresh(N, nx, nil, w), Linked(N, nx, ny, p, w),
         r # w, nx[p] # nil, NEW x \in From(N, ny, nil, r)
  PROVE  x \notin From(N, nx, nil, nx[p])
<1> DEFINE F == From(N, nx, nil, r)
           Q == From(N, nx, nil, nx[p])
           S == (F \ Q) \cup {w}
<1>1. ClosedUnder(N, nx, nil, F) /\ F \subseteq N /\ r \in F
  BY ListClosed, ListHead
<1>2. \A z \in Q : z = nx[p] \/ \E y \in Q : nx[y] = z
  BY ListPred
<1>3. r \notin Q /\ w \notin Q /\ Q \subseteq N
  BY <1>2, ListClosed DEF Fresh
<1>4. ASSUME NEW z \in S, ny[z] # nil PROVE ny[z] \in S
  <2>1. CASE z = p
    BY <2>1 DEF Linked
  <2>2. CASE z = w
    BY <1>4, <2>2 DEF Linked, Fresh
  <2>3. CASE z # p /\ z # w
    <3>1. z \in F /\ z \notin Q /\ z \in N /\ ny[z] = nx[z] /\ nx[z] \in F
      BY <1>1, <1>4, <2>3 DEF Linked, ClosedUnder
    <3>2. nx[z] # nx[p]
      BY <1>4, <2>3, <3>1 DEF Unshared
    <3>3. \A y \in Q : nx[y] # nx[z]
      BY <1>3, <1>4, <3>1 DEF Unshared
    <3> QED BY <1>2, <3>1, <3>2, <3>3
  <2> QED BY <2>1, <2>2, <2>3
<1>5. ClosedUnder(N, ny, nil, S) /\ S \in SUBSET N /\ r \in S
  BY <1>1, <1>3, <1>4 DEF ClosedUnder
<1>6. From(N, ny, nil, r) \subseteq S
  <2> HIDE DEF S
  <2> QED BY <1>5, ListWithin
<1> QED BY <1>3, <1>6

\* A node that is not behind p stays on the list.
LEMMA LinkKeeps ==
  ASSUME NEW N, NEW nx, NEW ny, NEW nil, nil \notin N, NEW r \in N,
         \A t \in N : nx[t] \in N \cup {nil} /\ nx[t] # r,
         Unshared(N, nx, nil),
         NEW p \in N, NEW w \in N, p # w,
         Fresh(N, nx, nil, w), Linked(N, nx, ny, p, w),
         NEW s \in From(N, nx, nil, r),
         p \in From(N, nx, nil, r) => p \in From(N, nx, nil, s)
  PROVE  s \in From(N, ny, nil, r)
<1> DEFINE F == From(N, nx, nil, r)
           Q == From(N, nx, nil, s)
<1>1. ClosedUnder(N, nx, nil, F) /\ F \subseteq N /\ r \in F /\ s \in N
  BY ListClosed, ListHead
<1>2. s \in Q /\ \A z \in Q : z = s \/ \E y \in Q : nx[y] = z
  BY <1>1, ListHead, ListPred
<1> SUFFICES ASSUME NEW T \in SUBSET N, r \in T, ClosedUnder(N, ny, nil, T), s \notin T
             PROVE  FALSE
  BY <1>1 DEF From
<1> DEFINE U == (T \cap F) \ Q
<1>3. r \in U
  <2>1. Q \subseteq N
    BY <1>1, ListClosed
  <2>2. r \notin Q
    BY <1>2, <2>1
  <2> QED BY <1>1, <2>2
<1>4. ASSUME NEW z \in U, nx[z] # nil PROVE nx[z] \in U
  <2>1. z # p /\ z \in N
    BY <1>1
  <2>2. nx[z] \in T /\ nx[z] \in F
    BY <1>1, <1>4, <2>1 DEF ClosedUnder, Linked
  <2>3. \A y \in Q : nx[y] # nx[z]
    BY <1>1, <1>4, <2>1, ListClosed DEF Unshared
  <2> QED BY <1>2, <2>2, <2>3
<1>5. ClosedUnder(N, nx, nil, U) /\ U \in SUBSET N
  BY <1>4 DEF ClosedUnder
<1>6. F \subseteq U
  <2> HIDE DEF U
  <2> QED BY <1>3, <1>5, ListWithin
<1> QED BY <1>2, <1>6

\* The order of two nodes that stay on the list does not change.
LEMMA LinkOrder ==
  ASSUME NEW N, NEW nx, NEW ny, NEW nil, nil \notin N, NEW r \in N,
         \A t \in N : nx[t] \in N \cup {nil} /\ nx[t] # r,
         Unshared(N, nx, nil),
         NEW p \in N, NEW w \in N, p # w, r # w,
         Fresh(N, nx, nil, w), Linked(N, nx, ny, p, w),
         NEW t \in N, NEW y \in From(N, nx, nil, t),
         y \in From(N, ny, nil, r)
  PROVE  y \in From(N, ny, nil, t)
<1> SUFFICES ASSUME NEW T \in SUBSET N, t \in T, ClosedUnder(N, ny, nil, T)
             PROVE  y \in T
  BY ListClosed DEF From
<1>1. CASE nx[p] = nil
  <2>1. ClosedUnder(N, nx, nil, T)
    BY <1>1 DEF ClosedUnder, Linked
  <2> QED BY <2>1, ListWithin
<1>2. CASE nx[p] # nil
  <2> DEFINE Q == From(N, nx, nil, nx[p])
             U == T \cup Q
  <2>1. nx[p] \in Q /\ ClosedUnder(N, nx, nil, Q) /\ Q \subseteq N
    BY <1>2, ListHead, ListClosed
  <2>2. \A z \in U : nx[z] # nil => nx[z] \in U
    BY <2>1 DEF ClosedUnder, Linked
  <2>3. ClosedUnder(N, nx, nil, U) /\ U \in SUBSET N /\ t \in U
    BY <2>1, <2>2 DEF ClosedUnder
  <2>4. y \in U
    <3> HIDE DEF U
    <3> QED BY <2>3, ListWithin
  <2>5. y \notin Q
    BY <1>2, LinkCuts
  <2> QED BY <2>4, <2>5
<1> QED BY <1>1, <1>2

\* Behind the tail, w is all that changes.
LEMMA LinkTail ==
  ASSUME NEW N, NEW nx, NEW ny, NEW nil, nil \notin N, NEW h \in N,
         \A t \in N : nx[t] \in N \cup {nil} /\ ny[t] \in N \cup {nil},
         NEW p \in N, NEW w \in N, p # w, nx[p] = nil, nx[w] = nil,
         Linked(N, nx, ny, p, w)
  PROVE  From(N, ny, nil, h) = IF p \in From(N, nx, nil, h)
                               THEN From(N, nx, nil, h) \cup {w}
                               ELSE From(N, nx, nil, h)
<1> DEFINE F == From(N, nx, nil, h)
           G == From(N, ny, nil, h)
<1>1. /\ ClosedUnder(N, nx, nil, F) /\ F \subseteq N /\ h \in F
      /\ ClosedUnder(N, ny, nil, G) /\ G \subseteq N /\ h \in G
  BY ListClosed, ListHead
<1>2. CASE p \notin F
  <2>1. \A x \in F : ny[x] = nx[x]
    BY <1>1, <1>2 DEF Linked
  <2>2. G = F
    BY <2>1, ListSameOn
  <2> QED BY <1>2, <2>2
<1>3. CASE p \in F
  <2>1. ClosedUnder(N, ny, nil, F \cup {w}) /\ F \cup {w} \in SUBSET N
    BY <1>1 DEF ClosedUnder, Linked
  <2>2. G \subseteq F \cup {w}
    <3> HIDE DEF F
    <3> QED BY <1>1, <2>1, ListWithin
  <2>3. ClosedUnder(N, nx, nil, G)
    BY <1>1 DEF ClosedUnder, Linked
  <2>4. F \subseteq G
    BY <1>1, <2>3, ListWithin
  <2>5. w \in G
    <3>1. p \in G /\ ny[p] = w /\ w # nil
      BY <1>3, <2>4 DEF Linked
    <3> QED BY <1>1, <3>1 DEF ClosedUnder
  <2> QED BY <1>3, <2>2, <2>4, <2>5
<1> QED BY <1>2, <1>3

-----------------------------------------------------------------------------
(***************************************************************************)
(* Unlinking node c: the nodes of the list that pointed to c now point to  *)
(* its successor, and c is cleared.                                        *)
(***************************************************************************)
Cut(N, nx, ny, nil, r, c) ==
  \A x \in N : ny[x] = IF x = c THEN nil
                       ELSE IF x \in From(N, nx, nil, r) /\ nx[x] = c
                            THEN nx[c] ELSE nx[x]

\* On a list where nothing is shared and nothing leads back to its head, no
\* node is its own successor.
LEMMA NoSelfLoop ==
  ASSUME NEW N, NEW nx, NEW nil, nil \notin N, NEW r \in N,
         \A t \in N : nx[t] \in N \cup {nil} /\ nx[t] # r,
         Unshared(N, nx, nil),
         NEW c \in From(N, nx, nil, r)
  PROVE  nx[c] # c
<1> SUFFICES ASSUME nx[c] = c PROVE FALSE
  OBVIOUS
<1> DEFINE F == From(N, nx, nil, r)
<1>1. ClosedUnder(N, nx, nil, F) /\ F \subseteq N /\ r \in F /\ c \in N
  BY ListClosed, ListHead
<1>2. ClosedUnder(N, nx, nil, F \ {c})
  BY <1>1 DEF ClosedUnder, Unshared
<1>3. F \subseteq F \ {c}
  <2>1. F \ {c} \in SUBSET N /\ r \in F \ {c}
    BY <1>1
  <2> QED BY <1>2, <2>1, ListWithin
<1> QED BY <1>3

\* Reaping takes c off the list and adds nothing.
LEMMA CutRemoves ==
  ASSUME NEW N, NEW nx, NEW ny, NEW nil, nil \notin N, NEW r \in N,
         \A t \in N : nx[t] \in N \cup {nil} /\ nx[t] # r,
         Unshared(N, nx, nil),
         NEW c \in From(N, nx, nil, r), c # r, Cut(N, nx, ny, nil, r, c)
  PROVE  From(N, ny, nil, r) \subseteq From(N, nx, nil, r) \ {c}
<1> DEFINE F == From(N, nx, nil, r)
<1>1. ClosedUnder(N, nx, nil, F) /\ F \subseteq N /\ r \in F /\ c \in N /\ nx[c] # c
  BY ListClosed, ListHead, NoSelfLoop
<1>2. ClosedUnder(N, ny, nil, F \ {c})
  BY <1>1 DEF ClosedUnder, Cut
<1> QED BY <1>1, <1>2, ListWithin

\* The order of the other nodes does not change, and none is lost.
LEMMA CutOrder ==
  ASSUME NEW N, NEW nx, NEW ny, NEW nil, nil \notin N, NEW r \in N,
         \A t \in N : nx[t] \in N \cup {nil} /\ nx[t] # r,
         Unshared(N, nx, nil),
         NEW c \in From(N, nx, nil, r), c # r, Cut(N, nx, ny, nil, r, c),
         NEW t \in From(N, nx, nil, r), t # c,
         NEW y \in From(N, nx, nil, t), y # c
  PROVE  y \in From(N, ny, nil, t)
<1> DEFINE F == From(N, nx, nil, r)
<1>1. ClosedUnder(N, nx, nil, F) /\ F \subseteq N /\ r \in F /\ c \in N /\ nx[c] # c
  BY ListClosed, ListHead, NoSelfLoop
<1>2. t \in N /\ y \in N
  BY <1>1, ListClosed
<1> SUFFICES ASSUME NEW T \in SUBSET N, t \in T, ClosedUnder(N, ny, nil, T)
             PROVE  y \in T
  BY <1>2 DEF From
<1> DEFINE U == (T \cap F) \ {c}
<1>3. CASE \E x \in U : nx[x] = c
  <2>1. \A z \in U \cup {c} : nx[z] # nil => nx[z] \in U \cup {c}
    BY <1>1, <1>3 DEF ClosedUnder, Cut
  <2>2. ClosedUnder(N, nx, nil, U \cup {c}) /\ U \cup {c} \in SUBSET N /\ t \in U \cup {c}
    BY <1>1, <2>1 DEF ClosedUnder
  <2>3. y \in U \cup {c}
    <3> DEFINE V == U \cup {c}
    <3>1. ClosedUnder(N, nx, nil, V) /\ V \in SUBSET N /\ t \in V
      BY <2>2
    <3> HIDE DEF V
    <3>2. y \in V
      BY <3>1, ListWithin
    <3> QED BY <3>2 DEF V
  <2> QED BY <2>3
<1>4. CASE \A x \in U : nx[x] # c
  <2>1. \A z \in U : nx[z] # nil => nx[z] \in U
    BY <1>1, <1>4 DEF ClosedUnder, Cut
  <2>2. ClosedUnder(N, nx, nil, U) /\ U \in SUBSET N /\ t \in U
    BY <1>1, <2>1 DEF ClosedUnder
  <2>3. y \in U
    <3> HIDE DEF U
    <3> QED BY <2>2, ListWithin
  <2> QED BY <2>3
<1> QED BY <1>3, <1>4

\* Reaping leaves at most one pointer to each node.
LEMMA CutUnshared ==
  ASSUME NEW N, NEW nx, NEW ny, NEW nil, nil \notin N, NEW r \in N,
         \A t \in N : nx[t] \in N \cup {nil} /\ nx[t] # r,
         Unshared(N, nx, nil),
         NEW c \in From(N, nx, nil, r), c # r, Cut(N, nx, ny, nil, r, c)
  PROVE  Unshared(N, ny, nil)
<1>1. c \in N /\ c # nil
  BY ListClosed
<1> SUFFICES ASSUME NEW x \in N, NEW y \in N, ny[x] = ny[y], ny[x] # nil
             PROVE  x = y
  BY DEF Unshared
<1>2. x # c /\ y # c
  BY DEF Cut
<1> DEFINE F == From(N, nx, nil, r)
<1> HIDE DEF F
<1>3. /\ x \in F /\ nx[x] = c => ny[x] = nx[c]
      /\ ~ (x \in F /\ nx[x] = c) => ny[x] = nx[x]
      /\ y \in F /\ nx[y] = c => ny[y] = nx[c]
      /\ ~ (y \in F /\ nx[y] = c) => ny[y] = nx[y]
  BY <1>2 DEF Cut, F
<1>4. CASE nx[x] = c /\ nx[y] = c
  BY <1>1, <1>4 DEF Unshared
<1>5. CASE nx[x] = c /\ nx[y] # c
  BY <1>1, <1>2, <1>3, <1>5 DEF Unshared
<1>6. CASE nx[x] # c /\ nx[y] = c
  BY <1>1, <1>2, <1>3, <1>6 DEF Unshared
<1>7. CASE nx[x] # c /\ nx[y] # c
  BY <1>3, <1>7 DEF Unshared
<1> QED BY <1>4, <1>5, <1>6, <1>7

(***************************************************************************)
(* A list whose nodes are 1..k, in this order.                             *)
(***************************************************************************)
\* A walk from its t-th node visits the nodes from t on.
LEMMA LineFrom ==
  ASSUME NEW N, NEW nx, NEW nil, nil \notin N, NEW k \in Nat, 1 \in N,
         \A t \in N : nx[t] \in N \cup {nil},
         From(N, nx, nil, 1) = 1..k,
         \A t \in 1..k : nx[t] = IF t = k THEN nil ELSE t + 1,
         NEW t \in 1..k
  PROVE  From(N, nx, nil, t) = t..k
<1>1. 1..k \subseteq N /\ t \in N
  BY DEF From
<1>2. \A u \in 1..k : From(N, nx, nil, u) \subseteq u..k
  <2> TAKE u \in 1..k
  <2>1. u..k \subseteq 1..k /\ u \in u..k
    OBVIOUS
  <2>2. ClosedUnder(N, nx, nil, u..k)
    BY <2>1 DEF ClosedUnder
  <2> QED BY <1>1, <2>1, <2>2, ListWithin
<1>3. ASSUME NEW u \in t..k PROVE u \in From(N, nx, nil, t)
  <2>1. CASE u = t
    BY <1>1, <2>1, ListHead
  <2>2. CASE u > t
    <3>1. t \notin u..k /\ u \in 1..k
      BY <2>2
    <3>2. t \notin From(N, nx, nil, u)
      BY <1>2, <3>1
    <3>3. t \in From(N, nx, nil, 1) /\ u \in From(N, nx, nil, 1)
      BY <3>1
    <3> QED BY <3>2, <3>3, ListComparable
  <2> QED BY <2>1, <2>2
<1> QED BY <1>2, <1>3

-----------------------------------------------------------------------------
(***************************************************************************)
(* The inductive invariant.  A context is named by the slot it is saved    *)
(* in, the context of the CPU by NULL; what current_task holds is stale.   *)
(***************************************************************************)
Ids    == (Slots \ {current_task}) \cup {NULL}
Ctx    == [i \in Slots \cup {NULL} |-> IF i = NULL THEN cpu ELSE task[i].regs]

Nx == [x \in Slots |-> task[x].next]

Walking == {"c_walk", "c_link"}

\* Code that never kills: idle, boot, and a jump to nowhere.
Harmless == {"idle", "boot", "none"}

\* Idle is the root for good, and nothing points to it or past nalloc.
InvRoot ==
  /\ root_task = IF nalloc = 0 THEN NULL ELSE 1
  /\ nalloc = 0 => cpu.pc = "run" /\ cpu.fn = "boot" /\ current_task = NULL /\ stub = "timer"
  /\ nalloc > 0 /\ cpu.pc # "panic" => current_task # NULL
  /\ freed \subseteq 2..nalloc

InvNext ==
  /\ \A x \in Slots : task[x].next # 1 /\ task[x].next <= nalloc
  /\ \A x, y \in Slots :
       task[x].next = task[y].next /\ task[x].next # NULL => x = y

\* A struct under construction is known to its creator only.
InvMakes ==
  \A i \in Ids : Ctx[i].pc \in Creating =>
    /\ Ctx[i].new \in 2..nalloc /\ Ctx[i].new \notin freed
    /\ task[Ctx[i].new].next = NULL
    /\ task[Ctx[i].new].regs.pc = "wild"
    /\ \A x \in Slots : task[x].next # Ctx[i].new
    /\ \A j \in Ids : /\ i # j /\ Ctx[j].pc \in Creating => Ctx[i].new # Ctx[j].new
                      /\ Ctx[j].pc \in Walking => Ctx[j].idk # Ctx[i].new

InvWalks ==
  \A i \in Ids : Ctx[i].pc \in Walking => Ctx[i].idk \in 1..nalloc

\* A creator that has found the tail stands before it in the list, so that
\* linking never cuts off the task whose context the CPU executes.
Slot == [i \in Slots \cup {NULL} |-> IF i = NULL THEN current_task ELSE i]

InvOrder ==
  \A i \in Ids :
    /\ Ctx[i].pc = "c_link"
    /\ Slot[i] \in Reach /\ Ctx[i].idk \in Reach
    => Ctx[i].idk \in From(Slots, Nx, NULL, Slot[i])

\* Idle is never reaped.
InvIdle ==
  /\ \A i \in Slots \cup {NULL} : Ctx[i].fn \in Harmless => Ctx[i].pc \notin Killing
  /\ task[1].regs.fn \in Harmless
  /\ task[1].entry \in {"idle", "none"}
  /\ current_task = 1 => cpu.fn \in Harmless /\ task[1].state # "KILLED"

\* A struct that never ran holds no context.
InvFresh ==
  \A t \in Slots : task[t].state = "CREATED" => task[t].regs.pc = "wild"

InvReach ==
  /\ Reach \cap freed = {}
  /\ Reach \subseteq 1..nalloc
  /\ current_task # NULL => current_task \in Reach

IInv == /\ TypeOK /\ InvRoot /\ InvNext /\ InvMakes /\ InvWalks
        /\ InvOrder /\ InvIdle /\ InvFresh /\ InvReach

-----------------------------------------------------------------------------
(***************************************************************************)
(* The list is the walk of module LinkedLists.                             *)
(***************************************************************************)
LEMMA ReachIsList ==
  /\ Reach = From(Slots, Nx, NULL, root_task)
  /\ (Reach)' = From(Slots, Nx', NULL, root_task')
BY DEF Reach, ReachFrom, Closed, From, ClosedUnder, Nx

-----------------------------------------------------------------------------
\* Before sched_init() there is no task and nothing runs but the boot code.
LEMMA InitIInv == Init => IInv
<1> SUFFICES ASSUME Init PROVE IInv
  OBVIOUS
<1> USE MaxTasksAssumption
<1>1. 1 \in Slots /\ NULL \notin Slots
  BY DEF Slots, NULL
<1>2. Wild \in Context /\ Entered(NULL, "boot") \in Context
  BY DEF Wild, Entered, Context, Labels, Entries, NULL
<1>3. Zeroed \in TaskStruct
  BY <1>2 DEF Zeroed, TaskStruct, TaskState, NULL
<1>4. TypeOK
  BY <1>2, <1>3 DEF TypeOK, Init, NULL
<1>5. /\ \A x \in Slots : task[x] = Zeroed
      /\ cpu.pc = "run" /\ cpu.fn = "boot"
  BY DEF Init, Entered
<1>6. /\ Zeroed.next = NULL /\ Zeroed.regs.pc = "wild" /\ Zeroed.regs.fn = "none"
      /\ Zeroed.entry = "none" /\ Zeroed.state = "CREATED"
  BY DEF Zeroed, Wild, Entered
<1>7. \A i \in Slots \cup {NULL} : Ctx[i].pc \in {"wild", "run"}
  BY <1>5, <1>6 DEF Ctx
<1>8. InvRoot /\ InvNext
  BY <1>1, <1>5, <1>6 DEF InvRoot, InvNext, Init, NULL
<1>9. InvMakes /\ InvWalks
  BY <1>7 DEF InvMakes, InvWalks, Ids, Creating, Walking
<1>10. InvIdle
  BY <1>1, <1>5, <1>6, <1>7 DEF InvIdle, Init, Killing, Harmless, NULL
<1>11. InvFresh
  BY <1>5, <1>6 DEF InvFresh
<1>12. InvReach
  BY DEF InvReach, Init, Reach, ReachFrom
<1>13. InvOrder
  BY <1>7 DEF InvOrder, Ids
<1> QED BY <1>4, <1>8, <1>9, <1>10, <1>11, <1>12, <1>13 DEF IInv

(***************************************************************************)
(* Steps that move only the CPU's context along its walk, and change no    *)
(* more in memory than pids and states.                                    *)
(***************************************************************************)
LEMMA QuietStep ==
  ASSUME IInv, TypeOK', nalloc > 0, cpu'.pc # "panic", cpu.pc # "panic",
         UNCHANGED <<root_task, current_task, nalloc, freed>>,
         \A x \in Slots : /\ task'[x].next = task[x].next
                          /\ task'[x].regs = task[x].regs
                          /\ task'[x].entry = task[x].entry
                          /\ \/ task'[x].state = task[x].state
                             \/ task'[x].state = "KILLED",
         cpu'.fn = cpu.fn,
         cpu'.pc \in Creating => cpu.pc \in Creating /\ cpu'.new = cpu.new,
         cpu'.pc \in Walking =>
           /\ cpu'.idk \in 1..nalloc
           /\ \/ cpu'.idk = 1
              \/ cpu.pc \in Walking /\ cpu'.idk = cpu.idk
              \/ cpu.pc \in Walking /\ cpu'.idk = task[cpu.idk].next,
         cpu'.pc = "c_link" =>
           cpu.pc \in Walking /\ cpu'.idk = cpu.idk /\ task[cpu.idk].next = NULL,
         cpu.fn \in Harmless => cpu'.pc \notin Killing /\ task'[1].state = task[1].state
  PROVE  IInv'
<1> USE MaxTasksAssumption
<1>a. 1 \in Slots /\ NULL \notin Slots /\ 1..nalloc \subseteq Slots
  BY DEF IInv, TypeOK, Slots, NULL
<1>1. InvRoot'
  BY DEF IInv, InvRoot
<1>2. InvNext'
  BY DEF IInv, InvNext
<1>3. /\ (Ids)' = Ids
      /\ \A i \in Slots : Ctx'[i] = Ctx[i]
      /\ Ctx[NULL] = cpu /\ Ctx'[NULL] = cpu' /\ NULL \in Ids
      /\ Ids \subseteq Slots \cup {NULL}
  BY <1>a DEF Ids, Ctx
<1>4. InvWalks'
  BY <1>3 DEF IInv, InvWalks
<1>5. InvMakes'
  <2> SUFFICES ASSUME NEW i \in Ids, Ctx'[i].pc \in Creating
               PROVE  /\ Ctx'[i].new \in 2..nalloc /\ Ctx'[i].new \notin freed
                      /\ task'[Ctx'[i].new].next = NULL
                      /\ task'[Ctx'[i].new].regs.pc = "wild"
                      /\ \A x \in Slots : task'[x].next # Ctx'[i].new
                      /\ \A j \in Ids :
                           /\ i # j /\ Ctx'[j].pc \in Creating => Ctx'[i].new # Ctx'[j].new
                           /\ Ctx'[j].pc \in Walking => Ctx'[j].idk # Ctx'[i].new
    BY <1>3 DEF InvMakes, Creating, Walking, NULL
  <2>1. Ctx[i].pc \in Creating /\ Ctx'[i].new = Ctx[i].new
    BY <1>3
  <2>2. /\ Ctx[i].new \in 2..nalloc /\ Ctx[i].new \notin freed
        /\ task[Ctx[i].new].next = NULL
        /\ task[Ctx[i].new].regs.pc = "wild"
        /\ \A x \in Slots : task[x].next # Ctx[i].new
        /\ \A j \in Ids : /\ i # j /\ Ctx[j].pc \in Creating => Ctx[i].new # Ctx[j].new
                          /\ Ctx[j].pc \in Walking => Ctx[j].idk # Ctx[i].new
    BY <2>1 DEF IInv, InvMakes
  <2>3. Ctx[i].new \in Slots /\ Ctx[i].new # 1
    BY <2>2, <1>a
  <2>4. \A j \in Ids : Ctx'[j].pc \in Creating => Ctx[j].pc \in Creating /\ Ctx'[j].new = Ctx[j].new
    BY <1>3
  <2>5. \A j \in Ids : Ctx'[j].pc \in Walking => Ctx'[j].idk # Ctx[i].new
    <3> SUFFICES ASSUME NEW j \in Ids, Ctx'[j].pc \in Walking PROVE Ctx'[j].idk # Ctx[i].new
      OBVIOUS
    <3>1. CASE j \in Slots
      BY <3>1, <1>3, <2>2
    <3>2. CASE j = NULL
      <4>1. cpu.pc \in Walking => cpu.idk \in Slots
        BY <1>3, <1>a DEF IInv, InvWalks
      <4> QED BY <3>2, <4>1, <1>3, <2>2, <2>3
    <3> QED BY <3>1, <3>2, <1>3
  <2> QED BY <2>1, <2>2, <2>3, <2>4, <2>5
<1>6. InvIdle'
  BY <1>a, <1>3 DEF IInv, InvIdle, Harmless
<1>7. InvFresh'
  BY DEF IInv, InvFresh
<1>8. InvReach'
  <2>1. (Reach)' = Reach
    BY ReachIsList, ListSameNext DEF Nx
  <2> QED BY <2>1 DEF IInv, InvReach
<1>9. InvOrder'
  <2> SUFFICES ASSUME NEW i \in Ids, Ctx'[i].pc = "c_link",
                      Slot'[i] \in (Reach)', Ctx'[i].idk \in (Reach)'
               PROVE  Ctx'[i].idk \in From(Slots, Nx', NULL, Slot'[i])
    BY <1>3 DEF InvOrder
  <2>1. /\ (Reach)' = Reach /\ Slot'[i] = Slot[i]
        /\ \A h : From(Slots, Nx', NULL, h) = From(Slots, Nx, NULL, h)
    BY ReachIsList, ListSameNext DEF Nx, Slot
  <2>2. CASE i \in Slots
    BY <2>1, <2>2, <1>3 DEF IInv, InvOrder
  <2>3. CASE i = NULL
    <3> DEFINE k == cpu.idk
    <3>1. /\ Ctx'[i].idk = k /\ Slot[i] = current_task
          /\ k \in Slots /\ k \in Reach /\ current_task \in Reach
          /\ task[k].next = NULL
      BY <2>1, <2>3, <1>3, <1>a DEF IInv, InvWalks, Slot
    <3>2. root_task \in Slots
      BY <1>a DEF IInv, InvRoot
    <3>3. \A x \in Slots : Nx[x] = task[x].next /\ Nx[x] \in Slots \cup {NULL}
      BY DEF Nx, IInv, TypeOK, TaskStruct
    <3> HIDE DEF k
    <3>4. current_task \in From(Slots, Nx, NULL, k) \/ k \in From(Slots, Nx, NULL, current_task)
      BY <3>1, <3>2, <3>3, <1>a, ReachIsList, ListComparable
    <3>5. From(Slots, Nx, NULL, k) \subseteq {k}
      BY <3>1, <3>3, <1>a, ReachIsList, ListUnfold
    <3>6. k \in From(Slots, Nx, NULL, k)
      BY <3>1, <1>a, ReachIsList, ListHead
    <3> QED BY <2>1, <3>1, <3>4, <3>5, <3>6
  <2> QED BY <2>2, <2>3, <1>3
<1> QED BY <1>1, <1>2, <1>4, <1>5, <1>6, <1>7, <1>8, <1>9 DEF IInv

-----------------------------------------------------------------------------
\* What the invariant says of the pointers of the executing context.
LEMMA SlotFacts ==
  ASSUME IInv
  PROVE  /\ 1 \in Slots /\ NULL \notin Slots /\ 1..nalloc \subseteq Slots
         /\ cpu.pc \in Creating => cpu.new \in Slots /\ nalloc > 0
         /\ cpu.pc \in Walking => cpu.idk \in Slots /\ cpu.pc \in Creating
<1> USE MaxTasksAssumption
<1>1. 1 \in Slots /\ NULL \notin Slots /\ 1..nalloc \subseteq Slots
  BY DEF IInv, TypeOK, Slots, NULL
<1>2. NULL \in Ids /\ Ctx[NULL] = cpu
  BY DEF Ids, Ctx
<1>3. cpu.pc \in Creating => cpu.new \in 2..nalloc
  BY <1>2 DEF IInv, InvMakes
<1>4. cpu.pc \in Walking => cpu.idk \in 1..nalloc
  BY <1>2 DEF IInv, InvWalks
<1> QED BY <1>1, <1>3, <1>4 DEF Creating, Walking, IInv, TypeOK

\* create_task() reading nextpid touches no link and no context.
LEMMA TakePidStep == IInv /\ CreateTakePid => IInv'
<1> SUFFICES ASSUME IInv, CreateTakePid PROVE IInv'
  OBVIOUS
<1> USE SlotFacts
<1>1. cpu.pc \in Creating /\ cpu.pc \notin Walking /\ cpu.pc # "panic" /\ cpu.pc \notin Killing
  BY DEF CreateTakePid, Creating, Walking, Killing
<1>2. /\ cpu' \in Context /\ cpu'.pc = "c_inc"
      /\ cpu'.fn = cpu.fn /\ cpu'.new = cpu.new
  BY DEF IInv, TypeOK, CreateTakePid, Context, Labels, Creating
<1>3. \A x \in Slots : /\ task'[x].next = task[x].next
                       /\ task'[x].regs = task[x].regs
                       /\ task'[x].entry = task[x].entry
                       /\ task'[x].state = task[x].state
                       /\ task'[x] \in TaskStruct
  BY DEF IInv, TypeOK, CreateTakePid, TaskStruct
<1>4. TypeOK'
  BY <1>2, <1>3 DEF IInv, TypeOK, CreateTakePid
<1>5. cpu'.pc \notin Walking /\ cpu'.pc \notin Killing
  BY <1>2 DEF Walking, Killing
<1> QED BY <1>1, <1>2, <1>3, <1>4, <1>5, QuietStep DEF CreateTakePid

\* Writing nextpid back concerns no task_struct at all.
LEMMA StepPidStep == IInv /\ CreateStepPid => IInv'
<1> SUFFICES ASSUME IInv, CreateStepPid PROVE IInv'
  OBVIOUS
<1> USE SlotFacts
<1>1. cpu.pc \in Creating /\ cpu.pc \notin Walking /\ cpu.pc # "panic"
  BY DEF CreateStepPid, Creating, Walking
<1>2. /\ cpu' \in Context /\ cpu'.pc = "c_root"
      /\ cpu'.fn = cpu.fn /\ cpu'.new = cpu.new
  BY DEF IInv, TypeOK, CreateStepPid, Context, Labels, Creating
<1>3. nextpid' \in Nat
  BY <1>1 DEF IInv, TypeOK, CreateStepPid, TaskStruct
<1>4. TypeOK'
  BY <1>2, <1>3 DEF IInv, TypeOK, CreateStepPid
<1>5. cpu'.pc \notin Walking /\ cpu'.pc \notin Killing
  BY <1>2 DEF Walking, Killing
<1> QED BY <1>1, <1>2, <1>4, <1>5, QuietStep DEF CreateStepPid

\* The walk of create_task() begins at idle, an allocated struct.
LEMMA ReadRootStep == IInv /\ CreateReadRoot => IInv'
<1> SUFFICES ASSUME IInv, CreateReadRoot PROVE IInv'
  OBVIOUS
<1> USE SlotFacts
<1>1. cpu.pc \in Creating /\ cpu.pc \notin Walking /\ cpu.pc # "panic"
  BY DEF CreateReadRoot, Creating, Walking
<1>2. root_task = 1 /\ 1 \in 1..nalloc
  BY <1>1 DEF IInv, InvRoot, TypeOK
<1>3. /\ cpu' \in Context /\ cpu'.pc = "c_walk" /\ cpu'.idk = 1
      /\ cpu'.fn = cpu.fn /\ cpu'.new = cpu.new
  BY <1>2 DEF IInv, TypeOK, CreateReadRoot, Context, Labels, Creating
<1>4. TypeOK'
  BY <1>3 DEF IInv, TypeOK, CreateReadRoot
<1>5. cpu'.pc \notin Killing
  BY <1>3 DEF Killing
<1> QED BY <1>1, <1>2, <1>3, <1>4, <1>5, QuietStep DEF CreateReadRoot

\* A step of the walk goes from an allocated struct to an allocated one,
\* and the creator that finds the tail stands before it in the list.
LEMMA WalkStep == IInv /\ CreateWalk => IInv'
<1> SUFFICES ASSUME IInv, CreateWalk PROVE IInv'
  OBVIOUS
<1> USE SlotFacts
<1>1. cpu.pc \in Creating /\ cpu.pc \in Walking /\ cpu.pc # "panic"
  BY DEF CreateWalk, Creating, Walking
<1>2. cpu.idk \in 1..nalloc
  BY <1>1 DEF IInv, InvWalks, Ids, Ctx
<1>3. task[cpu.idk].next \in 0..nalloc
  BY <1>1 DEF IInv, InvNext, TypeOK, TaskStruct, Slots, NULL
<1>. DEFINE n == task[cpu.idk].next
<1>4. /\ cpu' \in Context /\ cpu'.pc \in {"c_walk", "c_link"}
      /\ cpu'.fn = cpu.fn /\ cpu'.new = cpu.new
      /\ \/ cpu'.idk = cpu.idk
         \/ cpu'.idk = task[cpu.idk].next /\ cpu'.idk # NULL
      /\ cpu'.pc = "c_link" => cpu'.idk = cpu.idk /\ task[cpu.idk].next = NULL
  <2>1. n \in Slots \cup {NULL} /\ cpu \in Context
    BY <1>1 DEF IInv, TypeOK, TaskStruct
  <2>2. CASE n # NULL
    <3>1. cpu' = [cpu EXCEPT !.idk = n]
      BY <2>2 DEF CreateWalk
    <3>2. cpu.pc = "c_walk"
      BY DEF CreateWalk
    <3> HIDE DEF n
    <3>3. /\ cpu' \in Context /\ cpu'.pc = "c_walk" /\ cpu'.idk = n
          /\ cpu'.fn = cpu.fn /\ cpu'.new = cpu.new
      BY <2>1, <3>1, <3>2 DEF Context
    <3> QED BY <2>2, <3>3 DEF n
  <2>3. CASE n = NULL
    <3>1. cpu' = [cpu EXCEPT !.pc = "c_link"]
      BY <2>3 DEF CreateWalk
    <3> QED BY <2>1, <2>3, <3>1 DEF Context, Labels, Creating
  <2> QED BY <2>2, <2>3
<1>5. cpu'.idk \in 1..nalloc
  BY <1>2, <1>3, <1>4 DEF NULL
<1>6. TypeOK'
  BY <1>4 DEF IInv, TypeOK, CreateWalk
<1>7. cpu'.pc \notin Killing
  BY <1>4 DEF Killing
<1> QED BY <1>1, <1>4, <1>5, <1>6, <1>7, QuietStep DEF CreateWalk

\* sched_start() only installs the handler.
LEMMA StartStep == IInv /\ sched_start => IInv'
<1> SUFFICES ASSUME IInv, sched_start PROVE IInv'
  OBVIOUS
<1> USE SlotFacts
<1>1. TypeOK'
  BY DEF IInv, TypeOK, sched_start
<1>2. /\ cpu.pc = "run" /\ cpu.pc \notin Creating /\ cpu.pc \notin Walking
      /\ cpu.pc # "panic" /\ cpu.pc \notin Killing /\ nalloc > 0
  BY DEF sched_start, Creating, Walking, Killing
<1> QED BY <1>1, <1>2, QuietStep DEF sched_start

\* The walk of kill_task() is read-only.
LEMMA KillCallStep ==
  ASSUME IInv, NEW p \in Killable, kill_task(p) PROVE IInv'
<1> USE SlotFacts
<1>1. cpu.pc = "run" /\ cpu.fn \notin Harmless /\ cpu.pc \notin Creating
  BY EntryAssumption DEF kill_task, Harmless, Entries, Creating
<1>2. nalloc > 0
  BY <1>1 DEF IInv, InvRoot, TypeOK, Harmless
<1>3. /\ cpu' \in Context /\ cpu'.pc = "k_walk" /\ cpu'.fn = cpu.fn
  BY EntryAssumption DEF IInv, TypeOK, kill_task, Context, Labels, Killing
<1>4. TypeOK'
  BY <1>3 DEF IInv, TypeOK, kill_task
<1>5. cpu'.pc \notin Creating /\ cpu'.pc \notin Walking
  BY <1>3 DEF Creating, Walking
<1> QED BY <1>1, <1>2, <1>3, <1>4, <1>5, QuietStep DEF kill_task

\* Returning from a call leaves a context of the same code.
LEMMA ReturnedFacts ==
  ASSUME NEW c \in Context
  PROVE  /\ Returned(c) \in Context /\ Returned(c).pc = "run"
         /\ Returned(c).fn = c.fn
BY DEF Returned, Context, Labels

\* Only code that kills is inside kill_task().
LEMMA KillerFacts ==
  ASSUME IInv, cpu.pc \in Killing
  PROVE  cpu.fn \notin Harmless /\ nalloc > 0 /\ cpu.pc \notin Creating /\ cpu.pc # "panic"
<1>1. Ctx[NULL] = cpu
  BY DEF Ctx
<1>2. cpu.fn \notin Harmless
  BY <1>1 DEF IInv, InvIdle
<1> QED BY <1>2 DEF IInv, InvRoot, TypeOK, Harmless, Killing, Creating

\* So are its steps.
LEMMA KillWalkStep == IInv /\ KillWalk => IInv'
<1> SUFFICES ASSUME IInv, KillWalk PROVE IInv'
  OBVIOUS
<1> USE SlotFacts
<1>1. cpu.pc = "k_walk" /\ cpu.pc \in Killing
  BY DEF KillWalk, Killing
<1>2. /\ cpu' \in Context /\ cpu'.fn = cpu.fn
      /\ cpu'.pc \in {"run", "k_walk", "k_set"}
  <2>1. cpu \in Context
    BY DEF IInv, TypeOK
  <2>2. CASE cpu' = Returned(cpu)
    BY <2>1, <2>2, ReturnedFacts
  <2>3. CASE cpu' = [cpu EXCEPT !.pc = "k_set"]
    BY <2>1, <2>3 DEF Context, Labels, Killing
  <2>4. CASE cpu.idk # NULL /\ cpu' = [cpu EXCEPT !.idk = task[cpu.idk].next]
    <3> DEFINE n == task[cpu.idk].next
    <3>1. cpu' = [cpu EXCEPT !.idk = n]
      BY <2>4
    <3>2. n \in Slots \cup {NULL}
      BY <2>1, <2>4 DEF IInv, TypeOK, TaskStruct, Context
    <3> HIDE DEF n
    <3> QED BY <1>1, <2>1, <3>1, <3>2 DEF Context
  <2> QED BY <2>2, <2>3, <2>4 DEF KillWalk
<1>3. TypeOK'
  BY <1>2 DEF IInv, TypeOK, KillWalk
<1>4. cpu'.pc \notin Creating /\ cpu'.pc \notin Walking /\ cpu'.pc # "panic" /\ cpu'.pc # "c_link"
  BY <1>2 DEF Creating, Walking
<1> QED BY <1>1, <1>2, <1>3, <1>4, KillerFacts, QuietStep DEF KillWalk

\* Marking a task leaves all but its state alone.
LEMMA MarkFacts ==
  ASSUME TypeOK, NEW k, task' = [task EXCEPT ![k].state = "KILLED"]
  PROVE  /\ task' \in [Slots -> TaskStruct]
         /\ \A x \in Slots : /\ task'[x].next = task[x].next
                             /\ task'[x].regs = task[x].regs
                             /\ task'[x].entry = task[x].entry
                             /\ \/ task'[x].state = task[x].state
                                \/ task'[x].state = "KILLED"
<1> SUFFICES ASSUME NEW x \in Slots
             PROVE  /\ task'[x] \in TaskStruct
                    /\ task'[x].next = task[x].next
                    /\ task'[x].regs = task[x].regs
                    /\ task'[x].entry = task[x].entry
                    /\ \/ task'[x].state = task[x].state
                       \/ task'[x].state = "KILLED"
  BY DEF TypeOK
<1>1. task[x] \in TaskStruct
  BY DEF TypeOK
<1>2. CASE x = k
  <2>1. task'[x] = [task[x] EXCEPT !.state = "KILLED"]
    BY <1>2 DEF TypeOK
  <2> QED BY <1>1, <2>1 DEF TaskStruct, TaskState
<1>3. CASE x # k
  BY <1>1, <1>3 DEF TypeOK
<1> QED BY <1>2, <1>3

\* Marking a task KILLED changes no link.
LEMMA KillMarkStep == IInv /\ KillMark => IInv'
<1> SUFFICES ASSUME IInv, KillMark PROVE IInv'
  OBVIOUS
<1> USE SlotFacts
<1>1. cpu.pc = "k_set" /\ cpu.pc \in Killing
  BY DEF KillMark, Killing
<1>2. cpu' \in Context /\ cpu'.fn = cpu.fn /\ cpu'.pc = "run"
  BY ReturnedFacts DEF IInv, TypeOK, KillMark
<1>3. /\ task' \in [Slots -> TaskStruct]
      /\ \A x \in Slots : /\ task'[x].next = task[x].next
                          /\ task'[x].regs = task[x].regs
                          /\ task'[x].entry = task[x].entry
                          /\ \/ task'[x].state = task[x].state
                             \/ task'[x].state = "KILLED"
  BY MarkFacts DEF IInv, KillMark
<1>4. TypeOK'
  BY <1>2, <1>3 DEF IInv, TypeOK, KillMark
<1>5. cpu'.pc \notin Creating /\ cpu'.pc \notin Walking /\ cpu'.pc \notin Killing
  BY <1>2 DEF Creating, Walking, Killing
<1> QED BY <1>1, <1>2, <1>3, <1>4, <1>5, KillerFacts, QuietStep DEF KillMark

\* Neither does the exit system call.
LEMMA ExitStep == IInv /\ syscall_int => IInv'
<1> SUFFICES ASSUME IInv, syscall_int PROVE IInv'
  OBVIOUS
<1> USE SlotFacts
<1>1. cpu.pc = "run" /\ cpu.fn \notin Harmless /\ cpu.pc \notin Creating /\ cpu.pc \notin Walking
  BY EntryAssumption DEF syscall_int, Harmless, Entries, Creating, Walking
<1>2. nalloc > 0
  BY <1>1 DEF IInv, InvRoot, TypeOK, Harmless
<1>3. /\ task' \in [Slots -> TaskStruct]
      /\ \A x \in Slots : /\ task'[x].next = task[x].next
                          /\ task'[x].regs = task[x].regs
                          /\ task'[x].entry = task[x].entry
                          /\ \/ task'[x].state = task[x].state
                             \/ task'[x].state = "KILLED"
  BY MarkFacts DEF IInv, syscall_int
<1>4. TypeOK'
  BY <1>3 DEF IInv, TypeOK, syscall_int
<1> QED BY <1>1, <1>2, <1>3, <1>4, QuietStep DEF syscall_int

-----------------------------------------------------------------------------
\* The constant records have their types.
LEMMA RecordFacts ==
  /\ Wild \in Context /\ Wild.pc = "wild" /\ Wild.fn = "none"
  /\ Zeroed \in TaskStruct /\ Zeroed.next = NULL /\ Zeroed.regs = Wild
  /\ Zeroed.entry = "none" /\ Zeroed.state = "CREATED"
<1>1. Wild \in Context /\ Wild.pc = "wild" /\ Wild.fn = "none"
  BY DEF Wild, Entered, Context, Labels
<1> QED BY <1>1 DEF Zeroed, TaskStruct, TaskState

\* sched_init() makes the list of idle alone.
LEMMA InitSchedStep == IInv /\ sched_init => IInv'
<1> SUFFICES ASSUME IInv, sched_init PROVE IInv'
  OBVIOUS
<1> USE SlotFacts, MaxTasksAssumption
<1>1. /\ nalloc = 0 /\ nalloc' = 1 /\ root_task' = 1 /\ current_task' = 1
      /\ current_task = NULL /\ cpu' = cpu /\ cpu.pc = "run" /\ cpu.fn = "boot"
      /\ freed' = freed /\ freed = {}
  BY DEF IInv, InvRoot, sched_init, TypeOK
<1>2. \A x \in Slots : x # 1 => task'[x] = task[x]
  BY DEF IInv, TypeOK, sched_init
<1>3. /\ task'[1] \in TaskStruct /\ task'[1].next = NULL /\ task'[1].regs = Wild
      /\ task'[1].entry = "idle" /\ task'[1].state = "CREATED"
  <2>1. task'[1] = [Zeroed EXCEPT !.entry = "idle", !.pid = nextpid]
    BY DEF IInv, TypeOK, sched_init
  <2> QED BY <2>1, RecordFacts DEF TaskStruct, Entries, IInv, TypeOK
<1>4. TypeOK'
  BY <1>1, <1>2, <1>3 DEF IInv, TypeOK, sched_init
<1>5. InvRoot'
  BY <1>1 DEF InvRoot, NULL
<1>6. \A x \in Slots : task'[x].next = NULL
  BY <1>1, <1>2, <1>3 DEF IInv, InvNext, TypeOK, TaskStruct, Slots, NULL
<1>7. InvNext'
  BY <1>1, <1>6 DEF InvNext, NULL
<1>8. \A i \in Slots \cup {NULL} : Ctx'[i].pc \notin Creating /\ Ctx'[i].pc \notin Walking
  <2>1. \A i \in Ids : Ctx[i].pc \notin Creating /\ Ctx[i].pc \notin Walking
    BY <1>1 DEF IInv, InvMakes, InvWalks
  <2>2. \A i \in Slots \cup {NULL} : i \in Ids
    BY <1>1 DEF Ids
  <2>3. \A i \in Slots \cup {NULL} : i # 1 => Ctx'[i] = Ctx[i]
    BY <1>1, <1>2 DEF Ctx
  <2>4. Ctx'[1].pc = "wild"
    BY <1>3, RecordFacts DEF Ctx
  <2> QED BY <2>1, <2>2, <2>3, <2>4 DEF Creating, Walking
<1>9. InvMakes' /\ InvWalks' /\ InvOrder'
  BY <1>8 DEF InvMakes, InvWalks, InvOrder, Ids, Creating, Walking
<1>10. InvIdle'
  <2>1. \A i \in Slots \cup {NULL} : i # 1 => Ctx'[i] = Ctx[i]
    BY <1>1, <1>2 DEF Ctx
  <2>2. Ctx'[1].pc = "wild"
    BY <1>3, RecordFacts DEF Ctx
  <2> QED BY <1>1, <1>3, <2>1, <2>2, RecordFacts DEF IInv, InvIdle, Harmless, Killing
<1>11. InvFresh'
  BY <1>2, <1>3, RecordFacts DEF IInv, InvFresh
<1>12. InvReach'
  <2>1. 1 \in (Reach)'
    BY <1>1, ReachIsList, ListHead
  <2>2. (Reach)' \subseteq {1}
    <3>1. Nx'[1] = NULL
      BY <1>3 DEF Nx
    <3>2. ClosedUnder(Slots, Nx', NULL, {1})
      BY <3>1 DEF ClosedUnder
    <3> QED BY <1>1, <3>2, ReachIsList, ListWithin
  <2> QED BY <1>1, <2>1, <2>2 DEF InvReach
<1> QED BY <1>4, <1>5, <1>7, <1>9, <1>10, <1>11, <1>12 DEF IInv

\* create_task() allocates a struct that nobody else knows.
LEMMA CreateStepLemma ==
  ASSUME IInv, NEW e \in Spawned \cup {"krnl_sched"}, create_task(e) PROVE IInv'
<1> USE SlotFacts, MaxTasksAssumption
<1>0. PICK w : w = nalloc + 1
  OBVIOUS
<1>1. /\ w \in Slots /\ w \notin 1..nalloc /\ w \notin freed /\ nalloc' = w
      /\ nalloc > 0 /\ root_task = 1 /\ w # 1 /\ w # NULL /\ w \in 2..nalloc'
  <2>1. nalloc \in Nat /\ nalloc < MaxTasks /\ nalloc' = w
    BY <1>0 DEF IInv, TypeOK, create_task
  <2>2. nalloc > 0
    BY <2>1, EntryAssumption DEF IInv, InvRoot, create_task, MayCreate, Entries
  <2> QED BY <1>0, <2>1, <2>2 DEF IInv, InvRoot, Slots, NULL
<1>2. /\ cpu.pc = "run" /\ cpu' \in Context /\ cpu'.pc = "c_pid"
      /\ cpu'.new = w /\ cpu'.fn = cpu.fn
  BY <1>0, <1>1 DEF IInv, TypeOK, create_task, Context, Labels, Creating
<1>3. \A x \in Slots : x # w => task'[x] = task[x]
  BY <1>0 DEF IInv, TypeOK, create_task
<1>4. /\ task'[w] \in TaskStruct /\ task'[w].next = NULL /\ task'[w].regs = Wild
      /\ task'[w].state = "CREATED"
  <2>1. task'[w] = [Zeroed EXCEPT !.entry = e]
    BY <1>0, <1>1 DEF IInv, TypeOK, create_task
  <2> QED BY <2>1, RecordFacts DEF TaskStruct, Entries
<1>5. TypeOK'
  <2>1. nalloc' \in 0..MaxTasks
    BY <1>0, <1>1 DEF IInv, TypeOK, create_task
  <2> QED BY <1>2, <1>3, <1>4, <2>1 DEF IInv, TypeOK, create_task
<1>6. InvRoot'
  <2>1. freed' \subseteq 2..nalloc'
    BY <1>0, <1>1 DEF IInv, InvRoot, TypeOK, create_task
  <2> QED BY <1>1, <1>2, <2>1 DEF IInv, InvRoot, create_task, NULL
<1>7. /\ \A x \in Slots : task[x].next # w /\ task[x].next # 1
      /\ \A x \in Slots : task[x].next <= nalloc /\ task[x].next \in Slots \cup {NULL}
  BY <1>0, <1>1 DEF IInv, InvNext, TypeOK, TaskStruct, Slots, NULL
<1>8. InvNext'
  <2>1. \A x \in Slots : task'[x].next <= nalloc'
    BY <1>0, <1>1, <1>3, <1>4, <1>7 DEF IInv, TypeOK, Slots, NULL
  <2> QED BY <1>3, <1>4, <1>7, <2>1 DEF IInv, InvNext, NULL
<1>9. current_task' = current_task /\ current_task # w /\ freed' = freed
      /\ root_task' = root_task
  BY <1>0, <1>1 DEF IInv, InvReach, create_task
<1>10. /\ (Ids)' = Ids /\ NULL \in Ids /\ w \in Ids
       /\ \A i \in Ids : i # NULL /\ i # w => Ctx'[i] = Ctx[i]
       /\ Ctx'[NULL] = cpu' /\ Ctx'[w] = Wild
       /\ Ids \subseteq Slots \cup {NULL}
  BY <1>1, <1>3, <1>4, <1>9 DEF Ids, Ctx
<1>11. \A i \in Ids : /\ i # NULL => (Ctx'[i].pc \in Creating => i # w)
                      /\ Ctx'[i].pc \in Walking => i # NULL /\ i # w
  BY <1>2, <1>10, RecordFacts DEF Creating, Walking
<1>20. \A j \in Ids :
         /\ Ctx'[j].pc \in Walking => Ctx'[j] = Ctx[j]
         /\ j # NULL /\ Ctx'[j].pc \in Creating => Ctx'[j] = Ctx[j]
  BY <1>10, <1>11
<1>12. InvWalks'
  <2>1. 1..nalloc \subseteq 1..nalloc'
    BY <1>0, <1>1 DEF IInv, TypeOK
  <2>2. \A i \in Ids : Ctx'[i].pc \in Walking => Ctx'[i].idk \in 1..nalloc
    BY <1>20 DEF IInv, InvWalks
  <2>3. \A i \in Ids : Ctx'[i].pc \in Walking => Ctx'[i].idk \in 1..nalloc'
    BY <2>1, <2>2
  <2> QED BY <1>10, <2>3 DEF InvWalks, Walking
<1>13. InvMakes'
  <2>1. 2..nalloc \subseteq 2..nalloc' /\ 2..nalloc \subseteq 1..nalloc
    BY <1>0, <1>1 DEF IInv, TypeOK
  <2>2. \A j \in Ids : Ctx'[j].pc \in Walking => Ctx'[j].idk \in 1..nalloc
    BY <1>20 DEF IInv, InvWalks
  <2>3. \A j \in Ids : j # NULL /\ Ctx'[j].pc \in Creating =>
          /\ Ctx'[j] = Ctx[j] /\ Ctx[j].new \in 2..nalloc
          /\ Ctx[j].new # w /\ Ctx[j].new \in Slots
    <3>1. \A j \in Ids : j # NULL /\ Ctx'[j].pc \in Creating =>
            Ctx'[j] = Ctx[j] /\ Ctx[j].new \in 2..nalloc
      BY <1>20 DEF IInv, InvMakes
    <3> QED BY <1>0, <1>1, <2>1, <3>1
  <2> SUFFICES ASSUME NEW i \in Ids, Ctx'[i].pc \in Creating
               PROVE  /\ Ctx'[i].new \in 2..nalloc' /\ Ctx'[i].new \notin freed'
                      /\ task'[Ctx'[i].new].next = NULL
                      /\ task'[Ctx'[i].new].regs.pc = "wild"
                      /\ \A x \in Slots : task'[x].next # Ctx'[i].new
                      /\ \A j \in Ids :
                           /\ i # j /\ Ctx'[j].pc \in Creating => Ctx'[i].new # Ctx'[j].new
                           /\ Ctx'[j].pc \in Walking => Ctx'[j].idk # Ctx'[i].new
    BY <1>10 DEF InvMakes, Creating, Walking, NULL
  <2>4. CASE i = NULL
    BY <2>4, <1>1, <1>2, <1>3, <1>4, <1>7, <1>9, <1>10, <2>2, <2>3, RecordFacts
  <2>5. CASE i # NULL
    <3> DEFINE v == Ctx[i].new
    <3>1. Ctx'[i] = Ctx[i] /\ v \in 2..nalloc /\ v # w /\ v \in Slots
      BY <2>3, <2>5
    <3>2. /\ v \notin freed /\ task[v].next = NULL /\ task[v].regs.pc = "wild"
          /\ \A x \in Slots : task[x].next # v
          /\ \A j \in Ids : /\ i # j /\ Ctx[j].pc \in Creating => v # Ctx[j].new
                            /\ Ctx[j].pc \in Walking => Ctx[j].idk # v
      BY <3>1 DEF IInv, InvMakes
    <3>3. v # NULL
      BY <3>1 DEF NULL
    <3> HIDE DEF v
    <3>4. \A x \in Slots : task'[x].next # v
      BY <1>3, <1>4, <3>2, <3>3
    <3>5. \A j \in Ids : i # j /\ Ctx'[j].pc \in Creating => v # Ctx'[j].new
      BY <1>2, <1>10, <2>3, <3>1, <3>2
    <3>6. \A j \in Ids : Ctx'[j].pc \in Walking => Ctx'[j].idk # v
      BY <1>20, <3>2
    <3> QED BY <1>3, <1>9, <2>1, <3>1, <3>2, <3>4, <3>5, <3>6 DEF v
  <2> QED BY <2>4, <2>5
<1>14. InvIdle'
  <2>1. \A i \in Slots \cup {NULL} : i # NULL /\ i # w => Ctx'[i] = Ctx[i]
    BY <1>3 DEF Ctx
  <2>2. Ctx'[w] = Wild /\ Ctx'[NULL] = cpu' /\ Ctx[NULL] = cpu
    BY <1>10 DEF Ctx
  <2>3. \A i \in Slots \cup {NULL} : Ctx'[i].fn \in Harmless => Ctx'[i].pc \notin Killing
    BY <1>2, <2>1, <2>2, RecordFacts DEF IInv, InvIdle, Killing
  <2>4. task'[1] = task[1]
    BY <1>1, <1>3
  <2> QED BY <1>2, <1>9, <2>3, <2>4 DEF IInv, InvIdle
<1>15. InvFresh'
  BY <1>3, <1>4, RecordFacts DEF IInv, InvFresh
<1>16. w \notin Reach
  BY <1>0, <1>1 DEF IInv, InvReach
<1>17. (Reach)' = Reach /\ \A h \in Reach : From(Slots, Nx', NULL, h) = From(Slots, Nx, NULL, h)
  <2>1. /\ \A x \in Slots : Nx[x] = task[x].next /\ Nx'[x] = task'[x].next
        /\ \A x \in Slots : x # w => Nx'[x] = Nx[x]
        /\ \A x \in Slots : Nx[x] \in Slots \cup {NULL} /\ Nx'[x] \in Slots \cup {NULL}
    BY <1>3, <1>4, <1>7 DEF Nx
  <2>2. ASSUME NEW h \in Reach
        PROVE  From(Slots, Nx', NULL, h) = From(Slots, Nx, NULL, h)
    <3>1. h \in Slots /\ From(Slots, Nx, NULL, h) \subseteq Reach
      BY <1>1, <2>1, ReachIsList, ListClosed, ListSuffix
    <3>2. \A x \in From(Slots, Nx, NULL, h) : x \in Slots /\ Nx'[x] = Nx[x]
      <4>1. Reach \subseteq Slots
        BY DEF Reach, ReachFrom
      <4> QED BY <1>16, <2>1, <3>1, <4>1
    <3>3. \A x \in Slots : Nx[x] \in Slots \cup {NULL} /\ Nx'[x] \in Slots \cup {NULL}
      BY <2>1
    <3>4. NULL \notin Slots /\ \A x \in From(Slots, Nx, NULL, h) : Nx'[x] = Nx[x]
      BY <3>2
    <3> QED BY <3>1, <3>3, <3>4, ListSameOn
  <2>3. 1 \in Reach
    BY <1>1, ReachIsList, ListHead
  <2> QED BY <1>1, <1>9, <2>2, <2>3, ReachIsList
<1>18. InvReach'
  <2>1. 1..nalloc \subseteq 1..nalloc'
    BY <1>0, <1>1 DEF IInv, TypeOK
  <2> QED BY <1>9, <1>17, <2>1 DEF IInv, InvReach
<1>19. InvOrder'
  <2> SUFFICES ASSUME NEW i \in Ids, Ctx'[i].pc = "c_link",
                      Slot'[i] \in (Reach)', Ctx'[i].idk \in (Reach)'
               PROVE  Ctx'[i].idk \in From(Slots, Nx', NULL, Slot'[i])
    BY <1>10 DEF InvOrder
  <2>1. i # NULL /\ i # w
    BY <1>2, <1>10, RecordFacts
  <2>2. Ctx'[i] = Ctx[i] /\ Slot'[i] = i /\ Slot[i] = i
    BY <1>10, <2>1 DEF Slot
  <2> QED BY <1>17, <2>2 DEF IInv, InvOrder
<1> QED BY <1>5, <1>6, <1>8, <1>12, <1>13, <1>14, <1>15, <1>18, <1>19 DEF IInv

(***************************************************************************)
(* create_task() links its struct.  The node it links behind need not be   *)
(* the tail any more, and may even have been freed.                        *)
(***************************************************************************)
LEMMA LinkStep == IInv /\ CreateLink => IInv'
<1> SUFFICES ASSUME IInv, CreateLink PROVE IInv'
  OBVIOUS
<1> USE SlotFacts, MaxTasksAssumption
<1>1. PICK w, p : w = cpu.new /\ p = cpu.idk
  OBVIOUS
<1>2. /\ cpu.pc = "c_link" /\ cpu.pc \in Creating /\ cpu.pc \in Walking
      /\ nalloc > 0 /\ w \in Slots /\ p \in Slots
      /\ Ctx[NULL] = cpu /\ NULL \in Ids /\ Ids \subseteq Slots \cup {NULL}
  BY <1>1 DEF CreateLink, Creating, Walking, Ctx, Ids
<1>3. /\ w \in 2..nalloc /\ w \notin freed /\ task[w].next = NULL
      /\ task[w].regs.pc = "wild" /\ p # w
      /\ \A x \in Slots : task[x].next # w
      /\ \A j \in Ids : /\ j # NULL /\ Ctx[j].pc \in Creating => Ctx[j].new # w
                        /\ Ctx[j].pc \in Walking => Ctx[j].idk # w
  BY <1>1, <1>2 DEF IInv, InvMakes
<1>4. w # 1 /\ w # NULL /\ w <= nalloc /\ nalloc \in Nat
  BY <1>3 DEF NULL, IInv, TypeOK
<1>5. /\ UNCHANGED <<stub, root_task, current_task, nextpid, nalloc, freed>>
      /\ task' = [task EXCEPT ![p].next = w]
      /\ cpu' \in Context /\ cpu'.pc = "run" /\ cpu'.fn = cpu.fn
  BY <1>1, ReturnedFacts DEF CreateLink, IInv, TypeOK
<1>6. \A x \in Slots :
        /\ task'[x] \in TaskStruct
        /\ task'[x].next = IF x = p THEN w ELSE task[x].next
        /\ task'[x].regs = task[x].regs /\ task'[x].state = task[x].state
        /\ task'[x].entry = task[x].entry
  <2> SUFFICES ASSUME NEW x \in Slots
               PROVE  /\ task'[x] \in TaskStruct
                      /\ task'[x].next = IF x = p THEN w ELSE task[x].next
                      /\ task'[x].regs = task[x].regs /\ task'[x].state = task[x].state
                      /\ task'[x].entry = task[x].entry
    OBVIOUS
  <2>1. task[x] \in TaskStruct
    BY DEF IInv, TypeOK
  <2>2. task'[x] = IF x = p THEN [task[x] EXCEPT !.next = w] ELSE task[x]
    BY <1>5 DEF IInv, TypeOK
  <2> QED BY <1>2, <2>1, <2>2 DEF TaskStruct
<1>7. TypeOK'
  BY <1>5, <1>6 DEF IInv, TypeOK
<1>8. InvRoot'
  BY <1>2, <1>5 DEF IInv, InvRoot
<1>9. InvNext'
  BY <1>3, <1>4, <1>5, <1>6 DEF IInv, InvNext
<1>10. /\ (Ids)' = Ids /\ Ctx'[NULL] = cpu'
       /\ \A i \in Slots : Ctx'[i] = Ctx[i]
       /\ \A i \in Ids : Ctx'[i].pc \in Creating \/ Ctx'[i].pc \in Walking
                          => i \in Slots /\ i # NULL
  BY <1>2, <1>5, <1>6 DEF Ids, Ctx, Creating, Walking
<1>11. InvWalks'
  BY <1>5, <1>10 DEF IInv, InvWalks
<1>12. InvMakes'
  <2> SUFFICES ASSUME NEW i \in Ids, Ctx'[i].pc \in Creating
               PROVE  /\ Ctx'[i].new \in 2..nalloc /\ Ctx'[i].new \notin freed
                      /\ task'[Ctx'[i].new].next = NULL
                      /\ task'[Ctx'[i].new].regs.pc = "wild"
                      /\ \A x \in Slots : task'[x].next # Ctx'[i].new
                      /\ \A j \in Ids :
                           /\ i # j /\ Ctx'[j].pc \in Creating => Ctx'[i].new # Ctx'[j].new
                           /\ Ctx'[j].pc \in Walking => Ctx'[j].idk # Ctx'[i].new
    BY <1>5, <1>10 DEF InvMakes
  <2>1. PICK v : v = Ctx[i].new
    OBVIOUS
  <2>2. Ctx'[i].new = v /\ Ctx[i].pc \in Creating /\ i \in Slots /\ i # NULL
    BY <1>10, <2>1
  <2>3. /\ v \in 2..nalloc /\ v \notin freed /\ task[v].next = NULL
        /\ task[v].regs.pc = "wild" /\ \A x \in Slots : task[x].next # v
        /\ \A j \in Ids : /\ i # j /\ Ctx[j].pc \in Creating => v # Ctx[j].new
                          /\ Ctx[j].pc \in Walking => Ctx[j].idk # v
    BY <2>1, <2>2 DEF IInv, InvMakes
  <2>4. v \in Slots /\ v # w /\ v # p
    BY <1>1, <1>2, <1>3, <2>2, <2>3, <2>1
  <2>5. \A j \in Ids : /\ i # j /\ Ctx'[j].pc \in Creating => v # Ctx'[j].new
                       /\ Ctx'[j].pc \in Walking => Ctx'[j].idk # v
    BY <1>10, <2>3
  <2>6. /\ task'[v].next = NULL /\ task'[v].regs.pc = "wild"
        /\ \A x \in Slots : task'[x].next # v
    BY <1>6, <2>3, <2>4
  <2> QED BY <2>2, <2>3, <2>5, <2>6
<1>13. InvIdle'
  BY <1>2, <1>5, <1>6, <1>10 DEF IInv, InvIdle, Ctx, Killing
<1>14. InvFresh'
  BY <1>6 DEF IInv, InvFresh
<1>15. /\ root_task = 1 /\ root_task' = 1 /\ Fresh(Slots, Nx, NULL, w)
       /\ \A x \in Slots : Nx[x] \in Slots \cup {NULL} /\ Nx[x] # 1
       /\ Unshared(Slots, Nx, NULL) /\ Linked(Slots, Nx, Nx', p, w)
  BY <1>2, <1>3, <1>5, <1>6
     DEF IInv, InvRoot, InvNext, TypeOK, TaskStruct, Nx, Fresh, Unshared, Linked
<1>16. (Reach)' \subseteq Reach \cup {w}
  <2>1. 1 \in Slots /\ NULL \notin Slots /\ \A x \in Slots : Nx[x] \in Slots \cup {NULL}
    BY <1>15
  <2>2. From(Slots, Nx', NULL, 1) \subseteq From(Slots, Nx, NULL, 1) \cup {w}
    BY <1>2, <1>3, <1>15, <2>1, LinkGrows
  <2> QED BY <1>15, <2>2, ReachIsList
<1>17. current_task # NULL => current_task \in (Reach)'
  <2> SUFFICES ASSUME current_task # NULL PROVE current_task \in (Reach)'
    OBVIOUS
  <2>1. current_task \in Reach
    BY DEF IInv, InvReach
  <2>2. Slot[NULL] = current_task
    BY DEF Slot
  <2>3. p \in Reach => p \in From(Slots, Nx, NULL, current_task)
    BY <1>1, <1>2, <2>1, <2>2 DEF IInv, InvOrder
  <2>4. \A s \in From(Slots, Nx, NULL, 1) :
          (p \in From(Slots, Nx, NULL, 1) => p \in From(Slots, Nx, NULL, s))
          => s \in From(Slots, Nx', NULL, 1)
    BY <1>2, <1>3, <1>15, LinkKeeps
  <2> QED BY <1>15, <2>1, <2>3, <2>4, ReachIsList
<1>18. InvReach'
  <2>1. Reach \cap freed = {} /\ Reach \subseteq 1..nalloc
    BY DEF IInv, InvReach
  <2> QED BY <1>3, <1>4, <1>5, <1>16, <1>17, <2>1 DEF InvReach
<1>19. InvOrder'
  <2> SUFFICES ASSUME NEW i \in Ids, Ctx'[i].pc = "c_link",
                      Slot'[i] \in (Reach)', Ctx'[i].idk \in (Reach)'
               PROVE  Ctx'[i].idk \in From(Slots, Nx', NULL, Slot'[i])
    BY <1>10 DEF InvOrder
  <2>1. i \in Slots /\ i # NULL /\ Ctx'[i] = Ctx[i] /\ Ctx[i].pc \in Walking
    BY <1>10 DEF Walking
  <2>2. Slot[i] = i /\ Slot'[i] = i
    BY <2>1 DEF Slot
  <2>3. i # w
    BY <1>3, <2>1 DEF Ctx
  <2>4. Ctx[i].idk # w
    BY <1>3, <2>1
  <2>5. i \in Reach /\ Ctx[i].idk \in Reach
    BY <1>16, <2>1, <2>2, <2>3, <2>4
  <2>6. Ctx[i].idk \in From(Slots, Nx, NULL, i)
    BY <2>1, <2>2, <2>5 DEF IInv, InvOrder
  <2>7. Ctx[i].idk \in From(Slots, Nx', NULL, 1)
    BY <1>15, <2>1, ReachIsList
  <2>8. Ctx[i].idk \in From(Slots, Nx', NULL, i)
    <3>1. \A y \in From(Slots, Nx, NULL, i) :
            y \in From(Slots, Nx', NULL, 1) => y \in From(Slots, Nx', NULL, i)
      BY <1>2, <1>3, <1>4, <1>15, <2>1, LinkOrder
    <3> QED BY <2>6, <2>7, <3>1
  <2> QED BY <2>1, <2>2, <2>8
<1> QED BY <1>7, <1>8, <1>9, <1>11, <1>12, <1>13, <1>14, <1>18, <1>19 DEF IInv

-----------------------------------------------------------------------------
(***************************************************************************)
(* sched() moves contexts between the CPU and the task_structs.  m says    *)
(* where the context that is now at i was before.                          *)
(***************************************************************************)
Quiet == {"run", "wild", "panic"}

\* A struct under construction is not on the list.
LEMMA NewUnreachable ==
  ASSUME IInv, NEW i \in Ids, Ctx[i].pc \in Creating
  PROVE  Ctx[i].new \in Slots /\ Ctx[i].new # NULL /\ Ctx[i].new \notin Reach
<1>1. PICK v : v = Ctx[i].new
  OBVIOUS
<1>2. v \in 2..nalloc /\ \A x \in Slots : task[x].next # v
  BY <1>1 DEF IInv, InvMakes
<1>3. v \in Slots /\ v # NULL /\ v # 1 /\ nalloc > 0 /\ 1 \in Slots /\ NULL \notin Slots
  BY <1>2, SlotFacts DEF IInv, TypeOK, NULL
<1>4. \A x \in Slots : Nx[x] \in Slots \cup {NULL} /\ Nx[x] = task[x].next
  BY DEF Nx, IInv, TypeOK, TaskStruct
<1>5. root_task = 1
  BY <1>3 DEF IInv, InvRoot
<1>6. v \notin From(Slots, Nx, NULL, 1)
  <2>1. \A x \in From(Slots, Nx, NULL, 1) :
          x # 1 => \E y \in From(Slots, Nx, NULL, 1) : Nx[y] = x
    BY <1>3, <1>4, ListPred
  <2>2. From(Slots, Nx, NULL, 1) \subseteq Slots
    BY DEF From
  <2> QED BY <1>2, <1>3, <1>4, <2>1, <2>2
<1> QED BY <1>1, <1>3, <1>5, <1>6, ReachIsList

\* A switch moves contexts between the CPU and the task_structs without
\* duplicating one (m says where each came from), so what the invariant
\* says of the contexts inside create_task() carries over.
LEMMA Moved ==
  ASSUME IInv, NEW m, nalloc' = nalloc,
         \A i \in Ids' : \/ Ctx'[i].pc \in Quiet
                         \/ m[i] \in Ids /\ Ctx'[i] = Ctx[m[i]],
         \A i, j \in Ids' : /\ i # j
                            /\ Ctx'[i].pc \notin Quiet /\ Ctx'[j].pc \notin Quiet
                            => m[i] # m[j],
         \A v \in Slots \ Reach : /\ task'[v].next = task[v].next
                                  /\ task'[v].regs = task[v].regs,
         \A x \in Slots : \/ task'[x].next = NULL
                          \/ \E y \in Slots : task'[x].next = task[y].next,
         freed' \subseteq freed \cup Reach
  PROVE  InvWalks' /\ InvMakes'
<1>1. \A i \in Ids' : Ctx'[i].pc \in Creating \/ Ctx'[i].pc \in Walking =>
        /\ Ctx'[i].pc \notin Quiet /\ m[i] \in Ids /\ Ctx'[i] = Ctx[m[i]]
  <2>1. Creating \cap Quiet = {} /\ Walking \cap Quiet = {}
    BY DEF Creating, Walking, Quiet
  <2> QED BY <2>1
<1>2. InvWalks'
  BY <1>1 DEF IInv, InvWalks
<1>3. InvMakes'
  <2> SUFFICES ASSUME NEW i \in Ids', Ctx'[i].pc \in Creating
               PROVE  /\ Ctx'[i].new \in 2..nalloc' /\ Ctx'[i].new \notin freed'
                      /\ task'[Ctx'[i].new].next = NULL
                      /\ task'[Ctx'[i].new].regs.pc = "wild"
                      /\ \A x \in Slots : task'[x].next # Ctx'[i].new
                      /\ \A j \in Ids' :
                           /\ i # j /\ Ctx'[j].pc \in Creating => Ctx'[i].new # Ctx'[j].new
                           /\ Ctx'[j].pc \in Walking => Ctx'[j].idk # Ctx'[i].new
    BY DEF InvMakes
  <2>1. PICK k \in Ids : k = m[i] /\ Ctx'[i] = Ctx[k] /\ Ctx[k].pc \in Creating
    BY <1>1
  <2>2. PICK v : v = Ctx[k].new
    OBVIOUS
  <2>3. /\ v \in 2..nalloc /\ v \notin freed /\ task[v].next = NULL
        /\ task[v].regs.pc = "wild" /\ \A x \in Slots : task[x].next # v
        /\ \A j \in Ids : /\ k # j /\ Ctx[j].pc \in Creating => v # Ctx[j].new
                          /\ Ctx[j].pc \in Walking => Ctx[j].idk # v
    BY <2>1, <2>2 DEF IInv, InvMakes
  <2>4. v \in Slots /\ v # NULL /\ v \notin Reach
    BY <2>1, <2>2, NewUnreachable
  <2>5. /\ task'[v].next = NULL /\ task'[v].regs.pc = "wild"
        /\ \A x \in Slots : task'[x].next # v
    BY <2>3, <2>4
  <2>6. \A j \in Ids' : i # j /\ Ctx'[j].pc \in Creating => v # Ctx'[j].new
    <3> SUFFICES ASSUME NEW j \in Ids', i # j, Ctx'[j].pc \in Creating
                 PROVE  v # Ctx'[j].new
      OBVIOUS
    <3>1. m[j] # k /\ m[j] \in Ids /\ Ctx'[j] = Ctx[m[j]]
      BY <1>1, <2>1
    <3> QED BY <2>3, <3>1
  <2>7. \A j \in Ids' : Ctx'[j].pc \in Walking => Ctx'[j].idk # v
    BY <1>1, <2>3
  <2>8. v \notin freed'
    BY <2>3, <2>4
  <2> QED BY <2>1, <2>2, <2>3, <2>5, <2>6, <2>7, <2>8
<1> QED BY <1>2, <1>3

(***************************************************************************)
(* The pieces of sched().                                                  *)
(***************************************************************************)
LEMMA DispatchFacts ==
  ASSUME NEW tk \in [Slots -> TaskStruct], NEW t \in Slots, Dispatch(t, tk)
  PROVE  /\ current_task' = t /\ cpu' \in Context
         /\ \A x \in Slots :
              /\ task'[x].next = tk[x].next /\ task'[x].regs = tk[x].regs
              /\ task'[x].entry = tk[x].entry /\ task'[x].pid = tk[x].pid
              /\ task'[x].state = IF x = t THEN "RUNNING" ELSE tk[x].state
         /\ task' \in [Slots -> TaskStruct]
         /\ tk[t].state = "CREATED" =>
              cpu'.pc = "run" /\ cpu'.fn = tk[t].entry /\ cpu'.owner = t
         /\ tk[t].state # "CREATED" => cpu' = tk[t].regs
<1>1. task' = [tk EXCEPT ![t].state = "RUNNING"] /\ current_task' = t
  BY DEF Dispatch
<1>2. \A x \in Slots :
        /\ task'[x] \in TaskStruct
        /\ task'[x].next = tk[x].next /\ task'[x].regs = tk[x].regs
        /\ task'[x].entry = tk[x].entry /\ task'[x].pid = tk[x].pid
        /\ task'[x].state = IF x = t THEN "RUNNING" ELSE tk[x].state
  <2> SUFFICES ASSUME NEW x \in Slots
               PROVE  /\ task'[x] \in TaskStruct
                      /\ task'[x].next = tk[x].next /\ task'[x].regs = tk[x].regs
                      /\ task'[x].entry = tk[x].entry /\ task'[x].pid = tk[x].pid
                      /\ task'[x].state = IF x = t THEN "RUNNING" ELSE tk[x].state
    OBVIOUS
  <2>1. task'[x] = IF x = t THEN [tk[x] EXCEPT !.state = "RUNNING"] ELSE tk[x]
    BY <1>1
  <2>2. tk[x] \in TaskStruct
    OBVIOUS
  <2> QED BY <2>1, <2>2 DEF TaskStruct, TaskState
<1>3. /\ Entered(t, tk[t].entry) \in Context
      /\ Entered(t, tk[t].entry).pc = "run"
      /\ Entered(t, tk[t].entry).fn = tk[t].entry
      /\ Entered(t, tk[t].entry).owner = t
  <2>1. tk[t].entry \in Entries \cup {"none"}
    BY DEF TaskStruct
  <2> QED BY <2>1 DEF Entered, Context, Labels
<1>4. tk[t].regs \in Context
  BY DEF TaskStruct
<1>5. task' \in [Slots -> TaskStruct]
  BY <1>1, <1>2
<1> QED BY <1>1, <1>2, <1>3, <1>4, <1>5 DEF Dispatch

\* What Rotate does to each field.
LEMMA RotateFacts ==
  ASSUME NEW tk \in [Slots -> TaskStruct], NEW t \in Slots, Rotate(t, tk),
         root_task = 1, 1 \in Slots, cpu \in Context
  PROVE  \E a \in Slots :
           /\ a = IF tk[t].next = NULL THEN 1 ELSE tk[t].next
           /\ current_task' = a /\ cpu' \in Context
           /\ task' \in [Slots -> TaskStruct]
           /\ \A x \in Slots :
                /\ task'[x].next = tk[x].next /\ task'[x].entry = tk[x].entry
                /\ task'[x].pid = tk[x].pid
                /\ task'[x].regs = IF x = t THEN cpu ELSE tk[x].regs
                /\ task'[x].state = IF x = a THEN "RUNNING"
                                    ELSE IF x = t THEN "PENDING" ELSE tk[x].state
           /\ \/ a = t /\ cpu' = cpu
              \/ a # t /\ tk[a].state = "CREATED"
                 /\ cpu'.pc = "run" /\ cpu'.fn = tk[a].entry /\ cpu'.owner = a
              \/ a # t /\ tk[a].state # "CREATED" /\ cpu' = tk[a].regs
<1>1. PICK a : a = IF tk[t].next = NULL THEN 1 ELSE tk[t].next
  OBVIOUS
<1>2. PICK tl : tl = [tk EXCEPT ![t].regs = cpu, ![t].state = "PENDING"]
  OBVIOUS
<1>3. a \in Slots
  BY <1>1 DEF TaskStruct
<1>4. \A x \in Slots :
        /\ tl[x] \in TaskStruct
        /\ tl[x].next = tk[x].next /\ tl[x].entry = tk[x].entry
        /\ tl[x].pid = tk[x].pid
        /\ tl[x].regs = IF x = t THEN cpu ELSE tk[x].regs
        /\ tl[x].state = IF x = t THEN "PENDING" ELSE tk[x].state
  <2> SUFFICES ASSUME NEW x \in Slots
               PROVE  /\ tl[x] \in TaskStruct
                      /\ tl[x].next = tk[x].next /\ tl[x].entry = tk[x].entry
                      /\ tl[x].pid = tk[x].pid
                      /\ tl[x].regs = IF x = t THEN cpu ELSE tk[x].regs
                      /\ tl[x].state = IF x = t THEN "PENDING" ELSE tk[x].state
    OBVIOUS
  <2>1. tk[x] \in TaskStruct
    OBVIOUS
  <2>2. tl[x] = IF x = t THEN [tk[x] EXCEPT !.regs = cpu, !.state = "PENDING"]
                         ELSE tk[x]
    BY <1>2
  <2> QED BY <2>1, <2>2 DEF TaskStruct, TaskState
<1>5. tl \in [Slots -> TaskStruct]
  BY <1>2, <1>4
<1>6. Dispatch(a, tl)
  BY <1>1, <1>2 DEF Rotate
<1>7. /\ current_task' = a /\ cpu' \in Context
      /\ \A x \in Slots :
           /\ task'[x].next = tl[x].next /\ task'[x].regs = tl[x].regs
           /\ task'[x].entry = tl[x].entry /\ task'[x].pid = tl[x].pid
           /\ task'[x].state = IF x = a THEN "RUNNING" ELSE tl[x].state
      /\ task' \in [Slots -> TaskStruct]
      /\ tl[a].state = "CREATED" => cpu'.pc = "run" /\ cpu'.fn = tl[a].entry /\ cpu'.owner = a
      /\ tl[a].state # "CREATED" => cpu' = tl[a].regs
  BY <1>3, <1>5, <1>6, DispatchFacts
<1>8. WITNESS a \in Slots
<1>9. \/ a = t /\ cpu' = cpu
      \/ a # t /\ tk[a].state = "CREATED" /\ cpu'.pc = "run" /\ cpu'.fn = tk[a].entry
         /\ cpu'.owner = a
      \/ a # t /\ tk[a].state # "CREATED" /\ cpu' = tk[a].regs
  BY <1>3, <1>4, <1>7
<1> QED BY <1>1, <1>3, <1>4, <1>7, <1>9

(***************************************************************************)
(* tk is the memory before sched() switches from t: a struct is as it was, *)
(* or has just been cleared by the reaper.                                 *)
(***************************************************************************)
Prepared(tk, t) ==
  /\ tk \in [Slots -> TaskStruct]
  /\ t = 1 => current_task = 1
  /\ \A x \in Slots :
       \/ /\ tk[x].regs = task[x].regs /\ tk[x].state = task[x].state
          /\ tk[x].entry = task[x].entry
          /\ x = t \/ x # current_task
       \/ /\ tk[x].regs = Wild /\ tk[x].entry = "none" /\ x # 1 /\ x # t

\* Where contexts come from, for InvOrder.
Sources(t) ==
  \A i \in Ids' :
    \/ Ctx'[i].pc \in Quiet
    \/ \E k \in Ids :
         /\ Ctx'[i] = Ctx[k]
         /\ \/ Slot'[i] = Slot[k]
            \/ Slot[k] = current_task /\ Slot'[i] = t

\* What the list keeps of its structs that are not on it.
ListOnly(tk) ==
  /\ \A v \in Slots \ Reach : tk[v].next = task[v].next /\ tk[v].regs = task[v].regs
  /\ \A x \in Slots : \/ tk[x].next = NULL
                      \/ \E y \in Slots : tk[x].next = task[y].next

\* Rotate moves the contexts as lemma Moved needs it.
LEMMA RotateMoves ==
  ASSUME IInv, nalloc > 0, UNCHANGED <<root_task, nalloc>>,
         NEW tk, NEW t \in Reach, Prepared(tk, t), ListOnly(tk),
         freed' \subseteq freed \cup Reach, Rotate(t, tk)
  PROVE  /\ task' \in [Slots -> TaskStruct] /\ cpu' \in Context
         /\ current_task' = IF tk[t].next = NULL THEN 1 ELSE tk[t].next
         /\ current_task' \in Slots
         /\ \A x \in Slots : task'[x].next = tk[x].next
         /\ InvWalks' /\ InvMakes' /\ InvIdle' /\ InvFresh' /\ Sources(t)
<1>1. /\ 1 \in Slots /\ NULL \notin Slots /\ root_task = 1 /\ t \in Slots /\ t # NULL
      /\ tk \in [Slots -> TaskStruct] /\ cpu \in Context
  BY SlotFacts DEF IInv, InvRoot, TypeOK, Reach, ReachFrom, Prepared
<1>2. PICK a \in Slots :
        /\ a = IF tk[t].next = NULL THEN 1 ELSE tk[t].next
        /\ current_task' = a /\ cpu' \in Context
        /\ task' \in [Slots -> TaskStruct]
        /\ \A x \in Slots :
             /\ task'[x].next = tk[x].next /\ task'[x].entry = tk[x].entry
             /\ task'[x].regs = IF x = t THEN cpu ELSE tk[x].regs
             /\ task'[x].state = IF x = a THEN "RUNNING"
                                 ELSE IF x = t THEN "PENDING" ELSE tk[x].state
        /\ \/ a = t /\ cpu' = cpu
           \/ a # t /\ tk[a].state = "CREATED"
              /\ cpu'.pc = "run" /\ cpu'.fn = tk[a].entry
           \/ a # t /\ tk[a].state # "CREATED" /\ cpu' = tk[a].regs
  BY <1>1, RotateFacts
<1>3. /\ Wild.pc = "wild" /\ Wild.fn = "none" /\ "wild" \in Quiet /\ "run" \in Quiet
      /\ "wild" \notin Killing /\ "run" \notin Killing
      /\ {"idle", "none"} \subseteq Harmless
  BY RecordFacts DEF Quiet, Killing, Harmless
<1>4. /\ NULL \in Ids /\ Ctx[NULL] = cpu /\ Slot[NULL] = current_task
      /\ \A x \in Slots : Ctx[x] = task[x].regs /\ Slot[x] = x /\ Slot'[x] = x
      /\ \A x \in Slots : x # current_task => x \in Ids
      /\ Ctx'[NULL] = cpu' /\ Slot'[NULL] = a
      /\ \A x \in Slots : Ctx'[x] = task'[x].regs
      /\ \A i \in Ids' : i = NULL \/ (i \in Slots /\ i # a)
  BY <1>1, <1>2 DEF Ids, Ctx, Slot
<1>5. \A x \in Slots : x # t =>
        \/ tk[x].regs.pc \in Quiet
        \/ tk[x].regs = Ctx[x] /\ x \in Ids
  BY <1>3, <1>4 DEF Prepared
<1> DEFINE m == [i \in Slots \cup {NULL} |->
                   IF i = NULL THEN IF a = t THEN NULL ELSE a
                   ELSE IF i = t THEN NULL ELSE i]
<1>6. \A i \in Ids' :
        \/ Ctx'[i].pc \in Quiet
        \/ /\ m[i] \in Ids /\ Ctx'[i] = Ctx[m[i]]
           /\ \/ Slot'[i] = Slot[m[i]]
              \/ Slot[m[i]] = current_task /\ Slot'[i] = t
  <2> SUFFICES ASSUME NEW i \in Ids', Ctx'[i].pc \notin Quiet
               PROVE  /\ m[i] \in Ids /\ Ctx'[i] = Ctx[m[i]]
                      /\ \/ Slot'[i] = Slot[m[i]]
                         \/ Slot[m[i]] = current_task /\ Slot'[i] = t
    OBVIOUS
  <2>1. CASE i = NULL /\ a = t
    <3>1. m[i] = NULL
      BY <2>1
    <3> QED BY <1>2, <1>4, <2>1, <3>1
  <2>2. CASE i = NULL /\ a # t
    <3>1. m[i] = a
      BY <2>2
    <3>2. cpu' = tk[a].regs
      BY <1>2, <1>3, <1>4, <2>2
    <3> QED BY <1>4, <1>5, <2>2, <3>1, <3>2
  <2>3. CASE i # NULL /\ i = t
    <3>1. m[i] = NULL
      BY <1>1, <2>3
    <3> QED BY <1>1, <1>2, <1>4, <2>3, <3>1
  <2>4. CASE i # NULL /\ i # t
    <3>1. i \in Slots /\ m[i] = i
      BY <1>4, <2>4
    <3> QED BY <1>2, <1>4, <1>5, <2>4, <3>1
  <2> QED BY <2>1, <2>2, <2>3, <2>4
<1>7. \A i, j \in Ids' : i # j => m[i] # m[j]
  <2>1. \A i \in Ids' : m[i] = IF i = NULL THEN IF a = t THEN NULL ELSE a
                               ELSE IF i = t THEN NULL ELSE i
    BY <1>4
  <2> HIDE DEF m
  <2> QED BY <1>1, <1>2, <1>4, <2>1
<1>8. InvWalks' /\ InvMakes'
  <2> HIDE DEF m
  <2>1. \A v \in Slots \ Reach : /\ task'[v].next = task[v].next
                                 /\ task'[v].regs = task[v].regs
    BY <1>2 DEF ListOnly
  <2>2. \A x \in Slots : \/ task'[x].next = NULL
                         \/ \E y \in Slots : task'[x].next = task[y].next
    BY <1>2 DEF ListOnly
  <2> QED BY <1>6, <1>7, <2>1, <2>2, Moved
<1>9. Sources(t)
  <2> HIDE DEF m
  <2> QED BY <1>6 DEF Sources
<1>10. InvIdle'
  <2>1. /\ \A i \in Slots \cup {NULL} : Ctx[i].fn \in Harmless => Ctx[i].pc \notin Killing
        /\ task[1].regs.fn \in Harmless /\ task[1].entry \in {"idle", "none"}
        /\ current_task = 1 => cpu.fn \in Harmless
    BY DEF IInv, InvIdle
  <2>2. \A x \in Slots : tk[x].regs.fn \in Harmless => tk[x].regs.pc \notin Killing
    BY <1>3, <1>4, <2>1 DEF Prepared
  <2>3. cpu.fn \in Harmless => cpu.pc \notin Killing
    BY <1>4, <2>1
  <2>4. cpu'.fn \in Harmless => cpu'.pc \notin Killing
    BY <1>2, <1>3, <2>2, <2>3
  <2>5. tk[1].regs.fn \in Harmless /\ tk[1].entry \in {"idle", "none"}
    BY <1>1, <2>1 DEF Prepared
  <2>6. t = 1 => cpu.fn \in Harmless
    BY <2>1 DEF Prepared
  <2>7. task'[1].regs.fn \in Harmless
    BY <1>1, <1>2, <2>5, <2>6
  <2>8. current_task' = 1 => cpu'.fn \in Harmless /\ task'[1].state # "KILLED"
    BY <1>1, <1>2, <1>3, <2>5, <2>6
  <2>9. \A i \in Slots \cup {NULL} : Ctx'[i].fn \in Harmless => Ctx'[i].pc \notin Killing
    BY <1>2, <1>4, <2>2, <2>3, <2>4
  <2> QED BY <1>1, <1>2, <2>5, <2>7, <2>8, <2>9 DEF InvIdle
<1>11. InvFresh'
  <2>1. \A x \in Slots : tk[x].state = "CREATED" /\ x # t => tk[x].regs.pc = "wild"
    BY <1>3 DEF IInv, InvFresh, Prepared
  <2> QED BY <1>2, <2>1 DEF InvFresh
<1> QED BY <1>2, <1>8, <1>9, <1>10, <1>11

\* So does starting a new task.
LEMMA DispatchMoves ==
  ASSUME IInv, nalloc > 0, UNCHANGED <<root_task, nalloc>>,
         NEW tk, NEW t \in Reach, Prepared(tk, t), ListOnly(tk),
         freed' \subseteq freed \cup Reach,
         tk[t].state = "CREATED", Dispatch(t, tk)
  PROVE  /\ task' \in [Slots -> TaskStruct] /\ cpu' \in Context
         /\ current_task' = t /\ cpu'.pc = "run"
         /\ \A x \in Slots : task'[x].next = tk[x].next
         /\ InvWalks' /\ InvMakes' /\ InvIdle' /\ InvFresh' /\ Sources(t)
<1>1. /\ 1 \in Slots /\ NULL \notin Slots /\ t \in Slots /\ t # NULL
      /\ tk \in [Slots -> TaskStruct]
  BY SlotFacts DEF Reach, ReachFrom, Prepared
<1>2. /\ current_task' = t /\ cpu' \in Context
      /\ \A x \in Slots :
           /\ task'[x].next = tk[x].next /\ task'[x].regs = tk[x].regs
           /\ task'[x].entry = tk[x].entry
           /\ task'[x].state = IF x = t THEN "RUNNING" ELSE tk[x].state
      /\ task' \in [Slots -> TaskStruct]
      /\ cpu'.pc = "run" /\ cpu'.fn = tk[t].entry
  BY <1>1, DispatchFacts
<1>3. /\ Wild.pc = "wild" /\ Wild.fn = "none" /\ "wild" \in Quiet /\ "run" \in Quiet
      /\ "wild" \notin Killing /\ "run" \notin Killing
      /\ {"idle", "none"} \subseteq Harmless
  BY RecordFacts DEF Quiet, Killing, Harmless
<1>4. /\ \A x \in Slots : Ctx[x] = task[x].regs /\ Slot[x] = x /\ Slot'[x] = x
      /\ \A x \in Slots : x # current_task => x \in Ids
      /\ Ctx'[NULL] = cpu' /\ \A x \in Slots : Ctx'[x] = task'[x].regs
      /\ \A i \in Ids' : i = NULL \/ (i \in Slots /\ i # t)
  BY <1>1, <1>2 DEF Ids, Ctx, Slot
<1>5. \A i \in Ids' :
        \/ Ctx'[i].pc \in Quiet
        \/ i \in Ids /\ Ctx'[i] = Ctx[i] /\ Slot'[i] = Slot[i]
  BY <1>2, <1>3, <1>4 DEF Prepared
<1>6. InvWalks' /\ InvMakes'
  <2> DEFINE m == [i \in Slots \cup {NULL} |-> i]
  <2>1. \A i \in Ids' : m[i] = i
    BY <1>4
  <2>2. \A v \in Slots \ Reach : /\ task'[v].next = task[v].next
                                 /\ task'[v].regs = task[v].regs
    BY <1>2 DEF ListOnly
  <2>3. \A x \in Slots : \/ task'[x].next = NULL
                         \/ \E y \in Slots : task'[x].next = task[y].next
    BY <1>2 DEF ListOnly
  <2> HIDE DEF m
  <2> QED BY <1>5, <2>1, <2>2, <2>3, Moved
<1>7. Sources(t)
  BY <1>5 DEF Sources
<1>8. InvIdle'
  <2>1. /\ \A i \in Slots \cup {NULL} : Ctx[i].fn \in Harmless => Ctx[i].pc \notin Killing
        /\ task[1].regs.fn \in Harmless /\ task[1].entry \in {"idle", "none"}
    BY DEF IInv, InvIdle
  <2>2. \A x \in Slots : tk[x].regs.fn \in Harmless => tk[x].regs.pc \notin Killing
    BY <1>3, <1>4, <2>1 DEF Prepared
  <2>3. tk[1].regs.fn \in Harmless /\ tk[1].entry \in {"idle", "none"}
    BY <1>1, <2>1 DEF Prepared
  <2>4. \A i \in Slots \cup {NULL} : Ctx'[i].fn \in Harmless => Ctx'[i].pc \notin Killing
    BY <1>2, <1>3, <1>4, <2>2
  <2> QED BY <1>1, <1>2, <1>3, <2>3, <2>4 DEF InvIdle
<1>9. InvFresh'
  <2>1. \A x \in Slots : tk[x].state = "CREATED" => tk[x].regs.pc = "wild"
    BY <1>3 DEF IInv, InvFresh, Prepared
  <2> QED BY <1>2, <2>1 DEF InvFresh
<1> QED BY <1>2, <1>6, <1>7, <1>8, <1>9

-----------------------------------------------------------------------------
(***************************************************************************)
(* The list and the order on it, when sched() reaps nothing.               *)
(***************************************************************************)
LEMMA ListFacts ==
  ASSUME IInv, nalloc > 0
  PROVE  /\ root_task = 1 /\ 1 \in Slots /\ NULL \notin Slots
         /\ Reach = From(Slots, Nx, NULL, 1) /\ Reach \subseteq Slots /\ 1 \in Reach
         /\ Nx \in [Slots -> Slots \cup {NULL}]
         /\ \A x \in Slots : Nx[x] = task[x].next /\ Nx[x] # 1
         /\ Unshared(Slots, Nx, NULL)
         /\ \A x \in Reach : Nx[x] # NULL => Nx[x] \in Reach
<1>1. root_task = 1 /\ 1 \in Slots /\ NULL \notin Slots
  BY SlotFacts DEF IInv, InvRoot
<1>2. Nx \in [Slots -> Slots \cup {NULL}]
  BY DEF IInv, TypeOK, TaskStruct, Nx
<1>3. /\ \A x \in Slots : Nx[x] = task[x].next /\ Nx[x] # 1
      /\ Unshared(Slots, Nx, NULL)
  BY DEF IInv, InvNext, Nx, Unshared
<1>4. /\ From(Slots, Nx, NULL, 1) \subseteq Slots /\ 1 \in From(Slots, Nx, NULL, 1)
      /\ ClosedUnder(Slots, Nx, NULL, From(Slots, Nx, NULL, 1))
  BY <1>1, <1>2, ListClosed, ListHead
<1> QED BY <1>1, <1>2, <1>3, <1>4, ReachIsList DEF ClosedUnder

\* A switch that leaves the next pointers alone keeps the list invariants.
LEMMA KeptList ==
  ASSUME IInv, nalloc > 0, current_task # NULL, UNCHANGED <<root_task, nalloc, freed>>,
         \A x \in Slots : task'[x].next = task[x].next,
         Sources(current_task), current_task' \in Reach, stub' = stub
  PROVE  InvRoot' /\ InvNext' /\ InvReach' /\ InvOrder'
<1>1. \A h : From(Slots, Nx', NULL, h) = From(Slots, Nx, NULL, h)
  BY ListSameNext DEF Nx
<1>2. (Reach)' = Reach
  BY <1>1, ReachIsList
<1>3. NULL \notin Reach
  BY ListFacts
<1>4. InvRoot' /\ InvNext' /\ InvReach'
  BY <1>2, <1>3 DEF IInv, InvRoot, InvNext, InvReach
<1>5. InvOrder'
  <2> SUFFICES ASSUME NEW i \in Ids', Ctx'[i].pc = "c_link",
                      Slot'[i] \in (Reach)', Ctx'[i].idk \in (Reach)'
               PROVE  Ctx'[i].idk \in From(Slots, Nx', NULL, Slot'[i])
    BY DEF InvOrder
  <2>1. PICK k \in Ids : Ctx'[i] = Ctx[k] /\ Slot'[i] = Slot[k]
    BY DEF Sources, Quiet
  <2>2. Ctx[k].idk \in From(Slots, Nx, NULL, Slot[k])
    BY <1>2, <2>1 DEF IInv, InvOrder
  <2> QED BY <1>1, <2>1, <2>2
<1> QED BY <1>4, <1>5

\* A tick that finds the current task alive.
LEMMA LiveStep ==
  ASSUME IInv, sched, SchedLive PROVE IInv'
<1>1. /\ nalloc > 0 /\ current_task # NULL /\ current_task \in Reach
      /\ UNCHANGED <<stub, root_task, nextpid, nalloc, freed>>
      /\ task \in [Slots -> TaskStruct] /\ cpu.pc # "panic"
  BY DEF IInv, InvRoot, InvReach, TypeOK, sched, SchedLive
<1>2. Prepared(task, current_task) /\ ListOnly(task)
  BY <1>1 DEF Prepared, ListOnly
<1>3. CASE task[current_task].state = "CREATED" /\ Dispatch(current_task, task)
  <2>1. /\ task' \in [Slots -> TaskStruct] /\ cpu' \in Context
        /\ current_task' = current_task /\ cpu'.pc = "run"
        /\ \A x \in Slots : task'[x].next = task[x].next
        /\ InvWalks' /\ InvMakes' /\ InvIdle' /\ InvFresh' /\ Sources(current_task)
    BY <1>1, <1>2, <1>3, DispatchMoves
  <2>2. TypeOK'
    BY <1>1, <2>1 DEF IInv, TypeOK
  <2>3. InvRoot' /\ InvNext' /\ InvReach' /\ InvOrder'
    BY <1>1, <2>1, KeptList
  <2> QED BY <2>1, <2>2, <2>3 DEF IInv
<1>4. CASE Rotate(current_task, task)
  <2>1. /\ task' \in [Slots -> TaskStruct] /\ cpu' \in Context
        /\ current_task' = IF task[current_task].next = NULL THEN 1
                           ELSE task[current_task].next
        /\ current_task' \in Slots
        /\ \A x \in Slots : task'[x].next = task[x].next
        /\ InvWalks' /\ InvMakes' /\ InvIdle' /\ InvFresh' /\ Sources(current_task)
    BY <1>1, <1>2, <1>4, RotateMoves
  <2>2. TypeOK'
    BY <1>1, <2>1 DEF IInv, TypeOK
  <2>3. current_task' \in Reach
    BY <1>1, <2>1, ListFacts
  <2>4. InvRoot' /\ InvNext' /\ InvReach' /\ InvOrder'
    BY <1>1, <2>1, <2>3, KeptList
  <2> QED BY <2>1, <2>2, <2>4 DEF IInv
<1> QED BY <1>1, <1>3, <1>4 DEF SchedLive, SchedFrom

-----------------------------------------------------------------------------
(***************************************************************************)
(* Reaping current_task.                                                   *)
(***************************************************************************)
LEMMA UnlinkedFacts ==
  ASSUME IInv, nalloc > 0, NEW c \in Reach, c # 1, c = current_task
  PROVE  /\ Unlinked(c) \in [Slots -> TaskStruct]
         /\ \A x \in Slots :
              /\ Unlinked(c)[x].next = IF x = c THEN NULL
                                       ELSE IF x \in Reach /\ task[x].next = c
                                            THEN task[c].next ELSE task[x].next
              /\ x = c => Unlinked(c)[x].regs = Wild /\ Unlinked(c)[x].entry = "none"
              /\ x # c => /\ Unlinked(c)[x].regs = task[x].regs
                          /\ Unlinked(c)[x].state = task[x].state
                          /\ Unlinked(c)[x].entry = task[x].entry
         /\ ListOnly(Unlinked(c))
<1>1. c \in Slots /\ task \in [Slots -> TaskStruct] /\ Reach \subseteq Slots
  BY ListFacts DEF IInv, TypeOK
<1>2. PICK tk : tk = Unlinked(c)
  OBVIOUS
<1>3. /\ DOMAIN tk = Slots /\ tk = [x \in Slots |-> tk[x]]
      /\ \A x \in Slots : tk[x] = IF x = c THEN Zeroed
                             ELSE IF x \in Reach /\ task[x].next = c
                                  THEN [task[x] EXCEPT !.next = task[c].next]
                                  ELSE task[x]
  BY <1>2 DEF Unlinked
<1>4. \A x \in Slots :
        /\ tk[x] \in TaskStruct
        /\ tk[x].next = IF x = c THEN NULL
                        ELSE IF x \in Reach /\ task[x].next = c
                             THEN task[c].next ELSE task[x].next
        /\ x = c => tk[x].regs = Wild /\ tk[x].entry = "none"
        /\ x # c => /\ tk[x].regs = task[x].regs /\ tk[x].state = task[x].state
                    /\ tk[x].entry = task[x].entry
  <2> SUFFICES ASSUME NEW x \in Slots
               PROVE  /\ tk[x] \in TaskStruct
                      /\ tk[x].next = IF x = c THEN NULL
                                      ELSE IF x \in Reach /\ task[x].next = c
                                           THEN task[c].next ELSE task[x].next
                      /\ x = c => tk[x].regs = Wild /\ tk[x].entry = "none"
                      /\ x # c => /\ tk[x].regs = task[x].regs
                                  /\ tk[x].state = task[x].state
                                  /\ tk[x].entry = task[x].entry
    OBVIOUS
  <2>1. CASE x = c
    BY <1>3, <2>1, RecordFacts
  <2>2. CASE x # c
    <3>1. task[x] \in TaskStruct /\ task[c] \in TaskStruct
      BY <1>1
    <3>2. task[c].next \in Slots \cup {NULL}
      BY <3>1 DEF TaskStruct
    <3>3. PICK z : z = task[c].next
      OBVIOUS
    <3>4. tk[x] = IF x \in Reach /\ task[x].next = c
                  THEN [task[x] EXCEPT !.next = z] ELSE task[x]
      BY <1>3, <2>2, <3>3
    <3>5. z \in Slots \cup {NULL}
      BY <3>2, <3>3
    <3>6. /\ tk[x] \in TaskStruct
          /\ tk[x].next = IF x \in Reach /\ task[x].next = c THEN z ELSE task[x].next
          /\ tk[x].regs = task[x].regs /\ tk[x].state = task[x].state
          /\ tk[x].entry = task[x].entry
      BY <3>1, <3>4, <3>5 DEF TaskStruct
    <3> QED BY <2>2, <3>3, <3>6
  <2> QED BY <2>1, <2>2
<1>5. tk \in [Slots -> TaskStruct]
  BY <1>3, <1>4
<1>6. ListOnly(tk)
  <2>1. ASSUME NEW v \in Slots, v \notin Reach
        PROVE  tk[v].next = task[v].next /\ tk[v].regs = task[v].regs
    BY <1>4, <2>1
  <2>2. \A x \in Slots : \/ tk[x].next = NULL
                         \/ \E y \in Slots : tk[x].next = task[y].next
    BY <1>1, <1>4
  <2> QED BY <2>1, <2>2 DEF ListOnly
<1> QED BY <1>2, <1>4, <1>5, <1>6

\* Reaping takes exactly the killed task off the list.
LEMMA CutList ==
  ASSUME IInv, nalloc > 0, UNCHANGED <<root_task, nalloc>>, stub' = stub,
         NEW c \in Reach, c # 1, c = current_task,
         freed' = freed \cup {c},
         \A x \in Slots : task'[x].next = Unlinked(c)[x].next
  PROVE  /\ Cut(Slots, Nx, Nx', NULL, 1, c)
         /\ (Reach)' = From(Slots, Nx', NULL, 1)
         /\ (Reach)' \subseteq Reach \ {c}
         /\ \A x \in Reach : x # c => x \in (Reach)'
         /\ \A x \in Reach : x # c =>
              \A y \in From(Slots, Nx, NULL, x) :
                y # c => y \in From(Slots, Nx', NULL, x)
         /\ InvNext' /\ freed' \subseteq 2..nalloc /\ (Reach)' \cap freed' = {}
<1>1. /\ root_task = 1 /\ 1 \in Slots /\ NULL \notin Slots
      /\ Reach = From(Slots, Nx, NULL, 1) /\ Reach \subseteq Slots /\ 1 \in Reach
      /\ Nx \in [Slots -> Slots \cup {NULL}]
      /\ \A x \in Slots : Nx[x] = task[x].next /\ Nx[x] # 1
      /\ Unshared(Slots, Nx, NULL)
  BY ListFacts
<1>2. \A x \in Slots : task'[x].next = IF x = c THEN NULL
                                      ELSE IF x \in Reach /\ task[x].next = c
                                           THEN task[c].next ELSE task[x].next
  BY UnlinkedFacts
<1>3. \A x \in Slots : Nx'[x] = task'[x].next
  BY DEF Nx
<1>4. Cut(Slots, Nx, Nx', NULL, 1, c)
  BY <1>1, <1>2, <1>3 DEF Cut
<1>5. (Reach)' = From(Slots, Nx', NULL, 1)
  BY <1>1, ReachIsList
<1>6. \A t \in Slots : Nx[t] \in Slots \cup {NULL} /\ Nx[t] # 1
  BY <1>1
<1>7. (Reach)' \subseteq Reach \ {c}
  <2>1. From(Slots, Nx', NULL, 1) \subseteq From(Slots, Nx, NULL, 1) \ {c}
    BY <1>1, <1>4, <1>6, CutRemoves
  <2> QED BY <1>1, <1>5, <2>1
<1>8. \A x \in Reach : x # c =>
        \A y \in From(Slots, Nx, NULL, x) : y # c => y \in From(Slots, Nx', NULL, x)
  BY <1>1, <1>4, <1>6, CutOrder
<1>9. \A x \in Reach : x # c => x \in (Reach)'
  BY <1>1, <1>5, <1>8
<1>10. InvNext'
  <2>1. \A x \in Slots : task'[x].next # 1 /\ task'[x].next <= nalloc
    <3>1. /\ c \in Slots /\ NULL <= nalloc /\ NULL # 1
          /\ \A x \in Slots : task[x].next # 1 /\ task[x].next <= nalloc
      BY <1>1 DEF IInv, InvNext, TypeOK, NULL
    <3> QED BY <1>2, <3>1
  <2>2. Unshared(Slots, Nx', NULL)
    BY <1>1, <1>4, <1>6, CutUnshared
  <2> QED BY <1>3, <2>1, <2>2 DEF InvNext, Unshared
<1>11. freed' \subseteq 2..nalloc
  BY <1>1 DEF IInv, InvRoot, InvReach, TypeOK
<1>12. (Reach)' \cap freed' = {}
  BY <1>7 DEF IInv, InvReach
<1> QED BY <1>4, <1>5, <1>7, <1>8, <1>9, <1>10, <1>11, <1>12

\* The context of the reaped task goes to its successor, which stands
\* before all that the reaped task stood before.
LEMMA CutInvOrder ==
  ASSUME IInv, nalloc > 0, UNCHANGED <<root_task, nalloc>>, stub' = stub,
         NEW c \in Reach, c # 1, c = current_task,
         freed' = freed \cup {c},
         \A x \in Slots : task'[x].next = Unlinked(c)[x].next,
         NEW t, t = NULL \/ t = task[c].next,
         Sources(t)
  PROVE  InvOrder'
<1>1. /\ (Reach)' \subseteq Reach \ {c} /\ NULL \notin Reach
      /\ \A x \in Reach : x # c =>
           \A y \in From(Slots, Nx, NULL, x) :
             y # c => y \in From(Slots, Nx', NULL, x)
  BY CutList, ListFacts
<1> SUFFICES ASSUME NEW i \in Ids', Ctx'[i].pc = "c_link",
                    Slot'[i] \in (Reach)', Ctx'[i].idk \in (Reach)'
             PROVE  Ctx'[i].idk \in From(Slots, Nx', NULL, Slot'[i])
  BY DEF InvOrder
<1>2. PICK k \in Ids : /\ Ctx'[i] = Ctx[k]
                       /\ \/ Slot'[i] = Slot[k]
                          \/ Slot[k] = c /\ Slot'[i] = t
  BY DEF Sources, Quiet
<1>3. PICK y : y = Ctx[k].idk /\ y = Ctx'[i].idk
  BY <1>2
<1>4. y \in Reach /\ y # c
  BY <1>1, <1>3
<1>5. CASE Slot'[i] = Slot[k]
  <2>1. Slot[k] \in Reach /\ Slot[k] # c
    BY <1>1, <1>5
  <2>2. y \in From(Slots, Nx, NULL, Slot[k])
    BY <1>2, <1>3, <1>4, <2>1 DEF IInv, InvOrder
  <2> QED BY <1>1, <1>3, <1>4, <1>5, <2>1, <2>2
<1>6. CASE Slot[k] = c /\ Slot'[i] = t
  <2>1. t \in Reach /\ t # c /\ t # NULL /\ t = task[c].next
    BY <1>1, <1>6
  <2>2. y \in From(Slots, Nx, NULL, c)
    BY <1>2, <1>3, <1>4, <1>6 DEF IInv, InvOrder
  <2>3. /\ c \in Slots /\ NULL \notin Slots /\ Nx[c] = t
        /\ \A x \in Slots : Nx[x] \in Slots \cup {NULL}
    BY <2>1, ListFacts
  <2>4. From(Slots, Nx, NULL, c) \subseteq {c} \cup From(Slots, Nx, NULL, t)
    BY <2>1, <2>3, ListUnfold
  <2>5. y \in From(Slots, Nx, NULL, t)
    BY <1>4, <2>2, <2>4
  <2> QED BY <1>1, <1>3, <1>4, <1>6, <2>1, <2>5
<1> QED BY <1>2, <1>5, <1>6

\* A tick that finds the current task killed.
LEMMA ReapStep ==
  ASSUME IInv, sched, SchedReap PROVE IInv'
<1>1. PICK c, t, tk : c = current_task /\ t = task[c].next /\ tk = Unlinked(c)
  OBVIOUS
<1>2. /\ nalloc > 0 /\ c \in Reach /\ c # 1 /\ task[c].state = "KILLED"
      /\ UNCHANGED <<stub, root_task, nextpid, nalloc>>
      /\ freed' = freed \cup {c}
      /\ SchedFrom(t, tk)
  BY <1>1 DEF IInv, InvRoot, InvReach, InvIdle, TypeOK, sched, SchedReap
<1>3. /\ tk \in [Slots -> TaskStruct] /\ ListOnly(tk)
      /\ \A x \in Slots :
           /\ x = c => tk[x].regs = Wild /\ tk[x].entry = "none" /\ tk[x].next = NULL
           /\ x # c => /\ tk[x].regs = task[x].regs /\ tk[x].state = task[x].state
                       /\ tk[x].entry = task[x].entry
  BY <1>1, <1>2, UnlinkedFacts
<1>4. /\ root_task = 1 /\ 1 \in Slots /\ NULL \notin Slots /\ Reach \subseteq Slots
      /\ t \in Slots \cup {NULL} /\ t # 1 /\ t # c
      /\ t # NULL => t \in Reach /\ tk[t].next \in (Slots \ {1}) \cup {NULL}
  <2>1. /\ root_task = 1 /\ 1 \in Slots /\ NULL \notin Slots /\ Reach \subseteq Slots
        /\ c \in From(Slots, Nx, NULL, 1) /\ Nx[c] = t
        /\ \A x \in Slots : Nx[x] \in Slots \cup {NULL} /\ Nx[x] # 1
        /\ Unshared(Slots, Nx, NULL)
        /\ Nx[c] # NULL => Nx[c] \in Reach
    BY <1>1, <1>2, ListFacts
  <2>2. Nx[c] # c
    BY <2>1, NoSelfLoop
  <2>3. t # NULL => tk[t].next \in (Slots \ {1}) \cup {NULL}
    <3>1. \A x \in Slots : task[x].next \in (Slots \ {1}) \cup {NULL}
      BY <1>2, <2>1, ListFacts
    <3> QED BY <1>1, <1>2, <2>1, <3>1, UnlinkedFacts
  <2>4. c \in Slots
    BY <1>2, <2>1
  <2> QED BY <2>1, <2>2, <2>3, <2>4
<1>5. TypeOK /\ freed' \subseteq Slots
  BY <1>2, <1>4 DEF IInv, TypeOK
\* What does not depend on how sched() goes on.
<1>6. ASSUME task' \in [Slots -> TaskStruct], cpu' \in Context,
             \A x \in Slots : task'[x].next = tk[x].next,
             InvWalks', InvMakes', InvIdle', InvFresh',
             cpu'.pc # "panic" => current_task' # NULL,
             current_task' # NULL => current_task' \in Reach /\ current_task' # c,
             Sources(t)
      PROVE  IInv'
  <2>1. \A x \in Slots : task'[x].next = Unlinked(c)[x].next
    BY <1>1, <1>6
  <2>2. /\ (Reach)' \subseteq Reach \ {c}
        /\ \A x \in Reach : x # c => x \in (Reach)'
        /\ InvNext' /\ freed' \subseteq 2..nalloc /\ (Reach)' \cap freed' = {}
    BY <1>1, <1>2, <2>1, CutList
  <2>3. InvOrder'
    BY <1>1, <1>2, <1>6, <2>1, CutInvOrder
  <2>4. InvReach'
    BY <1>2, <1>6, <2>2 DEF IInv, InvReach
  <2>5. InvRoot'
    BY <1>2, <1>6, <2>2 DEF IInv, InvRoot
  <2>6. TypeOK'
    BY <1>2, <1>4, <1>5, <1>6 DEF TypeOK
  <2> QED BY <1>6, <2>2, <2>3, <2>4, <2>5, <2>6 DEF IInv
<1>7. CASE t = NULL /\ Panic /\ task' = tk
  <2>1. cpu' \in Context /\ cpu'.pc = "panic" /\ cpu'.fn = cpu.fn /\ current_task' = NULL
    BY <1>5, <1>7 DEF Panic, TypeOK, Context, Labels
  <2>2. /\ Ids' = Slots \cup {NULL} /\ Ctx'[NULL] = cpu'
        /\ \A x \in Slots : /\ Ctx'[x] = tk[x].regs /\ Ctx[x] = task[x].regs
                            /\ Slot[x] = x /\ Slot'[x] = x
                            /\ x # c => x \in Ids
    BY <1>1, <1>4, <1>7, <2>1 DEF Ids, Ctx, Slot
  <2>3. Wild.pc = "wild" /\ Wild.fn = "none" /\ "wild" \in Quiet /\ "panic" \in Quiet
        /\ "wild" \notin Killing /\ "panic" \notin Killing
    BY RecordFacts DEF Quiet, Killing
  <2>4. \A i \in Ids' :
          \/ Ctx'[i].pc \in Quiet
          \/ i \in Ids /\ Ctx'[i] = Ctx[i] /\ Slot'[i] = Slot[i]
    BY <1>3, <2>1, <2>2, <2>3
  <2>5. InvWalks' /\ InvMakes'
    <3> DEFINE m == [i \in Slots \cup {NULL} |-> i]
    <3>1. \A i \in Ids' : m[i] = i
      BY <2>2
    <3>2. \A v \in Slots \ Reach : /\ task'[v].next = task[v].next
                                   /\ task'[v].regs = task[v].regs
      BY <1>3, <1>7 DEF ListOnly
    <3>3. \A x \in Slots : \/ task'[x].next = NULL
                           \/ \E y \in Slots : task'[x].next = task[y].next
      BY <1>3, <1>7 DEF ListOnly
    <3>4. freed' \subseteq freed \cup Reach
      BY <1>2
    <3> HIDE DEF m
    <3> QED BY <1>2, <2>4, <3>1, <3>2, <3>3, <3>4, Moved
  <2>6. InvIdle'
    <3>1. /\ \A i \in Slots \cup {NULL} : Ctx[i].fn \in Harmless => Ctx[i].pc \notin Killing
          /\ task[1].regs.fn \in Harmless /\ task[1].entry \in {"idle", "none"}
      BY DEF IInv, InvIdle
    <3>2. \A i \in Slots \cup {NULL} : Ctx'[i].fn \in Harmless => Ctx'[i].pc \notin Killing
      BY <1>3, <2>1, <2>2, <2>3, <3>1
    <3>3. task'[1].regs = task[1].regs /\ task'[1].entry = task[1].entry
      BY <1>2, <1>3, <1>4, <1>7
    <3> QED BY <2>1, <3>1, <3>2, <3>3 DEF InvIdle, NULL
  <2>7. InvFresh'
    BY <1>3, <1>7, <2>3 DEF IInv, InvFresh
  <2>8. Sources(t)
    BY <2>4 DEF Sources
  <2> QED BY <1>3, <1>6, <1>7, <2>1, <2>5, <2>6, <2>7, <2>8
<1>8. ASSUME t # NULL PROVE Prepared(tk, t) /\ freed' \subseteq freed \cup Reach
  BY <1>1, <1>2, <1>3, <1>4 DEF Prepared
<1>9. CASE t # NULL /\ tk[t].state = "CREATED" /\ Dispatch(t, tk)
  <2>1. /\ task' \in [Slots -> TaskStruct] /\ cpu' \in Context
        /\ current_task' = t
        /\ \A x \in Slots : task'[x].next = tk[x].next
        /\ InvWalks' /\ InvMakes' /\ InvIdle' /\ InvFresh' /\ Sources(t)
    BY <1>2, <1>3, <1>4, <1>8, <1>9, DispatchMoves
  <2> QED BY <1>4, <1>6, <1>9, <2>1
<1>10. CASE t # NULL /\ Rotate(t, tk)
  <2>1. /\ task' \in [Slots -> TaskStruct] /\ cpu' \in Context
        /\ current_task' = IF tk[t].next = NULL THEN 1 ELSE tk[t].next
        /\ current_task' \in Slots
        /\ \A x \in Slots : task'[x].next = tk[x].next
        /\ InvWalks' /\ InvMakes' /\ InvIdle' /\ InvFresh' /\ Sources(t)
    BY <1>2, <1>3, <1>4, <1>8, <1>10, RotateMoves
  <2>2. current_task' \in Reach /\ current_task' # c
    <3>1. 1 \in Reach /\ \A x \in Reach : task[x].next # NULL => task[x].next \in Reach
      BY <1>2, ListFacts
    <3>2. /\ c \in Slots /\ t \in Reach
          /\ task[t].next = c => t = c \/ tk[t].next = t
          /\ task[t].next # c => tk[t].next = task[t].next
      BY <1>1, <1>2, <1>4, <1>10, UnlinkedFacts
    <3> QED BY <1>2, <1>4, <1>10, <2>1, <3>1, <3>2
  <2> QED BY <1>4, <1>6, <2>1, <2>2
<1> QED BY <1>2, <1>7, <1>9, <1>10 DEF SchedFrom

-----------------------------------------------------------------------------
\* Every step preserves the invariant.
LEMMA StepIInv == IInv /\ [Next]_vars => IInv'
<1> SUFFICES ASSUME IInv, [Next]_vars PROVE IInv'
  OBVIOUS
<1>1. CASE sched_init
  BY <1>1, InitSchedStep
<1>2. CASE sched_start
  BY <1>2, StartStep
<1>3. ASSUME NEW e \in Spawned \cup {"krnl_sched"}, create_task(e) PROVE IInv'
  BY <1>3, CreateStepLemma
<1>4. CASE CreateStep
  BY <1>4, TakePidStep, StepPidStep, ReadRootStep, WalkStep, LinkStep DEF CreateStep
<1>5. ASSUME NEW p \in Killable, kill_task(p) PROVE IInv'
  BY <1>5, KillCallStep
<1>6. CASE KillStep
  BY <1>6, KillWalkStep, KillMarkStep DEF KillStep
<1>7. CASE syscall_int
  BY <1>7, ExitStep
<1>8. CASE sched
  BY <1>8, LiveStep, ReapStep DEF sched
<1>9. CASE UNCHANGED vars
  <2>1. UNCHANGED <<stub, root_task, current_task, nextpid, nalloc, freed, task, cpu>>
    BY <1>9 DEF vars
  <2>2. Ids' = Ids /\ Ctx' = Ctx /\ Slot' = Slot /\ Nx' = Nx /\ (Reach)' = Reach
    BY <2>1 DEF Ids, Ctx, Slot, Nx, Reach, ReachFrom, Closed
  <2>3. TypeOK' /\ InvRoot' /\ InvNext' /\ InvReach'
    BY <2>1, <2>2 DEF IInv, TypeOK, InvRoot, InvNext, InvReach
  <2>4. InvMakes' /\ InvWalks' /\ InvOrder'
    BY <2>1, <2>2 DEF IInv, InvMakes, InvWalks, InvOrder
  <2>5. InvIdle' /\ InvFresh'
    BY <2>1, <2>2 DEF IInv, InvIdle, InvFresh
  <2> QED BY <2>3, <2>4, <2>5 DEF IInv
<1> QED BY <1>1, <1>2, <1>3, <1>4, <1>5, <1>6, <1>7, <1>8, <1>9 DEF Next, Halted

\* The invariant holds in every reachable state.
LEMMA Invariance == Spec => []IInv
<1> QED BY InitIInv, StepIInv, PTL DEF Spec

(***************************************************************************)
(* Every variable keeps its type, for any number of tasks: what sched()    *)
(* saves, restores and clears always is a whole context, and every next    *)
(* pointer is NULL or the address of a task_struct.                        *)
(***************************************************************************)
THEOREM TypeCorrect == Spec => []TypeOK
<1>1. IInv => TypeOK
  BY DEF IInv
<1> QED BY <1>1, Invariance, PTL

(***************************************************************************)
(* No freed task_struct can be reached from root_task, and current_task is *)
(* on the list, wherever create_task() and kill_task() are interrupted and *)
(* whoever exits: idle cannot be reaped, and an interrupted creator links  *)
(* only structs that nobody else knows.                                    *)
(***************************************************************************)
THEOREM ReaperSafe == Spec => []NoUseAfterFree
<1>1. IInv => NoUseAfterFree
  <2> SUFFICES ASSUME IInv PROVE NoUseAfterFree
    OBVIOUS
  <2>1. nalloc > 0 => root_task \in Live
    BY DEF IInv, InvRoot, TypeOK, Live
  <2> QED BY <2>1 DEF IInv, InvReach, NoUseAfterFree
<1> QED BY <1>1, Invariance, PTL

-----------------------------------------------------------------------------
(***************************************************************************)
(* At most one task is RUNNING.                                            *)
(***************************************************************************)
InvRuns == \A t \in Slots : task[t].state = "RUNNING" => t = current_task

\* sched() marks the task it switches to, and has unmarked all others before.
LEMMA SchedFromRuns ==
  ASSUME IInv, nalloc > 0, root_task' = root_task,
         NEW tk \in [Slots -> TaskStruct], NEW t \in Slots \cup {NULL}, SchedFrom(t, tk),
         \A x \in Slots : tk[x].state = "RUNNING" => x = t
  PROVE  InvRuns'
<1>1. root_task = 1 /\ 1 \in Slots /\ NULL \notin Slots /\ cpu \in Context
  BY SlotFacts DEF IInv, InvRoot, TypeOK
<1>2. CASE t = NULL /\ Panic /\ task' = tk
  BY <1>1, <1>2 DEF InvRuns
<1>3. CASE t # NULL /\ Dispatch(t, tk)
  <2>1. /\ current_task' = t
        /\ \A x \in Slots : task'[x].state = IF x = t THEN "RUNNING" ELSE tk[x].state
    BY <1>3, DispatchFacts
  <2> QED BY <2>1 DEF InvRuns
<1>4. CASE t # NULL /\ Rotate(t, tk)
  <2>1. PICK a \in Slots :
          /\ current_task' = a
          /\ \A x \in Slots : task'[x].state = IF x = a THEN "RUNNING"
                                               ELSE IF x = t THEN "PENDING" ELSE tk[x].state
    BY <1>1, <1>4, RotateFacts
  <2> QED BY <2>1 DEF InvRuns
<1> QED BY <1>2, <1>3, <1>4 DEF SchedFrom

\* What the steps of create_task() after the allocation leave alone.
LEMMA CreateKeeps ==
  ASSUME IInv, CreateStep
  PROVE  /\ UNCHANGED <<stub, root_task, current_task, nalloc, freed>>
         /\ cpu.pc \in Creating /\ cpu'.pc \in Creating \cup {"run"}
         /\ cpu'.owner = cpu.owner /\ cpu'.fn = cpu.fn
         /\ cpu'.pc \in Creating => cpu'.new = cpu.new
         /\ \A x \in Slots : /\ task'[x].state = task[x].state
                             /\ task'[x].regs = task[x].regs
                             /\ task'[x].entry = task[x].entry
<1>1. /\ task \in [Slots -> TaskStruct] /\ cpu \in Context
  BY DEF IInv, TypeOK
<1>2. CASE CreateTakePid
  <2>1. cpu' = [cpu EXCEPT !.pc = "c_inc"] /\ cpu.pc \in Creating
    BY <1>2 DEF CreateTakePid, Creating
  <2>2. \A x \in Slots : /\ task'[x].state = task[x].state
                        /\ task'[x].regs = task[x].regs
                        /\ task'[x].entry = task[x].entry
    BY <1>1, <1>2 DEF CreateTakePid, TaskStruct
  <2> QED BY <1>1, <1>2, <2>1, <2>2 DEF CreateTakePid, Context, Creating
<1>3. CASE CreateStepPid \/ CreateReadRoot \/ CreateWalk
  <2>1. /\ UNCHANGED <<stub, root_task, current_task, nalloc, freed, task>>
        /\ cpu.pc \in Creating
    BY <1>3 DEF CreateStepPid, CreateReadRoot, CreateWalk, Creating
  <2>2. /\ cpu'.pc \in Creating /\ cpu'.owner = cpu.owner /\ cpu'.fn = cpu.fn
        /\ cpu'.new = cpu.new
    BY <1>1, <1>3 DEF CreateStepPid, CreateReadRoot, CreateWalk, Context, Creating
  <2> QED BY <2>1, <2>2
<1>4. CASE CreateLink
  <2>1. cpu' = Returned(cpu) /\ cpu.pc \in Creating
    BY <1>4 DEF CreateLink, Creating
  <2>2. cpu'.owner = cpu.owner /\ cpu'.fn = cpu.fn /\ cpu'.pc = "run"
    BY <1>1, <2>1 DEF Returned, Context
  <2>3. \A x \in Slots : /\ task'[x].state = task[x].state
                        /\ task'[x].regs = task[x].regs
                        /\ task'[x].entry = task[x].entry
    BY <1>1, <1>4 DEF CreateLink, TaskStruct
  <2> QED BY <1>4, <2>1, <2>2, <2>3 DEF CreateLink, Creating
<1> QED BY <1>2, <1>3, <1>4 DEF CreateStep

LEMMA RunsStep == IInv /\ InvRuns /\ [Next]_vars => InvRuns'
<1> SUFFICES ASSUME IInv, InvRuns, [Next]_vars PROVE InvRuns'
  OBVIOUS
<1> USE SlotFacts
<1>1. task \in [Slots -> TaskStruct]
  BY DEF IInv, TypeOK
<1>2. CASE sched_init
  <2>1. current_task = NULL
    BY <1>2 DEF IInv, InvRoot, sched_init
  <2>2. \A x \in Slots : task'[x].state = "CREATED" \/ task'[x] = task[x]
    BY <1>1, <1>2, RecordFacts DEF sched_init
  <2> QED BY <2>1, <2>2 DEF InvRuns
<1>3. ASSUME NEW e \in Spawned \cup {"krnl_sched"}, create_task(e) PROVE InvRuns'
  <2>1. \A x \in Slots : task'[x].state = "CREATED" \/ task'[x] = task[x]
    BY <1>1, <1>3, RecordFacts DEF create_task
  <2> QED BY <1>3, <2>1 DEF InvRuns, create_task
<1>4. CASE CreateStep
  BY <1>4, CreateKeeps DEF InvRuns
<1>5. CASE KillStep \/ syscall_int
  <2>1. current_task' = current_task
    BY <1>5 DEF KillStep, KillWalk, KillMark, syscall_int
  <2>2. \A x \in Slots : task'[x].state = task[x].state \/ task'[x].state = "KILLED"
    BY <1>5, MarkFacts DEF IInv, KillStep, KillWalk, KillMark, syscall_int
  <2> QED BY <2>1, <2>2 DEF InvRuns
<1>6. CASE UNCHANGED <<current_task, task>>
  BY <1>6 DEF InvRuns
<1>7. CASE sched
  <2>1. /\ nalloc > 0 /\ root_task' = root_task
        /\ current_task \in Reach /\ current_task \in Slots
    BY <1>7, ListFacts DEF IInv, InvRoot, InvReach, TypeOK, sched
  <2>2. CASE SchedLive
    BY <1>1, <2>1, <2>2, SchedFromRuns DEF SchedLive, InvRuns
  <2>3. CASE SchedReap
    <3>1. PICK c, t, tk : c = current_task /\ t = task[c].next /\ tk = Unlinked(c)
      OBVIOUS
    <3>2. c # 1 /\ t \in Slots \cup {NULL} /\ SchedFrom(t, tk)
      BY <1>1, <2>1, <2>3, <3>1 DEF IInv, InvIdle, SchedReap, TaskStruct
    <3>3. tk \in [Slots -> TaskStruct]
      BY <2>1, <3>1, <3>2, UnlinkedFacts
    <3>4. \A x \in Slots : x # c => tk[x].state = task[x].state
      BY <2>1, <3>1, <3>2, UnlinkedFacts
    <3>5. tk[c].state = "CREATED"
      BY <2>1, <3>1, RecordFacts DEF Unlinked
    <3>6. \A x \in Slots : tk[x].state # "RUNNING"
      BY <3>1, <3>4, <3>5 DEF InvRuns
    <3> QED BY <2>1, <3>2, <3>3, <3>6, SchedFromRuns
  <2> QED BY <1>7, <2>2, <2>3 DEF sched
<1> QED
  <2>1. CASE UNCHANGED vars
    BY <1>6, <2>1 DEF vars
  <2>2. CASE sched_start \/ Halted
    BY <1>6, <2>2 DEF sched_start, Halted, vars
  <2>3. CASE \E p \in Killable : kill_task(p)
    BY <1>6, <2>3 DEF kill_task
  <2> QED BY <1>2, <1>3, <1>4, <1>5, <1>7, <2>1, <2>2, <2>3 DEF Next

(***************************************************************************)
(* sched() marks a task RUNNING when it gives it the CPU and unmarks it    *)
(* when it takes the CPU away, whatever is created, killed and reaped in   *)
(* between: only current_task is ever RUNNING.                             *)
(***************************************************************************)
THEOREM OneTaskRuns == Spec => []OneRunning
<1>1. Init => InvRuns
  BY RecordFacts DEF Init, InvRuns
<1>2. IInv /\ IInv' /\ InvRuns /\ [Next]_vars => InvRuns'
  BY RunsStep
<1>3. IInv /\ InvRuns => OneRunning
  BY SlotFacts DEF InvRuns, OneRunning, Live
<1> QED BY <1>1, <1>2, <1>3, Invariance, PTL DEF Spec

-----------------------------------------------------------------------------
\* No code of krnl.cpp kills a task or makes system call 0.
NoKills == Killers = {} /\ Exiters = {}

\* krnl_sched() is the only task that creates tasks, and Kernel::Main starts it once.
OneCreator == Creators \subseteq {"krnl_sched"} /\ "krnl_sched" \notin Spawned

-----------------------------------------------------------------------------
(***************************************************************************)
(* The inductive invariant.                                                *)
(***************************************************************************)
\* Nothing is killed and nothing is reaped.
InvAlive ==
  /\ freed = {}
  /\ \A t \in Slots : task[t].state # "KILLED"
  /\ \A i \in Slots \cup {NULL} : Ctx[i].pc \notin Killing \cup {"panic"}

\* A context is saved in the struct of its owner.  The first tick overwrites the context
\* of Kernel::Main, which owns none and stands in no call then.
InvOwner ==
  /\ \A t \in Slots \ {current_task} : task[t].state # "CREATED" => task[t].regs.owner = t
  /\ cpu.owner = IF current_task = NULL \/ task[current_task].state = "CREATED"
                 THEN NULL ELSE current_task
  /\ cpu.owner = NULL => cpu.fn = "boot" /\ \A t \in Slots : task[t].state = "CREATED"
  /\ stub = "sched" /\ cpu.owner = NULL => cpu.pc = "run" /\ nalloc >= 2

\* A tick that reaps nothing: the first one starts the task that is current, the others
\* save the context of the current task and go on with the next one of the list.
LEMMA TickFacts ==
  ASSUME IInv, InvAlive, sched
  PROVE  /\ nalloc > 0 /\ current_task \in Reach /\ stub = "sched"
         /\ UNCHANGED <<stub, root_task, nextpid, nalloc, freed>>
         /\ \A x \in Slots : /\ task'[x].next = task[x].next /\ task'[x].pid = task[x].pid
                             /\ task'[x].entry = task[x].entry
         /\ \/ /\ task[current_task].state = "CREATED" /\ current_task' = current_task
               /\ \A x \in Slots :
                    /\ task'[x].regs = task[x].regs
                    /\ task'[x].state = IF x = current_task THEN "RUNNING" ELSE task[x].state
               /\ cpu'.pc = "run" /\ cpu'.owner = current_task
               /\ cpu'.fn = task[current_task].entry
            \/ /\ task[current_task].state # "CREATED"
               /\ current_task' \in Reach
               /\ current_task' = IF task[current_task].next = NULL THEN 1
                                  ELSE task[current_task].next
               /\ \A x \in Slots :
                    /\ task'[x].regs = IF x = current_task THEN cpu ELSE task[x].regs
                    /\ task'[x].state = IF x = current_task' THEN "RUNNING"
                                        ELSE IF x = current_task THEN "PENDING"
                                        ELSE task[x].state
               /\ \/ current_task' = current_task /\ cpu' = cpu
                  \/ /\ current_task' # current_task
                     /\ task[current_task'].state = "CREATED"
                     /\ cpu'.pc = "run" /\ cpu'.owner = current_task'
                     /\ cpu'.fn = task[current_task'].entry
                  \/ /\ current_task' # current_task
                     /\ task[current_task'].state # "CREATED"
                     /\ cpu' = task[current_task'].regs
<1>1. /\ nalloc > 0 /\ current_task \in Reach /\ current_task \in Slots /\ stub = "sched"
      /\ UNCHANGED <<stub, root_task, nextpid, nalloc>>
      /\ task \in [Slots -> TaskStruct] /\ cpu \in Context /\ current_task # NULL
  BY ListFacts DEF IInv, InvRoot, InvReach, TypeOK, sched
<1>2. SchedLive /\ freed' = freed
  BY <1>1 DEF InvAlive, sched, SchedLive, SchedReap
<1>3. CASE task[current_task].state = "CREATED" /\ Dispatch(current_task, task)
  BY <1>1, <1>2, <1>3, DispatchFacts
<1>4. CASE task[current_task].state # "CREATED" /\ Rotate(current_task, task)
  <2>1. PICK a \in Slots :
          /\ a = IF task[current_task].next = NULL THEN 1 ELSE task[current_task].next
          /\ current_task' = a
          /\ \A x \in Slots :
               /\ task'[x].next = task[x].next /\ task'[x].entry = task[x].entry
               /\ task'[x].pid = task[x].pid
               /\ task'[x].regs = IF x = current_task THEN cpu ELSE task[x].regs
               /\ task'[x].state = IF x = a THEN "RUNNING"
                                   ELSE IF x = current_task THEN "PENDING" ELSE task[x].state
          /\ \/ a = current_task /\ cpu' = cpu
             \/ a # current_task /\ task[a].state = "CREATED"
                /\ cpu'.pc = "run" /\ cpu'.fn = task[a].entry /\ cpu'.owner = a
             \/ a # current_task /\ task[a].state # "CREATED" /\ cpu' = task[a].regs
    BY <1>1, <1>4, RotateFacts, ListFacts
  <2>2. a \in Reach
    BY <1>1, <2>1, ListFacts
  <2> QED BY <1>1, <1>2, <1>4, <2>1, <2>2
<1> QED BY <1>1, <1>2, <1>3, <1>4 DEF SchedLive, SchedFrom

\* A new struct that nobody owns a context of.
LEMMA FreshFacts ==
  ASSUME IInv, NEW e \in Spawned \cup {"krnl_sched"}, create_task(e)
  PROVE  /\ nalloc > 0 /\ nalloc' = nalloc + 1 /\ nalloc + 1 \in Slots
         /\ nalloc + 1 # current_task /\ nalloc + 1 \notin Reach
         /\ UNCHANGED <<stub, root_task, current_task, nextpid, freed>>
         /\ task'[nalloc + 1] = [Zeroed EXCEPT !.entry = e]
         /\ \A x \in Slots : x # nalloc + 1 => task'[x] = task[x]
         /\ cpu'.owner = cpu.owner /\ cpu'.fn = cpu.fn
         /\ cpu'.pc = "c_pid" /\ cpu'.new = nalloc + 1
<1>1. nalloc \in Nat /\ nalloc < MaxTasks /\ MaxTasks \in Nat
  BY MaxTasksAssumption DEF IInv, TypeOK, create_task
<1>2. nalloc > 0
  BY <1>1, EntryAssumption DEF IInv, InvRoot, create_task, MayCreate, Entries
<1>3. PICK w : w = nalloc + 1
  OBVIOUS
<1>4. w \in Slots /\ w \notin 1..nalloc /\ w # NULL
  BY <1>1, <1>3 DEF Slots, NULL
<1>5. w # current_task /\ w \notin Reach
  BY <1>4 DEF IInv, InvReach
<1>6. task'[w] = [Zeroed EXCEPT !.entry = e] /\ \A x \in Slots : x # w => task'[x] = task[x]
  BY <1>3, <1>4 DEF IInv, TypeOK, create_task
<1>7. cpu' = [cpu EXCEPT !.pc = "c_pid", !.new = w] /\ cpu \in Context
  BY <1>3 DEF IInv, TypeOK, create_task
<1>8. /\ cpu'.owner = cpu.owner /\ cpu'.fn = cpu.fn
      /\ cpu'.pc = "c_pid" /\ cpu'.new = w
  BY <1>7 DEF Context
<1> QED BY <1>2, <1>3, <1>4, <1>5, <1>6, <1>8 DEF create_task

LEMMA OwnerInit == Init => InvAlive /\ InvOwner
<1> SUFFICES ASSUME Init PROVE InvAlive /\ InvOwner
  OBVIOUS
<1>1. /\ \A t \in Slots : task[t].state = "CREATED" /\ task[t].regs.pc = "wild"
      /\ cpu.pc = "run" /\ cpu.fn = "boot" /\ cpu.owner = NULL
      /\ current_task = NULL /\ freed = {} /\ stub = "timer"
  BY RecordFacts DEF Init, Entered
<1>2. \A i \in Slots \cup {NULL} : Ctx[i].pc \in {"run", "wild"}
  BY <1>1 DEF Ctx
<1> QED BY <1>1, <1>2 DEF InvAlive, InvOwner, Killing

\* Only sched() moves contexts, and it moves them to and from their owners.
LEMMA OwnerStep ==
  ASSUME NoKills, IInv, InvAlive, InvOwner, [Next]_vars
  PROVE  InvAlive' /\ InvOwner'
<1> USE SlotFacts
<1>1. /\ \A i \in Slots : Ctx[i] = task[i].regs /\ Ctx'[i] = task'[i].regs
      /\ Ctx[NULL] = cpu /\ Ctx'[NULL] = cpu'
  BY DEF Ctx
<1>2. /\ freed = {} /\ cpu.pc \notin Killing \cup {"panic"}
      /\ \A t \in Slots : task[t].state # "KILLED"
      /\ \A t \in Slots : task[t].regs.pc \notin Killing \cup {"panic"}
  BY <1>1 DEF InvAlive
<1>3. CASE sched_init
  <2>1. current_task = NULL /\ nalloc = 0 /\ stub = "timer"
    BY <1>3 DEF IInv, InvRoot, sched_init
  <2>2. /\ UNCHANGED <<stub, freed, cpu>> /\ current_task' = 1
        /\ \A t \in Slots : t # 1 => task'[t] = task[t]
        /\ task'[1].state = "CREATED" /\ task'[1].regs = Wild
    BY <1>3, RecordFacts DEF IInv, TypeOK, sched_init
  <2>3. InvAlive'
    BY <1>1, <1>2, <2>2, RecordFacts DEF InvAlive, Killing
  <2> QED BY <2>1, <2>2, <2>3 DEF InvOwner
<1>4. ASSUME NEW e \in Spawned \cup {"krnl_sched"}, create_task(e)
      PROVE  InvAlive' /\ InvOwner'
  <2>1. PICK w \in Slots :
          /\ w = nalloc + 1 /\ w # current_task
          /\ UNCHANGED <<stub, current_task, freed>>
          /\ task'[w] = [Zeroed EXCEPT !.entry = e]
          /\ \A x \in Slots : x # w => task'[x] = task[x]
          /\ cpu'.owner = cpu.owner /\ cpu'.fn = cpu.fn /\ cpu'.pc = "c_pid"
    BY <1>4, FreshFacts
  <2>2. task'[w].state = "CREATED" /\ task'[w].regs = Wild
    BY <2>1, RecordFacts
  <2>3. InvAlive'
    <3>1. \A t \in Slots : /\ task'[t].state # "KILLED"
                          /\ task'[t].regs.pc \notin Killing \cup {"panic"}
      <4>1. Wild.pc \notin Killing \cup {"panic"}
        BY RecordFacts DEF Killing
      <4>2. ASSUME NEW t \in Slots
            PROVE  /\ task'[t].state # "KILLED"
                   /\ task'[t].regs.pc \notin Killing \cup {"panic"}
        <5>1. CASE t = w
          BY <2>2, <4>1, <5>1
        <5>2. CASE t # w
          BY <1>2, <2>1, <5>2
        <5> QED BY <5>1, <5>2
      <4> QED BY <4>2
    <3>2. cpu'.pc \notin Killing \cup {"panic"}
      BY <2>1 DEF Killing
    <3> QED BY <1>1, <1>2, <2>1, <3>1, <3>2 DEF InvAlive
  <2>4. ~ (stub = "sched" /\ cpu.owner = NULL)
    <3>1. "boot" \notin Creators
      BY EntryAssumption DEF Entries
    <3> QED BY <1>4, <3>1 DEF InvOwner, create_task, MayCreate
  <2>5. current_task # NULL => current_task \in Slots
    BY DEF IInv, TypeOK
  <2>6. \A t \in Slots : task'[t].state # "CREATED" => t # w /\ task'[t] = task[t]
    BY <2>1, <2>2
  <2>7. InvOwner'
    <3>1. \A t \in Slots \ {current_task} : task[t].state # "CREATED" => task[t].regs.owner = t
      BY DEF InvOwner
    <3>2. \A t \in Slots \ {current_task'} : task'[t].state # "CREATED" => task'[t].regs.owner = t
      BY <2>1, <2>6, <3>1
    <3>3. current_task # NULL => current_task # w /\ task'[current_task] = task[current_task]
      BY <2>1, <2>5
    <3>4. cpu'.owner = IF current_task' = NULL \/ task'[current_task'].state = "CREATED"
                         THEN NULL ELSE current_task'
      BY <2>1, <3>3 DEF InvOwner
    <3>5. cpu'.owner = NULL => cpu'.fn = "boot" /\ \A t \in Slots : task'[t].state = "CREATED"
      BY <2>1, <2>6 DEF InvOwner
    <3>6. ~ (stub' = "sched" /\ cpu'.owner = NULL)
      BY <2>1, <2>4
    <3> QED BY <3>2, <3>4, <3>5, <3>6 DEF InvOwner
  <2> QED BY <2>3, <2>7
<1>5. CASE CreateStep
  <2>1. InvAlive'
    BY <1>1, <1>2, <1>5, CreateKeeps DEF InvAlive, Creating, Killing
  <2>2. cpu.pc # "run"
    BY <1>5, CreateKeeps DEF Creating
  <2>3. current_task # NULL => current_task \in Slots
    BY DEF IInv, TypeOK
  <2> QED BY <1>5, <2>1, <2>2, <2>3, CreateKeeps DEF InvOwner
<1>6. CASE KillStep \/ syscall_int \/ (\E p \in Killable : kill_task(p))
  BY <1>2, <1>6 DEF NoKills, KillStep, KillWalk, KillMark, syscall_int, kill_task, Killing
<1>7. CASE sched_start
  BY <1>2, <1>7 DEF sched_start, InvAlive, InvOwner, Ctx
<1>8. CASE UNCHANGED vars
  BY <1>8 DEF vars, InvAlive, InvOwner, Ctx
<1>9. CASE sched
  <2>1. current_task \in Slots /\ current_task' \in Slots /\ UNCHANGED <<stub, nalloc, freed>>
    BY <1>9, TickFacts, ListFacts
  <2>2. cpu'.pc \notin Killing \cup {"panic"} /\ cpu'.owner = current_task'
    BY <1>2, <1>9, <2>1, TickFacts DEF InvOwner, Killing
  <2>3. /\ \A t \in Slots : task'[t].state # "KILLED"
        /\ \A t \in Slots : task'[t].regs.pc \notin Killing \cup {"panic"}
    BY <1>2, <1>9, TickFacts
  <2>4. InvAlive'
    BY <1>1, <1>2, <2>1, <2>2, <2>3 DEF InvAlive
  <2>5. task'[current_task'].state = "RUNNING"
    BY <1>9, <2>1, TickFacts
  <2>6. \A t \in Slots \ {current_task'} :
          task'[t].state # "CREATED" => task'[t].regs.owner = t
    BY <1>9, <2>1, TickFacts DEF InvOwner
  <2> QED BY <2>1, <2>2, <2>4, <2>5, <2>6 DEF InvOwner
<1> QED BY <1>3, <1>4, <1>5, <1>6, <1>7, <1>8, <1>9 DEF Next, Halted

-----------------------------------------------------------------------------
(***************************************************************************)
(* At most one context is inside create_task().                            *)
(***************************************************************************)
\* Task 2 is krnl_sched, and whoever is inside create_task() executes its code or that of
\* Kernel::Main.
Role(c) ==
  /\ c.fn = "krnl_sched" => c.owner = 2
  /\ c.fn = "boot" => c.owner = NULL
  /\ c.pc \in Creating => c.fn \in {"boot", "krnl_sched"}

InvRole ==
  /\ \A t \in Slots : task[t].entry = "krnl_sched" => t = 2
  /\ Role(cpu) /\ \A t \in Slots : Role(task[t].regs)

\* The contexts that are inside create_task().
Makers == {Ctx[i] : i \in {j \in Ids : Ctx[j].pc \in Creating}}

LEMMA OneMaker ==
  ASSUME IInv, InvOwner, InvRole, NEW i \in Ids, NEW j \in Ids,
         Ctx[i].pc \in Creating, Ctx[j].pc \in Creating
  PROVE  i = j
<1> USE SlotFacts
<1>1. Ctx[NULL] = cpu /\ NULL \in Ids
  BY DEF Ids, Ctx
<1>2. ASSUME NEW k \in Ids, Ctx[k].pc \in Creating, k # NULL
      PROVE  k \in Slots /\ k = 2 /\ k # current_task /\ task[k].state # "CREATED"
  <2>1. k \in Slots /\ k # current_task /\ Ctx[k] = task[k].regs
    BY <1>2 DEF Ids, Ctx
  <2>2. task[k].state # "CREATED"
    BY <1>2, <2>1 DEF IInv, InvFresh, Creating
  <2>3. Ctx[k].owner = k /\ Role(Ctx[k])
    BY <2>1, <2>2 DEF InvOwner, InvRole
  <2> QED BY <1>2, <2>1, <2>2, <2>3 DEF Role
<1>3. ASSUME NEW k \in Ids, Ctx[k].pc \in Creating, k # NULL, cpu.pc \in Creating
      PROVE  FALSE
  <2>1. k = 2 /\ k \in Slots /\ k # current_task /\ task[k].state # "CREATED"
    BY <1>2, <1>3
  <2>2. cpu.owner # NULL
    BY <2>1 DEF InvOwner
  <2>3. cpu.owner = current_task
    BY <2>2 DEF InvOwner
  <2>4. cpu.owner = 2
    BY <1>3, <2>2 DEF InvRole, Role
  <2> QED BY <2>1, <2>3, <2>4
<1> QED BY <1>1, <1>2, <1>3

\* If the CPU is inside create_task(), no saved context is.
LEMMA SoleMaker ==
  ASSUME IInv, InvOwner, InvRole, cpu.pc \in Creating
  PROVE  /\ Makers = {cpu}
         /\ \A t \in Slots : t # current_task => task[t].regs.pc \notin Creating
<1>1. NULL \in Ids /\ Ctx[NULL] = cpu /\ NULL \notin Slots
  BY SlotFacts DEF Ids, Ctx
<1>2. \A j \in Ids : Ctx[j].pc \in Creating => j = NULL
  BY <1>1, OneMaker
<1>3. Makers = {cpu}
  BY <1>1, <1>2 DEF Makers
<1>4. ASSUME NEW t \in Slots, t # current_task PROVE task[t].regs.pc \notin Creating
  <2>1. t \in Ids /\ Ctx[t] = task[t].regs /\ t # NULL
    BY <1>1, <1>4 DEF Ids, Ctx
  <2> QED BY <1>2, <2>1
<1> QED BY <1>3, <1>4

LEMMA RoleInit == Init => InvRole
<1> SUFFICES ASSUME Init PROVE InvRole
  OBVIOUS
<1>1. /\ \A t \in Slots : task[t].regs = Wild /\ task[t].entry = "none"
      /\ cpu = Entered(NULL, "boot")
  BY RecordFacts DEF Init
<1>2. Role(Wild) /\ Role(Entered(NULL, "boot"))
  BY DEF Role, Wild, Entered, Creating
<1> QED BY <1>1, <1>2 DEF InvRole

\* A tick moves the contexts that are inside create_task(), and nothing else happens to
\* them.
LEMMA TickMakers ==
  ASSUME IInv, InvAlive, InvOwner, sched
  PROVE  /\ \A i \in Ids' : Ctx'[i].pc \in Creating => \E k \in Ids : Ctx'[i] = Ctx[k]
         /\ Makers' = Makers
<1> USE SlotFacts
<1>1. /\ current_task \in Slots /\ current_task' \in Slots /\ stub = "sched"
      /\ NULL \in Ids /\ NULL \in Ids' /\ "run" \notin Creating /\ "wild" \notin Creating
      /\ \A x \in Slots : /\ Ctx[x] = task[x].regs /\ Ctx'[x] = task'[x].regs
                          /\ x \in Ids <=> x # current_task
                          /\ x \in Ids' <=> x # current_task'
      /\ Ctx[NULL] = cpu /\ Ctx'[NULL] = cpu'
      /\ Ids \subseteq Slots \cup {NULL} /\ Ids' \subseteq Slots \cup {NULL}
  BY TickFacts, ListFacts DEF Ids, Ctx, Creating
<1>2. ASSUME NEW i \in Ids', Ctx'[i].pc \in Creating PROVE \E k \in Ids : Ctx'[i] = Ctx[k]
  BY <1>1, <1>2, TickFacts
<1>3. ASSUME NEW k \in Ids, Ctx[k].pc \in Creating PROVE \E i \in Ids' : Ctx'[i] = Ctx[k]
  <2>1. CASE task[current_task].state = "CREATED"
    <3>1. cpu.pc = "run"
      BY <1>1, <2>1 DEF InvOwner
    <3>2. k \in Slots /\ k # current_task
      BY <1>1, <1>3, <3>1
    <3>3. current_task' = current_task /\ task'[k].regs = task[k].regs
      BY <2>1, <3>2, TickFacts
    <3> QED BY <1>1, <3>2, <3>3
  <2>2. CASE task[current_task].state # "CREATED"
    <3>1. CASE k = NULL
      BY <1>1, <2>2, <3>1, TickFacts
    <3>2. CASE k = current_task' /\ k # NULL
      <4>1. k \in Slots /\ k # current_task /\ task[k].regs.pc \in Creating
        BY <1>1, <1>3, <3>2
      <4>2. task[k].state # "CREATED"
        BY <1>1, <4>1 DEF IInv, InvFresh
      <4>3. cpu' = task[k].regs
        BY <2>2, <3>2, <4>1, <4>2, TickFacts
      <4> QED BY <1>1, <3>2, <4>3
    <3>3. CASE k # current_task' /\ k # NULL
      <4>1. k \in Slots /\ k # current_task
        BY <1>1, <3>3
      <4>2. task'[k].regs = task[k].regs
        BY <2>2, <4>1, TickFacts
      <4> QED BY <1>1, <3>3, <4>1, <4>2
    <3> QED BY <3>1, <3>2, <3>3
  <2> QED BY <2>1, <2>2
<1>4. Makers' = {Ctx'[i] : i \in {j \in Ids' : Ctx'[j].pc \in Creating}}
  BY DEF Makers
<1>5. \A c : c \in Makers' => c \in Makers
  BY <1>2, <1>4 DEF Makers
<1>6. \A c : c \in Makers => c \in Makers'
  BY <1>3, <1>4 DEF Makers
<1> QED BY <1>2, <1>5, <1>6

\* Steps of the executing code: the other contexts stay where they are.
LEMMA MakersAfter ==
  ASSUME \A t \in Slots : t # current_task' => task'[t].regs.pc \notin Creating,
         NULL \notin Slots
  PROVE  Makers' = IF cpu'.pc \in Creating THEN {cpu'} ELSE {}
<1>1. Makers' = {Ctx'[i] : i \in {j \in Ids' : Ctx'[j].pc \in Creating}}
  BY DEF Makers
<1>2. /\ Ids' = (Slots \ {current_task'}) \cup {NULL} /\ Ctx'[NULL] = cpu'
      /\ \A t \in Slots : Ctx'[t] = task'[t].regs
  BY DEF Ids, Ctx
<1>3. \A i \in Ids' : Ctx'[i].pc \in Creating => i = NULL
  BY <1>2
<1> QED BY <1>1, <1>2, <1>3

\* Nobody else calls create_task().
LEMMA RoleStep ==
  ASSUME NoKills, OneCreator, IInv, InvAlive, InvOwner, InvRole, [Next]_vars
  PROVE  InvRole'
<1> USE SlotFacts
<1>1. /\ Role(cpu) /\ \A t \in Slots : Role(task[t].regs)
      /\ \A t \in Slots : task[t].entry = "krnl_sched" => t = 2
      /\ Role(Wild) /\ "boot" \notin Entries \cup {"none"} /\ "run" \notin Creating
      /\ \A t \in Slots : task[t].entry # "boot"
  <2>1. Role(Wild) /\ "run" \notin Creating
    BY DEF Role, Wild, Entered, Creating
  <2>2. "boot" \notin Entries \cup {"none"}
    BY EntryAssumption DEF Entries
  <2>3. \A t \in Slots : task[t].entry \in Entries \cup {"none"}
    BY DEF IInv, TypeOK, TaskStruct
  <2> QED BY <2>1, <2>2, <2>3 DEF InvRole
<1>2. CASE sched_init
  <2>1. /\ cpu' = cpu /\ \A t \in Slots : t # 1 => task'[t] = task[t]
        /\ task'[1].entry = "idle" /\ task'[1].regs = Wild
    <3>1. task'[1] = [Zeroed EXCEPT !.entry = "idle", !.pid = nextpid]
      BY <1>2 DEF IInv, TypeOK, sched_init
    <3>2. \A t \in Slots : t # 1 => task'[t] = task[t]
      BY <1>2 DEF IInv, TypeOK, sched_init
    <3>3. cpu' = cpu
      BY <1>2 DEF sched_init
    <3> QED BY <3>1, <3>2, <3>3, RecordFacts DEF TaskStruct
  <2>2. \A t \in Slots : Role(task'[t].regs)
    BY <1>1, <2>1
  <2>3. \A t \in Slots : task'[t].entry = "krnl_sched" => t = 2
    BY <1>1, <2>1
  <2> QED BY <1>1, <2>1, <2>2, <2>3 DEF InvRole
<1>3. ASSUME NEW e \in Spawned \cup {"krnl_sched"}, create_task(e) PROVE InvRole'
  <2>1. PICK w \in Slots :
          /\ w = nalloc + 1 /\ task'[w] = [Zeroed EXCEPT !.entry = e]
          /\ \A x \in Slots : x # w => task'[x] = task[x]
          /\ cpu'.owner = cpu.owner /\ cpu'.fn = cpu.fn
    BY <1>3, FreshFacts
  <2>2. task'[w].entry = e /\ task'[w].regs = Wild
    BY <2>1, RecordFacts DEF TaskStruct
  <2>3. e = "krnl_sched" => w = 2
    BY <1>3, <2>1 DEF OneCreator, create_task, MayCreate
  <2>4. cpu.fn \in {"boot", "krnl_sched"}
    BY <1>3 DEF OneCreator, create_task, MayCreate
  <2>5. Role(cpu')
    BY <1>1, <2>1, <2>4 DEF Role
  <2>6. \A t \in Slots : Role(task'[t].regs)
    BY <1>1, <2>1, <2>2
  <2>7. \A t \in Slots : task'[t].entry = "krnl_sched" => t = 2
    BY <1>1, <2>1, <2>2, <2>3
  <2> QED BY <2>5, <2>6, <2>7 DEF InvRole
<1>4. CASE CreateStep
  <2>1. Role(cpu')
    BY <1>1, <1>4, CreateKeeps DEF Role
  <2> QED BY <1>1, <1>4, <2>1, CreateKeeps DEF InvRole
<1>5. CASE KillStep \/ syscall_int \/ (\E p \in Killable : kill_task(p))
  BY <1>5 DEF NoKills, InvAlive, Ctx, KillStep, KillWalk, KillMark, syscall_int, kill_task,
              Killing
<1>6. CASE UNCHANGED <<cpu, task>>
  BY <1>1, <1>6 DEF InvRole
<1>7. CASE sched
  <2>1. current_task \in Slots /\ current_task' \in Slots
    BY <1>7, TickFacts, ListFacts
  <2>2. \A t \in Slots : Role(task'[t].regs)
    BY <1>1, <1>7, TickFacts
  <2>3. \/ \E t \in Slots : cpu'.pc = "run" /\ cpu'.owner = t /\ cpu'.fn = task[t].entry
        \/ cpu' = cpu \/ \E t \in Slots : cpu' = task[t].regs
    BY <1>7, <2>1, TickFacts
  <2>4. Role(cpu')
    BY <1>1, <2>3 DEF Role
  <2>5. \A t \in Slots : task'[t].entry = task[t].entry
    BY <1>7, TickFacts
  <2> QED BY <1>1, <2>2, <2>4, <2>5 DEF InvRole
<1> QED
  <2>1. CASE UNCHANGED vars \/ sched_start \/ Halted
    BY <1>6, <2>1 DEF vars, sched_start, Halted
  <2> QED BY <1>2, <1>3, <1>4, <1>5, <1>7, <2>1 DEF Next

-----------------------------------------------------------------------------
(***************************************************************************)
(* The list and the pids.                                                  *)
(***************************************************************************)
\* A task is on the list or still known to its creator, whose walk is on the list and
\* has ended at the tail when it links.
InvListed ==
  /\ \A t \in 1..nalloc : t \in Reach \/ \E c \in Makers : c.new = t
  /\ \A c \in Makers : c.pc \in Walking => c.idk \in Reach
  /\ \A c \in Makers : c.pc = "c_link" => task[c.idk].next = NULL

\* nextpid is beyond every pid in use; a creator between its read and its write holds the
\* only copy of it.
InvPids ==
  /\ UniquePids
  /\ \A t \in Reach : task[t].pid < nextpid
  /\ \A c \in Makers :
       /\ c.pc = "c_inc" => task[c.new].pid = nextpid
       /\ c.pc \in {"c_root"} \cup Walking =>
            /\ task[c.new].pid < nextpid
            /\ \A t \in Reach : task[t].pid # task[c.new].pid

\* What holds of the context that is inside create_task().
LEMMA MakerFacts ==
  ASSUME IInv, InvOwner, InvRole, InvListed, InvPids, cpu.pc \in Creating
  PROVE  /\ nalloc > 0 /\ cpu.new \in Slots \ Reach /\ cpu.new # 1
         /\ cpu.new \notin freed /\ task[cpu.new].next = NULL
         /\ \A x \in Slots : task[x].next # cpu.new
         /\ cpu.pc \in Walking => cpu.idk \in Reach /\ cpu.idk # cpu.new
         /\ cpu.pc = "c_link" => task[cpu.idk].next = NULL
         /\ cpu.pc = "c_inc" => task[cpu.new].pid = nextpid
         /\ cpu.pc \in {"c_root"} \cup Walking =>
              /\ task[cpu.new].pid < nextpid
              /\ \A t \in Reach : task[t].pid # task[cpu.new].pid
         /\ \A t \in 1..nalloc : t \in Reach \/ t = cpu.new
<1>1. Makers = {cpu} /\ NULL \in Ids /\ Ctx[NULL] = cpu
  BY SoleMaker DEF Ids, Ctx
<1>2. /\ cpu.new \in 2..nalloc /\ cpu.new \notin freed /\ task[cpu.new].next = NULL
      /\ \A x \in Slots : task[x].next # cpu.new
      /\ cpu.pc \in Walking => cpu.idk # cpu.new
  BY <1>1 DEF IInv, InvMakes
<1>3. cpu.new \in Slots \ Reach /\ nalloc > 0
  BY <1>1, NewUnreachable, SlotFacts
<1>4. cpu.new # 1
  BY <1>2
<1> QED BY <1>1, <1>2, <1>3, <1>4 DEF InvListed, InvPids

\* The list is the same as long as the next pointers of its tasks are.
LEMMA SameList ==
  ASSUME IInv, IInv', nalloc > 0, root_task' = root_task,
         \A x \in Reach : task'[x].next = task[x].next
  PROVE  (Reach)' = Reach
<1>1. /\ root_task = 1 /\ 1 \in Slots /\ NULL \notin Slots
      /\ Reach = From(Slots, Nx, NULL, 1) /\ Reach \subseteq Slots
      /\ \A x \in Slots : Nx[x] = task[x].next
  BY ListFacts
<1>2. (Reach)' = From(Slots, Nx', NULL, 1)
  BY <1>1, ReachIsList
<1>3. \A x \in Slots : /\ Nx[x] \in Slots \cup {NULL} /\ Nx'[x] \in Slots \cup {NULL}
                       /\ Nx'[x] = task'[x].next
  BY DEF IInv, TypeOK, TaskStruct, Nx
<1>4. \A x \in From(Slots, Nx, NULL, 1) : Nx'[x] = Nx[x]
  BY <1>1, <1>3
<1>5. From(Slots, Nx', NULL, 1) = From(Slots, Nx, NULL, 1)
  BY <1>1, <1>3, <1>4, ListSameOn
<1> QED BY <1>1, <1>2, <1>5

\* create_task() appends to the list.
LEMMA Appended ==
  ASSUME IInv, IInv', InvOwner, InvRole, InvListed, InvPids, CreateLink
  PROVE  /\ nalloc > 0 /\ cpu.idk \in Reach /\ cpu.new \in Slots \ Reach
         /\ cpu.idk # cpu.new /\ task[cpu.idk].next = NULL /\ task[cpu.new].next = NULL
         /\ Linked(Slots, Nx, Nx', cpu.idk, cpu.new)
         /\ (Reach)' = Reach \cup {cpu.new}
         /\ \A x \in Slots : task'[x].pid = task[x].pid
<1> PICK w, p : w = cpu.new /\ p = cpu.idk
  OBVIOUS
<1>1. cpu.pc = "c_link" /\ cpu.pc \in Creating /\ cpu.pc \in Walking
  BY DEF CreateLink, Creating, Walking
<1>2. /\ nalloc > 0 /\ p \in Reach /\ w \in Slots \ Reach /\ p # w
      /\ task[p].next = NULL /\ task[w].next = NULL
  BY <1>1, MakerFacts
<1>3. /\ root_task = 1 /\ 1 \in Slots /\ NULL \notin Slots
      /\ Reach = From(Slots, Nx, NULL, 1) /\ Reach \subseteq Slots
      /\ \A x \in Slots : Nx[x] = task[x].next
      /\ root_task' = 1
  BY <1>2, ListFacts DEF CreateLink
<1>4. /\ task' = [task EXCEPT ![p].next = w] /\ task \in [Slots -> TaskStruct]
  BY DEF CreateLink, IInv, TypeOK
<1>5. \A x \in Slots : /\ task'[x].next = IF x = p THEN w ELSE task[x].next
                       /\ task'[x].pid = task[x].pid
  BY <1>2, <1>3, <1>4 DEF TaskStruct
<1>6. \A x \in Slots : /\ Nx[x] \in Slots \cup {NULL} /\ Nx'[x] \in Slots \cup {NULL}
                       /\ Nx'[x] = task'[x].next
  BY DEF IInv, TypeOK, TaskStruct, Nx
<1>7. Linked(Slots, Nx, Nx', p, w)
  BY <1>3, <1>5, <1>6 DEF Linked
<1>8. (Reach)' = From(Slots, Nx', NULL, 1)
  BY <1>3, ReachIsList
<1>9. Nx[p] = NULL /\ Nx[w] = NULL /\ p \in Slots
  BY <1>2, <1>3
<1>10. From(Slots, Nx', NULL, 1) = From(Slots, Nx, NULL, 1) \cup {w}
  BY <1>2, <1>3, <1>6, <1>7, <1>9, LinkTail
<1> QED BY <1>2, <1>3, <1>5, <1>7, <1>8, <1>10

\* A step of create_task() before the link.
LEMMA BuildStep ==
  ASSUME IInv, IInv', InvOwner, InvRole, InvListed, InvPids,
         CreateTakePid \/ CreateStepPid \/ CreateReadRoot \/ CreateWalk
  PROVE  (Reach)' = Reach /\ InvListed' /\ InvPids'
<1> USE SlotFacts
<1>1. CreateStep /\ UNCHANGED <<root_task, current_task, nalloc>>
  BY DEF CreateStep, CreateTakePid, CreateStepPid, CreateReadRoot, CreateWalk
<1>2. /\ task \in [Slots -> TaskStruct] /\ cpu \in Context /\ nextpid \in Nat
      /\ \A t \in Slots : task[t].pid \in Nat
  BY DEF IInv, TypeOK, TaskStruct
<1>3. /\ cpu.pc \in Creating /\ cpu'.pc \in Creating /\ cpu'.new = cpu.new
      /\ \A x \in Slots : task'[x].next = task[x].next /\ task'[x].regs = task[x].regs
  <2>1. \A x \in Slots : task'[x].next = task[x].next
    BY <1>2 DEF CreateTakePid, CreateStepPid, CreateReadRoot, CreateWalk, TaskStruct
  <2>2. cpu'.pc \in Creating
    BY <1>2 DEF CreateTakePid, CreateStepPid, CreateReadRoot, CreateWalk, Context, Creating
  <2> QED BY <1>1, <2>1, <2>2, CreateKeeps
<1>4. PICK w \in Slots \ Reach : w = cpu.new /\ nalloc > 0
  BY <1>3, MakerFacts
<1>5. (Reach)' = Reach /\ Reach \subseteq Slots /\ root_task = 1 /\ 1 \in Reach
  <2>1. Reach \subseteq Slots /\ root_task = 1 /\ 1 \in Reach
    BY <1>4, ListFacts
  <2> QED BY <1>1, <1>3, <1>4, <2>1, SameList
<1>6. Makers' = {cpu'} /\ Makers = {cpu}
  <2>1. Makers = {cpu} /\ \A t \in Slots : t # current_task => task[t].regs.pc \notin Creating
    BY <1>3, SoleMaker
  <2> QED BY <1>1, <1>3, <2>1, MakersAfter
<1>7. cpu'.pc \in Walking => cpu'.idk \in Reach
  <2>1. CASE CreateTakePid \/ CreateStepPid
    <3>1. cpu'.pc \notin Walking
      BY <1>2, <2>1 DEF CreateTakePid, CreateStepPid, Walking, Context
    <3> QED BY <3>1
  <2>2. CASE CreateReadRoot
    <3>1. cpu'.idk = root_task
      BY <1>2, <2>2 DEF CreateReadRoot, Context
    <3> QED BY <1>5, <3>1
  <2>3. CASE CreateWalk
    <3>1. cpu.pc \in Walking
      BY <2>3 DEF CreateWalk, Walking
    <3>2. cpu.idk \in Reach
      BY <1>3, <3>1, MakerFacts
    <3>3. task[cpu.idk].next # NULL => task[cpu.idk].next \in Reach
      BY <1>4, <3>2, ListFacts
    <3>4. cpu'.idk = cpu.idk \/ (cpu'.idk = task[cpu.idk].next /\ task[cpu.idk].next # NULL)
      <4>1. PICK n : n = task[cpu.idk].next
        OBVIOUS
      <4>2. \/ n # NULL /\ cpu' = [cpu EXCEPT !.idk = n]
            \/ n = NULL /\ cpu' = [cpu EXCEPT !.pc = "c_link"]
        BY <2>3, <4>1 DEF CreateWalk
      <4> QED BY <1>2, <4>1, <4>2 DEF Context
    <3> QED BY <3>2, <3>3, <3>4
  <2> QED BY <2>1, <2>2, <2>3
<1>8. cpu'.pc = "c_link" => task'[cpu'.idk].next = NULL
  <2> SUFFICES ASSUME cpu'.pc = "c_link" PROVE task'[cpu'.idk].next = NULL
    OBVIOUS
  <2>1. CreateWalk
    BY <1>2 DEF CreateTakePid, CreateStepPid, CreateReadRoot, Context
  <2>2. PICK n : n = task[cpu.idk].next
    OBVIOUS
  <2>3. \/ n # NULL /\ cpu' = [cpu EXCEPT !.idk = n]
        \/ n = NULL /\ cpu' = [cpu EXCEPT !.pc = "c_link"]
    BY <2>1, <2>2 DEF CreateWalk
  <2>4. n = NULL /\ cpu'.idk = cpu.idk /\ cpu.pc = "c_walk"
    BY <1>2, <2>1, <2>3 DEF CreateWalk, Context
  <2> QED BY <2>1, <2>2, <2>4 DEF CreateWalk
<1>9. InvListed'
  <2>1. \A t \in 1..nalloc' : t \in (Reach)' \/ t = cpu'.new
    BY <1>1, <1>3, <1>5, MakerFacts
  <2> QED BY <1>5, <1>6, <1>7, <1>8, <2>1 DEF InvListed
<1>10. ASSUME \A t \in Reach : task'[t].pid = task[t].pid, nextpid' >= nextpid, nextpid' \in Nat,
              cpu'.pc = "c_inc" => task'[w].pid = nextpid',
              cpu'.pc \in {"c_root"} \cup Walking =>
                task'[w].pid < nextpid' /\ \A t \in Reach : task'[t].pid # task'[w].pid
       PROVE  InvPids'
  <2>1. \A t \in Reach : task'[t].pid < nextpid'
    BY <1>2, <1>5, <1>10 DEF InvPids
  <2>2. \A t, u \in Reach : task'[t].pid = task'[u].pid => t = u
    BY <1>10 DEF InvPids, UniquePids
  <2>3. UniquePids'
    BY <1>5, <2>2 DEF UniquePids
  <2> QED BY <1>3, <1>4, <1>5, <1>6, <1>10, <2>1, <2>3 DEF InvPids
<1>11. CASE CreateTakePid
  <2>1. task' = [task EXCEPT ![w].pid = nextpid] /\ nextpid' = nextpid
    BY <1>4, <1>11 DEF CreateTakePid
  <2>2. task'[w].pid = nextpid /\ \A t \in Reach : task'[t].pid = task[t].pid
    BY <1>2, <1>4, <1>5, <2>1 DEF TaskStruct
  <2>3. cpu'.pc = "c_inc"
    BY <1>2, <1>11 DEF CreateTakePid, Context
  <2>4. cpu'.pc \notin {"c_root"} \cup Walking
    BY <2>3 DEF Walking
  <2>5. nextpid' >= nextpid /\ nextpid' \in Nat
    BY <1>2, <2>1
  <2> QED BY <1>5, <1>9, <1>10, <2>1, <2>2, <2>4, <2>5
<1>12. CASE CreateStepPid
  <2>1. /\ task' = task /\ nextpid' = task[w].pid + 1 /\ cpu.pc = "c_inc"
        /\ cpu'.pc = "c_root"
    BY <1>2, <1>4, <1>12 DEF CreateStepPid, Context
  <2>2. task[w].pid = nextpid
    BY <1>3, <1>4, <2>1, MakerFacts
  <2>3. \A t \in Reach : task[t].pid < nextpid
    BY DEF InvPids
  <2>4. \A t \in Reach : task[t].pid # task[w].pid
    BY <1>2, <1>5, <2>2, <2>3
  <2>5. nextpid' >= nextpid /\ nextpid' \in Nat /\ task'[w].pid < nextpid'
    BY <1>2, <2>1, <2>2
  <2>6. cpu'.pc # "c_inc"
    BY <2>1
  <2>7. \A t \in Reach : task'[t].pid = task[t].pid /\ task'[t].pid # task'[w].pid
    BY <2>1, <2>4
  <2> QED BY <1>5, <1>9, <1>10, <2>5, <2>6, <2>7
<1>13. CASE CreateReadRoot \/ CreateWalk
  <2>1. /\ task' = task /\ nextpid' = nextpid /\ cpu.pc \in {"c_root"} \cup Walking
    BY <1>13 DEF CreateReadRoot, CreateWalk, Walking
  <2>2. cpu'.pc # "c_inc"
    BY <1>2, <1>13 DEF CreateReadRoot, CreateWalk, Context
  <2>3. task[w].pid < nextpid /\ \A t \in Reach : task[t].pid # task[w].pid
    BY <1>3, <1>4, <2>1, MakerFacts
  <2>4. nextpid' >= nextpid /\ nextpid' \in Nat /\ task'[w].pid < nextpid'
    BY <1>2, <2>1, <2>3
  <2>5. \A t \in Reach : task'[t].pid = task[t].pid /\ task'[t].pid # task'[w].pid
    BY <2>1, <2>3
  <2> QED BY <1>5, <1>9, <1>10, <2>2, <2>4, <2>5
<1> QED BY <1>5, <1>9, <1>11, <1>12, <1>13

\* A creator that enters create_task() finds nobody else in it.
LEMMA AloneToCreate ==
  ASSUME OneCreator, IInv, InvOwner, InvRole,
         NEW e \in Spawned \cup {"krnl_sched"}, create_task(e)
  PROVE  Makers = {} /\ \A t \in Slots : t # current_task => task[t].regs.pc \notin Creating
<1> USE SlotFacts
<1>1. cpu.pc = "run" /\ cpu.fn \in {"boot", "krnl_sched"} /\ "run" \notin Creating
  BY DEF OneCreator, create_task, MayCreate, Creating
<1>2. ASSUME NEW t \in Slots, t # current_task, task[t].regs.pc \in Creating PROVE FALSE
  <2>1. task[t].state # "CREATED"
    BY <1>2 DEF IInv, InvFresh, Creating
  <2>2. task[t].regs.owner = t /\ Role(task[t].regs)
    BY <1>2, <2>1 DEF InvOwner, InvRole
  <2>3. t = 2
    BY <1>2, <2>2 DEF Role
  <2>4. cpu.owner # NULL
    BY <2>1 DEF InvOwner
  <2>5. cpu.owner = 2
    BY <1>1, <2>4 DEF InvRole, Role
  <2>6. cpu.owner = current_task
    BY <2>4 DEF InvOwner
  <2> QED BY <1>2, <2>3, <2>5, <2>6
<1>3. Ids = (Slots \ {current_task}) \cup {NULL} /\ Ctx[NULL] = cpu
      /\ \A t \in Slots : Ctx[t] = task[t].regs
  BY DEF Ids, Ctx
<1>4. \A i \in Ids : Ctx[i].pc \notin Creating
  BY <1>1, <1>2, <1>3
<1>5. Makers = {}
  BY <1>4 DEF Makers
<1> QED BY <1>2, <1>5

\* A creator that has just allocated a struct: nothing else changes.
LEMMA CreateFacts ==
  ASSUME OneCreator, IInv, IInv', InvOwner, InvRole,
         NEW e \in Spawned \cup {"krnl_sched"}, create_task(e)
  PROVE  \E w \in Slots \ Reach :
           /\ w = nalloc + 1 /\ nalloc > 0 /\ nalloc' = nalloc + 1
           /\ UNCHANGED <<root_task, current_task, nextpid>>
           /\ \A x \in Reach : task'[x] = task[x]
           /\ cpu'.pc = "c_pid" /\ cpu'.new = w /\ cpu'.owner = cpu.owner
           /\ (Reach)' = Reach /\ Makers = {} /\ Makers' = {cpu'}
<1> USE SlotFacts
<1>1. PICK w \in Slots \ Reach :
        /\ w = nalloc + 1 /\ nalloc > 0 /\ nalloc' = nalloc + 1 /\ w # current_task
        /\ UNCHANGED <<root_task, current_task, nextpid>>
        /\ task'[w] = [Zeroed EXCEPT !.entry = e]
        /\ \A x \in Slots : x # w => task'[x] = task[x]
        /\ cpu'.pc = "c_pid" /\ cpu'.new = w /\ cpu'.owner = cpu.owner
  BY FreshFacts
<1>2. Reach \subseteq Slots
  BY <1>1, ListFacts
<1>3. \A x \in Reach : task'[x] = task[x]
  BY <1>1, <1>2
<1>4. (Reach)' = Reach
  BY <1>1, <1>3, SameList
<1>5. Makers = {} /\ \A t \in Slots : t # current_task => task[t].regs.pc \notin Creating
  BY AloneToCreate
<1>6. Makers' = {cpu'}
  <2>1. task'[w].regs.pc = "wild"
    BY <1>1, RecordFacts
  <2>2. \A t \in Slots : t # current_task' => task'[t].regs.pc \notin Creating
    BY <1>1, <1>5, <2>1 DEF Creating
  <2> QED BY <1>1, <2>2, MakersAfter DEF Creating
<1> QED BY <1>1, <1>3, <1>4, <1>5, <1>6

LEMMA CreateListed ==
  ASSUME OneCreator, IInv, IInv', InvOwner, InvRole, InvListed, InvPids,
         NEW e \in Spawned \cup {"krnl_sched"}, create_task(e)
  PROVE  InvListed' /\ InvPids'
<1> USE SlotFacts
<1>1. PICK w \in Slots \ Reach :
        /\ w = nalloc + 1 /\ nalloc > 0 /\ nalloc' = nalloc + 1
        /\ UNCHANGED <<root_task, current_task, nextpid>>
        /\ \A x \in Reach : task'[x] = task[x]
        /\ cpu'.pc = "c_pid" /\ cpu'.new = w
        /\ (Reach)' = Reach /\ Makers = {} /\ Makers' = {cpu'}
  BY CreateFacts
<1>2. cpu'.pc \notin Walking /\ cpu'.pc \notin {"c_inc", "c_root", "c_link"}
  BY <1>1 DEF Walking
<1>3. \A t \in 1..nalloc' : t \in 1..nalloc \/ t = w
  BY <1>1 DEF IInv, TypeOK
<1>4. InvListed'
  BY <1>1, <1>2, <1>3 DEF InvListed
<1>5. UniquePids' /\ \A t \in (Reach)' : task'[t].pid < nextpid'
  BY <1>1 DEF InvPids, UniquePids
<1> QED BY <1>1, <1>2, <1>4, <1>5 DEF InvPids

\* The end of create_task(): nobody is in it any more.
LEMMA NoMakerLeft ==
  ASSUME IInv, IInv', InvOwner, InvRole, CreateLink
  PROVE  Makers' = {} /\ Makers = {cpu}
<1>1. cpu.pc \in Creating /\ cpu'.pc = "run"
  <2>1. cpu.pc = "c_link" /\ cpu' = Returned(cpu) /\ cpu \in Context
    BY DEF CreateLink, IInv, TypeOK
  <2> QED BY <2>1 DEF Returned, Context, Creating
<1>2. current_task' = current_task /\ \A x \in Slots : task'[x].regs = task[x].regs
  BY CreateKeeps DEF CreateStep
<1>3. Makers = {cpu} /\ \A t \in Slots : t # current_task => task[t].regs.pc \notin Creating
  BY <1>1, SoleMaker
<1> QED BY <1>1, <1>2, <1>3, SlotFacts, MakersAfter DEF Creating

LEMMA LinkListed ==
  ASSUME IInv, IInv', InvOwner, InvRole, InvListed, InvPids, CreateLink
  PROVE  InvListed' /\ InvPids'
<1> USE SlotFacts
<1>1. cpu.pc \in Creating /\ cpu.pc \in Walking
  BY DEF CreateLink, Creating, Walking
<1>2. nalloc' = nalloc
  BY DEF CreateLink
<1>3. Makers' = {}
  BY NoMakerLeft
<1>4. PICK w \in Slots \ Reach :
        w = cpu.new /\ (Reach)' = Reach \cup {w} /\ \A x \in Slots : task'[x].pid = task[x].pid
  BY Appended
<1>5. Reach \subseteq Slots /\ nextpid' = nextpid
  BY Appended, ListFacts DEF CreateLink
<1>6. /\ task[w].pid < nextpid /\ \A t \in Reach : task[t].pid # task[w].pid
      /\ \A t \in 1..nalloc : t \in Reach \/ t = w
  BY <1>1, <1>4, MakerFacts
<1>7. InvListed'
  BY <1>2, <1>3, <1>4, <1>6 DEF InvListed
<1>8. \A t \in (Reach)' : t \in Slots /\ task'[t].pid < nextpid'
  BY <1>4, <1>5, <1>6 DEF InvPids
<1>9. UniquePids'
  BY <1>4, <1>5, <1>6 DEF UniquePids, InvPids
<1> QED BY <1>3, <1>7, <1>8, <1>9 DEF InvPids

\* The list of idle alone.
LEMMA IdleFacts ==
  ASSUME IInv, IInv', InvOwner, sched_init
  PROVE  /\ nalloc = 0 /\ nalloc' = 1 /\ root_task' = 1 /\ current_task' = 1
         /\ cpu' = cpu /\ nextpid \in Nat /\ nextpid' = nextpid + 1
         /\ task'[1].pid = nextpid /\ task'[1].next = NULL
         /\ (Reach)' = {1} /\ Makers' = {}
<1> USE SlotFacts
<1>1. /\ nalloc = 0 /\ nalloc' = 1 /\ root_task' = 1 /\ current_task' = 1
      /\ current_task = NULL /\ cpu' = cpu /\ cpu.pc = "run"
      /\ nextpid \in Nat /\ nextpid' = nextpid + 1
  BY DEF IInv, InvRoot, sched_init, TypeOK
<1>2. \A x \in Slots : x # 1 => task'[x] = task[x]
  BY DEF IInv, TypeOK, sched_init
<1>3. task'[1].pid = nextpid /\ task'[1].next = NULL
  <2>1. task'[1] = [Zeroed EXCEPT !.entry = "idle", !.pid = nextpid]
    BY DEF IInv, TypeOK, sched_init
  <2> QED BY <2>1, RecordFacts DEF TaskStruct
<1>4. Makers' = {}
  <2>1. \A t \in Slots : task[t].state = "CREATED"
    BY <1>1 DEF InvOwner
  <2>2. \A t \in Slots : t # current_task' => task'[t].regs.pc \notin Creating
    BY <1>1, <1>2, <2>1 DEF IInv, InvFresh, Creating
  <2> QED BY <1>1, <2>2, MakersAfter DEF Creating
<1>5. (Reach)' = {1}
  <2>1. 1 \in (Reach)' /\ (Reach)' = From(Slots, Nx', NULL, 1)
    BY <1>1, ReachIsList, ListHead
  <2>2. ClosedUnder(Slots, Nx', NULL, {1})
    BY <1>3 DEF ClosedUnder, Nx
  <2>3. (Reach)' \subseteq {1}
    BY <2>1, <2>2, ListWithin
  <2> QED BY <2>1, <2>3
<1> QED BY <1>1, <1>3, <1>4, <1>5

LEMMA IdleListed ==
  ASSUME IInv, IInv', InvOwner, sched_init
  PROVE  InvListed' /\ InvPids'
<1>1. InvListed'
  BY IdleFacts DEF InvListed
<1>2. UniquePids' /\ \A t \in (Reach)' : task'[t].pid < nextpid'
  BY IdleFacts DEF UniquePids
<1> QED BY <1>1, <1>2, IdleFacts DEF InvPids

\* A tick changes neither the list, nor a pid, nor where a creator stands.
LEMMA TickListed ==
  ASSUME IInv, IInv', InvAlive, InvOwner, InvListed, InvPids, sched
  PROVE  InvListed' /\ InvPids'
<1> USE SlotFacts
<1>1. /\ nalloc > 0 /\ UNCHANGED <<root_task, nextpid, nalloc>>
      /\ \A x \in Slots : task'[x].next = task[x].next /\ task'[x].pid = task[x].pid
  BY TickFacts
<1>2. Reach \subseteq Slots
  BY <1>1, ListFacts
<1>3. (Reach)' = Reach
  BY <1>1, <1>2, SameList
<1>4. Makers' = Makers
  BY TickMakers
<1>5. \A c \in Makers : c.new \in Slots /\ (c.pc = "c_link" => c.idk \in Slots)
  <2>1. \A c \in Makers : c.new \in 2..nalloc
    BY DEF Makers, IInv, InvMakes
  <2>2. \A c \in Makers : c.pc = "c_link" => c.idk \in Reach
    BY DEF InvListed, Walking
  <2>3. 2..nalloc \subseteq Slots
    BY DEF IInv, TypeOK, Slots
  <2> QED BY <1>2, <2>1, <2>2, <2>3
<1>6. InvListed'
  BY <1>1, <1>3, <1>4, <1>5 DEF InvListed
<1>7. UniquePids' /\ \A t \in (Reach)' : task'[t].pid < nextpid'
  BY <1>1, <1>2, <1>3 DEF InvPids, UniquePids
<1>8. \A c \in Makers' :
        /\ c.pc = "c_inc" => task'[c.new].pid = nextpid'
        /\ c.pc \in {"c_root"} \cup Walking =>
             /\ task'[c.new].pid < nextpid'
             /\ \A t \in (Reach)' : task'[t].pid # task'[c.new].pid
  BY <1>1, <1>2, <1>3, <1>4, <1>5 DEF InvPids
<1> QED BY <1>6, <1>7, <1>8 DEF InvPids

LEMMA ListedInit == Init => InvListed /\ InvPids
<1> SUFFICES ASSUME Init PROVE InvListed /\ InvPids
  OBVIOUS
<1>1. /\ nalloc = 0 /\ root_task = NULL /\ cpu.pc = "run"
      /\ \A t \in Slots : task[t].regs.pc = "wild"
  BY RecordFacts DEF Init, Entered
<1>2. \A i \in Ids : Ctx[i].pc \notin Creating
  BY <1>1 DEF Ids, Ctx, Creating
<1>3. Makers = {}
  BY <1>2 DEF Makers
<1>4. Reach = {}
  BY <1>1 DEF Reach, ReachFrom
<1>5. 1..nalloc = {}
  BY <1>1
<1> QED BY <1>3, <1>4, <1>5 DEF InvListed, InvPids, UniquePids

LEMMA ListedStep ==
  ASSUME NoKills, OneCreator, IInv, IInv', InvAlive, InvOwner, InvRole, InvListed, InvPids,
         [Next]_vars
  PROVE  InvListed' /\ InvPids'
<1>1. CASE sched_init
  BY <1>1, IdleListed
<1>2. ASSUME NEW e \in Spawned \cup {"krnl_sched"}, create_task(e)
      PROVE  InvListed' /\ InvPids'
  BY <1>2, CreateListed
<1>3. CASE CreateStep
  BY <1>3, BuildStep, LinkListed DEF CreateStep
<1>4. CASE KillStep \/ syscall_int \/ (\E p \in Killable : kill_task(p))
  BY <1>4 DEF NoKills, InvAlive, Ctx, KillStep, KillWalk, KillMark, syscall_int, kill_task,
              Killing
<1>5. CASE sched
  BY <1>5, TickListed
<1>6. CASE UNCHANGED <<root_task, current_task, nextpid, nalloc, task, cpu>>
  <2>1. (Reach)' = Reach /\ Makers' = Makers
    BY <1>6 DEF Reach, ReachFrom, Closed, Makers, Ids, Ctx
  <2>2. InvListed'
    BY <1>6, <2>1 DEF InvListed
  <2>3. UniquePids'
    BY <1>6, <2>1 DEF InvPids, UniquePids
  <2> QED BY <1>6, <2>1, <2>2, <2>3 DEF InvPids
<1> QED
  <2>1. CASE UNCHANGED vars \/ sched_start \/ Halted
    BY <1>6, <2>1 DEF vars, sched_start, Halted
  <2> QED BY <1>1, <1>2, <1>3, <1>4, <1>5, <2>1 DEF Next

-----------------------------------------------------------------------------
(***************************************************************************)
(* Every suspended task resumes its own execution: wherever the timer      *)
(* interrupt cuts a task, sched() saves the registers into the struct of   *)
(* that task and loads those of the next one, and the first tick, which    *)
(* has nothing to save, takes idle's entry point instead.                  *)
(***************************************************************************)
THEOREM OwnContexts == ASSUME NoKills PROVE Spec => []OwnContext
<1>1. Init => InvAlive /\ InvOwner
  BY OwnerInit
<1>2. IInv /\ InvAlive /\ InvOwner /\ [Next]_vars => InvAlive' /\ InvOwner'
  BY OwnerStep
<1>3. IInv /\ InvOwner => OwnContext
  <2> SUFFICES ASSUME IInv, InvOwner PROVE OwnContext
    OBVIOUS
  <2>1. Suspended \subseteq Slots \ {current_task}
    BY SlotFacts DEF Suspended, Live
  <2> QED BY <2>1 DEF InvOwner, OwnContext, Suspended
<1> QED BY <1>1, <1>2, <1>3, Invariance, PTL DEF Spec

\* The inductive invariant of the kernel without kills holds in every reachable state.
LEMMA Alone ==
  ASSUME NoKills, OneCreator
  PROVE  Spec => [](IInv /\ InvAlive /\ InvOwner /\ InvRole /\ InvListed /\ InvPids)
<1>1. Init => InvAlive /\ InvOwner /\ InvRole /\ InvListed /\ InvPids
  BY OwnerInit, RoleInit, ListedInit
<1>2. IInv /\ IInv' /\ InvAlive /\ InvOwner /\ InvRole /\ InvListed /\ InvPids /\ [Next]_vars
      => InvAlive' /\ InvOwner' /\ InvRole' /\ InvListed' /\ InvPids'
  BY OwnerStep, RoleStep, ListedStep
<1> QED BY <1>1, <1>2, Invariance, PTL DEF Spec

(***************************************************************************)
(* No task gets lost: a task_struct that create_task() has allocated is on *)
(* the list, or its creator will still link it.  The walk that was cut by  *)
(* the timer is still at the tail when it links, as nobody else appends.   *)
(***************************************************************************)
THEOREM NoTaskLost == ASSUME NoKills, OneCreator PROVE Spec => []NoLostTask
<1>1. IInv /\ InvOwner /\ InvAlive /\ InvRole /\ InvListed => NoLostTask
  <2> SUFFICES ASSUME IInv, InvOwner, InvAlive, InvRole, InvListed, NEW t \in Live, t \notin Reach
               PROVE  \E c \in Contexts : c.pc \in Creating /\ c.new = t
    BY DEF NoLostTask
  <2>1. t \in 1..nalloc
    BY DEF Live
  <2>2. PICK i \in Ids : Ctx[i].pc \in Creating /\ Ctx[i].new = t
    BY <2>1 DEF InvListed, Makers
  <2>3. CASE i = NULL
    BY <2>2, <2>3 DEF Ctx, Contexts
  <2>4. CASE i # NULL
    <3>1. i \in Slots \ {current_task} /\ Ctx[i] = task[i].regs
      BY <2>4 DEF Ids, Ctx
    <3>2. task[i].state # "CREATED"
      BY <2>2, <3>1 DEF IInv, InvFresh, Creating
    <3>3. task[i].regs.owner = i /\ Role(task[i].regs)
      BY <3>1, <3>2 DEF InvOwner, InvRole
    <3>4. i = 2
      BY <2>2, <2>4, <3>1, <3>3 DEF Role
    <3>5. t \in 2..nalloc
      BY <2>2 DEF IInv, InvMakes
    <3>6. i \in Suspended
      BY <3>1, <3>2, <3>4, <3>5 DEF Suspended, Live, InvAlive, IInv, TypeOK
    <3> QED BY <2>2, <3>1, <3>6 DEF Contexts
  <2> QED BY <2>3, <2>4
<1> QED BY <1>1, Alone, PTL

(***************************************************************************)
(* No two tasks share a pid, although create_task() reads nextpid in one   *)
(* access and writes it in another: between the two, a timer interrupt     *)
(* runs nothing that takes a pid.                                          *)
(***************************************************************************)
THEOREM PidsUnique == ASSUME NoKills, OneCreator PROVE Spec => []UniquePids
<1>1. InvPids => UniquePids
  BY DEF InvPids
<1> QED BY <1>1, Alone, PTL

-----------------------------------------------------------------------------
(***************************************************************************)
(* The refinement of RoundRobin.  The one creator appends its tasks in the *)
(* order in which it has allocated them, so the list is 1, 2, ... up to    *)
(* the task that it has linked last.                                       *)
(***************************************************************************)
InLine(k) ==
  /\ Reach = 1..k
  /\ \A t \in Reach : task[t].next = IF t = k THEN NULL ELSE t + 1

InvInLine ==
  /\ \E k \in Nat : InLine(k)
  /\ \A c \in Makers : c.new = nalloc
  /\ nalloc > 0 /\ cpu.owner = NULL => current_task = 1

\* What the mapping makes of such a list.
RingOf(k) == [i \in 1..k |-> i]

InLineRing == \A k \in Nat : InLine(k) => ListAsRing = RingOf(k)

LEMMA CountLine ==
  ASSUME NEW k \in Nat, NEW t \in 1..k
  PROVE  Cardinality(t..k) = k + 1 - t /\ Cardinality(1..k) = k
<1>1. 1 \in Int /\ t \in Int /\ k \in Int
  OBVIOUS
<1>2. /\ Cardinality(t..k) = IF t > k THEN 0 ELSE k - t + 1
      /\ Cardinality(1..k) = IF 1 > k THEN 0 ELSE k - 1 + 1
  BY <1>1, FS_Interval, Zenon
<1> QED BY <1>2

LEMMA LineIsRing == IInv => InLineRing
<1> SUFFICES ASSUME IInv, NEW k \in Nat, InLine(k) PROVE ListAsRing = RingOf(k)
  BY DEF InLineRing
<1>1. Reach = 1..k /\ \A t \in 1..k : task[t].next = IF t = k THEN NULL ELSE t + 1
  BY DEF InLine
<1>2. CASE k = 0
  <2>1. Reach = {} /\ 1..k = {}
    BY <1>1, <1>2
  <2>2. Cardinality(Reach) = 0
    BY <2>1, FS_EmptySet
  <2> QED BY <1>2, <2>2 DEF ListAsRing, RingOf
<1>3. CASE k > 0
  <2>1. nalloc > 0
    <3>1. 1 \in Reach
      BY <1>1, <1>3
    <3> QED BY <3>1 DEF IInv, InvReach, TypeOK
  <2>2. /\ NULL \notin Slots /\ 1 \in Slots
        /\ Reach = From(Slots, Nx, NULL, 1) /\ Reach \subseteq Slots
        /\ \A x \in Slots : Nx[x] \in Slots \cup {NULL} /\ Nx[x] = task[x].next
    BY <2>1, ListFacts
  <2>3. ASSUME NEW t \in 1..k PROVE Cardinality(ReachFrom(t)) = k + 1 - t
    <3>1. \A u \in 1..k : Nx[u] = IF u = k THEN NULL ELSE u + 1
      BY <1>1, <2>2
    <3>2. From(Slots, Nx, NULL, t) = t..k
      <4>1. From(Slots, Nx, NULL, 1) = 1..k
        BY <1>1, <2>2
      <4>2. \A x \in Slots : Nx[x] \in Slots \cup {NULL}
        BY <2>2
      <4> QED BY <2>2, <3>1, <4>1, <4>2, LineFrom
    <3>3. ReachFrom(t) = From(Slots, Nx, NULL, t)
      BY DEF ReachFrom, Closed, From, ClosedUnder, Nx
    <3> QED BY <3>2, <3>3, CountLine
  <2>4. Cardinality(Reach) = k
    BY <1>1, <1>3, CountLine
  <2>5. ASSUME NEW i \in 1..k
        PROVE  (CHOOSE t \in 1..k : Cardinality(ReachFrom(t)) = k + 1 - i) = i
    <3>1. \A t \in 1..k : Cardinality(ReachFrom(t)) = k + 1 - i <=> t = i
      BY <2>3
    <3> QED BY <3>1
  <2> QED BY <1>1, <2>4, <2>5 DEF ListAsRing, RingOf
<1> QED BY <1>2, <1>3

\* sched_init(), create_task() and the other steps, seen from the list: it stays, or one
\* task joins at its end.
LEMMA InitInLine == Init => InvInLine
<1> SUFFICES ASSUME Init PROVE InvInLine
  OBVIOUS
<1>1. /\ nalloc = 0 /\ root_task = NULL /\ cpu.pc = "run"
      /\ \A t \in Slots : task[t].regs.pc = "wild"
  BY RecordFacts DEF Init, Entered
<1>2. \A i \in Ids : Ctx[i].pc \notin Creating
  BY <1>1 DEF Ids, Ctx, Creating
<1>3. Makers = {}
  BY <1>2 DEF Makers
<1>4. Reach = {} /\ 1..0 = {}
  BY <1>1 DEF Reach, ReachFrom
<1>5. InLine(0)
  BY <1>4 DEF InLine
<1> QED BY <1>1, <1>3, <1>5 DEF InvInLine

\* A step that leaves the list alone.
LEMMA SameLine ==
  ASSUME IInv, nalloc > 0, NEW k \in Nat, InLine(k), (Reach)' = Reach,
         \A x \in Reach : task'[x].next = task[x].next
  PROVE  InLine(k)'
BY DEF InLine

\* What a step does to the line.
LEMMA CreateInLine ==
  ASSUME OneCreator, IInv, IInv', InvOwner, InvRole, InvInLine,
         NEW e \in Spawned \cup {"krnl_sched"}, create_task(e)
  PROVE  InvInLine' /\ (\A k \in Nat : InLine(k) => InLine(k)') /\ Turn' = Turn
<1>1. PICK w \in Slots \ Reach :
        /\ w = nalloc + 1 /\ nalloc > 0 /\ nalloc' = nalloc + 1
        /\ current_task' = current_task
        /\ \A x \in Reach : task'[x] = task[x]
        /\ cpu'.new = w /\ cpu'.owner = cpu.owner
        /\ (Reach)' = Reach /\ Makers' = {cpu'}
  BY CreateFacts
<1>2. \A k \in Nat : InLine(k) => InLine(k)'
  BY <1>1 DEF InLine
<1>3. InvInLine'
  BY <1>1, <1>2 DEF InvInLine
<1> QED BY <1>1, <1>2, <1>3 DEF Turn

\* The steps of create_task() before the link only move its creator.
LEMMA BuildInLine ==
  ASSUME IInv, IInv', InvOwner, InvRole, InvListed, InvPids, InvInLine,
         CreateTakePid \/ CreateStepPid \/ CreateReadRoot \/ CreateWalk
  PROVE  InvInLine' /\ (\A k \in Nat : InLine(k) => InLine(k)') /\ Turn' = Turn
<1>1. CreateStep /\ task \in [Slots -> TaskStruct] /\ cpu \in Context
  BY DEF CreateStep, IInv, TypeOK
<1>2. \A x \in Slots : task'[x].next = task[x].next
  BY <1>1 DEF CreateTakePid, CreateStepPid, CreateReadRoot, CreateWalk, TaskStruct
<1>3. cpu.pc \in Creating /\ cpu'.pc \in Creating
  BY <1>1 DEF CreateTakePid, CreateStepPid, CreateReadRoot, CreateWalk, Context, Creating
<1>4. /\ UNCHANGED <<current_task, nalloc>> /\ cpu'.owner = cpu.owner
      /\ cpu'.new = cpu.new /\ \A x \in Slots : task'[x].regs = task[x].regs
  BY <1>1, <1>3, CreateKeeps
<1>5. Makers = {cpu} /\ Makers' = {cpu'}
  <2>1. Makers = {cpu} /\ \A t \in Slots : t # current_task => task[t].regs.pc \notin Creating
    BY <1>3, SoleMaker
  <2> QED BY <1>3, <1>4, <2>1, SlotFacts, MakersAfter
<1>6. (Reach)' = Reach /\ Reach \subseteq Slots
  BY BuildStep DEF Reach, ReachFrom
<1>7. \A k \in Nat : InLine(k) => InLine(k)'
  BY <1>2, <1>6 DEF InLine
<1>8. InvInLine'
  BY <1>4, <1>5, <1>7 DEF InvInLine
<1> QED BY <1>4, <1>7, <1>8 DEF Turn

\* The link puts the task behind the last one.
LEMMA LinkInLine ==
  ASSUME IInv, IInv', InvOwner, InvRole, InvListed, InvPids, InvInLine, CreateLink
  PROVE  /\ InvInLine' /\ Turn' = Turn
         /\ \E k \in Nat : InLine(k) /\ InLine(k + 1)' /\ k + 1 \in Slots
<1>1. PICK k \in Nat : InLine(k)
  BY DEF InvInLine
<1>2. Reach = 1..k /\ \A t \in Reach : task[t].next = IF t = k THEN NULL ELSE t + 1
  BY <1>1 DEF InLine
<1>3. PICK w \in Slots \ Reach, p \in Reach :
        /\ w = cpu.new /\ p = cpu.idk /\ task[p].next = NULL /\ task[w].next = NULL
        /\ (Reach)' = Reach \cup {w} /\ p # w
  BY Appended
<1>4. w = nalloc /\ nalloc' = nalloc /\ nalloc \in Nat
  BY <1>3, NoMakerLeft DEF InvInLine, CreateLink, IInv, TypeOK
<1>5. \A t \in 1..nalloc : t \in Reach \/ t = w
  BY <1>3, MakerFacts DEF CreateLink, Creating
<1>6. w = k + 1
  <2>1. w > k
    BY <1>2, <1>3, <1>4, SlotFacts DEF Slots
  <2>2. w > k + 1 => k + 1 \in 1..nalloc /\ k + 1 # w /\ k + 1 \notin 1..k
    BY <1>4
  <2> QED BY <1>2, <1>4, <1>5, <2>1, <2>2
<1>7. p = k
  <2>1. p + 1 # NULL
    BY <1>2 DEF NULL
  <2> QED BY <1>2, <1>3, <2>1
<1>8. (Reach)' = 1..k + 1
  BY <1>2, <1>3, <1>6
<1>9. \A t \in 1..k + 1 : task'[t].next = IF t = k + 1 THEN NULL ELSE t + 1
  <2>1. task' = [task EXCEPT ![p].next = w] /\ task \in [Slots -> TaskStruct]
    BY <1>3 DEF CreateLink, IInv, TypeOK
  <2>2. \A x \in Slots : task'[x].next = IF x = p THEN w ELSE task[x].next
    BY <1>3, <2>1 DEF TaskStruct
  <2>3. \A t \in 1..k + 1 : t \in Slots /\ (t = k + 1 \/ t \in Reach)
    <3>1. Reach \subseteq Slots
      BY DEF Reach, ReachFrom
    <3>2. \A t \in 1..k + 1 : t = k + 1 \/ t \in 1..k
      OBVIOUS
    <3> QED BY <1>2, <1>3, <1>6, <3>1, <3>2
  <2>4. ASSUME NEW t \in 1..k + 1 PROVE task'[t].next = IF t = k + 1 THEN NULL ELSE t + 1
    <3>1. CASE t = k + 1
      BY <1>3, <1>6, <2>2, <3>1
    <3>2. CASE t = k
      BY <1>6, <1>7, <2>2, <2>3, <3>2
    <3>3. CASE t # k /\ t # k + 1
      BY <1>2, <1>7, <2>2, <2>3, <3>3
    <3> QED BY <3>1, <3>2, <3>3
  <2> QED BY <2>4
<1>10. InLine(k + 1)'
  BY <1>8, <1>9 DEF InLine
<1>11. UNCHANGED <<current_task, nalloc>> /\ cpu'.owner = cpu.owner
  BY CreateKeeps DEF CreateStep
<1>12. InvInLine'
  <2>1. \E j \in Nat : InLine(j)'
    BY <1>10
  <2> QED BY <1>11, <2>1, NoMakerLeft DEF InvInLine
<1> QED BY <1>1, <1>3, <1>6, <1>10, <1>11, <1>12 DEF Turn

LEMMA IdleInLine ==
  ASSUME IInv, IInv', InvOwner, sched_init
  PROVE  InvInLine' /\ InLine(0) /\ InLine(1)' /\ Turn' = Turn
<1>1. Reach = {}
  BY IdleFacts DEF IInv, InvReach
<1>2. InLine(0)
  BY <1>1 DEF InLine
<1>3. (Reach)' = 1..1 /\ task'[1].next = NULL /\ Makers' = {} /\ current_task' = 1
  BY IdleFacts
<1>4. InLine(1)'
  BY <1>3 DEF InLine
<1>5. Turn' = Turn
  <2>1. current_task = NULL /\ cpu' = cpu
    BY IdleFacts DEF IInv, InvRoot
  <2>2. cpu.owner = NULL
    BY <2>1 DEF InvOwner
  <2> QED BY <2>1, <2>2 DEF Turn
<1> QED BY <1>2, <1>3, <1>4, <1>5 DEF InvInLine

\* A tick gives the turn to the first task, or to the next one on the line.
LEMMA TickInLine ==
  ASSUME IInv, IInv', InvAlive, InvOwner, InvOwner', InvListed, InvInLine, sched
  PROVE  /\ InvInLine'
         /\ \E k \in Nat \ {0} :
              /\ InLine(k) /\ InLine(k)'
              /\ \/ Turn = NULL /\ Turn' = 1
                 \/ Turn \in 1..k /\ Turn' = IF Turn = k THEN 1 ELSE Turn + 1
<1>1. /\ nalloc > 0 /\ current_task \in Reach /\ current_task' \in Slots
      /\ UNCHANGED <<root_task, nalloc>>
      /\ \A x \in Slots : task'[x].next = task[x].next
      /\ \/ task[current_task].state = "CREATED" /\ current_task' = current_task
         \/ /\ task[current_task].state # "CREATED"
            /\ current_task' = IF task[current_task].next = NULL THEN 1
                               ELSE task[current_task].next
      /\ task'[current_task'].state = "RUNNING"
  BY TickFacts, ListFacts
<1>2. Reach \subseteq Slots /\ NULL \notin Slots
  BY <1>1, ListFacts
<1>3. (Reach)' = Reach
  BY <1>1, <1>2, SameList
<1>4. PICK k \in Nat : InLine(k)
  BY DEF InvInLine
<1>5. Reach = 1..k /\ \A t \in Reach : task[t].next = IF t = k THEN NULL ELSE t + 1
  BY <1>4 DEF InLine
<1>6. InLine(k)'
  BY <1>1, <1>2, <1>3, <1>5 DEF InLine
<1>7. cpu'.owner = current_task' /\ current_task' # NULL
  BY <1>1, <1>2 DEF InvOwner
<1>8. cpu.owner = NULL <=> task[current_task].state = "CREATED"
  BY <1>1, <1>2 DEF InvOwner
<1>9. k # 0
  BY <1>1, <1>5
<1>10. Turn' = current_task'
  BY <1>7 DEF Turn
<1>11. InvInLine'
  <2>1. Makers' = Makers
    BY TickMakers
  <2> QED BY <1>1, <1>6, <1>7, <2>1 DEF InvInLine
<1>12. CASE task[current_task].state = "CREATED"
  <2>1. current_task = 1 /\ Turn = NULL
    BY <1>1, <1>8, <1>12 DEF InvInLine, Turn
  <2> QED BY <1>1, <1>4, <1>6, <1>9, <1>10, <1>11, <1>12, <2>1
<1>13. CASE task[current_task].state # "CREATED"
  <2>1. Turn = current_task /\ Turn \in 1..k
    BY <1>1, <1>5, <1>8, <1>13 DEF InvOwner, Turn
  <2>2. current_task' = IF current_task = k THEN 1 ELSE current_task + 1
    <3>1. current_task + 1 # NULL
      BY <2>1 DEF NULL
    <3> QED BY <1>1, <1>5, <1>13, <3>1
  <2> QED BY <1>4, <1>6, <1>9, <1>10, <1>11, <2>1, <2>2
<1> QED BY <1>12, <1>13

-----------------------------------------------------------------------------
\* The steps of the ring, for the ring of the tasks 1..k.
LEMMA RingJoins ==
  ASSUME NEW k \in Nat, k + 1 \in Slots,
         ListAsRing = RingOf(k), ListAsRing' = RingOf(k + 1), Turn' = Turn
  PROVE  RR!Next
<1>1. RingOf(k) \in Seq(Nat) /\ Len(RingOf(k)) = k
  BY DEF RingOf
<1>2. RingOf(k + 1) = Append(RingOf(k), k + 1)
  BY <1>1 DEF RingOf
<1>3. \A i \in 1..k : RingOf(k)[i] # k + 1
  BY DEF RingOf
<1>4. ~ RR!Contains(ListAsRing, k + 1)
  BY <1>1, <1>3 DEF RR!Contains
<1>5. RR!Join(k + 1)
  BY <1>2, <1>4 DEF RR!Join
<1> QED BY <1>5 DEF RR!Next

LEMMA RingTurns ==
  ASSUME NEW k \in Nat \ {0}, ListAsRing = RingOf(k), ListAsRing' = RingOf(k),
         \/ Turn = NULL /\ Turn' = 1
         \/ Turn \in 1..k /\ Turn' = IF Turn = k THEN 1 ELSE Turn + 1
  PROVE  RR!Next
<1>1. /\ DOMAIN RingOf(k) = 1..k /\ Len(RingOf(k)) = k /\ RingOf(k) # <<>>
      /\ \A i \in 1..k : RingOf(k)[i] = i
  BY DEF RingOf
<1>2. CASE Turn = NULL
  <2>1. Turn' = 1
    BY <1>2 DEF NULL
  <2>2. RR!FirstTurn
    BY <1>1, <1>2, <2>1 DEF RR!FirstTurn
  <2> QED BY <2>2 DEF RR!Next
<1>3. CASE Turn # NULL
  <2>1. PICK t \in 1..k : t = Turn /\ Turn' = IF t = k THEN 1 ELSE t + 1
    BY <1>3
  <2>2. (CHOOSE j \in DOMAIN RingOf(k) : RingOf(k)[j] = t) = t
    BY <1>1
  <2>3. RR!Successor(RingOf(k), t) = IF t = k THEN 1 ELSE t + 1
    BY <1>1, <2>2 DEF RR!Successor
  <2>4. RR!NextTurn
    BY <1>3, <2>1, <2>3 DEF RR!NextTurn
  <2> QED BY <2>4 DEF RR!Next
<1> QED BY <1>2, <1>3

\* Every step of the kernel is a step of the ring or changes nothing there.
LEMMA RingStep ==
  ASSUME NoKills, OneCreator, IInv, IInv', InvAlive, InvOwner, InvOwner', InvRole,
         InvListed, InvPids, InvInLine, InLineRing, InLineRing', [Next]_vars
  PROVE  InvInLine' /\ [RR!Next]_RR!vars
<1>1. PICK k \in Nat : InLine(k)
  BY DEF InvInLine
<1>2. \A j \in Nat : /\ InLine(j) => ListAsRing = RingOf(j)
                     /\ InLine(j)' => ListAsRing' = RingOf(j)
  BY DEF InLineRing, RingOf
<1>3. ASSUME InvInLine', \A j \in Nat : InLine(j) => InLine(j)', Turn' = Turn
      PROVE  InvInLine' /\ [RR!Next]_RR!vars
  BY <1>1, <1>2, <1>3 DEF RR!vars
<1>4. CASE sched_init
  <2>1. InvInLine' /\ InLine(0) /\ InLine(1)' /\ Turn' = Turn
    BY <1>4, IdleInLine
  <2>2. ListAsRing = RingOf(0) /\ ListAsRing' = RingOf(0 + 1) /\ 0 + 1 \in Slots
    BY <1>2, <2>1, SlotFacts
  <2> QED BY <2>1, <2>2, RingJoins
<1>5. ASSUME NEW e \in Spawned \cup {"krnl_sched"}, create_task(e)
      PROVE  InvInLine' /\ [RR!Next]_RR!vars
  BY <1>3, <1>5, CreateInLine
<1>6. CASE CreateStep
  <2>1. CASE CreateLink
    <3>1. PICK j \in Nat : InLine(j) /\ InLine(j + 1)' /\ j + 1 \in Slots
      BY <2>1, LinkInLine
    <3>2. ListAsRing = RingOf(j) /\ ListAsRing' = RingOf(j + 1)
      BY <1>2, <3>1
    <3> QED BY <2>1, <3>1, <3>2, LinkInLine, RingJoins
  <2> QED BY <1>3, <1>6, <2>1, BuildInLine DEF CreateStep
<1>7. CASE KillStep \/ syscall_int \/ (\E p \in Killable : kill_task(p))
  BY <1>7 DEF NoKills, InvAlive, Ctx, KillStep, KillWalk, KillMark, syscall_int, kill_task,
              Killing
<1>8. CASE sched
  <2>1. PICK j \in Nat \ {0} :
          /\ InLine(j) /\ InLine(j)'
          /\ \/ Turn = NULL /\ Turn' = 1
             \/ Turn \in 1..j /\ Turn' = IF Turn = j THEN 1 ELSE Turn + 1
    BY <1>8, TickInLine
  <2>2. ListAsRing = RingOf(j) /\ ListAsRing' = RingOf(j)
    BY <1>2, <2>1
  <2>3. RR!Next
    BY <2>1, <2>2, RingTurns
  <2> QED BY <1>8, <2>3, TickInLine
<1>9. CASE UNCHANGED <<root_task, current_task, nalloc, task, cpu>>
  <2>1. (Reach)' = Reach /\ Makers' = Makers
    BY <1>9 DEF Reach, ReachFrom, Closed, Makers, Ids, Ctx
  <2>2. \A j \in Nat : InLine(j) => InLine(j)'
    BY <1>9, <2>1 DEF InLine
  <2>3. InvInLine' /\ Turn' = Turn
    BY <1>9, <2>1, <2>2 DEF InvInLine, Turn
  <2> QED BY <1>3, <2>2, <2>3
<1> QED
  <2>1. CASE UNCHANGED vars \/ sched_start \/ Halted
    BY <1>9, <2>1 DEF vars, sched_start, Halted
  <2> QED BY <1>4, <1>5, <1>6, <1>7, <1>8, <2>1 DEF Next

(***************************************************************************)
(* The scheduler goes round: the list of tasks is a ring that tasks join   *)
(* at the end, one by one, although create_task() walks and links in steps *)
(* that the timer cuts, and sched() gives the CPU to idle first and then   *)
(* to one task of the ring after the other, from the tail to idle again.   *)
(* This is ImplementsRoundRobin without its fairness.                      *)
(***************************************************************************)
THEOREM GoesRound == ASSUME NoKills, OneCreator PROVE Spec => RR!Safety
<1>1. Init => InvInLine
  BY InitInLine
<1>2. Init /\ IInv /\ InLineRing => RR!Init
  <2> SUFFICES ASSUME Init, IInv, InLineRing PROVE RR!Init
    OBVIOUS
  <2>1. Reach = {} /\ cpu.owner = NULL
    BY DEF Init, Reach, ReachFrom, Entered
  <2>2. InLine(0)
    BY <2>1 DEF InLine
  <2>3. ListAsRing = RingOf(0)
    BY <2>2 DEF InLineRing
  <2>4. RingOf(0) = <<>>
    BY DEF RingOf
  <2> QED BY <2>1, <2>3, <2>4 DEF RR!Init, Turn
<1>3. /\ IInv /\ IInv' /\ InvAlive /\ InvOwner /\ InvOwner' /\ InvRole /\ InvListed
      /\ InvPids /\ InvInLine /\ InLineRing /\ InLineRing' /\ [Next]_vars
      => InvInLine' /\ [RR!Next]_RR!vars
  BY RingStep
<1> QED BY <1>1, <1>2, <1>3, LineIsRing, Alone, PTL DEF Spec, RR!Safety

=============================================================================
