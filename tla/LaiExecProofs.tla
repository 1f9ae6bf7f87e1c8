---------------------------- MODULE LaiExecProofs ----------------------------
(***************************************************************************)
(* Proofs about LaiExec, for every program and every capacity of the       *)
(* stacks: contexts, blocks and items of the execution stack stay in step, *)
(* so every item that is processed has a context and a block.  Nothing is  *)
(* assumed of what the operators do to the memory.                         *)
(***************************************************************************)
EXTENDS LaiExec, FiniteSetTheorems, TLAPS

LOCAL WF == INSTANCE WellFoundedInduction

-----------------------------------------------------------------------------
(***************************************************************************)
(* Stacks of anything.                                                     *)
(***************************************************************************)
IsSeq(q) == \E T : q \in Seq(T)

\* A stack is numbered from the bottom.
LEMMA SeqFacts ==
  ASSUME NEW q, IsSeq(q)
  PROVE  Len(q) \in Nat /\ DOMAIN q = 1 .. Len(q)
<1>1. PICK T : q \in Seq(T)
  BY DEF IsSeq
<1> QED
  BY <1>1

\* A push.
LEMMA Pushed ==
  ASSUME NEW q, IsSeq(q), NEW e
  PROVE  /\ IsSeq(Append(q, e)) /\ Len(Append(q, e)) = Len(q) + 1
         /\ Append(q, e)[Len(q) + 1] = e
         /\ \A i \in 1 .. Len(q) : Append(q, e)[i] = q[i]
<1>1. PICK T : q \in Seq(T)
  BY DEF IsSeq
<1> DEFINE U == T \cup {e}
<1>2. q \in Seq(U) /\ e \in U
  BY <1>1
<1> HIDE DEF U
<1>3. Append(q, e) \in Seq(U) /\ Len(Append(q, e)) = Len(q) + 1
  BY <1>2
<1>4. Append(q, e)[Len(q) + 1] = e /\ \A i \in 1 .. Len(q) : Append(q, e)[i] = q[i]
  BY <1>2
<1> QED
  BY <1>3, <1>4 DEF IsSeq

\* What is left when n items are taken off.
Lower(q, n) == SubSeq(q, 1, Len(q) - n)
LEMMA Popped ==
  ASSUME NEW q, IsSeq(q), NEW n \in Nat, n <= Len(q)
  PROVE  /\ IsSeq(Lower(q, n)) /\ Len(Lower(q, n)) = Len(q) - n
         /\ \A i \in 1 .. Len(q) - n : Lower(q, n)[i] = q[i]
<1>1. PICK T : q \in Seq(T)
  BY DEF IsSeq
<1>2. Len(q) \in Nat /\ DOMAIN q = 1 .. Len(q)
  BY <1>1
<1> DEFINE k == Len(q) - n
<1>3. k \in Nat /\ k <= Len(q)
  BY <1>2
<1> HIDE DEF k
<1>4. /\ SubSeq(q, 1, k) \in Seq(T) /\ Len(SubSeq(q, 1, k)) = k
      /\ \A i \in 1 .. k : SubSeq(q, 1, k)[i] = q[i]
  BY <1>1, <1>2, <1>3
<1> QED
  BY <1>4 DEF IsSeq, Lower, k

\* An item changed in place.
LEMMA Changed ==
  ASSUME NEW q, IsSeq(q), NEW i, NEW e
  PROVE  IsSeq([q EXCEPT ![i] = e]) /\ Len([q EXCEPT ![i] = e]) = Len(q)
<1>1. PICK T : q \in Seq(T)
  BY DEF IsSeq
<1> DEFINE U == T \cup {e}
           r == [q EXCEPT ![i] = e]
<1>2. q \in Seq(U) /\ e \in U
  BY <1>1
<1> HIDE DEF U
<1>3. Len(q) \in Nat /\ q \in [1 .. Len(q) -> U]
  BY <1>2
<1>4. r \in [1 .. Len(q) -> U]
  BY <1>2, <1>3
<1> HIDE DEF r
<1>5. r \in Seq(U) /\ Len(r) = Len(q)
  BY <1>3, <1>4
<1> QED
  BY <1>5 DEF IsSeq, r

-----------------------------------------------------------------------------
(***************************************************************************)
(* How many items of some kinds are on a stack.                            *)
(***************************************************************************)
Tally(q, kinds) == Cardinality(Items(q, kinds))

\* They are finitely many.
LEMMA TallyFacts ==
  ASSUME NEW q, IsSeq(q), NEW K
  PROVE  IsFiniteSet(Items(q, K)) /\ Tally(q, K) \in Nat
<1>1. Len(q) \in Nat /\ DOMAIN q = 1 .. Len(q)
  BY SeqFacts
<1>2. IsFiniteSet(1 .. Len(q))
  BY <1>1, FS_Interval
<1>3. Items(q, K) \in SUBSET (1 .. Len(q))
  BY <1>1 DEF Items
<1>4. IsFiniteSet(Items(q, K))
  BY <1>2, <1>3, FS_Subset
<1> QED
  BY <1>4, FS_CardinalityType DEF Tally

\* A push counts if it is of these kinds.
LEMMA TallyPushed ==
  ASSUME NEW q, IsSeq(q), NEW K, NEW e
  PROVE  Tally(Append(q, e), K) = IF e.kind \in K THEN Tally(q, K) + 1 ELSE Tally(q, K)
<1> DEFINE r == Append(q, e)
           n == Len(q) + 1
<1>1. /\ Len(q) \in Nat /\ DOMAIN q = 1 .. Len(q) /\ DOMAIN r = 1 .. n
      /\ r[n] = e /\ \A i \in 1 .. Len(q) : r[i] = q[i]
  BY Pushed, SeqFacts
<1>2. IsFiniteSet(Items(q, K)) /\ n \notin Items(q, K)
  <2>1. IsFiniteSet(Items(q, K))
    BY TallyFacts
  <2>2. n \notin Items(q, K)
    BY <1>1 DEF Items
  <2> QED
    BY <2>1, <2>2
<1> HIDE DEF r
<1>3. 1 .. n = (1 .. Len(q)) \cup {n}
  BY <1>1
<1>4. Items(r, K) = IF e.kind \in K THEN Items(q, K) \cup {n} ELSE Items(q, K)
  <2>1. \A i \in 1 .. n : i \in Items(r, K) <=> (i \in Items(q, K) \/ (i = n /\ e.kind \in K))
    BY <1>1, <1>3 DEF Items
  <2>2. Items(r, K) \subseteq 1 .. n /\ Items(q, K) \subseteq 1 .. n
    BY <1>1, <1>3 DEF Items
  <2>3. n \in 1 .. n
    BY <1>1
  <2>4. CASE e.kind \in K
    <3>1. Items(r, K) = Items(q, K) \cup {n}
      BY <2>1, <2>2, <2>3, <2>4
    <3> QED
      BY <2>4, <3>1
  <2>5. CASE e.kind \notin K
    <3>1. Items(r, K) = Items(q, K)
      BY <2>1, <2>2, <2>5
    <3> QED
      BY <2>5, <3>1
  <2> QED
    BY <2>4, <2>5
<1>5. Cardinality(Items(q, K) \cup {n}) = Cardinality(Items(q, K)) + 1
  BY <1>2, FS_AddElement
<1> QED
  BY <1>4, <1>5 DEF Tally, r

\* A pop takes those away that were among its items.
Upper(q, n, K) == {i \in Len(q) - n + 1 .. Len(q) : q[i].kind \in K}
LEMMA TallyPopped ==
  ASSUME NEW q, IsSeq(q), NEW n \in Nat, n <= Len(q), NEW K
  PROVE  /\ IsFiniteSet(Upper(q, n, K))
         /\ Tally(q, K) = Tally(Lower(q, n), K) + Cardinality(Upper(q, n, K))
<1> DEFINE r == Lower(q, n)
           U == Upper(q, n, K)
<1>1. /\ Len(q) \in Nat /\ DOMAIN q = 1 .. Len(q) /\ IsSeq(r) /\ DOMAIN r = 1 .. Len(q) - n
      /\ \A i \in 1 .. Len(q) - n : r[i] = q[i]
  BY Popped, SeqFacts
<1>2. IsFiniteSet(Items(q, K)) /\ IsFiniteSet(Items(r, K))
  BY <1>1, TallyFacts
<1>3. 1 .. Len(q) = (1 .. Len(q) - n) \cup (Len(q) - n + 1 .. Len(q))
  BY <1>1
<1>4. (1 .. Len(q) - n) \cap (Len(q) - n + 1 .. Len(q)) = {}
  BY <1>1
<1> HIDE DEF r
<1>5. Items(q, K) = Items(r, K) \cup U
  BY <1>1, <1>3 DEF Items, Upper
<1>6. Items(r, K) \cap U = {}
  BY <1>1, <1>4 DEF Items, Upper
<1>7. IsFiniteSet(U)
  BY <1>2, <1>5, FS_Subset
<1>8. Cardinality(Items(r, K) \cup U) = Cardinality(Items(r, K)) + Cardinality(U) - Cardinality({})
  BY <1>2, <1>6, <1>7, FS_Union
<1>9. Cardinality(Items(r, K)) \in Nat /\ Cardinality(U) \in Nat /\ Cardinality({}) = 0
  BY <1>2, <1>7, FS_CardinalityType, FS_EmptySet
<1> QED
  BY <1>5, <1>7, <1>8, <1>9 DEF Tally, r

\* The number of the kinds is that of the items that are popped, or none, or one.
LEMMA UpperAll ==
  ASSUME NEW q, IsSeq(q), NEW n \in Nat, n <= Len(q), NEW K,
         \A i \in Len(q) - n + 1 .. Len(q) : q[i].kind \in K
  PROVE  Cardinality(Upper(q, n, K)) = n
<1>1. Len(q) \in Nat
  BY SeqFacts
<1>2. Upper(q, n, K) = Len(q) - n + 1 .. Len(q)
  BY DEF Upper
<1>3. Len(q) - n + 1 \in Int /\ Len(q) \in Int
  BY <1>1
<1>4. Cardinality(Len(q) - n + 1 .. Len(q)) =
        IF Len(q) - n + 1 > Len(q) THEN 0 ELSE Len(q) - (Len(q) - n + 1) + 1
  BY <1>3, FS_Interval
<1> QED
  BY <1>1, <1>2, <1>4

LEMMA UpperNone ==
  ASSUME NEW q, NEW n, NEW K,
         \A i \in Len(q) - n + 1 .. Len(q) : q[i].kind \notin K
  PROVE  Cardinality(Upper(q, n, K)) = 0
<1>1. Upper(q, n, K) = {}
  BY DEF Upper
<1> QED
  BY <1>1, FS_EmptySet

LEMMA UpperLowest ==
  ASSUME NEW q, IsSeq(q), NEW n \in Nat, 1 <= n, n <= Len(q), NEW K,
         q[Len(q) - n + 1].kind \in K,
         \A i \in Len(q) - n + 2 .. Len(q) : q[i].kind \notin K
  PROVE  Cardinality(Upper(q, n, K)) = 1
<1>1. Len(q) \in Nat
  BY SeqFacts
<1>2. \A i \in Len(q) - n + 1 .. Len(q) : i = Len(q) - n + 1 \/ i \in Len(q) - n + 2 .. Len(q)
  BY <1>1
<1>3. Len(q) - n + 1 \in Len(q) - n + 1 .. Len(q)
  BY <1>1
<1>4. Upper(q, n, K) = {Len(q) - n + 1}
  BY <1>2, <1>3 DEF Upper
<1> QED
  BY <1>4, FS_Singleton

\* What is counted depends on the kinds only.
SameKinds(q, r) == DOMAIN q = DOMAIN r /\ \A i \in DOMAIN q : q[i].kind = r[i].kind
LEMMA TallyOfKinds ==
  ASSUME NEW q, NEW r, SameKinds(q, r), NEW K
  PROVE  Tally(q, K) = Tally(r, K)
<1>1. Items(q, K) = Items(r, K)
  BY DEF Items, SameKinds
<1> QED
  BY <1>1 DEF Tally

-----------------------------------------------------------------------------
(***************************************************************************)
(* The stacks in step.  On the way from one step to the next, c contexts   *)
(* and b blocks are there whose items are not yet on the execution stack,  *)
(* or not any more.                                                        *)
(***************************************************************************)
\* The items have kinds, and below all of them is a scope or a method.
Items_OK(q) ==
  /\ IsSeq(q)
  /\ \A i \in DOMAIN q : "kind" \in DOMAIN q[i]
  /\ Len(q) > 0 => q[1].kind \in WithContext

Shaped(s) ==
  /\ s = [ctxstack |-> s.ctxstack, blkstack |-> s.blkstack, stack |-> s.stack,
          opstack |-> s.opstack, cap |-> s.cap]
  /\ IsSeq(s.ctxstack) /\ IsSeq(s.blkstack) /\ Items_OK(s.stack)

Ahead(s, c, b) ==
  /\ Shaped(s)
  /\ c \in Nat /\ b \in Nat
  /\ Len(s.ctxstack) = Tally(s.stack, WithContext) + c
  /\ Len(s.blkstack) = Tally(s.stack, WithCode) + b

\* A state that differs in its operands, its capacities or the content of blocks.
LEMMA AheadOfSame ==
  ASSUME NEW s, NEW r, NEW c, NEW b, Ahead(s, c, b), Shaped(r), SameKinds(r.stack, s.stack),
         Len(r.ctxstack) = Len(s.ctxstack), Len(r.blkstack) = Len(s.blkstack)
  PROVE  Ahead(r, c, b)
BY TallyOfKinds DEF Ahead

\* Pushes and pops of operands.
LEMMA OperandsApart ==
  ASSUME NEW s, NEW c, NEW b, Ahead(s, c, b), NEW x
  PROVE  /\ Ahead([s EXCEPT !.opstack = x], c, b)
         /\ [s EXCEPT !.opstack = x].stack = s.stack
<1> DEFINE r == [s EXCEPT !.opstack = x]
<1>1. Shaped(s)
  BY DEF Ahead
<1>2. /\ r.ctxstack = s.ctxstack /\ r.blkstack = s.blkstack /\ r.stack = s.stack /\ r.cap = s.cap
      /\ r.opstack = x
      /\ r = [ctxstack |-> r.ctxstack, blkstack |-> r.blkstack, stack |-> r.stack,
              opstack |-> r.opstack, cap |-> r.cap]
  BY <1>1 DEF Shaped
<1> HIDE DEF r
<1>3. Shaped(r) /\ SameKinds(r.stack, s.stack)
  BY <1>1, <1>2 DEF Shaped, SameKinds
<1>4. Ahead(r, c, b)
  BY <1>2, <1>3, AheadOfSame
<1> QED
  BY <1>2, <1>4 DEF r

LEMMA PushedOperand ==
  ASSUME NEW s, NEW c, NEW b, Ahead(s, c, b), NEW x
  PROVE  Ahead(Push(s, "opstack", x), c, b) /\ Push(s, "opstack", x).stack = s.stack
<1> DEFINE y == Append(s["opstack"], x)
<1>1. Push(s, "opstack", x) = [s EXCEPT !.opstack = y]
  BY DEF Push
<1> HIDE DEF y
<1>2. Ahead([s EXCEPT !.opstack = y], c, b) /\ [s EXCEPT !.opstack = y].stack = s.stack
  BY OperandsApart
<1> QED
  BY <1>1, <1>2

LEMMA PoppedOperands ==
  ASSUME NEW s, NEW c, NEW b, Ahead(s, c, b), NEW n
  PROVE  Ahead(Pop(s, "opstack", n), c, b) /\ Pop(s, "opstack", n).stack = s.stack
<1> DEFINE y == SubSeq(s["opstack"], 1, Len(s["opstack"]) - n)
<1>1. Pop(s, "opstack", n) = [s EXCEPT !.opstack = y]
  BY DEF Pop
<1> HIDE DEF y
<1>2. Ahead([s EXCEPT !.opstack = y], c, b) /\ [s EXCEPT !.opstack = y].stack = s.stack
  BY OperandsApart
<1> QED
  BY <1>1, <1>2

LEMMA PushedIf ==
  ASSUME NEW s, NEW c, NEW b, Ahead(s, c, b), NEW w, NEW x
  PROVE  Ahead(PushIf(w, s, x), c, b) /\ PushIf(w, s, x).stack = s.stack
BY PushedOperand DEF PushIf

\* A move of stacks to other memory.
LEMMA Reserved ==
  ASSUME NEW s, NEW c, NEW b, Ahead(s, c, b), NEW W
  PROVE  Ahead(Reserve(s, W), c, b) /\ Reserve(s, W).stack = s.stack
<1> DEFINE x == [w \in Stacks |-> IF w \in W /\ Len(s[w]) = s.cap[w] THEN 2 * s.cap[w] ELSE s.cap[w]]
           r == [s EXCEPT !.cap = x]
<1>1. Shaped(s)
  BY DEF Ahead
<1>2. Reserve(s, W) = r
  BY DEF Reserve
<1> HIDE DEF x
<1>3. /\ r.ctxstack = s.ctxstack /\ r.blkstack = s.blkstack /\ r.stack = s.stack
      /\ r = [ctxstack |-> r.ctxstack, blkstack |-> r.blkstack, stack |-> r.stack,
              opstack |-> r.opstack, cap |-> r.cap]
  BY <1>1 DEF Shaped
<1> HIDE DEF r
<1>4. Shaped(r) /\ SameKinds(r.stack, s.stack)
  BY <1>1, <1>3 DEF Shaped, SameKinds
<1>5. Ahead(r, c, b)
  BY <1>3, <1>4, AheadOfSame
<1> QED
  BY <1>2, <1>3, <1>5

\* The item on top of the blocks changed in place.
LEMMA BlockChanged ==
  ASSUME NEW s, NEW c, NEW b, Ahead(s, c, b), NEW i, NEW x
  PROVE  /\ Ahead([s EXCEPT !.blkstack[i] = x], c, b)
         /\ [s EXCEPT !.blkstack[i] = x].stack = s.stack
<1> DEFINE y == [s.blkstack EXCEPT ![i] = x]
           r == [s EXCEPT !.blkstack = y]
<1>1. Shaped(s)
  BY DEF Ahead
<1>2. [s EXCEPT !.blkstack[i] = x] = r
  BY <1>1 DEF Shaped
<1>3. IsSeq(y) /\ Len(y) = Len(s.blkstack)
  BY <1>1, Changed DEF Shaped
<1> HIDE DEF y
<1>4. /\ r.ctxstack = s.ctxstack /\ r.blkstack = y /\ r.stack = s.stack
      /\ r = [ctxstack |-> r.ctxstack, blkstack |-> r.blkstack, stack |-> r.stack,
              opstack |-> r.opstack, cap |-> r.cap]
  BY <1>1 DEF Shaped
<1> HIDE DEF r
<1>5. Shaped(r) /\ SameKinds(r.stack, s.stack)
  BY <1>1, <1>3, <1>4 DEF Shaped, SameKinds
<1>6. Ahead(r, c, b)
  BY <1>3, <1>4, <1>5, AheadOfSame
<1> QED
  BY <1>2, <1>4, <1>6

\* lai_exec_commit_pc().
LEMMA CommittedPc ==
  ASSUME NEW s, NEW c, NEW b, Ahead(s, c, b), NEW pc
  PROVE  Ahead(lai_exec_commit_pc(s, pc), c, b) /\ lai_exec_commit_pc(s, pc).stack = s.stack
<1> DEFINE i == Len(s.blkstack)
           x == [s.blkstack[i] EXCEPT !.pc = pc]
<1>1. lai_exec_commit_pc(s, pc) = [s EXCEPT !.blkstack[i] = x]
  BY DEF lai_exec_commit_pc
<1> HIDE DEF i, x
<1> QED
  BY <1>1, BlockChanged

\* An item changed in place, but not in its kind.
LEMMA ItemChanged ==
  ASSUME NEW s, NEW c, NEW b, Ahead(s, c, b), NEW i, NEW x,
         i \in DOMAIN s.stack => "kind" \in DOMAIN x /\ x.kind = s.stack[i].kind
  PROVE  /\ Ahead([s EXCEPT !.stack[i] = x], c, b)
         /\ SameKinds([s EXCEPT !.stack[i] = x].stack, s.stack)
<1> DEFINE y == [s.stack EXCEPT ![i] = x]
           r == [s EXCEPT !.stack = y]
<1>1. Shaped(s) /\ Items_OK(s.stack)
  BY DEF Ahead, Shaped
<1>2. [s EXCEPT !.stack[i] = x] = r
  BY <1>1 DEF Shaped
<1>3. IsSeq(y) /\ Len(y) = Len(s.stack)
  BY <1>1, Changed DEF Items_OK
<1>4. DOMAIN y = DOMAIN s.stack /\ \A j \in DOMAIN s.stack : y[j] = IF j = i THEN x ELSE s.stack[j]
  BY <1>1, SeqFacts DEF Items_OK
<1>5. DOMAIN s.stack = 1 .. Len(s.stack) /\ Len(s.stack) \in Nat
  BY <1>1, SeqFacts DEF Items_OK
<1> HIDE DEF y
<1>6. SameKinds(y, s.stack)
  BY <1>4 DEF SameKinds
<1>7. Len(s.stack) > 0 => 1 \in DOMAIN s.stack
  BY <1>5
<1>8. Items_OK(y)
  BY <1>1, <1>3, <1>4, <1>6, <1>7 DEF Items_OK, SameKinds
<1>9. /\ r.ctxstack = s.ctxstack /\ r.blkstack = s.blkstack /\ r.stack = y
      /\ r = [ctxstack |-> r.ctxstack, blkstack |-> r.blkstack, stack |-> r.stack,
              opstack |-> r.opstack, cap |-> r.cap]
  BY <1>1 DEF Shaped
<1> HIDE DEF r
<1>10. Shaped(r)
  BY <1>1, <1>8, <1>9 DEF Shaped
<1>11. Ahead(r, c, b)
  BY <1>6, <1>9, <1>10, AheadOfSame
<1> QED
  BY <1>2, <1>6, <1>9, <1>11

\* A stack of a state replaced by another one.
LEMMA BlocksReplaced ==
  ASSUME NEW s, NEW c, NEW b, Ahead(s, c, b), NEW y, NEW n, IsSeq(y), n \in Nat,
         Len(y) = Tally(s.stack, WithCode) + n
  PROVE  Ahead([s EXCEPT !.blkstack = y], c, n) /\ [s EXCEPT !.blkstack = y].stack = s.stack
<1> DEFINE r == [s EXCEPT !.blkstack = y]
<1>1. Shaped(s)
  BY DEF Ahead
<1>2. /\ r.ctxstack = s.ctxstack /\ r.blkstack = y /\ r.stack = s.stack
      /\ r = [ctxstack |-> r.ctxstack, blkstack |-> r.blkstack, stack |-> r.stack,
              opstack |-> r.opstack, cap |-> r.cap]
  BY <1>1 DEF Shaped
<1> HIDE DEF r
<1>3. Shaped(r)
  BY <1>1, <1>2 DEF Shaped
<1>4. Ahead(r, c, n)
  BY <1>2, <1>3 DEF Ahead
<1> QED
  BY <1>2, <1>4 DEF r

LEMMA ContextsReplaced ==
  ASSUME NEW s, NEW c, NEW b, Ahead(s, c, b), NEW y, NEW n, IsSeq(y), n \in Nat,
         Len(y) = Tally(s.stack, WithContext) + n
  PROVE  Ahead([s EXCEPT !.ctxstack = y], n, b) /\ [s EXCEPT !.ctxstack = y].stack = s.stack
<1> DEFINE r == [s EXCEPT !.ctxstack = y]
<1>1. Shaped(s)
  BY DEF Ahead
<1>2. /\ r.ctxstack = y /\ r.blkstack = s.blkstack /\ r.stack = s.stack
      /\ r = [ctxstack |-> r.ctxstack, blkstack |-> r.blkstack, stack |-> r.stack,
              opstack |-> r.opstack, cap |-> r.cap]
  BY <1>1 DEF Shaped
<1> HIDE DEF r
<1>3. Shaped(r)
  BY <1>1, <1>2 DEF Shaped
<1>4. Ahead(r, n, b)
  BY <1>2, <1>3 DEF Ahead
<1> QED
  BY <1>2, <1>4 DEF r

LEMMA ItemsReplaced ==
  ASSUME NEW s, NEW c, NEW b, Ahead(s, c, b), NEW y, NEW k, NEW n, Items_OK(y), k \in Nat, n \in Nat,
         Len(s.ctxstack) = Tally(y, WithContext) + k,
         Len(s.blkstack) = Tally(y, WithCode) + n
  PROVE  Ahead([s EXCEPT !.stack = y], k, n) /\ [s EXCEPT !.stack = y].stack = y
<1> DEFINE r == [s EXCEPT !.stack = y]
<1>1. Shaped(s)
  BY DEF Ahead
<1>2. /\ r.ctxstack = s.ctxstack /\ r.blkstack = s.blkstack /\ r.stack = y
      /\ r = [ctxstack |-> r.ctxstack, blkstack |-> r.blkstack, stack |-> r.stack,
              opstack |-> r.opstack, cap |-> r.cap]
  BY <1>1 DEF Shaped
<1> HIDE DEF r
<1>3. Shaped(r)
  BY <1>1, <1>2 DEF Shaped
<1>4. Ahead(r, k, n)
  BY <1>2, <1>3 DEF Ahead
<1> QED
  BY <1>2, <1>4 DEF r

\* What the numbers are.
LEMMA AheadFacts ==
  ASSUME NEW s, NEW c, NEW b, Ahead(s, c, b)
  PROVE  /\ IsSeq(s.ctxstack) /\ IsSeq(s.blkstack) /\ IsSeq(s.stack)
         /\ Len(s.ctxstack) \in Nat /\ Len(s.blkstack) \in Nat /\ Len(s.stack) \in Nat
         /\ DOMAIN s.stack = 1 .. Len(s.stack)
         /\ \A K : Tally(s.stack, K) \in Nat
<1>1. IsSeq(s.ctxstack) /\ IsSeq(s.blkstack) /\ IsSeq(s.stack)
  BY DEF Ahead, Shaped, Items_OK
<1> QED
  BY <1>1, SeqFacts, TallyFacts

LEMMA PushedBlock ==
  ASSUME NEW s, NEW c, NEW b, Ahead(s, c, b), NEW pc, NEW limit
  PROVE  Ahead(WithBlock(s, pc, limit), c, b + 1) /\ WithBlock(s, pc, limit).stack = s.stack
<1> DEFINE x == [pc |-> pc, limit |-> limit]
           y == Append(s.blkstack, x)
<1>1. WithBlock(s, pc, limit) = [s EXCEPT !.blkstack = y]
  BY DEF WithBlock, Push
<1> HIDE DEF x
<1>2. IsSeq(y) /\ Len(y) = Len(s.blkstack) + 1
  BY AheadFacts, Pushed
<1>3. /\ b \in Nat /\ Tally(s.stack, WithCode) \in Nat
      /\ Len(s.blkstack) = Tally(s.stack, WithCode) + b
  BY AheadFacts DEF Ahead
<1> HIDE DEF y
<1>5. b + 1 \in Nat /\ Len(y) = Tally(s.stack, WithCode) + (b + 1)
  BY <1>2, <1>3
<1>4. Ahead([s EXCEPT !.blkstack = y], c, b + 1) /\ [s EXCEPT !.blkstack = y].stack = s.stack
  BY <1>2, <1>5, BlocksReplaced
<1> QED
  BY <1>1, <1>4

LEMMA PushedContext ==
  ASSUME NEW s, NEW c, NEW b, Ahead(s, c, b), NEW x
  PROVE  Ahead(Push(s, "ctxstack", x), c + 1, b) /\ Push(s, "ctxstack", x).stack = s.stack
<1> DEFINE y == Append(s.ctxstack, x)
<1>1. Push(s, "ctxstack", x) = [s EXCEPT !.ctxstack = y]
  BY DEF Push
<1>2. IsSeq(y) /\ Len(y) = Len(s.ctxstack) + 1
  BY AheadFacts, Pushed
<1>3. /\ c \in Nat /\ Tally(s.stack, WithContext) \in Nat
      /\ Len(s.ctxstack) = Tally(s.stack, WithContext) + c
  BY AheadFacts DEF Ahead
<1> HIDE DEF y
<1>5. c + 1 \in Nat /\ Len(y) = Tally(s.stack, WithContext) + (c + 1)
  BY <1>2, <1>3
<1>4. Ahead([s EXCEPT !.ctxstack = y], c + 1, b) /\ [s EXCEPT !.ctxstack = y].stack = s.stack
  BY <1>2, <1>5, ContextsReplaced
<1> QED
  BY <1>1, <1>4

LEMMA PoppedContext ==
  ASSUME NEW s, NEW c, NEW b, Ahead(s, c, b), c >= 1
  PROVE  Ahead(Pop(s, "ctxstack", 1), c - 1, b) /\ Pop(s, "ctxstack", 1).stack = s.stack
<1> DEFINE y == Lower(s.ctxstack, 1)
<1>1. Pop(s, "ctxstack", 1) = [s EXCEPT !.ctxstack = y]
  BY DEF Pop, Lower
<1>2. /\ c \in Nat /\ Tally(s.stack, WithContext) \in Nat
      /\ Len(s.ctxstack) = Tally(s.stack, WithContext) + c
  BY AheadFacts DEF Ahead
<1>3. 1 \in Nat /\ 1 <= Len(s.ctxstack) /\ IsSeq(s.ctxstack)
  BY <1>2, AheadFacts
<1>4. IsSeq(y) /\ Len(y) = Len(s.ctxstack) - 1
  BY <1>3, Popped
<1> HIDE DEF y
<1>5. c - 1 \in Nat /\ Len(y) = Tally(s.stack, WithContext) + (c - 1)
  BY <1>2, <1>4
<1>6. Ahead([s EXCEPT !.ctxstack = y], c - 1, b) /\ [s EXCEPT !.ctxstack = y].stack = s.stack
  BY <1>4, <1>5, ContextsReplaced
<1> QED
  BY <1>1, <1>6

\* A new item, where one of its kind is allowed.
LEMMA NewItems ==
  ASSUME NEW q, Items_OK(q), NEW item, "kind" \in DOMAIN item,
         Len(q) > 0 \/ item.kind \in WithContext
  PROVE  Items_OK(Append(q, item)) /\ Len(Append(q, item)) > 0
<1> DEFINE r == Append(q, item)
<1>1. /\ IsSeq(q) /\ Len(q) \in Nat /\ DOMAIN q = 1 .. Len(q)
  BY SeqFacts DEF Items_OK
<1>2. /\ IsSeq(r) /\ Len(r) = Len(q) + 1 /\ DOMAIN r = 1 .. Len(q) + 1
      /\ r[Len(q) + 1] = item /\ \A i \in 1 .. Len(q) : r[i] = q[i]
  <2>1. /\ IsSeq(r) /\ Len(r) = Len(q) + 1
        /\ r[Len(q) + 1] = item /\ \A i \in 1 .. Len(q) : r[i] = q[i]
    BY <1>1, Pushed
  <2>2. DOMAIN r = 1 .. Len(r)
    BY <2>1, SeqFacts
  <2> QED
    BY <2>1, <2>2
<1> HIDE DEF r
<1>3. \A i \in DOMAIN r : i \in 1 .. Len(q) \/ i = Len(q) + 1
  BY <1>1, <1>2
<1>4. \A i \in DOMAIN r : "kind" \in DOMAIN r[i]
  BY <1>1, <1>2, <1>3 DEF Items_OK
<1>5. r[1].kind \in WithContext
  <2>1. CASE Len(q) > 0
    <3>1. 1 \in 1 .. Len(q)
      BY <1>1, <2>1
    <3> QED
      BY <1>2, <2>1, <3>1 DEF Items_OK
  <2>2. CASE ~(Len(q) > 0)
    <3>1. Len(q) + 1 = 1
      BY <1>1, <2>2
    <3>2. r[1] = item
      BY <1>2, <3>1
    <3> QED
      BY <2>2, <3>2
  <2> QED
    BY <2>1, <2>2
<1>6. Items_OK(r) /\ Len(r) > 0
  BY <1>1, <1>2, <1>4, <1>5 DEF Items_OK
<1> QED
  BY <1>6 DEF r

LEMMA PushedItem ==
  ASSUME NEW s, NEW c, NEW b, Ahead(s, c, b), NEW item, "kind" \in DOMAIN item,
         Len(s.stack) > 0, item.kind \notin WithCode
  PROVE  Ahead(Push(s, "stack", item), c, b)
<1> DEFINE y == Append(s.stack, item)
<1>1. Push(s, "stack", item) = [s EXCEPT !.stack = y]
  BY DEF Push
<1>2. item.kind \notin WithContext
  BY DEF WithCode
<1>3. Tally(y, WithContext) = Tally(s.stack, WithContext) /\ Tally(y, WithCode) = Tally(s.stack, WithCode)
  BY <1>2, AheadFacts, TallyPushed
<1>4. Items_OK(y)
  BY NewItems DEF Ahead, Shaped
<1>5. /\ c \in Nat /\ b \in Nat
      /\ Len(s.ctxstack) = Tally(y, WithContext) + c /\ Len(s.blkstack) = Tally(y, WithCode) + b
  BY <1>3 DEF Ahead
<1> HIDE DEF y
<1>6. Ahead([s EXCEPT !.stack = y], c, b)
  BY <1>4, <1>5, ItemsReplaced
<1> QED
  BY <1>1, <1>6

LEMMA PushedCode ==
  ASSUME NEW s, NEW c, NEW b, Ahead(s, c, b), b >= 1, NEW item, "kind" \in DOMAIN item,
         Len(s.stack) > 0, item.kind \in WithCode \ WithContext
  PROVE  Ahead(Push(s, "stack", item), c, b - 1)
<1> DEFINE y == Append(s.stack, item)
<1>1. Push(s, "stack", item) = [s EXCEPT !.stack = y]
  BY DEF Push
<1>3. Tally(y, WithContext) = Tally(s.stack, WithContext) /\ Tally(y, WithCode) = Tally(s.stack, WithCode) + 1
  BY AheadFacts, TallyPushed
<1>4. Items_OK(y)
  BY NewItems DEF Ahead, Shaped
<1>5. c \in Nat /\ b \in Nat /\ Tally(s.stack, WithCode) \in Nat
      /\ Len(s.ctxstack) = Tally(s.stack, WithContext) + c /\ Len(s.blkstack) = Tally(s.stack, WithCode) + b
  BY AheadFacts DEF Ahead
<1> HIDE DEF y
<1>6. /\ b - 1 \in Nat
      /\ Len(s.ctxstack) = Tally(y, WithContext) + c /\ Len(s.blkstack) = Tally(y, WithCode) + (b - 1)
  BY <1>3, <1>5
<1>7. Ahead([s EXCEPT !.stack = y], c, b - 1)
  BY <1>4, <1>5, <1>6, ItemsReplaced
<1> QED
  BY <1>1, <1>7

LEMMA PushedScope ==
  ASSUME NEW s, NEW c, NEW b, Ahead(s, c, b), b >= 1, c >= 1, NEW item, "kind" \in DOMAIN item,
         item.kind \in WithContext
  PROVE  Ahead(Push(s, "stack", item), c - 1, b - 1)
<1> DEFINE y == Append(s.stack, item)
<1>1. Push(s, "stack", item) = [s EXCEPT !.stack = y]
  BY DEF Push
<1>2. item.kind \in WithCode
  BY DEF WithCode
<1>3. /\ Tally(y, WithContext) = Tally(s.stack, WithContext) + 1
      /\ Tally(y, WithCode) = Tally(s.stack, WithCode) + 1
  BY <1>2, AheadFacts, TallyPushed
<1>4. Items_OK(y)
  BY NewItems DEF Ahead, Shaped
<1>5. c \in Nat /\ b \in Nat /\ Tally(s.stack, WithCode) \in Nat /\ Tally(s.stack, WithContext) \in Nat
      /\ Len(s.ctxstack) = Tally(s.stack, WithContext) + c /\ Len(s.blkstack) = Tally(s.stack, WithCode) + b
  BY AheadFacts DEF Ahead
<1> HIDE DEF y
<1>6. /\ b - 1 \in Nat /\ c - 1 \in Nat
      /\ Len(s.ctxstack) = Tally(y, WithContext) + (c - 1) /\ Len(s.blkstack) = Tally(y, WithCode) + (b - 1)
  BY <1>3, <1>5
<1>7. Ahead([s EXCEPT !.stack = y], c - 1, b - 1)
  BY <1>4, <1>5, <1>6, ItemsReplaced
<1> QED
  BY <1>1, <1>7


\* Items are taken off with as many contexts and blocks as they have.
LEMMA LowerItems ==
  ASSUME NEW q, Items_OK(q), NEW n \in Nat, n <= Len(q)
  PROVE  Items_OK(Lower(q, n))
<1> DEFINE r == Lower(q, n)
<1>1. IsSeq(q) /\ Len(q) \in Nat /\ DOMAIN q = 1 .. Len(q)
  BY SeqFacts DEF Items_OK
<1>2. /\ IsSeq(r) /\ Len(r) = Len(q) - n
      /\ \A i \in 1 .. Len(q) - n : r[i] = q[i]
  BY <1>1, Popped
<1>3. DOMAIN r = 1 .. Len(q) - n
  BY <1>2, SeqFacts
<1> HIDE DEF r
<1>4. \A i \in DOMAIN r : i \in DOMAIN q /\ r[i] = q[i]
  BY <1>1, <1>2, <1>3
<1>5. Len(r) > 0 => 1 \in DOMAIN r /\ Len(q) > 0
  BY <1>1, <1>2, <1>3
<1>6. Items_OK(r)
  BY <1>2, <1>4, <1>5 DEF Items_OK
<1> QED
  BY <1>6 DEF r

LEMMA PoppedItems ==
  ASSUME NEW s, NEW c, NEW b, Ahead(s, c, b), NEW n \in Nat, n <= Len(s.stack),
         NEW k \in Nat, NEW j \in Nat,
         Cardinality(Upper(s.stack, n, WithContext)) = k,
         Cardinality(Upper(s.stack, n, WithCode)) = j
  PROVE  Ahead(Pop(s, "stack", n), c + k, b + j) /\ Pop(s, "stack", n).stack = Lower(s.stack, n)
<1> DEFINE y == Lower(s.stack, n)
<1>1. Pop(s, "stack", n) = [s EXCEPT !.stack = y]
  BY DEF Pop, Lower
<1>2. IsSeq(s.stack) /\ Items_OK(s.stack)
  BY DEF Ahead, Shaped, Items_OK
<1>3. /\ Tally(s.stack, WithContext) = Tally(y, WithContext) + k
      /\ Tally(s.stack, WithCode) = Tally(y, WithCode) + j
  BY <1>2, TallyPopped
<1>4. Items_OK(y)
  BY <1>2, LowerItems
<1>5. IsSeq(y)
  BY <1>4 DEF Items_OK
<1>6. Tally(y, WithContext) \in Nat /\ Tally(y, WithCode) \in Nat
  BY <1>5, TallyFacts
<1>7. /\ c \in Nat /\ b \in Nat
      /\ Len(s.ctxstack) = Tally(s.stack, WithContext) + c /\ Len(s.blkstack) = Tally(s.stack, WithCode) + b
  BY DEF Ahead
<1> HIDE DEF y
<1>8. /\ c + k \in Nat /\ b + j \in Nat
      /\ Len(s.ctxstack) = Tally(y, WithContext) + (c + k)
      /\ Len(s.blkstack) = Tally(y, WithCode) + (b + j)
  BY <1>3, <1>6, <1>7
<1>9. Ahead([s EXCEPT !.stack = y], c + k, b + j) /\ [s EXCEPT !.stack = y].stack = y
  BY <1>4, <1>8, ItemsReplaced
<1> QED
  BY <1>1, <1>9 DEF y

LEMMA PoppedBlocks ==
  ASSUME NEW s, NEW c, NEW b, Ahead(s, c, b), NEW n \in Nat, n <= b
  PROVE  Ahead(Pop(s, "blkstack", n), c, b - n) /\ Pop(s, "blkstack", n).stack = s.stack
<1> DEFINE y == Lower(s.blkstack, n)
<1>1. Pop(s, "blkstack", n) = [s EXCEPT !.blkstack = y]
  BY DEF Pop, Lower
<1>2. /\ b \in Nat /\ Tally(s.stack, WithCode) \in Nat
      /\ Len(s.blkstack) = Tally(s.stack, WithCode) + b
  BY AheadFacts DEF Ahead
<1>3. n <= Len(s.blkstack) /\ IsSeq(s.blkstack)
  BY <1>2, AheadFacts
<1>4. IsSeq(y) /\ Len(y) = Len(s.blkstack) - n
  BY <1>3, Popped
<1> HIDE DEF y
<1>5. b - n \in Nat /\ Len(y) = Tally(s.stack, WithCode) + (b - n)
  BY <1>2, <1>4
<1>6. Ahead([s EXCEPT !.blkstack = y], c, b - n) /\ [s EXCEPT !.blkstack = y].stack = s.stack
  BY <1>4, <1>5, BlocksReplaced
<1> QED
  BY <1>1, <1>6

\* The pops of blocks and of items may be swapped.
LEMMA Swapped ==
  ASSUME NEW s, Shaped(s), NEW n
  PROVE  Unnest(s, n) = Pop(Pop(s, "stack", n), "blkstack", n)
<1> DEFINE x == Lower(s.blkstack, n)
           y == Lower(s.stack, n)
           low == [s EXCEPT !.blkstack = x]
           top == [s EXCEPT !.stack = y]
<1>1. low.stack = s.stack /\ top.blkstack = s.blkstack
  BY DEF Shaped
<1>2. Pop(s, "blkstack", n) = low /\ Pop(s, "stack", n) = top
  BY DEF Pop, Lower
<1>3. Unnest(s, n) = [low EXCEPT !.stack = y]
  BY <1>1, <1>2 DEF Unnest, Pop, Lower
<1>4. Pop(Pop(s, "stack", n), "blkstack", n) = [top EXCEPT !.blkstack = x]
  BY <1>1, <1>2 DEF Pop, Lower
<1> HIDE DEF x, y
<1>5. [low EXCEPT !.stack = y] = [top EXCEPT !.blkstack = x]
  BY DEF Shaped
<1> QED
  BY <1>3, <1>4, <1>5

\* Items that all have code are left together with their blocks.
LEMMA Unnested ==
  ASSUME NEW s, NEW c, NEW b, Ahead(s, c, b), NEW n \in Nat, n <= Len(s.stack), NEW k \in Nat,
         \A i \in Len(s.stack) - n + 1 .. Len(s.stack) : s.stack[i].kind \in WithCode,
         Cardinality(Upper(s.stack, n, WithContext)) = k
  PROVE  Ahead(Unnest(s, n), c + k, b) /\ Unnest(s, n).stack = Lower(s.stack, n)
<1> DEFINE r == Pop(s, "stack", n)
<1>1. IsSeq(s.stack) /\ b \in Nat
  BY AheadFacts DEF Ahead
<1>2. Cardinality(Upper(s.stack, n, WithCode)) = n
  BY <1>1, UpperAll
<1>3. Ahead(r, c + k, b + n) /\ r.stack = Lower(s.stack, n)
  BY <1>2, PoppedItems
<1> HIDE DEF r
<1>4. n <= b + n /\ (b + n) - n = b
  BY <1>1
<1>5. Ahead(Pop(r, "blkstack", n), c + k, (b + n) - n) /\ Pop(r, "blkstack", n).stack = r.stack
  BY <1>3, <1>4, PoppedBlocks
<1>6. Unnest(s, n) = Pop(r, "blkstack", n)
  BY Swapped DEF Ahead, r
<1> QED
  BY <1>3, <1>4, <1>5, <1>6

\* The top item of a kind without code, with code of its own, with a context.
LEMMA DoneItem ==
  ASSUME NEW s, Ahead(s, 0, 0), Len(s.stack) > 0, TopOf(s.stack).kind \notin WithCode
  PROVE  Ahead(Done(s), 0, 0)
<1>1. IsSeq(s.stack) /\ Len(s.stack) \in Nat
  BY AheadFacts
<1>2. \A i \in Len(s.stack) - 1 + 1 .. Len(s.stack) : i = Len(s.stack)
  BY <1>1
<1>3. /\ \A i \in Len(s.stack) - 1 + 1 .. Len(s.stack) : s.stack[i].kind \notin WithCode
      /\ \A i \in Len(s.stack) - 1 + 1 .. Len(s.stack) : s.stack[i].kind \notin WithContext
  BY <1>2 DEF TopOf, WithCode
<1>4. /\ Cardinality(Upper(s.stack, 1, WithContext)) = 0
      /\ Cardinality(Upper(s.stack, 1, WithCode)) = 0
  BY <1>3, UpperNone
<1>5. 1 \in Nat /\ 0 \in Nat /\ 1 <= Len(s.stack)
  BY <1>1
<1>6. Ahead(Pop(s, "stack", 1), 0 + 0, 0 + 0)
  BY <1>4, <1>5, PoppedItems
<1> QED
  BY <1>6 DEF Done

LEMMA DoneCode ==
  ASSUME NEW s, Ahead(s, 0, 0), Len(s.stack) > 0, TopOf(s.stack).kind \in WithCode \ WithContext
  PROVE  Ahead(DoneWithBlock(s), 0, 0)
<1>1. IsSeq(s.stack) /\ Len(s.stack) \in Nat
  BY AheadFacts
<1>2. \A i \in Len(s.stack) - 1 + 1 .. Len(s.stack) : i = Len(s.stack)
  BY <1>1
<1>3. /\ \A i \in Len(s.stack) - 1 + 1 .. Len(s.stack) : s.stack[i].kind \in WithCode
      /\ \A i \in Len(s.stack) - 1 + 1 .. Len(s.stack) : s.stack[i].kind \notin WithContext
  BY <1>2 DEF TopOf
<1>4. Cardinality(Upper(s.stack, 1, WithContext)) = 0
  BY <1>3, UpperNone
<1>5. 1 \in Nat /\ 0 \in Nat /\ 1 <= Len(s.stack)
  BY <1>1
<1>6. Ahead(Unnest(s, 1), 0 + 0, 0)
  BY <1>3, <1>4, <1>5, Unnested
<1> QED
  BY <1>6 DEF DoneWithBlock

LEMMA DoneScope ==
  ASSUME NEW s, Ahead(s, 0, 0), Len(s.stack) > 0, TopOf(s.stack).kind \in WithContext
  PROVE  Ahead(DoneWithBlock(s), 1, 0)
<1>1. IsSeq(s.stack) /\ Len(s.stack) \in Nat
  BY AheadFacts
<1>2. \A i \in Len(s.stack) - 1 + 1 .. Len(s.stack) : i = Len(s.stack)
  BY <1>1
<1>3. /\ \A i \in Len(s.stack) - 1 + 1 .. Len(s.stack) : s.stack[i].kind \in WithCode
      /\ \A i \in Len(s.stack) - 1 + 1 .. Len(s.stack) : s.stack[i].kind \in WithContext
  BY <1>2 DEF TopOf, WithCode
<1>5. 1 \in Nat /\ 0 \in Nat /\ 1 <= Len(s.stack)
  BY <1>1
<1>4. Cardinality(Upper(s.stack, 1, WithContext)) = 1
  BY <1>1, <1>3, <1>5, UpperAll
<1>6. Ahead(Unnest(s, 1), 0 + 1, 0)
  BY <1>3, <1>4, <1>5, Unnested
<1> QED
  BY <1>6 DEF DoneWithBlock

\* How deep the innermost loop or method is, and what lies on it.
LEMMA NestedFacts ==
  ASSUME NEW q, IsSeq(q), NEW K, ~(Nested(K, q) < 0)
  PROVE  /\ Nested(K, q) \in 0 .. Len(q) - 1
         /\ q[Len(q) - Nested(K, q)].kind = K
         /\ \A i \in Len(q) - Nested(K, q) + 1 .. Len(q) : q[i].kind \in {"COND", "LOOP"}
<1> DEFINE item(i) == q[Len(q) - i]
           D == {n \in 0 .. Len(q) - 1 :
                   item(n).kind = K /\ \A i \in 0 .. n - 1 : item(i).kind \in {"COND", "LOOP"}}
           n == CHOOSE m \in D : \A k \in D : m <= k
<1>1. Nested(K, q) = IF D = {} THEN -1 ELSE n
  BY DEF Nested
<1>2. Len(q) \in Nat
  BY SeqFacts
<1>4. D \subseteq Nat
  BY <1>2
<1>3. D # {} /\ Nested(K, q) = n
  <2> HIDE DEF D, n
  <2>1. D = {} => Nested(K, q) = -1
    BY <1>1
  <2>2. D # {}
    BY <2>1
  <2> QED
    BY <1>1, <2>2
<1>5. \E m \in D : \A k \in D : m <= k
  <2> DEFINE R == WF!OpToRel(<, Nat)
  <2>1. WF!IsWellFoundedOn(R, Nat)
    BY WF!NatLessThanWellFounded
  <2> HIDE DEF D, R
  <2>2. PICK m \in D : \A k \in D : ~(<<k, m>> \in R)
    BY <1>3, <1>4, <2>1, WF!WFMin
  <2>3. \A k \in D : m <= k
    <3>1. TAKE k \in D
    <3>2. k \in Nat /\ m \in Nat
      BY <1>4
    <3>3. ~(k < m)
      BY <2>2, <3>2 DEF WF!OpToRel, R
    <3> QED
      BY <3>2, <3>3
  <2> QED
    BY <2>3
<1>6. n \in D
  <2> HIDE DEF D
  <2> QED
    BY <1>5
<1>7. /\ n \in 0 .. Len(q) - 1 /\ q[Len(q) - n].kind = K
      /\ \A i \in 0 .. n - 1 : q[Len(q) - i].kind \in {"COND", "LOOP"}
  BY <1>6
<1> HIDE DEF n
<1>8. ASSUME NEW i \in Len(q) - n + 1 .. Len(q)
      PROVE  q[i].kind \in {"COND", "LOOP"}
  <2>1. Len(q) - i \in 0 .. n - 1 /\ Len(q) - (Len(q) - i) = i
    BY <1>2, <1>7
  <2> QED
    BY <1>7, <2>1
<1> QED
  BY <1>3, <1>7, <1>8

-----------------------------------------------------------------------------
(***************************************************************************)
(* The invariant, and how a step ends.                                     *)
(***************************************************************************)
StackInv == Ahead(state, 0, 0) /\ (status = "idle" => state = lai_init_state)

\* Nothing is on the stacks before the first call and after each.
LEMMA EmptyStacks ==
  Ahead(lai_init_state, 0, 0) /\ Len(lai_init_state.stack) = 0
<1> DEFINE s == lai_init_state
<1>1. /\ s.ctxstack = << >> /\ s.blkstack = << >> /\ s.stack = << >>
      /\ s = [ctxstack |-> s.ctxstack, blkstack |-> s.blkstack, stack |-> s.stack,
              opstack |-> s.opstack, cap |-> s.cap]
  BY DEF lai_init_state
<1>2. << >> \in Seq({}) /\ Len(<< >>) = 0 /\ DOMAIN << >> = {}
  OBVIOUS
<1>3. IsSeq(<< >>) /\ Items_OK(<< >>)
  BY <1>2 DEF IsSeq, Items_OK
<1>4. \A K : Tally(<< >>, K) = 0
  <2>1. \A K : Items(<< >>, K) = {}
    BY <1>2 DEF Items
  <2> QED
    BY <2>1, FS_EmptySet DEF Tally
<1> HIDE DEF s
<1>5. Ahead(s, 0, 0) /\ Len(s.stack) = 0
  BY <1>1, <1>2, <1>3, <1>4 DEF Ahead, Shaped
<1> QED
  BY <1>5 DEF s

\* An item that is processed: there is one, and what the invariant says of the top.
LEMMA TopFacts ==
  ASSUME StackInv, Running
  PROVE  /\ Ahead(state, 0, 0) /\ Items_OK(state.stack) /\ IsSeq(state.stack)
         /\ Len(state.stack) \in Nat /\ Len(state.stack) > 0
         /\ DOMAIN state.stack = 1 .. Len(state.stack)
         /\ Len(state.stack) \in DOMAIN state.stack
         /\ "kind" \in DOMAIN Top /\ Top = state.stack[Len(state.stack)]
<1>1. Ahead(state, 0, 0) /\ Items_OK(state.stack) /\ IsSeq(state.stack)
  BY DEF StackInv, Ahead, Shaped, Items_OK
<1>2. Len(state.stack) \in Nat /\ DOMAIN state.stack = 1 .. Len(state.stack)
  BY <1>1, SeqFacts
<1>3. Len(state.stack) > 0
  <2>1. PICK T : state.stack \in Seq(T)
    BY <1>1 DEF IsSeq
  <2>2. state.stack # << >>
    BY DEF Running
  <2> QED
    BY <1>2, <2>1, <2>2
<1>4. Len(state.stack) \in DOMAIN state.stack
  BY <1>2, <1>3
<1>5. "kind" \in DOMAIN state.stack[Len(state.stack)]
  BY <1>1, <1>4 DEF Items_OK
<1> QED
  BY <1>1, <1>2, <1>3, <1>4, <1>5 DEF Top, TopOf

\* The stacks that the rest of lai_exec_process() works on.
LEMMA WorkingStacks ==
  ASSUME StackInv, Running
  PROVE  /\ Ahead(S, 0, 0) /\ SameKinds(S.stack, state.stack)
         /\ Len(S.stack) = Len(state.stack) /\ TopOf(S.stack).kind = Top.kind
         /\ IsSeq(S.stack)
<1>1. /\ Ahead(state, 0, 0) /\ Items_OK(state.stack) /\ IsSeq(state.stack)
      /\ Len(state.stack) \in Nat /\ Len(state.stack) > 0
      /\ DOMAIN state.stack = 1 .. Len(state.stack)
      /\ Len(state.stack) \in DOMAIN state.stack
      /\ "kind" \in DOMAIN Top /\ Top = state.stack[Len(state.stack)]
  BY TopFacts
<1>2. Ahead(S, 0, 0) /\ SameKinds(S.stack, state.stack)
  <2>1. CASE ~Initializes
    <3>1. S = state
      BY <2>1 DEF S
    <3> QED
      BY <1>1, <3>1 DEF SameKinds
  <2>2. CASE Initializes
    <3> DEFINE r == Pop(state, "opstack", 1)
               i == Len(state.stack)
               x == [r.stack[i] EXCEPT !.index = @ + 1]
    <3>1. Ahead(r, 0, 0) /\ r.stack = state.stack
      BY <1>1, PoppedOperands
    <3>2. S = [r EXCEPT !.stack[i] = x]
      BY <2>2 DEF S
    <3>3. "kind" \in DOMAIN x /\ x.kind = r.stack[i].kind
      BY <1>1, <3>1
    <3> HIDE DEF r, x, i
    <3>4. /\ Ahead([r EXCEPT !.stack[i] = x], 0, 0)
          /\ SameKinds([r EXCEPT !.stack[i] = x].stack, r.stack)
      BY <3>1, <3>3, ItemChanged
    <3> QED
      BY <3>1, <3>2, <3>4
  <2> QED
    BY <2>1, <2>2
<1>3. IsSeq(S.stack) /\ Len(S.stack) \in Nat /\ DOMAIN S.stack = 1 .. Len(S.stack)
  BY <1>2, AheadFacts
<1>4. Len(S.stack) = Len(state.stack)
  <2>1. 1 .. Len(S.stack) = 1 .. Len(state.stack)
    BY <1>1, <1>2, <1>3 DEF SameKinds
  <2> QED
    BY <1>1, <1>3, <2>1
<1>5. TopOf(S.stack).kind = Top.kind
  BY <1>1, <1>2, <1>4 DEF SameKinds, TopOf
<1> QED
  BY <1>2, <1>3, <1>4, <1>5

LEMMA CommittedStacks ==
  ASSUME StackInv, Running, NEW W, NEW pc
  PROVE  Ahead(Committed(W, pc), 0, 0) /\ Committed(W, pc).stack = S.stack
<1>1. Ahead(S, 0, 0)
  BY WorkingStacks
<1> DEFINE r == Reserve(S, W)
<1>2. Ahead(r, 0, 0) /\ r.stack = S.stack
  BY <1>1, Reserved
<1>3. Committed(W, pc) = lai_exec_commit_pc(r, pc)
  BY DEF Committed
<1> HIDE DEF r
<1>4. Ahead(lai_exec_commit_pc(r, pc), 0, 0) /\ lai_exec_commit_pc(r, pc).stack = r.stack
  BY <1>2, CommittedPc
<1> QED
  BY <1>2, <1>3, <1>4

\* The phase of a package is counted in place.
LEMMA CountedStacks ==
  ASSUME NEW s, Ahead(s, 0, 0)
  PROVE  Ahead(Counted(s), 0, 0)
<1> DEFINE i == Len(state.stack)
           x == [s.stack[i] EXCEPT !.phase = 1]
<1>1. Counted(s) = s \/ Counted(s) = [s EXCEPT !.stack[i] = x]
  BY DEF Counted
<1>2. i \in DOMAIN s.stack => "kind" \in DOMAIN s.stack[i]
  BY DEF Ahead, Shaped, Items_OK
<1>3. i \in DOMAIN s.stack => "kind" \in DOMAIN x /\ x.kind = s.stack[i].kind
  BY <1>2
<1> HIDE DEF i, x
<1>4. Ahead([s EXCEPT !.stack[i] = x], 0, 0)
  BY <1>3, ItemChanged
<1> QED
  BY <1>1, <1>4

\* Every end of a step keeps the invariant.
LEMMA Halts ==
  ASSUME StackInv, NEW e, Halt(e)
  PROVE  StackInv'
BY DEF StackInv, Halt

LEMMA Proceeds ==
  ASSUME StackInv, status = "run", NEW s, Ahead(s, 0, 0), NEW m, Proceed(s, m)
  PROVE  StackInv'
<1>1. CASE \E w \in Stacks : Len(s[w]) > s.cap[w]
  BY <1>1, Halts DEF Proceed
<1>2. CASE ~(\E w \in Stacks : Len(s[w]) > s.cap[w])
  BY <1>2 DEF Proceed, StackInv
<1> QED
  BY <1>1, <1>2

LEMMA Raises ==
  ASSUME StackInv, NEW e, NEW m, Raise(e, m)
  PROVE  StackInv'
<1>1. CASE e \in {"PANIC", "UNDEFINED"}
  BY <1>1, Halts DEF Raise
<1>2. CASE e \notin {"PANIC", "UNDEFINED"}
  <2>1. status' = "idle" /\ state' = lai_init_state
    BY <1>2 DEF Raise
  <2> QED
    BY <2>1, EmptyStacks DEF StackInv
<1> QED
  BY <1>1, <1>2

LEMMA Follows ==
  ASSUME StackInv, status = "run", NEW s, Ahead(s, 0, 0), NEW r, After(r, s)
  PROVE  StackInv'
<1>1. CASE r.e = "NONE"
  <2>1. Proceed(s, r.m)
    BY <1>1 DEF After
  <2> QED
    BY <2>1, Proceeds
<1>2. CASE r.e # "NONE"
  <2>1. Raise(r.e, MemoryOf(r, M))
    BY <1>2 DEF After
  <2> QED
    BY <2>1, Raises
<1> QED
  BY <1>1, <1>2

LEMMA ParsedOn ==
  ASSUME StackInv, status = "run", NEW s, Ahead(s, 0, 0), NEW m, Parsed(s, m)
  PROVE  StackInv'
<1>1. Ahead(Counted(s), 0, 0)
  BY CountedStacks
<1>2. Proceed(Counted(s), m)
  BY DEF Parsed
<1> QED
  BY <1>1, <1>2, Proceeds

-----------------------------------------------------------------------------
(***************************************************************************)
(* lai_exec_parse().                                                       *)
(***************************************************************************)
\* Room on stacks, a counter behind the token, and operands.
LEMMA OperandParsed ==
  ASSUME StackInv, Running, NEW x, Operand(x)
  PROVE  StackInv'
<1> DEFINE s == Committed({"opstack"}, Next1)
<1>1. Ahead(s, 0, 0)
  BY CommittedStacks
<1>2. Parsed(Push(s, "opstack", x), M)
  BY DEF Operand
<1> HIDE DEF s
<1>3. Ahead(Push(s, "opstack", x), 0, 0)
  BY <1>1, PushedOperand
<1> QED
  BY <1>2, <1>3, ParsedOn DEF Running

LEMMA NameOperandParsed ==
  ASSUME StackInv, Running, NEW x, NameOperand(x)
  PROVE  StackInv'
<1>1. Ahead(PastName, 0, 0)
  BY CommittedStacks DEF PastName
<1>2. Ahead(Push(PastName, "opstack", x), 0, 0)
  BY <1>1, PushedOperand
<1> QED
  BY <1>2, ParsedOn DEF NameOperand, Running

\* A new item without code, and one with code whose block is there.
LEMMA ItemParsed ==
  ASSUME StackInv, Running, NEW s, Ahead(s, 0, 0), Len(s.stack) > 0,
         NEW item, "kind" \in DOMAIN item, item.kind \notin WithCode, NewItem(item, s)
  PROVE  StackInv'
<1>1. Ahead(Push(s, "stack", item), 0, 0)
  BY PushedItem
<1> QED
  BY <1>1, ParsedOn DEF NewItem, Running

LEMMA CodeParsed ==
  ASSUME StackInv, Running, NEW s, Ahead(s, 0, 1), Len(s.stack) > 0,
         NEW item, "kind" \in DOMAIN item, item.kind \in WithCode \ WithContext, NewItem(item, s)
  PROVE  StackInv'
<1>1. Ahead(Push(s, "stack", item), 0, 1 - 1)
  BY PushedCode
<1>2. Ahead(Push(s, "stack", item), 0, 0)
  BY <1>1
<1> QED
  BY <1>2, ParsedOn DEF NewItem, Running

\* Room for an item and its block.
LEMMA RoomForCode ==
  ASSUME StackInv, Running, NEW W, NEW at, NEW pc, NEW limit
  PROVE  LET s == WithBlock(Committed(W, at), pc, limit)
         IN  Ahead(s, 0, 1) /\ Len(s.stack) > 0
<1> DEFINE r == Committed(W, at)
<1>1. Ahead(r, 0, 0) /\ r.stack = S.stack /\ Len(S.stack) > 0
  BY CommittedStacks, WorkingStacks, TopFacts
<1> HIDE DEF r
<1>2. Ahead(WithBlock(r, pc, limit), 0, 0 + 1) /\ WithBlock(r, pc, limit).stack = r.stack
  BY <1>1, PushedBlock
<1>3. Ahead(WithBlock(r, pc, limit), 0, 1)
  BY <1>2
<1> QED
  BY <1>1, <1>2, <1>3 DEF r

LEMMA NameSteps ==
  ASSUME StackInv, Running,
         \/ ParseImmediate \/ ParseNameInData \/ ParseNewName \/ ParseMissingName
         \/ ParseAccess \/ ParseReference
  PROVE  StackInv'
<1>1. CASE ParseImmediate
  BY <1>1, OperandParsed DEF ParseImmediate
<1>2. CASE ParseNameInData
  BY <1>2, NameOperandParsed DEF ParseNameInData
<1>3. CASE ParseNewName
  BY <1>3, NameOperandParsed DEF ParseNewName
<1>4. CASE ParseMissingName
  BY <1>4, NameOperandParsed, Raises DEF ParseMissingName
<1>5. CASE ParseAccess
  <2>1. PICK r : IF r.e # "NONE" THEN Raise(r.e, M) ELSE Parsed(PushIf(WantsResult(Mode), PastName, r.v), r.m)
    BY <1>5 DEF ParseAccess
  <2>2. Ahead(PastName, 0, 0)
    BY CommittedStacks DEF PastName
  <2>3. Ahead(PushIf(WantsResult(Mode), PastName, r.v), 0, 0)
    BY <2>2, PushedIf
  <2>4. CASE r.e # "NONE"
    BY <2>1, <2>4, Raises
  <2>5. CASE ~(r.e # "NONE")
    <3>1. Parsed(PushIf(WantsResult(Mode), PastName, r.v), r.m)
      BY <2>1, <2>5
    <3> QED
      BY <2>3, <3>1, ParsedOn DEF Running
  <2> QED
    BY <2>4, <2>5
<1>6. CASE ParseReference
  BY <1>6, NameOperandParsed DEF ParseReference
<1> QED
  BY <1>1, <1>2, <1>3, <1>4, <1>5, <1>6

LEMMA InvocationStep ==
  ASSUME StackInv, Running, ParseInvocation
  PROVE  StackInv'
<1> DEFINE item == [kind |-> "INVOKE", frame |-> Frame(S), argc |-> M.ns.node[NameTarget].data.argc,
                    want |-> WantsResult(Mode)]
           s == Push(PastName, "stack", item)
           r == Push(s, "opstack", Resolved(NameTarget))
<1>1. Parsed(r, M)
  BY DEF ParseInvocation
<1>2. Ahead(PastName, 0, 0) /\ PastName.stack = S.stack /\ Len(S.stack) > 0
  BY CommittedStacks, WorkingStacks, TopFacts DEF PastName
<1>3. "kind" \in DOMAIN item /\ item.kind \notin WithCode
  BY DEF WithCode, WithContext, Packages
<1> HIDE DEF item
<1>4. Ahead(s, 0, 0)
  BY <1>2, <1>3, PushedItem
<1> HIDE DEF s
<1>5. Ahead(r, 0, 0)
  BY <1>4, PushedOperand
<1> HIDE DEF r
<1> QED
  BY <1>1, <1>5, ParsedOn DEF Running

LEMMA DataSteps ==
  ASSUME StackInv, Running,
         ParseNop \/ ParseConstant \/ ParseString \/ ParseVariable \/ ParseDebug
  PROVE  StackInv'
<1>0. /\ Ahead(Committed({}, Next1), 0, 0)
      /\ Ahead(Committed({"opstack"}, Next1), 0, 0)
      /\ status = "run"
  BY CommittedStacks DEF Running
<1>1. CASE ParseNop
  BY <1>0, <1>1, ParsedOn DEF ParseNop
<1>2. CASE ParseConstant
  <2>1. \/ Operand(Object(Integer(ConstantOf(Token))))
        \/ Operand([tag |-> "NULL_NAME"])
        \/ Parsed(Committed({"opstack"}, Next1), M)
        \/ Halt("PANIC")
    BY <1>2 DEF ParseConstant
  <2> QED
    BY <1>0, <2>1, OperandParsed, ParsedOn, Halts
<1>3. CASE ParseString
  <2>1. PICK r : \/ Parsed(Push(Committed({"opstack"}, Next1), "opstack", Object(r.v)), r.m)
                 \/ Parsed(Committed({"opstack"}, Next1), M)
                 \/ Halt("PANIC")
    BY <1>3 DEF ParseString
  <2>2. Ahead(Push(Committed({"opstack"}, Next1), "opstack", Object(r.v)), 0, 0)
    BY <1>0, PushedOperand
  <2> QED
    BY <1>0, <2>1, <2>2, ParsedOn, Halts
<1>4. CASE ParseVariable
  <2>1. (\E x : Operand(x)) \/ Halt("PANIC")
    BY <1>4 DEF ParseVariable
  <2> QED
    BY <2>1, OperandParsed, Halts
<1>5. CASE ParseDebug
  BY <1>5, OperandParsed, Halts DEF ParseDebug
<1> QED
  BY <1>1, <1>2, <1>3, <1>4, <1>5

LEMMA BufferSteps ==
  ASSUME StackInv, Running, ParseBuffer \/ ParsePackage \/ ParseBankField
  PROVE  StackInv'
<1>1. CASE ParseBuffer
  <2> DEFINE s == Committed({"blkstack", "stack"}, PastPackage)
             r == WithBlock(s, Next1, PastPackage)
             item == [kind |-> "BUFFER", frame |-> Frame(s), want |-> WantsResult(Mode)]
  <2>1. NewItem(item, r)
    BY <1>1 DEF ParseBuffer
  <2>2. Ahead(r, 0, 1) /\ Len(r.stack) > 0
    BY RoomForCode
  <2>3. "kind" \in DOMAIN item /\ item.kind \in WithCode \ WithContext
    BY DEF WithCode, WithContext
  <2> HIDE DEF r, item
  <2> QED
    BY <2>1, <2>2, <2>3, CodeParsed
<1>2. CASE ParsePackage
  <2> DEFINE s == Committed({"opstack", "blkstack", "stack"}, PastPackage)
             r == WithBlock(s, Next1, PastPackage)
             y == Push(r, "opstack", Object(NoData))
             kind == IF Token.op = "Package" THEN "PACKAGE" ELSE "VARPACKAGE"
             item == [kind |-> kind, frame |-> Frame(s), index |-> 0, phase |-> 0, want |-> WantsResult(Mode)]
  <2>1. NewItem(item, y)
    BY <1>2 DEF ParsePackage
  <2>2. Ahead(r, 0, 1) /\ Len(r.stack) > 0
    BY RoomForCode
  <2>3. "kind" \in DOMAIN item /\ item.kind \in WithCode \ WithContext
    BY DEF WithCode, WithContext, Packages
  <2> HIDE DEF r, item
  <2>4. Ahead(y, 0, 1) /\ y.stack = r.stack
    BY <2>2, PushedOperand
  <2> HIDE DEF y
  <2> QED
    BY <2>1, <2>2, <2>3, <2>4, CodeParsed
<1>3. CASE ParseBankField
  <2> DEFINE region == lai_do_resolve(M.ns, Ctx.handle, Token.region)
             bank == lai_do_resolve(M.ns, Ctx.handle, Token.bank)
             s == Committed({"blkstack", "stack", "opstack"}, PastPackage)
             r == WithBlock(s, Next1, PastPackage)
             y == Push(r, "opstack", Resolved(region))
             z == Push(y, "opstack", Resolved(bank))
             item == [kind |-> "BANKFIELD", frame |-> Frame(s)]
  <2>1. Halt("PANIC") \/ NewItem(item, z)
    BY <1>3 DEF ParseBankField
  <2>2. Ahead(r, 0, 1) /\ Len(r.stack) > 0
    BY RoomForCode
  <2>3. "kind" \in DOMAIN item /\ item.kind \in WithCode \ WithContext
    BY DEF WithCode, WithContext
  <2> HIDE DEF r, item
  <2>4. Ahead(y, 0, 1) /\ y.stack = r.stack
    BY <2>2, PushedOperand
  <2> HIDE DEF y
  <2>5. Ahead(z, 0, 1) /\ z.stack = y.stack
    BY <2>4, PushedOperand
  <2> HIDE DEF z
  <2> QED
    BY <2>1, <2>2, <2>3, <2>4, <2>5, CodeParsed, Halts
<1> QED
  BY <1>1, <1>2, <1>3

LEMMA FlowSteps ==
  ASSUME StackInv, Running, ParseReturn \/ ParseWhile \/ ParseIf \/ ParseElse
  PROVE  StackInv'
<1>1. CASE ParseReturn
  <2> DEFINE s == Committed({"stack"}, Next1)
             item == [kind |-> "RETURN", frame |-> Frame(s)]
  <2>1. NewItem(item, s)
    BY <1>1 DEF ParseReturn
  <2>2. Ahead(s, 0, 0) /\ Len(s.stack) > 0
    BY CommittedStacks, WorkingStacks, TopFacts
  <2>3. "kind" \in DOMAIN item /\ item.kind \notin WithCode
    BY DEF WithCode, WithContext, Packages
  <2> HIDE DEF s, item
  <2> QED
    BY <2>1, <2>2, <2>3, ItemParsed
<1>2. CASE ParseWhile
  <2> DEFINE s == Committed({"blkstack", "stack"}, PastPackage)
             r == WithBlock(s, Next1, PastPackage)
             item == [kind |-> "LOOP", frame |-> Frame(s), branch |-> FALSE, pred |-> Next1]
  <2>1. NewItem(item, r)
    BY <1>2 DEF ParseWhile
  <2>2. Ahead(r, 0, 1) /\ Len(r.stack) > 0
    BY RoomForCode
  <2>3. "kind" \in DOMAIN item /\ item.kind \in WithCode \ WithContext
    BY DEF WithCode, WithContext
  <2> HIDE DEF r, item
  <2> QED
    BY <2>1, <2>2, <2>3, CodeParsed
<1>3. CASE ParseIf
  <2> DEFINE else == PastPackage < Blk.limit /\ code[PastPackage].op = "Else"
             past == IF else THEN PastPackage + 1 + code[PastPackage].size ELSE PastPackage
             s == Committed({"blkstack", "stack"}, past)
             r == WithBlock(s, Next1, PastPackage)
             item == [kind |-> "COND", frame |-> Frame(s), branch |-> FALSE, else |-> else,
                      else_pc |-> PastPackage + 1, else_limit |-> past]
  <2>1. NewItem(item, r)
    BY <1>3 DEF ParseIf
  <2> HIDE DEF past
  <2>2. Ahead(r, 0, 1) /\ Len(r.stack) > 0
    BY RoomForCode
  <2>3. "kind" \in DOMAIN item /\ item.kind \in WithCode \ WithContext
    BY DEF WithCode, WithContext
  <2> HIDE DEF r, item
  <2> QED
    BY <2>1, <2>2, <2>3, CodeParsed
<1>4. CASE ParseElse
  BY <1>4, Halts DEF ParseElse
<1> QED
  BY <1>1, <1>2, <1>3, <1>4

\* The items that a jump leaves, when the innermost loop lies n items deep.
LEMMA LoopLeft ==
  ASSUME NEW s, Ahead(s, 0, 0), ~(Nested("LOOP", s.stack) < 0)
  PROVE  /\ Ahead(Unnest(s, Nested("LOOP", s.stack)), 0, 0)
         /\ Ahead(Unnest(s, Nested("LOOP", s.stack) + 1), 0, 0)
<1> DEFINE n == Nested("LOOP", s.stack)
           q == s.stack
<1>1. IsSeq(q) /\ Len(q) \in Nat
  BY AheadFacts
<1>2. /\ n \in 0 .. Len(q) - 1 /\ q[Len(q) - n].kind = "LOOP"
      /\ \A i \in Len(q) - n + 1 .. Len(q) : q[i].kind \in {"COND", "LOOP"}
  BY <1>1, NestedFacts
<1>3. /\ "COND" \in WithCode /\ "LOOP" \in WithCode
      /\ "COND" \notin WithContext /\ "LOOP" \notin WithContext
  BY DEF WithCode, WithContext
<1> HIDE DEF n
<1>4. /\ n \in Nat /\ n + 1 \in Nat /\ n <= Len(q) /\ n + 1 <= Len(q) /\ 0 \in Nat /\ 0 + 0 = 0
  BY <1>1, <1>2
<1>5. \A i \in Len(q) - (n + 1) + 1 .. Len(q) : i = Len(q) - n \/ i \in Len(q) - n + 1 .. Len(q)
  BY <1>1, <1>4
<1>6. \A i \in Len(q) - (n + 1) + 1 .. Len(q) : q[i].kind \in {"COND", "LOOP"}
  BY <1>2, <1>5
<1>7. Ahead(Unnest(s, n), 0, 0)
  <2>1. /\ \A i \in Len(q) - n + 1 .. Len(q) : q[i].kind \in WithCode
        /\ \A i \in Len(q) - n + 1 .. Len(q) : q[i].kind \notin WithContext
    BY <1>2, <1>3
  <2>2. Cardinality(Upper(q, n, WithContext)) = 0
    BY <2>1, UpperNone
  <2>3. Ahead(Unnest(s, n), 0 + 0, 0)
    BY <1>4, <2>1, <2>2, Unnested
  <2> QED
    BY <1>4, <2>3
<1>8. Ahead(Unnest(s, n + 1), 0, 0)
  <2>1. /\ \A i \in Len(q) - (n + 1) + 1 .. Len(q) : q[i].kind \in WithCode
        /\ \A i \in Len(q) - (n + 1) + 1 .. Len(q) : q[i].kind \notin WithContext
    BY <1>3, <1>6
  <2>2. Cardinality(Upper(q, n + 1, WithContext)) = 0
    BY <2>1, UpperNone
  <2>3. Ahead(Unnest(s, n + 1), 0 + 0, 0)
    BY <1>4, <2>1, <2>2, Unnested
  <2> QED
    BY <1>4, <2>3
<1> QED
  BY <1>7, <1>8 DEF n

\* A return leaves a method: its context is still to be taken off.
LEMMA MethodLeft ==
  ASSUME NEW s, Ahead(s, 0, 0), ~(Nested("METHOD", s.stack) < 0)
  PROVE  Ahead(Unnest(s, Nested("METHOD", s.stack) + 1), 1, 0)
<1> DEFINE n == Nested("METHOD", s.stack)
           q == s.stack
           m == n + 1
<1>1. IsSeq(q) /\ Len(q) \in Nat
  BY AheadFacts
<1>2. /\ n \in 0 .. Len(q) - 1 /\ q[Len(q) - n].kind = "METHOD"
      /\ \A i \in Len(q) - n + 1 .. Len(q) : q[i].kind \in {"COND", "LOOP"}
  BY <1>1, NestedFacts
<1>3. /\ "COND" \in WithCode /\ "LOOP" \in WithCode /\ "METHOD" \in WithCode
      /\ "COND" \notin WithContext /\ "LOOP" \notin WithContext /\ "METHOD" \in WithContext
  BY DEF WithCode, WithContext
<1> HIDE DEF n
<1>4. /\ m \in Nat /\ 1 <= m /\ m <= Len(q) /\ 1 \in Nat
      /\ Len(q) - m + 1 = Len(q) - n /\ Len(q) - m + 2 = Len(q) - n + 1
  BY <1>1, <1>2
<1>5. \A i \in Len(q) - m + 1 .. Len(q) : i = Len(q) - n \/ i \in Len(q) - n + 1 .. Len(q)
  BY <1>1, <1>2, <1>4
<1> HIDE DEF m
<1>6. \A i \in Len(q) - m + 1 .. Len(q) : q[i].kind \in WithCode
  BY <1>2, <1>3, <1>5
<1>7. /\ q[Len(q) - m + 1].kind \in WithContext
      /\ \A i \in Len(q) - m + 2 .. Len(q) : q[i].kind \notin WithContext
  BY <1>2, <1>3, <1>4
<1>8. Cardinality(Upper(q, m, WithContext)) = 1
  BY <1>1, <1>4, <1>7, UpperLowest
<1>9. Ahead(Unnest(s, m), 0 + 1, 0)
  BY <1>4, <1>6, <1>8, Unnested
<1> QED
  BY <1>9 DEF m, n

LEMMA JumpSteps ==
  ASSUME StackInv, Running, ParseContinue \/ ParseBreak
  PROVE  StackInv'
<1> DEFINE n == Nested("LOOP", S.stack)
<1>1. CASE n < 0
  <2>1. Halt("PANIC")
    BY <1>1 DEF ParseContinue, ParseBreak
  <2> QED
    BY <2>1, Halts
<1>2. CASE ~(n < 0)
  <2>1. Ahead(Unnest(S, n), 0, 0) /\ Ahead(Unnest(S, n + 1), 0, 0)
    BY <1>2, WorkingStacks, LoopLeft
  <2>2. Parsed(Unnest(S, n), M) \/ Parsed(Unnest(S, n + 1), M)
    BY <1>2 DEF ParseContinue, ParseBreak
  <2> QED
    BY <2>1, <2>2, ParsedOn DEF Running
<1> QED
  BY <1>1, <1>2

\* A scope begins with a block, a context and an item.
LEMMA Populated ==
  ASSUME NEW s, Ahead(s, 0, 0), NEW handle
  PROVE  Ahead(Populate(s, handle), 0, 0)
<1> DEFINE r == WithBlock(s, Next1, PastPackage)
           y == Push(r, "ctxstack", [handle |-> handle, inv |-> 0])
           item == [kind |-> "POPULATE", frame |-> 0]
<1>1. Populate(s, handle) = Push(y, "stack", item)
  BY DEF Populate
<1>2. Ahead(r, 0, 0 + 1)
  BY PushedBlock
<1> HIDE DEF r
<1>3. Ahead(y, 0 + 1, 0 + 1)
  BY <1>2, PushedContext
<1>4. "kind" \in DOMAIN item /\ item.kind \in WithContext
  BY DEF WithContext
<1> HIDE DEF y, item
<1>5. Ahead(y, 1, 1)
  BY <1>3
<1>6. Ahead(Push(y, "stack", item), 1 - 1, 1 - 1)
  BY <1>4, <1>5, PushedScope
<1>7. Ahead(Push(y, "stack", item), 0, 0)
  BY <1>6
<1> QED
  BY <1>1, <1>7

LEMMA DeclarationSteps ==
  ASSUME StackInv, Running,
         \/ ParseScope \/ ParseScopeObject \/ ParseMethod \/ ParseSync \/ ParseAlias
         \/ ParseField \/ ParseIndexField
  PROVE  StackInv'
<1>0. /\ status = "run"
      /\ Ahead(Committed({}, Next1), 0, 0) /\ Ahead(Committed({}, PastPackage), 0, 0)
      /\ Ahead(RoomForScope, 0, 0)
  BY CommittedStacks DEF Running, RoomForScope
<1>1. CASE ParseScope
  <2>1. Raise("UNEXPECTED_RESULT", M) \/ Parsed(Populate(RoomForScope, NameTarget), M)
    BY <1>1 DEF ParseScope
  <2>2. Ahead(Populate(RoomForScope, NameTarget), 0, 0)
    BY <1>0, Populated
  <2> QED
    BY <1>0, <2>1, <2>2, Raises, ParsedOn
<1>2. CASE ParseScopeObject
  <2> DEFINE s == Populate(RoomForScope, Len(M.ns.node) + 1)
  <2>1. \E r : After(r, s)
    BY <1>2 DEF ParseScopeObject, Declare
  <2>2. Ahead(s, 0, 0)
    BY <1>0, Populated
  <2> QED
    BY <1>0, <2>1, <2>2, Follows
<1>3. CASE ParseMethod
  <2>1. \E r : After(r, Committed({}, PastPackage))
    BY <1>3 DEF ParseMethod, Declare
  <2> QED
    BY <1>0, <2>1, Follows
<1>4. CASE ParseSync
  <2>1. \E r : After(r, Committed({}, Next1))
    BY <1>4 DEF ParseSync, Declare
  <2> QED
    BY <1>0, <2>1, Follows
<1>5. CASE ParseAlias
  BY <1>0, <1>5, Follows DEF ParseAlias
<1>6. CASE ParseField
  BY <1>0, <1>6, Follows DEF ParseField
<1>7. CASE ParseIndexField
  BY <1>0, <1>7, Follows DEF ParseIndexField
<1> QED
  BY <1>1, <1>2, <1>3, <1>4, <1>5, <1>6, <1>7

LEMMA OperatorSteps ==
  ASSUME StackInv, Running, ParseNode \/ ParseOperator
  PROVE  StackInv'
<1> DEFINE s == Committed({"stack"}, Next1)
<1>1. Ahead(s, 0, 0) /\ Len(s.stack) > 0
  BY CommittedStacks, WorkingStacks, TopFacts
<1>2. CASE ParseNode
  <2> DEFINE item == [kind |-> "NODE", frame |-> Frame(s), op |-> Token.op, modes |-> NodeModes[Token.op]]
  <2>1. NewItem(item, s)
    BY <1>2 DEF ParseNode
  <2>2. "kind" \in DOMAIN item /\ item.kind \notin WithCode
    BY DEF WithCode, WithContext, Packages
  <2> HIDE DEF s, item
  <2> QED
    BY <1>1, <2>1, <2>2, ItemParsed
<1>3. CASE ParseOperator
  <2> DEFINE item == [kind |-> "OP", frame |-> Frame(s), op |-> Token.op, modes |-> OpModes[Token.op],
                      want |-> WantsResult(Mode)]
  <2>1. NewItem(item, s)
    BY <1>3 DEF ParseOperator
  <2>2. "kind" \in DOMAIN item /\ item.kind \notin WithCode
    BY DEF WithCode, WithContext, Packages
  <2> HIDE DEF s, item
  <2> QED
    BY <1>1, <2>1, <2>2, ItemParsed
<1> QED
  BY <1>2, <1>3

-----------------------------------------------------------------------------
(***************************************************************************)
(* lai_exec_process(): items that have what they need.                     *)
(***************************************************************************)
\* The top item of a kind with a context, with a block only, or with neither.
LEMMA TopKind ==
  ASSUME StackInv, Running, NEW s, Ahead(s, 0, 0), s.stack = S.stack
  PROVE  /\ Top.kind \in WithContext => Ahead(DoneWithBlock(s), 1, 0)
         /\ Top.kind \in WithCode \ WithContext => Ahead(DoneWithBlock(s), 0, 0)
         /\ Top.kind \notin WithCode => Ahead(Done(s), 0, 0)
<1>1. Len(s.stack) > 0 /\ TopOf(s.stack).kind = Top.kind
  BY WorkingStacks, TopFacts
<1>2. CASE Top.kind \in WithContext
  <2>1. Ahead(DoneWithBlock(s), 1, 0)
    BY <1>1, <1>2, DoneScope
  <2>2. Top.kind \in WithCode
    BY <1>2 DEF WithCode
  <2> QED
    BY <1>2, <2>1, <2>2
<1>3. CASE Top.kind \in WithCode \ WithContext
  BY <1>1, <1>3, DoneCode
<1>4. CASE Top.kind \notin WithCode
  <2>1. Ahead(Done(s), 0, 0)
    BY <1>1, <1>4, DoneItem
  <2>2. Top.kind \notin WithContext
    BY <1>4 DEF WithCode
  <2> QED
    BY <1>4, <2>1, <2>2
<1> QED
  BY <1>2, <1>3, <1>4

LEMMA ScopeSteps ==
  ASSUME StackInv, Running, EndPopulate \/ EndMethod
  PROVE  StackInv'
<1>0. status = "run" /\ Ahead(S, 0, 0) /\ 1 >= 1
  BY WorkingStacks DEF Running
<1>1. Top.kind \in WithContext
  BY DEF EndPopulate, EndMethod, Reduces, WithContext
<1>2. CASE EndPopulate
  <2> DEFINE s == DoneWithBlock(S)
             r == Pop(s, "ctxstack", 1)
  <2>1. Ahead(s, 1, 0)
    BY <1>0, <1>1, TopKind
  <2>2. Proceed(r, M)
    BY <1>2 DEF EndPopulate
  <2> HIDE DEF s
  <2>3. Ahead(r, 1 - 1, 0)
    BY <1>0, <2>1, PoppedContext
  <2>4. Ahead(r, 0, 0)
    BY <2>3
  <2> HIDE DEF r
  <2> QED
    BY <1>0, <2>2, <2>4, Proceeds
<1>3. CASE EndMethod
  <2> DEFINE q == Reserve(S, {"opstack"})
             s == DoneWithBlock(q)
             r == Pop(s, "ctxstack", 1)
             y == PushIf(Top.want, r, Integer(0))
  <2>1. Halt("PANIC") \/ (\E m : Proceed(y, m))
    BY <1>3 DEF EndMethod
  <2>2. Ahead(q, 0, 0) /\ q.stack = S.stack
    BY <1>0, Reserved
  <2> HIDE DEF q
  <2>3. Ahead(s, 1, 0)
    BY <1>1, <2>2, TopKind
  <2> HIDE DEF s
  <2>4. Ahead(r, 1 - 1, 0)
    BY <1>0, <2>3, PoppedContext
  <2>5. Ahead(r, 0, 0)
    BY <2>4
  <2> HIDE DEF r
  <2>6. Ahead(y, 0, 0)
    BY <2>5, PushedIf
  <2> HIDE DEF y
  <2> QED
    BY <1>0, <2>1, <2>6, Halts, Proceeds
<1> QED
  BY <1>2, <1>3

LEMMA BufferEnds ==
  ASSUME StackInv, Running, ReduceBuffer \/ EndPackage
  PROVE  StackInv'
<1>0. status = "run" /\ Ahead(S, 0, 0)
  BY WorkingStacks DEF Running
<1> DEFINE s == DoneWithBlock(S)
           p == Pop(s, "opstack", 1)
<1>1. Top.kind \in WithCode \ WithContext
  BY DEF ReduceBuffer, EndPackage, Reduces, WithContext, WithCode, Packages
<1>2. Ahead(s, 0, 0)
  BY <1>0, <1>1, TopKind
<1>3. CASE ReduceBuffer
  <2>1. Halt("PANIC") \/ (\E v, m : Proceed(PushIf(Top.want, p, v), m))
    BY <1>3 DEF ReduceBuffer
  <2> HIDE DEF s
  <2>2. Ahead(p, 0, 0)
    BY <1>2, PoppedOperands
  <2> HIDE DEF p
  <2>3. \A v : Ahead(PushIf(Top.want, p, v), 0, 0)
    BY <2>2, PushedIf
  <2> QED
    BY <1>0, <2>1, <2>3, Halts, Proceeds
<1>4. CASE EndPackage
  <2>1. Halt("PANIC") \/ Proceed(s, M) \/ Proceed(p, M)
    BY <1>4 DEF EndPackage
  <2> HIDE DEF s
  <2>2. Ahead(p, 0, 0)
    BY <1>2, PoppedOperands
  <2> HIDE DEF p
  <2> QED
    BY <1>0, <1>2, <2>1, <2>2, Halts, Proceeds
<1> QED
  BY <1>3, <1>4

LEMMA CreatePackageStep ==
  ASSUME StackInv, Running, CreatePackage
  PROVE  StackInv'
<1> DEFINE s == Pop(S, "opstack", 1)
<1>1. status = "run" /\ Ahead(s, 0, 0)
  BY WorkingStacks, PoppedOperands DEF Running
<1>2. PICK v, m :
        \/ \E e : Raise(e, M)
        \/ Proceed([s EXCEPT !.opstack[Top.frame + 1] = v, !.stack[Len(s.stack)].phase = 2], m)
  BY DEF CreatePackage
<1> HIDE DEF s
<1> DEFINE k == Len(s.stack)
           o == [s.opstack EXCEPT ![Top.frame + 1] = v]
           r == [s EXCEPT !.opstack = o]
           x == [r.stack[k] EXCEPT !.phase = 2]
           y == [s EXCEPT !.opstack[Top.frame + 1] = v, !.stack[Len(s.stack)].phase = 2]
<1>3. Ahead(r, 0, 0) /\ r.stack = s.stack
  BY <1>1, OperandsApart
<1>4. y = [r EXCEPT !.stack[k] = x]
  <2>1. s = [ctxstack |-> s.ctxstack, blkstack |-> s.blkstack, stack |-> s.stack,
             opstack |-> s.opstack, cap |-> s.cap]
    BY <1>1 DEF Ahead, Shaped
  <2> QED
    BY <2>1
<1>5. k \in DOMAIN r.stack => "kind" \in DOMAIN r.stack[k]
  BY <1>3 DEF Ahead, Shaped, Items_OK
<1>6. k \in DOMAIN r.stack => "kind" \in DOMAIN x /\ x.kind = r.stack[k].kind
  BY <1>5
<1>7. Proceed(y, m) \/ (\E e : Raise(e, M))
  BY <1>2
<1> HIDE DEF r, x, k, y
<1>8. Ahead(y, 0, 0)
  BY <1>3, <1>4, <1>6, ItemChanged
<1> QED
  BY <1>1, <1>7, <1>8, Proceeds, Raises

LEMMA OperationSteps ==
  ASSUME StackInv, Running, ReduceNode \/ ReduceOperator
  PROVE  StackInv'
<1>0. status = "run" /\ Ahead(S, 0, 0)
  BY WorkingStacks DEF Running
<1>1. Top.kind \notin WithCode
  BY DEF ReduceNode, ReduceOperator, Reduces, WithContext, WithCode, Packages
<1>2. CASE ReduceNode
  <2> DEFINE s == Done(S)
             r == Pop(s, "opstack", Count)
  <2>1. (\E e : Halt(e)) \/ (\E m : Proceed(r, m))
    BY <1>2 DEF ReduceNode
  <2>2. Ahead(s, 0, 0)
    BY <1>0, <1>1, TopKind
  <2> HIDE DEF s
  <2>3. Ahead(r, 0, 0)
    BY <2>2, PoppedOperands
  <2> HIDE DEF r
  <2> QED
    BY <1>0, <2>1, <2>3, Halts, Proceeds
<1>3. CASE ReduceOperator
  <2> DEFINE q == Reserve(S, {"opstack"})
             s == Done(q)
             y == Pop(s, "opstack", Count)
  <2>1. PICK r : After(r, PushIf(Top.want, y, r.v))
    BY <1>3 DEF ReduceOperator
  <2>2. Ahead(q, 0, 0) /\ q.stack = S.stack
    BY <1>0, Reserved
  <2> HIDE DEF q
  <2>3. Ahead(s, 0, 0)
    BY <1>1, <2>2, TopKind
  <2> HIDE DEF s
  <2>4. Ahead(y, 0, 0)
    BY <2>3, PoppedOperands
  <2> HIDE DEF y
  <2>5. Ahead(PushIf(Top.want, y, r.v), 0, 0)
    BY <2>4, PushedIf
  <2> QED
    BY <1>0, <2>1, <2>5, Follows
<1> QED
  BY <1>2, <1>3

\* A method begins with a block, a context and an item, over the operands of its call.
LEMMA InvokeStep ==
  ASSUME StackInv, Running, InvokeMethod
  PROVE  StackInv'
<1>0. status = "run" /\ Ahead(S, 0, 0)
  BY WorkingStacks DEF Running
<1>1. Top.kind \notin WithCode
  BY DEF InvokeMethod, Reduces, WithContext, WithCode, Packages
<1> DEFINE q == Reserve(S, {"ctxstack", "blkstack"})
           s == Pop(Done(q), "opstack", Count)
           item == [kind |-> "METHOD", frame |-> 0, want |-> Top.want]
<1>2. \/ \E e : Raise(e, M)
      \/ \E v, m : Proceed(PushIf(Top.want, s, v), m)
      \/ \E pc, limit, ctx, m :
           Proceed(Push(Push(WithBlock(s, pc, limit), "ctxstack", ctx), "stack", item), m)
  BY DEF InvokeMethod
<1>3. Ahead(q, 0, 0) /\ q.stack = S.stack
  BY <1>0, Reserved
<1>4. "kind" \in DOMAIN item /\ item.kind \in WithContext
  BY DEF WithContext
<1> HIDE DEF q, item
<1>5. Ahead(Done(q), 0, 0)
  BY <1>1, <1>3, TopKind
<1>6. Ahead(s, 0, 0)
  BY <1>5, PoppedOperands
<1> HIDE DEF s
<1>7. CASE \E e : Raise(e, M)
  BY <1>7, Raises
<1>8. CASE \E v, m : Proceed(PushIf(Top.want, s, v), m)
  <2>1. PICK v, m : Proceed(PushIf(Top.want, s, v), m)
    BY <1>8
  <2>2. Ahead(PushIf(Top.want, s, v), 0, 0)
    BY <1>6, PushedIf
  <2> QED
    BY <1>0, <2>1, <2>2, Proceeds
<1>9. CASE \E pc, limit, ctx, m :
             Proceed(Push(Push(WithBlock(s, pc, limit), "ctxstack", ctx), "stack", item), m)
  <2>1. PICK pc, limit, ctx, m :
          Proceed(Push(Push(WithBlock(s, pc, limit), "ctxstack", ctx), "stack", item), m)
    BY <1>9
  <2> DEFINE r == WithBlock(s, pc, limit)
             y == Push(r, "ctxstack", ctx)
             z == Push(y, "stack", item)
  <2>2. Ahead(r, 0, 0 + 1)
    BY <1>6, PushedBlock
  <2> HIDE DEF r
  <2>3. Ahead(y, 0 + 1, 0 + 1)
    BY <2>2, PushedContext
  <2>4. Ahead(y, 1, 1)
    BY <2>3
  <2> HIDE DEF y
  <2>5. Ahead(z, 1 - 1, 1 - 1)
    BY <1>4, <2>4, PushedScope
  <2>6. Ahead(z, 0, 0)
    BY <2>5
  <2>7. Proceed(z, m)
    BY <2>1 DEF y, r
  <2> HIDE DEF z
  <2> QED
    BY <1>0, <2>6, <2>7, Proceeds
<1> QED
  BY <1>2, <1>7, <1>8, <1>9

LEMMA ReturnStep ==
  ASSUME StackInv, Running, ReduceReturn
  PROVE  StackInv'
<1> DEFINE p == Pop(S, "opstack", 1)
           s == Done(p)
           n == Nested("METHOD", s.stack)
           want == s.stack[Len(s.stack) - n].want
<1>0. status = "run" /\ Ahead(p, 0, 0) /\ p.stack = S.stack /\ 1 >= 1
  BY WorkingStacks, PoppedOperands DEF Running
<1>1. Top.kind \notin WithCode
  BY DEF ReduceReturn, Reduces, WithContext, WithCode, Packages
<1>2. \/ Halt("PANIC")
      \/ ~(n < 0) /\ \E v, m : Proceed(Pop(Unnest(PushIf(want, s, v), n + 1), "ctxstack", 1), m)
  <2>1. CASE n < 0
    BY <2>1 DEF ReduceReturn
  <2>2. CASE ~(n < 0)
    BY <2>2 DEF ReduceReturn
  <2> QED
    BY <2>1, <2>2
<1> HIDE DEF p
<1>3. Ahead(s, 0, 0)
  BY <1>0, <1>1, TopKind
<1> HIDE DEF s, want
<1>4. CASE Halt("PANIC")
  BY <1>4, Halts
<1>5. CASE ~(n < 0) /\ \E v, m : Proceed(Pop(Unnest(PushIf(want, s, v), n + 1), "ctxstack", 1), m)
  <2>1. PICK v, m : Proceed(Pop(Unnest(PushIf(want, s, v), n + 1), "ctxstack", 1), m)
    BY <1>5
  <2> DEFINE r == PushIf(want, s, v)
             y == Unnest(r, n + 1)
             z == Pop(y, "ctxstack", 1)
  <2>2. Ahead(r, 0, 0) /\ r.stack = s.stack
    BY <1>3, PushedIf
  <2>3. Proceed(z, m)
    BY <2>1
  <2> HIDE DEF r
  <2>4. Ahead(y, 1, 0)
    BY <1>5, <2>2, MethodLeft
  <2> HIDE DEF y
  <2>5. Ahead(z, 1 - 1, 0)
    BY <1>0, <2>4, PoppedContext
  <2>6. Ahead(z, 0, 0)
    BY <2>5
  <2> HIDE DEF z
  <2> QED
    BY <1>0, <2>3, <2>6, Proceeds
<1> QED
  BY <1>2, <1>4, <1>5

\* The predicate of a loop or a condition is taken, and the item goes on or is left.
LEMMA BranchTaken ==
  ASSUME NEW s, Ahead(s, 0, 0), NEW to
  PROVE  Ahead([s EXCEPT !.stack[Len(s.stack)].branch = to], 0, 0)
<1> DEFINE k == Len(s.stack)
           x == [s.stack[k] EXCEPT !.branch = to]
<1>1. k \in DOMAIN s.stack => "kind" \in DOMAIN s.stack[k]
  BY DEF Ahead, Shaped, Items_OK
<1>2. k \in DOMAIN s.stack => "kind" \in DOMAIN x /\ x.kind = s.stack[k].kind
  BY <1>1
<1>3. [s EXCEPT !.stack[Len(s.stack)].branch = to] = [s EXCEPT !.stack[k] = x]
  OBVIOUS
<1> HIDE DEF k, x
<1> QED
  BY <1>2, <1>3, ItemChanged

LEMMA BranchSteps ==
  ASSUME StackInv, Running, DecideLoop \/ IterateLoop \/ DecideCondition \/ EndCondition
  PROVE  StackInv'
<1> DEFINE p == Pop(S, "opstack", 1)
<1>0. status = "run" /\ Ahead(S, 0, 0) /\ Ahead(p, 0, 0) /\ p.stack = S.stack
  BY WorkingStacks, PoppedOperands DEF Running
<1>1. Top.kind \in WithCode \ WithContext
  BY DEF DecideLoop, IterateLoop, DecideCondition, EndCondition, Decides, Reduces, WithContext, WithCode
<1>2. Ahead(DoneWithBlock(S), 0, 0)
  BY <1>0, <1>1, TopKind
<1>3. CASE DecideLoop
  <2>1. (\E e : Raise(e, M)) \/ Proceed(Branch(p), M) \/ Proceed(DoneWithBlock(p), M)
    BY <1>3 DEF DecideLoop
  <2> HIDE DEF p
  <2>2. Ahead(Branch(p), 0, 0) /\ Ahead(DoneWithBlock(p), 0, 0)
    BY <1>0, <1>1, BranchTaken, TopKind DEF Branch
  <2> QED
    BY <1>0, <2>1, <2>2, Raises, Proceeds
<1>4. CASE IterateLoop
  <2> DEFINE r == [S EXCEPT !.stack[Len(S.stack)].branch = FALSE]
  <2>1. Proceed(lai_exec_commit_pc(r, Top.pred), M)
    BY <1>4 DEF IterateLoop
  <2>2. Ahead(r, 0, 0)
    BY <1>0, BranchTaken
  <2> HIDE DEF r
  <2>3. Ahead(lai_exec_commit_pc(r, Top.pred), 0, 0)
    BY <2>2, CommittedPc
  <2> QED
    BY <1>0, <2>1, <2>3, Proceeds
<1>5. CASE DecideCondition
  <2> DEFINE x == [pc |-> Top.else_pc, limit |-> Top.else_limit]
             r == [p EXCEPT !.blkstack[Len(p.blkstack)] = x]
  <2>1. \/ \E e : Raise(e, M)
        \/ Proceed(Branch(p), M) \/ Proceed(Branch(r), M) \/ Proceed(DoneWithBlock(p), M)
    <3>1. CASE Predicate.e # "NONE"
      BY <1>5, <3>1 DEF DecideCondition
    <3>2. CASE Predicate.e = "NONE"
      <4>1. Proceed(CASE Predicate.v.n # 0 -> Branch(p)
                      [] Predicate.v.n = 0 /\ Top.else -> Branch(r)
                      [] OTHER -> DoneWithBlock(p), M)
        BY <1>5, <3>2 DEF DecideCondition
      <4> HIDE DEF p, r
      <4>2. CASE Predicate.v.n # 0
        BY <4>1, <4>2
      <4>3. CASE Predicate.v.n = 0 /\ Top.else
        BY <4>1, <4>3
      <4>4. CASE Predicate.v.n = 0 /\ ~Top.else
        BY <4>1, <4>4
      <4> QED
        BY <4>2, <4>3, <4>4
    <3> QED
      BY <3>1, <3>2
  <2> HIDE DEF p, x
  <2>2. Ahead(r, 0, 0)
    BY <1>0, BlockChanged
  <2> HIDE DEF r
  <2>3. Ahead(Branch(p), 0, 0) /\ Ahead(Branch(r), 0, 0) /\ Ahead(DoneWithBlock(p), 0, 0)
    BY <1>0, <1>1, <2>2, BranchTaken, TopKind DEF Branch
  <2> QED
    BY <1>0, <2>1, <2>3, Raises, Proceeds
<1>6. CASE EndCondition
  BY <1>0, <1>2, <1>6, Proceeds DEF EndCondition
<1> QED
  BY <1>3, <1>4, <1>5, <1>6

LEMMA BankFieldStep ==
  ASSUME StackInv, Running, ReduceBankField
  PROVE  StackInv'
<1> DEFINE p == Pop(S, "opstack", 3)
<1>0. status = "run" /\ Ahead(p, 0, 0) /\ p.stack = S.stack
  BY WorkingStacks, PoppedOperands DEF Running
<1>1. Top.kind \in WithCode \ WithContext
  BY DEF ReduceBankField, Reduces, WithContext, WithCode
<1>2. (\E e : Raise(e, M)) \/ (\E r : After(r, DoneWithBlock(p)))
  BY DEF ReduceBankField
<1> HIDE DEF p
<1>3. Ahead(DoneWithBlock(p), 0, 0)
  BY <1>0, <1>1, TopKind
<1> QED
  BY <1>0, <1>2, <1>3, Raises, Follows

LEMMA ProcessStep ==
  ASSUME StackInv, lai_exec_process
  PROVE  StackInv'
<1>1. CASE lai_exec_parse
  <2>1. Running
    BY <1>1 DEF lai_exec_parse, ParseImmediate, ParseNameInData, ParseNewName, ParseMissingName,
                ParseInvocation, ParseAccess, ParseReference, ParseNop, ParseConstant, ParseString,
                ParseVariable, ParseDebug, ParseBuffer, ParsePackage, ParseReturn, ParseWhile, ParseIf,
                ParseElse, ParseContinue, ParseBreak, ParseScope, ParseScopeObject, ParseMethod,
                ParseSync, ParseAlias, ParseNode, ParseField, ParseIndexField, ParseBankField,
                ParseOperator, ParsesName, ParsesToken, Parses
  <2> QED
    BY <1>1, <2>1, NameSteps, InvocationStep, DataSteps, BufferSteps, FlowSteps, JumpSteps,
       DeclarationSteps, OperatorSteps DEF lai_exec_parse
<1>2. CASE Escape
  BY <1>2, Halts DEF Escape
<1>3. CASE ~lai_exec_parse /\ ~Escape
  <2>1. \/ EndPopulate \/ EndMethod \/ ReduceBuffer \/ CreatePackage \/ EndPackage
        \/ ReduceNode \/ ReduceOperator \/ InvokeMethod \/ ReduceReturn
        \/ DecideLoop \/ IterateLoop \/ DecideCondition \/ EndCondition \/ ReduceBankField
    BY <1>3 DEF lai_exec_process
  <2>2. Running
    BY <2>1 DEF EndPopulate, EndMethod, ReduceBuffer, CreatePackage, EndPackage, ReduceNode,
                ReduceOperator, InvokeMethod, ReduceReturn, DecideLoop, IterateLoop, DecideCondition,
                EndCondition, ReduceBankField, Decides, Reduces
  <2> QED
    BY <2>1, <2>2, ScopeSteps, BufferEnds, CreatePackageStep, OperationSteps, InvokeStep, ReturnStep,
       BranchSteps, BankFieldStep
<1> QED
  BY <1>1, <1>2, <1>3

-----------------------------------------------------------------------------
(***************************************************************************)
(* The callers.                                                            *)
(***************************************************************************)
\* A call begins with one context, one block and one item on empty stacks.
LEMMA Entered ==
  ASSUME NEW ctx, NEW blk, NEW item, "kind" \in DOMAIN item, item.kind \in WithContext
  PROVE  Ahead(Push([lai_init_state EXCEPT !.ctxstack = <<ctx>>, !.blkstack = <<blk>>], "stack", item), 0, 0)
<1> DEFINE c == <<ctx>>
           b == <<blk>>
           s == [lai_init_state EXCEPT !.ctxstack = c, !.blkstack = b]
<1>0. lai_init_state = [ctxstack |-> lai_init_state.ctxstack, blkstack |-> lai_init_state.blkstack,
                        stack |-> lai_init_state.stack, opstack |-> lai_init_state.opstack,
                        cap |-> lai_init_state.cap]
  BY DEF lai_init_state
<1> HIDE DEF c, b
<1>1. /\ s.ctxstack = c /\ s.blkstack = b /\ s.stack = lai_init_state.stack
      /\ s = [ctxstack |-> s.ctxstack, blkstack |-> s.blkstack, stack |-> s.stack,
              opstack |-> s.opstack, cap |-> s.cap]
  <2> DEFINE r == lai_init_state
  <2> HIDE DEF r
  <2>1. r = [ctxstack |-> r.ctxstack, blkstack |-> r.blkstack, stack |-> r.stack,
             opstack |-> r.opstack, cap |-> r.cap]
    BY <1>0 DEF r
  <2>2. s = [r EXCEPT !.ctxstack = c, !.blkstack = b]
    BY DEF r
  <2> HIDE DEF s
  <2>3. s = [ctxstack |-> c, blkstack |-> b, stack |-> r.stack, opstack |-> r.opstack, cap |-> r.cap]
    BY <2>1, <2>2
  <2>4. /\ s.ctxstack = c /\ s.blkstack = b /\ s.stack = r.stack
        /\ s = [ctxstack |-> s.ctxstack, blkstack |-> s.blkstack, stack |-> s.stack,
                opstack |-> s.opstack, cap |-> s.cap]
    BY <2>3
  <2> QED
    BY <2>4 DEF r
<1>2. /\ c \in Seq({ctx}) /\ Len(c) = 1
      /\ b \in Seq({blk}) /\ Len(b) = 1
  BY DEF c, b
<1>3. IsSeq(c) /\ IsSeq(b)
  BY <1>2 DEF IsSeq
<1>4. /\ Len(lai_init_state.ctxstack) = 0 /\ Len(lai_init_state.blkstack) = 0
      /\ Items_OK(lai_init_state.stack)
      /\ Tally(lai_init_state.stack, WithContext) = 0 /\ Tally(lai_init_state.stack, WithCode) = 0
  <2>1. Len(lai_init_state.ctxstack) = 0 /\ Len(lai_init_state.blkstack) = 0
    BY DEF lai_init_state
  <2>2. /\ Items_OK(lai_init_state.stack)
        /\ Tally(lai_init_state.stack, WithContext) \in Nat /\ Tally(lai_init_state.stack, WithCode) \in Nat
        /\ Len(lai_init_state.ctxstack) = Tally(lai_init_state.stack, WithContext) + 0
        /\ Len(lai_init_state.blkstack) = Tally(lai_init_state.stack, WithCode) + 0
    BY EmptyStacks, AheadFacts DEF Ahead, Shaped
  <2> QED
    BY <2>1, <2>2
<1> HIDE DEF s
<1>5. Shaped(s)
  BY <1>1, <1>3, <1>4 DEF Shaped
<1>6. /\ 1 \in Nat /\ 1 >= 1 /\ 1 - 1 = 0 /\ 0 + 1 = 1
      /\ Len(s.ctxstack) = Tally(s.stack, WithContext) + 1
      /\ Len(s.blkstack) = Tally(s.stack, WithCode) + 1
  BY <1>1, <1>2, <1>4
<1>7. Ahead(s, 1, 1)
  BY <1>5, <1>6 DEF Ahead
<1>8. Ahead(Push(s, "stack", item), 1 - 1, 1 - 1)
  BY <1>6, <1>7, PushedScope
<1>9. Ahead(Push(s, "stack", item), 0, 0)
  BY <1>6, <1>8
<1> QED
  BY <1>9 DEF s, c, b

LEMMA CallerStep ==
  ASSUME StackInv, lai_populate \/ Finish \/ (\E c \in Calls : lai_eval_args(c)) \/ Rest
  PROVE  StackInv'
<1>1. CASE lai_populate
  <2> DEFINE ctx == [handle |-> Root, inv |-> 0]
             blk == [pc |-> 1, limit |-> Len(code) + 1]
             item == [kind |-> "POPULATE", frame |-> 0]
             s == Push([lai_init_state EXCEPT !.ctxstack = <<ctx>>, !.blkstack = <<blk>>], "stack", item)
  <2>1. state' = s /\ status' = "run"
    BY <1>1 DEF lai_populate, Begin
  <2>2. "kind" \in DOMAIN item /\ item.kind \in WithContext
    BY DEF WithContext
  <2> HIDE DEF ctx, blk, item
  <2>3. Ahead(s, 0, 0)
    BY <2>2, Entered
  <2> HIDE DEF s
  <2> QED
    BY <2>1, <2>3 DEF StackInv
<1>2. CASE Finish
  <2>1. CASE Halt("PANIC")
    BY <2>1, Halts
  <2>2. CASE ~Halt("PANIC")
    <3>1. status' = "idle" /\ state' = lai_init_state
      BY <1>2, <2>2 DEF Finish
    <3> QED
      BY <3>1, EmptyStacks DEF StackInv
  <2> QED
    BY <2>1, <2>2
<1>3. CASE \E c \in Calls : lai_eval_args(c)
  <2>1. PICK c \in Calls : lai_eval_args(c)
    BY <1>3
  <2>2. status = "idle" /\ state = lai_init_state
    BY <2>1 DEF lai_eval_args, StackInv
  <2> DEFINE item == [kind |-> "METHOD", frame |-> 0, want |-> TRUE]
  <2>3. \/ \E r : Answer(r)
        \/ \E ctx, blk, m :
             Begin(Push([lai_init_state EXCEPT !.ctxstack = <<ctx>>, !.blkstack = <<blk>>], "stack", item), m)
    BY <2>1 DEF lai_eval_args
  <2>4. "kind" \in DOMAIN item /\ item.kind \in WithContext
    BY DEF WithContext
  <2> HIDE DEF item
  <2>5. CASE \E r : Answer(r)
    <3>1. state' = state /\ status' \in {"halt", "idle"}
      BY <2>5 DEF Answer
    <3> QED
      BY <2>2, <3>1 DEF StackInv
  <2>6. CASE \E ctx, blk, m :
             Begin(Push([lai_init_state EXCEPT !.ctxstack = <<ctx>>, !.blkstack = <<blk>>], "stack", item), m)
    <3>1. PICK ctx, blk, m :
             Begin(Push([lai_init_state EXCEPT !.ctxstack = <<ctx>>, !.blkstack = <<blk>>], "stack", item), m)
      BY <2>6
    <3> DEFINE s == Push([lai_init_state EXCEPT !.ctxstack = <<ctx>>, !.blkstack = <<blk>>], "stack", item)
    <3>2. state' = s /\ status' = "run"
      BY <3>1 DEF Begin
    <3>3. Ahead(s, 0, 0)
      BY <2>4, Entered
    <3> HIDE DEF s
    <3> QED
      BY <3>2, <3>3 DEF StackInv
  <2> QED
    BY <2>3, <2>5, <2>6
<1>4. CASE Rest
  <2>1. UNCHANGED vars
    BY <1>4 DEF Rest
  <2>2. state' = state /\ status' = status
    BY <2>1 DEF vars
  <2> QED
    BY <2>2 DEF StackInv
<1> QED
  BY <1>1, <1>2, <1>3, <1>4

-----------------------------------------------------------------------------
(***************************************************************************)
(* The theorems.                                                           *)
(***************************************************************************)
LEMMA Agreed ==
  ASSUME StackInv
  PROVE  StacksAgree
<1>1. Ahead(state, 0, 0) /\ Items_OK(state.stack) /\ (status = "idle" => state = lai_init_state)
  BY DEF StackInv, Ahead, Shaped
<1>2. /\ Len(state.ctxstack) = Tally(state.stack, WithContext)
      /\ Len(state.blkstack) = Tally(state.stack, WithCode)
  <2>1. /\ Tally(state.stack, WithContext) \in Nat /\ Tally(state.stack, WithCode) \in Nat
        /\ Len(state.ctxstack) = Tally(state.stack, WithContext) + 0
        /\ Len(state.blkstack) = Tally(state.stack, WithCode) + 0
    BY <1>1, AheadFacts DEF Ahead
  <2> QED
    BY <2>1
<1>3. ASSUME state.stack # << >>
      PROVE  state.ctxstack # << >> /\ state.blkstack # << >>
  <2>1. PICK T : state.stack \in Seq(T)
    BY <1>1 DEF Items_OK, IsSeq
  <2>2. Len(state.stack) > 0 /\ 1 \in DOMAIN state.stack
    BY <1>3, <2>1
  <2>3. state.stack[1].kind \in WithContext /\ state.stack[1].kind \in WithCode
    BY <1>1, <2>2 DEF Items_OK, WithCode
  <2>4. 1 \in Items(state.stack, WithContext) /\ 1 \in Items(state.stack, WithCode)
    BY <2>2, <2>3 DEF Items
  <2>5. IsFiniteSet(Items(state.stack, WithContext)) /\ IsFiniteSet(Items(state.stack, WithCode))
    BY <1>1, TallyFacts DEF Items_OK
  <2>6. Tally(state.stack, WithContext) # 0 /\ Tally(state.stack, WithCode) # 0
    BY <2>4, <2>5, FS_EmptySet DEF Tally
  <2>7. Len(<< >>) = 0
    OBVIOUS
  <2> QED
    BY <1>2, <2>6, <2>7
<1> QED
  BY <1>1, <1>2, <1>3 DEF StacksAgree, Tally

THEOREM StacksInStep == Spec => []StacksAgree
<1>1. Init => StackInv
  BY EmptyStacks DEF Init, StackInv
<1>2. StackInv /\ [Next]_vars => StackInv'
  <2> SUFFICES ASSUME StackInv, [Next]_vars PROVE StackInv'
    OBVIOUS
  <2>1. CASE Next
    BY <2>1, ProcessStep, CallerStep DEF Next
  <2>2. CASE UNCHANGED vars
    <3>1. state' = state /\ status' = status
      BY <2>2 DEF vars
    <3> QED
      BY <3>1 DEF StackInv
  <2> QED
    BY <2>1, <2>2
<1>3. StackInv => StacksAgree
  BY Agreed
<1> QED
  BY <1>1, <1>2, <1>3, PTL DEF Spec
=============================================================================
