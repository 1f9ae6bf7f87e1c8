--------------------------- MODULE LaiFieldsProofs ---------------------------
(***************************************************************************)
(* Proofs about LaiFields, for every chip and every layout of fields that  *)
(* satisfy the assumptions of that module.                                 *)
(*                                                                         *)
(* The loops of opregion.c turn into statements about single bits: every   *)
(* position of a field has one place in the hardware, whatever the index   *)
(* and bank registers hold (Place); a read gives the bits at the places    *)
(* of the field, and a write changes these, the rest of the words if the   *)
(* update rule is not Preserve, and the registers that select the field.   *)
(* The fields are then a memory in which no two of them overlap.           *)
(***************************************************************************)
EXTENDS LaiFields, FiniteSetTheorems, TLAPS

\* Induction over the natural numbers, for the set of the numbers that have a property: a
\* least number outside of it would have a predecessor inside.
LEMMA Induction ==
  ASSUME NEW S \in SUBSET Nat, 0 \in S, \A n \in S : n + 1 \in S
  PROVE  S = Nat
<1> SUFFICES ASSUME Nat \ S # {} PROVE FALSE
  OBVIOUS
<1> DEFINE R == OpToRel(<, Nat)
           T == Nat \ S
<1>1. IsWellFoundedOn(R, Nat)
  BY NatLessThanWellFounded
<1>2. T \subseteq Nat /\ T # {}
  OBVIOUS
<1>3. PICK i \in T : \A j \in T : ~ (<<j, i>> \in R)
  <2> HIDE DEF R, T
  <2> QED
    BY <1>1, <1>2, WFMin
<1>4. i - 1 \in Nat /\ i - 1 < i
  OBVIOUS
<1>5. <<i - 1, i>> \in R
  BY <1>4 DEF OpToRel
<1>6. i - 1 \in S
  BY <1>3, <1>4, <1>5
<1>7. (i - 1) + 1 \in S
  BY <1>6
<1>8. (i - 1) + 1 = i
  OBVIOUS
<1> QED
  BY <1>7, <1>8

-----------------------------------------------------------------------------
(***************************************************************************)
(* What a loop over the words of a field does, given what its passes do.   *)
(* `at` says where the positions are, `wordof` which pass is theirs;       *)
(* `noise` are the bits that the accesses change besides.                  *)
(***************************************************************************)
Same(hw, kw, but) == \A b : b \notin but => (b \in hw <=> b \in kw)

\* lai_read_field_internal(): every pass adds the bits of its word.
ReadingLoop(n, a, at, F, noise, offset, hw, wordof) ==
    /\ n \in Nat
    /\ \A p \in F : wordof[p] \in 1 .. n
    /\ a[0].io = hw /\ a[0].bits = {}
    /\ \A k \in 1 .. n :
          Same(a[k - 1].io, hw, noise) =>
             /\ Same(a[k].io, hw, noise)
             /\ \A x : x \in a[k].bits <=> \/ x \in a[k - 1].bits
                                           \/ \E p \in F : wordof[p] = k /\ at[p] \in hw /\ x = p - offset

\* By induction over the passes: the loop gives the bits at all positions of the field.
LEMMA ReadLoop ==
  ASSUME NEW n, NEW a, NEW at, NEW F, NEW noise, NEW offset, NEW hw, NEW wordof,
         ReadingLoop(n, a, at, F, noise, offset, hw, wordof)
  PROVE  /\ Same(a[n].io, hw, noise)
         /\ \A x : x \in a[n].bits <=> \E p \in F : at[p] \in hw /\ x = p - offset
<1> DEFINE Good(k) == /\ Same(a[k].io, hw, noise)
                      /\ \A x : x \in a[k].bits <=> \E p \in F : wordof[p] <= k /\ at[p] \in hw /\ x = p - offset
           S == {k \in Nat : k \in 0 .. n => Good(k)}
<1> USE DEF ReadingLoop
<1>1. S \in SUBSET Nat
  OBVIOUS
<1>2. 0 \in S
  <2>1. Same(a[0].io, hw, noise)
    BY DEF Same
  <2>2. \A p \in F : ~ (wordof[p] <= 0)
    OBVIOUS
  <2> QED
    BY <2>1, <2>2
<1>3. ASSUME NEW k \in S PROVE k + 1 \in S
  <2> SUFFICES ASSUME k + 1 \in 0 .. n PROVE Good(k + 1)
    OBVIOUS
  <2>1. k \in 0 .. n /\ k + 1 \in 1 .. n /\ (k + 1) - 1 = k
    OBVIOUS
  <2>2. Same(a[k].io, hw, noise)
    BY <2>1
  <2>3. \A x : x \in a[k].bits <=> \E p \in F : wordof[p] <= k /\ at[p] \in hw /\ x = p - offset
    BY <2>1
  <2>4. /\ Same(a[k + 1].io, hw, noise)
        /\ \A x : x \in a[k + 1].bits <=>
              \/ x \in a[k].bits
              \/ \E p \in F : wordof[p] = k + 1 /\ at[p] \in hw /\ x = p - offset
    <3> HIDE DEF Same
    <3> QED
      BY <2>1, <2>2
  <2>5. \A p \in F : wordof[p] <= k + 1 <=> wordof[p] <= k \/ wordof[p] = k + 1
    BY <2>1
  <2> QED
    BY <2>3, <2>4, <2>5
<1>4. n \in S
  <2> HIDE DEF S
  <2> QED
    BY <1>1, <1>2, <1>3, Induction
<1>5. Good(n)
  BY <1>4
<1> QED
  BY <1>5

\* lai_write_field_internal(): every pass changes the bits of its word, and no other pass
\* changes those of them that are the field's.
WritingLoop(n, d, at, S, F, noise, offset, hw, v, wordof) ==
    /\ n \in Nat
    /\ F \subseteq S
    /\ \A p \in S : wordof[p] \in 1 .. n
    /\ d[0] = hw
    /\ \A p \in F : at[p] \notin noise
    /\ \A p \in F, q \in S : at[p] = at[q] => p = q
    /\ \A k \in 1 .. n :
          Same(d[k - 1], hw, noise \cup {at[p] : p \in S}) =>
             /\ Same(d[k], d[k - 1], noise \cup {at[p] : p \in {q \in S : wordof[q] = k}})
             /\ \A p \in F : wordof[p] = k => (at[p] \in d[k] <=> p - offset \in v)

\* By induction over the passes: the positions of the field hold the value after the loop.
LEMMA WriteLoop ==
  ASSUME NEW n, NEW d, NEW at, NEW S, NEW F, NEW noise, NEW offset, NEW hw, NEW v, NEW wordof,
         WritingLoop(n, d, at, S, F, noise, offset, hw, v, wordof)
  PROVE  /\ Same(d[n], hw, noise \cup {at[p] : p \in S})
         /\ \A p \in F : at[p] \in d[n] <=> p - offset \in v
<1> DEFINE Good(k) == /\ Same(d[k], hw, noise \cup {at[p] : p \in S})
                      /\ \A p \in F : wordof[p] <= k => (at[p] \in d[k] <=> p - offset \in v)
           T == {k \in Nat : k \in 0 .. n => Good(k)}
<1> USE DEF WritingLoop
<1>1. T \in SUBSET Nat
  OBVIOUS
<1>2. 0 \in T
  <2>1. Same(d[0], hw, noise \cup {at[p] : p \in S})
    BY DEF Same
  <2>2. \A p \in F : ~ (wordof[p] <= 0)
    OBVIOUS
  <2> QED
    BY <2>1, <2>2
<1>3. ASSUME NEW k \in T PROVE k + 1 \in T
  <2> SUFFICES ASSUME k + 1 \in 0 .. n PROVE Good(k + 1)
    OBVIOUS
  <2>1. k \in 0 .. n /\ k + 1 \in 1 .. n /\ (k + 1) - 1 = k
    OBVIOUS
  <2>2. Same(d[k], hw, noise \cup {at[p] : p \in S})
    BY <2>1
  <2>3. \A p \in F : wordof[p] <= k => (at[p] \in d[k] <=> p - offset \in v)
    BY <2>1
  <2>4. /\ Same(d[k + 1], d[k], noise \cup {at[p] : p \in {q \in S : wordof[q] = k + 1}})
        /\ \A p \in F : wordof[p] = k + 1 => (at[p] \in d[k + 1] <=> p - offset \in v)
    BY <2>1, <2>2
  <2>5. Same(d[k + 1], hw, noise \cup {at[p] : p \in S})
    BY <2>2, <2>4 DEF Same
  <2>6. ASSUME NEW p \in F, wordof[p] <= k + 1
        PROVE  at[p] \in d[k + 1] <=> p - offset \in v
    <3>1. CASE wordof[p] = k + 1
      BY <2>4, <3>1
    <3>2. CASE wordof[p] # k + 1
      <4>1. wordof[p] <= k
        BY <2>1, <2>6, <3>2
      <4>2. at[p] \notin noise \cup {at[q] : q \in {r \in S : wordof[r] = k + 1}}
        BY <3>2
      <4> QED
        BY <2>3, <2>4, <4>1, <4>2 DEF Same
    <3> QED
      BY <3>1, <3>2
  <2> QED
    BY <2>5, <2>6
<1>4. n \in T
  <2> HIDE DEF T
  <2> QED
    BY <1>1, <1>2, <1>3, Induction
<1>5. Good(n)
  BY <1>4
<1>6. \A p \in F : wordof[p] <= n
  OBVIOUS
<1> QED
  BY <1>5, <1>6

-----------------------------------------------------------------------------
(***************************************************************************)
(* Addresses and positions.                                                *)
(***************************************************************************)
\* The bits that decide what the other addresses reach.
Selects == {<<IndexPort, i>> : i \in 0 .. 7} \cup {<<BankPort, i>> : i \in 0 .. 1}

\* An address reaches the same register as long as the selecting bits are the same.
LEMMA SameCells ==
  ASSUME NEW hw, NEW kw, \A b \in Selects : b \in hw <=> b \in kw, NEW a
  PROVE  HwCell(hw, a) = HwCell(kw, a)
<1>1. Shown(hw, IndexPort, 8) = Shown(kw, IndexPort, 8)
  BY DEF Shown, Selects
<1>2. Shown(hw, BankPort, 2) = Shown(kw, BankPort, 2)
  BY DEF Shown, Selects
<1> QED
  BY <1>1, <1>2 DEF HwCell

\* An address that the chip does not decode is a register of its own.
LEMMA PlainCell ==
  ASSUME NEW hw, NEW a, a \notin Decoded
  PROVE  HwCell(hw, a) = a
BY DEF HwCell, Decoded

\* Two addresses reach two registers: what is decoded is no address.
LEMMA CellsDiffer ==
  ASSUME NEW hw, NEW s \in Spaces, NEW u, NEW x, NEW y,
         HwCell(hw, <<s, u, x>>) = HwCell(hw, <<s, u, y>>)
  PROVE  x = y
<1> DEFINE a == <<s, u, x>>
           c == <<s, u, y>>
<1>1. \A z : HwCell(hw, z) \in {z, <<"register", Shown(hw, IndexPort, 8)>>, <<"bank", Shown(hw, BankPort, 2), z>>}
  BY DEF HwCell
<1>2. a[1] # "register" /\ a[1] # "bank" /\ c[1] # "register" /\ c[1] # "bank"
  BY DEF Spaces
<1>3. a = c => x = y
  OBVIOUS
<1>4. ~ (a = DataPort /\ c = DataPort) => a = c
  <2>1. \A z, r, t : <<"register", r>> # <<"bank", t, z>>
    OBVIOUS
  <2>2. <<"bank", Shown(hw, BankPort, 2), a>> = <<"bank", Shown(hw, BankPort, 2), c>> => a = c
    OBVIOUS
  <2> HIDE DEF a, c
  <2>3. \A r : a # <<"register", r>> /\ c # <<"register", r>>
    BY <1>2
  <2>4. \A r, z : a # <<"bank", r, z>> /\ c # <<"bank", r, z>>
    BY <1>2
  <2>5. HwCell(hw, a) = HwCell(hw, c)
    BY DEF a, c
  <2> QED
    BY <2>1, <2>2, <2>3, <2>4, <2>5 DEF HwCell
<1> QED
  BY <1>3, <1>4

\* The bit that a position of a field is in the state hw.
Bit(hw, f, p) == <<HwCell(hw, Address(f, p)), p % 8>>

\* The byte, the bit and the word of a position.
LEMMA PositionOfBit ==
  ASSUME NEW width \in {8, 16, 32}, NEW word \in Nat, NEW i \in 0 .. width - 1
  PROVE  /\ (word * width + i) \div 8 = word * (width \div 8) + i \div 8
         /\ (word * width + i) % 8 = i % 8
         /\ (word * width + i) \div width = word
<1>1. CASE width = 8
  BY <1>1
<1>2. CASE width = 16
  BY <1>2
<1>3. CASE width = 32
  BY <1>3
<1> QED
  BY <1>1, <1>2, <1>3

\* A position is in one word.
LEMMA WordOfPosition ==
  ASSUME NEW width \in {8, 16, 32}, NEW x \in Nat
  PROVE  /\ x \div width \in Nat
         /\ (x \div width) * width <= x /\ x <= (x \div width) * width + width - 1
         /\ \A w \in Nat : x \div width = w <=> x \in w * width .. w * width + width - 1
<1>1. CASE width = 8
  BY <1>1
<1>2. CASE width = 16
  BY <1>2
<1>3. CASE width = 32
  BY <1>3
<1> QED
  BY <1>1, <1>2, <1>3

\* The words are in the order of the positions.
LEMMA WordsInOrder ==
  ASSUME NEW width \in {8, 16, 32}, NEW x \in Nat, NEW y \in Nat, x <= y
  PROVE  x \div width <= y \div width
<1>1. CASE width = 8
  BY <1>1
<1>2. CASE width = 16
  BY <1>2
<1>3. CASE width = 32
  BY <1>3
<1> QED
  BY <1>1, <1>2, <1>3

\* A word starts and ends with positions of its own.
LEMMA WordEnds ==
  ASSUME NEW width \in {8, 16, 32}, NEW w \in Nat
  PROVE  /\ w * width \in Nat /\ w * width + width - 1 \in Nat
         /\ (w * width) \div width = w /\ (w * width + width - 1) \div width = w
<1>1. CASE width = 8
  BY <1>1
<1>2. CASE width = 16
  BY <1>2
<1>3. CASE width = 32
  BY <1>3
<1> QED
  BY <1>1, <1>2, <1>3

\* Two words are apart, in their order.
LEMMA WordStarts ==
  ASSUME NEW width \in {8, 16, 32}, NEW x \in Nat, NEW y \in Nat, x <= y
  PROVE  x * width <= y * width
<1>1. CASE width = 8
  BY <1>1
<1>2. CASE width = 16
  BY <1>2
<1>3. CASE width = 32
  BY <1>3
<1> QED
  BY <1>1, <1>2, <1>3

\* A bit of an accessed word is the bit at its position of the region.
LEMMA BitOfWord ==
  ASSUME NEW hw, NEW f, InRegion(f), NEW word \in Nat,
         NEW i \in 0 .. lai_calculate_access_width(f) - 1
  PROVE  BitAt(hw, f.region, lai_calculate_access_width(f), word, i)
           = Bit(hw, f, word * lai_calculate_access_width(f) + i)
<1> DEFINE width == lai_calculate_access_width(f)
<1>1. width \in {8, 16, 32} /\ f.region.base \in Nat
  BY DEF InRegion, Regular
<1> HIDE DEF width
<1>2. /\ (word * width + i) \div 8 = word * (width \div 8) + i \div 8
      /\ (word * width + i) % 8 = i % 8
  BY <1>1, PositionOfBit DEF width
<1>3. word * (width \div 8) \in Nat /\ i \div 8 \in Nat
  BY <1>1 DEF width
<1>4. f.region.base + word * (width \div 8) + i \div 8 = f.region.base + (word * width + i) \div 8
  BY <1>1, <1>2, <1>3
<1> QED
  BY <1>2, <1>4 DEF BitAt, Bit, Address, width

\* Two positions of a field are two bits, in any one state.
LEMMA BitsDiffer ==
  ASSUME NEW hw, NEW f, InRegion(f), NEW p \in Nat, NEW q \in Nat, Bit(hw, f, p) = Bit(hw, f, q)
  PROVE  p = q
<1>1. p % 8 = q % 8 /\ HwCell(hw, Address(f, p)) = HwCell(hw, Address(f, q))
  BY DEF Bit
<1>2. f.region.space \in Spaces /\ f.region.base \in Nat
  BY DEF InRegion
<1>3. f.region.base + p \div 8 = f.region.base + q \div 8
  BY <1>1, <1>2, CellsDiffer DEF Address
<1>4. p \div 8 = q \div 8
  BY <1>2, <1>3
<1> QED
  BY <1>1, <1>4

\* Which pass of the loop comes to a position.
PassOf(f, p) == p \div lai_calculate_access_width(f) - f.offset \div lai_calculate_access_width(f) + 1
\* The positions of a word.
WordBits(f, word) ==
    word * lai_calculate_access_width(f) .. word * lai_calculate_access_width(f) + lai_calculate_access_width(f) - 1

\* Every position of the span of a field is in the word of exactly one pass.
LEMMA Passes ==
  ASSUME NEW f, Regular(f)
  PROVE  /\ WordCount(f) \in Nat
         /\ \A k \in 1 .. WordCount(f) : Word(f, k) \in Nat
         /\ Bits(f) \subseteq Span(f) /\ Span(f) \subseteq Nat
         /\ Live(f) \subseteq Bits(f) /\ Live(f) \subseteq Span(f)
         /\ \A p \in Span(f) : /\ PassOf(f, p) \in 1 .. WordCount(f)
                               /\ \A k \in 1 .. WordCount(f) : PassOf(f, p) = k <=> p \in WordBits(f, Word(f, k))
<1> DEFINE width == lai_calculate_access_width(f)
           last == f.offset + f.size - 1
<1>1. f.offset \in Nat /\ f.size \in Nat /\ width \in {8, 16, 32}
  BY DEF Regular
<1> HIDE DEF width
<1>2. \A x \in Nat : /\ x \div width \in Nat
                     /\ (x \div width) * width <= x /\ x <= (x \div width) * width + width - 1
                     /\ \A w \in Nat : x \div width = w <=> x \in w * width .. w * width + width - 1
  BY <1>1, WordOfPosition
<1>3. \A x, y \in Nat : x <= y => x \div width <= y \div width
  BY <1>1, WordsInOrder
<1>4. \A w \in Nat : /\ w * width \in Nat /\ w * width + width - 1 \in Nat
                     /\ (w * width) \div width = w /\ (w * width + width - 1) \div width = w
  BY <1>1, WordEnds
<1>5. CASE f.size = 0
  BY <1>1, <1>5 DEF WordCount, Bits, Span, Live
<1>6. CASE f.size # 0
  <2>1. last \in Nat /\ f.offset <= last
    BY <1>1, <1>6
  <2>2. PICK first \in Nat : f.offset \div width = first /\ first * width <= f.offset
    BY <1>1, <1>2
  <2>3. PICK final \in Nat : last \div width = final /\ last <= final * width + width - 1
    BY <1>2, <2>1
  <2>4. first <= final
    BY <1>1, <1>3, <2>1, <2>2, <2>3
  <2>5. WordCount(f) = final - first + 1
    BY <1>6, <2>2, <2>3 DEF WordCount, width
  <2>6. \A k \in 1 .. WordCount(f) : Word(f, k) = first + k - 1
    BY <2>2 DEF Word, width
  <2>7. Span(f) = Bits(f) \/ Span(f) = first * width .. final * width + width - 1
    BY <2>2, <2>3 DEF Span, width
  <2>8. Bits(f) = f.offset .. last
    BY DEF Bits
  <2> HIDE DEF last
  <2>9. Bits(f) \subseteq Span(f) /\ Span(f) \subseteq first * width .. final * width + width - 1
    BY <1>1, <1>4, <2>1, <2>2, <2>3, <2>7, <2>8
  <2>10. Span(f) \subseteq Nat
    BY <1>4, <2>9
  <2>11. ASSUME NEW p \in Span(f)
         PROVE  /\ PassOf(f, p) \in 1 .. WordCount(f)
                /\ \A k \in 1 .. WordCount(f) : PassOf(f, p) = k <=> p \in WordBits(f, Word(f, k))
    <3>1. p \in Nat /\ first * width <= p /\ p <= final * width + width - 1
      BY <1>4, <2>9, <2>10
    <3>2. PICK word \in Nat : p \div width = word
      BY <1>2, <3>1
    <3>3. first <= word /\ word <= final
      BY <1>1, <1>3, <1>4, <3>1, <3>2
    <3>4. PassOf(f, p) = word - first + 1
      BY <2>2, <3>2 DEF PassOf, width
    <3>5. ASSUME NEW k \in 1 .. WordCount(f)
          PROVE  PassOf(f, p) = k <=> p \in WordBits(f, Word(f, k))
      <4>1. k \in Nat /\ Word(f, k) \in Nat /\ Word(f, k) = first + k - 1
        BY <2>5, <2>6
      <4>2. PassOf(f, p) = k <=> p \div width = Word(f, k)
        BY <3>2, <3>4, <4>1
      <4> QED
        BY <1>2, <3>1, <4>1, <4>2 DEF WordBits, width
    <3> QED
      BY <2>5, <3>3, <3>4, <3>5
  <2>12. Live(f) \subseteq Bits(f)
    BY DEF Live
  <2>13. \A k \in 1 .. WordCount(f) : Word(f, k) \in Nat
    BY <2>4, <2>5, <2>6
  <2>14. WordCount(f) \in Nat
    BY <2>4, <2>5
  <2> QED
    BY <2>9, <2>10, <2>11, <2>12, <2>13, <2>14
<1> QED
  BY <1>5, <1>6

-----------------------------------------------------------------------------
(***************************************************************************)
(* The passes of a read of a field of a region.                             *)
(***************************************************************************)
ReadPass(acc, f, k) ==
    ReadWord(LAMBDA d, word : [io |-> d, bits |-> lai_perform_read(d, f.region, lai_calculate_access_width(f), word)],
             acc, f, Word(f, k))
Reads(hw, f, n, a) ==
    a = [k \in 0 .. n |-> IF k = 0 THEN [io |-> hw, bits |-> {}] ELSE ReadPass(a[k - 1], f, k)]

\* The recursion of lai_read_field_internal() over a region has a result.
LEMMA ReadsDefined ==
  ASSUME NEW hw, NEW f, NEW n \in Nat
  PROVE  \E a : Reads(hw, f, n, a)
<1> DEFINE S == {j \in Nat : \E a : Reads(hw, f, j, a)}
<1>1. 0 \in S
  <2>1. Reads(hw, f, 0, [k \in 0 .. 0 |-> [io |-> hw, bits |-> {}]])
    BY DEF Reads
  <2> QED
    BY <2>1
<1>2. ASSUME NEW j \in S PROVE j + 1 \in S
  <2>1. PICK a : Reads(hw, f, j, a)
    OBVIOUS
  <2> DEFINE g == [k \in 0 .. j + 1 |-> IF k = j + 1 THEN ReadPass(a[j], f, j + 1) ELSE a[k]]
  <2>2. \A k \in 0 .. j + 1 : g[k] = IF k = 0 THEN [io |-> hw, bits |-> {}] ELSE ReadPass(g[k - 1], f, k)
    <3> TAKE k \in 0 .. j + 1
    <3>1. CASE k = j + 1
      <4>1. k - 1 = j /\ k # 0 /\ j \in 0 .. j + 1 /\ j # j + 1
        BY <3>1
      <4>2. g[k] = ReadPass(a[j], f, j + 1) /\ g[k - 1] = a[j]
        BY <3>1, <4>1
      <4> HIDE DEF g
      <4> QED
        BY <3>1, <4>1, <4>2
    <3>2. CASE k # j + 1
      <4>1. k \in 0 .. j /\ g[k] = a[k]
        BY <3>2
      <4>2. k # 0 => g[k - 1] = a[k - 1]
        BY <4>1
      <4>3. a[k] = IF k = 0 THEN [io |-> hw, bits |-> {}] ELSE ReadPass(a[k - 1], f, k)
        BY <2>1, <4>1 DEF Reads
      <4> HIDE DEF g
      <4> QED
        BY <4>1, <4>2, <4>3
    <3> QED
      BY <3>1, <3>2
  <2>3. g = [k \in 0 .. j + 1 |-> g[k]]
    OBVIOUS
  <2> HIDE DEF g
  <2>4. Reads(hw, f, j + 1, g)
    BY <2>2, <2>3 DEF Reads
  <2> QED
    BY <2>4
<1>3. S \in SUBSET Nat
  OBVIOUS
<1> HIDE DEF S
<1>4. n \in S
  BY <1>1, <1>2, <1>3, Induction
<1> QED
  BY <1>4 DEF S

\* ... which lai_read_field_internal() returns.
LEMMA ReadsResult ==
  ASSUME NEW hw, NEW f, WordCount(f) \in Nat
  PROVE  \E a : /\ a[0] = [io |-> hw, bits |-> {}]
                /\ \A k \in 1 .. WordCount(f) : a[k] = ReadPass(a[k - 1], f, k)
                /\ ReadRegion(hw, f) = a[WordCount(f)]
<1> DEFINE a == CHOOSE a : Reads(hw, f, WordCount(f), a)
<1>1. Reads(hw, f, WordCount(f), a)
  BY ReadsDefined
<1>2. ReadRegion(hw, f) = a[WordCount(f)]
  BY DEF ReadRegion, lai_read_field_internal, Reads, ReadPass
<1> HIDE DEF a
<1>3. \A k \in 0 .. WordCount(f) : a[k] = IF k = 0 THEN [io |-> hw, bits |-> {}] ELSE ReadPass(a[k - 1], f, k)
  BY <1>1 DEF Reads
<1>4. a[0] = [io |-> hw, bits |-> {}]
  BY <1>3
<1>5. \A k \in 1 .. WordCount(f) : k \in 0 .. WordCount(f) /\ k # 0
  OBVIOUS
<1>6. \A k \in 1 .. WordCount(f) : a[k] = ReadPass(a[k - 1], f, k)
  BY <1>3, <1>5
<1> QED
  BY <1>2, <1>4, <1>6

\* A read gives a record.
LEMMA ReadRecord ==
  ASSUME NEW hw, NEW f, Regular(f)
  PROVE  \E x, y : ReadRegion(hw, f) = [io |-> x, bits |-> y]
<1>1. WordCount(f) \in Nat
  BY Passes
<1>2. PICK a : /\ a[0] = [io |-> hw, bits |-> {}]
               /\ \A k \in 1 .. WordCount(f) : a[k] = ReadPass(a[k - 1], f, k)
               /\ ReadRegion(hw, f) = a[WordCount(f)]
  BY <1>1, ReadsResult
<1>3. CASE WordCount(f) = 0
  BY <1>2, <1>3
<1>4. CASE WordCount(f) # 0
  <2>1. WordCount(f) \in 1 .. WordCount(f)
    BY <1>1, <1>4
  <2>2. ReadRegion(hw, f) = ReadPass(a[WordCount(f) - 1], f, WordCount(f))
    BY <1>2, <2>1
  <2> QED
    BY <2>2 DEF ReadPass, ReadWord
<1> QED
  BY <1>3, <1>4

(***************************************************************************)
(* The passes of a write to a field of a region.                            *)
(***************************************************************************)
WritePass(hw, f, k, v) ==
    WriteWord(LAMBDA d, word : [io |-> d, bits |-> lai_perform_read(d, f.region, lai_calculate_access_width(f), word)],
              LAMBDA d, word, new : lai_perform_write(d, f.region, lai_calculate_access_width(f), word, new),
              hw, f, Word(f, k), v)
Writes(hw, f, v, n, a) ==
    a = [k \in 0 .. n |-> IF k = 0 THEN hw ELSE WritePass(a[k - 1], f, k, v)]

\* The recursion of lai_write_field_internal() over a region has a result.
LEMMA WritesDefined ==
  ASSUME NEW hw, NEW f, NEW v, NEW n \in Nat
  PROVE  \E a : Writes(hw, f, v, n, a)
<1> DEFINE S == {j \in Nat : \E a : Writes(hw, f, v, j, a)}
<1>1. 0 \in S
  <2>1. Writes(hw, f, v, 0, [k \in 0 .. 0 |-> hw])
    BY DEF Writes
  <2> QED
    BY <2>1
<1>2. ASSUME NEW j \in S PROVE j + 1 \in S
  <2>1. PICK a : Writes(hw, f, v, j, a)
    OBVIOUS
  <2> DEFINE g == [k \in 0 .. j + 1 |-> IF k = j + 1 THEN WritePass(a[j], f, j + 1, v) ELSE a[k]]
  <2>2. \A k \in 0 .. j + 1 : g[k] = IF k = 0 THEN hw ELSE WritePass(g[k - 1], f, k, v)
    <3> TAKE k \in 0 .. j + 1
    <3>1. CASE k = j + 1
      <4>1. k - 1 = j /\ k # 0 /\ j \in 0 .. j + 1 /\ j # j + 1
        BY <3>1
      <4>2. g[k] = WritePass(a[j], f, j + 1, v) /\ g[k - 1] = a[j]
        BY <3>1, <4>1
      <4> HIDE DEF g
      <4> QED
        BY <3>1, <4>1, <4>2
    <3>2. CASE k # j + 1
      <4>1. k \in 0 .. j /\ g[k] = a[k]
        BY <3>2
      <4>2. k # 0 => g[k - 1] = a[k - 1]
        BY <4>1
      <4>3. a[k] = IF k = 0 THEN hw ELSE WritePass(a[k - 1], f, k, v)
        BY <2>1, <4>1 DEF Writes
      <4> HIDE DEF g
      <4> QED
        BY <4>1, <4>2, <4>3
    <3> QED
      BY <3>1, <3>2
  <2>3. g = [k \in 0 .. j + 1 |-> g[k]]
    OBVIOUS
  <2> HIDE DEF g
  <2>4. Writes(hw, f, v, j + 1, g)
    BY <2>2, <2>3 DEF Writes
  <2> QED
    BY <2>4
<1>3. S \in SUBSET Nat
  OBVIOUS
<1> HIDE DEF S
<1>4. n \in S
  BY <1>1, <1>2, <1>3, Induction
<1> QED
  BY <1>4 DEF S

\* ... which lai_write_field_internal() returns.
LEMMA WritesResult ==
  ASSUME NEW hw, NEW f, NEW v, WordCount(f) \in Nat
  PROVE  \E a : /\ a[0] = hw
                /\ \A k \in 1 .. WordCount(f) : a[k] = WritePass(a[k - 1], f, k, v)
                /\ WriteRegion(hw, f, v) = a[WordCount(f)]
<1> DEFINE a == CHOOSE a : Writes(hw, f, v, WordCount(f), a)
<1>1. Writes(hw, f, v, WordCount(f), a)
  BY WritesDefined
<1>2. WriteRegion(hw, f, v) = a[WordCount(f)]
  BY DEF WriteRegion, lai_write_field_internal, Writes, WritePass
<1> HIDE DEF a
<1>3. \A k \in 0 .. WordCount(f) : a[k] = IF k = 0 THEN hw ELSE WritePass(a[k - 1], f, k, v)
  BY <1>1 DEF Writes
<1>4. a[0] = hw
  BY <1>3
<1>5. \A k \in 1 .. WordCount(f) : k \in 0 .. WordCount(f) /\ k # 0
  OBVIOUS
<1>6. \A k \in 1 .. WordCount(f) : a[k] = WritePass(a[k - 1], f, k, v)
  BY <1>3, <1>5
<1> QED
  BY <1>2, <1>4, <1>6

-----------------------------------------------------------------------------
(***************************************************************************)
(* What a pass does to the bits of its word.                               *)
(***************************************************************************)
\* The bits of a word that belong to the field, those that a pass moves, and the bit of the
\* field that one of them is.
Inside(f, word) ==
    {i \in 0 .. lai_calculate_access_width(f) - 1 : word * lai_calculate_access_width(f) + i \in Bits(f)}
LiveBits(f, word) == IF AccessBits(f, word) = 32 THEN {} ELSE Inside(f, word)
BitOfField(f, word, i) == word * lai_calculate_access_width(f) + i - f.offset

\* The numbers that a pass computes: it has the bits of its word from the first one on.
LEMMA PassNumbers ==
  ASSUME NEW f, Regular(f), NEW k \in 1 .. WordCount(f)
  PROVE  LET word == Word(f, k)
             b == BitOffset(f, word)
             n == AccessBits(f, word)
         IN  /\ word \in Nat /\ b \in Nat /\ n \in Nat \ {0} /\ b + n <= 32 /\ n <= f.size
             /\ Inside(f, word) = b .. b + n - 1
             /\ Progress(f, word) \in Nat
             /\ \A j \in Nat : Progress(f, word) + j = BitOfField(f, word, b + j)
<1> DEFINE width == lai_calculate_access_width(f)
           last == f.offset + f.size - 1
           word == Word(f, k)
           start == word * width
           b == BitOffset(f, word)
           n == AccessBits(f, word)
<1>1. f.offset \in Nat /\ f.size \in Nat /\ width \in {8, 16, 32}
  BY DEF Regular
<1> HIDE DEF width
<1>2. f.size # 0 /\ last \in Nat /\ f.offset <= last
  BY <1>1 DEF WordCount
<1>3. PICK first \in Nat : f.offset \div width = first
  BY <1>1, WordOfPosition
<1>4. PICK final \in Nat : last \div width = final
  BY <1>1, <1>2, WordOfPosition
<1>5. WordCount(f) = final - first + 1
  BY <1>2, <1>3, <1>4 DEF WordCount, width
<1>6. word = first + k - 1 /\ word \in Nat /\ first <= word /\ word <= final
  BY <1>3, <1>5 DEF Word, width
<1>7. /\ first * width \in Nat /\ start \in Nat /\ final * width \in Nat
      /\ first * width <= start /\ start <= final * width
  BY <1>1, <1>6, WordEnds, WordStarts
<1>8. word # first => first * width + width <= start
  <2> SUFFICES ASSUME word # first PROVE first * width + width <= start
    OBVIOUS
  <2>1. first + 1 \in Nat /\ first + 1 <= word
    BY <1>6
  <2>2. (first + 1) * width <= start
    BY <1>1, <1>6, <2>1, WordStarts
  <2>3. (first + 1) * width = first * width + width
    BY <1>1
  <2> QED
    BY <2>2, <2>3
<1>9. /\ first * width <= f.offset /\ f.offset <= first * width + width - 1
      /\ final * width <= last
  BY <1>1, <1>2, <1>3, <1>4, WordOfPosition
<1>10. f.offset % width = f.offset - first * width
  <2>1. CASE width = 8
    BY <1>1, <1>3, <2>1
  <2>2. CASE width = 16
    BY <1>1, <1>3, <2>2
  <2>3. CASE width = 32
    BY <1>1, <1>3, <2>3
  <2> QED
    BY <1>1, <2>1, <2>2, <2>3
<1>11. b = IF word = first THEN f.offset - first * width ELSE 0
  BY <1>3, <1>10 DEF BitOffset, width
<1>12. n = (IF f.offset + f.size - start < width THEN f.offset + f.size - start ELSE width) - b
  BY DEF AccessBits, width
<1>13. Progress(f, word) = start + b - f.offset
  BY DEF Progress, width
<1>14. \A i : BitOfField(f, word, i) = start + i - f.offset
  BY DEF BitOfField, width
<1>15. Inside(f, word) = {i \in 0 .. width - 1 : start + i \in f.offset .. last}
  BY DEF Inside, Bits, width
<1> DEFINE size == f.size
           offset == f.offset
           low == first * width
           high == final * width
<1>16. /\ offset \in Nat /\ size \in Nat \ {0} /\ width \in Nat /\ 8 <= width /\ width <= 32
       /\ low \in Nat /\ high \in Nat /\ start \in Nat
       /\ low <= start /\ start <= high /\ high <= offset + size - 1
       /\ low <= offset /\ offset <= low + width - 1
       /\ word # first => low + width <= start
       /\ word = first => low = start
  BY <1>1, <1>2, <1>7, <1>8, <1>9
<1> HIDE DEF word, start, b, n, low, high, size, offset
<1>17. b = IF word = first THEN offset - low ELSE 0
  BY <1>11 DEF offset, low
<1>18. n = (IF offset + size - start < width THEN offset + size - start ELSE width) - b
  BY <1>12 DEF offset, size
<1>19. b \in Nat /\ b < width /\ n \in Nat \ {0} /\ b + n <= width /\ start + b - offset \in Nat
  BY <1>16, <1>17, <1>18
<1>20. Inside(f, word) = b .. b + n - 1
  <2>1. \A i \in 0 .. width - 1 : start + i \in offset .. offset + size - 1 <=> i \in b .. b + n - 1
    BY <1>16, <1>17, <1>18, <1>19
  <2>2. b .. b + n - 1 \subseteq 0 .. width - 1
    BY <1>16, <1>19
  <2>3. Inside(f, word) = {i \in 0 .. width - 1 : start + i \in offset .. offset + size - 1}
    BY <1>15 DEF offset, size
  <2> QED
    BY <2>1, <2>2, <2>3
<1>21. Progress(f, word) \in Nat /\ \A j \in Nat : Progress(f, word) + j = BitOfField(f, word, b + j)
  <2>1. Progress(f, word) = start + b - offset
    BY <1>13 DEF offset
  <2>2. \A j \in Nat : BitOfField(f, word, b + j) = start + (b + j) - offset
    BY <1>14 DEF offset
  <2>3. start \in Nat /\ offset \in Nat /\ b \in Nat /\ start + b - offset \in Nat
    BY <1>16, <1>19
  <2>4. \A j \in Nat : (start + b - offset) + j = start + (b + j) - offset
    BY <2>3
  <2>5. \A j \in Nat : Progress(f, word) + j = BitOfField(f, word, b + j)
    BY <2>1, <2>2, <2>4
  <2> QED
    BY <2>1, <2>3, <2>5
<1>22. word \in Nat /\ b + n <= 32 /\ n <= f.size
  <2>1. n <= size
    BY <1>16, <1>17, <1>18
  <2> QED
    BY <1>6, <1>16, <1>19, <2>1 DEF size
<1> QED
  BY <1>19, <1>20, <1>21, <1>22 DEF word, b, n

\* Of a field of less than 32 bits, all are moved.
LEMMA AllLive ==
  ASSUME NEW f, Regular(f), f.size < 32
  PROVE  Live(f) = Bits(f)
<1>1. f.size \in Nat
  BY DEF Regular
<1>2. ASSUME NEW p \in Bits(f)
      PROVE  AccessBits(f, p \div lai_calculate_access_width(f)) # 32
  <2>1. p \in Span(f) /\ p \in Nat /\ PassOf(f, p) \in 1 .. WordCount(f)
    BY Passes
  <2>2. lai_calculate_access_width(f) \in {8, 16, 32} /\ f.offset \in Nat
    BY DEF Regular
  <2>3. Word(f, PassOf(f, p)) = p \div lai_calculate_access_width(f)
    <3>1. p \div lai_calculate_access_width(f) \in Nat /\ f.offset \div lai_calculate_access_width(f) \in Nat
      BY <2>1, <2>2, WordOfPosition
    <3> QED
      BY <3>1 DEF Word, PassOf
  <2>4. /\ AccessBits(f, Word(f, PassOf(f, p))) \in Nat
        /\ AccessBits(f, Word(f, PassOf(f, p))) <= f.size
    BY <2>1, PassNumbers
  <2> QED
    BY <1>1, <2>3, <2>4
<1> QED
  BY <1>2 DEF Live

\* Up to 32 bits are moved to and from a buffer as they are.
LEMMA MovedAsTheyAre ==
  ASSUME NEW at \in Nat, NEW j \in 0 .. 31
  PROVE  Moved(at, j) = j
<1> DEFINE done == IF (at + j) \div 8 = at \div 8 THEN 0 ELSE ((at + j) \div 8) * 8 - at
<1>1. done \in 0 .. 31
  OBVIOUS
<1>2. Moved(at, j) = (done % 32) + (j - done)
  BY DEF Moved
<1> HIDE DEF done
<1>3. done % 32 = done
  BY <1>1
<1> QED
  BY <1>1, <1>2, <1>3

\* The bits that a pass moves: all of the field's in its word, but none if they are 32.
LEMMA Masks ==
  ASSUME NEW f, Regular(f), NEW k \in 1 .. WordCount(f)
  PROVE  LET word == Word(f, k)
             b == BitOffset(f, word)
             n == AccessBits(f, word)
         IN  /\ WriteMask(f, word) = LiveBits(f, word)
             /\ \A bits \in SUBSET Nat : lai_buffer_put_at(ShiftRight(bits, b) \cap LowBits(n), Progress(f, word), n)
                             = {BitOfField(f, word, i) : i \in bits \cap LiveBits(f, word)}
             /\ \A v : ShiftLeft(lai_buffer_get_at(v, Progress(f, word), n), b) \cap LiveBits(f, word)
                          = {i \in LiveBits(f, word) : BitOfField(f, word, i) \in v}
<1> DEFINE word == Word(f, k)
           b == BitOffset(f, word)
           n == AccessBits(f, word)
           at == Progress(f, word)
           live == LiveBits(f, word)
           B(i) == BitOfField(f, word, i)
<1>1. b \in Nat /\ n \in Nat \ {0} /\ b + n <= 32 /\ at \in Nat
  BY PassNumbers
<1>2. live = IF n = 32 THEN {} ELSE b .. b + n - 1
  BY PassNumbers DEF LiveBits
<1>11. \A j \in Nat : at + j = B(b + j)
  BY PassNumbers
<1>3. WriteMask(f, word) = ShiftLeft(LowBits(n), b)
  BY DEF WriteMask
<1> HIDE DEF word, b, n, at, live, B
<1>4. \A j \in 0 .. n - 1 : Moved(at, j) = j
  <2>1. \A j \in 0 .. n - 1 : j \in 0 .. 31
    BY <1>1
  <2> QED
    BY <1>1, <2>1, MovedAsTheyAre
<1>5. n # 32 => LowBits(n) = 0 .. n - 1
  BY <1>1 DEF LowBits
<1>6. n = 32 => LowBits(n) = {} /\ b = 0
  BY <1>1 DEF LowBits
<1>7. b % 32 = b
  BY <1>1
<1>8. ShiftLeft(LowBits(n), b) = live
  <2>1. CASE n = 32
    BY <1>2, <1>6, <2>1 DEF ShiftLeft
  <2>2. CASE n # 32
    <3>1. ShiftLeft(LowBits(n), b) = {i + b : i \in 0 .. n - 1} \cap 0 .. 31
      BY <1>5, <1>7, <2>2 DEF ShiftLeft, Uint64
    <3>2. \A i \in b .. b + n - 1 : i - b \in 0 .. n - 1 /\ (i - b) + b = i /\ i \in 0 .. 31
      BY <1>1
    <3>3. \A i \in 0 .. n - 1 : i + b \in b .. b + n - 1
      BY <1>1
    <3> QED
      BY <1>2, <2>2, <3>1, <3>2, <3>3
  <2> QED
    BY <2>1, <2>2
<1>9. ASSUME NEW bits \in SUBSET Nat
      PROVE  lai_buffer_put_at(ShiftRight(bits, b) \cap LowBits(n), at, n) = {B(i) : i \in bits \cap live}
  <2> DEFINE value == ShiftRight(bits, b) \cap LowBits(n)
  <2>1. lai_buffer_put_at(value, at, n) = {at + j : j \in {l \in 0 .. n - 1 : l \in value}}
    BY <1>4 DEF lai_buffer_put_at
  <2>2. CASE n = 32
    BY <1>2, <1>6, <2>1, <2>2
  <2>3. CASE n # 32
    <3>1. \A j \in 0 .. n - 1 : j \in value <=> b + j \in bits
      <4> TAKE j \in 0 .. n - 1
      <4>1. j \in value <=> j \in {i - b : i \in bits} \cap 0 .. 31
        BY <1>5, <1>7, <2>3 DEF ShiftRight, Uint64
      <4>2. j \in 0 .. 31
        BY <1>1
      <4>3. b + j \in bits => j \in {i - b : i \in bits}
        <5>1. j = (b + j) - b
          BY <1>1
        <5> QED
          BY <5>1
      <4>4. j \in {i - b : i \in bits} => b + j \in bits
        <5>1. \A i \in bits : i \in Nat /\ (j = i - b => i = b + j)
          BY <1>1
        <5> QED
          BY <5>1
      <4> QED
        BY <4>1, <4>2, <4>3, <4>4
    <3>2. \A j \in 0 .. n - 1 : b + j \in live /\ at + j = B(b + j)
      BY <1>1, <1>2, <1>11, <2>3
    <3>3. \A i \in live : i - b \in 0 .. n - 1 /\ b + (i - b) = i
      BY <1>1, <1>2, <2>3
    <3> HIDE DEF value
    <3>4. ASSUME NEW x
          PROVE  (\E j \in 0 .. n - 1 : j \in value /\ x = at + j) <=> \E i \in bits \cap live : x = B(i)
      BY <3>1, <3>2, <3>3
    <3> QED
      BY <2>1, <3>4 DEF value
  <2> QED
    BY <2>2, <2>3
<1>10. ASSUME NEW v
       PROVE  ShiftLeft(lai_buffer_get_at(v, at, n), b) \cap live = {i \in live : B(i) \in v}
  <2>1. CASE n = 32
    BY <1>2, <2>1
  <2>2. CASE n # 32
    <3> DEFINE new == lai_buffer_get_at(v, at, n)
    <3>1. \A j \in 0 .. n - 1 : j \in 0 .. 31
      BY <1>1
    <3>2. new = {j \in 0 .. n - 1 : at + j \in v}
      BY <1>4, <3>1 DEF lai_buffer_get_at, Uint64
    <3> HIDE DEF new
    <3>3. ASSUME NEW i \in live
          PROVE  i \in ShiftLeft(new, b) <=> B(i) \in v
      <4>0. i \in b .. b + n - 1
        BY <1>2, <2>2
      <4>1. i - b \in 0 .. n - 1 /\ i = (i - b) + b /\ b + (i - b) = i /\ i \in 0 .. 31
        BY <1>1, <4>0
      <4>2. at + (i - b) = B(i)
        <5>1. i - b \in Nat
          BY <4>1
        <5> QED
          BY <1>11, <4>1, <5>1
      <4>3. i \in ShiftLeft(new, b) <=> \E j \in new : i = j + b
        BY <1>7, <4>1 DEF ShiftLeft, Uint64
      <4>4. \A j \in new : j \in Nat /\ (i = j + b => j = i - b)
        BY <1>1, <3>2, <4>1
      <4>5. i \in ShiftLeft(new, b) <=> i - b \in new
        BY <4>1, <4>3, <4>4
      <4> QED
        BY <3>2, <4>1, <4>2, <4>5
    <3> QED
      BY <3>3 DEF new
  <2> QED
    BY <2>1, <2>2
<1> QED
  BY <1>3, <1>8, <1>9, <1>10 DEF word, b, n, at, live, B

\* The bits of a word by their positions.
LEMMA PositionsOfWord ==
  ASSUME NEW f, Regular(f), NEW word \in Nat
  PROVE  /\ \A i \in 0 .. lai_calculate_access_width(f) - 1 :
               /\ word * lai_calculate_access_width(f) + i \in WordBits(f, word)
               /\ i \in LiveBits(f, word) <=> word * lai_calculate_access_width(f) + i \in Live(f)
         /\ \A p \in WordBits(f, word) :
               \E i \in 0 .. lai_calculate_access_width(f) - 1 : p = word * lai_calculate_access_width(f) + i
         /\ WordBits(f, word) \subseteq Nat
         /\ LiveBits(f, word) \subseteq 0 .. lai_calculate_access_width(f) - 1
<1> DEFINE width == lai_calculate_access_width(f)
           start == word * width
<1>1. width \in Nat /\ f.offset \in Nat /\ f.size \in Nat
  BY DEF Regular
<1>2. start \in Nat
  BY <1>1 DEF Regular
<1>3. WordBits(f, word) = start .. start + width - 1
  BY DEF WordBits
<1>4. LiveBits(f, word) = {i \in 0 .. width - 1 : start + i \in Live(f)}
  <2>1. \A i \in 0 .. width - 1 : (start + i) \div width = word
    BY PositionOfBit DEF Regular
  <2>2. \A i \in 0 .. width - 1 :
           start + i \in Live(f) <=> start + i \in Bits(f) /\ AccessBits(f, word) # 32
    BY <2>1 DEF Live
  <2>3. Inside(f, word) = {i \in 0 .. width - 1 : start + i \in Bits(f)}
    BY DEF Inside
  <2> QED
    BY <2>2, <2>3 DEF LiveBits
<1> HIDE DEF width, start
<1>5. \A p \in start .. start + width - 1 : p - start \in 0 .. width - 1 /\ p = start + (p - start)
  BY <1>1, <1>2
<1>6. \A i \in 0 .. width - 1 :
           start + i \in WordBits(f, word) /\ (i \in LiveBits(f, word) <=> start + i \in Live(f))
  BY <1>1, <1>2, <1>3, <1>4
<1>7. \A p \in WordBits(f, word) : \E i \in 0 .. width - 1 : p = start + i
  BY <1>3, <1>5
<1>8. WordBits(f, word) \subseteq Nat
  BY <1>1, <1>2, <1>3
<1>9. LiveBits(f, word) \subseteq 0 .. width - 1
  BY <1>4
<1> QED
  BY <1>6, <1>7, <1>8, <1>9 DEF width, start

\* Without Preserve, the span of a field is made of whole words.
LEMMA WholeWords ==
  ASSUME NEW f, Regular(f), f.update # "PRESERVE", NEW k \in 1 .. WordCount(f)
  PROVE  WordBits(f, Word(f, k)) \subseteq Span(f)
<1> DEFINE width == lai_calculate_access_width(f)
           last == f.offset + f.size - 1
<1>1. f.offset \in Nat /\ f.size \in Nat /\ width \in {8, 16, 32}
  BY DEF Regular
<1> HIDE DEF width
<1>2. f.size # 0
  BY DEF WordCount
<1>3. last \in Nat /\ f.offset <= last
  BY <1>1, <1>2
<1>4. PICK first \in Nat : f.offset \div width = first
  BY <1>1, WordOfPosition
<1>5. PICK final \in Nat : last \div width = final
  BY <1>1, <1>3, WordOfPosition
<1>6. WordCount(f) = final - first + 1
  BY <1>2, <1>4, <1>5 DEF WordCount, width
<1>7. PICK word \in Nat : word = Word(f, k) /\ first <= word /\ word <= final
  BY <1>4, <1>6 DEF Word, width
<1>8. first * width <= word * width /\ word * width <= final * width
  BY <1>1, <1>7, WordStarts
<1>9. first * width \in Nat /\ word * width \in Nat /\ final * width \in Nat
  BY <1>1, WordEnds
<1>10. Span(f) = first * width .. final * width + width - 1
  BY <1>2, <1>4, <1>5 DEF Span, width
<1>11. WordBits(f, Word(f, k)) = word * width .. word * width + width - 1
  BY <1>7 DEF WordBits, width
<1> QED
  BY <1>1, <1>8, <1>9, <1>10, <1>11

\* One pass of a read adds the bits of its word that are the field's.
LEMMA ReadPassBits ==
  ASSUME NEW f, InRegion(f), NEW acc, NEW k \in 1 .. WordCount(f)
  PROVE  /\ ReadPass(acc, f, k).io = acc.io
         /\ \A x : x \in ReadPass(acc, f, k).bits <=>
               \/ x \in acc.bits
               \/ \E p \in Live(f) : PassOf(f, p) = k /\ Bit(acc.io, f, p) \in acc.io /\ x = p - f.offset
<1> DEFINE width == lai_calculate_access_width(f)
           word == Word(f, k)
           found == lai_perform_read(acc.io, f.region, width, word) \cap LiveBits(f, word)
<1>1. Regular(f) /\ f.region.space \in Spaces
  BY DEF InRegion
<1>2. word \in Nat /\ Live(f) \subseteq Span(f)
  BY <1>1, Passes
<1>3. ReadPass(acc, f, k) = [io |-> acc.io, bits |-> acc.bits \cup {BitOfField(f, word, i) : i \in found}]
  <2>1. lai_perform_read(acc.io, f.region, width, word) \in SUBSET Nat
    BY DEF lai_perform_read, Accessed
  <2>2. lai_buffer_put_at(ShiftRight(lai_perform_read(acc.io, f.region, width, word), BitOffset(f, word))
                             \cap LowBits(AccessBits(f, word)),
                          Progress(f, word), AccessBits(f, word))
          = {BitOfField(f, word, i) : i \in found}
    BY <1>1, <2>1, Masks
  <2> QED
    BY <2>2 DEF ReadPass, ReadWord
<1>4. LiveBits(f, word) \subseteq 0 .. width - 1 /\ Accessed(width) = 0 .. width - 1
  BY <1>1, <1>2, PositionsOfWord DEF Accessed, Regular
<1>5. \A i \in 0 .. width - 1 : i \in found <=> i \in LiveBits(f, word) /\ Bit(acc.io, f, word * width + i) \in acc.io
  <2> TAKE i \in 0 .. width - 1
  <2>1. BitAt(acc.io, f.region, width, word, i) = Bit(acc.io, f, word * width + i)
    BY <1>2, BitOfWord
  <2> QED
    BY <1>1, <1>4, <2>1 DEF lai_perform_read
<1>6. found \subseteq 0 .. width - 1
  BY <1>4
<1>7. \A p \in Live(f) : PassOf(f, p) = k <=> p \in WordBits(f, word)
  BY <1>1, <1>2, Passes
<1>8. \A i \in 0 .. width - 1 : /\ word * width + i \in WordBits(f, word)
                                /\ i \in LiveBits(f, word) <=> word * width + i \in Live(f)
  BY <1>1, <1>2, PositionsOfWord
<1>9. \A p \in WordBits(f, word) : \E i \in 0 .. width - 1 : p = word * width + i
  BY <1>1, <1>2, PositionsOfWord
<1>10. \A i \in 0 .. width - 1 : BitOfField(f, word, i) = word * width + i - f.offset
  BY DEF BitOfField
<1>11. width \in {8, 16, 32} /\ f.offset \in Nat
  BY <1>1 DEF Regular
<1> HIDE DEF width, word, found
<1>12. word * width \in Nat
  BY <1>2, <1>11
<1>13. ASSUME NEW x
       PROVE  (\E i \in found : x = BitOfField(f, word, i)) <=>
              \E p \in Live(f) : PassOf(f, p) = k /\ Bit(acc.io, f, p) \in acc.io /\ x = p - f.offset
  <2>1. ASSUME NEW i \in found, x = BitOfField(f, word, i)
        PROVE  \E p \in Live(f) : PassOf(f, p) = k /\ Bit(acc.io, f, p) \in acc.io /\ x = p - f.offset
    <3>1. i \in 0 .. width - 1 /\ word * width + i \in Live(f) /\ Bit(acc.io, f, word * width + i) \in acc.io
      BY <1>5, <1>6, <1>8
    <3>2. PassOf(f, word * width + i) = k
      BY <1>7, <1>8, <3>1
    <3>3. x = (word * width + i) - f.offset
      BY <1>10, <1>11, <1>12, <2>1, <3>1
    <3> QED
      BY <3>1, <3>2, <3>3
  <2>2. ASSUME NEW p \in Live(f), PassOf(f, p) = k, Bit(acc.io, f, p) \in acc.io, x = p - f.offset
        PROVE  \E i \in found : x = BitOfField(f, word, i)
    <3>1. PICK i \in 0 .. width - 1 : p = word * width + i
      BY <1>7, <1>9, <2>2
    <3>2. i \in found
      BY <1>5, <1>8, <2>2, <3>1
    <3>3. BitOfField(f, word, i) = p - f.offset
      BY <1>10, <1>11, <1>12, <3>1
    <3> QED
      BY <2>2, <3>2, <3>3
  <2> QED
    BY <2>1, <2>2
<1> QED
  BY <1>3, <1>13

\* One pass of a write changes its word only, and in it what the update rule says.
LEMMA WritePassBits ==
  ASSUME NEW f, InRegion(f), NEW hw, NEW k \in 1 .. WordCount(f), NEW v
  PROVE  /\ Same(WritePass(hw, f, k, v), hw, {Bit(hw, f, p) : p \in {q \in Span(f) : PassOf(f, q) = k}})
         /\ \A p \in Live(f) : PassOf(f, p) = k => (Bit(hw, f, p) \in WritePass(hw, f, k, v) <=> p - f.offset \in v)
<1> DEFINE width == lai_calculate_access_width(f)
           word == Word(f, k)
           start == word * width
           old == CASE f.update = "PRESERVE"     -> lai_perform_read(hw, f.region, width, word)
                    [] f.update = "WRITE_ONES"   -> Uint64
                    [] f.update = "WRITE_ZEROES" -> {}
           mask == LiveBits(f, word)
           new == (old \ mask) \cup {i \in mask : BitOfField(f, word, i) \in v}
           at(i) == Bit(hw, f, start + i)
           res == WritePass(hw, f, k, v)
<1>1. Regular(f) /\ f.region.space \in Spaces /\ f.update \in {"PRESERVE", "WRITE_ONES", "WRITE_ZEROES"}
  BY DEF InRegion, Regular
<1>2. width \in {8, 16, 32} /\ f.offset \in Nat
  BY <1>1 DEF Regular
<1>3. word \in Nat /\ Live(f) \subseteq Span(f) /\ Span(f) \subseteq Nat
  BY <1>1, Passes
<1>4. start \in Nat
  BY <1>2, <1>3
<1>5. /\ WriteMask(f, word) = mask
      /\ ShiftLeft(lai_buffer_get_at(v, Progress(f, word), AccessBits(f, word)), BitOffset(f, word)) \cap mask
            = {i \in mask : BitOfField(f, word, i) \in v}
      /\ Accessed(width) = 0 .. width - 1
  BY <1>1, <1>2, Masks DEF Accessed
<1>6. res = lai_perform_write(hw, f.region, width, word, new)
  <2>1. CASE f.update = "PRESERVE"
    BY <1>5, <2>1 DEF WritePass, WriteWord
  <2>2. CASE f.update = "WRITE_ONES"
    BY <1>5, <2>2 DEF WritePass, WriteWord
  <2>3. CASE f.update = "WRITE_ZEROES"
    BY <1>5, <2>3 DEF WritePass, WriteWord
  <2> QED
    BY <1>1, <2>1, <2>2, <2>3
<1>7. \A i \in 0 .. width - 1 : BitAt(hw, f.region, width, word, i) = at(i)
  BY <1>3, BitOfWord
<1>8. res = (hw \ {at(i) : i \in 0 .. width - 1}) \cup {at(i) : i \in new \cap 0 .. width - 1}
  <2>1. {BitAt(hw, f.region, width, word, i) : i \in 0 .. width - 1} = {at(i) : i \in 0 .. width - 1}
    BY <1>7
  <2>2. {BitAt(hw, f.region, width, word, i) : i \in new \cap 0 .. width - 1} = {at(i) : i \in new \cap 0 .. width - 1}
    BY <1>7
  <2> HIDE DEF new, at, res
  <2> QED
    BY <1>1, <1>5, <1>6, <2>1, <2>2 DEF lai_perform_write
<1>9. \A i, j \in 0 .. width - 1 : at(i) = at(j) => i = j
  <2> TAKE i, j \in 0 .. width - 1
  <2>1. start + i \in Nat /\ start + j \in Nat
    BY <1>2, <1>4
  <2>2. at(i) = at(j) => start + i = start + j
    BY <2>1, BitsDiffer
  <2> QED
    BY <1>2, <1>4, <2>2
<1>10. \A i \in 0 .. width - 1 : at(i) \in res <=> i \in new
  <2> HIDE DEF at, new, res
  <2> QED
    BY <1>8, <1>9
<1>11. \A i \in 0 .. width - 1 : /\ start + i \in WordBits(f, word)
                                 /\ i \in mask <=> start + i \in Live(f)
  BY <1>1, <1>3, PositionsOfWord
<1>12. \A p \in WordBits(f, word) : \E i \in 0 .. width - 1 : p = start + i
  BY <1>1, <1>3, PositionsOfWord
<1>13. \A p \in Span(f) : PassOf(f, p) = k <=> p \in WordBits(f, word)
  BY <1>1, Passes
<1>14. \A i \in 0 .. width - 1 : BitOfField(f, word, i) = (start + i) - f.offset
  BY <1>2, <1>4 DEF BitOfField
\* A bit of the word that is not in the span is written back as it was read.
<1>15. ASSUME NEW i \in 0 .. width - 1, start + i \notin Span(f)
       PROVE  at(i) \in res <=> at(i) \in hw
  <2>1. f.update = "PRESERVE"
    <3> SUFFICES ASSUME f.update # "PRESERVE" PROVE FALSE
      OBVIOUS
    <3>1. WordBits(f, word) \subseteq Span(f)
      BY <1>1, WholeWords
    <3> QED
      BY <1>11, <1>15, <3>1
  <2>2. i \notin mask
    BY <1>3, <1>11, <1>15
  <2>3. old = {j \in 0 .. width - 1 : BitAt(hw, f.region, width, word, j) \in hw}
    BY <1>1, <1>5, <2>1 DEF lai_perform_read
  <2>4. i \in old <=> at(i) \in hw
    BY <1>7, <2>3
  <2>5. i \in new <=> i \in old
    BY <2>2
  <2> QED
    BY <1>10, <2>4, <2>5
<1>16. Same(res, hw, {Bit(hw, f, p) : p \in {q \in Span(f) : PassOf(f, q) = k}})
  <2> SUFFICES ASSUME NEW b, b \notin {Bit(hw, f, p) : p \in {q \in Span(f) : PassOf(f, q) = k}}
               PROVE  b \in res <=> b \in hw
    BY DEF Same
  <2>1. CASE \E i \in 0 .. width - 1 : b = at(i)
    <3>1. PICK i \in 0 .. width - 1 : b = at(i)
      BY <2>1
    <3>2. start + i \notin Span(f)
      BY <1>11, <1>13, <3>1
    <3> QED
      BY <1>15, <3>1, <3>2
  <2>2. CASE ~ \E i \in 0 .. width - 1 : b = at(i)
    <3> HIDE DEF at, new, res
    <3> QED
      BY <1>8, <2>2
  <2> QED
    BY <2>1, <2>2
<1>17. ASSUME NEW p \in Live(f), PassOf(f, p) = k
       PROVE  Bit(hw, f, p) \in res <=> p - f.offset \in v
  <2>1. PICK i \in 0 .. width - 1 : p = start + i
    BY <1>3, <1>12, <1>13, <1>17
  <2>2. i \in mask
    BY <1>11, <2>1
  <2>3. BitOfField(f, word, i) = p - f.offset
    <3> HIDE DEF start, width
    <3> QED
      BY <1>2, <1>4, <1>14, <2>1
  <2>4. i \in new <=> p - f.offset \in v
    BY <2>2, <2>3
  <2> QED
    BY <1>10, <2>1, <2>4
<1> QED
  BY <1>16, <1>17

-----------------------------------------------------------------------------
(***************************************************************************)
(* Reading and writing a field of a region.                                *)
(***************************************************************************)
\* All passes of a read of a region together.
LEMMA PlainRead ==
  ASSUME NEW hw, NEW f, InRegion(f)
  PROVE  /\ Same(ReadRegion(hw, f).io, hw, {})
         /\ \A x : x \in ReadRegion(hw, f).bits <=> \E p \in Live(f) : Bit(hw, f, p) \in hw /\ x = p - f.offset
<1> DEFINE n == WordCount(f)
           at == [p \in Live(f) |-> Bit(hw, f, p)]
           wordof == [p \in Live(f) |-> PassOf(f, p)]
<1>1. n \in Nat /\ Live(f) \subseteq Span(f) /\ \A p \in Live(f) : wordof[p] \in 1 .. n
  BY Passes DEF InRegion
<1>2. PICK a : /\ a[0] = [io |-> hw, bits |-> {}]
               /\ \A k \in 1 .. n : a[k] = ReadPass(a[k - 1], f, k)
               /\ ReadRegion(hw, f) = a[n]
  BY <1>1, ReadsResult
<1>3. a[0].io = hw /\ a[0].bits = {}
  BY <1>2
<1>4. ASSUME NEW k \in 1 .. n, Same(a[k - 1].io, hw, {})
      PROVE  /\ Same(a[k].io, hw, {})
             /\ \A x : x \in a[k].bits <=> \/ x \in a[k - 1].bits
                                           \/ \E p \in Live(f) : wordof[p] = k /\ at[p] \in hw /\ x = p - f.offset
  <2>1. /\ a[k].io = a[k - 1].io
        /\ \A x : x \in a[k].bits <=>
              \/ x \in a[k - 1].bits
              \/ \E p \in Live(f) : PassOf(f, p) = k /\ Bit(a[k - 1].io, f, p) \in a[k - 1].io /\ x = p - f.offset
    <3>1. a[k] = ReadPass(a[k - 1], f, k)
      BY <1>2
    <3> QED
      BY <3>1, ReadPassBits
  <2>2. \A p : Bit(a[k - 1].io, f, p) = Bit(hw, f, p)
    <3>1. \A b : b \in a[k - 1].io <=> b \in hw
      BY <1>4 DEF Same
    <3>2. \A x : HwCell(a[k - 1].io, x) = HwCell(hw, x)
      BY <3>1, SameCells
    <3> QED
      BY <3>2 DEF Bit
  <2>3. \A p \in Live(f) : /\ PassOf(f, p) = wordof[p]
                           /\ Bit(a[k - 1].io, f, p) \in a[k - 1].io <=> at[p] \in hw
    BY <1>4, <2>2 DEF Same
  <2> HIDE DEF at, wordof
  <2> QED
    BY <1>4, <2>1, <2>3
<1>5. \A p \in Live(f) : at[p] = Bit(hw, f, p)
  OBVIOUS
<1> HIDE DEF n, at, wordof
<1>6. /\ Same(a[n].io, hw, {})
      /\ \A x : x \in a[n].bits <=> \E p \in Live(f) : at[p] \in hw /\ x = p - f.offset
  <2>1. \A k \in 1 .. n :
           Same(a[k - 1].io, hw, {}) =>
              /\ Same(a[k].io, hw, {})
              /\ \A x : x \in a[k].bits <=> \/ x \in a[k - 1].bits
                                            \/ \E p \in Live(f) : wordof[p] = k /\ at[p] \in hw /\ x = p - f.offset
    BY <1>4
  <2>2. ReadingLoop(n, a, at, Live(f), {}, f.offset, hw, wordof)
    BY <1>1, <1>3, <2>1 DEF ReadingLoop
  <2> QED
    BY <2>2, ReadLoop
<1> QED
  BY <1>2, <1>5, <1>6

\* During a write the addresses of the field reach the same registers throughout.
Steady(f) == Ports(f) \cap Decoded = {} \/ Ports(f) \cap {IndexPort, BankPort} = {}

\* A write to a steady field does not move the bits of the field.
LEMMA SteadyBits ==
  ASSUME NEW f, Steady(f), NEW hw, NEW kw, Same(kw, hw, {Bit(hw, f, p) : p \in Span(f)})
  PROVE  \A p \in Span(f) : Bit(kw, f, p) = Bit(hw, f, p)
<1>1. \A p \in Span(f) : Address(f, p) \in Ports(f)
  BY DEF Ports
<1>2. CASE Ports(f) \cap Decoded = {}
  BY <1>1, <1>2, PlainCell DEF Bit
<1>3. CASE Ports(f) \cap {IndexPort, BankPort} = {}
  <2>1. ASSUME NEW p \in Span(f) PROVE Bit(hw, f, p) \notin Selects
    <3>1. Address(f, p) # IndexPort /\ Address(f, p) # BankPort
      BY <1>1, <1>3
    <3>2. CASE Address(f, p) \notin Decoded
      BY <3>1, <3>2, PlainCell DEF Bit, Selects
    <3>3. CASE Address(f, p) \in Decoded
      <4>1. HwCell(hw, Address(f, p))[1] \in {"register", "bank"}
        BY <3>3 DEF HwCell, Decoded
      <4>2. IndexPort[1] \in Spaces /\ BankPort[1] \in Spaces
        BY ChipAssumption
      <4> QED
        BY <4>1, <4>2 DEF Bit, Selects, Spaces
    <3> QED
      BY <3>2, <3>3
  <2>2. \A b \in Selects : b \in kw <=> b \in hw
    BY <2>1 DEF Same
  <2> QED
    BY <2>2, SameCells DEF Bit
<1> QED
  BY <1>2, <1>3 DEF Steady

\* All passes of a write to a region together.
LEMMA PlainWrite ==
  ASSUME NEW hw, NEW f, InRegion(f), Steady(f), NEW v
  PROVE  /\ Same(WriteRegion(hw, f, v), hw, {Bit(hw, f, p) : p \in Span(f)})
         /\ \A p \in Live(f) : Bit(hw, f, p) \in WriteRegion(hw, f, v) <=> p - f.offset \in v
<1> DEFINE n == WordCount(f)
           at == [p \in Span(f) |-> Bit(hw, f, p)]
           wordof == [p \in Span(f) |-> PassOf(f, p)]
           all == {at[p] : p \in Span(f)}
           of(k) == {at[p] : p \in {q \in Span(f) : wordof[q] = k}}
<1>1. n \in Nat /\ Live(f) \subseteq Span(f) /\ Span(f) \subseteq Nat /\ \A p \in Span(f) : wordof[p] \in 1 .. n
  BY Passes DEF InRegion
<1>2. PICK d : /\ d[0] = hw
               /\ \A k \in 1 .. n : d[k] = WritePass(d[k - 1], f, k, v)
               /\ WriteRegion(hw, f, v) = d[n]
  BY <1>1, WritesResult
<1>3. \A p \in Span(f) : at[p] = Bit(hw, f, p) /\ wordof[p] = PassOf(f, p)
  OBVIOUS
<1>4. all = {Bit(hw, f, p) : p \in Span(f)}
  BY <1>3
<1> HIDE DEF n, at, wordof
<1>5. \A p \in Live(f), q \in Span(f) : at[p] = at[q] => p = q
  BY <1>1, <1>3, BitsDiffer
<1>6. ASSUME NEW k \in 1 .. n, Same(d[k - 1], hw, {} \cup all)
      PROVE  /\ Same(d[k], d[k - 1], {} \cup of(k))
             /\ \A p \in Live(f) : wordof[p] = k => (at[p] \in d[k] <=> p - f.offset \in v)
  <2>1. Same(d[k - 1], hw, {Bit(hw, f, p) : p \in Span(f)})
    BY <1>4, <1>6
  <2>2. \A p \in Span(f) : Bit(d[k - 1], f, p) = Bit(hw, f, p)
    BY <2>1, SteadyBits
  <2>3. d[k] = WritePass(d[k - 1], f, k, v)
    BY <1>2
  <2>4. /\ Same(d[k], d[k - 1], {Bit(d[k - 1], f, p) : p \in {q \in Span(f) : PassOf(f, q) = k}})
        /\ \A p \in Live(f) : PassOf(f, p) = k => (Bit(d[k - 1], f, p) \in d[k] <=> p - f.offset \in v)
    BY <2>3, WritePassBits DEF n
  <2>5. {Bit(d[k - 1], f, p) : p \in {q \in Span(f) : PassOf(f, q) = k}} = {} \cup of(k)
    BY <1>3, <2>2
  <2>6. Same(d[k], d[k - 1], {} \cup of(k))
    BY <2>4, <2>5
  <2>7. \A p \in Live(f) : wordof[p] = k => (at[p] \in d[k] <=> p - f.offset \in v)
    BY <1>1, <1>3, <2>2, <2>4
  <2> QED
    BY <2>6, <2>7
<1>7. WritingLoop(n, d, at, Span(f), Live(f), {}, f.offset, hw, v, wordof)
  <2>1. \A k \in 1 .. n :
           Same(d[k - 1], hw, {} \cup all) =>
              /\ Same(d[k], d[k - 1], {} \cup of(k))
              /\ \A p \in Live(f) : wordof[p] = k => (at[p] \in d[k] <=> p - f.offset \in v)
    BY <1>6
  <2> QED
    BY <1>1, <1>2, <1>5, <2>1 DEF WritingLoop
<1>8. /\ Same(d[n], hw, {} \cup all)
      /\ \A p \in Live(f) : at[p] \in d[n] <=> p - f.offset \in v
  BY <1>7, WriteLoop
<1>9. {} \cup all = {Bit(hw, f, p) : p \in Span(f)}
  BY <1>4
<1>10. Same(d[n], hw, {Bit(hw, f, p) : p \in Span(f)})
  BY <1>8, <1>9
<1> QED
  BY <1>1, <1>2, <1>3, <1>8, <1>10

-----------------------------------------------------------------------------
(***************************************************************************)
(* Registers behind an index and a data port.                              *)
(***************************************************************************)
\* The bits of a whole register at a port.
LEMMA BitsOfRegister ==
  ASSUME NEW f, InRegion(f), f.offset % 8 = 0, NEW i \in 0 .. 7, i < f.size
  PROVE  /\ f.offset + i \in Bits(f)
         /\ Address(f, f.offset + i) = Address(f, f.offset)
         /\ (f.offset + i) % 8 = i
<1>1. f.offset \in Nat /\ f.size \in Nat
  BY DEF InRegion, Regular
<1>2. (f.offset + i) \div 8 = f.offset \div 8 /\ (f.offset + i) % 8 = i
  BY <1>1
<1>3. f.offset + i \in Bits(f)
  BY <1>1 DEF Bits
<1> QED
  BY <1>2, <1>3 DEF Address

\* The lower bits of a value.
Low(v, size) == v \cap 0 .. size - 1

\* A write to a selecting register: it changes this register only, which then shows the
\* lower bits of the value.
LEMMA SelectRegister ==
  ASSUME NEW hw, NEW f, NEW port, NEW size \in 1 .. 8, Register(f, port, size), NEW v
  PROVE  /\ Same(WriteRegion(hw, f, v), hw, Touched(f))
         /\ Shown(WriteRegion(hw, f, v), port, size) = Low(v, size)
<1> DEFINE s == WriteRegion(hw, f, v)
<1>1. /\ InRegion(f) /\ f.type = "FIELD" /\ f.offset % 8 = 0 /\ f.size >= size /\ f.size \in Nat /\ f.offset \in Nat
      /\ Address(f, f.offset) = port /\ Ports(f) \cap Decoded = {}
      /\ f.offset .. f.offset + size - 1 \subseteq Live(f)
  BY DEF Register, InRegion, Regular
<1>2. \A p \in Span(f) : Bit(hw, f, p) = Place(f, p)
  <2> TAKE p \in Span(f)
  <2>1. Address(f, p) \notin Decoded
    BY <1>1 DEF Ports
  <2> QED
    BY <1>1, <2>1, PlainCell DEF Bit, Place
<1>3. {Bit(hw, f, p) : p \in Span(f)} = Touched(f)
  BY <1>2 DEF Touched
<1>4. Steady(f)
  BY <1>1 DEF Steady
<1>5. /\ Same(s, hw, {Bit(hw, f, p) : p \in Span(f)})
      /\ \A p \in Live(f) : Bit(hw, f, p) \in s <=> p - f.offset \in v
  BY <1>1, <1>4, PlainWrite
<1>6. Same(s, hw, Touched(f))
  BY <1>3, <1>5
<1>7. Live(f) \subseteq Span(f)
  BY <1>1, Passes DEF InRegion
<1> HIDE DEF s
<1>8. ASSUME NEW i \in 0 .. size - 1
      PROVE  <<port, i>> \in s <=> i \in v
  <2>1. i \in 0 .. 7 /\ i < f.size
    BY <1>1
  <2>2. f.offset + i \in Live(f) /\ Address(f, f.offset + i) = port /\ (f.offset + i) % 8 = i
    <3>1. f.offset + i \in f.offset .. f.offset + size - 1
      BY <1>1
    <3> QED
      BY <1>1, <2>1, <3>1, BitsOfRegister
  <2>3. Bit(hw, f, f.offset + i) = <<port, i>>
    BY <1>1, <1>2, <1>7, <2>2 DEF Place
  <2>4. (f.offset + i) - f.offset = i
    BY <1>1
  <2> QED
    BY <1>5, <2>2, <2>3, <2>4
<1>9. Shown(s, port, size) = Low(v, size)
  BY <1>8 DEF Shown, Low
<1> QED
  BY <1>6, <1>9 DEF s

\* The bits of the register that the index register selects for a word.
RegisterBit(word, i) == <<<<"register", BitsOf(word) \cap 0 .. 7>>, i>>

\* What FieldAssumption says of an IndexField.
LEMMA IndexFacts ==
  ASSUME NEW f, FieldAssumption(f), f.type = "INDEXFIELD"
  PROVE  /\ Regular(f) /\ lai_calculate_access_width(f) = 8
         /\ Register(f.index, IndexPort, 8)
         /\ InRegion(f.data) /\ f.data.offset % 8 = 0 /\ f.data.size = 8 /\ Ports(f.data) = {DataPort}
         /\ f.data.type = "FIELD" /\ Live(f.data) = Bits(f.data)
         /\ \A p \in Live(f), q \in Span(f) : Place(f, p) = Place(f, q) => p = q
<1>1. /\ Regular(f) /\ lai_calculate_access_width(f) = 8
      /\ Register(f.index, IndexPort, 8)
      /\ InRegion(f.data) /\ f.data.offset % 8 = 0 /\ f.data.size = 8 /\ Ports(f.data) = {DataPort}
      /\ f.data.type = "FIELD"
      /\ \A p \in Bits(f), q \in Span(f) : Place(f, p) = Place(f, q) => p = q
  BY DEF FieldAssumption
<1>2. Live(f) \subseteq Bits(f)
  BY <1>1, Passes
<1>3. Live(f.data) = Bits(f.data)
  BY <1>1, AllLive DEF InRegion
<1> QED
  BY <1>1, <1>2, <1>3

\* The low byte of a value is that of its buffer.
LEMMA LowByte ==
  ASSUME NEW v, NEW i \in 0 .. 7
  PROVE  i \in ToBuffer(v) <=> i \in v
<1>1. i \in 0 .. 63 /\ i % 32 = i
  OBVIOUS
<1> QED
  BY <1>1 DEF ToBuffer

\* No register behind the index is touched by selecting it.
LEMMA RegistersApart ==
  ASSUME NEW f, Register(f, IndexPort, 8), NEW word, NEW i
  PROVE  RegisterBit(word, i) \notin Touched(f)
<1>1. f.region.space \in Spaces /\ f.type = "FIELD"
  BY DEF Register, InRegion
<1>2. \A p : Place(f, p)[1][1] \in Spaces
  BY <1>1 DEF Place, Address
<1>3. RegisterBit(word, i)[1][1] = "register"
  BY DEF RegisterBit
<1> QED
  BY <1>2, <1>3 DEF Touched, Spaces

\* The data register after the index register has been written.
LEMMA DataRegister ==
  ASSUME NEW f, FieldAssumption(f), f.type = "INDEXFIELD", NEW hw, NEW word \in Nat
  PROVE  LET s == WriteRegion(hw, f.index, ByteOffset(f, word))
         IN  /\ Same(s, hw, Touched(f.index))
             /\ \A p \in Span(f.data) : Bit(s, f.data, p) = RegisterBit(word, p % 8)
             /\ \A i : RegisterBit(word, i) \in s <=> RegisterBit(word, i) \in hw
<1> DEFINE s == WriteRegion(hw, f.index, ByteOffset(f, word))
<1>1. Register(f.index, IndexPort, 8) /\ Ports(f.data) = {DataPort} /\ lai_calculate_access_width(f) = 8
  BY IndexFacts
<1>2. ByteOffset(f, word) = ToBuffer(BitsOf(word))
  <2>1. word * (8 \div 8) = word
    OBVIOUS
  <2> QED
    BY <1>1, <2>1 DEF ByteOffset
<1>3. Same(s, hw, Touched(f.index)) /\ Shown(s, IndexPort, 8) = BitsOf(word) \cap 0 .. 7
  <2>1. 8 \in 1 .. 8
    OBVIOUS
  <2>2. /\ Same(s, hw, Touched(f.index))
        /\ Shown(s, IndexPort, 8) = Low(ByteOffset(f, word), 8)
    BY <1>1, <2>1, SelectRegister
  <2>3. 8 - 1 = 7
    OBVIOUS
  <2> QED
    BY <1>2, <2>2, <2>3, LowByte DEF Low
<1> HIDE DEF s
<1>4. HwCell(s, DataPort) = <<"register", BitsOf(word) \cap 0 .. 7>>
  BY <1>3, ChipAssumption DEF HwCell
<1>5. \A p \in Span(f.data) : Bit(s, f.data, p) = RegisterBit(word, p % 8)
  <2> TAKE p \in Span(f.data)
  <2>1. Address(f.data, p) = DataPort
    BY <1>1 DEF Ports
  <2> QED
    BY <1>4, <2>1 DEF Bit, RegisterBit
<1>6. \A i : RegisterBit(word, i) \in s <=> RegisterBit(word, i) \in hw
  BY <1>1, <1>3, RegistersApart DEF Same
<1> QED
  BY <1>3, <1>5, <1>6 DEF s

\* lai_perform_indexfield_read() reads the register that the word numbers.
LEMMA IndexedRead ==
  ASSUME NEW f, FieldAssumption(f), f.type = "INDEXFIELD", NEW hw, NEW word \in Nat
  PROVE  /\ Same(lai_perform_indexfield_read(hw, f, word).io, hw, Touched(f.index))
         /\ \A i : i \in lai_perform_indexfield_read(hw, f, word).bits <=>
                   i \in 0 .. 7 /\ RegisterBit(word, i) \in hw
<1> DEFINE s == WriteRegion(hw, f.index, ByteOffset(f, word))
           g == f.data
           r == ReadRegion(s, g)
<1>1. InRegion(g) /\ g.offset % 8 = 0 /\ g.size = 8 /\ g.offset \in Nat /\ Live(g) = Bits(g)
  BY IndexFacts DEF InRegion, Regular
<1>2. /\ Same(s, hw, Touched(f.index))
      /\ \A p \in Span(g) : Bit(s, g, p) = RegisterBit(word, p % 8)
      /\ \A i : RegisterBit(word, i) \in s <=> RegisterBit(word, i) \in hw
  BY DataRegister
<1>3. /\ lai_perform_indexfield_read(hw, f, word).io = r.io
      /\ lai_perform_indexfield_read(hw, f, word).bits = FromBuffer(r.bits)
  <2>1. \E x, y : r = [io |-> x, bits |-> y]
    BY <1>1, ReadRecord DEF InRegion
  <2>2. lai_perform_indexfield_read(hw, f, word) = [r EXCEPT !.bits = FromBuffer(@)]
    BY DEF lai_perform_indexfield_read
  <2> HIDE DEF r
  <2> QED
    BY <2>1, <2>2
<1> HIDE DEF s, g
<1>4. /\ Same(r.io, s, {})
      /\ \A x : x \in r.bits <=> \E p \in Bits(g) : Bit(s, g, p) \in s /\ x = p - g.offset
  BY <1>1, PlainRead
<1> HIDE DEF r
<1>5. Same(r.io, hw, Touched(f.index))
  BY <1>2, <1>4 DEF Same
<1>6. Bits(g) \subseteq Span(g)
  BY <1>1, Passes DEF InRegion
<1>7. \A i \in 0 .. 7 : g.offset + i \in Bits(g) /\ (g.offset + i) % 8 = i /\ (g.offset + i) - g.offset = i
  <2> TAKE i \in 0 .. 7
  <2>1. i < g.size /\ (g.offset + i) - g.offset = i
    BY <1>1
  <2> QED
    BY <1>1, <2>1, BitsOfRegister
<1>8. \A p \in Bits(g) : p - g.offset \in 0 .. 7 /\ p % 8 = p - g.offset
  BY <1>1 DEF Bits
<1>9. \A i : i \in r.bits <=> i \in 0 .. 7 /\ RegisterBit(word, i) \in hw
  <2>1. ASSUME NEW i, i \in r.bits
        PROVE  i \in 0 .. 7 /\ RegisterBit(word, i) \in hw
    <3>1. PICK p \in Bits(g) : Bit(s, g, p) \in s /\ i = p - g.offset
      BY <1>4, <2>1
    <3> QED
      BY <1>2, <1>6, <1>8, <3>1
  <2>2. ASSUME NEW i, i \in 0 .. 7, RegisterBit(word, i) \in hw
        PROVE  i \in r.bits
    <3>1. g.offset + i \in Bits(g) /\ (g.offset + i) % 8 = i /\ i = (g.offset + i) - g.offset
      BY <1>7, <2>2
    <3>2. Bit(s, g, g.offset + i) \in s
      BY <1>2, <1>6, <2>2, <3>1
    <3> QED
      BY <1>4, <3>1, <3>2
  <2> QED
    BY <2>1, <2>2
<1>10. FromBuffer(r.bits) = r.bits
  <2>1. \A i \in r.bits : i % 32 = i
    BY <1>9
  <2> QED
    BY <2>1 DEF FromBuffer
<1> QED
  BY <1>3, <1>5, <1>9, <1>10

\* lai_perform_indexfield_write() writes the register that the word numbers.
LEMMA IndexedWrite ==
  ASSUME NEW f, FieldAssumption(f), f.type = "INDEXFIELD", NEW hw, NEW word \in Nat, NEW v
  PROVE  /\ Same(lai_perform_indexfield_write(hw, f, word, v), hw,
                 Touched(f.index) \cup {RegisterBit(word, i) : i \in 0 .. 7})
         /\ \A i \in 0 .. 7 : RegisterBit(word, i) \in lai_perform_indexfield_write(hw, f, word, v) <=> i \in v
<1> DEFINE s == WriteRegion(hw, f.index, ByteOffset(f, word))
           g == f.data
           r == WriteRegion(s, g, ToBuffer(v))
<1>1. /\ InRegion(g) /\ g.offset % 8 = 0 /\ g.size = 8 /\ g.offset \in Nat /\ Ports(g) = {DataPort}
      /\ Live(g) = Bits(g)
  BY IndexFacts DEF InRegion, Regular
<1>2. /\ Same(s, hw, Touched(f.index))
      /\ \A p \in Span(g) : Bit(s, g, p) = RegisterBit(word, p % 8)
  BY DataRegister
<1>3. lai_perform_indexfield_write(hw, f, word, v) = r
  BY DEF lai_perform_indexfield_write
<1>4. Steady(g)
  BY <1>1, ChipAssumption DEF Steady, Decoded
<1> HIDE DEF s, g
<1>5. /\ Same(r, s, {Bit(s, g, p) : p \in Span(g)})
      /\ \A p \in Bits(g) : Bit(s, g, p) \in r <=> p - g.offset \in ToBuffer(v)
  BY <1>1, <1>4, PlainWrite
<1> HIDE DEF r
<1>6. Bits(g) \subseteq Span(g) /\ Span(g) \subseteq Nat
  BY <1>1, Passes DEF InRegion
<1>7. {Bit(s, g, p) : p \in Span(g)} \subseteq {RegisterBit(word, i) : i \in 0 .. 7}
  <2>1. \A p \in Span(g) : p % 8 \in 0 .. 7
    BY <1>6
  <2> QED
    BY <1>2, <2>1
<1>8. Same(r, hw, Touched(f.index) \cup {RegisterBit(word, i) : i \in 0 .. 7})
  BY <1>2, <1>5, <1>7 DEF Same
<1>9. \A i \in 0 .. 7 : RegisterBit(word, i) \in r <=> i \in v
  <2> TAKE i \in 0 .. 7
  <2>1. g.offset + i \in Bits(g) /\ (g.offset + i) % 8 = i /\ (g.offset + i) - g.offset = i
    <3>1. i < g.size /\ (g.offset + i) - g.offset = i
      BY <1>1
    <3> QED
      BY <1>1, <3>1, BitsOfRegister
  <2>2. Bit(s, g, g.offset + i) = RegisterBit(word, i)
    BY <1>2, <1>6, <2>1
  <2> QED
    BY <1>5, <2>1, <2>2, LowByte
<1> QED
  BY <1>3, <1>8, <1>9

(***************************************************************************)
(* The passes of a read of an indexed field.                                *)
(***************************************************************************)
IndexReadPass(acc, f, k) ==
    ReadWord(LAMBDA d, word : lai_perform_indexfield_read(d, f, word), acc, f, Word(f, k))
IndexReads(hw, f, n, a) ==
    a = [k \in 0 .. n |-> IF k = 0 THEN [io |-> hw, bits |-> {}] ELSE IndexReadPass(a[k - 1], f, k)]

\* The recursion of lai_read_field_internal() over an IndexField has a result.
LEMMA IndexReadsDefined ==
  ASSUME NEW hw, NEW f, NEW n \in Nat
  PROVE  \E a : IndexReads(hw, f, n, a)
<1> DEFINE S == {j \in Nat : \E a : IndexReads(hw, f, j, a)}
<1>1. 0 \in S
  <2>1. IndexReads(hw, f, 0, [k \in 0 .. 0 |-> [io |-> hw, bits |-> {}]])
    BY DEF IndexReads
  <2> QED
    BY <2>1
<1>2. ASSUME NEW j \in S PROVE j + 1 \in S
  <2>1. PICK a : IndexReads(hw, f, j, a)
    OBVIOUS
  <2> DEFINE g == [k \in 0 .. j + 1 |-> IF k = j + 1 THEN IndexReadPass(a[j], f, j + 1) ELSE a[k]]
  <2>2. \A k \in 0 .. j + 1 : g[k] = IF k = 0 THEN [io |-> hw, bits |-> {}] ELSE IndexReadPass(g[k - 1], f, k)
    <3> TAKE k \in 0 .. j + 1
    <3>1. CASE k = j + 1
      <4>1. k - 1 = j /\ k # 0 /\ j \in 0 .. j + 1 /\ j # j + 1
        BY <3>1
      <4>2. g[k] = IndexReadPass(a[j], f, j + 1) /\ g[k - 1] = a[j]
        BY <3>1, <4>1
      <4> HIDE DEF g
      <4> QED
        BY <3>1, <4>1, <4>2
    <3>2. CASE k # j + 1
      <4>1. k \in 0 .. j /\ g[k] = a[k]
        BY <3>2
      <4>2. k # 0 => g[k - 1] = a[k - 1]
        BY <4>1
      <4>3. a[k] = IF k = 0 THEN [io |-> hw, bits |-> {}] ELSE IndexReadPass(a[k - 1], f, k)
        BY <2>1, <4>1 DEF IndexReads
      <4> HIDE DEF g
      <4> QED
        BY <4>1, <4>2, <4>3
    <3> QED
      BY <3>1, <3>2
  <2>3. g = [k \in 0 .. j + 1 |-> g[k]]
    OBVIOUS
  <2> HIDE DEF g
  <2>4. IndexReads(hw, f, j + 1, g)
    BY <2>2, <2>3 DEF IndexReads
  <2> QED
    BY <2>4
<1>3. S \in SUBSET Nat
  OBVIOUS
<1> HIDE DEF S
<1>4. n \in S
  BY <1>1, <1>2, <1>3, Induction
<1> QED
  BY <1>4 DEF S

\* ... which lai_read_field() returns.
LEMMA IndexReadsResult ==
  ASSUME NEW hw, NEW f, WordCount(f) \in Nat, f.type = "INDEXFIELD"
  PROVE  \E a : /\ a[0] = [io |-> hw, bits |-> {}]
                /\ \A k \in 1 .. WordCount(f) : a[k] = IndexReadPass(a[k - 1], f, k)
                /\ lai_read_field(hw, f) = a[WordCount(f)]
<1> DEFINE a == CHOOSE a : IndexReads(hw, f, WordCount(f), a)
<1>1. IndexReads(hw, f, WordCount(f), a)
  BY IndexReadsDefined
<1>2. lai_read_field(hw, f) = a[WordCount(f)]
  BY DEF lai_read_field, lai_read_field_internal, IndexReads, IndexReadPass
<1> HIDE DEF a
<1>3. \A k \in 0 .. WordCount(f) : a[k] = IF k = 0 THEN [io |-> hw, bits |-> {}] ELSE IndexReadPass(a[k - 1], f, k)
  BY <1>1 DEF IndexReads
<1>4. a[0] = [io |-> hw, bits |-> {}]
  BY <1>3
<1>5. \A k \in 1 .. WordCount(f) : k \in 0 .. WordCount(f) /\ k # 0
  OBVIOUS
<1>6. \A k \in 1 .. WordCount(f) : a[k] = IndexReadPass(a[k - 1], f, k)
  BY <1>3, <1>5
<1> QED
  BY <1>2, <1>4, <1>6

(***************************************************************************)
(* The passes of a write to an indexed field.                               *)
(***************************************************************************)
IndexWritePass(hw, f, k, v) ==
    WriteWord(LAMBDA d, word : lai_perform_indexfield_read(d, f, word),
              LAMBDA d, word, new : lai_perform_indexfield_write(d, f, word, new),
              hw, f, Word(f, k), v)
IndexWrites(hw, f, v, n, a) ==
    a = [k \in 0 .. n |-> IF k = 0 THEN hw ELSE IndexWritePass(a[k - 1], f, k, v)]

\* The recursion of lai_write_field_internal() over an IndexField has a result.
LEMMA IndexWritesDefined ==
  ASSUME NEW hw, NEW f, NEW v, NEW n \in Nat
  PROVE  \E a : IndexWrites(hw, f, v, n, a)
<1> DEFINE S == {j \in Nat : \E a : IndexWrites(hw, f, v, j, a)}
<1>1. 0 \in S
  <2>1. IndexWrites(hw, f, v, 0, [k \in 0 .. 0 |-> hw])
    BY DEF IndexWrites
  <2> QED
    BY <2>1
<1>2. ASSUME NEW j \in S PROVE j + 1 \in S
  <2>1. PICK a : IndexWrites(hw, f, v, j, a)
    OBVIOUS
  <2> DEFINE g == [k \in 0 .. j + 1 |-> IF k = j + 1 THEN IndexWritePass(a[j], f, j + 1, v) ELSE a[k]]
  <2>2. \A k \in 0 .. j + 1 : g[k] = IF k = 0 THEN hw ELSE IndexWritePass(g[k - 1], f, k, v)
    <3> TAKE k \in 0 .. j + 1
    <3>1. CASE k = j + 1
      <4>1. k - 1 = j /\ k # 0 /\ j \in 0 .. j + 1 /\ j # j + 1
        BY <3>1
      <4>2. g[k] = IndexWritePass(a[j], f, j + 1, v) /\ g[k - 1] = a[j]
        BY <3>1, <4>1
      <4> HIDE DEF g
      <4> QED
        BY <3>1, <4>1, <4>2
    <3>2. CASE k # j + 1
      <4>1. k \in 0 .. j /\ g[k] = a[k]
        BY <3>2
      <4>2. k # 0 => g[k - 1] = a[k - 1]
        BY <4>1
      <4>3. a[k] = IF k = 0 THEN hw ELSE IndexWritePass(a[k - 1], f, k, v)
        BY <2>1, <4>1 DEF IndexWrites
      <4> HIDE DEF g
      <4> QED
        BY <4>1, <4>2, <4>3
    <3> QED
      BY <3>1, <3>2
  <2>3. g = [k \in 0 .. j + 1 |-> g[k]]
    OBVIOUS
  <2> HIDE DEF g
  <2>4. IndexWrites(hw, f, v, j + 1, g)
    BY <2>2, <2>3 DEF IndexWrites
  <2> QED
    BY <2>4
<1>3. S \in SUBSET Nat
  OBVIOUS
<1> HIDE DEF S
<1>4. n \in S
  BY <1>1, <1>2, <1>3, Induction
<1> QED
  BY <1>4 DEF S

\* ... which lai_write_field() returns.
LEMMA IndexWritesResult ==
  ASSUME NEW hw, NEW f, NEW v, WordCount(f) \in Nat, f.type = "INDEXFIELD"
  PROVE  \E a : /\ a[0] = hw
                /\ \A k \in 1 .. WordCount(f) : a[k] = IndexWritePass(a[k - 1], f, k, v)
                /\ lai_write_field(hw, f, v) = a[WordCount(f)]
<1> DEFINE a == CHOOSE a : IndexWrites(hw, f, v, WordCount(f), a)
<1>1. IndexWrites(hw, f, v, WordCount(f), a)
  BY IndexWritesDefined
<1>2. lai_write_field(hw, f, v) = a[WordCount(f)]
  BY DEF lai_write_field, lai_write_field_internal, IndexWrites, IndexWritePass
<1> HIDE DEF a
<1>3. \A k \in 0 .. WordCount(f) : a[k] = IF k = 0 THEN hw ELSE IndexWritePass(a[k - 1], f, k, v)
  BY <1>1 DEF IndexWrites
<1>4. a[0] = hw
  BY <1>3
<1>5. \A k \in 1 .. WordCount(f) : k \in 0 .. WordCount(f) /\ k # 0
  OBVIOUS
<1>6. \A k \in 1 .. WordCount(f) : a[k] = IndexWritePass(a[k - 1], f, k, v)
  BY <1>3, <1>5
<1> QED
  BY <1>2, <1>4, <1>6

\* A position of an indexed field, by word and bit.
LEMMA PlaceOfIndexed ==
  ASSUME NEW f, f.type = "INDEXFIELD", NEW word \in Nat, NEW i \in 0 .. 7
  PROVE  Place(f, word * 8 + i) = RegisterBit(word, i)
<1>1. (word * 8 + i) \div 8 = word /\ (word * 8 + i) % 8 = i
  OBVIOUS
<1> QED
  BY <1>1 DEF Place, RegisterBit

\* The bits of an indexed word by their positions.
LEMMA IndexedPositions ==
  ASSUME NEW f, FieldAssumption(f), f.type = "INDEXFIELD", NEW word \in Nat
  PROVE  /\ \A i \in 0 .. 7 : /\ word * 8 + i \in WordBits(f, word)
                              /\ i \in LiveBits(f, word) <=> word * 8 + i \in Live(f)
         /\ \A p \in WordBits(f, word) : \E i \in 0 .. 7 : p = word * 8 + i
         /\ LiveBits(f, word) \subseteq 0 .. 7
<1> DEFINE width == lai_calculate_access_width(f)
<1>1. /\ \A i \in 0 .. width - 1 : /\ word * width + i \in WordBits(f, word)
                                   /\ i \in LiveBits(f, word) <=> word * width + i \in Live(f)
      /\ \A p \in WordBits(f, word) : \E i \in 0 .. width - 1 : p = word * width + i
      /\ LiveBits(f, word) \subseteq 0 .. width - 1
  BY IndexFacts, PositionsOfWord
<1>2. width = 8 /\ 8 - 1 = 7
  BY IndexFacts
<1> HIDE DEF width
<1>3. 0 .. width - 1 = 0 .. 7
  BY <1>2
<1> QED
  BY <1>1, <1>2, <1>3

\* One pass of a read of an IndexField adds the bits of its register that are the field's.
LEMMA IndexReadPassBits ==
  ASSUME NEW f, FieldAssumption(f), f.type = "INDEXFIELD", NEW acc, NEW k \in 1 .. WordCount(f)
  PROVE  /\ Same(IndexReadPass(acc, f, k).io, acc.io, Touched(f.index))
         /\ \A x : x \in IndexReadPass(acc, f, k).bits <=>
               \/ x \in acc.bits
               \/ \E p \in Live(f) : PassOf(f, p) = k /\ Place(f, p) \in acc.io /\ x = p - f.offset
<1> DEFINE word == Word(f, k)
           r == lai_perform_indexfield_read(acc.io, f, word)
           found == r.bits \cap LiveBits(f, word)
<1>1. Regular(f) /\ lai_calculate_access_width(f) = 8 /\ f.offset \in Nat
  BY IndexFacts DEF Regular
<1>2. word \in Nat /\ Live(f) \subseteq Span(f)
  BY <1>1, Passes
<1>3. IndexReadPass(acc, f, k) = [io |-> r.io, bits |-> acc.bits \cup {BitOfField(f, word, i) : i \in found}]
  <2>1. r.bits \in SUBSET Nat
    BY <1>2, IndexedRead
  <2>2. lai_buffer_put_at(ShiftRight(r.bits, BitOffset(f, word)) \cap LowBits(AccessBits(f, word)),
                          Progress(f, word), AccessBits(f, word))
          = {BitOfField(f, word, i) : i \in found}
    BY <1>1, <2>1, Masks
  <2> QED
    BY <2>2 DEF IndexReadPass, ReadWord
<1>4. /\ Same(r.io, acc.io, Touched(f.index))
      /\ \A i : i \in r.bits <=> i \in 0 .. 7 /\ RegisterBit(word, i) \in acc.io
  BY <1>2, IndexedRead
<1>6. \A p \in Live(f) : PassOf(f, p) = k <=> p \in WordBits(f, word)
  BY <1>1, <1>2, Passes
<1>7. \A i \in 0 .. 7 : /\ word * 8 + i \in WordBits(f, word)
                        /\ i \in LiveBits(f, word) <=> word * 8 + i \in Live(f)
  BY <1>2, IndexedPositions
<1>8. \A p \in WordBits(f, word) : \E i \in 0 .. 7 : p = word * 8 + i
  BY <1>2, IndexedPositions
<1>9. \A i \in 0 .. 7 : BitOfField(f, word, i) = (word * 8 + i) - f.offset
  BY <1>1, <1>2 DEF BitOfField
<1>10. \A i : i \in found <=> i \in 0 .. 7 /\ i \in LiveBits(f, word) /\ RegisterBit(word, i) \in acc.io
  BY <1>4
<1>11. \A i \in 0 .. 7 : Place(f, word * 8 + i) = RegisterBit(word, i)
  BY <1>2, PlaceOfIndexed
<1> HIDE DEF word, r, found
<1>12. ASSUME NEW x
       PROVE  (\E i \in found : x = BitOfField(f, word, i)) <=>
              \E p \in Live(f) : PassOf(f, p) = k /\ Place(f, p) \in acc.io /\ x = p - f.offset
  <2>1. ASSUME NEW i \in found, x = BitOfField(f, word, i)
        PROVE  \E p \in Live(f) : PassOf(f, p) = k /\ Place(f, p) \in acc.io /\ x = p - f.offset
    <3>1. i \in 0 .. 7 /\ word * 8 + i \in Live(f) /\ Place(f, word * 8 + i) \in acc.io
      BY <1>7, <1>10, <1>11
    <3>2. PassOf(f, word * 8 + i) = k
      BY <1>6, <1>7, <3>1
    <3>3. x = (word * 8 + i) - f.offset
      BY <1>1, <1>2, <1>9, <2>1, <3>1
    <3> QED
      BY <3>1, <3>2, <3>3
  <2>2. ASSUME NEW p \in Live(f), PassOf(f, p) = k, Place(f, p) \in acc.io, x = p - f.offset
        PROVE  \E i \in found : x = BitOfField(f, word, i)
    <3>1. PICK i \in 0 .. 7 : p = word * 8 + i
      BY <1>6, <1>8, <2>2
    <3>2. i \in found
      BY <1>7, <1>10, <1>11, <2>2, <3>1
    <3>3. BitOfField(f, word, i) = p - f.offset
      BY <1>1, <1>2, <1>9, <3>1
    <3> QED
      BY <2>2, <3>2, <3>3
  <2> QED
    BY <2>1, <2>2
<1> QED
  BY <1>3, <1>4, <1>12

\* One pass of a write to an IndexField changes the index register and its own register only.
LEMMA IndexWritePassBits ==
  ASSUME NEW f, FieldAssumption(f), f.type = "INDEXFIELD", NEW hw, NEW k \in 1 .. WordCount(f), NEW v
  PROVE  /\ Same(IndexWritePass(hw, f, k, v), hw,
                 Touched(f.index) \cup {Place(f, p) : p \in {q \in Span(f) : PassOf(f, q) = k}})
         /\ \A p \in Live(f) : PassOf(f, p) = k => (Place(f, p) \in IndexWritePass(hw, f, k, v) <=> p - f.offset \in v)
<1> DEFINE word == Word(f, k)
           r == lai_perform_indexfield_read(hw, f, word)
           old == CASE f.update = "PRESERVE"     -> r
                    [] f.update = "WRITE_ONES"   -> [io |-> hw, bits |-> Uint64]
                    [] f.update = "WRITE_ZEROES" -> [io |-> hw, bits |-> {}]
           mask == LiveBits(f, word)
           new == (old.bits \ mask) \cup {i \in mask : BitOfField(f, word, i) \in v}
           res == IndexWritePass(hw, f, k, v)
<1>1. /\ Regular(f) /\ lai_calculate_access_width(f) = 8 /\ f.offset \in Nat
      /\ f.update \in {"PRESERVE", "WRITE_ONES", "WRITE_ZEROES"} /\ Register(f.index, IndexPort, 8)
  BY IndexFacts DEF Regular
<1>2. word \in Nat /\ Live(f) \subseteq Span(f) /\ Span(f) \subseteq Nat
  BY <1>1, Passes
<1>3. /\ WriteMask(f, word) = mask /\ mask \subseteq 0 .. 7
      /\ ShiftLeft(lai_buffer_get_at(v, Progress(f, word), AccessBits(f, word)), BitOffset(f, word)) \cap mask
            = {i \in mask : BitOfField(f, word, i) \in v}
  BY <1>1, <1>2, Masks, IndexedPositions
<1>4. res = lai_perform_indexfield_write(old.io, f, word, new)
  BY <1>1, <1>3 DEF IndexWritePass, WriteWord
<1>5. /\ Same(r.io, hw, Touched(f.index))
      /\ \A i : i \in r.bits <=> i \in 0 .. 7 /\ RegisterBit(word, i) \in hw
  BY <1>2, IndexedRead
<1>6. Same(old.io, hw, Touched(f.index))
  <2>1. CASE f.update = "PRESERVE"
    BY <1>5, <2>1
  <2>2. CASE f.update # "PRESERVE"
    <3>1. old.io = hw
      BY <1>1, <2>2
    <3> QED
      BY <3>1 DEF Same
  <2> QED
    BY <2>1, <2>2
<1> HIDE DEF new
<1>7. /\ Same(res, old.io, Touched(f.index) \cup {RegisterBit(word, i) : i \in 0 .. 7})
      /\ \A i \in 0 .. 7 : RegisterBit(word, i) \in res <=> i \in new
  <2> HIDE DEF old, res
  <2> QED
    BY <1>2, <1>4, IndexedWrite
<1>8. \A i \in 0 .. 7 : /\ word * 8 + i \in WordBits(f, word)
                        /\ i \in mask <=> word * 8 + i \in Live(f)
  BY <1>2, IndexedPositions
<1>9. \A p \in WordBits(f, word) : \E i \in 0 .. 7 : p = word * 8 + i
  BY <1>2, IndexedPositions
<1>10. \A p \in Span(f) : PassOf(f, p) = k <=> p \in WordBits(f, word)
  BY <1>1, Passes
<1>11. \A i \in 0 .. 7 : BitOfField(f, word, i) = (word * 8 + i) - f.offset
  BY <1>1, <1>2 DEF BitOfField
<1>12. \A i \in 0 .. 7 : Place(f, word * 8 + i) = RegisterBit(word, i)
  BY <1>2, PlaceOfIndexed
\* A bit of the word that is not in the span is written back as it was read.
<1>13. ASSUME NEW i \in 0 .. 7, word * 8 + i \notin Span(f)
       PROVE  RegisterBit(word, i) \in res <=> RegisterBit(word, i) \in hw
  <2>1. f.update = "PRESERVE"
    <3> SUFFICES ASSUME f.update # "PRESERVE" PROVE FALSE
      OBVIOUS
    <3>1. WordBits(f, word) \subseteq Span(f)
      BY <1>1, WholeWords
    <3> QED
      BY <1>8, <1>13, <3>1
  <2>2. i \notin mask
    BY <1>2, <1>8, <1>13
  <2>3. old = r
    BY <2>1
  <2> HIDE DEF r, res, old, mask
  <2>4. i \in new <=> i \in old.bits
    BY <2>2 DEF new
  <2> QED
    BY <1>5, <1>7, <2>3, <2>4
<1> HIDE DEF old, res, r, mask
<1>14. Same(res, hw, Touched(f.index) \cup {Place(f, p) : p \in {q \in Span(f) : PassOf(f, q) = k}})
  <2> SUFFICES ASSUME NEW b, b \notin Touched(f.index),
                      b \notin {Place(f, p) : p \in {q \in Span(f) : PassOf(f, q) = k}}
               PROVE  b \in res <=> b \in hw
    BY DEF Same
  <2>1. CASE \E i \in 0 .. 7 : b = RegisterBit(word, i)
    <3>1. PICK i \in 0 .. 7 : b = RegisterBit(word, i)
      BY <2>1
    <3>2. word * 8 + i \notin Span(f)
      BY <1>8, <1>10, <1>12, <3>1
    <3> QED
      BY <1>13, <3>1, <3>2
  <2>2. CASE ~ \E i \in 0 .. 7 : b = RegisterBit(word, i)
    BY <1>6, <1>7, <2>2 DEF Same
  <2> QED
    BY <2>1, <2>2
<1>15. ASSUME NEW p \in Live(f), PassOf(f, p) = k
       PROVE  Place(f, p) \in res <=> p - f.offset \in v
  <2>1. PICK i \in 0 .. 7 : p = word * 8 + i
    BY <1>2, <1>9, <1>10, <1>15
  <2>2. i \in mask
    BY <1>8, <2>1
  <2>3. BitOfField(f, word, i) = p - f.offset
    BY <1>1, <1>2, <1>11, <2>1
  <2>4. i \in new <=> p - f.offset \in v
    BY <2>2, <2>3 DEF new
  <2> QED
    BY <1>7, <1>12, <2>1, <2>4
<1> QED
  BY <1>14, <1>15 DEF res

\* All passes of a read of an IndexField together.
LEMMA IndexFieldRead ==
  ASSUME NEW hw, NEW f, FieldAssumption(f), f.type = "INDEXFIELD"
  PROVE  /\ Same(lai_read_field(hw, f).io, hw, Touched(f.index))
         /\ \A x : x \in lai_read_field(hw, f).bits <=> \E p \in Live(f) : Place(f, p) \in hw /\ x = p - f.offset
<1> DEFINE n == WordCount(f)
           at == [p \in Live(f) |-> Place(f, p)]
           wordof == [p \in Live(f) |-> PassOf(f, p)]
           noise == Touched(f.index)
<1>1. Regular(f) /\ Register(f.index, IndexPort, 8)
  BY IndexFacts
<1>2. /\ n \in Nat /\ Live(f) \subseteq Span(f) /\ Live(f) \subseteq Nat
      /\ \A p \in Live(f) : wordof[p] \in 1 .. n
  BY <1>1, Passes
<1>3. PICK a : /\ a[0] = [io |-> hw, bits |-> {}]
               /\ \A k \in 1 .. n : a[k] = IndexReadPass(a[k - 1], f, k)
               /\ lai_read_field(hw, f) = a[n]
  BY <1>2, IndexReadsResult
<1>4. a[0].io = hw /\ a[0].bits = {}
  BY <1>3
<1>5. \A p \in Live(f) : at[p] = Place(f, p) /\ wordof[p] = PassOf(f, p)
  OBVIOUS
<1>6. \A p \in Live(f) : Place(f, p) \notin noise
  BY <1>1, <1>2, RegistersApart DEF Place, RegisterBit
<1> HIDE DEF n, at, wordof, noise
<1>7. ASSUME NEW k \in 1 .. n, Same(a[k - 1].io, hw, noise)
      PROVE  /\ Same(a[k].io, hw, noise)
             /\ \A x : x \in a[k].bits <=> \/ x \in a[k - 1].bits
                                           \/ \E p \in Live(f) : wordof[p] = k /\ at[p] \in hw /\ x = p - f.offset
  <2>1. /\ Same(a[k].io, a[k - 1].io, noise)
        /\ \A x : x \in a[k].bits <=>
              \/ x \in a[k - 1].bits
              \/ \E p \in Live(f) : PassOf(f, p) = k /\ Place(f, p) \in a[k - 1].io /\ x = p - f.offset
    <3>1. a[k] = IndexReadPass(a[k - 1], f, k)
      BY <1>3
    <3> QED
      BY <3>1, IndexReadPassBits DEF n, noise
  <2>2. \A p \in Live(f) : Place(f, p) \in a[k - 1].io <=> at[p] \in hw
    BY <1>5, <1>6, <1>7 DEF Same
  <2>3. Same(a[k].io, hw, noise)
    BY <1>7, <2>1 DEF Same
  <2> QED
    BY <1>5, <2>1, <2>2, <2>3
<1>8. ReadingLoop(n, a, at, Live(f), noise, f.offset, hw, wordof)
  <2>1. \A k \in 1 .. n :
           Same(a[k - 1].io, hw, noise) =>
              /\ Same(a[k].io, hw, noise)
              /\ \A x : x \in a[k].bits <=> \/ x \in a[k - 1].bits
                                            \/ \E p \in Live(f) : wordof[p] = k /\ at[p] \in hw /\ x = p - f.offset
    BY <1>7
  <2> QED
    BY <1>2, <1>4, <2>1 DEF ReadingLoop
<1>9. /\ Same(a[n].io, hw, noise)
      /\ \A x : x \in a[n].bits <=> \E p \in Live(f) : at[p] \in hw /\ x = p - f.offset
  BY <1>8, ReadLoop
<1> QED
  BY <1>3, <1>5, <1>9 DEF noise

\* All passes of a write to an IndexField together.
LEMMA IndexFieldWrite ==
  ASSUME NEW hw, NEW f, FieldAssumption(f), f.type = "INDEXFIELD", NEW v
  PROVE  /\ Same(lai_write_field(hw, f, v), hw, Touched(f.index) \cup Touched(f))
         /\ \A p \in Live(f) : Place(f, p) \in lai_write_field(hw, f, v) <=> p - f.offset \in v
<1> DEFINE n == WordCount(f)
           at == [p \in Span(f) |-> Place(f, p)]
           wordof == [p \in Span(f) |-> PassOf(f, p)]
           noise == Touched(f.index)
           all == {at[p] : p \in Span(f)}
           of(k) == {at[p] : p \in {q \in Span(f) : wordof[q] = k}}
<1>1. Regular(f) /\ Register(f.index, IndexPort, 8) /\ \A p \in Live(f), q \in Span(f) : Place(f, p) = Place(f, q) => p = q
  BY IndexFacts
<1>2. n \in Nat /\ Live(f) \subseteq Span(f) /\ Span(f) \subseteq Nat /\ \A p \in Span(f) : wordof[p] \in 1 .. n
  BY <1>1, Passes
<1>3. PICK d : /\ d[0] = hw
               /\ \A k \in 1 .. n : d[k] = IndexWritePass(d[k - 1], f, k, v)
               /\ lai_write_field(hw, f, v) = d[n]
  BY <1>2, IndexWritesResult
<1>4. \A p \in Span(f) : at[p] = Place(f, p) /\ wordof[p] = PassOf(f, p)
  OBVIOUS
<1>5. all = Touched(f)
  BY <1>4 DEF Touched
<1>6. \A p \in Live(f) : Place(f, p) \notin noise
  BY <1>1, <1>2, RegistersApart DEF Place, RegisterBit
<1> HIDE DEF n, at, wordof, noise
<1>7. ASSUME NEW k \in 1 .. n
      PROVE  /\ Same(d[k], d[k - 1], noise \cup of(k))
             /\ \A p \in Live(f) : wordof[p] = k => (at[p] \in d[k] <=> p - f.offset \in v)
  <2>1. d[k] = IndexWritePass(d[k - 1], f, k, v)
    BY <1>3
  <2>2. /\ Same(d[k], d[k - 1], noise \cup {Place(f, p) : p \in {q \in Span(f) : PassOf(f, q) = k}})
        /\ \A p \in Live(f) : PassOf(f, p) = k => (Place(f, p) \in d[k] <=> p - f.offset \in v)
    <3> DEFINE hv == d[k - 1]
               res == IndexWritePass(hv, f, k, v)
    <3>1. k \in 1 .. WordCount(f)
      BY DEF n
    <3> HIDE DEF hv
    <3>2. /\ Same(res, hv, Touched(f.index) \cup {Place(f, p) : p \in {q \in Span(f) : PassOf(f, q) = k}})
          /\ \A p \in Live(f) : PassOf(f, p) = k => (Place(f, p) \in res <=> p - f.offset \in v)
      BY <3>1, IndexWritePassBits
    <3>3. d[k] = res
      BY <2>1 DEF hv
    <3> HIDE DEF res
    <3> QED
      BY <3>2, <3>3 DEF hv, noise
  <2>3. {Place(f, p) : p \in {q \in Span(f) : PassOf(f, q) = k}} = of(k)
    BY <1>4
  <2>4. Same(d[k], d[k - 1], noise \cup of(k))
    BY <2>2, <2>3
  <2> QED
    BY <1>2, <1>4, <2>2, <2>4
<1>8. WritingLoop(n, d, at, Span(f), Live(f), noise, f.offset, hw, v, wordof)
  <2>1. \A k \in 1 .. n :
           Same(d[k - 1], hw, noise \cup all) =>
              /\ Same(d[k], d[k - 1], noise \cup of(k))
              /\ \A p \in Live(f) : wordof[p] = k => (at[p] \in d[k] <=> p - f.offset \in v)
    BY <1>7
  <2>2. \A p \in Live(f) : at[p] \notin noise
    BY <1>2, <1>4, <1>6
  <2>3. \A p \in Live(f), q \in Span(f) : at[p] = at[q] => p = q
    BY <1>1, <1>2, <1>4
  <2> QED
    BY <1>2, <1>3, <2>1, <2>2, <2>3 DEF WritingLoop
<1>9. /\ Same(d[n], hw, noise \cup all)
      /\ \A p \in Live(f) : at[p] \in d[n] <=> p - f.offset \in v
  BY <1>8, WriteLoop
<1>10. Same(d[n], hw, noise \cup Touched(f))
  BY <1>5, <1>9
<1> QED
  BY <1>2, <1>3, <1>4, <1>9, <1>10 DEF noise

-----------------------------------------------------------------------------
(***************************************************************************)
(* Accesses to named fields.                                               *)
(***************************************************************************)
\* The bits of the window are not those of the bank register.
LEMMA BanksApart ==
  ASSUME NEW f, Register(f, BankPort, 2), NEW bank, NEW a, NEW i
  PROVE  <<<<"bank", bank, a>>, i>> \notin Touched(f)
<1>1. f.type = "FIELD" /\ f.region.space \in Spaces
  BY DEF Register, InRegion
<1>2. \A p : Place(f, p)[1][1] \in Spaces
  BY <1>1 DEF Place, Address
<1>3. <<<<"bank", bank, a>>, i>>[1][1] \notin Spaces
  BY DEF Spaces
<1> QED
  BY <1>2, <1>3 DEF Touched

\* Selecting the bank of a field changes the bank register only; the window then shows the
\* places of the field.
LEMMA BankSelected ==
  ASSUME NEW hw, NEW f, FieldAssumption(f), f.type = "BANKFIELD"
  PROVE  /\ Same(Select(hw, f), hw, Selecting(f))
         /\ \A p \in Span(f) : Bit(Select(hw, f), f, p) = Place(f, p)
         /\ \A p : Place(f, p) \in Select(hw, f) <=> Place(f, p) \in hw
         /\ Steady(f)
<1> DEFINE s == Select(hw, f)
<1>1. InRegion(f) /\ Ports(f) \subseteq Window /\ Register(f.bank, BankPort, 2)
  BY DEF FieldAssumption
<1>2. s = WriteRegion(hw, f.bank, ToBuffer(BitsOf(f.value)))
  <2>1. f.bank.type = "FIELD"
    BY <1>1 DEF Register
  <2> QED
    BY <2>1 DEF Select, lai_write_field
<1>3. Same(s, hw, Touched(f.bank)) /\ Shown(s, BankPort, 2) = Low(ToBuffer(BitsOf(f.value)), 2)
  <2>1. 2 \in 1 .. 8
    OBVIOUS
  <2> HIDE DEF s
  <2> QED
    BY <1>1, <1>2, <2>1, SelectRegister
<1>4. Shown(s, BankPort, 2) = BitsOf(f.value) \cap 0 .. 1
  <2>1. 2 - 1 = 1
    OBVIOUS
  <2>2. \A i \in 0 .. 1 : i \in ToBuffer(BitsOf(f.value)) <=> i \in BitsOf(f.value)
    BY LowByte
  <2> HIDE DEF s
  <2> QED
    BY <1>3, <2>1, <2>2 DEF Low
<1>5. Selecting(f) = Touched(f.bank)
  BY DEF Selecting
<1> HIDE DEF s
<1>6. ASSUME NEW p \in Span(f)
      PROVE  Bit(s, f, p) = Place(f, p)
  <2>1. Address(f, p) \in Window /\ Address(f, p) # DataPort
    BY <1>1, ChipAssumption DEF Ports
  <2>2. HwCell(s, Address(f, p)) = <<"bank", Shown(s, BankPort, 2), Address(f, p)>>
    BY <2>1 DEF HwCell
  <2> QED
    BY <1>4, <2>2 DEF Bit, Place
<1>7. ASSUME NEW p
      PROVE  Place(f, p) \in s <=> Place(f, p) \in hw
  <2>1. Place(f, p) = <<<<"bank", BitsOf(f.value) \cap 0 .. 1, Address(f, p)>>, p % 8>>
    BY DEF Place
  <2>2. Place(f, p) \notin Touched(f.bank)
    BY <1>1, <2>1, BanksApart
  <2> QED
    BY <1>3, <2>2 DEF Same
<1>8. Steady(f)
  BY <1>1, ChipAssumption DEF Steady, Decoded
<1> QED
  BY <1>3, <1>5, <1>6, <1>7, <1>8 DEF s

\* Reading a field changes what selects it and gives the bits at its places.
LEMMA ReadExact ==
  ASSUME NEW hw, NEW f, FieldAssumption(f)
  PROVE  /\ Same(lai_read_opregion(hw, f).io, hw, Selecting(f))
         /\ \A x : x \in lai_read_opregion(hw, f).bits <=> \E p \in Live(f) : Place(f, p) \in hw /\ x = p - f.offset
<1>1. CASE f.type = "FIELD"
  <2>1. InRegion(f) /\ Ports(f) \cap Decoded = {} /\ Selecting(f) = {}
    BY <1>1 DEF FieldAssumption, Selecting
  <2>2. lai_read_opregion(hw, f) = ReadRegion(hw, f)
    BY <1>1 DEF lai_read_opregion, lai_read_field
  <2>3. Live(f) \subseteq Span(f)
    BY <2>1, Passes DEF InRegion
  <2>4. \A p \in Live(f) : Bit(hw, f, p) = Place(f, p)
    <3> TAKE p \in Live(f)
    <3>1. Address(f, p) \notin Decoded
      BY <2>1, <2>3 DEF Ports
    <3> QED
      BY <1>1, <3>1, PlainCell DEF Bit, Place
  <2>5. /\ Same(ReadRegion(hw, f).io, hw, {})
        /\ \A x : x \in ReadRegion(hw, f).bits <=> \E p \in Live(f) : Bit(hw, f, p) \in hw /\ x = p - f.offset
    BY <2>1, PlainRead
  <2> QED
    BY <2>1, <2>2, <2>4, <2>5
<1>2. CASE f.type = "BANKFIELD"
  <2> DEFINE s == Select(hw, f)
  <2>1. InRegion(f)
    BY <1>2 DEF FieldAssumption
  <2>2. lai_read_opregion(hw, f) = ReadRegion(s, f)
    BY <1>2 DEF lai_read_opregion, lai_read_field
  <2>3. Live(f) \subseteq Span(f)
    BY <2>1, Passes DEF InRegion
  <2>4. /\ Same(s, hw, Selecting(f))
        /\ \A p \in Span(f) : Bit(s, f, p) = Place(f, p)
        /\ \A p : Place(f, p) \in s <=> Place(f, p) \in hw
    BY <1>2, BankSelected
  <2> HIDE DEF s
  <2>5. /\ Same(ReadRegion(s, f).io, s, {})
        /\ \A x : x \in ReadRegion(s, f).bits <=> \E p \in Live(f) : Bit(s, f, p) \in s /\ x = p - f.offset
    BY <2>1, PlainRead
  <2>6. Same(ReadRegion(s, f).io, hw, Selecting(f))
    BY <2>4, <2>5 DEF Same
  <2>7. \A p \in Live(f) : Bit(s, f, p) \in s <=> Place(f, p) \in hw
    BY <2>3, <2>4
  <2> QED
    BY <2>2, <2>5, <2>6, <2>7
<1>3. CASE f.type = "INDEXFIELD"
  <2>1. lai_read_opregion(hw, f) = lai_read_field(hw, f) /\ Selecting(f) = Touched(f.index)
    BY <1>3 DEF lai_read_opregion, Selecting
  <2>2. /\ Same(lai_read_field(hw, f).io, hw, Touched(f.index))
        /\ \A x : x \in lai_read_field(hw, f).bits <=> \E p \in Live(f) : Place(f, p) \in hw /\ x = p - f.offset
    BY <1>3, IndexFieldRead
  <2> QED
    BY <2>1, <2>2
<1> QED
  BY <1>1, <1>2, <1>3 DEF FieldAssumption

\* Writing a field changes what selects it and the words that the update rule gives it, and
\* leaves the value at the places of the field.
LEMMA WriteExact ==
  ASSUME NEW hw, NEW f, FieldAssumption(f), NEW v
  PROVE  /\ Same(lai_write_opregion(hw, f, v), hw, Selecting(f) \cup Touched(f))
         /\ \A p \in Live(f) : Place(f, p) \in lai_write_opregion(hw, f, v) <=> p - f.offset \in v
<1>1. CASE f.type = "FIELD"
  <2>1. InRegion(f) /\ Ports(f) \cap Decoded = {} /\ Selecting(f) = {}
    BY <1>1 DEF FieldAssumption, Selecting
  <2>2. lai_write_opregion(hw, f, v) = WriteRegion(hw, f, v)
    BY <1>1 DEF lai_write_opregion, lai_write_field
  <2>3. Live(f) \subseteq Span(f)
    BY <2>1, Passes DEF InRegion
  <2>4. \A p \in Span(f) : Bit(hw, f, p) = Place(f, p)
    <3> TAKE p \in Span(f)
    <3>1. Address(f, p) \notin Decoded
      BY <2>1 DEF Ports
    <3> QED
      BY <1>1, <3>1, PlainCell DEF Bit, Place
  <2>5. {Bit(hw, f, p) : p \in Span(f)} = Touched(f)
    BY <2>4 DEF Touched
  <2>6. Steady(f)
    BY <2>1 DEF Steady
  <2>7. /\ Same(WriteRegion(hw, f, v), hw, {Bit(hw, f, p) : p \in Span(f)})
        /\ \A p \in Live(f) : Bit(hw, f, p) \in WriteRegion(hw, f, v) <=> p - f.offset \in v
    BY <2>1, <2>6, PlainWrite
  <2>8. Same(WriteRegion(hw, f, v), hw, Selecting(f) \cup Touched(f))
    BY <2>1, <2>5, <2>7
  <2> QED
    BY <2>2, <2>3, <2>4, <2>7, <2>8
<1>2. CASE f.type = "BANKFIELD"
  <2> DEFINE s == Select(hw, f)
  <2>1. InRegion(f)
    BY <1>2 DEF FieldAssumption
  <2>2. lai_write_opregion(hw, f, v) = WriteRegion(s, f, v)
    BY <1>2 DEF lai_write_opregion, lai_write_field
  <2>3. Live(f) \subseteq Span(f)
    BY <2>1, Passes DEF InRegion
  <2>4. /\ Same(s, hw, Selecting(f))
        /\ \A p \in Span(f) : Bit(s, f, p) = Place(f, p)
        /\ Steady(f)
    BY <1>2, BankSelected
  <2> HIDE DEF s
  <2>5. {Bit(s, f, p) : p \in Span(f)} = Touched(f)
    BY <2>4 DEF Touched
  <2>6. /\ Same(WriteRegion(s, f, v), s, {Bit(s, f, p) : p \in Span(f)})
        /\ \A p \in Live(f) : Bit(s, f, p) \in WriteRegion(s, f, v) <=> p - f.offset \in v
    BY <2>1, <2>4, PlainWrite
  <2>7. Same(WriteRegion(s, f, v), hw, Selecting(f) \cup Touched(f))
    BY <2>4, <2>5, <2>6 DEF Same
  <2> QED
    BY <2>2, <2>3, <2>4, <2>6, <2>7
<1>3. CASE f.type = "INDEXFIELD"
  <2>1. lai_write_opregion(hw, f, v) = lai_write_field(hw, f, v) /\ Selecting(f) = Touched(f.index)
    BY <1>3 DEF lai_write_opregion, Selecting
  <2>2. /\ Same(lai_write_field(hw, f, v), hw, Touched(f.index) \cup Touched(f))
        /\ \A p \in Live(f) : Place(f, p) \in lai_write_field(hw, f, v) <=> p - f.offset \in v
    BY <1>3, IndexFieldWrite
  <2> QED
    BY <2>1, <2>2
<1> QED
  BY <1>1, <1>2, <1>3 DEF FieldAssumption

-----------------------------------------------------------------------------
(***************************************************************************)
(* The fields as a memory.                                                 *)
(***************************************************************************)
\* What a field holds is at its places, whatever they are interleaved with.
Stored ==
    \A n \in Names \ Selectors : \A p \in Live(Fields[n]) :
       Place(Fields[n], p) \in io <=> p - Fields[n].offset \in held[n]

\* What is held is held at positions that the code moves.
HeldLive ==
    \A n \in Names \ Selectors : \A x \in held[n] : x + Fields[n].offset \in Live(Fields[n])

FieldsInv ==
    /\ TypeOK
    /\ PaddingPreserved
    /\ Stored
    /\ HeldLive

\* The numbers of a declared field.
LEMMA FieldNumbers ==
  ASSUME NEW f, FieldAssumption(f)
  PROVE  /\ Regular(f) /\ f.offset \in Nat /\ f.size \in Nat
         /\ Live(f) \subseteq Bits(f) /\ Bits(f) \subseteq Span(f) /\ Span(f) \subseteq Nat
         /\ Places(f) \subseteq Touched(f)
<1>1. Regular(f)
  BY DEF FieldAssumption, InRegion
<1>2. f.offset \in Nat /\ f.size \in Nat
  BY <1>1 DEF Regular
<1>3. Live(f) \subseteq Bits(f) /\ Bits(f) \subseteq Span(f) /\ Span(f) \subseteq Nat
  BY <1>1, Passes
<1> QED
  BY <1>1, <1>2, <1>3 DEF Places, Touched

\* Places are bits of bytes.
LEMMA PlacesOfBytes ==
  ASSUME NEW f, Span(f) \subseteq Nat, f.type \in {"FIELD", "BANKFIELD", "INDEXFIELD"}
  PROVE  \A b \in Touched(f) : b[2] \in 0 .. 7
<1>1. ASSUME NEW p \in Span(f)
      PROVE  Place(f, p)[2] \in 0 .. 7
  <2>1. p % 8 \in 0 .. 7
    OBVIOUS
  <2>2. Place(f, p)[2] = p % 8
    BY DEF Place
  <2> QED
    BY <2>1, <2>2
<1> QED
  BY <1>1 DEF Touched

\* An access to a declared field goes to bits of bytes.
LEMMA BitsOfBytes ==
  ASSUME NEW f, FieldAssumption(f)
  PROVE  \A b \in Selecting(f) \cup Touched(f) : b[2] \in 0 .. 7
<1>1. f.type \in {"FIELD", "BANKFIELD", "INDEXFIELD"}
  BY DEF FieldAssumption
<1>2. \A b \in Touched(f) : b[2] \in 0 .. 7
  BY <1>1, FieldNumbers, PlacesOfBytes
<1>3. ASSUME NEW g, NEW port, NEW size, Register(g, port, size)
      PROVE  \A b \in Touched(g) : b[2] \in 0 .. 7
  <2>1. Regular(g) /\ g.type = "FIELD"
    BY <1>3 DEF Register, InRegion
  <2>2. Span(g) \subseteq Nat
    BY <2>1, Passes
  <2> QED
    BY <2>1, <2>2, PlacesOfBytes
<1>4. \A b \in Selecting(f) : b[2] \in 0 .. 7
  <2>1. CASE f.type = "FIELD"
    BY <2>1 DEF Selecting
  <2>2. CASE f.type = "BANKFIELD"
    <3>1. Register(f.bank, BankPort, 2) /\ Selecting(f) = Touched(f.bank)
      BY <2>2 DEF FieldAssumption, Selecting
    <3> QED
      BY <1>3, <3>1
  <2>3. CASE f.type = "INDEXFIELD"
    <3>1. Register(f.index, IndexPort, 8) /\ Selecting(f) = Touched(f.index)
      BY <2>3 DEF FieldAssumption, Selecting
    <3> QED
      BY <1>3, <3>1
  <2> QED
    BY <1>1, <2>1, <2>2, <2>3
<1> QED
  BY <1>2, <1>4

\* A field has its places for itself.
LEMMA PlacesKept ==
  ASSUME NEW n \in Names \ Selectors, NEW m \in Names, NEW p \in Live(Fields[n])
  PROVE  /\ Place(Fields[n], p) \notin Selecting(Fields[m])
         /\ n # m => Place(Fields[n], p) \notin Touched(Fields[m])
<1>1. Place(Fields[n], p) \in Places(Fields[n])
  BY DEF Places, Live
<1> QED
  BY <1>1, LayoutAssumption

\* The firmware's hardware: every field is zero.
LEMMA FieldsInit == Init => FieldsInv
<1> SUFFICES ASSUME Init PROVE FieldsInv
  OBVIOUS
<1> USE DEF Init
<1>1. TypeOK
  <2>1. \A b \in io : b[2] \in 0 .. 7
    BY LayoutAssumption
  <2> QED
    BY <2>1 DEF TypeOK
<1>2. PaddingPreserved
  BY DEF PaddingPreserved
<1>3. Stored
  <2> SUFFICES ASSUME NEW n \in Names \ Selectors, NEW p \in Live(Fields[n])
               PROVE  Place(Fields[n], p) \notin Padding
    BY DEF Stored
  <2>1. FieldAssumption(Fields[n])
    BY FieldsAssumption
  <2>2. Place(Fields[n], p) \in Touched(Fields[n])
    BY <2>1, FieldNumbers DEF Places, Live
  <2> QED
    BY <2>2, LayoutAssumption
<1>4. HeldLive
  BY DEF HeldLive
<1> QED
  BY <1>1, <1>2, <1>3, <1>4 DEF FieldsInv

\* An access to a field m leaves the bits of bytes and the padding.
LEMMA StepBits ==
  ASSUME FieldsInv, NEW m \in Names,
         Same(io', io, Selecting(Fields[m]) \cup Touched(Fields[m]))
  PROVE  /\ \A b \in io' : b[2] \in 0 .. 7
         /\ PaddingPreserved'
<1>1. \A b \in io : b[2] \in 0 .. 7
  BY DEF FieldsInv, TypeOK
<1>2. \A b \in Selecting(Fields[m]) \cup Touched(Fields[m]) : b[2] \in 0 .. 7
  BY FieldsAssumption, BitsOfBytes
<1>3. \A b \in io' : b[2] \in 0 .. 7
  BY <1>1, <1>2 DEF Same
<1>4. Padding \cap (Touched(Fields[m]) \cup Selecting(Fields[m])) = {}
  BY LayoutAssumption
<1>5. Padding \subseteq io'
  BY <1>4 DEF FieldsInv, PaddingPreserved, Same
<1> QED
  BY <1>3, <1>5 DEF PaddingPreserved

\* A read moves no place of a field: it changes selecting registers only.
LEMMA ReadStep ==
  ASSUME FieldsInv, NEW m \in Names, Read(m)
  PROVE  FieldsInv'
<1>1. Same(io', io, Selecting(Fields[m]))
  BY FieldsAssumption, ReadExact DEF Read
<1>2. Same(io', io, Selecting(Fields[m]) \cup Touched(Fields[m]))
  BY <1>1 DEF Same
<1>3. (\A b \in io' : b[2] \in 0 .. 7) /\ PaddingPreserved'
  BY <1>2, StepBits
<1>4. held' = held
  BY DEF Read
<1>5. TypeOK'
  BY <1>3, <1>4 DEF FieldsInv, TypeOK
<1>6. Stored'
  <2> SUFFICES ASSUME NEW n \in Names \ Selectors, NEW p \in Live(Fields[n])
               PROVE  Place(Fields[n], p) \in io' <=> p - Fields[n].offset \in held[n]
    BY <1>4 DEF Stored
  <2>1. Place(Fields[n], p) \in io' <=> Place(Fields[n], p) \in io
    BY <1>1, PlacesKept DEF Same
  <2> QED
    BY <2>1 DEF FieldsInv, Stored
<1>7. HeldLive'
  BY <1>4 DEF FieldsInv, HeldLive
<1> QED
  BY <1>3, <1>5, <1>6, <1>7 DEF FieldsInv

\* A write changes the places of its own field, to the value.
LEMMA WriteStep ==
  ASSUME FieldsInv, NEW m \in Names, NEW value, Write(m, value)
  PROVE  FieldsInv'
<1> DEFINE f == Fields[m]
<1>1. FieldAssumption(f)
  BY FieldsAssumption
<1>2. /\ Same(io', io, Selecting(f) \cup Touched(f))
      /\ \A p \in Live(f) : Place(f, p) \in io' <=> p - f.offset \in value
  BY <1>1, WriteExact DEF Write
<1>3. (\A b \in io' : b[2] \in 0 .. 7) /\ PaddingPreserved'
  BY <1>2, StepBits
<1>4. f.size \in Nat /\ f.offset \in Nat
  BY <1>1, FieldNumbers
<1>5. Fit(m, value) \in SUBSET Nat /\ Fit(m, value) \subseteq 0 .. f.size - 1
  BY <1>4 DEF Fit
<1>6. held \in [Names \ Selectors -> SUBSET Nat] /\ \A n \in Names \ Selectors : held[n] \subseteq 0 .. Fields[n].size - 1
  BY DEF FieldsInv, TypeOK
<1>7. held' = IF m \in Selectors THEN held ELSE [held EXCEPT ![m] = Fit(m, value)]
  BY DEF Write
<1>8. TypeOK'
  <2>1. held' \in [Names \ Selectors -> SUBSET Nat]
    BY <1>5, <1>6, <1>7
  <2>2. \A n \in Names \ Selectors : held'[n] \subseteq 0 .. Fields[n].size - 1
    BY <1>5, <1>6, <1>7
  <2> QED
    BY <1>3, <2>1, <2>2 DEF TypeOK
<1>9. Stored'
  <2> SUFFICES ASSUME NEW n \in Names \ Selectors, NEW p \in Live(Fields[n])
               PROVE  Place(Fields[n], p) \in io' <=> p - Fields[n].offset \in held'[n]
    BY DEF Stored
  <2>1. CASE n = m
    <3>1. held'[n] = Fit(m, value)
      BY <1>6, <1>7, <2>1
    <3>2. p - f.offset \in 0 .. f.size - 1 /\ (p - f.offset) + f.offset = p
      BY <1>4, <2>1 DEF Live, Bits
    <3>3. p - f.offset \in Fit(m, value) <=> p - f.offset \in value
      BY <2>1, <3>2 DEF Fit
    <3> QED
      BY <1>2, <2>1, <3>1, <3>3
  <2>2. CASE n # m
    <3>1. held'[n] = held[n]
      BY <1>6, <1>7, <2>2
    <3>2. Place(Fields[n], p) \in io' <=> Place(Fields[n], p) \in io
      BY <1>2, <2>2, PlacesKept DEF Same
    <3> QED
      BY <3>1, <3>2 DEF FieldsInv, Stored
  <2> QED
    BY <2>1, <2>2
<1>10. HeldLive'
  <2> SUFFICES ASSUME NEW n \in Names \ Selectors, NEW x \in held'[n]
               PROVE  x + Fields[n].offset \in Live(Fields[n])
    BY DEF HeldLive
  <2>1. CASE n = m
    <3>1. held'[n] = Fit(m, value)
      BY <1>6, <1>7, <2>1
    <3> QED
      BY <2>1, <3>1 DEF Fit
  <2>2. CASE n # m
    <3>1. held'[n] = held[n]
      BY <1>6, <1>7, <2>2
    <3> QED
      BY <3>1 DEF FieldsInv, HeldLive
  <2> QED
    BY <2>1, <2>2
<1> QED
  BY <1>3, <1>8, <1>9, <1>10 DEF FieldsInv

\* Init and every access establish and keep the invariant.
THEOREM FieldsInvariant == Spec => []FieldsInv
<1>1. Init => FieldsInv
  BY FieldsInit
<1>2. FieldsInv /\ [Next]_vars => FieldsInv'
  <2> SUFFICES ASSUME FieldsInv, [Next]_vars PROVE FieldsInv'
    OBVIOUS
  <2>1. CASE Next
    <3>1. PICK m \in Names : Read(m) \/ \E value \in Values[m] : Write(m, value)
      BY <2>1 DEF Next
    <3>2. CASE Read(m)
      BY <3>2, ReadStep
    <3>3. CASE \E value \in Values[m] : Write(m, value)
      BY <3>3, WriteStep
    <3> QED
      BY <3>1, <3>2, <3>3
  <2>2. CASE UNCHANGED vars
    BY <2>2 DEF vars, FieldsInv, TypeOK, PaddingPreserved, Stored, HeldLive
  <2> QED
    BY <2>1, <2>2
<1> QED
  BY <1>1, <1>2, PTL DEF Spec

\* The hardware is a set of bits of bytes, and every field holds bits that it has room for.
THEOREM TypesKept == Spec => []TypeOK
<1>1. FieldsInv => TypeOK
  BY DEF FieldsInv
<1> QED
  BY <1>1, FieldsInvariant, PTL

\* lai_read_opregion() gives what lai_write_opregion() was given last for the same field:
\* no access in between to this or to another field, no word that two fields share and no
\* index or bank left behind changes it; in a word of 32 bits that the field fills, it gives 0.
THEOREM ReadBack == Spec => []ReadsAsWritten
<1>1. FieldsInv => ReadsAsWritten
  <2> SUFFICES ASSUME FieldsInv, NEW n \in Names \ Selectors
               PROVE  lai_read_opregion(io, Fields[n]).bits = held[n]
    BY DEF ReadsAsWritten
  <2> DEFINE f == Fields[n]
             bits == lai_read_opregion(io, f).bits
  <2>1. FieldAssumption(f)
    BY FieldsAssumption
  <2>2. f.offset \in Nat /\ f.size \in Nat
    BY <2>1, FieldNumbers
  <2>3. \A x : x \in bits <=> \E p \in Live(f) : Place(f, p) \in io /\ x = p - f.offset
    BY <2>1, ReadExact
  <2>4. \A p \in Live(f) : Place(f, p) \in io <=> p - f.offset \in held[n]
    BY DEF FieldsInv, Stored
  <2>5. held[n] \subseteq 0 .. f.size - 1
    BY DEF FieldsInv, TypeOK
  <2> HIDE DEF f, bits
  <2>6. \A x \in held[n] : x + f.offset \in Live(f) /\ (x + f.offset) - f.offset = x
    BY <2>2, <2>5 DEF FieldsInv, HeldLive, f
  <2>7. bits = held[n]
    BY <2>3, <2>4, <2>6
  <2> QED
    BY <2>7 DEF bits, f
<1> QED
  BY <1>1, FieldsInvariant, PTL

\* The writes of whole words in lai_write_field_internal() leave the bits that no field has.
THEOREM PaddingKept == Spec => []PaddingPreserved
<1>1. FieldsInv => PaddingPreserved
  BY DEF FieldsInv
<1> QED
  BY <1>1, FieldsInvariant, PTL

=============================================================================
