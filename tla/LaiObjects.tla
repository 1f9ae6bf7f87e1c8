----------------------------- MODULE LaiObjects -----------------------------
(***************************************************************************)
(* The objects of the LAI interpreter: creating, cloning, converting and   *)
(* comparing them (lai/core/object.c, variable.c), and loading and storing *)
(* them through names, references and fields (exec-operand.c).             *)
(*                                                                         *)
(* The operators work on the memory of the interpreter                     *)
(*                                                                         *)
(*   m = [heap, ns, inv, cur, io]                                          *)
(*                                                                         *)
(*   heap  the contents of strings and buffers (bytes) and of packages     *)
(*         (objects) in the order of their allocation                      *)
(*   ns    the namespace (LaiNamespace)                                    *)
(*   inv   the method invocations: arg, local, live and the nodes of       *)
(*         per_method_list;  cur  the one that runs, 0 for none            *)
(*   io    the hardware behind the fields (LaiOpregion)                    *)
(*                                                                         *)
(* An object (lai_variable_t) is a record with a type and, depending on    *)
(* it, n (integer, index), ptr (into the heap), node, or ctx and name.     *)
(* A uint64_t has IntBytes bytes: 4 in this build (base/include/stdint.h:  *)
(* 5), fewer in a model.  The code takes it to have QWord.  Shift counts   *)
(* beyond its bits are undefined in C; the build leaves them to the        *)
(* processor, which takes them modulo IntBits.  A string is a sequence of  *)
(* character codes; one code stands for each of the texts like             *)
(* "[Device Object]".                                                      *)
(***************************************************************************)
EXTENDS Integers, Sequences, FiniteSets, LaiNamespace

CONSTANT IntBytes

\* External: memory behind the regions is not decoded further.
PlainCell(io, address) == address
INSTANCE LaiOpregion WITH Cell <- PlainCell

LOCAL INSTANCE SequencesExt
LOCAL INSTANCE FiniteSetsExt

IntBits == 8 * IntBytes
\* The 8 bytes that the code writes out where it means an integer.
QWord == 2 * IntBytes
Ones == 2^IntBits - 1
Wrap(n) == n % 2^IntBits

-----------------------------------------------------------------------------
(***************************************************************************)
(* What an operation gives: the memory afterwards and an object, or the    *)
(* error it ends with.  PANIC is a failed lai_panic() or LAI_ENSURE(),     *)
(* UNDEFINED an access outside of an object.                               *)
(***************************************************************************)
Res(m, v) == [m |-> m, v |-> v, e |-> "NONE"]
Fail(e) == [m |-> << >>, v |-> NoData, e |-> e]
\* x is evaluated once.
With(x, F(_)) == CHOOSE y \in {F(v) : v \in {x}} : TRUE
Then(r, F(_)) == With(r, LAMBDA s : IF s.e = "NONE" THEN F(s) ELSE s)

Integer(n) == [type |-> "INTEGER", n |-> n]
Truth(b) == Integer(IF b THEN 1 ELSE 0)
Handle(node) == [type |-> "HANDLE", node |-> node]
LazyHandle(ctx, name) == [type |-> "LAZY_HANDLE", ctx |-> ctx, name |-> name]

\* Reading .integer of an object that is none, as some operators do.
IntegerOf(v) == IF "n" \in DOMAIN v THEN v.n ELSE 0

Alloc(m, type, content) ==
    Res([m EXCEPT !.heap = Append(@, content)], [type |-> type, ptr |-> Len(m.heap) + 1])
Data(m, v) == m.heap[v.ptr]
SetData(m, v, content) == [m EXCEPT !.heap[v.ptr] = content]
Zeroes(n) == [i \in 1 .. n |-> 0]

\* lai_strlen(): up to the terminator.
Str(m, v) ==
    LET s    == Data(m, v)
        ends == {i \in DOMAIN s : s[i] = 0}
    IN  IF ends = {} THEN s ELSE SubSeq(s, 1, Min(ends) - 1)

lai_create_string(m, s) == Alloc(m, "STRING", s)
lai_create_buffer(m, bytes) == Alloc(m, "BUFFER", bytes)
lai_create_pkg(m, n) == Alloc(m, "PACKAGE", [i \in 1 .. n |-> NoData])

\* The bytes of an integer, least significant first, and back.
ToBytes(n) == [i \in 1 .. IntBytes |-> (n \div 256^(i - 1)) % 256]
FromBytes(s) == MapThenSumSet(LAMBDA i : s[i] * 256^(i - 1), DOMAIN s)
\* The bits of an integer, and back.
BitSet(n) == {i \in 0 .. IntBits - 1 : (n \div 2^i) % 2 = 1}
Number(bits) == MapThenSumSet(LAMBDA i : 2^i, bits)
Fit(s, size) == [i \in 1 .. size |-> IF i \in DOMAIN s THEN s[i] ELSE 0]

-----------------------------------------------------------------------------
(***************************************************************************)
(* Numbers as text.  The int or long that lai_snprintf() takes is as wide  *)
(* as an integer of the build.                                             *)
(***************************************************************************)
Digit(d) == IF d < 10 THEN 48 + d ELSE 55 + d
DigitCount(n, base) == CHOOSE k \in 1 .. IntBits : n < base^k /\ (k = 1 \/ n >= base^(k - 1))
num_fmt(n, base, padding) ==
    LET count == DigitCount(n, base)
        width == IF count < padding THEN padding ELSE count
    IN  [i \in 1 .. width |-> IF width - i >= count THEN 48 ELSE Digit((n \div base^(width - i)) % base)]

\* The value of a digit, or -1.
char_to_hex(c) ==
    CASE c \in 48 .. 57  -> c - 48
      [] c \in 65 .. 70  -> c - 55
      [] c \in 97 .. 102 -> c - 87
      [] OTHER           -> -1

Numeral(s, base) == FoldLeft(LAMBDA n, c : Wrap(n * base + char_to_hex(c)), 0, s)

Comma == 44
Space == 32
Hex(byte) == <<48, 120>> \o num_fmt(byte, 16, 2)
\* Texts for the bytes of a buffer, with a character between them.
Separated(text(_), bytes, sep) ==
    FoldLeft(LAMBDA s, i : (IF i = 1 THEN s ELSE Append(s, sep)) \o text(bytes[i]),
             << >>, [i \in DOMAIN bytes |-> i])

-----------------------------------------------------------------------------
\* A copy of an object that still shares the elements of a package.
Copy(m, v) ==
    CASE v.type = "STRING"  -> lai_create_string(m, Str(m, v))
      [] v.type = "BUFFER"  -> lai_create_buffer(m, Data(m, v))
      [] v.type = "PACKAGE" -> Alloc(m, "PACKAGE", Data(m, v))
      [] OTHER              -> Res(m, v)

\* The elements of a package replaced by copies: acc.next are the packages among the copies.
Collect(acc, r) == [m |-> r.m, elems |-> Append(acc.elems, r.v)]
Replaced(acc, package, copies) ==
    [m    |-> SetData(copies.m, package, copies.elems),
     next |-> acc.next \o SelectSeq(copies.elems, LAMBDA elem : elem.type = "PACKAGE")]
CopyElements(acc, package) ==
    Replaced(acc, package, FoldLeft(LAMBDA copies, elem : Collect(copies, Copy(copies.m, elem)),
                                    [m |-> acc.m, elems |-> << >>], Data(acc.m, package)))

\* A copy that shares nothing with the original: packages among the elements are copied in
\* turn, one level after the other.  They are at most as deep as there are allocations.
Deepen(l) == FoldLeft(CopyElements, [m |-> l.m, next |-> << >>], l.next)
Cloned(m, copy) ==
    LET level[n \in 0 .. Len(m.heap)] ==
            IF n = 0 THEN [m |-> copy.m, next |-> <<copy.v>>] ELSE Deepen(level[n - 1])
    IN  IF copy.v.type = "PACKAGE" THEN Res(level[Len(m.heap)].m, copy.v) ELSE copy
lai_obj_clone(m, v) == Cloned(m, Copy(m, v))

lai_obj_to_buffer(m, v) ==
    CASE v.type = "INTEGER" -> lai_create_buffer(m, ToBytes(v.n))
      [] v.type = "BUFFER"  -> lai_obj_clone(m, v)
      [] v.type = "STRING"  ->
           lai_create_buffer(m, IF Str(m, v) = << >> THEN << >> ELSE Append(Str(m, v), 0))
      [] OTHER -> Fail("ILLEGAL_ARGUMENTS")

\* Up to the terminator and up to `size` characters.
lai_obj_to_string(m, v, size) ==
    IF v.type # "BUFFER" THEN Fail("ILLEGAL_ARGUMENTS")
    ELSE LET s == Str(m, v)
         IN  lai_create_string(m, IF size < Len(s) THEN SubSeq(s, 1, size) ELSE s)

\* Of every byte of a buffer two digits are kept.  An empty buffer ends in a write in front
\* of the string.
lai_obj_to_decimal_string(m, v) ==
    CASE v.type = "INTEGER" -> lai_create_string(m, num_fmt(v.n, 10, 0))
      [] v.type = "BUFFER"  ->
           IF Data(m, v) = << >> THEN Fail("UNDEFINED")
           ELSE lai_create_string(m, Separated(LAMBDA b : SubSeq(num_fmt(b, 10, 2), 1, 2), Data(m, v), Comma))
      [] v.type = "STRING"  -> lai_obj_clone(m, v)
      [] OTHER -> Fail("ILLEGAL_ARGUMENTS")

lai_obj_to_hex_string(m, v) ==
    CASE v.type = "INTEGER" -> lai_create_string(m, num_fmt(v.n, 16, 0))
      [] v.type = "BUFFER"  ->
           IF Data(m, v) = << >> THEN Fail("UNDEFINED")
           ELSE lai_create_string(m, Separated(Hex, Data(m, v), Comma))
      [] v.type = "STRING"  -> lai_obj_clone(m, v)
      [] OTHER -> Fail("ILLEGAL_ARGUMENTS")

\* A buffer has to have 8 bytes, of which an integer takes in the first.
lai_obj_to_integer(m, v) ==
    CASE v.type = "BUFFER" ->
           IF Len(Data(m, v)) < QWord THEN Fail("ILLEGAL_ARGUMENTS")
           ELSE Res(m, Integer(FromBytes(SubSeq(Data(m, v), 1, IntBytes))))
      [] v.type = "STRING" ->
           LET s   == Str(m, v)
               hex == Len(s) >= 2 /\ s[1] = 48 /\ s[2] \in {120, 88}
               num == IF hex THEN SubSeq(s, 3, Len(s)) ELSE s
               ok  == \A i \in DOMAIN num : char_to_hex(num[i]) \in 0 .. (IF hex THEN 15 ELSE 9)
           IN  IF ok THEN Res(m, Integer(Numeral(num, IF hex THEN 16 ELSE 10)))
               ELSE Fail("ILLEGAL_ARGUMENTS")
      [] v.type = "INTEGER" -> Res(m, v)
      [] OTHER -> Fail("ILLEGAL_ARGUMENTS")

\* One character stands for the text; the types that have none are an error.
TypeText == <<"FIELD", "DEVICE", "EVENT", "MUTEX", "OPREGION", "POWERRESOURCE", "PROCESSOR", "THERMALZONE">>
lai_obj_to_type_string(m, node) ==
    LET texts == {i \in DOMAIN TypeText : TypeText[i] = m.ns.node[node].type}
    IN  IF texts = {} THEN Fail("ILLEGAL_ARGUMENTS")
        ELSE lai_create_string(m, <<200 + (CHOOSE i \in texts : TRUE)>>)

-----------------------------------------------------------------------------
(***************************************************************************)
(* Mutation: the target keeps its type and takes the converted value.      *)
(***************************************************************************)
\* Hexadecimal digits up to the first other character.  Of a buffer up to 8 bytes are copied:
\* those beyond the integer go to the pointer behind it, which an integer does not use.
lai_mutate_integer(m, v) ==
    CASE v.type = "INTEGER" -> Res(m, v)
      [] v.type = "STRING"  ->
           LET s == Str(m, v)
               n == {0} \cup {k \in 1 .. Len(s) : k <= 2 * QWord /\ \A i \in 1 .. k : char_to_hex(s[i]) >= 0}
           IN  Res(m, Integer(Numeral(SubSeq(s, 1, Max(n)), 16)))
      [] v.type = "BUFFER"  -> Res(m, Integer(FromBytes(Fit(Data(m, v), IntBytes))))
      [] OTHER -> Fail("ILLEGAL_ARGUMENTS")

\* The text written over the old one, in a new allocation when it is longer.
Overwrite(m, target, s) ==
    LET old == Data(m, target)
    IN  Res(SetData(m, target, IF Len(s) > Len(Str(m, target)) \/ Len(s) >= Len(old) THEN s
                               ELSE s \o <<0>> \o SubSeq(old, Len(s) + 2, Len(old))),
            target)
lai_mutate_string(m, target, v) ==
    CASE v.type = "STRING"  -> Overwrite(m, target, Str(m, v))
      [] v.type = "INTEGER" -> Overwrite(m, target, num_fmt(v.n, 16, 2 * QWord))
      [] v.type = "BUFFER"  -> Overwrite(m, target, Separated(Hex, Data(m, v), Space))
      [] OTHER -> Fail("ILLEGAL_ARGUMENTS")

\* A buffer keeps its size.  Up to 8 bytes are copied from an integer that has fewer.
lai_mutate_buffer(m, target, v) ==
    LET bytes == CASE v.type = "BUFFER"  -> Data(m, v)
                   [] v.type = "INTEGER" -> ToBytes(v.n)
                   [] v.type = "STRING"  -> Str(m, v)
                   [] OTHER -> << >>
        size  == Len(Data(m, target))
    IN  CASE v.type \notin {"BUFFER", "INTEGER", "STRING"} -> Fail("ILLEGAL_ARGUMENTS")
          [] v.type = "INTEGER" /\ size > IntBytes          -> Fail("UNDEFINED")
          [] OTHER -> Res(SetData(m, target, Fit(bytes, size)), target)

-----------------------------------------------------------------------------
(* Types and comparisons.                                                  *)

lai_objecttype_obj(v) ==
    CASE v.type = "INTEGER" -> 1
      [] v.type \in {"STRING", "STRING_INDEX"} -> 2
      [] v.type \in {"BUFFER", "BUFFER_INDEX"} -> 3
      [] v.type \in {"PACKAGE", "PACKAGE_INDEX"} -> 4
      [] OTHER -> 0

NodeTypes == <<"DEVICE", "EVENT", "METHOD", "MUTEX", "OPREGION", "POWERRESOURCE", "PROCESSOR", "THERMALZONE", "BUFFER_FIELD">>
FieldTypes == {"FIELD", "BANKFIELD", "INDEXFIELD"}
lai_objecttype_ns(m, n) ==
    LET node  == m.ns.node[n]
        codes == {i \in DOMAIN NodeTypes : NodeTypes[i] = node.type}
    IN  CASE node.type = "NAME"     -> lai_objecttype_obj(node.data)
          [] node.type \in FieldTypes -> 5
          [] codes # {}             -> 5 + (CHOOSE i \in codes : TRUE)
          [] OTHER                  -> 0

\* The kernel's memcmp() tells whether the bytes differ and not which are less.
memcmp(s, t) ==
    LET n == IF Len(s) < Len(t) THEN Len(s) ELSE Len(t)
    IN  IF SubSeq(s, 1, n) = SubSeq(t, 1, n) THEN 0 ELSE 1

MatchOps == {"MTR", "MEQ", "MLE", "MLT", "MGE", "MGT"}
\* The answer of an operator from the order of the two sides: -1, 0 or 1.
Holds(op, order) ==
    CASE op = "MTR" -> TRUE
      [] op = "MEQ" -> order = 0
      [] op = "MLE" -> order <= 0
      [] op = "MLT" -> order < 0
      [] op = "MGE" -> order >= 0
      [] op = "MGT" -> order > 0
Order(i, j) == CASE i < j -> -1 [] i = j -> 0 [] i > j -> 1

\* The right side is converted to the type of the left one.  The answer is a Boolean.
lai_obj_exec_match_op(m, op, v, w) ==
    LET compare(s, t) == IF memcmp(s, t) = 0 THEN Order(Len(s), Len(t)) ELSE 1
        answer(order) == IF op \in MatchOps THEN Res(m, Holds(op, order)) ELSE Fail("UNEXPECTED_RESULT")
    IN  CASE v.type = "INTEGER" -> Then(lai_obj_to_integer(m, w), LAMBDA r : answer(Order(v.n, r.v.n)))
          [] v.type = "BUFFER"  -> Then(lai_obj_to_buffer(m, w), LAMBDA r : answer(compare(Data(m, v), Data(r.m, r.v))))
          [] v.type = "STRING"  -> Then(lai_obj_to_hex_string(m, w), LAMBDA r : answer(compare(Str(m, v), Str(r.m, r.v))))
          [] OTHER -> Fail("UNEXPECTED_RESULT")

-----------------------------------------------------------------------------
(***************************************************************************)
(* Fields of buffers: bits counted through the bytes.                      *)
(***************************************************************************)
SetByte(byte, low, n, value) ==
    (byte \div 2^(low + n)) * 2^(low + n) + (value % 2^n) * 2^low + (byte % 2^low)

\* The pieces of a field that lie in one byte: first bit in the field, in the byte, length.
Pieces(f) ==
    LET cuts == {n \in 0 .. f.size - 1 : n = 0 \/ (f.offset + n) % 8 = 0}
        next(n) == Min({k \in cuts : k > n} \cup {f.size})
    IN  {[at |-> n, byte |-> (f.offset + n) \div 8 + 1, low |-> (f.offset + n) % 8, len |-> next(n) - n] : n \in cuts}

lai_write_buffer(m, f, v) ==
    LET bytes == m.heap[f.buffer]
        value == IntegerOf(v)
        piece(j) == CHOOSE p \in Pieces(f) : p.byte = j
    IN  IF \E p \in Pieces(f) : p.byte \notin DOMAIN bytes THEN Fail("UNDEFINED")
        ELSE Res([m EXCEPT !.heap[f.buffer] =
                     [j \in DOMAIN bytes |->
                        IF \E p \in Pieces(f) : p.byte = j
                          THEN SetByte(bytes[j], piece(j).low, piece(j).len, value \div 2^(piece(j).at % IntBits))
                          ELSE bytes[j]]],
                 v)

\* A piece is masked and not shifted down: a field that starts inside a byte is read from
\* the beginning of that byte.
lai_read_buffer(m, f) ==
    LET bytes == m.heap[f.buffer]
        piece(p) == Wrap((bytes[p.byte] % 2^p.len) * 2^(p.at % IntBits))
    IN  IF \E p \in Pieces(f) : p.byte \notin DOMAIN bytes THEN Fail("UNDEFINED")
        ELSE Res(m, Integer(Number(UNION {BitSet(piece(p)) : p \in Pieces(f)})))
=============================================================================
