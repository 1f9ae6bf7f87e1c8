----------------------------- MODULE LaiReduce -----------------------------
(***************************************************************************)
(* What the operators of AML do once their operands are on the operand     *)
(* stack: lai_exec_reduce_op() and lai_exec_reduce_node() of               *)
(* lai/core/exec.c.  `o` is the sequence of operands; the object of the    *)
(* result is the value of the expression, NoData where there is none.      *)
(***************************************************************************)
EXTENDS LaiOps

LOCAL INSTANCE SequencesExt
LOCAL INSTANCE FiniteSetsExt
LOCAL INSTANCE TLC

WithObject(m, operand, F(_)) == Then(lai_exec_get_objectref(m, operand), LAMBDA r : F(r.v))
WithInteger(m, operand, F(_)) == Then(lai_exec_get_integer(m, operand), LAMBDA r : F(r.v.n))
With2Integers(m, o, F(_, _)) ==
    WithInteger(m, o[1], LAMBDA a : WithInteger(m, o[2], LAMBDA b : F(a, b)))

\* A result that is also stored to target operands.
Target(how, operand, v) == [how |-> how, operand |-> operand, v |-> v]
StoredTo(r, targets) == r @@ [targets |-> targets]
Mutated(r, operand) == Then(r, LAMBDA s : StoredTo(s, <<Target("mutate", operand, s.v)>>))
Emplaced(r, operand) == Then(r, LAMBDA s : StoredTo(s, <<Target("emplace", operand, s.v)>>))

\* The stores come last, when nothing can fail any more but they themselves.
StoreTargets(r) ==
    IF "targets" \notin DOMAIN r THEN r
    ELSE FoldLeft(LAMBDA acc, t :
                    Then(acc, LAMBDA s : Then(lai_operand_store(s.m, t.operand, t.v, t.how),
                                              LAMBDA u : Res(u.m, s.v))),
                  Res(r.m, r.v), r.targets)

-----------------------------------------------------------------------------
(* Copies.  The result shares its contents with the target it was assigned *)
(* to.                                                                     *)

ReduceStore(m, o) == WithObject(m, o[1], LAMBDA v : Mutated(lai_obj_clone(m, v), o[2]))
ReduceCopyObject(m, o) == WithObject(m, o[1], LAMBDA v : Emplaced(lai_obj_clone(m, v), o[2]))

(* Arithmetic.                                                             *)

BitLength(n) == CHOOSE k \in 0 .. IntBits : n < 2^k /\ (k = 0 \/ n >= 2^(k - 1))
LowestBit(n) == Min({i \in 0 .. IntBits - 1 : (n \div 2^i) % 2 = 1})

ReduceNot(m, o) == WithInteger(m, o[1], LAMBDA a : Mutated(Res(m, Integer(Ones - a)), o[2]))
ReduceFindSetLeftBit(m, o) ==
    WithInteger(m, o[1], LAMBDA a : Mutated(Res(m, Integer(BitLength(a))), o[2]))
\* Counted down from 65 for each time the integer can be doubled, as if it had 64 bits.
ReduceFindSetRightBit(m, o) ==
    WithInteger(m, o[1], LAMBDA a :
        LET lsb == IF a = 0 THEN 0 ELSE IntBits - LowestBit(a)
        IN  Mutated(Res(m, Integer(IF lsb = 0 THEN 0 ELSE 8 * QWord + 1 - lsb)), o[2]))

\* A division by zero is a processor exception.  The processor takes shift counts modulo
\* the size of an integer.
Arithmetic(op, a, b) ==
    CASE op = "Add"        -> Wrap(a + b)
      [] op = "Subtract"   -> Wrap(a - b)
      [] op = "Multiply"   -> Wrap(a * b)
      [] op = "Mod"        -> a % b
      [] op = "And"        -> Number(BitSet(a) \cap BitSet(b))
      [] op = "Or"         -> Number(BitSet(a) \cup BitSet(b))
      [] op = "Xor"        -> Number((BitSet(a) \cup BitSet(b)) \ (BitSet(a) \cap BitSet(b)))
      [] op = "NAnd"       -> Ones - Number(BitSet(a) \cap BitSet(b))
      [] op = "NOr"        -> Ones - Number(BitSet(a) \cup BitSet(b))
      [] op = "ShiftLeft"  -> Wrap(a * 2^(b % IntBits))
      [] op = "ShiftRight" -> a \div 2^(b % IntBits)
ReduceArithmetic(op, m, o) ==
    With2Integers(m, o, LAMBDA a, b :
        IF op = "Mod" /\ b = 0 THEN Fail("PANIC")
        ELSE Mutated(Res(m, Integer(Arithmetic(op, a, b))), o[3]))

\* Divide has no value: the quotient goes to its last operand only.
ReduceDivide(m, o) ==
    With2Integers(m, o, LAMBDA a, b :
        IF b = 0 THEN Fail("PANIC")
        ELSE StoredTo(Res(m, NoData), <<Target("mutate", o[3], Integer(a % b)),
                                        Target("mutate", o[4], Integer(a \div b))>>))

ReduceCount(m, o, step) ==
    Then(lai_operand_load(m, o[1]), LAMBDA r :
        IF r.v.type # "INTEGER" THEN Fail("PANIC")
        ELSE Mutated(Res(r.m, Integer(Wrap(r.v.n + step))), o[1]))

(* Logic: LNot, LAnd and LOr give 1 for true, the comparisons give Ones.   *)

ReduceLNot(m, o) == WithInteger(m, o[1], LAMBDA a : Res(m, Truth(a = 0)))
ReduceLAnd(m, o) == With2Integers(m, o, LAMBDA a, b : Res(m, Truth(a # 0 /\ b # 0)))
ReduceLOr(m, o) == With2Integers(m, o, LAMBDA a, b : Res(m, Truth(a # 0 \/ b # 0)))
ReduceCompare(op, m, o) ==
    WithObject(m, o[1], LAMBDA v : WithObject(m, o[2], LAMBDA w :
        LET r == lai_obj_exec_match_op(m, op, v, w)
        IN  IF r.e # "NONE" THEN Fail("ILLEGAL_ARGUMENTS")
            ELSE Res(m, Integer(IF r.v THEN Ones ELSE 0))))

-----------------------------------------------------------------------------
(* Strings, buffers and packages.                                          *)

\* The operands of Concatenate: what is no integer, string or buffer becomes a text.
ConcatOperand(m, v) ==
    CASE v.type = "HANDLE"  -> lai_obj_to_type_string(m, v.node)
      [] v.type = "NONE"    -> lai_create_string(m, <<211>>)
      [] v.type = "PACKAGE" -> lai_create_string(m, <<212>>)
      [] v.type \in {"INTEGER", "STRING", "BUFFER"} -> lai_obj_clone(m, v)
      [] OTHER -> Res(m, NoData)

\* As many bytes of the second buffer are copied as the first one has.
ConcatBuffers(m, b0, b1) ==
    IF Len(b0) > Len(b1) THEN Fail("UNDEFINED")
    ELSE lai_create_buffer(m, b0 \o SubSeq(b1, 1, Len(b0)) \o Zeroes(Len(b1) - Len(b0)))

Concatenated(m, v, w) ==
    CASE v.type = "INTEGER" ->
           Then(lai_mutate_integer(m, w), LAMBDA r : lai_create_buffer(m, ToBytes(v.n) \o ToBytes(r.v.n)))
      [] v.type = "BUFFER" ->
           (CASE w.type = "STRING"  -> ConcatBuffers(m, Data(m, v), Append(Str(m, w), 0))
              [] w.type = "INTEGER" -> ConcatBuffers(m, Data(m, v), ToBytes(w.n))
              [] w.type = "BUFFER"  -> ConcatBuffers(m, Data(m, v), Data(m, w))
              [] OTHER -> Fail("PANIC"))
      [] v.type = "STRING" ->
           (CASE w.type = "STRING" -> lai_create_string(m, Str(m, v) \o Str(m, w))
              [] w.type \in {"INTEGER", "BUFFER"} ->
                   Then(lai_create_string(m, << >>), LAMBDA t :
                   Then(lai_mutate_string(t.m, t.v, w), LAMBDA r :
                        lai_create_string(m, Str(m, v) \o Str(r.m, t.v))))
              [] OTHER -> Fail("PANIC"))
      [] OTHER -> Res(m, NoData)
ReduceConcat(m, o) ==
    WithObject(m, o[1], LAMBDA v : WithObject(m, o[2], LAMBDA w :
        Then(ConcatOperand(m, v), LAMBDA r : Then(ConcatOperand(r.m, w), LAMBDA s :
            Emplaced(Concatenated(s.m, r.v, s.v), o[3])))))

\* An index outside of the object is a panic.
SizeOf(m, v) == IF v.type = "STRING" THEN Len(Str(m, v)) ELSE Len(Data(m, v))
Sized == {"STRING", "BUFFER", "PACKAGE"}
ReduceIndex(m, o) ==
    WithObject(m, o[1], LAMBDA v : WithInteger(m, o[2], LAMBDA n :
        IF v.type \notin Sized \/ n >= SizeOf(m, v) THEN Fail("PANIC")
        ELSE Mutated(Res(m, [type |-> v.type \o "_INDEX", ptr |-> v.ptr, n |-> n]), o[3])))
ReduceSizeOf(m, o) ==
    WithObject(m, o[1], LAMBDA v :
        IF v.type \in Sized THEN Res(m, Integer(SizeOf(m, v))) ELSE Fail("PANIC"))

\* The first element that both comparisons hold for; an element that cannot be compared
\* before it is an error.
MatchOp(n) == IF n \in 0 .. 5 THEN <<"MTR", "MEQ", "MLE", "MLT", "MGE", "MGT">>[n + 1] ELSE "illegal"
MatchStops(m, elems, start, op1, v, op2, w) ==
    LET first(i)  == lai_obj_exec_match_op(m, op1, elems[i], v)
        second(i) == lai_obj_exec_match_op(m, op2, elems[i], w)
        failed(i) == first(i).e # "NONE" \/ second(i).e # "NONE"
        stops == {i \in start + 1 .. Len(elems) : failed(i) \/ (first(i).v /\ second(i).v)}
    IN  CASE stops = {} -> Res(m, Integer(Ones))
          [] stops # {} /\ failed(Min(stops)) -> Fail("ILLEGAL_ARGUMENTS")
          [] OTHER -> Res(m, Integer(Min(stops) - 1))
ReduceMatch(m, o) ==
    With([i \in 1 .. 6 |-> IF i \in {1, 3, 5} THEN lai_exec_get_objectref(m, o[i]) ELSE lai_exec_get_integer(m, o[i])],
         LAMBDA r :
            LET failed == {i \in 1 .. 6 : r[i].e # "NONE"}
            IN  IF r[1].e = "NONE" /\ r[1].v.type # "PACKAGE" THEN Fail("UNEXPECTED_RESULT")
                ELSE IF failed # {} THEN r[Min(failed)]
                ELSE MatchStops(m, Data(m, r[1].v), r[6].v.n, MatchOp(r[2].v.n), r[3].v,
                                MatchOp(r[4].v.n), r[5].v))

\* Two resource templates without their end tags, and a new end tag with its checksum.
ReduceConcatRes(m, o) ==
    WithObject(m, o[1], LAMBDA v : WithObject(m, o[2], LAMBDA w :
        LET body(x) == LET b == Data(m, x) IN SubSeq(b, 1, Len(b) - 2)
            both == Append(body(v) \o body(w), 121)
            sum  == MapThenSumSet(LAMBDA i : both[i], DOMAIN both) % 256
        IN  IF v.type # "BUFFER" \/ w.type # "BUFFER" THEN Fail("PANIC")
            ELSE IF Len(Data(m, v)) = 1 \/ Len(Data(m, w)) = 1 THEN Fail("UNEXPECTED_RESULT")
            ELSE Emplaced(lai_create_buffer(m, Append(both, (256 - sum) % 256)), o[3])))

\* A part of a string or buffer.
ReduceMid(m, o) ==
    WithObject(m, o[1], LAMBDA v : WithInteger(m, o[2], LAMBDA n : WithInteger(m, o[3], LAMBDA l :
        LET s    == CASE v.type = "STRING" -> Str(m, v) [] v.type = "BUFFER" -> Data(m, v) [] OTHER -> << >>
            size == CASE n >= Len(s) -> 0
                      [] n < Len(s) /\ n + l > Len(s) -> Len(s) - n
                      [] OTHER -> l
        IN  IF v.type \notin {"STRING", "BUFFER"} THEN Mutated(Res(m, NoData), o[4])
            ELSE Mutated(Alloc(m, v.type, SubSeq(s, n + 1, n + size)), o[4]))))

\* The conversion operators: a conversion that fails is a panic.
Converted(op, m, v) ==
    CASE op = "ToBuffer"        -> lai_obj_to_buffer(m, v)
      [] op = "ToDecimalString" -> lai_obj_to_decimal_string(m, v)
      [] op = "ToHexString"     -> lai_obj_to_hex_string(m, v)
      [] op = "ToInteger"       -> lai_obj_to_integer(m, v)
ReduceConvert(op, m, o) ==
    WithObject(m, o[1], LAMBDA v : Emplaced(PanicOf(Converted(op, m, v)), o[2]))
ReduceToString(m, o) ==
    WithObject(m, o[1], LAMBDA v : WithInteger(m, o[2], LAMBDA n :
        Emplaced(PanicOf(lai_obj_to_string(m, v, n)), o[3])))

\* The digits of a BCD number are nibbles.  FromBCD goes over those of 8 bytes, and finds the
\* ones of the integer again where it has fewer.  ToBCD gives the digits in reverse order.
ReduceFromBCD(m, o) ==
    WithObject(m, o[1], LAMBDA v :
        Emplaced(Res(m, Integer(Wrap(MapThenSumSet(
            LAMBDA i : ((IntegerOf(v) \div 2^((4 * i) % IntBits)) % 16) * 10^i, 0 .. 2 * QWord - 1)))), o[2]))
ReduceToBCD(m, o) ==
    WithObject(m, o[1], LAMBDA v :
        LET n     == IntegerOf(v)
            count == DigitCount(n, 10)
            digit(i) == (n \div 10^i) % 10
        IN  Emplaced(Res(m, Integer(FoldLeft(LAMBDA acc, i : Wrap(acc * 16 + digit(i - 1)), 0,
                                             [i \in 1 .. count |-> i]))), o[2]))

-----------------------------------------------------------------------------
(* References.                                                             *)

\* A character of a string is a signed char.
ReduceDeref(m, o) ==
    WithObject(m, o[1], LAMBDA ref :
        IF ref.type \in RefTypes
          THEN Then(lai_exec_ref_load(m, ref), LAMBDA r : lai_obj_clone(r.m, r.v))
        ELSE IF ref.type \notin IndexTypes THEN Fail("PANIC")
        ELSE IF ref.n + 1 \notin DOMAIN m.heap[ref.ptr] THEN Fail("UNDEFINED")
        ELSE LET elem == m.heap[ref.ptr][ref.n + 1]
             IN  Res(m, CASE ref.type = "PACKAGE_INDEX" -> elem
                          [] ref.type = "BUFFER_INDEX"  -> Integer(elem)
                          [] ref.type = "STRING_INDEX"  -> Integer(Wrap(IF elem > 127 THEN elem - 256 ELSE elem))))

ReduceRefOf(m, o) ==
    CASE o[1].tag = "ARG_NAME"      -> Res(m, [type |-> "ARG_REF", inv |-> m.cur, index |-> o[1].index])
      [] o[1].tag = "LOCAL_NAME"    -> Res(m, [type |-> "LOCAL_REF", inv |-> m.cur, index |-> o[1].index])
      [] o[1].tag = "RESOLVED_NAME" -> Res(m, [type |-> "NODE_REF", node |-> o[1].node])
      [] OTHER                      -> Fail("PANIC")

\* Whether a name can be resolved; a handle of it is stored if so.
ReduceCondRef(m, o) ==
    IF o[1].tag # "RESOLVED_NAME" THEN Fail("PANIC")
    ELSE IF o[1].node = NULL THEN Res(m, Truth(FALSE))
    ELSE StoredTo(Res(m, Truth(TRUE)), <<Target("mutate", o[2], Handle(o[1].node))>>)

\* The type of a name, through references and aliases.  The handle of an object that has
\* none is a null pointer.
ReduceObjectType(m, o) ==
    LET behind(n) ==
          LET node == m.ns.node[n]
          IN  CASE node.type = "ALIAS" -> node.data.target
                [] node.type = "NAME" /\ node.data.type = "NODE_REF" -> node.data.node
                [] OTHER -> n
        code(c) == Res(m, Integer(c))
    IN  CASE o[1].tag = "RESOLVED_NAME" -> code(lai_objecttype_ns(m, behind(o[1].node)))
          [] o[1].tag = "OBJECT" ->
               IF o[1].v.type \in {"HANDLE", "NODE_REF"} THEN code(lai_objecttype_ns(m, behind(o[1].v.node)))
               ELSE Fail("UNDEFINED")
          [] o[1].tag \in {"ARG_NAME", "LOCAL_NAME"} ->
               Then(lai_operand_load(m, o[1]), LAMBDA r : code(lai_objecttype_obj(r.v)))
          [] o[1].tag = "DEBUG_NAME" -> code(16)
          [] OTHER -> code(0)

-----------------------------------------------------------------------------
(* The outside world.  Stall and Sleep end (laihost_timer() only counts    *)
(* its calls); nothing in the kernel handles a Notify.                     *)

WithNode(m, operand, types, F(_)) ==
    IF operand.tag # "RESOLVED_NAME" \/ m.ns.node[operand.node].type \notin types THEN Fail("PANIC")
    ELSE F(operand.node)
ReduceNotify(m, o) ==
    WithNode(m, o[1], {"DEVICE", "PROCESSOR", "THERMALZONE"}, LAMBDA n :
        WithInteger(m, o[2], LAMBDA code : Res(m, NoData)))
ReduceSleep(m, o) == WithInteger(m, o[1], LAMBDA time : Res(m, NoData))
ReduceFatal(m, o) == WithInteger(m, o[3], LAMBDA arg : Fail("PANIC"))

\* A mutex is taken once and an event counts.  Who would have to wait needs
\* laihost_sync_wait(), which the kernel does not have: a panic.
Sync(m, n) == m.ns.node[n].data.val
SetSync(m, n, val, v) == Res([m EXCEPT !.ns.node[n].data.val = val], v)
lai_mutex_lock(m, n) == IF Sync(m, n) # 0 THEN Fail("PANIC") ELSE SetSync(m, n, 1, Truth(FALSE))
lai_mutex_unlock(m, n) == IF Sync(m, n) = 0 THEN Fail("PANIC") ELSE SetSync(m, n, 0, NoData)
lai_event_wait(m, n) == IF Sync(m, n) = 0 THEN Fail("PANIC") ELSE SetSync(m, n, Sync(m, n) - 1, Truth(FALSE))
lai_event_signal(m, n) == SetSync(m, n, Sync(m, n) + 1, NoData)
lai_event_reset(m, n) == SetSync(m, n, 0, NoData)

ReduceAcquire(m, o) ==
    WithNode(m, o[1], {"MUTEX"}, LAMBDA n : WithInteger(m, o[2], LAMBDA timeout : lai_mutex_lock(m, n)))
ReduceRelease(m, o) == WithNode(m, o[1], {"MUTEX"}, LAMBDA n : lai_mutex_unlock(m, n))
ReduceWait(m, o) ==
    WithNode(m, o[1], {"EVENT"}, LAMBDA n : WithInteger(m, o[2], LAMBDA timeout : lai_event_wait(m, n)))
ReduceSignal(m, o) == WithNode(m, o[1], {"EVENT"}, LAMBDA n : lai_event_signal(m, n))
ReduceReset(m, o) == WithNode(m, o[1], {"EVENT"}, LAMBDA n : lai_event_reset(m, n))

-----------------------------------------------------------------------------
ArithmeticOps == {"Add", "Subtract", "Multiply", "Mod", "And", "Or", "Xor", "NAnd", "NOr", "ShiftLeft", "ShiftRight"}

Reduced(op, m, o) ==
    CASE op = "Store"           -> ReduceStore(m, o)
      [] op = "CopyObject"      -> ReduceCopyObject(m, o)
      [] op = "Not"             -> ReduceNot(m, o)
      [] op = "FindSetLeftBit"  -> ReduceFindSetLeftBit(m, o)
      [] op = "FindSetRightBit" -> ReduceFindSetRightBit(m, o)
      [] op = "Concat"          -> ReduceConcat(m, o)
      [] op \in ArithmeticOps   -> ReduceArithmetic(op, m, o)
      [] op = "Divide"          -> ReduceDivide(m, o)
      [] op = "Increment"       -> ReduceCount(m, o, 1)
      [] op = "Decrement"       -> ReduceCount(m, o, -1)
      [] op = "LNot"            -> ReduceLNot(m, o)
      [] op = "LAnd"            -> ReduceLAnd(m, o)
      [] op = "LOr"             -> ReduceLOr(m, o)
      [] op = "LEqual"          -> ReduceCompare("MEQ", m, o)
      [] op = "LLess"           -> ReduceCompare("MLT", m, o)
      [] op = "LGreater"        -> ReduceCompare("MGT", m, o)
      [] op = "Index"           -> ReduceIndex(m, o)
      [] op = "Match"           -> ReduceMatch(m, o)
      [] op = "ConcatRes"       -> ReduceConcatRes(m, o)
      [] op = "DerefOf"         -> ReduceDeref(m, o)
      [] op = "SizeOf"          -> ReduceSizeOf(m, o)
      [] op = "RefOf"           -> ReduceRefOf(m, o)
      [] op \in {"ToBuffer", "ToDecimalString", "ToHexString", "ToInteger"} -> ReduceConvert(op, m, o)
      [] op = "ToString"        -> ReduceToString(m, o)
      [] op = "Mid"             -> ReduceMid(m, o)
      [] op = "Notify"          -> ReduceNotify(m, o)
      [] op = "CondRefOf"       -> ReduceCondRef(m, o)
      [] op \in {"Stall", "Sleep"} -> ReduceSleep(m, o)
      [] op = "Fatal"           -> ReduceFatal(m, o)
      [] op = "Acquire"         -> ReduceAcquire(m, o)
      [] op = "Release"         -> ReduceRelease(m, o)
      [] op = "Wait"            -> ReduceWait(m, o)
      [] op = "Signal"          -> ReduceSignal(m, o)
      [] op = "Reset"           -> ReduceReset(m, o)
      [] op = "FromBCD"         -> ReduceFromBCD(m, o)
      [] op = "ToBCD"           -> ReduceToBCD(m, o)
      [] op = "ObjectType"      -> ReduceObjectType(m, o)

lai_exec_reduce_op(op, m, o) == With(Reduced(op, m, o), StoreTargets)

-----------------------------------------------------------------------------
(***************************************************************************)
(* New nodes.  The nodes that a method creates are listed with it and      *)
(* taken out again when it returns, except for one that was refused as a   *)
(* duplicate: that one stays in the array of the namespace.                *)
(***************************************************************************)
Install(m, ctx, name, type, data) ==
    LET parent == lai_do_resolve_new_node(m.ns, ctx, name)
        node   == Node(type, parent, name.segs[Len(name.segs)], data)
        id     == Len(m.ns.node) + 1
        ns     == lai_install_nsnode(m.ns, node)
    IN  IF parent = NULL THEN Fail("PANIC")
        ELSE IF Duplicate(m.ns, node) THEN [m |-> [m EXCEPT !.ns = ns], v |-> NoData, e |-> "UNEXPECTED_RESULT"]
        ELSE IF m.cur = 0 THEN Res([m EXCEPT !.ns = ns], NoData)
        ELSE Res([m EXCEPT !.ns = ns, !.inv[m.cur].nodes = Append(@, id)], NoData)

\* Fields of a buffer: of what the operand holds, a buffer is taken for granted.
NodeSize(op) == CASE op = "BitField" -> 1 [] op = "ByteField" -> 8 [] op = "WordField" -> 16
                  [] op = "DWordField" -> 32 [] op = "QWordField" -> 64
InstallBufferField(m, o, name, offset, size) ==
    Then(lai_operand_load(m, o[1]), LAMBDA r :
        IF r.v.type # "BUFFER" THEN Fail("UNDEFINED")
        ELSE Install(r.m, name.ctx, name.name, "BUFFER_FIELD",
                     [type |-> "BUFFER_FIELD", buffer |-> r.v.ptr, offset |-> offset, size |-> size]))

lai_exec_reduce_node(op, m, o, ctx) ==
    CASE op = "NameOp" -> WithObject(m, o[2], LAMBDA v : Install(m, ctx, o[1].name, "NAME", v))
      [] op = "ArbField" ->
           WithInteger(m, o[2], LAMBDA offset : WithInteger(m, o[3], LAMBDA size :
               InstallBufferField(m, o, o[4], offset, size)))
      [] op = "OpRegion" ->
           WithInteger(m, o[3], LAMBDA base : WithInteger(m, o[4], LAMBDA length :
               Install(m, ctx, o[1].name, "OPREGION",
                       [type |-> "OPREGION", space |-> o[2].v.n, base |-> base, length |-> length])))
      [] OTHER ->
           WithInteger(m, o[2], LAMBDA offset :
               InstallBufferField(m, o, o[3], IF op = "BitField" THEN offset ELSE 8 * offset, NodeSize(op)))
=============================================================================
