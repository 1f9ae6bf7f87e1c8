------------------------------- MODULE LaiOps -------------------------------
(***************************************************************************)
(* Operands of AML operators (lai/core/exec-operand.c) and what the        *)
(* operators do with them (lai_exec_reduce_op() and lai_exec_reduce_node() *)
(* of lai/core/exec.c).                                                    *)
(*                                                                         *)
(* An operand is an object or a name: a record with a tag and v, node,     *)
(* index, or ctx and name.                                                 *)
(***************************************************************************)
EXTENDS LaiObjects

LOCAL INSTANCE SequencesExt
LOCAL INSTANCE FiniteSetsExt

Object(v) == [tag |-> "OBJECT", v |-> v]
Resolved(node) == [tag |-> "RESOLVED_NAME", node |-> node]
IsObject(operand) == operand.tag = "OBJECT"

-----------------------------------------------------------------------------
(***************************************************************************)
(* PCI configuration space: the device is found by evaluating names around *)
(* the region.  Names are numbers here; EISA ids are numbered.             *)
(***************************************************************************)
PciId == 1
PcieId == 2
ValueOf(m, n) == IF n # NULL /\ m.ns.node[n].type = "NAME" THEN m.ns.node[n].data ELSE NoData

Relative(seg) == [is_absolute |-> FALSE, height |-> 0, segs |-> <<seg>>]
\* 0 when the _HID, or without it the _CID, is the given id, 1 otherwise.
lai_check_device_pnp_id(m, dev, id) ==
    LET own == [seg \in {"_HID", "_CID"} |-> ValueOf(m, lai_resolve_path(m.ns, dev, Relative(seg)))]
        found == IF own["_HID"] # NoData THEN own["_HID"] ELSE own["_CID"]
    IN  IF found = Integer(id) THEN 0 ELSE 1

\* The first node up from `bus` that is not a root bus: the answers of
\* lai_check_device_pnp_id() are taken for Booleans.
lai_find_parent_root_of(m, bus) == With(AncestorsOf(m.ns, bus), LAMBDA up :
    LET hits == {i \in DOMAIN up : /\ up[i] # NULL
                                   /\ \E id \in {PciId, PcieId} : lai_check_device_pnp_id(m, up[i], id) # 0}
    IN  IF hits = {} THEN NULL ELSE up[Min(hits)])

\* Segment, bus and address of the device; << >> stands for a panic.
lai_get_pci_params(m, opregion) == With(m.ns.node[m.ns.node[opregion].parent].parent, LAMBDA bus :
    With(IF bus = NULL THEN NULL ELSE lai_find_parent_root_of(m, bus), LAMBDA root :
        LET at == <<root, root, opregion>>
        IN  IF root = NULL THEN << >>
            ELSE [i \in 1 .. 3 |-> IntegerOf(ValueOf(m, lai_resolve_search(m.ns, at[i], <<"_SEG", "_BBN", "_ADR">>[i])))]))

-----------------------------------------------------------------------------
\* The field of a node with the device of its region, and the fields it goes through.
FieldOf(m, n) == With(m.ns.node[n].data, LAMBDA f :
    LET parts == IF f.type = "INDEXFIELD" THEN {f.index, f.data} ELSE {f}
        located == [g \in parts |->
            IF g.type # "INDEXFIELD" /\ g.region.space = "PCI"
              THEN [g EXCEPT !.region.unit = lai_get_pci_params(m, g.region.node)] ELSE g]
    IN  With(located, LAMBDA l :
            IF f.type = "INDEXFIELD" THEN [f EXCEPT !.index = l[@], !.data = l[@]] ELSE l[f]))
Usable(f) == AccessOK(f) /\ (f.type # "INDEXFIELD" /\ f.region.space = "PCI" => f.region.unit # << >>)

\* A field of up to 8 bytes is read as an integer, and a longer one as a buffer.
ReadField(m, n) == With(FieldOf(m, n), LAMBDA f :
    IF ~Usable(f) THEN Fail("PANIC")
    ELSE With(lai_read_opregion(m.io, f), LAMBDA r :
      LET bytes == (f.size + 7) \div 8
          byte(i) == Number({b % 8 : b \in {c \in r.bits : c \div 8 = i - 1}})
      IN  IF bytes > QWord THEN lai_create_buffer([m EXCEPT !.io = r.io], [i \in 1 .. bytes |-> byte(i)])
          ELSE Res([m EXCEPT !.io = r.io], Integer(Number({b % IntBits : b \in r.bits})))))

\* Any bytes are taken as they lie in memory, and as many as the field needs.  Of an integer
\* there are 8.
BytesOf(m, v) ==
    CASE v.type = "BUFFER"  -> Data(m, v)
      [] v.type = "STRING"  -> Append(Data(m, v), 0)
      [] v.type = "INTEGER" -> ToBytes(v.n) \o ToBytes(v.n)
      [] OTHER -> << >>
WriteField(m, n, v) == With(FieldOf(m, n), LAMBDA f : With(BytesOf(m, v), LAMBDA bytes :
    LET bits == {b \in 0 .. f.size - 1 : (bytes[b \div 8 + 1] \div 2^(b % 8)) % 2 = 1}
    IN  IF v.type \notin {"BUFFER", "STRING", "INTEGER"} \/ ~Usable(f) THEN Fail("PANIC")
        ELSE IF f.size > 8 * Len(bytes) THEN Fail("UNDEFINED")
        ELSE Res([m EXCEPT !.io = lai_write_opregion(@, f, bits)], v)))

-----------------------------------------------------------------------------
(* Loads and stores.                                                       *)

HandleTypes == {"EVENT", "MUTEX", "OPREGION", "THERMALZONE", "PROCESSOR", "POWERRESOURCE", "DEVICE"}
lai_exec_access(m, n) ==
    LET node == m.ns.node[n]
    IN  CASE node.type = "NAME"         -> Res(m, node.data)
          [] node.type \in FieldTypes   -> ReadField(m, n)
          [] node.type = "BUFFER_FIELD" -> lai_read_buffer(m, node.data)
          [] node.type \in HandleTypes  -> Res(m, Handle(n))
          [] OTHER                      -> Fail("PANIC")

\* References into an invocation that has returned point to freed memory.
RefTypes == {"ARG_REF", "LOCAL_REF", "NODE_REF"}
lai_exec_ref_load(m, ref) ==
    CASE ref.type = "NODE_REF"    -> lai_exec_access(m, ref.node)
      [] ~m.inv[ref.inv].live     -> Fail("UNDEFINED")
      [] ref.type = "ARG_REF"     -> Res(m, m.inv[ref.inv].arg[ref.index])
      [] ref.type = "LOCAL_REF"   -> Res(m, m.inv[ref.inv].local[ref.index])

lai_operand_load(m, operand) ==
    CASE operand.tag = "RESOLVED_NAME" -> lai_exec_access(m, operand.node)
      [] operand.tag = "ARG_NAME"      -> Res(m, m.inv[m.cur].arg[operand.index])
      [] operand.tag = "LOCAL_NAME"    -> Res(m, m.inv[m.cur].local[operand.index])
      [] OTHER                         -> Fail("PANIC")

SetName(m, n, v) == Res([m EXCEPT !.ns.node[n].data = v], v)

PanicOf(r) == IF r.e = "ILLEGAL_ARGUMENTS" THEN Fail("PANIC") ELSE r

\* A Name that holds an integer, string or buffer keeps its type; a package is resized and
\* takes over the elements.
lai_exec_mutate_ns(m, n, v) == With(m.ns.node[n].data, LAMBDA target :
    CASE target.type = "INTEGER" -> PanicOf(Then(lai_mutate_integer(m, v), LAMBDA r : SetName(r.m, n, r.v)))
      [] target.type = "STRING"  -> PanicOf(lai_mutate_string(m, target, v))
      [] target.type = "BUFFER"  -> PanicOf(lai_mutate_buffer(m, target, v))
      [] target.type = "PACKAGE" ->
           IF v.type # "PACKAGE" THEN Fail("PANIC") ELSE Res(SetData(m, target, Data(m, v)), target)
      [] OTHER -> SetName(m, n, v))

\* lai_store_ns() and lai_exec_mutate_ns() differ in what becomes of a Name.
lai_store_ns(m, n, v, how) ==
    CASE m.ns.node[n].type = "NAME"         ->
           IF how = "mutate" THEN lai_exec_mutate_ns(m, n, v) ELSE SetName(m, n, v)
      [] m.ns.node[n].type \in FieldTypes   -> WriteField(m, n, v)
      [] m.ns.node[n].type = "BUFFER_FIELD" -> lai_write_buffer(m, m.ns.node[n].data, v)
      [] OTHER                              -> Fail("PANIC")

\* Elements of strings and buffers take the low byte of .integer, without a type check.
StoreIndex(m, ref, v) ==
    LET content == m.heap[ref.ptr]
    IN  IF ref.n + 1 \notin DOMAIN content THEN Fail("UNDEFINED")
        ELSE Res([m EXCEPT !.heap[ref.ptr][ref.n + 1] =
                      IF ref.type = "PACKAGE_INDEX" THEN v ELSE IntegerOf(v) % 256], v)
IndexTypes == {"STRING_INDEX", "BUFFER_INDEX", "PACKAGE_INDEX"}

SetLocal(m, inv, i, v) == Res([m EXCEPT !.inv[inv].local[i] = v], v)
SetArg(m, inv, i, v) == Res([m EXCEPT !.inv[inv].arg[i] = v], v)

\* lai_operand_mutate() and lai_operand_emplace().  What an argument refers to is stored to
\* without a conversion.
lai_operand_store(m, operand, v, how) ==
    LET arg  == IF operand.tag = "ARG_NAME" THEN m.inv[m.cur].arg[operand.index] ELSE NoData
        node == CASE operand.tag = "RESOLVED_NAME" -> operand.node
                  [] arg.type = "NODE_REF"         -> arg.node
                  [] OTHER                         -> NULL
    IN  CASE node # NULL -> lai_store_ns(m, node, v, IF arg.type = "NODE_REF" THEN "emplace" ELSE how)
          [] IsObject(operand) -> IF operand.v.type \in IndexTypes THEN StoreIndex(m, operand.v, v) ELSE Fail("PANIC")
          [] operand.tag \in {"NULL_NAME", "DEBUG_NAME"} -> Res(m, v)
          [] arg.type \in {"ARG_REF", "LOCAL_REF"} ->
               IF ~m.inv[arg.inv].live THEN Fail("UNDEFINED")
               ELSE IF arg.type = "ARG_REF" THEN SetArg(m, arg.inv, arg.index, v)
               ELSE SetLocal(m, arg.inv, arg.index, v)
          [] operand.tag = "ARG_NAME" /\ arg.type \notin RefTypes -> SetArg(m, m.cur, operand.index, v)
          [] operand.tag = "LOCAL_NAME" -> SetLocal(m, m.cur, operand.index, v)
          [] OTHER -> Fail("PANIC")

\* The object of an operand, which has to be one.
lai_exec_get_objectref(m, operand) == IF IsObject(operand) THEN Res(m, operand.v) ELSE Fail("PANIC")
lai_exec_get_integer(m, operand) ==
    CASE ~IsObject(operand)             -> Fail("PANIC")
      [] operand.v.type = "NONE"        -> Fail("EXECUTION_FAILURE")
      [] operand.v.type # "INTEGER"     -> Fail("PANIC")
      [] OTHER                          -> Res(m, operand.v)
=============================================================================
