------------------------------- MODULE LaiEval ------------------------------
(***************************************************************************)
(* What the interpreter of LAI promises to its callers: evaluating a name  *)
(* gives the value of its AML code, in one step.  The value is defined by  *)
(* recursion on the code, without the stacks of lai/core/exec.c: an        *)
(* operator is applied to the values of its operands, a block is the       *)
(* sequence of its statements, and a loop is repeated while its predicate  *)
(* is not 0.  LaiExec implements this specification.                       *)
(*                                                                         *)
(* The operators give records of the memory m, the counter pc, the         *)
(* operands o (or for a statement ctl: how it ends) and the error e.  A    *)
(* context ctx has the scope, the invocation and the end of the block.     *)
(***************************************************************************)
EXTENDS LaiCode

LOCAL INSTANCE SequencesExt

CONSTANTS Programs, Calls
VARIABLES code, mem, phase, answer, served

vars == <<code, mem, phase, answer, served>>

Gives(m, pc, operand) == [m |-> m, pc |-> pc, o |-> <<operand>>, e |-> "NONE"]
Fails(m, e) == [m |-> m, pc |-> 0, o |-> << >>, e |-> e]
GivesResult(r, m, pc) == IF r.e = "NONE" THEN Gives(r.m, pc, Object(r.v)) ELSE Fails(MemoryOf(r, m), r.e)

Past(pc) == pc + 1 + code[pc].size
In(m, ctx) == [m EXCEPT !.cur = ctx.inv]
Context(handle, inv) == [handle |-> handle, inv |-> inv, limit |-> 0]
Within(ctx, limit) == [ctx EXCEPT !.limit = limit]

RECURSIVE Operand(_, _, _, _), Invoke(_, _, _, _), Block(_, _, _, _), Loop(_, _, _, _)

-----------------------------------------------------------------------------
\* Operands one after the other, each in its mode.
Sequentially(m, ctx, pc, modes) ==
    FoldLeft(LAMBDA r, mode :
               IF r.e # "NONE" THEN r
               ELSE LET s == Operand(r.m, ctx, r.pc, mode) IN [s EXCEPT !.o = r.o \o @],
             [m |-> m, pc |-> pc, o |-> << >>, e |-> "NONE"], modes)

NameOperand(m, ctx, pc, mode) ==
    LET name == code[pc].name
        n    == lai_do_resolve(m.ns, ctx.handle, name)
        node == m.ns.node[n]
        args == Sequentially(m, ctx, pc + 1, [i \in 1 .. node.data.argc |-> "OBJECT"])
    IN  CASE mode = "DATA" -> Gives(m, pc + 1, Object(LazyHandle(ctx.handle, name)))
          [] mode = "UNRESOLVED" -> Gives(m, pc + 1, [tag |-> "UNRESOLVED_NAME", ctx |-> ctx.handle, name |-> name])
          [] Resolves(mode) /\ n = NULL ->
               IF mode = "OPTIONAL" THEN Gives(m, pc + 1, Resolved(NULL)) ELSE Fails(m, "UNEXPECTED_RESULT")
          [] References(mode) /\ n # NULL -> Gives(m, pc + 1, Resolved(n))
          [] Invokes(mode) /\ n # NULL ->
               IF node.type # "METHOD" THEN GivesResult(lai_exec_access(In(m, ctx), n), m, pc + 1)
               ELSE IF args.e # "NONE" THEN args
               ELSE LET r == Invoke(args.m, n, [i \in DOMAIN args.o |-> args.o[i].v], WantsResult(mode))
                    IN  GivesResult(r, r.m, args.pc)

VariableOperand(m, ctx, pc, mode) ==
    LET t   == code[pc]
        arg == t.op = "Arg"
        inv == m.inv[ctx.inv]
    IN  CASE References(mode) -> Gives(m, pc + 1, [tag |-> IF arg THEN "ARG_NAME" ELSE "LOCAL_NAME", index |-> t.i])
          [] mode = "OBJECT" /\ ctx.inv # 0 ->
               Gives(m, pc + 1, Object(IF arg THEN inv.arg[t.i] ELSE inv.local[t.i]))
          [] OTHER -> Fails(m, "PANIC")

BufferOperand(m, ctx, pc) ==
    LET size == Operand(m, Within(ctx, Past(pc)), pc + 1, "OBJECT")
        n    == IntegerOf(size.o[1].v)
        data == Initializers(code, size.pc, Past(pc))
    IN  CASE size.e # "NONE" -> size
          [] size.e = "NONE" /\ Len(data) > n -> Fails(m, "PANIC")
          [] OTHER -> GivesResult(lai_create_buffer(size.m, Fit(data, n)), m, Past(pc))

\* The elements are data: names stay names.
Elements(m, ctx, pc, limit, pkg) ==
    LET next(r, k) ==
          IF r.e # "NONE" \/ r.pc >= limit THEN r
          ELSE LET s == Operand(r.m, Within(ctx, limit), r.pc, "DATA")
               IN  CASE s.e # "NONE" -> s
                     [] s.e = "NONE" /\ k > Len(s.m.heap[pkg.ptr]) -> Fails(s.m, "PANIC")
                     [] OTHER -> [s EXCEPT !.m.heap[pkg.ptr][k] = s.o[1].v]
    IN  FoldLeft(next, Gives(m, pc, Object(pkg)), [k \in 1 .. limit - pc |-> k])
PackageOperand(m, ctx, pc) ==
    LET size == Operand(m, Within(ctx, Past(pc)), pc + 1, IF code[pc].op = "Package" THEN "BYTE" ELSE "OBJECT")
        n    == lai_exec_get_integer(size.m, size.o[1])
        pkg  == lai_create_pkg(size.m, n.v.n)
        r    == Elements(pkg.m, ctx, size.pc, Past(pc), pkg.v)
    IN  CASE size.e # "NONE" -> size
          [] size.e = "NONE" /\ n.e # "NONE" -> Fails(size.m, n.e)
          [] OTHER -> IF r.e = "NONE" THEN Gives(r.m, Past(pc), Object(pkg.v)) ELSE r

Operator(m, ctx, pc) ==
    LET op   == code[pc].op
        args == Sequentially(m, ctx, pc + 1, OpModes[op])
    IN  IF args.e # "NONE" THEN args
        ELSE GivesResult(lai_exec_reduce_op(op, In(args.m, ctx), args.o), args.m, args.pc)

ConstantOperand(m, pc, mode) ==
    CASE mode \in {"DATA", "OBJECT", "EXEC"} -> Gives(m, pc + 1, Object(Integer(ConstantOf(code[pc]))))
      [] References(mode) /\ code[pc].op = "Zero" -> Gives(m, pc + 1, [tag |-> "NULL_NAME"])
      [] OTHER -> Fails(m, "PANIC")
StringOperand(m, pc, mode) ==
    CASE mode \in {"DATA", "OBJECT"} -> GivesResult(lai_create_string(m, code[pc].s), m, pc + 1)
      [] mode = "EXEC" -> Gives(m, pc + 1, Object(NoData))
      [] OTHER -> Fails(m, "PANIC")

Operand(m, ctx, pc, mode) ==
    LET op == code[pc].op
    IN  CASE pc >= ctx.limit             -> Fails(m, "PANIC")
          [] Immediate(mode)             -> Gives(m, pc + 1, Object(Integer(code[pc].n)))
          [] op = "Name"                 -> NameOperand(m, ctx, pc, mode)
          [] op \in Constants            -> ConstantOperand(m, pc, mode)
          [] op = "String"               -> StringOperand(m, pc, mode)
          [] op \in {"Arg", "Local"}     -> VariableOperand(m, ctx, pc, mode)
          [] op = "Debug"                -> IF References(mode) THEN Gives(m, pc + 1, [tag |-> "DEBUG_NAME"])
                                            ELSE Fails(m, "PANIC")
          [] op = "Buffer"               -> BufferOperand(m, ctx, pc)
          [] op \in {"Package", "VarPackage"} -> PackageOperand(m, ctx, pc)
          [] op \in DOMAIN OpModes       -> Operator(m, ctx, pc)

-----------------------------------------------------------------------------
Ends(m, pc, ctl, v) == [m |-> m, pc |-> pc, ctl |-> ctl, v |-> v, e |-> "NONE"]
Breaks(m, e) == [m |-> m, pc |-> 0, ctl |-> "next", v |-> NoData, e |-> e]
EndsResult(r, m, pc) == IF r.e = "NONE" THEN Ends(r.m, pc, "next", NoData) ELSE Breaks(MemoryOf(r, m), r.e)

Predicate(m, ctx, pc) ==
    LET r == Operand(m, ctx, pc, "OBJECT")
        n == lai_exec_get_integer(r.m, r.o[1])
    IN  CASE r.e # "NONE" -> r
          [] r.e = "NONE" /\ n.e # "NONE" -> Fails(r.m, n.e)
          [] OTHER -> r
Holding(r) == r.o[1].v.n # 0

Condition(m, ctx, pc, limit) ==
    LET p    == Predicate(m, Within(ctx, Past(pc)), pc + 1)
        else == Past(pc) < limit /\ code[Past(pc)].op = "Else"
        end  == IF else THEN Past(Past(pc)) ELSE Past(pc)
        body == IF Holding(p) THEN Block(p.m, ctx, p.pc, Past(pc)) ELSE Block(p.m, ctx, Past(pc) + 1, end)
    IN  CASE p.e # "NONE" -> Breaks(p.m, p.e)
          [] p.e = "NONE" /\ ~Holding(p) /\ ~else -> Ends(p.m, end, "next", NoData)
          [] OTHER -> [body EXCEPT !.pc = end]

Loop(m, ctx, pred, limit) ==
    LET p    == Predicate(m, Within(ctx, limit), pred)
        body == Block(p.m, ctx, p.pc, limit)
    IN  CASE p.e # "NONE" -> Breaks(p.m, p.e)
          [] p.e = "NONE" /\ ~Holding(p) -> Ends(p.m, limit, "next", NoData)
          [] OTHER -> CASE body.e # "NONE" \/ body.ctl = "return" -> body
                        [] body.e = "NONE" /\ body.ctl = "break"  -> Ends(body.m, limit, "next", NoData)
                        [] OTHER -> Loop(body.m, ctx, pred, limit)

Return(m, ctx, pc) ==
    LET r == Operand(m, ctx, pc + 1, "OBJECT")
    IN  CASE r.e # "NONE" -> Breaks(r.m, r.e)
          [] r.e = "NONE" /\ ctx.inv = 0 -> Breaks(r.m, "PANIC")
          [] OTHER -> Ends(r.m, r.pc, "return", r.o[1].v)

\* A scope is a block of its own: neither a loop nor a method can be left from inside.
Scope(m, handle, pc) ==
    LET r == Block(m, Context(handle, 0), pc + 1, Past(pc))
    IN  IF r.e = "NONE" /\ r.ctl # "next" THEN Breaks(r.m, "PANIC") ELSE r
ScopeObject(m, ctx, pc) ==
    LET r == Install(In(m, ctx), ctx.handle, code[pc].name, ScopeTypes[code[pc].op], NoData)
    IN  IF r.e # "NONE" THEN Breaks(MemoryOf(r, m), r.e) ELSE Scope(r.m, Len(r.m.ns.node), pc)

NodeStatement(m, ctx, pc) ==
    LET op   == code[pc].op
        args == Sequentially(m, ctx, pc + 1, NodeModes[op])
        r    == lai_exec_reduce_node(op, In(args.m, ctx), args.o, ctx.handle)
    IN  CASE args.e # "NONE" -> Breaks(args.m, args.e)
          [] args.e = "NONE" /\ r.e \in {"PANIC", "UNDEFINED"} -> Breaks(args.m, r.e)
          [] OTHER -> Ends(MemoryOf(r, args.m), args.pc, "next", NoData)

BankField(m, ctx, pc) ==
    LET find(name) == lai_do_resolve(m.ns, ctx.handle, name)
        value == Predicate(m, Within(ctx, Past(pc)), pc + 1)
        r == InstallBankField(In(value.m, ctx), ctx.handle, find(code[pc].region), find(code[pc].bank),
                              value.o[1].v.n, code[value.pc])
    IN  CASE find(code[pc].region) = NULL \/ find(code[pc].bank) = NULL -> Breaks(m, "PANIC")
          [] value.e # "NONE" -> Breaks(value.m, value.e)
          [] OTHER -> EndsResult(r, m, Past(pc))

Statement(m, ctx, pc, limit) ==
    LET t    == code[pc]
        here == In(m, ctx)
        scope == lai_do_resolve(m.ns, ctx.handle, t.name)
        value == Operand(m, ctx, pc, "EXEC")
    IN  CASE t.op \in {"Nop", "External", "BreakPoint"} -> Ends(m, pc + 1, "next", NoData)
          [] t.op = "Return"   -> Return(m, ctx, pc)
          [] t.op = "If"       -> Condition(m, ctx, pc, limit)
          [] t.op = "While"    -> [Loop(m, ctx, pc + 1, Past(pc)) EXCEPT !.pc = Past(pc)]
          [] t.op = "Break"    -> Ends(m, pc + 1, "break", NoData)
          [] t.op = "Continue" -> Ends(m, pc + 1, "continue", NoData)
          [] t.op = "Else"     -> Breaks(m, "PANIC")
          [] t.op = "Scope"    -> IF scope = NULL THEN Breaks(m, "UNEXPECTED_RESULT") ELSE Scope(m, scope, pc)
          [] t.op \in DOMAIN ScopeTypes -> ScopeObject(m, ctx, pc)
          [] t.op = "Method"   ->
               EndsResult(Install(here, ctx.handle, t.name, "METHOD", Method(pc + 1, Past(pc), t.argc)), m, Past(pc))
          [] t.op \in DOMAIN SyncTypes ->
               EndsResult(Install(here, ctx.handle, t.name, SyncTypes[t.op], NewSync), m, pc + 1)
          [] t.op = "Alias"    -> EndsResult(InstallAlias(here, ctx.handle, t), m, pc + 1)
          [] t.op \in DOMAIN NodeModes -> NodeStatement(m, ctx, pc)
          [] t.op = "Field"      -> EndsResult(InstallField(here, ctx.handle, t), m, pc + 1)
          [] t.op = "IndexField" -> EndsResult(InstallIndexField(here, ctx.handle, t), m, pc + 1)
          [] t.op = "BankField"  -> BankField(m, ctx, pc)
          [] OTHER -> IF value.e # "NONE" THEN Breaks(value.m, value.e)
                      ELSE Ends(value.m, value.pc, "next", NoData)

Block(m, ctx, pc, limit) ==
    IF pc >= limit THEN Ends(m, pc, "next", NoData)
    ELSE LET r == Statement(m, Within(ctx, limit), pc, limit)
         IN  CASE r.e # "NONE" \/ r.ctl # "next" -> r
               [] r.e = "NONE" /\ r.ctl = "next" /\ r.pc > limit -> Breaks(r.m, "PANIC")
               [] OTHER -> Block(r.m, ctx, r.pc, limit)

\* The value of a method is that of its Return, or 0.
Invoke(m, n, args, want) ==
    LET node  == m.ns.node[n]
        begun == NewInvocation(m, args)
        i     == Len(begun.inv)
        body  == Block(begun, Context(n, i), node.data.pc, node.data.limit)
        value == IF want /\ body.ctl = "return" THEN lai_obj_clone(body.m, body.v) ELSE Res(body.m, Integer(0))
        host  == HostResult(m, node.name, args)
    IN  CASE node.data.override -> IF host.e = "NONE" THEN host ELSE [host EXCEPT !.m = m]
          [] ~node.data.override /\ body.e # "NONE" -> [m |-> body.m, v |-> NoData, e |-> body.e]
          [] ~node.data.override /\ body.e = "NONE" /\ body.ctl \in {"break", "continue"} ->
               [m |-> body.m, v |-> NoData, e |-> "PANIC"]
          [] OTHER -> Res(EndInvocation(value.m, i), value.v)

-----------------------------------------------------------------------------
(***************************************************************************)
(* One step for every call.  After a panic nothing happens any more.       *)
(***************************************************************************)
Serve(r) ==
    LET failed == r.e # "NONE"
    IN  /\ phase' = IF r.e \in {"PANIC", "UNDEFINED"} THEN "halt" ELSE "idle"
        /\ answer' = [e |-> r.e, v |-> IF failed THEN NoData ELSE r.v]
        /\ mem' = CASE r.e \in {"PANIC", "UNDEFINED"} -> mem
                    [] failed /\ r.e \notin {"PANIC", "UNDEFINED"} -> [FinalizeState(r.m) EXCEPT !.cur = 0]
                    [] OTHER -> [r.m EXCEPT !.cur = 0]
        /\ UNCHANGED code

Load ==
    /\ phase = "start" /\ served' = served
    /\ LET r == Block(mem, Context(Root, 0), 1, Len(code) + 1)
       IN  Serve(IF r.ctl = "next" THEN r ELSE [r EXCEPT !.e = "PANIC"])

Evaluate(c) ==
    /\ phase = "idle" /\ served' = served + 1
    /\ LET n    == lai_resolve_path(mem.ns, Root, c.path)
           node == mem.ns.node[n]
           r    == Invoke(mem, n, c.args, TRUE)
       IN  /\ n # NULL
           /\ Serve(CASE node.type = "METHOD" ->
                           IF r.e # "NONE" \/ node.data.override THEN r ELSE lai_obj_clone(r.m, r.v)
                      [] node.type = "NAME" /\ c.args = << >> -> lai_obj_clone(mem, node.data)
                      [] OTHER -> [m |-> mem, v |-> NoData, e |-> "TYPE_MISMATCH"])

Init ==
    /\ code \in Programs
    /\ mem = InitialMemory
    /\ phase = "start"
    /\ answer = [e |-> "NONE", v |-> NoData]
    /\ served = 0

Next == Load \/ \E c \in Calls : Evaluate(c)
Spec == Init /\ [][Next]_vars
=============================================================================
