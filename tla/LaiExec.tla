------------------------------- MODULE LaiExec ------------------------------
(***************************************************************************)
(* The AML interpreter of LAI (lai/core/exec.c): a machine with four       *)
(* stacks that executes the byte code of the ACPI tables.  lai_exec_run()  *)
(* calls lai_exec_process() for the item on top of the execution stack     *)
(* until the stack is empty: the item is reduced if it has all its         *)
(* operands, and otherwise lai_exec_parse() takes the next piece of code,  *)
(* in a mode that the item asks for.  Every action below is one call of    *)
(* lai_exec_process(), or the beginning or end of a call of lai_populate() *)
(* or lai_eval_args().                                                     *)
(*                                                                         *)
(* A panic is the end of the behavior, and so is an access outside of an   *)
(* object, after which the code defines nothing.                           *)
(***************************************************************************)
EXTENDS LaiCode

CONSTANTS Programs,   \* the tables that may be loaded
          Calls,      \* what may be evaluated then: [path, args]
          MaxCalls,   \* how often: program -> number
          Capacity    \* of the four stacks: LAI_SMALL_*_SIZE

VARIABLES code,       \* the table
          state,      \* lai_state_t: the four stacks and their capacities
          mem,        \* the memory of the interpreter (LaiObjects)
          status,     \* "run", "idle", or "halt" after a panic
          answer,     \* the error and the object of the last call
          call,       \* what was called, and the memory at that time
          calls       \* how many calls there were

vars == <<code, state, mem, status, answer, call, calls>>

-----------------------------------------------------------------------------
(* The stacks.                                                             *)

Stacks == {"ctxstack", "blkstack", "stack", "opstack"}

lai_init_state == [ctxstack |-> << >>, blkstack |-> << >>, stack |-> << >>, opstack |-> << >>, cap |-> Capacity]

\* Of the given stacks those that are full are moved to allocations of twice their size.
Reserve(s, stacks) ==
    [s EXCEPT !.cap = [w \in Stacks |-> IF w \in stacks /\ Len(s[w]) = @[w] THEN 2 * @[w] ELSE @[w]]]
Push(s, w, item) == [s EXCEPT ![w] = Append(@, item)]
Pop(s, w, n) == [s EXCEPT ![w] = SubSeq(@, 1, Len(@) - n)]

TopOf(stack) == stack[Len(stack)]
Ctx == TopOf(state.ctxstack)
Blk == TopOf(state.blkstack)
Top == TopOf(state.stack)
Token == code[Blk.pc]
lai_exec_commit_pc(s, pc) == [s EXCEPT !.blkstack[Len(s.blkstack)].pc = pc]

Frame(s) == Len(s.opstack)
\* The number of operands that the top item has, and they themselves.
Count == Len(state.opstack) - Top.frame
Operands == SubSeq(state.opstack, Top.frame + 1, Len(state.opstack))

-----------------------------------------------------------------------------
(***************************************************************************)
(* A package takes over the initializer that has been parsed before it     *)
(* looks at its code: S and M are the stacks and the memory that the rest  *)
(* of lai_exec_process() works on.                                         *)
(***************************************************************************)
Packages == {"PACKAGE", "VARPACKAGE"}
Initializes == Top.kind \in Packages /\ Top.phase = 2 /\ Count = 2
Package == state.opstack[Top.frame + 1].v
Overflows == Initializes /\ Top.index = Len(mem.heap[Package.ptr])

S == IF ~Initializes THEN state
     ELSE [Pop(state, "opstack", 1) EXCEPT !.stack[Len(state.stack)].index = @ + 1]
\* Variant: a method that was called stays the current one.
M_StaleInvocation == mem
M == LET current == [mem EXCEPT !.cur = Ctx.inv]
     IN  IF ~Initializes \/ Overflows THEN current
         ELSE [current EXCEPT !.heap[Package.ptr][Top.index + 1] = TopOf(state.opstack).v]

\* The mode in which the top item wants code to be parsed, NONE when it wants none.
Mode ==
    LET unless(ready, mode) == IF ready THEN "NONE" ELSE mode
        exhausted == Blk.pc = Blk.limit
    IN  CASE Top.kind \in {"POPULATE", "METHOD"}  -> unless(exhausted, "EXEC")
          [] Top.kind \in {"LOOP", "COND"}        ->
               IF Top.branch THEN unless(exhausted, "EXEC") ELSE unless(Count = 1, "OBJECT")
          [] Top.kind \in {"BUFFER", "RETURN"}    -> unless(Count = 1, "OBJECT")
          [] Top.kind = "BANKFIELD"               -> unless(Count = 3, "OBJECT")
          [] Top.kind = "INVOKE"                  -> unless(Count = Top.argc + 1, "OBJECT")
          [] Top.kind \in {"NODE", "OP"}          ->
               IF Count = Len(Top.modes) THEN "NONE" ELSE Top.modes[Count + 1]
          [] Top.kind \in Packages /\ Top.phase = 0 ->
               IF Top.kind = "PACKAGE" THEN "BYTE" ELSE "OBJECT"
          [] Top.kind \in Packages /\ Top.phase = 1 -> "NONE"
          [] Top.kind \in Packages /\ Top.phase = 2 -> unless(exhausted \/ Overflows, "DATA")

-----------------------------------------------------------------------------
(* How a step ends.                                                        *)

Running == status = "run" /\ state.stack # << >>

Halt(e) ==
    /\ status' = "halt"
    /\ answer' = [e |-> e, v |-> NoData]
    /\ UNCHANGED <<code, state, mem, call, calls>>

\* lai_exec_run() goes on.  A push on a full stack is a panic.
Proceed(s, m) ==
    IF \E w \in Stacks : Len(s[w]) > s.cap[w] THEN Halt("PANIC")
    ELSE /\ state' = s
         /\ mem' = m
         /\ UNCHANGED <<code, status, answer, call, calls>>

\* An error ends lai_exec_run().  The state is thrown away; nodes and objects stay.
Raise(e, m) ==
    IF e \in {"PANIC", "UNDEFINED"} THEN Halt(e)
    ELSE /\ status' = "idle"
         /\ answer' = [e |-> e, v |-> NoData]
         /\ state' = lai_init_state
         /\ mem' = FinalizeState(m)
         /\ UNCHANGED <<code, call, calls>>

\* After an operation with the result r.
After(r, s) == IF r.e = "NONE" THEN Proceed(s, r.m) ELSE Raise(r.e, MemoryOf(r, M))
\* Variant: the result is pushed even when nobody wants it.
PushIf_Always(wanted, s, v) == Push(s, "opstack", Object(v))
PushIf(wanted, s, v) == IF wanted THEN Push(s, "opstack", Object(v)) ELSE s

-----------------------------------------------------------------------------
(***************************************************************************)
(* lai_exec_parse().  An item of a package counts its phase through a      *)
(* pointer into the stack that it took before: the count is lost when the  *)
(* stack has been moved.                                                   *)
(***************************************************************************)
Counted(s) ==
    LET i == Len(state.stack)
    IN  IF Top.kind \in Packages /\ Top.phase = 0 /\ s.cap.stack = state.cap.stack
          THEN [s EXCEPT !.stack[i].phase = 1] ELSE s

Parses == Running /\ Mode # "NONE" /\ Blk.pc < Blk.limit
ParsesToken(ops) == Parses /\ ~Immediate(Mode) /\ Token.op \in ops
Parsed(s, m) == Proceed(Counted(s), m)

\* The state with room on the given stacks and the counter behind the token.
Committed(stacks, pc) ==
    lai_exec_commit_pc(Reserve(S, stacks), pc)
Next1 == Blk.pc + 1
\* Variant: the length of a package is counted from behind its length field.
PastPackage_OneFurther == Blk.pc + 2 + Token.size
PastPackage == Blk.pc + 1 + Token.size

\* An operand of the current item.
Operand(operand) == Parsed(Push(Committed({"opstack"}, Next1), "opstack", operand), M)
\* A new item with the operands that follow, and one with a block of its own.
NewItem(item, s) == Parsed(Push(s, "stack", item), M)
WithBlock(s, pc, limit) == Push(s, "blkstack", [pc |-> pc, limit |-> limit])

ParseImmediate == Parses /\ Immediate(Mode) /\ Token.op = "Immediate" /\ Operand(Object(Integer(Token.n)))

-----------------------------------------------------------------------------
(* Names.                                                                  *)

ParsesName == ParsesToken({"Name"})
NameTarget == lai_do_resolve(M.ns, Ctx.handle, Token.name)
PastName == Committed({"opstack", "stack"}, Next1)
NameOperand(operand) == Parsed(Push(PastName, "opstack", operand), M)

ParseNameInData == ParsesName /\ Mode = "DATA" /\ NameOperand(Object(LazyHandle(Ctx.handle, Token.name)))

ParseNewName ==
    /\ ParsesName /\ Mode = "UNRESOLVED"
    /\ NameOperand([tag |-> "UNRESOLVED_NAME", ctx |-> Ctx.handle, name |-> Token.name])

ParseMissingName ==
    /\ ParsesName /\ Resolves(Mode) /\ NameTarget = NULL
    /\ IF Mode = "OPTIONAL" THEN NameOperand(Resolved(NULL)) ELSE Raise("UNEXPECTED_RESULT", M)

NamesMethod == NameTarget # NULL /\ M.ns.node[NameTarget].type = "METHOD"
ParseInvocation ==
    /\ ParsesName /\ Invokes(Mode) /\ NamesMethod
    /\ LET item == [kind |-> "INVOKE", frame |-> Frame(S), argc |-> M.ns.node[NameTarget].data.argc,
                    want |-> WantsResult(Mode)]
       IN  Parsed(Push(Push(PastName, "stack", item), "opstack", Resolved(NameTarget)), M)

\* The object of a name; reading a field is an access to the hardware.
ParseAccess ==
    /\ ParsesName /\ Invokes(Mode) /\ NameTarget # NULL /\ ~NamesMethod
    /\ \E m \in {M}, n \in {NameTarget} : \E r \in {lai_exec_access(m, n)} :
          IF r.e # "NONE" THEN Raise(r.e, M) ELSE Parsed(PushIf(WantsResult(Mode), PastName, r.v), r.m)

ParseReference == ParsesName /\ References(Mode) /\ NameTarget # NULL /\ NameOperand(Resolved(NameTarget))

-----------------------------------------------------------------------------
(* Constants, arguments and locals.                                        *)

ParseNop == ParsesToken({"Nop", "External", "BreakPoint"}) /\ Parsed(Committed({}, Next1), M)

ParseConstant ==
    /\ ParsesToken(Constants)
    /\ CASE Mode \in {"DATA", "OBJECT"}        -> Operand(Object(Integer(ConstantOf(Token))))
         [] References(Mode) /\ Token.op = "Zero"    -> Operand([tag |-> "NULL_NAME"])
         [] Mode = "EXEC"                      -> Parsed(Committed({"opstack"}, Next1), M)
         [] OTHER                              -> Halt("PANIC")

ParseString ==
    /\ ParsesToken({"String"})
    /\ LET r == lai_create_string(M, Token.s)
           s == Committed({"opstack"}, Next1)
       IN  CASE Mode \in {"DATA", "OBJECT"} -> Parsed(Push(s, "opstack", Object(r.v)), r.m)
             [] Mode = "EXEC"               -> Parsed(s, M)
             [] OTHER                       -> Halt("PANIC")

ParseVariable ==
    /\ ParsesToken({"Arg", "Local"})
    /\ LET arg == Token.op = "Arg"
           inv == M.inv[Ctx.inv]
       IN  IF References(Mode)
             THEN Operand([tag |-> IF arg THEN "ARG_NAME" ELSE "LOCAL_NAME", index |-> Token.i])
           ELSE IF Mode # "OBJECT" \/ Ctx.inv = 0 THEN Halt("PANIC")
           ELSE Operand(Object(IF arg THEN inv.arg[Token.i] ELSE inv.local[Token.i]))

ParseDebug ==
    ParsesToken({"Debug"}) /\ IF References(Mode) THEN Operand([tag |-> "DEBUG_NAME"]) ELSE Halt("PANIC")

-----------------------------------------------------------------------------
(* Buffers and packages.                                                   *)

ParseBuffer ==
    /\ ParsesToken({"Buffer"})
    /\ LET s == Committed({"blkstack", "stack"}, PastPackage)
       IN  NewItem([kind |-> "BUFFER", frame |-> Frame(s), want |-> WantsResult(Mode)],
                   WithBlock(s, Next1, PastPackage))

\* The package itself is the first operand, an empty object as long as its size is unknown.
ParsePackage ==
    /\ ParsesToken({"Package", "VarPackage"})
    /\ LET s    == Committed({"opstack", "blkstack", "stack"}, PastPackage)
           kind == IF Token.op = "Package" THEN "PACKAGE" ELSE "VARPACKAGE"
           item == [kind |-> kind, frame |-> Frame(s), index |-> 0, phase |-> 0, want |-> WantsResult(Mode)]
       IN  NewItem(item, Push(WithBlock(s, Next1, PastPackage), "opstack", Object(NoData)))

-----------------------------------------------------------------------------
(* Control flow.                                                           *)

ParseReturn ==
    /\ ParsesToken({"Return"})
    /\ LET s == Committed({"stack"}, Next1) IN NewItem([kind |-> "RETURN", frame |-> Frame(s)], s)

ParseWhile ==
    /\ ParsesToken({"While"})
    /\ LET s == Committed({"blkstack", "stack"}, PastPackage)
       IN  NewItem([kind |-> "LOOP", frame |-> Frame(s), branch |-> FALSE, pred |-> Next1],
                   WithBlock(s, Next1, PastPackage))

\* An Else is parsed with the If in front of it.
ParseIf ==
    /\ ParsesToken({"If"})
    /\ LET else == PastPackage < Blk.limit /\ code[PastPackage].op = "Else"
           past == IF else THEN PastPackage + 1 + code[PastPackage].size ELSE PastPackage
           s    == Committed({"blkstack", "stack"}, past)
           item == [kind |-> "COND", frame |-> Frame(s), branch |-> FALSE, else |-> else,
                    else_pc |-> PastPackage + 1, else_limit |-> past]
       IN  NewItem(item, WithBlock(s, Next1, PastPackage))

ParseElse == ParsesToken({"Else"}) /\ Halt("PANIC")

\* How many conditions lie on top of the innermost item of a kind; -1 if there is something
\* else above it, or no such item.
Nested(kind, stack) ==
    LET item(i) == stack[Len(stack) - i]
        depths  == {n \in 0 .. Len(stack) - 1 :
                       item(n).kind = kind /\ \A i \in 0 .. n - 1 : item(i).kind \in {"COND", "LOOP"}}
    IN  IF depths = {} THEN -1 ELSE CHOOSE n \in depths : \A k \in depths : n <= k
\* Variant: the blocks of what is left stay on their stack.
Unnest_BlocksStay(s, n) == Pop(s, "stack", n)
Unnest(s, n) == Pop(Pop(s, "blkstack", n), "stack", n)

\* The counter that Continue computes is not committed.
ParseContinue ==
    /\ ParsesToken({"Continue"})
    /\ LET n == Nested("LOOP", S.stack) IN IF n < 0 THEN Halt("PANIC") ELSE Parsed(Unnest(S, n), M)

ParseBreak ==
    /\ ParsesToken({"Break"})
    /\ LET n == Nested("LOOP", S.stack) IN IF n < 0 THEN Halt("PANIC") ELSE Parsed(Unnest(S, n + 1), M)

-----------------------------------------------------------------------------
(* Declarations.  A new node is put into the namespace at once; only then  *)
(* may the declaration go on.                                              *)

\* A node is also listed with the invocation that made it, so that it is taken out again.
Declare(type, data, s) == After(Install(M, Ctx.handle, Token.name, type, data), s)

Populate(s, handle) ==
    Push(Push(WithBlock(s, Next1, PastPackage), "ctxstack", [handle |-> handle, inv |-> 0]),
         "stack", [kind |-> "POPULATE", frame |-> 0])
RoomForScope == Committed({"ctxstack", "blkstack", "stack"}, PastPackage)

ParseScope ==
    /\ ParsesToken({"Scope"})
    /\ IF NameTarget = NULL THEN Raise("UNEXPECTED_RESULT", M)
       ELSE Parsed(Populate(RoomForScope, NameTarget), M)

ParseScopeObject ==
    /\ ParsesToken(DOMAIN ScopeTypes)
    /\ Declare(ScopeTypes[Token.op], NoData, Populate(RoomForScope, Len(M.ns.node) + 1))

ParseMethod ==
    /\ ParsesToken({"Method"})
    /\ Declare("METHOD", Method(Next1, PastPackage, Token.argc), Committed({}, PastPackage))

ParseSync == ParsesToken(DOMAIN SyncTypes) /\ Declare(SyncTypes[Token.op], NewSync, Committed({}, Next1))

ParseAlias == ParsesToken({"Alias"}) /\ After(InstallAlias(M, Ctx.handle, Token), Committed({}, Next1))

ParseNode ==
    /\ ParsesToken(DOMAIN NodeModes)
    /\ LET s == Committed({"stack"}, Next1)
       IN  NewItem([kind |-> "NODE", frame |-> Frame(s), op |-> Token.op, modes |-> NodeModes[Token.op]], s)

ParseField == ParsesToken({"Field"}) /\ After(InstallField(M, Ctx.handle, Token), Committed({}, Next1))

ParseIndexField ==
    ParsesToken({"IndexField"}) /\ After(InstallIndexField(M, Ctx.handle, Token), Committed({}, Next1))

\* The value of the bank is evaluated before the fields are made.  Room for two operands is
\* asked for one at a time, and only one is made.
ParseBankField ==
    /\ ParsesToken({"BankField"})
    /\ LET region == lai_do_resolve(M.ns, Ctx.handle, Token.region)
           bank   == lai_do_resolve(M.ns, Ctx.handle, Token.bank)
           s      == Committed({"blkstack", "stack", "opstack"}, PastPackage)
       IN  IF region = NULL \/ bank = NULL THEN Halt("PANIC")
           ELSE NewItem([kind |-> "BANKFIELD", frame |-> Frame(s)],
                        Push(Push(WithBlock(s, Next1, PastPackage), "opstack", Resolved(region)),
                             "opstack", Resolved(bank)))

ParseOperator ==
    /\ ParsesToken(DOMAIN OpModes)
    /\ LET s == Committed({"stack"}, Next1)
       IN  NewItem([kind |-> "OP", frame |-> Frame(s), op |-> Token.op, modes |-> OpModes[Token.op],
                    want |-> WantsResult(Mode)], s)

-----------------------------------------------------------------------------
(***************************************************************************)
(* lai_exec_process(): items that have what they need.                     *)
(***************************************************************************)
Reduces(kinds) == Running /\ Top.kind \in kinds /\ Mode = "NONE"
Done(s) == Pop(s, "stack", 1)
DoneWithBlock(s) == Unnest(s, 1)

EndPopulate == Reduces({"POPULATE"}) /\ Proceed(Pop(DoneWithBlock(S), "ctxstack", 1), M)

\* A method that ends without a Return gives 0.
EndMethod ==
    /\ Reduces({"METHOD"})
    /\ IF S.opstack # << >> THEN Halt("PANIC")
       ELSE Proceed(PushIf(Top.want, Pop(DoneWithBlock(Reserve(S, {"opstack"})), "ctxstack", 1), Integer(0)),
                    EndInvocation(M, Ctx.inv))

\* The size is not checked to be an integer.
ReduceBuffer ==
    /\ Reduces({"BUFFER"})
    /\ LET size == IntegerOf(Operands[1].v)
           data == Initializers(code, Blk.pc, Blk.limit)
           r    == lai_create_buffer(M, Fit(data, size))
       IN  IF Len(data) > size THEN Halt("PANIC")
           ELSE Proceed(PushIf(Top.want, Pop(DoneWithBlock(S), "opstack", 1), r.v), r.m)

\* The object of the package takes the place of the empty one.
CreatePackage ==
    /\ Reduces(Packages) /\ Top.phase = 1
    /\ LET size == lai_exec_get_integer(M, Operands[2])
           r    == lai_create_pkg(M, size.v.n)
           s    == Pop(S, "opstack", 1)
       IN  IF size.e # "NONE" THEN Raise(size.e, M)
           ELSE Proceed([s EXCEPT !.opstack[Top.frame + 1] = Object(r.v), !.stack[Len(s.stack)].phase = 2], r.m)

EndPackage ==
    /\ Reduces(Packages) /\ Top.phase = 2
    /\ IF Overflows THEN Halt("PANIC")
       ELSE Proceed(IF Top.want THEN DoneWithBlock(S) ELSE Pop(DoneWithBlock(S), "opstack", 1), M)

\* What happens to a node is not looked at.
ReduceNode ==
    /\ Reduces({"NODE"})
    /\ \E m \in {M}, o \in {Operands} : \E r \in {lai_exec_reduce_node(Top.op, m, o, Ctx.handle)} :
          IF r.e \in {"PANIC", "UNDEFINED"} THEN Halt(r.e)
          ELSE Proceed(Pop(Done(S), "opstack", Count), MemoryOf(r, M))

ReduceOperator ==
    /\ Reduces({"OP"})
    /\ \E m \in {M}, o \in {Operands} : \E r \in {lai_exec_reduce_op(Top.op, m, o)} :
          After(r, PushIf(Top.want, Pop(Done(Reserve(S, {"opstack"})), "opstack", Count), r.v))

-----------------------------------------------------------------------------
\* The arguments are the objects on the stack; a method of the host answers at once.
InvokeMethod ==
    /\ Reduces({"INVOKE"})
    /\ LET n    == Operands[1].node
           node == M.ns.node[n]
           args == [i \in 1 .. Top.argc |-> Operands[i + 1].v]
           s    == Pop(Done(Reserve(S, {"ctxstack", "blkstack"})), "opstack", Count)
           r    == HostResult(M, node.name, args)
           m    == NewInvocation(M, args)
           item == [kind |-> "METHOD", frame |-> 0, want |-> Top.want]
       IN  IF node.data.override
             THEN IF r.e # "NONE" THEN Raise(r.e, M) ELSE Proceed(PushIf(Top.want, s, r.v), r.m)
             ELSE Proceed(Push(Push(WithBlock(s, node.data.pc, node.data.limit),
                                    "ctxstack", [handle |-> n, inv |-> Len(m.inv)]), "stack", item), m)

\* Return leaves the conditions and loops that it is in.
ReduceReturn ==
    /\ Reduces({"RETURN"})
    /\ LET s == Done(Pop(S, "opstack", 1))
           n == Nested("METHOD", s.stack)
           method == s.stack[Len(s.stack) - n]
           r == IF method.want THEN lai_obj_clone(M, Operands[1].v) ELSE Res(M, NoData)
       IN  IF n < 0 THEN Halt("PANIC")
           ELSE Proceed(Pop(Unnest(PushIf(method.want, s, r.v), n + 1), "ctxstack", 1),
                        EndInvocation(r.m, Ctx.inv))

\* The predicate of a loop or a condition.
Decides(kind) == Reduces({kind}) /\ ~Top.branch
Predicate == lai_exec_get_integer(M, Operands[1])
Branch(s) == [s EXCEPT !.stack[Len(s.stack)].branch = TRUE]

DecideLoop ==
    /\ Decides("LOOP")
    /\ LET s == Pop(S, "opstack", 1)
       IN  IF Predicate.e # "NONE" THEN Raise(Predicate.e, M)
           ELSE Proceed(IF Predicate.v.n # 0 THEN Branch(s) ELSE DoneWithBlock(s), M)

IterateLoop ==
    /\ Reduces({"LOOP"}) /\ Top.branch
    /\ Proceed(lai_exec_commit_pc([S EXCEPT !.stack[Len(S.stack)].branch = FALSE], Top.pred), M)

DecideCondition ==
    /\ Decides("COND")
    /\ LET s == Pop(S, "opstack", 1)
           else == [s EXCEPT !.blkstack[Len(s.blkstack)] = [pc |-> Top.else_pc, limit |-> Top.else_limit]]
       IN  IF Predicate.e # "NONE" THEN Raise(Predicate.e, M)
           ELSE Proceed(CASE Predicate.v.n # 0 -> Branch(s)
                          [] Predicate.v.n = 0 /\ Top.else -> Branch(else)
                          [] OTHER -> DoneWithBlock(s), M)

EndCondition == Reduces({"COND"}) /\ Top.branch /\ Proceed(DoneWithBlock(S), M)

ReduceBankField ==
    /\ Reduces({"BANKFIELD"})
    /\ LET value == lai_exec_get_integer(M, Operands[3])
           r == InstallBankField(M, Ctx.handle, Operands[1].node, Operands[2].node, value.v.n, Token)
       IN  IF value.e # "NONE" THEN Raise(value.e, M)
           ELSE After(r, DoneWithBlock(Pop(S, "opstack", 3)))

\* An item that wants code at the end of its block.
Escape == Running /\ Mode # "NONE" /\ Blk.pc >= Blk.limit /\ Halt("PANIC")

-----------------------------------------------------------------------------
(***************************************************************************)
(* The callers: lai_create_namespace() loads the table, and the kernel     *)
(* evaluates what it finds there.                                          *)
(***************************************************************************)
Begin(s, m) == state' = s /\ mem' = m /\ status' = "run" /\ UNCHANGED <<code, answer>>

lai_populate ==
    /\ status = "start"
    /\ LET s == [lai_init_state EXCEPT !.ctxstack = <<[handle |-> Root, inv |-> 0]>>,
                                       !.blkstack = <<[pc |-> 1, limit |-> Len(code) + 1]>>]
       IN  Begin(Push(s, "stack", [kind |-> "POPULATE", frame |-> 0]), mem)
    /\ call' = [phase |-> "start", mem |-> mem]
    /\ UNCHANGED calls

Answer(r) ==
    /\ status' = IF r.e = "PANIC" THEN "halt" ELSE "idle"
    /\ answer' = [e |-> r.e, v |-> r.v]
    /\ mem' = MemoryOf(r, mem)
    /\ UNCHANGED <<code, state>>

\* A Name gives a copy of its object, a method runs, and nothing else can be evaluated.
lai_eval_args(c) ==
    /\ status = "idle" /\ calls < MaxCalls[code]
    /\ calls' = calls + 1
    /\ call' = [phase |-> "idle", mem |-> [mem EXCEPT !.cur = 0]]
    /\ LET n    == lai_resolve_path(mem.ns, Root, c.path)
           node == mem.ns.node[n]
           m    == NewInvocation(mem, c.args)
           s    == [lai_init_state EXCEPT !.ctxstack = <<[handle |-> n, inv |-> Len(m.inv)]>>,
                                          !.blkstack = <<[pc |-> node.data.pc, limit |-> node.data.limit]>>]
       IN  /\ n # NULL
           /\ CASE node.type = "METHOD" /\ ~node.data.override ->
                      Begin(Push(s, "stack", [kind |-> "METHOD", frame |-> 0, want |-> TRUE]), m)
                [] node.type = "METHOD" /\ node.data.override -> Answer(HostResult(mem, node.name, c.args))
                [] node.type = "NAME" /\ c.args = << >>       -> Answer(lai_obj_clone(mem, node.data))
                [] OTHER                                       -> Answer(Fail("TYPE_MISMATCH"))

\* lai_exec_run() returns: after lai_populate() without a result, after lai_eval_args()
\* with exactly one.
Finish ==
    /\ status = "run" /\ state.stack = << >>
    /\ IF Len(state.opstack) # (IF call.phase = "start" THEN 0 ELSE 1) THEN Halt("PANIC")
       ELSE LET r == IF call.phase = "start" THEN Res(mem, NoData) ELSE lai_obj_clone(mem, state.opstack[1].v)
            IN  /\ status' = "idle"
                /\ answer' = [e |-> "NONE", v |-> r.v]
                /\ mem' = r.m
                /\ state' = lai_init_state
                /\ UNCHANGED <<code, call, calls>>

-----------------------------------------------------------------------------
Init ==
    /\ code \in Programs
    /\ state = lai_init_state
    /\ mem = InitialMemory
    /\ status = "start"
    /\ answer = [e |-> "NONE", v |-> NoData]
    /\ call = [phase |-> "start", mem |-> InitialMemory]
    /\ calls = 0

lai_exec_parse ==
    \/ ParseImmediate
    \/ ParseNameInData \/ ParseNewName \/ ParseMissingName \/ ParseInvocation \/ ParseAccess \/ ParseReference
    \/ ParseNop \/ ParseConstant \/ ParseString \/ ParseVariable \/ ParseDebug
    \/ ParseBuffer \/ ParsePackage
    \/ ParseReturn \/ ParseWhile \/ ParseIf \/ ParseElse \/ ParseContinue \/ ParseBreak
    \/ ParseScope \/ ParseScopeObject \/ ParseMethod \/ ParseSync \/ ParseAlias \/ ParseNode
    \/ ParseField \/ ParseIndexField \/ ParseBankField
    \/ ParseOperator

lai_exec_process ==
    \/ lai_exec_parse \/ Escape
    \/ EndPopulate \/ EndMethod
    \/ ReduceBuffer \/ CreatePackage \/ EndPackage
    \/ ReduceNode \/ ReduceOperator \/ InvokeMethod \/ ReduceReturn
    \/ DecideLoop \/ IterateLoop \/ DecideCondition \/ EndCondition
    \/ ReduceBankField

\* No more calls, or none after a panic.
Rest == status \in {"idle", "halt"} /\ (status = "idle" => calls = MaxCalls[code]) /\ UNCHANGED vars

Next == lai_populate \/ lai_exec_process \/ Finish \/ (\E c \in Calls : lai_eval_args(c)) \/ Rest

\* The loop of lai_exec_run() waits for nothing.
Spec == Init /\ [][Next]_vars /\ WF_vars(lai_exec_process \/ Finish)

-----------------------------------------------------------------------------
(***************************************************************************)
(* The operands of an item lie between its frame and that of the item      *)
(* above it, each has been made in the mode that the item asked for, and   *)
(* one is missing as long as there is something above the item: what a     *)
(* nested operator or method leaves is exactly one operand on its place.   *)
(***************************************************************************)
TagsOf(mode) ==
    CASE mode \in {"OBJECT", "DATA"} -> {"OBJECT"}
      [] mode = "UNRESOLVED" -> {"UNRESOLVED_NAME"}
      [] References(mode) -> {"RESOLVED_NAME", "ARG_NAME", "LOCAL_NAME", "NULL_NAME", "DEBUG_NAME", "OBJECT"}
      [] Immediate(mode) -> {"OBJECT"}
WithOperands == {i \in DOMAIN state.stack : state.stack[i].kind \in {"OP", "NODE", "INVOKE"}}
FrameAbove(i) ==
    LET framed == {j \in DOMAIN state.stack : j > i /\ state.stack[j].kind \notin {"POPULATE", "METHOD"}}
    IN  IF framed = {} THEN Len(state.opstack) ELSE state.stack[CHOOSE j \in framed : \A k \in framed : j <= k].frame
ModesOf(item) ==
    IF item.kind = "INVOKE" THEN [k \in 1 .. item.argc + 1 |-> IF k = 1 THEN "REFERENCE" ELSE "OBJECT"] ELSE item.modes
OperandsFit ==
    \A i \in WithOperands :
        LET item == state.stack[i]
            operands == SubSeq(state.opstack, item.frame + 1, FrameAbove(i))
        IN  /\ Len(operands) <= Len(ModesOf(item)) - (IF i < Len(state.stack) THEN 1 ELSE 0)
            /\ \A k \in DOMAIN operands : operands[k].tag \in TagsOf(ModesOf(item)[k])

\* Every scope and method on the execution stack has a context, and everything with code of
\* its own a block: a Return or Break out of the middle takes as many of each as it leaves.
\* So there is a context and a block whenever an item is processed, which lai_exec_process()
\* and lai_exec_parse() assert.
WithContext == {"POPULATE", "METHOD"}
WithCode == WithContext \cup {"LOOP", "COND", "BUFFER", "BANKFIELD"} \cup Packages
Items(stack, kinds) == {i \in DOMAIN stack : stack[i].kind \in kinds}
StacksAgree ==
    /\ Cardinality(Items(state.stack, WithContext)) = Len(state.ctxstack)
    /\ Cardinality(Items(state.stack, WithCode)) = Len(state.blkstack)
    /\ state.stack # << >> => state.ctxstack # << >> /\ state.blkstack # << >>
    /\ status = "idle" => state = lai_init_state

\* A call that succeeds leaves the names as it found them: those that its methods have made
\* are gone, and no other.  A method makes its names in its own context.
MethodNodesGone ==
    [][status = "run" /\ call.phase = "idle" /\ status' = "idle" /\ answer'.e = "NONE" =>
         mem'.ns.linked = call.mem.ns.linked]_vars

TypeOK ==
    /\ status \in {"start", "run", "idle", "halt"}
    /\ \A w \in Stacks : Len(state[w]) <= state.cap[w]
    /\ \A i \in DOMAIN state.blkstack : state.blkstack[i].pc <= state.blkstack[i].limit

ListsEveryName == LinkedAreListedIn(mem.ns)

\* Every call is answered: a method that ends by its code ends in the interpreter.
Answered == (status = "run") ~> (status # "run")
=============================================================================
