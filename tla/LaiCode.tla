------------------------------- MODULE LaiCode ------------------------------
(***************************************************************************)
(* AML byte code as the interpreter of LAI takes it (lai/core/exec.c):     *)
(* the tokens, the modes in which operands are evaluated, and what a       *)
(* declaration does once its code is parsed.                               *)
(*                                                                         *)
(* Code is a sequence of tokens: an opcode with the immediate data that is *)
(* parsed together with it; `size` is the number of tokens in the package  *)
(* of an opcode that has one.  The interpreter is given code that a        *)
(* compiler could have made.                                               *)
(***************************************************************************)
EXTENDS LaiReduce

LOCAL INSTANCE SequencesExt
LOCAL INSTANCE TLC

\* The memory at boot: the root and the predefined names.
InitialMemory == [heap |-> << >>, ns |-> lai_create_root, inv |-> << >>, cur |-> 0, io |-> {}]
\* The memory after an operation on m that may have failed.
MemoryOf(r, m) == IF "heap" \in DOMAIN r.m THEN r.m ELSE m

-----------------------------------------------------------------------------
(* Operands.                                                               *)

\* The modes: what lai_mode_flags says of them.
Resolves(mode) == mode \in {"EXEC", "OBJECT", "REFERENCE", "OPTIONAL"}
Invokes(mode) == mode \in {"EXEC", "OBJECT"}
References(mode) == mode \in {"REFERENCE", "OPTIONAL"}
Immediate(mode) == mode \in {"BYTE", "WORD", "DWORD"}
WantsResult(mode) == mode # "EXEC"

Constants == {"Zero", "One", "Ones", "Revision", "Const"}
LAI_REVISION == 538969874
ConstantOf(token) ==
    CASE token.op = "Zero"     -> 0
      [] token.op = "One"      -> 1
      [] token.op = "Ones"     -> Ones
      [] token.op = "Revision" -> Wrap(LAI_REVISION)
      [] token.op = "Const"    -> token.n

\* The modes of the operands of each operator.
Each(ops, modes) == [op \in ops |-> modes]
ConversionModes ==
       Each({"ToBuffer", "ToDecimalString", "ToHexString", "ToInteger"}, <<"OBJECT", "REFERENCE">>)
    @@ [ToString |-> <<"OBJECT", "OBJECT", "REFERENCE">>,
        Mid      |-> <<"OBJECT", "OBJECT", "OBJECT", "REFERENCE">>,
        Fatal    |-> <<"BYTE", "DWORD", "OBJECT">>]
CopyModes == Each({"Store", "CopyObject", "Not", "FindSetLeftBit", "FindSetRightBit"}, <<"OBJECT", "REFERENCE">>)
ArithmeticModes ==
       Each(ArithmeticOps \cup {"Concat"}, <<"OBJECT", "OBJECT", "REFERENCE">>)
    @@ Each({"Increment", "Decrement"}, <<"REFERENCE">>)
    @@ [Divide |-> <<"OBJECT", "OBJECT", "REFERENCE", "REFERENCE">>]
LogicModes ==
       Each({"LAnd", "LOr", "LEqual", "LLess", "LGreater"}, <<"OBJECT", "OBJECT">>)
    @@ Each({"Index", "ConcatRes"}, <<"OBJECT", "OBJECT", "REFERENCE">>)
    @@ [LNot       |-> <<"OBJECT">>,
        ObjectType |-> <<"REFERENCE">>,
        Match      |-> <<"OBJECT", "BYTE", "OBJECT", "BYTE", "OBJECT", "OBJECT">>]
ReferenceModes ==
       Each({"DerefOf", "SizeOf", "Stall", "Sleep"}, <<"OBJECT">>)
    @@ [RefOf     |-> <<"REFERENCE">>,
        Notify    |-> <<"REFERENCE", "OBJECT">>,
        CondRefOf |-> <<"OPTIONAL", "REFERENCE">>]
SyncModes ==
       Each({"Release", "Signal", "Reset"}, <<"REFERENCE">>)
    @@ Each({"FromBCD", "ToBCD"}, <<"OBJECT", "REFERENCE">>)
    @@ [Acquire |-> <<"REFERENCE", "WORD">>, Wait |-> <<"REFERENCE", "OBJECT">>]
OpModes == ConversionModes @@ CopyModes @@ ArithmeticModes @@ LogicModes @@ ReferenceModes @@ SyncModes

\* The same for the namespace nodes whose operands are evaluated first.
NodeModes ==
       Each({"BitField", "ByteField", "WordField", "DWordField", "QWordField"},
            <<"REFERENCE", "OBJECT", "UNRESOLVED">>)
    @@ [NameOp   |-> <<"UNRESOLVED", "OBJECT">>,
        ArbField |-> <<"REFERENCE", "OBJECT", "OBJECT", "UNRESOLVED">>,
        OpRegion |-> <<"UNRESOLVED", "BYTE", "OBJECT", "OBJECT">>]

\* The content of a buffer: its initializers and zeroes.
Initializers(code, pc, limit) == FlattenSeq([i \in 1 .. limit - pc |-> code[pc + i - 1].bytes])

-----------------------------------------------------------------------------
(* Methods.                                                                *)

NewInvocation(m, args) ==
    [m EXCEPT !.inv = Append(@, [arg   |-> [i \in 1 .. 7 |-> IF i <= Len(args) THEN args[i] ELSE NoData],
                                 local |-> [i \in 1 .. 8 |-> NoData],
                                 live  |-> TRUE, nodes |-> << >>])]

\* Variant: the nodes of the method are only dropped from its list.
EndInvocation_NodesStay(m, i) == [m EXCEPT !.inv[i].nodes = << >>, !.inv[i].live = FALSE]
\* When a method ends its nodes go, and its invocation is freed.
EndInvocation(m, i) ==
    [m EXCEPT !.ns = lai_uninstall_nsnode(@, ToSet(m.inv[i].nodes)),
              !.inv[i].nodes = << >>, !.inv[i].live = FALSE]

\* After an error lai_finalize_state() frees all invocations; their nodes stay.
FinalizeState(m) == [m EXCEPT !.inv = [i \in DOMAIN @ |-> [@[i] EXCEPT !.live = FALSE]]]

\* The methods of the operating system.  One text stands for the names of the versions of
\* Windows, and one for the name that _OS_ gives.
SupportedOsi == {<<87>>}
HostResult(m, name, args) ==
    CASE name = "_OSI" /\ args[1].type # "STRING" -> Fail("PANIC")
      [] name = "_OSI" /\ args[1].type = "STRING" ->
           Res(m, Integer(IF Str(m, args[1]) \in SupportedOsi THEN Ones ELSE 0))
      [] name = "_OS_" -> lai_create_string(m, <<77>>)
      [] name = "_REV" -> Res(m, Integer(2))

-----------------------------------------------------------------------------
(* Declarations.                                                           *)

ScopeTypes == [Device |-> "DEVICE", Processor |-> "PROCESSOR", PowerRes |-> "POWERRESOURCE",
               ThermalZone |-> "THERMALZONE"]

\* Mutexes and events: a counter behind the node.
SyncTypes == [Mutex |-> "MUTEX", Event |-> "EVENT"]
NewSync == [type |-> "SYNC", val |-> 0]

InstallAlias(m, handle, token) ==
    LET target == lai_do_resolve(m.ns, handle, token.target)
    IN  IF target = NULL THEN Fail("PANIC")
        ELSE Install(m, handle, token.name, "ALIAS", [type |-> "ALIAS", target |-> target])

RegionOf(m, n) ==
    LET region == m.ns.node[n].data
        space  == IF region.space \in 0 .. 2 THEN <<"MEMORY", "IO", "PCI">>[region.space + 1] ELSE "OTHER"
    IN  [space |-> space, unit |-> << >>, base |-> region.base, node |-> n]

(***************************************************************************)
(* The list of a Field, IndexField or BankField names the fields one after *)
(* the other; entries without a name skip bits or change the access.       *)
(* `source` says what the fields are in.  A name that cannot be installed  *)
(* ends the declaration: the fields before it stay.                        *)
(***************************************************************************)
InstallFields(m, handle, type, source, token) ==
    LET install(acc, entry) ==
          CASE acc.r.e # "NONE"      -> acc
            [] acc.r.e = "NONE" /\ entry.kind = "skip"   -> [acc EXCEPT !.offset = @ + entry.size]
            [] acc.r.e = "NONE" /\ entry.kind = "access" ->
                 [acc EXCEPT !.access = entry.access, !.update = "PRESERVE"]
            [] acc.r.e = "NONE" /\ entry.kind = "field"  ->
                 LET f == [type |-> type, access |-> acc.access, update |-> acc.update,
                           offset |-> acc.offset, size |-> entry.size]
                 IN  [acc EXCEPT !.r = Install(acc.r.m, handle, entry.name, type, f @@ source),
                                 !.offset = @ + entry.size]
        start == [r |-> Res(m, NoData), offset |-> 0, access |-> token.access, update |-> token.update]
    IN  FoldLeft(install, start, token.fields).r

\* What a field is in is looked up when it is declared.
InstallField(m, handle, token) ==
    LET region == lai_do_resolve(m.ns, handle, token.region)
    IN  IF region = NULL THEN Fail("PANIC")
        ELSE InstallFields(m, handle, "FIELD", [region |-> RegionOf(m, region)], token)

InstallIndexField(m, handle, token) ==
    LET index == lai_do_resolve(m.ns, handle, token.index)
        data  == lai_do_resolve(m.ns, handle, token.data)
    IN  IF index = NULL \/ data = NULL THEN Fail("PANIC")
        ELSE InstallFields(m, handle, "INDEXFIELD",
                           [index |-> m.ns.node[index].data, data |-> m.ns.node[data].data], token)

InstallBankField(m, handle, region, bank, value, list) ==
    InstallFields(m, handle, "BANKFIELD",
                  [region |-> RegionOf(m, region), bank |-> m.ns.node[bank].data, value |-> value], list)
=============================================================================
