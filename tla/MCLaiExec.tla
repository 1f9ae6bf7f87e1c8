----------------------------- MODULE MCLaiExec ------------------------------
(***************************************************************************)
(* AML programs for LaiExec, built from tokens the way a compiler does:    *)
(* the size of a package is the number of tokens in it.                    *)
(***************************************************************************)
EXTENDS LaiEvaluation

LOCAL INSTANCE SequencesExt
LOCAL INSTANCE TLC

Rel(segs) == [is_absolute |-> FALSE, height |-> 0, segs |-> segs]
Abs(segs) == [is_absolute |-> TRUE, height |-> 0, segs |-> segs]
Up(segs) == [is_absolute |-> FALSE, height |-> 1, segs |-> segs]

\* Operands.
Name(amln) == <<[op |-> "Name", name |-> amln]>>
N(seg) == Name(Rel(<<seg>>))
K(n) == <<[op |-> "Const", n |-> n]>>
Imm(n) == <<[op |-> "Immediate", n |-> n]>>
Text(s) == <<[op |-> "String", s |-> s]>>
L(i) == <<[op |-> "Local", i |-> i]>>
A(i) == <<[op |-> "Arg", i |-> i]>>
C0(op) == <<[op |-> op]>>
Zero == C0("Zero")
One == C0("One")
Nowhere == Zero
Debug == C0("Debug")
Op(op, args) == C0(op) \o FlattenSeq(args)

\* Packages.
Sized_(t, body) == <<t @@ [size |-> Len(body)]>> \o body
Bytes(s) == <<[op |-> "Data", bytes |-> s]>>
Buffer(size, s) == Sized_([op |-> "Buffer"], size \o Bytes(s))
Package_(n, elems) == Sized_([op |-> "Package"], Imm(n) \o FlattenSeq(elems))
VarPackage(n, elems) == Sized_([op |-> "VarPackage"], n \o FlattenSeq(elems))
While(pred, body) == Sized_([op |-> "While"], pred \o FlattenSeq(body))
If(pred, body) == Sized_([op |-> "If"], pred \o FlattenSeq(body))
Else(body) == Sized_([op |-> "Else"], FlattenSeq(body))
Return(v) == C0("Return") \o v
Method_(name, argc, body) == Sized_([op |-> "Method", name |-> Rel(<<name>>), argc |-> argc], FlattenSeq(body))
Within_(op, name, body) == Sized_([op |-> op, name |-> name], FlattenSeq(body))
NameOp(name, v) == C0("NameOp") \o Name(name) \o v
Named(op, name) == <<[op |-> op, name |-> Rel(<<name>>)]>>
Alias(seg, target) == <<Named("Alias", seg)[1] @@ [target |-> Rel(<<target>>)]>>
Store(v, target) == C0("Store") \o v \o target
Add(v, w, target) == Op("Add", <<v, w, target>>)

-----------------------------------------------------------------------------
Main(argc, body) == Method_("T", argc, body)
\* Counts a local variable up to a bound.
For(i, bound, body) ==
    Store(Zero, L(i)) \o While(Op("LLess", <<L(i), bound>>), Append(body, Op("Increment", <<L(i)>>)))

-----------------------------------------------------------------------------
(* Control flow.                                                           *)

Loops ==
    NameOp(Rel(<<"X">>), Zero)
    \o Main(1, <<
         Store(Zero, L(2)),
         While(Op("LLess", <<L(2), A(1)>>), <<
           Op("Increment", <<L(2)>>),
           If(Op("LEqual", <<L(2), K(3)>>), <<C0("Break")>>), Else(<<Op("Increment", <<N("X")>>)>>),
           If(Op("LEqual", <<L(2), K(1)>>), <<C0("Continue")>>)>>),
         Return(Add(L(2), N("X"), Nowhere))>>)

Recursion ==
    Main(1, <<
      If(Op("LLess", <<A(1), K(2)>>), <<Return(One)>>),
      Return(Op("Multiply", <<A(1), N("T") \o Op("Subtract", <<A(1), One, Nowhere>>), Nowhere>>))>>)

\* Bodies of a loop from a pool of statements, with what surrounds them kept the same.
Statements == {
    Op("Increment", <<N("X")>>),
    Store(N("F") \o N("X"), N("X")),
    If(Op("LEqual", <<N("X"), A(1)>>), <<Return(Add(N("X"), K(7), Nowhere))>>),
    If(Op("LGreater", <<N("F") \o L(1), K(1)>>), <<C0("Break")>>) \o Else(<<Store(L(1), N("Y"))>>),
    For(2, K(2), <<Op("LAnd", <<N("X"), Op("Increment", <<N("Y")>>)>>)>>),
    Store(Package_(2, <<K(4), N("X")>>), L(3)) \o NameOp(Rel(<<"Z">>), Op("SizeOf", <<L(3)>>))}
Bodies == {
    NameOp(Rel(<<"X">>), Zero) \o NameOp(Rel(<<"Y">>), Zero)
    \o Method_("F", 1, <<
         If(Op("LNot", <<A(1)>>), <<Return(One)>>),
         Store(A(1), L(1)), Op("Increment", <<L(1)>>),
         Return(Add(A(1), A(1), A(1)))>>)
    \o Main(1, <<For(1, K(3), <<first, second>>), Return(Add(N("X"), N("Y"), Nowhere))>>) :
    first, second \in Statements}

\* Methods that end without a value, in the middle, or with an error.
Endings ==
    NameOp(Rel(<<"X">>), Zero)
    \o Method_("G", 0, <<Store(K(3), N("X"))>>)
    \o Method_("E", 2, <<
         NameOp(Rel(<<"X">>), A(1)),
         If(A(1), <<Return(A(2))>>), Else(<<Store(N("MISS"), Debug)>>)>>)
    \o Main(2, <<
         C0("Nop"), C0("External"), C0("BreakPoint"),
         N("G"), Zero, Text(<<65>>), Op("LNot", <<One>>), Buffer(K(1), << >>), Package_(1, <<One>>),
         N("E") \o A(1) \o N("X")>>)

Panics == {
    Return(One),
    Else(<<One>>),
    Main(0, <<C0("Break")>>),
    Main(0, <<C0("Continue")>>),
    Main(0, <<C0("Return")>>),
    Main(0, <<If(<< >>, <<One>>)>>),
    Main(0, <<Store(One, One)>>),
    Main(0, <<Store(Debug, L(1))>>),
    Main(0, <<Store(One, Text(<<65>>))>>),
    Main(0, <<Buffer(K(1), <<1, 2>>)>>),
    Main(0, <<Package_(1, <<One, One>>)>>),
    Alias("Y", "X"),
    Main(0, <<Op("Fatal", <<Imm(1), Imm(2), Zero>>)>>),
    Main(0, <<Op("Mod", <<One, Zero, Nowhere>>)>>),
    Main(0, <<Op("Divide", <<One, Zero, Nowhere, Nowhere>>)>>)}

-----------------------------------------------------------------------------
(* Strings, buffers and packages.                                          *)

\* The text of a number, and the element of an object at the index of the argument.
Digits == Text(<<48, 120, 49, 70>>)
Indices ==
    NameOp(Rel(<<"P">>), Package_(3, <<One, Text(<<65, 66>>), N("B")>>))
    \o NameOp(Rel(<<"B">>), Buffer(K(3), <<7, 200>>))
    \o NameOp(Rel(<<"S">>), Text(<<97, 98, 200>>))
    \o Main(1, <<
         Store(Op("DerefOf", <<Op("Index", <<N("B"), A(1), L(2)>>)>>), L(1)),
         Op("Increment", <<L(1)>>),
         Store(L(1), Op("Index", <<N("P"), A(1), Nowhere>>)),
         Store(K(300), Op("Index", <<N("S"), A(1), Nowhere>>)),
         Store(K(9), Op("Index", <<N("B"), Zero, Nowhere>>)),
         Return(N("P"))>>)

\* The package that is returned is a copy of a Name that the next call changes.
Copies ==
    NameOp(Rel(<<"P">>), Package_(2, <<One, Package_(1, <<K(2)>>)>>))
    \o Main(1, <<
         Store(N("P"), L(1)),
         Op("CopyObject", <<N("P"), L(2)>>),
         Store(A(1), Op("Index", <<L(1), Zero, Nowhere>>)),
         Store(A(1), Op("Index", <<N("P"), One, Nowhere>>)),
         If(Op("LEqual", <<A(1), K(3)>>), <<Store(L(1), N("P"))>>),
         Return(L(2))>>)

VarPackages ==
    Main(1, <<
      Store(VarPackage(Add(A(1), One, Nowhere), <<K(5), Buffer(K(1), <<3>>)>>), L(1)),
      Return(Add(Op("SizeOf", <<L(1)>>),
                 Op("Match", <<L(1), Imm(1), K(5), Imm(0), Zero, Zero>>), Nowhere))>>)

\* Every conversion of what the argument selects.
Selection ==
    NameOp(Rel(<<"P">>), Package_(4, <<K(4660), Digits, Buffer(K(2), <<49, 2>>), Package_(0, << >>)>>))
    \o Method_("V", 1, <<Return(Op("DerefOf", <<Op("Index", <<N("P"), A(1), Nowhere>>)>>))>>)
Value == N("V") \o A(1)
Applied(op, more) == Selection \o Main(1, <<Return(Op(op, <<Value>> \o more))>>)
Conversions ==
    {Applied(op, <<L(1)>>) : op \in {"ToBuffer", "ToDecimalString", "ToHexString", "ToInteger", "FromBCD", "ToBCD",
                                     "Store", "CopyObject"}}
    \cup {Applied(op, << >>) : op \in {"SizeOf", "LNot", "DerefOf"}}
    \cup {Applied(op, <<Value, L(1)>>) : op \in {"Concat", "ConcatRes"}}
    \cup {Applied(op, <<K(1), L(1)>>) : op \in {"Concat", "ToString", "Index"}}
    \cup {Applied(op, <<Text(<<49>>)>>) : op \in {"LEqual", "LLess", "LGreater"}}
    \cup {Applied("Mid", <<One, K(n), L(1)>>) : n \in {0, 1, 5}}
    \cup {Applied("Match", <<Imm(4), Zero, Imm(5), Zero, Zero>>)}

\* A Name keeps its type.
Mutations ==
    {Selection
     \o NameOp(Rel(<<"X">>), init)
     \o Main(1, <<Store(Value, N("X")), Return(N("X"))>>) :
     init \in {One, Text(<<65, 66, 67>>), Buffer(K(2), <<1, 2>>), Package_(1, <<One>>)}}

Numbers ==
    {Main(1, <<Return(Op(op, <<A(1), K(3), L(1)>>))>>) : op \in ArithmeticOps}
    \cup {Main(1, <<Return(Op(op, <<A(1), One>>))>>) : op \in {"LAnd", "LOr", "LEqual", "LGreater"}}
    \cup {Main(1, <<Return(Op(op, <<A(1), Nowhere>>))>>) : op \in {"Not", "FindSetLeftBit", "FindSetRightBit"}}
    \cup {Main(1, <<Op("Divide", <<C0("Ones"), Add(A(1), One, Nowhere), L(1), L(2)>>),
                    Op("Decrement", <<L(2)>>), Return(Add(L(1), L(2), Debug))>>),
          Main(1, <<Return(C0("Revision"))>>)}

\* Fields of a buffer that a method declares, one after the other in the same buffer.
BufferFields ==
    {NameOp(Rel(<<"B">>), Buffer(K(4), <<255, 0, 90>>))
     \o Main(1, <<
          Op(op, <<N("B"), A(1), N("F")>>),
          Store(K(21845), N("F")),
          Return(Add(N("F"), Op("DerefOf", <<Op("Index", <<N("B"), One, Nowhere>>)>>), Nowhere))>>) :
     op \in {"BitField", "ByteField", "WordField", "DWordField"}}
    \cup {NameOp(Rel(<<"B">>), Buffer(K(4), <<255, 0, 90>>))
          \o Main(1, <<
               Op("ArbField", <<N("B"), Add(A(1), K(3), Nowhere), K(6), N("F")>>),
               Store(K(42), N("F")),
               Return(Add(N("F"), Op("SizeOf", <<N("B")>>), Nowhere))>>)}

-----------------------------------------------------------------------------
(* Names.                                                                  *)

\* Scopes in scopes, a name that is found further out and one that is hidden, and duplicates.
Scopes ==
    NameOp(Rel(<<"X">>), K(1))
    \o Within_("Scope", Rel(<<"_SB_">>), <<
         Within_("Device", Rel(<<"DEV">>), <<
           NameOp(Rel(<<"X">>), K(2)),
           NameOp(Rel(<<"X">>), K(3)),
           NameOp(Up(<<"Y">>), K(4)),
           Within_("PowerRes", Rel(<<"PWR">>), <<Method_("M", 0, <<Return(Add(N("X"), N("Y"), Nowhere))>>)>>)>>),
         Within_("Processor", Abs(<<"_PR_", "CPU">>), << >>),
         Within_("ThermalZone", Rel(<<"TZ">>), << >>),
         Alias("AL", "DEV")>>)
    \o Main(1, <<
         If(Op("LLess", <<A(1), One>>), <<Return(Name(Abs(<<"_SB_", "AL", "X">>)))>>),
         If(Op("LLess", <<A(1), K(2)>>), <<Return(Name(Abs(<<"_SB_", "DEV", "PWR", "M">>)))>>),
         If(Op("LLess", <<A(1), K(3)>>), <<
           Op("Notify", <<Name(Abs(<<"_SB_", "AL">>)), K(128)>>),
           Return(Op("ObjectType", <<Name(Abs(<<"_SB_", "AL">>))>>))>>),
         Store(K(6), N("X")),
         Return(Op("ObjectType", <<Name(Abs(<<"_PR_", "CPU">>))>>))>>)

\* The second device is refused: the table is not loaded further.
Refused ==
    Within_("Device", Rel(<<"D">>), <<NameOp(Rel(<<"X">>), One)>>)
    \o Within_("Device", Rel(<<"D">>), <<NameOp(Rel(<<"Y">>), One)>>)
    \o Main(0, << >>)
Missing == Within_("Scope", Rel(<<"D">>), << >>)

\* Names of a method, names that exist while it runs, and what refers to them.
Locals_ ==
    Main(1, <<
      NameOp(Rel(<<"X">>), A(1)),
      Op("CondRefOf", <<N("X"), L(1)>>),
      Store(Op("RefOf", <<N("X")>>), L(2)),
      Store(Op("RefOf", <<L(1)>>), L(3)),
      Method_("IN", 1, <<Store(K(9), A(1)), Return(Op("DerefOf", <<A(1)>>))>>),
      Store(Op("ObjectType", <<L(1)>>), L(1)),
      Return(Add(N("IN") \o L(2), Add(N("X"), N("IN") \o L(3), Nowhere), Nowhere))>>)

\* A method that fails leaves its names, and they are in the way of the next call.
Leaves ==
    Main(1, <<
      Named("Mutex", "X"),
      If(Op("LEqual", <<A(1), Zero>>), <<N("MISS")>>)>>)

Synchronization ==
    Named("Mutex", "MTX") \o Named("Event", "EVT")
    \o Main(1, <<
         If(Op("LNot", <<Op("Acquire", <<N("MTX"), Imm(65535)>>)>>), <<Op("Signal", <<N("EVT")>>)>>),
         If(Op("LLess", <<A(1), K(2)>>), <<
           Op("Wait", <<N("EVT"), K(1)>>), Op("Release", <<N("MTX")>>), Op("Sleep", <<K(1)>>), Return(One)>>),
         If(Op("LLess", <<A(1), K(3)>>), <<Op("Release", <<N("MTX")>>), Op("Reset", <<N("EVT")>>)>>),
         Op("Stall", <<K(1)>>),
         Op("Wait", <<N("EVT"), Zero>>)>>)

OperatingSystem ==
    Main(1, <<
      If(Op("LEqual", <<N("_REV"), K(2)>>), <<Store(Op("CondRefOf", <<N("NONE"), L(1)>>), L(2))>>),
      If(Op("LLess", <<A(1), K(2)>>), <<Return(N("_OSI") \o Text(<<87 + 1>>))>>),
      If(Op("LLess", <<A(1), K(3)>>), <<Return(Add(N("_OSI") \o Text(<<87>>), One, Nowhere))>>),
      N("_OS_"),
      Return(N("_OSI") \o A(1))>>)

-----------------------------------------------------------------------------
(* Hardware.                                                               *)

FieldList(op, fields) == [op |-> op, access |-> 8, update |-> "PRESERVE", fields |-> fields]
Bits(seg, n) == [kind |-> "field", name |-> Rel(<<seg>>), size |-> n]
Skip(n) == [kind |-> "skip", size |-> n]
Access(n) == [kind |-> "access", access |-> n]
Region(seg, space, base, length) == C0("OpRegion") \o N(seg) \o Imm(space) \o base \o length
Fields_(region, fields) == <<FieldList("Field", fields) @@ [region |-> Rel(<<region>>)]>>
IndexFields(index, data, fields) ==
    <<FieldList("IndexField", fields) @@ [index |-> Rel(<<index>>), data |-> Rel(<<data>>)]>>
BankFields(region, bank, value, fields) ==
    Sized_([op |-> "BankField", region |-> Rel(<<region>>), bank |-> Rel(<<bank>>)],
           value \o <<FieldList("List", fields)>>)

Registers ==
    Region("R", 1, Add(K(64), K(32), Nowhere), K(8))
    \o Fields_("R", <<Bits("IDX", 8), Bits("DAT", 8), Skip(4), Access(16), Bits("BNK", 2), Bits("CFG", 9)>>)
    \o IndexFields("IDX", "DAT", <<Bits("IA", 4), Bits("IB", 12)>>)
    \o BankFields("R", "BNK", Add(One, One, Nowhere), <<Skip(40), Bits("BA", 3)>>)
    \o Main(1, <<
         Store(A(1), N("CFG")),
         Op("Increment", <<N("CFG")>>),
         Store(Add(N("CFG"), N("IB"), Nowhere), N("IB")),
         If(Op("LEqual", <<N("BA"), Zero>>), <<Store(K(5), N("BA"))>>),
         Return(Add(N("IB"), N("BNK"), Nowhere))>>)

\* Fields of the configuration space of a PCI device: one is wider than an integer, and one
\* is wider than 8 bytes (QWord) and read as a buffer.
Bridge ==
    Within_("Scope", Rel(<<"_SB_">>), <<
      Within_("Device", Rel(<<"PCI0">>), <<
        NameOp(Rel(<<"_HID">>), K(3)), NameOp(Rel(<<"_BBN">>), K(1)),
        Within_("Device", Rel(<<"DEV">>), <<
          NameOp(Rel(<<"_ADR">>), K(7)),
          Region("R", 2, Zero, K(8)),
          Fields_("R", <<Bits("A", 8), Bits("W", 24), Bits("V", 40)>>)>>)>>)>>)
    \o Main(1, <<
         Store(Buffer(K(5), <<1, 2, 3>>), Name(Abs(<<"_SB_", "PCI0", "DEV", "V">>))),
         Store(K(4660), Name(Abs(<<"_SB_", "PCI0", "DEV", "W">>))),
         Store(A(1), Name(Abs(<<"_SB_", "PCI0", "DEV", "A">>))),
         Return(Op("Concat", <<Name(Abs(<<"_SB_", "PCI0", "DEV", "W">>)),
                               Name(Abs(<<"_SB_", "PCI0", "DEV", "V">>)), L(1)>>))>>)

Undeclared == {
    Fields_("R", << >>),
    IndexFields("X", "Y", << >>),
    NameOp(Rel(<<"X">>), One) \o BankFields("X", "Y", One, << >>)}

-----------------------------------------------------------------------------
\* Programs with a state of their own are called twice.
Twice == {Loops, Copies, Locals_, Leaves, Synchronization, Registers, Endings, Refused}
Once ==
    {Recursion, Indices, VarPackages, Scopes, Missing, OperatingSystem, Bridge}
    \cup Bodies \cup Panics \cup Conversions \cup Mutations \cup Numbers \cup BufferFields \cup Undeclared
Programs_ == Twice \cup Once
MaxCalls_ == [program \in Programs_ |-> IF program \in Twice THEN 2 ELSE 1]

Call(seg, args) == [path |-> Rel(<<seg>>), args |-> [i \in DOMAIN args |-> Integer(args[i])]]
Calls_ ==
    {Call("T", <<n>>) : n \in 0 .. 3} \cup {Call("T", <<1, n>>) : n \in 0 .. 1}
    \cup {Call("X", << >>), Call("_OSI", <<1>>), Call("_REV", << >>), Call("_SB_", << >>)}

\* A loop that goes on with Continue.
Continuing == Main(0, <<Store(Zero, L(1)), While(Op("LLess", <<L(1), K(2)>>), <<Op("Increment", <<L(1)>>), C0("Continue")>>)>>)
ContinuingPrograms == {Continuing}
ContinuingCalls == {Call("T", << >>)}
ContinuingMaxCalls == [program \in {Continuing} |-> 1]

\* Small stacks, so that all of them move.
Capacity_ == [ctxstack |-> 1, blkstack |-> 1, stack |-> 2, opstack |-> 2]
=============================================================================
