----------------------------- MODULE LaiFields -----------------------------
(***************************************************************************)
(* AML reading and writing named fields of one piece of hardware: plain    *)
(* registers, registers behind an index and a data port, and a window onto *)
(* banks.  The interpreter keeps no copy of any of them: every access      *)
(* selects what it needs again.                                            *)
(***************************************************************************)
EXTENDS Integers, Sequences, FiniteSets

CONSTANTS
    Fields,      \* the named fields: name -> field record of LaiOpregion
    Selectors,   \* names of the index and bank registers
    Values,      \* name -> the values AML writes, as sets of bits
    Padding,     \* bits <<cell, bit>> that belong to no field and that the firmware has set
    IndexPort, DataPort, BankPort,  \* addresses of the selecting registers
    Window       \* addresses that show the selected bank

VARIABLES
    io,    \* the bits of the hardware that are set
    held   \* history: the value last written to every field but the selectors

vars == <<io, held>>

\* External: which register of the hardware an address reaches.
\* The bank register has two bits, the rest of its byte is not decoded.
Shown(hw, address, size) == {i \in 0 .. size - 1 : <<address, i>> \in hw}
HwCell(hw, address) ==
    CASE address = DataPort   -> <<"register", Shown(hw, IndexPort, 8)>>
      [] address \in Window   -> <<"bank", Shown(hw, BankPort, 2), address>>
      [] OTHER                -> address

INSTANCE LaiOpregion WITH Cell <- HwCell

Names == DOMAIN Fields

-----------------------------------------------------------------------------
(***************************************************************************)
(* The layout that AML declares.  A position p is the bit p % 8 of the     *)
(* byte p \div 8 of a region.                                              *)
(***************************************************************************)
\* The positions of a field, and those that a write to it goes to: with an update rule other
\* than Preserve, all of the words that the field covers.
Bits(f) == f.offset .. f.offset + f.size - 1
Span(f) ==
    LET width == lai_calculate_access_width(f)
    IN  IF f.update = "PRESERVE" \/ f.size = 0 THEN Bits(f)
        ELSE (f.offset \div width) * width .. ((f.offset + f.size - 1) \div width) * width + width - 1

Address(f, p) == <<f.region.space, f.region.unit, f.region.base + p \div 8>>
Ports(f) == {Address(f, p) : p \in Span(f)}

\* The bit of the hardware that a position of a field stands for.
Place(f, p) ==
    CASE f.type = "FIELD"      -> <<Address(f, p), p % 8>>
      [] f.type = "BANKFIELD"  -> <<<<"bank", BitsOf(f.value) \cap 0 .. 1, Address(f, p)>>, p % 8>>
      [] f.type = "INDEXFIELD" -> <<<<"register", BitsOf(p \div 8) \cap 0 .. 7>>, p % 8>>
Places(f) == {Place(f, p) : p \in Bits(f)}
Touched(f) == {Place(f, p) : p \in Span(f)}
\* The bits that an access to a field sets to select it.
Selecting(f) ==
    CASE f.type = "FIELD"      -> {}
      [] f.type = "BANKFIELD"  -> Touched(f.bank)
      [] f.type = "INDEXFIELD" -> Touched(f.index)

\* The positions that the code moves: all but those in words of 32 bits that the field fills.
Live(f) == {p \in Bits(f) : AccessBits(f, p \div lai_calculate_access_width(f)) # 32}

\* A field of a region, with accesses of at most 32 bits: those of 64 bits reach half of a word.
Regular(f) ==
    /\ f.offset \in Nat /\ f.size \in Nat
    /\ f.update \in {"PRESERVE", "WRITE_ONES", "WRITE_ZEROES"}
    /\ lai_calculate_access_width(f) \in {8, 16, 32}
InRegion(f) == Regular(f) /\ f.region.space \in Spaces /\ f.region.base \in Nat

Decoded == {DataPort} \cup Window
\* A register that is reached directly and starts with the `size` bits of a port.
Register(f, port, size) ==
    /\ f.type = "FIELD" /\ InRegion(f)
    /\ f.offset % 8 = 0 /\ f.size \in size .. 64 /\ Address(f, f.offset) = port
    /\ f.offset .. f.offset + size - 1 \subseteq Live(f)
    /\ Ports(f) \cap Decoded = {}

\* The selecting registers are registers of their own, reached at their addresses.
ASSUME ChipAssumption ==
    /\ \A port \in {IndexPort, BankPort} : port \notin Decoded /\ port[1] \in Spaces
    /\ DataPort \notin Window

\* Fields are declared the way the chip works: the window through the bank register only, the
\* indexed registers, of one byte each, through the index register only.
FieldAssumption(f) ==
    \/ f.type = "FIELD" /\ InRegion(f) /\ Ports(f) \cap Decoded = {}
    \/ /\ f.type = "BANKFIELD" /\ InRegion(f) /\ Ports(f) \subseteq Window
       /\ Register(f.bank, BankPort, 2)
    \/ /\ f.type = "INDEXFIELD" /\ Regular(f) /\ lai_calculate_access_width(f) = 8
       /\ Register(f.index, IndexPort, 8)
       /\ f.data.type = "FIELD" /\ InRegion(f.data)
       /\ f.data.offset % 8 = 0 /\ f.data.size = 8 /\ Ports(f.data) = {DataPort}
       \* The index register has a number for every byte of the field.
       /\ \A p \in Bits(f), q \in Span(f) : Place(f, p) = Place(f, q) => p = q

ASSUME FieldsAssumption == \A n \in Names : FieldAssumption(Fields[n])

\* No field lies on another, or on a register that selects one, and no padding on either.
ASSUME LayoutAssumption ==
    /\ \A n \in Names \ Selectors, m \in Names :
          /\ Places(Fields[n]) \cap Selecting(Fields[m]) = {}
          /\ n # m => Places(Fields[n]) \cap Touched(Fields[m]) = {}
    /\ \A b \in Padding : b[2] \in 0 .. 7
    /\ \A n \in Names : Padding \cap (Touched(Fields[n]) \cup Selecting(Fields[n])) = {}

-----------------------------------------------------------------------------
\* What of a value reaches the bits of a field.
Fit(n, value) ==
    {i \in value \cap 0 .. Fields[n].size - 1 : i + Fields[n].offset \in Live(Fields[n])}

-----------------------------------------------------------------------------
Init ==
    /\ io = Padding
    /\ held = [n \in Names \ Selectors |-> {}]

\* Reading writes index and bank registers.
Read(n) ==
    /\ io' = lai_read_opregion(io, Fields[n]).io
    /\ UNCHANGED held

Write(n, value) ==
    /\ io' = lai_write_opregion(io, Fields[n], value)
    /\ held' = IF n \in Selectors THEN held ELSE [held EXCEPT ![n] = Fit(n, value)]

Next == \E n \in Names : Read(n) \/ \E value \in Values[n] : Write(n, value)

Spec == Init /\ [][Next]_vars

-----------------------------------------------------------------------------
\* Bits of bytes for the hardware, sets of bits for every field.
TypeOK ==
    /\ \A b \in io : b[2] \in 0 .. 7
    /\ held \in [Names \ Selectors -> SUBSET Nat]
    /\ \A n \in Names \ Selectors : held[n] \subseteq 0 .. Fields[n].size - 1

\* Every field reads as what AML last wrote to it, bit by bit in the buffers that are moved,
\* however it is cut into words, whatever was read or written since, and whatever the index
\* and bank registers were left at; but where a field fills a word of 32 bits, it reads as
\* zero, since the mask of 32 ones is 0 in this build (opregion.c:450).
ReadsAsWritten ==
    \A n \in Names \ Selectors : lai_read_opregion(io, Fields[n]).bits = held[n]

\* Bits between the fields keep what the firmware put there: the fields next to them have
\* the update rule Preserve.
PaddingPreserved == Padding \subseteq io
=============================================================================
