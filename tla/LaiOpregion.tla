---------------------------- MODULE LaiOpregion ----------------------------
(***************************************************************************)
(* Fields of operation regions (lai/core/opregion.c): how a field of any   *)
(* number of bits at any bit offset is read and written with accesses of a *)
(* fixed width, directly, through an index and a data register             *)
(* (IndexField) or after selecting a bank (BankField).                     *)
(*                                                                         *)
(* Values are sets of bit numbers.  A uint64_t has 32 bits in this build   *)
(* (base/include/stdint.h:5), which the code does not expect: the masks of *)
(* whole words of 32 bits and the accesses of 64 bits come out as modelled *)
(* here.  The hardware is the set `io` of the bits <<cell, bit>> that are  *)
(* set.  A field is a record                                               *)
(*                                                                         *)
(*   type, access, update, size, offset                                    *)
(*   region = [space, unit, base]  of a FIELD or a BANKFIELD               *)
(*   bank, value                   of a BANKFIELD                          *)
(*   index, data                   of an INDEXFIELD: fields with a region  *)
(*                                                                         *)
(* where `unit` names the PCI device of a region of its configuration      *)
(* space.                                                                  *)
(***************************************************************************)
EXTENDS Integers, Sequences, FiniteSets

\* The byte of the hardware that an access to an address <<space, unit, byte>> reaches, in
\* the state it is in: behind a data port or a bank window it depends on other registers.
CONSTANT Cell(_, _)

\* What the code behind lai_perform_read() can be asked for; other spaces read as zero.
Spaces == {"MEMORY", "IO", "PCI"}

-----------------------------------------------------------------------------
(* Integers of the build: 32 bits, shifts by a count modulo 32.            *)

BitsOf(n) == {i \in 0 .. 30 : (n \div 2^i) % 2 = 1}
Uint64 == 0 .. 31
ShiftLeft(value, n) == {i + (n % 32) : i \in value} \cap Uint64
ShiftRight(value, n) == {i - (n % 32) : i \in value} \cap Uint64
\* (UINT64_C(1) << n) - 1: nothing if n is 32.
LowBits(n) == 0 .. (n % 32) - 1

\* Buffers are filled and read byte by byte; the bit of a value that belongs to the j-th of
\* the bits moved: the value is shifted by the number of bits in the bytes before.
Moved(at, j) ==
    LET done == IF (at + j) \div 8 = at \div 8 THEN 0 ELSE ((at + j) \div 8) * 8 - at
    IN  (done % 32) + (j - done)
lai_buffer_put_at(value, at, n) == {at + j : j \in {k \in 0 .. n - 1 : Moved(at, k) \in value}}
lai_buffer_get_at(buffer, at, n) ==
    {Moved(at, j) : j \in {k \in 0 .. n - 1 : at + k \in buffer}} \cap Uint64

\* An integer as the 8 bytes of a buffer, and up to 8 bytes as an integer.
ToBuffer(value) == {i \in 0 .. 63 : i % 32 \in value}
FromBuffer(bits) == {i % 32 : i \in bits}

-----------------------------------------------------------------------------
\* Any access (0): the smallest power of two that holds the field, from 8 bits up to the widest
\* of the space.  An IndexField has no region: op_address_space is read through NULL and
\* is not memory, which matters above 32 bits only.
lai_calculate_access_width(f) ==
    IF f.access # 0 THEN f.access
    ELSE LET widest == IF f.type # "INDEXFIELD" /\ f.region.space = "MEMORY" THEN 64 ELSE 32
             holds  == {w \in {8, 16, 32, 64} : w >= f.size \/ w = widest}
         IN  CHOOSE w \in holds : \A v \in holds : w <= v

\* Port and PCI accesses have at most 32 bits; the other widths are panics.
AccessOK(f) ==
    f.type # "INDEXFIELD" /\ f.region.space \in {"IO", "PCI"} => lai_calculate_access_width(f) # 64

-----------------------------------------------------------------------------
\* Variant: all bits of a word are sought in its first byte.
BitAt_FirstByte(io, region, width, word, i) ==
    <<Cell(io, <<region.space, region.unit, region.base + word * (width \div 8)>>), i>>
\* The bits of the hardware that an access to a word of a region goes to.
BitAt(io, region, width, word, i) ==
    <<Cell(io, <<region.space, region.unit, region.base + word * (width \div 8) + i \div 8>>), i % 8>>

\* A mmio64_t is a uint64_t.
Accessed(width) == 0 .. (IF width = 64 THEN 32 ELSE width) - 1

lai_perform_read(io, region, width, word) ==
    IF region.space \notin Spaces THEN {}
    ELSE {i \in Accessed(width) : BitAt(io, region, width, word, i) \in io}

lai_perform_write(io, region, width, word, value) ==
    IF region.space \notin Spaces THEN io
    ELSE (io \ {BitAt(io, region, width, word, i) : i \in Accessed(width)})
         \cup {BitAt(io, region, width, word, i) : i \in value \cap Accessed(width)}

-----------------------------------------------------------------------------
(***************************************************************************)
(* The loops over the words that a field covers.  `read` and `write` are   *)
(* the accesses to one word; both may change the hardware.                 *)
(***************************************************************************)
\* How many words a field covers, and which one is the k-th of them.
WordCount(f) ==
    LET width == lai_calculate_access_width(f)
    IN  IF f.size = 0 THEN 0
        ELSE (f.offset + f.size - 1) \div width - f.offset \div width + 1
Word(f, k) == f.offset \div lai_calculate_access_width(f) + k - 1

\* The first bit of a word that belongs to the field, how many there are, and the number of
\* the first one in the field.
BitOffset(f, word) ==
    LET width == lai_calculate_access_width(f)
    IN  IF word = f.offset \div width THEN f.offset % width ELSE 0
AccessBits(f, word) ==
    LET width == lai_calculate_access_width(f)
        left  == f.offset + f.size - word * width
    IN  (IF left < width THEN left ELSE width) - BitOffset(f, word)
Progress(f, word) == word * lai_calculate_access_width(f) + BitOffset(f, word) - f.offset

\* The bits found in one word are added to those of the words before it.
ReadWord(read(_, _), acc, f, word) ==
    LET r == read(acc.io, word)
        n == AccessBits(f, word)
    IN  [io   |-> r.io,
         bits |-> acc.bits \cup
             lai_buffer_put_at(ShiftRight(r.bits, BitOffset(f, word)) \cap LowBits(n), Progress(f, word), n)]
lai_read_field_internal(read(_, _), io, f) ==
    LET pass[k \in 0 .. WordCount(f)] ==
            IF k = 0 THEN [io |-> io, bits |-> {}]
            ELSE ReadWord(read, pass[k - 1], f, Word(f, k))
    IN  pass[WordCount(f)]

\* Variant: a write does not spare the neighbours of the field.
WriteMask_WholeWord(f, word) == Uint64
WriteMask(f, word) == ShiftLeft(LowBits(AccessBits(f, word)), BitOffset(f, word))

WriteWord(read(_, _), write(_, _, _), io, f, word, value) ==
    LET old  == CASE f.update = "PRESERVE"     -> read(io, word)
                  [] f.update = "WRITE_ONES"   -> [io |-> io, bits |-> Uint64]
                  [] f.update = "WRITE_ZEROES" -> [io |-> io, bits |-> {}]
        new  == lai_buffer_get_at(value, Progress(f, word), AccessBits(f, word))
        mask == WriteMask(f, word)
    IN  write(old.io, word,
              (old.bits \ mask) \cup (ShiftLeft(new, BitOffset(f, word)) \cap mask))
lai_write_field_internal(read(_, _), write(_, _, _), io, f, value) ==
    LET pass[k \in 0 .. WordCount(f)] ==
            IF k = 0 THEN io
            ELSE WriteWord(read, write, pass[k - 1], f, Word(f, k), value)
    IN  pass[WordCount(f)]

\* A field of a region: the bank of a BANKFIELD is selected by the caller.
ReadRegion(io, f) ==
    lai_read_field_internal(
        LAMBDA d, word : [io |-> d, bits |-> lai_perform_read(d, f.region, lai_calculate_access_width(f), word)],
        io, f)
WriteRegion(io, f, value) ==
    lai_write_field_internal(
        LAMBDA d, word : [io |-> d, bits |-> lai_perform_read(d, f.region, lai_calculate_access_width(f), word)],
        LAMBDA d, word, new : lai_perform_write(d, f.region, lai_calculate_access_width(f), word, new),
        io, f, value)

\* The index register gets the byte offset of the word, the data register is the word.
ByteOffset(f, word) == ToBuffer(BitsOf(word * (lai_calculate_access_width(f) \div 8)))
lai_perform_indexfield_read(io, f, word) ==
    LET r == ReadRegion(WriteRegion(io, f.index, ByteOffset(f, word)), f.data)
    IN  [r EXCEPT !.bits = FromBuffer(@)]
lai_perform_indexfield_write(io, f, word, value) ==
    WriteRegion(WriteRegion(io, f.index, ByteOffset(f, word)), f.data, ToBuffer(value))

\* The bits of the buffer that a read fills and a write is made from; that up to 8 bytes of it
\* are an integer is said in LaiOps (ReadField, BytesOf).
lai_read_field(io, f) ==
    IF f.type = "INDEXFIELD"
      THEN lai_read_field_internal(LAMBDA d, word : lai_perform_indexfield_read(d, f, word), io, f)
      ELSE ReadRegion(io, f)
lai_write_field(io, f, value) ==
    IF f.type = "INDEXFIELD"
      THEN lai_write_field_internal(LAMBDA d, word : lai_perform_indexfield_read(d, f, word),
                                    LAMBDA d, word, new : lai_perform_indexfield_write(d, f, word, new),
                                    io, f, value)
      ELSE WriteRegion(io, f, value)

\* Variant: the bank is left as it was selected last.
Select_BankLeft(io, f) == io
\* The bank register is written before every access to a field of the bank.
Select(io, f) == lai_write_field(io, f.bank, ToBuffer(BitsOf(f.value)))
lai_read_opregion(io, f) ==
    lai_read_field(IF f.type = "BANKFIELD" THEN Select(io, f) ELSE io, f)
lai_write_opregion(io, f, value) ==
    lai_write_field(IF f.type = "BANKFIELD" THEN Select(io, f) ELSE io, f, value)
=============================================================================
