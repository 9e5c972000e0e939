------------------------------ MODULE Assembly ------------------------------
(***************************************************************************)
(* The codec of one assembly (mecademic_fieldbus/io_map/codec.py): which   *)
(* layouts it accepts, and how a field is read from an image and written   *)
(* into it.                                                                *)
(*                                                                         *)
(* An image is the sequence of its bytes. A value is the sequence of the   *)
(* elements of a field: booleans, integers, or floats, which are their     *)
(* bytes, lowest first.                                                    *)
(***************************************************************************)
EXTENDS Integers, Sequences, SequencesExt

\* STRUCT_FORMATS, as far as integers of TLC go.
Formats ==
  [int8    |-> [size |-> 1, signed |-> TRUE,  float |-> FALSE],
   uint8   |-> [size |-> 1, signed |-> FALSE, float |-> FALSE],
   int16   |-> [size |-> 2, signed |-> TRUE,  float |-> FALSE],
   uint16  |-> [size |-> 2, signed |-> FALSE, float |-> FALSE],
   int32   |-> [size |-> 4, signed |-> TRUE,  float |-> FALSE],
   float32 |-> [size |-> 4, signed |-> FALSE, float |-> TRUE]]

IsBool(field) == field.type = "bool"
ElementSize(field) == IF IsBool(field) THEN 0 ELSE Formats[field.type].size
FirstBit(field) == field.byte_offset * 8 + field.bit_offset
SizeBits(field) ==
  IF IsBool(field) THEN field.count ELSE field.count * ElementSize(field) * 8
Bits(field) == FirstBit(field) .. FirstBit(field) + SizeBits(field) - 1

EndByte(field) == (FirstBit(field) + SizeBits(field) + 7) \div 8

\* A field on its own is legal in an assembly of this size.
LegalField(field, size_bytes) ==
  /\ IsBool(field) \/ field.type \in DOMAIN Formats
  /\ field.count >= 1
  /\ field.byte_offset >= 0 /\ field.bit_offset \in 0 .. 7
  /\ IsBool(field) \/ field.bit_offset = 0
  /\ EndByte(field) <= size_bytes

\* The constructor, and _validate.
Accepted(assembly) ==
  /\ assembly.byte_order \in {"little", "big"}
  /\ \A i \in DOMAIN assembly.fields : LegalField(assembly.fields[i], assembly.size_bytes)
  /\ \A i, j \in DOMAIN assembly.fields :
       i # j => /\ assembly.fields[i].name # assembly.fields[j].name
                /\ Bits(assembly.fields[i]) \cap Bits(assembly.fields[j]) = {}

\* The codec of an accepted layout finds its fields by name.
Codec(assembly) ==
  LET named(name) ==
        CHOOSE i \in DOMAIN assembly.fields : assembly.fields[i].name = name
      names == {assembly.fields[i].name : i \in DOMAIN assembly.fields}
  IN [assembly EXCEPT !.fields = [name \in names |-> assembly.fields[named(name)]]]

Field(assembly, name) == assembly.fields[name]

Zeros(size) == [k \in 1 .. size |-> 0]

LongEnough(assembly, image) == Len(image) >= assembly.size_bytes

----------------------------------------------------------------------------
(* struct: one element and its bytes.                                      *)

Ordered(byte_order, bytes) == IF byte_order = "little" THEN bytes ELSE Reverse(bytes)

\* The bytes of an integer, lowest first, in two's complement.
LowFirst(n, size) == [k \in 1 .. size |-> (n \div 256 ^ (k - 1)) % 256]

\* An integer from its bytes, lowest first.
FromLowFirst(bytes, signed) ==
  LET top == Len(bytes)
      sum == FoldLeft(LAMBDA total, k : total + bytes[k] * 256 ^ (k - 1), 0,
                      [k \in 1 .. top - 1 |-> k])
      high == IF signed /\ bytes[top] >= 128 THEN bytes[top] - 256 ELSE bytes[top]
  IN sum + high * 256 ^ (top - 1)

Byte == 0 .. 255

\* Every integer of TLC fits in 32 bits.
MinInt == -2147483647 - 1
MaxInt == 2147483647

\* The elements of a field of this type.
ElementsOf(type) ==
  IF type = "bool" THEN BOOLEAN
  ELSE IF Formats[type].float THEN [1 .. Formats[type].size -> Byte]
  ELSE MinInt .. MaxInt

FitsFormat(format, element) ==
  format.size < 4 =>
    LET span == 256 ^ format.size
    IN element \in IF format.signed THEN -(span \div 2) .. span \div 2 - 1
                   ELSE 0 .. span - 1

PackElement(format, byte_order, element) ==
  Ordered(byte_order, IF format.float THEN element ELSE LowFirst(element, format.size))

UnpackElement(format, byte_order, bytes) ==
  IF format.float THEN Ordered(byte_order, bytes)
  ELSE FromLowFirst(Ordered(byte_order, bytes), format.signed)

----------------------------------------------------------------------------
(* Reading and writing a field.                                            *)

Bit(image, bit) == (image[bit \div 8 + 1] \div 2 ^ (bit % 8)) % 2 = 1

Read(assembly, image, name) ==
  LET field == Field(assembly, name)
      size == ElementSize(field)
      start(k) == field.byte_offset + (k - 1) * size
  IN [k \in 1 .. field.count |->
        IF IsBool(field) THEN Bit(image, FirstBit(field) + k - 1)
        ELSE UnpackElement(Formats[field.type], assembly.byte_order,
                           SubSeq(image, start(k) + 1, start(k) + size))]

\* Mutant of SetBit: a bit is only ever set.
OnlySetBit(image, bit, value) ==
  [image EXCEPT ![bit \div 8 + 1] =
     IF value /\ ~Bit(image, bit) THEN @ + 2 ^ (bit % 8) ELSE @]

SetBit(image, bit, value) ==
  [image EXCEPT ![bit \div 8 + 1] =
     @ + (IF value THEN 2 ^ (bit % 8) ELSE 0)
       - (IF Bit(image, bit) THEN 2 ^ (bit % 8) ELSE 0)]

\* The value has the elements the field holds, and they fit its type; anything
\* else is an error.
Writable(assembly, name, value) ==
  LET field == Field(assembly, name)
  IN /\ name \in DOMAIN assembly.fields
     /\ Len(value) = field.count
     /\ ~IsBool(field) => \A k \in DOMAIN value : FitsFormat(Formats[field.type], value[k])

WriteBools(field, image, value) ==
  FoldLeft(LAMBDA written, k : SetBit(written, FirstBit(field) + k - 1, value[k]),
           image, [k \in 1 .. field.count |-> k])

WriteElements(assembly, field, image, value) ==
  LET size == ElementSize(field)
      bytes == FlattenSeq([k \in 1 .. field.count |->
                 PackElement(Formats[field.type], assembly.byte_order, value[k])])
  IN SubSeq(image, 1, field.byte_offset) \o bytes
       \o SubSeq(image, field.byte_offset + Len(bytes) + 1, Len(image))

Write(assembly, image, name, value) ==
  LET field == Field(assembly, name)
  IN IF IsBool(field) THEN WriteBools(field, image, value)
     ELSE WriteElements(assembly, field, image, value)

\* pack: a base that is too short is left alone; otherwise the fields are written
\* into a copy of it, one after the other.
Pack(assembly, names, values, base) ==
  IF ~LongEnough(assembly, base) THEN base
  ELSE FoldLeft(LAMBDA image, k : Write(assembly, image, names[k], values[k]),
                base, [k \in DOMAIN names |-> k])

Packable(assembly, names, values, base) ==
  /\ LongEnough(assembly, base)
  /\ \A k \in DOMAIN names : Writable(assembly, names[k], values[k])

ReadMany(assembly, image, names) == [k \in DOMAIN names |-> Read(assembly, image, names[k])]

=============================================================================
