-------------------------------- MODULE Wire --------------------------------
(***************************************************************************)
(* Basic values as bytes: what encoder.go appends for one, and what the    *)
(* read functions of decoder.go make of it.                                *)
(*                                                                         *)
(* Of the basic types there is one of each width: y for the bytes, n for   *)
(* b, n and q ... are the same code with another size; s stands for o as   *)
(* well.  The byte order is the little-endian one.  Offsets are those of   *)
(* Go: the first byte has offset 0.                                        *)
(***************************************************************************)
EXTENDS Alignment, Sequences

Byte == 0..255
IsUint32(n) == n \in Nat /\ n \div 65536 < 65536

Code == [y |-> 121, n |-> 110, u |-> 117, t |-> 116, s |-> 115, g |-> 103, v |-> 118,
         a |-> 97, struct |-> 40, endStruct |-> 41, pair |-> 123, endPair |-> 125]

FixedCodes == {Code.y, Code.n, Code.u, Code.t}
BasicCodes == FixedCodes \union {Code.s, Code.g}

\* The size of a value of a fixed one, or of the length of a string; and the
\* alignment.
SizeOf(code) ==
  CASE code \in {Code.y, Code.g} -> 1
    [] code = Code.n -> 2
    [] code \in {Code.u, Code.s} -> 4
    [] code = Code.t -> 8

(***************************************************************************)
(* The encoder.                                                            *)
(***************************************************************************)
Align(data, n) == data \o [i \in 1..AlignUp(Len(data), n) - Len(data) |-> 0]

Uint32(n) ==
  <<n % 256, (n \div 256) % 256, (n \div 65536) % 256, (n \div 16777216) % 256>>

\* The length of a signature is cut off to a byte.
LengthBytes(n, size) == IF size = 1 THEN <<n % 256>> ELSE Uint32(n)

PutBasic(data, code, bytes) ==
  LET at == Align(data, SizeOf(code))
  IN  IF code \in FixedCodes THEN at \o bytes
      ELSE at \o LengthBytes(Len(bytes), SizeOf(code)) \o bytes \o <<0>>

\* Mutated form: the content follows its length at once.
WithLength_NoPadding(at, content, n) == at \o Uint32(Len(content)) \o content

\* The content of an array or a map, encoded in a buffer of its own, is copied
\* to where an element may begin.
WithLength(at, content, n) == Align(at \o Uint32(Len(content)), n) \o content

(***************************************************************************)
(* The decoder: dataOffset, sigOffset, what was decoded last, and whether  *)
(* it failed.                                                              *)
(***************************************************************************)
NewDecoder(sg, data, offset) ==
  [signature |-> sg, data |-> data, dataOffset |-> offset, sigOffset |-> 0,
   value |-> <<>>, failed |-> FALSE]

Failed(d) == [d EXCEPT !.failed = TRUE]

\* readByte, readUint32, ...: n bytes at the next multiple of n.
ReadFixed(d, n) ==
  LET from == AlignUp(d.dataOffset, n)
  IN  IF d.failed \/ Len(d.data) < from + n THEN Failed(d)
      ELSE [d EXCEPT !.value = SubSeq(d.data, from + 1, from + n), !.dataOffset = from + n]

\* One byte or four.
Number(bytes) ==
  IF Len(bytes) = 1 THEN bytes[1]
  ELSE bytes[1] + 256 * bytes[2] + 65536 * bytes[3] + 16777216 * bytes[4]

\* readString and readSignature, whose length has n bytes.
ReadString(d, n) ==
  LET l == ReadFixed(d, n)
      end == l.dataOffset + Number(l.value)
  IN  IF l.failed \/ Len(d.data) < end + 1 THEN Failed(l)
      ELSE [l EXCEPT !.value = SubSeq(d.data, l.dataOffset + 1, end), !.dataOffset = end + 1]

ReadBasic(d, code) ==
  IF code \in FixedCodes THEN ReadFixed(d, SizeOf(code)) ELSE ReadString(d, SizeOf(code))

\* The code at sigOffset, if there is one, and behind it.
CodeAt(d) == d.signature[d.sigOffset + 1]
HasMore(d) == d.sigOffset < Len(d.signature)
PastCode(d) == [d EXCEPT !.sigOffset = @ + 1]

\* decodeValue at the code of a basic type.
DecodeBasic(d) ==
  IF d.failed \/ ~ HasMore(d) THEN Failed(d) ELSE ReadBasic(PastCode(d), CodeAt(d))

\* The length of an array was read, and d is where its first element may begin.
AtElements(d) ==
  [ReadFixed(d, 4) EXCEPT !.dataOffset =
     IF CodeAt(d) \in {Code.t, Code.struct, Code.pair} THEN AlignUp(@, 8) ELSE @]

\* "Reset signature offset to the array element."
ToElement(d, elemSig) == [d EXCEPT !.sigOffset = elemSig]

EndOfElements(d) == AtElements(d).dataOffset + Number(AtElements(d).value)
=============================================================================
