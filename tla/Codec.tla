------------------------------- MODULE Codec -------------------------------
(***************************************************************************)
(* The arguments of a message: what AppendArgs writes (encoder.go), what   *)
(* Args and AllArgs read from it (decoder.go), and the signature that says *)
(* how (types.go).                                                         *)
(*                                                                         *)
(* Data are bytes, and a signature is a sequence of type codes, which are  *)
(* bytes too.  Module Wire has the basic values.                           *)
(***************************************************************************)
EXTENDS Wire, SequencesExt

CONSTANTS
  Values,  \* the arguments an application may append
  MaxArgs  \* bound: how many it appends to one message

VARIABLES
  sig,  \* Message.sig
  body, \* Message.body
  args  \* history: the arguments that were appended

vars == <<sig, body, args>>

(***************************************************************************)
(* Values.  `is' holds the bytes of a basic value, the elements of an      *)
(* array, the pairs of a map in the order in which they are encoded, the   *)
(* fields of a struct, or the value in a variant.                          *)
(***************************************************************************)
Basic(code, bytes) == [sig |-> <<code>>, is |-> bytes]
ArrayOf(elem, values) == [sig |-> <<Code.a>> \o elem, is |-> values]
MapOf(key, value, pairs) ==
  [sig |-> <<Code.a, Code.pair>> \o key \o value \o <<Code.endPair>>, is |-> pairs]
StructOf(fields) ==
  [sig |-> <<Code.struct>> \o FlattenSeq([i \in DOMAIN fields |-> fields[i].sig])
             \o <<Code.endStruct>>,
   is |-> fields]
VariantOf(value) == [sig |-> <<Code.v>>, is |-> value]

\* A value of a Go type that has no signature, such as int.
NoSignature == [sig |-> <<>>, is |-> <<>>]

IsMap(sg) == Len(sg) > 1 /\ sg[1] = Code.a /\ sg[2] = Code.pair

\* SignatureOf finds a signature on the way through the whole value: what its
\* type hides is in its variants.
RECURSIVE Encodable(_)
Encodable(value) ==
  /\ value.sig # <<>>
  /\ value.sig[1] = Code.v => Encodable(value.is)
  /\ IsMap(value.sig) => \A i \in DOMAIN value.is : /\ Encodable(value.is[i][1])
                                                    /\ Encodable(value.is[i][2])
  /\ value.sig[1] \in {Code.a, Code.struct} /\ ~ IsMap(value.sig) =>
       \A i \in DOMAIN value.is : Encodable(value.is[i])

(***************************************************************************)
(* NextType: the offset behind the type that begins at an offset.          *)
(***************************************************************************)
NoType == -1

\* Mutated form: the brace itself is not consumed.
EndOfPair_KeepsBrace(sg, offset) ==
  IF offset \in 0..Len(sg) - 1 /\ sg[offset + 1] = Code.endPair THEN offset ELSE NoType

EndOfPair(sg, offset) ==
  IF offset \in 0..Len(sg) - 1 /\ sg[offset + 1] = Code.endPair THEN offset + 1 ELSE NoType

RECURSIVE NextType(_, _), EndOfStruct(_, _)
NextType(sg, offset) ==
  IF offset \notin 0..Len(sg) - 1 THEN NoType
  ELSE LET code == sg[offset + 1]
           next == NextType(sg, offset + 1)
           last == NextType(sg, next)
       IN  CASE code \in BasicCodes \union {Code.v} -> offset + 1
             [] code = Code.a -> next
             [] code = Code.pair -> EndOfPair(sg, last)
             [] code = Code.struct -> EndOfStruct(sg, offset + 1)
             [] OTHER -> NoType
EndOfStruct(sg, offset) ==
  IF offset \in 0..Len(sg) - 1 /\ sg[offset + 1] = Code.endStruct THEN offset + 1
  ELSE LET next == NextType(sg, offset)
       IN  IF next = NoType THEN NoType ELSE EndOfStruct(sg, next)

(***************************************************************************)
(* The encoder.                                                            *)
(***************************************************************************)
\* alignForType, of a type with the given signature.
AlignOf(sg) ==
  CASE sg[1] \in BasicCodes -> SizeOf(sg[1])
    [] sg[1] = Code.v -> 1
    [] sg[1] = Code.a -> 4
    [] sg[1] = Code.struct -> 8

RECURSIVE AppendValue(_, _)
AppendValue(data, value) ==
  LET at == Align(data, AlignOf(value.sig))
      AppendPair(content, pair) == AppendValue(AppendValue(Align(content, 8), pair[1]), pair[2])
  IN  CASE value.sig[1] \in BasicCodes -> PutBasic(data, value.sig[1], value.is)
        [] IsMap(value.sig) -> WithLength(at, FoldLeft(AppendPair, <<>>, value.is), 8)
        [] value.sig[1] = Code.a /\ ~ IsMap(value.sig) ->
             WithLength(at, FoldLeft(AppendValue, <<>>, value.is), AlignOf(Tail(value.sig)))
        [] value.sig[1] = Code.v -> AppendValue(AppendValue(at, Basic(Code.g, value.is.sig)), value.is)
        [] value.sig[1] = Code.struct -> FoldLeft(AppendValue, at, value.is)

(***************************************************************************)
(* The decoder.  A value is decoded into a variable of its own type or, if *)
(* blank, into an interface{}, which for an array or a struct gets a slice *)
(* and for a map a map of such.                                            *)
(***************************************************************************)
\* Decoded values, as sequences of numbers: the type and the bytes of a basic one,
\* and what an array, a map or a struct is made of.
Leaf(code, bytes) == <<code, Len(bytes)>> \o bytes
Compound(values) == <<Code.a, Len(values)>> \o FlattenSeq(values)


RECURSIVE DecodeValue(_, _), Elements(_, _, _, _, _), Fields(_, _, _)

\* The elements of an array that begins at a type code, as far as its end.
Elements(d, elemSig, end, values, blank) ==
  IF d.failed \/ d.dataOffset >= end THEN [d EXCEPT !.value = Compound(values)]
  ELSE LET elem == DecodeValue(ToElement(d, elemSig), blank)
       IN  Elements(elem, elemSig, end, Append(values, elem.value), blank)

\* Mutated form: the key's type is taken for the value's.
ValueOffset_OfKey(key, elemSig, blank) == IF blank THEN elemSig + 1 ELSE key.sigOffset

\* Where the type of a value in a map is: behind the key's, which for a blank
\* interface is taken to be one character.
ValueOffset(key, elemSig, blank) == IF blank THEN elemSig + 2 ELSE key.sigOffset

RECURSIVE Pairs(_, _, _, _, _)
Pairs(d, elemSig, end, pairs, blank) ==
  IF d.failed \/ d.dataOffset >= end THEN [d EXCEPT !.value = Compound(pairs)]
  ELSE LET key == DecodeValue([d EXCEPT !.dataOffset = AlignUp(@, 8), !.sigOffset = elemSig + 1], blank)
           value == DecodeValue([key EXCEPT !.sigOffset = ValueOffset(key, elemSig, blank)], blank)
       IN  Pairs(value, elemSig, end, Append(pairs, key.value \o value.value), blank)

\* The fields of a struct, up to a closing parenthesis.
Fields(d, values, blank) ==
  IF d.failed \/ ~ HasMore(d) \/ (HasMore(d) /\ CodeAt(d) = Code.endStruct)
  THEN [d EXCEPT !.value = Compound(values)]
  ELSE LET field == DecodeValue(d, blank) IN Fields(field, Append(values, field.value), blank)

DecodeArray(d, blank) ==
  LET after == NextType(d.signature, d.sigOffset)
      at == AtElements(d)
      end == EndOfElements(d)
      all == IF CodeAt(d) = Code.pair THEN Pairs(at, d.sigOffset, end, <<>>, blank)
                                      ELSE Elements(at, d.sigOffset, end, <<>>, blank)
  IN  IF ReadFixed(d, 4).failed \/ after = NoType \/ Len(d.data) < end THEN Failed(ReadFixed(d, 4))
      ELSE [all EXCEPT !.sigOffset = after]

\* Mutated form: a struct in a variable of its own type is not left behind.
DecodeStruct_KeepsParenthesis(d, blank) ==
  Fields([d EXCEPT !.dataOffset = AlignUp(@, 8)], <<>>, blank)

\* Only a variable of its own type is left behind the closing parenthesis.
DecodeStruct(d, blank) ==
  LET all == Fields([d EXCEPT !.dataOffset = AlignUp(@, 8)], <<>>, blank)
  IN  IF blank THEN all
      ELSE IF HasMore(all) THEN [all EXCEPT !.sigOffset = @ + 1] ELSE Failed(all)

\* What is in a variant goes to a blank interface, through a decoder of its own.
DecodeVariant(d) ==
  LET inner == ReadString(d, 1)
      value == DecodeValue(NewDecoder(inner.value, d.data, inner.dataOffset), TRUE)
  IN  IF inner.failed \/ value.failed THEN Failed(inner)
      ELSE [inner EXCEPT !.value = value.value, !.dataOffset = value.dataOffset]

DecodeValue(d, blank) ==
  IF d.failed \/ ~ HasMore(d) THEN Failed(d)
  ELSE LET code == CodeAt(d)
           next == PastCode(d)
       IN  CASE code \in BasicCodes -> [DecodeBasic(d) EXCEPT !.value = Leaf(code, @)]
             [] code = Code.a -> DecodeArray(next, blank)
             [] code = Code.struct -> DecodeStruct(next, blank)
             [] code = Code.v -> DecodeVariant(next)
             [] OTHER -> Failed(next)

(***************************************************************************)
(* Message.Args and Message.AllArgs.  Where decoding fails, Args returns   *)
(* an error, None, and AllArgs panics, Panic.                              *)
(***************************************************************************)
None == << <<-1>> >>
Panic == << <<-2>> >>

RECURSIVE Decode(_, _, _, _)
Decode(d, n, values, blank) ==
  IF n = 0 THEN values
  ELSE LET arg == DecodeValue(d, blank)
       IN  IF arg.failed THEN None ELSE Decode(arg, n - 1, Append(values, arg.value), blank)

Args(blank) == Decode(NewDecoder(sig, body, 0), Len(args), <<>>, blank)

\* Mutated form: it stops one type code early.
RECURSIVE DecodeAll_MissesLast(_, _)
DecodeAll_MissesLast(d, values) ==
  IF d.sigOffset + 1 >= Len(d.signature) THEN values
  ELSE LET arg == DecodeValue(d, TRUE)
       IN  IF arg.failed THEN Panic ELSE DecodeAll_MissesLast(arg, Append(values, arg.value))

RECURSIVE DecodeAll(_, _)
DecodeAll(d, values) ==
  IF ~ HasMore(d) THEN values
  ELSE LET arg == DecodeValue(d, TRUE)
       IN  IF arg.failed THEN Panic ELSE DecodeAll(arg, Append(values, arg.value))

AllArgs == DecodeAll(NewDecoder(sig, body, 0), <<>>)

(***************************************************************************)
(* The message that is made: module MessageStream says when.               *)
(***************************************************************************)
Init == sig = <<>> /\ body = <<>> /\ args = <<>>

\* The encoder goes on where the message ends; a value that cannot be encoded
\* changes nothing.
AppendArgs(value) ==
  /\ Len(args) < MaxArgs
  /\ IF Encodable(value)
     THEN /\ sig' = sig \o value.sig
          /\ body' = AppendValue(body, value)
          /\ args' = Append(args, value)
     ELSE UNCHANGED vars

(***************************************************************************)
(* What a decoder should make of a value, and where the code does not.     *)
(***************************************************************************)
RECURSIVE Plain(_)
Plain(value) ==
  CASE value.sig[1] = Code.v -> Plain(value.is)
    [] IsMap(value.sig) -> Compound([i \in DOMAIN value.is |->
                                       Plain(value.is[i][1]) \o Plain(value.is[i][2])])
    [] value.sig[1] \in {Code.a, Code.struct} /\ ~ IsMap(value.sig) ->
         Compound([i \in DOMAIN value.is |-> Plain(value.is[i])])
    [] OTHER -> Leaf(value.sig[1], value.is)

Expected == [i \in DOMAIN args |-> Plain(args[i])]

\* The encoding that the decoder reads: the content of an array is padded where
\* it stands in the message.
RECURSIVE InPlace(_, _)
InPlace(data, value) ==
  LET at == Align(data, AlignOf(value.sig))
      AppendPair(content, pair) == InPlace(InPlace(Align(content, 8), pair[1]), pair[2])
      Start(n) == Align(at \o Uint32(0), n)
      Measured(all, n) ==
        at \o Uint32(Len(all) - Len(Start(n))) \o SubSeq(all, Len(at) + 5, Len(all))
  IN  CASE IsMap(value.sig) -> Measured(FoldLeft(AppendPair, Start(8), value.is), 8)
        [] value.sig[1] = Code.a /\ ~ IsMap(value.sig) ->
             LET n == AlignOf(Tail(value.sig))
             IN  Measured(FoldLeft(InPlace, Start(n), value.is), n)
        [] value.sig[1] = Code.v -> InPlace(InPlace(at, Basic(Code.g, value.is.sig)), value.is)
        [] value.sig[1] = Code.struct -> FoldLeft(InPlace, at, value.is)
        [] OTHER -> AppendValue(data, value)

IsInPlace == body = FoldLeft(InPlace, <<>>, args)

\* What is in a value.
Parts(value) ==
  CASE value.sig[1] = Code.v -> {value.is}
    [] IsMap(value.sig) -> UNION {{value.is[i][1], value.is[i][2]} : i \in DOMAIN value.is}
    [] value.sig[1] \in {Code.a, Code.struct} /\ ~ IsMap(value.sig) -> ToSet(value.is)
    [] OTHER -> {}

IsStruct(value) == value.sig[1] = Code.struct

\* An array whose elements are arrays, maps or variants: they are aligned to 4 or
\* not at all, and so is the content, but what they hold may be aligned to 8.
RECURSIVE NestsArrays(_)
NestsArrays(value) ==
  \/ value.sig[1] = Code.a /\ value.sig[2] \in {Code.a, Code.v}
  \/ \E part \in Parts(value) : NestsArrays(part)

\* A struct is followed by another value, and both go to a blank interface.
RECURSIVE CutsShort(_, _)
CutsShort(value, blank) ==
  \/ blank /\ IsStruct(value) /\ \E i \in 1..Len(value.is) - 1 : IsStruct(value.is[i])
  \/ \E part \in Parts(value) : CutsShort(part, blank \/ value.sig[1] = Code.v)

(***************************************************************************)
(* Properties.                                                             *)
(***************************************************************************)
\* The signature of a message is taken apart by NextType into those of its
\* arguments, one after the other.
SignatureWalks ==
  \A i \in DOMAIN args :
     LET before == FlattenSeq([j \in 1..i - 1 |-> args[j].sig])
     IN  NextType(sig, Len(before)) = Len(before) + Len(args[i].sig)

\* The buffer of its own in which the content of an array is encoded makes no
\* difference, wherever the array begins, unless arrays or variants are nested in
\* it.
EncodedInPlace == (\A i \in DOMAIN args : ~ NestsArrays(args[i])) => IsInPlace

\* Args returns what was appended to variables of the same types exactly if
\* everything is where the decoder looks for it, and no variant holds a struct
\* that is cut short.
ArgsRoundTrip ==
  Args(FALSE) = Expected <=> IsInPlace /\ \A i \in DOMAIN args : ~ CutsShort(args[i], FALSE)

\* For blank interfaces, no struct may be followed by anything either: its closing
\* parenthesis is taken for the type of the next argument.
BlankRoundTrip ==
  Args(TRUE) = Expected <=>
    /\ IsInPlace
    /\ \A i \in DOMAIN args : ~ CutsShort(args[i], TRUE)
    /\ \A i \in 1..Len(args) - 1 : ~ IsStruct(args[i])

\* "This method is equivalent to calling Args and passing pointers to blank
\* interface values for each message argument": if no argument is a struct, it
\* returns what Args returns, and panics exactly where Args returns an error.
AllArgsAgrees ==
  (\A i \in DOMAIN args : ~ IsStruct(args[i])) =>
    AllArgs = IF Args(TRUE) = None THEN Panic ELSE Args(TRUE)
=============================================================================
