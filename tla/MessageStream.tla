---------------------------- MODULE MessageStream ----------------------------
(***************************************************************************)
(* Messages that an application makes with a constructor and AppendArgs    *)
(* (message.go), and sends: their header fields in the encoding of module  *)
(* Codec, on the stream of module Framing.  The arguments of a message     *)
(* that is never sent are those of module Codec, and it has no header.     *)
(***************************************************************************)
EXTENDS Codec, Framing

CONSTANTS
  Constructed, \* what the constructors may be asked for
  SentValues,  \* bound: the arguments of messages that are sent
  MaxSent,     \* bound: how many are sent
  NoHeader

VARIABLE header \* the type and the fields of the message that is made, or NoHeader

draftVars == <<sig, body, args, header>>
streamVars == <<draftVars, framingVars>>

(***************************************************************************)
(* The constructors.  A missing string is empty.                           *)
(***************************************************************************)
Type == [call |-> 1, return |-> 2, error |-> 3, signal |-> 4]
NoField ==
  [path |-> <<>>, interface |-> <<>>, member |-> <<>>, errorName |-> <<>>,
   replySerial |-> 0, dest |-> <<>>, sender |-> <<>>, sig |-> <<>>]
NewMethodCall(dest, path, iface, member) ==
  [type |-> Type.call,
   fields |-> [NoField EXCEPT !.dest = dest, !.path = path, !.interface = iface, !.member = member]]
NewSignal(path, iface, member) ==
  [type |-> Type.signal,
   fields |-> [NoField EXCEPT !.path = path, !.interface = iface, !.member = member]]
NewMethodReturn(serial, sender) ==
  [type |-> Type.return, fields |-> [NoField EXCEPT !.replySerial = serial, !.dest = sender]]
NewError(serial, sender, name) ==
  [type |-> Type.error,
   fields |-> [NoField EXCEPT !.replySerial = serial, !.dest = sender, !.errorName = name]]
\* The bus adds the sender to what it passes on.
From(sender, message) == [message EXCEPT !.fields.sender = sender]

(***************************************************************************)
(* The header.                                                             *)
(***************************************************************************)
FieldSig == <<Code.struct, Code.y, Code.v, Code.endStruct>>
Field(code, value) == StructOf(<<Basic(Code.y, <<code>>), VariantOf(value)>>)
StringField(code, bytes) == IF bytes = <<>> THEN <<>> ELSE <<Field(code, Basic(Code.s, bytes))>>

HeaderFields(f) ==
  StringField(1, f.path) \o StringField(2, f.interface) \o StringField(3, f.member)
  \o StringField(4, f.errorName)
  \o (IF f.replySerial = 0 THEN <<>> ELSE <<Field(5, Basic(Code.u, Uint32(f.replySerial)))>>)
  \o StringField(6, f.dest) \o StringField(7, f.sender)
  \o (IF f.sig = <<>> THEN <<>> ELSE <<Field(8, Basic(Code.g, f.sig))>>)

\* The content of the array of header fields.
FieldsEncoded(f) == FoldLeft(AppendValue, <<>>, HeaderFields(f))

\* The fields that were decoded, as Codec gives them: <<a, n, field, ...>>, and a
\* field is <<a, 2, y, 1, code, type, length, bytes ...>>.
RECURSIVE SetFields(_, _)
SetFields(f, decoded) ==
  IF decoded = <<>> THEN f
  ELSE LET code == decoded[5]
           end == 7 + decoded[7]
           value == SubSeq(decoded, 8, end)
           now == CASE code = 1 -> [f EXCEPT !.path = value]
                    [] code = 2 -> [f EXCEPT !.interface = value]
                    [] code = 3 -> [f EXCEPT !.member = value]
                    [] code = 4 -> [f EXCEPT !.errorName = value]
                    [] code = 5 -> [f EXCEPT !.replySerial = Number(value)]
                    [] code = 6 -> [f EXCEPT !.dest = value]
                    [] code = 7 -> [f EXCEPT !.sender = value]
                    [] code = 8 -> [f EXCEPT !.sig = value]
                    [] OTHER -> f
       IN  SetFields(now, SubSeq(decoded, end + 1, Len(decoded)))

\* The array that begins at offset 12.
FieldsDecoded(bytes) ==
  LET all == DecodeValue(NewDecoder(<<Code.a>> \o FieldSig, bytes, 12), FALSE)
  IN  IF all.failed THEN NoFields ELSE SetFields(NoField, SubSeq(all.value, 3, Len(all.value)))

(***************************************************************************)
(* Actions.                                                                *)
(***************************************************************************)
StreamInit == Init /\ header = NoHeader /\ FramingInit

\* An error message has the text as its first argument.
Construct(m) ==
  /\ header = NoHeader /\ args = <<>> /\ Len(sent) < MaxSent
  /\ header' = m
  /\ IF m.type = Type.error THEN \E value \in SentValues : AppendArgs(value)
                            ELSE UNCHANGED <<sig, body, args>>
  /\ UNCHANGED framingVars

AppendToMessage(value) ==
  /\ IF header = NoHeader THEN sent = <<>> ELSE value \in SentValues
  /\ AppendArgs(value)
  /\ UNCHANGED <<header, framingVars>>

\* The serial is the number of the message.  The next one is a new message.
Send ==
  /\ header # NoHeader
  /\ Write([type |-> header.type, serial |-> Len(sent) + 1,
            fields |-> [header.fields EXCEPT !.sig = sig], body |-> body])
  /\ header' = NoHeader /\ sig' = <<>> /\ body' = <<>> /\ args' = <<>>

Receive == (ReadShort \/ ReadMessage) /\ UNCHANGED draftVars

StreamNext ==
  \/ \E m \in Constructed : Construct(m)
  \/ \E value \in Values : AppendToMessage(value)
  \/ Send \/ Receive

StreamSpec == StreamInit /\ [][StreamNext]_streamVars
=============================================================================
