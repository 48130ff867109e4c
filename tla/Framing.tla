------------------------------ MODULE Framing -------------------------------
(***************************************************************************)
(* Messages on a stream (message.go): WriteTo writes 16 bytes, the header  *)
(* fields, padding and the body, and readMessage of the peer finds them    *)
(* among the bytes.                                                        *)
(*                                                                         *)
(* How header fields are encoded is left open here: module MessageStream   *)
(* says how, and how a message is made.                                    *)
(***************************************************************************)
EXTENDS Wire

CONSTANTS
  Messages,        \* the messages that may be sent
  EncodeFields(_), \* the bytes of header fields, as the encoder makes them
  DecodeFields(_), \* what the decoder finds in the bytes before the body,
  NoFields         \* or that it fails

VARIABLES
  wire,   \* the bytes that were written and not read
  sent,   \* history: the messages that were written
  got,    \* the messages that readMessage returned
  reader  \* "reading"; "short" or "invalid" when it returned an error

framingVars == <<wire, sent, got, reader>>

\* Up to 2^32 bytes.
Contents == {content \in Seq(Byte) : IsUint32(Len(content))}

LittleEndian == 108

(***************************************************************************)
(* WriteTo.  Flags are 0, and the version of the protocol is 1.            *)
(***************************************************************************)
Preamble(m) ==
  PutBasic(PutBasic(<<LittleEndian, m.type, 0, 1>>, Code.u, Uint32(Len(m.body))),
           Code.u, Uint32(m.serial))

Header(m) == Align(WithLength(Align(Preamble(m), 4), EncodeFields(m.fields), 8), 8)

WriteTo(m) == Header(m) \o m.body

\* What is in the header is found there again.
ASSUME FieldsAssumption ==
  \A m \in Messages :
     /\ m = [type |-> m.type, serial |-> m.serial, fields |-> m.fields, body |-> m.body]
     /\ m.type \in Byte /\ IsUint32(m.serial) /\ m.body \in Contents
     /\ EncodeFields(m.fields) \in Contents
     /\ DecodeFields(Header(m)) = m.fields /\ m.fields # NoFields

(***************************************************************************)
(* readMessage.                                                            *)
(***************************************************************************)
\* Mutated form: a full 8 bytes where none are missing.
Padding_NeverNone(n) == 8 - ((16 + n) % 8)

\* What is missing to a multiple of 8 behind n bytes of header fields.
Padding(n) == (-(16 + n)) % 8

\* The number that follows that many bytes.
NumberAt(bytes, offset) == Number(SubSeq(bytes, offset + 1, offset + 4))

(***************************************************************************)
(* Actions.                                                                *)
(***************************************************************************)
FramingInit == wire = <<>> /\ sent = <<>> /\ got = <<>> /\ reader = "reading"

Write(m) ==
  /\ sent' = Append(sent, m) /\ wire' = wire \o WriteTo(m)
  /\ UNCHANGED <<got, reader>>

\* One Read for the 16 bytes at the start, and one for the rest of the header:
\* either may return fewer bytes than it has room for, and is not repeated.
ReadShort ==
  /\ reader = "reading" /\ wire # <<>>
  /\ reader' = "short"
  /\ UNCHANGED <<wire, sent, got>>

\* The body may come in any number of pieces.
ReadMessage ==
  LET bodyLength == NumberAt(wire, 4)
      fieldsLength == NumberAt(wire, 12)
      end == 16 + fieldsLength + Padding(fieldsLength)
      fields == DecodeFields(SubSeq(wire, 1, end))
  IN  /\ reader = "reading" /\ wire # <<>>
      /\ IF \/ Len(wire) < 16 \/ wire[1] # LittleEndian
            \/ Len(wire) < end + bodyLength \/ fields = NoFields
         THEN reader' = "invalid" /\ UNCHANGED <<wire, got>>
         ELSE /\ got' = Append(got, [type |-> wire[2], serial |-> NumberAt(wire, 8), fields |-> fields,
                                     body |-> SubSeq(wire, end + 1, end + bodyLength)])
              /\ wire' = SubSeq(wire, end + bodyLength + 1, Len(wire))
              /\ UNCHANGED reader
      /\ UNCHANGED sent

FramingNext == (\E m \in Messages : Write(m)) \/ ReadShort \/ ReadMessage

FramingSpec == FramingInit /\ [][FramingNext]_framingVars

(***************************************************************************)
(* Properties.                                                             *)
(***************************************************************************)
\* Whatever the lengths of header fields and body, every message is read as it
\* was written, with all its header fields, and the next one is found right
\* behind it: readMessage fails only when one of its two Reads comes up short.
ReadAsWritten == reader # "invalid" /\ got = SubSeq(sent, 1, Len(got))
=============================================================================
