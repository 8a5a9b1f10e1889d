-------------------------------- MODULE Payloads --------------------------------
(* The bytes of a message: how a value becomes a payload and is read back, how    *)
(* the tools name and show a payload they know nothing about, and the header      *)
(* frame.                                                                         *)
(* Models src/common/anyframe.h, the codec of src/common/connectionmanager.h,     *)
(* src/common/wireframe.h, src/cli/payloadformat.cpp and the part of              *)
(* src/inspector/protoutils.h that recognizes payloads.  What protobuf does is    *)
(* external.                                                                      *)
EXTENDS Integers, Sequences, SequencesExt, FiniteSets, FiniteSetsExt

CONSTANTS Bytes,           \* bytes that payloads are built from
          MaxPayload,      \* bound: bytes of such a payload
          WordBits,        \* 64
          MaxShown         \* --max-bytes

VARIABLES payload,         \* the bytes of some payload or header frame
          value            \* what a client sends
payloadVars == <<payload, value>>

TYPE_URL_PREFIX == <<116>>         \* "type.googleapis.com/", with its slash
KnownTypes == {<<1>>, <<2>>}       \* those in the generated pool
StructSize == 2
From(s, i) == SubSeq(s, i, Len(s))
--------------------------------------------------------------------------------
(* readVarint: the end is the first byte without the high bit, if there is one    *)
(* among as many bytes as the word has shifts of 7; 0 if not.                     *)
VarintBytes == (WordBits + 6) \div 7
VarintEnd(raw, pos) ==
    Min({i \in pos .. Min({Len(raw), pos + VarintBytes - 1}) : raw[i] < 128} \cup {Len(raw) + 1}) % (Len(raw) + 1)
Varint(raw, pos) ==
    MapThenSumSet(LAMBDA i : (raw[i] % 128) * 2 ^ (7 * (i - pos)), pos .. VarintEnd(raw, pos)) % 2 ^ WordBits

(* The position behind what a field holds, 0 if the bytes end before.             *)
Fixed(raw, pos, size) == IF Len(raw) - pos + 1 < size THEN 0 ELSE pos + size
SkippedShort(raw, at, length) == IF at = 1 \/ length >= Len(raw) - at + 1 THEN 0 ELSE at + length
Skipped(raw, at, length) == IF at = 1 \/ length > Len(raw) - at + 1 THEN 0 ELSE at + length
FieldEndAt(raw, at, wire) ==
    CASE wire = 0 -> IF VarintEnd(raw, at) = 0 THEN 0 ELSE VarintEnd(raw, at) + 1
      [] wire = 1 -> Fixed(raw, at, 8)
      [] wire = 2 -> Skipped(raw, VarintEnd(raw, at) + 1, Varint(raw, at))
      [] wire = 5 -> Fixed(raw, at, 4)
      [] OTHER -> 0
FieldEnd(raw, pos) ==
    IF VarintEnd(raw, pos) = 0 THEN 0 ELSE FieldEndAt(raw, VarintEnd(raw, pos) + 1, Varint(raw, pos) % 8)

(* A field's number, and its bytes if it is length-delimited.                     *)
FieldNumber(raw, pos) == Varint(raw, pos) \div 8
Delimited(raw, pos) == Varint(raw, pos) % 8 = 2
FieldBytes(raw, pos, end) == SubSeq(raw, VarintEnd(raw, VarintEnd(raw, pos) + 1) + 1, end - 1)
(* The last field 1 and the last field 2 count.                                   *)
read(raw) ==
    LET walk[pos \in 1 .. Len(raw) + 1] ==
            IF pos = Len(raw) + 1 THEN [ok |-> TRUE, starts |-> {}]
            ELSE IF FieldEnd(raw, pos) = 0 THEN [ok |-> FALSE, starts |-> {}]
            ELSE LET rest == walk[FieldEnd(raw, pos)]
                 IN  [rest EXCEPT !.starts = @ \cup {pos}]
        LastOf(n) == LET at == {p \in walk[1].starts : FieldNumber(raw, p) = n /\ Delimited(raw, p)}
                     IN  IF at = {} THEN <<>> ELSE FieldBytes(raw, Max(at), FieldEnd(raw, Max(at)))
    IN  [ok |-> walk[1].ok, typeUrl |-> LastOf(1), value |-> LastOf(2)]

NamesType(any) == any.ok /\ IsPrefix(TYPE_URL_PREFIX, any.typeUrl)
TypeName(any) == IF NamesType(any) THEN From(any.typeUrl, Len(TYPE_URL_PREFIX) + 1) ELSE <<>>
isAny(raw) == NamesType(read(raw))
typeNameOf(raw) == TypeName(read(raw))
--------------------------------------------------------------------------------
(* External: protobuf's parser takes whatever is wire-valid, since it keeps the   *)
(* fields it does not know.                                                       *)
Parses(bytes) == read(bytes).ok

Refused == [ok |-> FALSE, body |-> <<>>]
Got(bytes) == [ok |-> TRUE, body |-> bytes]
Unpacked(any, type) == IF TypeName(any) = type /\ Parses(any.value) THEN Got(any.value) ELSE Refused
tryUnpack(raw, type) ==
    IF isAny(raw) THEN Unpacked(read(raw), type) ELSE IF Parses(raw) THEN Got(raw) ELSE Refused

LengthBytes(n) ==
    LET bytes[k \in 0 .. n] == IF k >= 128 THEN <<128 + (k % 128)>> \o bytes[k \div 128] ELSE <<k>>
    IN  bytes[n]
appendLengthDelimited(tag, bytes) == <<tag>> \o LengthBytes(Len(bytes)) \o bytes

(* External: what an application's DataSerializer writes, and throws at.          *)
serialize(body) == <<126>> \o body
deserialize(raw) == IF raw # <<>> /\ raw[1] = 126 THEN Got(From(raw, 2)) ELSE Refused

encodePayload(v) ==
    CASE v.kind = "custom"   -> serialize(v.body)
      [] v.kind = "protobuf" -> appendLengthDelimited(10, TYPE_URL_PREFIX \o v.type) \o appendLengthDelimited(18, v.body)
      [] v.kind \in {"string", "struct"} -> v.body
decodePayload(raw, kind, type) ==
    CASE kind = "custom"   -> deserialize(raw)
      [] kind = "protobuf" -> tryUnpack(raw, type)
      [] kind = "string"   -> Got(raw)
      [] kind = "struct"   -> IF Len(raw) # StructSize THEN Refused ELSE Got(raw)
--------------------------------------------------------------------------------
(* The command line tool.  A rendering is a sequence of characters, escapes and   *)
(* pairs of hex digits, each for one byte, and the note that ends it.             *)
escapeControlCharacters(bytes) ==
    [i \in DOMAIN bytes |-> IF bytes[i] < 32 \/ bytes[i] = 127 THEN <<"escape", bytes[i]>> ELSE <<"char", bytes[i]>>]
truncationNote(total, shown) == IF total <= shown THEN <<>> ELSE <<<<"more", total - shown>>>>
looksLikeText(bytes) == \A b \in Range(bytes) : b >= 32 \/ b \in {9, 10, 13}
toHex(bytes) ==
    LET shown == Min({Len(bytes), MaxShown})
    IN  [i \in 1 .. shown |-> <<"hex", bytes[i]>>] \o truncationNote(Len(bytes), shown)

(* External: protobuf's text of a message, of printable characters.               *)
PrintToString(bytes) == [i \in 1 .. 3 * Len(bytes) |-> 65]
Rendered(any) ==
    IF TypeName(any) \in KnownTypes /\ Parses(any.value) THEN TypeName(any) \o PrintToString(any.value) ELSE <<>>
renderPackedAny(raw) == Rendered(read(raw))

(* decoded is what renderPackedAny made of the payload.                           *)
RenderedAs(raw, format, decoded) ==
    LET budget == Min({Len(decoded), 4 * MaxShown})
        shown == Min({Len(raw), MaxShown})
    IN  CASE raw = <<>> -> <<<<"empty", 0>>>>
          [] raw # <<>> /\ format = "hex" -> toHex(raw)
          [] raw # <<>> /\ format = "auto" /\ decoded # <<>> ->
                 escapeControlCharacters(SubSeq(decoded, 1, budget)) \o (IF budget < Len(decoded) THEN <<<<"more", 0>>>> ELSE <<>>)
          [] raw # <<>> /\ format = "auto" /\ decoded = <<>> /\ ~ looksLikeText(raw) -> toHex(raw)
          [] OTHER -> escapeControlCharacters(SubSeq(raw, 1, shown)) \o truncationNote(Len(raw), shown)
renderPayload(raw, format) == RenderedAs(raw, format, renderPackedAny(raw))
--------------------------------------------------------------------------------
(* The inspector takes the name behind the last slash, and protobuf's own parser. *)
lastSlash(url) == Max({i \in DOMAIN url : url[i] = 116} \cup {0})
dynamicallyUnpack(any) ==
    LET name == From(any.typeUrl, lastSlash(any.typeUrl) + 1)
    IN  IF name \in KnownTypes /\ Parses(any.value) THEN name ELSE <<>>
drawEnvelopeAndPayload(raw) ==
    CASE raw = <<>> -> "nothing"
      [] raw # <<>> /\ ~ isAny(raw) -> "raw"
      [] OTHER -> IF dynamicallyUnpack(read(raw)) # <<>> THEN "message" ELSE "unknown"
--------------------------------------------------------------------------------
encodeHeader(header) == <<1>> \o header
decodeHeaderFrame(frame) ==
    IF Len(frame) >= 1 /\ frame[1] = 1 /\ Parses(From(frame, 2)) THEN Got(From(frame, 2)) ELSE Refused
--------------------------------------------------------------------------------
(* Bodies that are messages: empty, of one field, of a length that takes two      *)
(* bytes, and one that is itself packed.                                          *)
Bodies == {<<>>, <<10, 0>>, <<10, 127>> \o [i \in 1 .. 127 |-> 0],
           <<10, 2, 116, 1, 18, 0>>}
Values == [kind : {"custom", "string", "protobuf"}, type : KnownTypes, body : Bodies]
              \cup [kind : {"struct"}, type : KnownTypes, body : {<<0, 10>>, <<116, 129>>}]

PayloadInit ==
    /\ value \in Values
    /\ payload \in {<<>>, <<9, 0, 0, 0, 0, 0, 0, 0>>}
PayloadNext ==
    /\ value = [kind |-> "string", type |-> <<1>>, body |-> <<>>]
    /\ Len(payload) < MaxPayload \/ Len(payload) \in 8 .. 9
    /\ \E b \in Bytes : payload' = Append(payload, b)
    /\ UNCHANGED value
--------------------------------------------------------------------------------
IsVarint(s) == s # <<>> /\ Len(s) <= VarintBytes /\ \A i \in DOMAIN s : s[i] < 128 <=> i = Len(s)
IsField(s) ==
    \E k \in DOMAIN s :
        LET rest == From(s, k + 1)
            wire == Varint(s, 1) % 8
        IN  /\ IsVarint(SubSeq(s, 1, k))
            /\ \/ wire = 0 /\ IsVarint(rest)
               \/ wire = 1 /\ Len(rest) = 8
               \/ wire = 2 /\ \E j \in DOMAIN rest : IsVarint(SubSeq(rest, 1, j)) /\ Varint(rest, 1) = Len(rest) - j
               \/ wire = 5 /\ Len(rest) = 4
IsMessage(raw) ==
    \E cuts \in SUBSET (1 .. Len(raw) - 1) :
        LET bounds == cuts \cup {0, Len(raw)}
        IN  \A a \in bounds \ {Len(raw)} : IsField(SubSeq(raw, a + 1, Min({b \in bounds : b > a})))
(* The one pass of AnyFrame::read over the bytes accepts those that can be cut    *)
(* into well-formed fields, and no others, overlong varints and fields that end   *)
(* with the last byte included.                                                   *)
ReadMatchesGrammar == read(payload).ok = IsMessage(payload)

UnderstoodBy(v, raw) ==
    /\ decodePayload(raw, v.kind, v.type) = Got(v.body)
    /\ v.kind = "protobuf" =>
           /\ typeNameOf(raw) = v.type /\ renderPackedAny(raw) # <<>>
           /\ drawEnvelopeAndPayload(raw) = "message"

(* Whatever a client sends, a receiver of the same type gets back; and a message  *)
(* is recognized by both tools, whose readers differ.                             *)
EveryoneUnderstands == UnderstoodBy(value, encodePayload(value))

(* A message never reaches a callback of another type, although its bytes would   *)
(* parse as that one.                                                             *)
NotMisread ==
    value.kind = "protobuf" =>
        \A type \in KnownTypes \ {value.type} : ~ decodePayload(encodePayload(value), "protobuf", type).ok

Noted(out) == SelectSeq(out, LAMBDA c : c[1] = "more")
Shown(out) == SelectSeq(out, LAMBDA c : c[1] \notin {"more", "empty"})
ReadableAs(format, out, notes, shown, decoded) ==
    /\ \A i \in DOMAIN out : out[i][1] = "char" => out[i][2] >= 32 /\ out[i][2] # 127
    /\ IF format = "auto" /\ decoded # <<>>
       THEN /\ Len(shown) <= 4 * MaxShown
            /\ (notes = <<>>) = (Len(shown) = Len(decoded))
       ELSE /\ IsPrefix([i \in DOMAIN shown |-> shown[i][2]], payload) /\ Len(shown) <= MaxShown
            /\ Len(payload) = Len(shown) + (IF notes = <<>> THEN 0 ELSE notes[1][2])
ReadableOut(format, out, decoded) == ReadableAs(format, out, Noted(out), Shown(out), decoded)

(* What renderPayload prints has no control character in any format, stays within *)
(* its budget, and where it shows bytes they are the first ones of the payload    *)
(* and the note counts the others.                                                *)
RenderIsReadable ==
    \A format \in {"auto", "text", "hex"} :
        ReadableOut(format, renderPayload(payload, format), renderPackedAny(payload))

(* Every header, the empty one included, survives its frame, and a frame of       *)
(* another format, or of none, is not taken for a header.                         *)
HeaderSurvives ==
    /\ Parses(payload) => decodeHeaderFrame(encodeHeader(payload)) = Got(payload)
    /\ decodeHeaderFrame(payload).ok => encodeHeader(decodeHeaderFrame(payload).body) = payload
================================================================================
