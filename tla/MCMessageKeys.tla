----------------------------- MODULE MCMessageKeys ------------------------------
(* One SUBSCRIBE after another on its way to a broker: sent by this code base, *)
(* or by some other client, that may set any bits of the byte.                 *)
EXTENDS MessageKeys

VARIABLES asked,   \* the origins the sender wants, by the protocol's table
          frame    \* the payload frame on the wire

scopeVars == <<asked, frame>>

ScopeInit == asked = OriginAny /\ frame = encodeSubscribeScope(asked)

OwnClient == \E scope \in Origin : asked' = scope /\ frame' = encodeSubscribeScope(scope)

(* The table of the protocol: two bytes narrow a subscription, no other does.  *)
Documented(byte) == IF byte = 1 THEN OriginLocal ELSE IF byte = 2 THEN OriginMesh ELSE OriginAny

ForeignClient == \E b \in Byte : asked' = Documented(b) /\ frame' = <<b>>

ScopeNext == OwnClient \/ ForeignClient

ScopeSpec == ScopeInit /\ [][ScopeNext]_scopeVars

(* The encoder, the decoder and the protocol's table agree on the bytes whose  *)
(* bits this broker knows: a subscription gets the origins asked for, and one  *)
(* that names none gets both, never none.                                      *)
AskedScopeArrives ==
    frame = <<>> \/ frame[1] <= BitsOf(OriginAny) => decodeSubscribeScope(frame) = asked

(* What the comment on decodeSubscribeScope and the protocol say of a byte     *)
(* with bits of a newer client: it is read as both origins.                    *)
UnknownBitsWiden ==
    frame # <<>> /\ frame[1] > BitsOf(OriginAny) => decodeSubscribeScope(frame) = OriginAny
================================================================================
