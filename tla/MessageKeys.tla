------------------------------ MODULE MessageKeys ------------------------------
(* Names every node agrees on: where a wanted message may come from (Origin),  *)
(* the wildcard topic, the reserved topics, and how a subscription's scope is  *)
(* carried in the payload of its __SUBSCRIBE__.                                *)
(* Models src/common/messagekeys.h.                                            *)
EXTENDS Naturals, Sequences

(* Origin is a bitmask in the code.  It is the set of its bits here, so the    *)
(* bitwise "and" and "or" are membership and union.                            *)
OriginLocal == {"local"}
OriginMesh == {"mesh"}
OriginAny == {"local", "mesh"}
Origin == {OriginLocal, OriginMesh, OriginAny}

(* No subscription: never a value of the enum, used where a map has no entry.  *)
NoScope == {}

scopeAccepts(scope, isLocal) == (IF isLocal THEN "local" ELSE "mesh") \in scope

widen(left, right) == left \cup right

(* Two of the topic names that brokers treat specially.                        *)
WILDCARD_TOPIC == "*"
SYS_STATS == "__SYS_STATS__"

(* isReservedKey looks at a leading double underscore: of the topics modelled  *)
(* only the statistics topic has one.                                          *)
isReservedKey(key) == key = SYS_STATS

--------------------------------------------------------------------------------
(* The payload frame of a __SUBSCRIBE__: a sequence of bytes, empty when the   *)
(* frame is absent.                                                            *)
Byte == 0 .. 255

OriginBits(bits) ==
    {b \in OriginAny : \/ b = "local" /\ bits % 2 = 1
                       \/ b = "mesh" /\ (bits \div 2) % 2 = 1}

BitsOf(scope) ==
    (IF "local" \in scope THEN 1 ELSE 0) + (IF "mesh" \in scope THEN 2 ELSE 0)

encodeSubscribeScope(scope) == IF scope = OriginAny THEN <<>> ELSE <<BitsOf(scope)>>

(* Only the first byte counts, and of it only the two origin bits; a byte that *)
(* has neither of them is read as both.                                        *)
decodeSubscribeScope(payload) ==
    IF payload = <<>> THEN OriginAny
    ELSE LET scope == OriginBits(payload[1])
         IN  IF scope = NoScope THEN OriginAny ELSE scope
================================================================================
