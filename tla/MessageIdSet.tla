------------------------------ MODULE MessageIdSet ------------------------------
(* The open-addressed set behind each of the broker's two dedup windows: ids are   *)
(* only ever added, and the whole set is cleared when the windows rotate.          *)
(* Models class MessageIdSet of src/server/broker.h.                               *)
EXTENDS Integers, FiniteSets

CONSTANTS MessageIds,      \* without {0, 0}, which toMessageId remaps
          Slots,           \* m_slots.size(), a power of two
          Hash,            \* MessageIdHash, of which only the low bits are used
          Rotation,        \* fill at which the broker clears a set
          Empty            \* {0, 0}

ASSUME IdSetAssumption ==
    /\ Slots \in Nat \ {0}
    /\ Hash \in [MessageIds -> Nat]
    /\ Rotation \in Nat /\ Rotation < Slots
    /\ Empty \notin MessageIds

VARIABLES m_slots, m_count,
          inserted         \* history: what was inserted since the set was cleared
idSetVars == <<m_slots, m_count, inserted>>

Indices == 0 .. Slots - 1
(* The slot a probe for id looks at after d steps.                                *)
Probe(id, d) == (Hash[id] + d) % Slots

(* The loops of contains and insert run over occupied slots with other ids.       *)
Passed(id, d) == \A e \in 0 .. d - 1 : m_slots[Probe(id, e)] \notin {Empty, id}
StopsAt(id, d) == Passed(id, d) /\ m_slots[Probe(id, d)] \in {Empty, id}
contains(id) == \E d \in Indices : StopsAt(id, d) /\ m_slots[Probe(id, d)] = id

IdSetInit == m_slots = [i \in Indices |-> Empty] /\ m_count = 0 /\ inserted = {}

insertAtHome(id) ==
    /\ m_count < Rotation
    /\ m_slots' = [m_slots EXCEPT ![Probe(id, 0)] = id]
    /\ m_count' = m_count + 1 /\ inserted' = inserted \cup {id}
insert(id) ==
    /\ m_count < Rotation
    /\ \E d \in Indices :
          /\ StopsAt(id, d)
          /\ IF m_slots[Probe(id, d)] = id THEN UNCHANGED <<m_slots, m_count>>
             ELSE m_slots' = [m_slots EXCEPT ![Probe(id, d)] = id] /\ m_count' = m_count + 1
    /\ inserted' = inserted \cup {id}
clear ==
    /\ m_count = Rotation
    /\ m_slots' = [i \in Indices |-> Empty] /\ m_count' = 0 /\ inserted' = {}

IdSetNext == (\E id \in MessageIds : insert(id)) \/ clear
IdSetSpec == IdSetInit /\ [][IdSetNext]_idSetVars
--------------------------------------------------------------------------------
IdSetTypeOK ==
    /\ m_slots \in [Indices -> MessageIds \cup {Empty}]
    /\ m_count \in Nat
    /\ inserted \subseteq MessageIds

(* Every stored id can be reached from its home slot over occupied slots, and     *)
(* only inserted ids are stored.                                                  *)
Reachable ==
    /\ \A id \in inserted : \E d \in Indices :
          m_slots[Probe(id, d)] = id /\ \A e \in 0 .. d - 1 : m_slots[Probe(id, e)] \notin {Empty, id}
    /\ \A i \in Indices : m_slots[i] # Empty => m_slots[i] \in inserted
IdSetInv == IdSetTypeOK /\ Reachable

(* contains finds an id exactly if it was inserted, however the ids collide and    *)
(* wherever their runs wrap around the end of the slots.                           *)
ContainsIsMembership == \A id \in MessageIds : contains(id) <=> id \in inserted

(* Every probe ends, and m_count is the number of different ids that are stored:   *)
(* the broker rotates its windows by it.                                           *)
ProbesEnd ==
    /\ \A id \in MessageIds : \E d \in Indices : StopsAt(id, d)
    /\ m_count = Cardinality(inserted)

(* The slots and their count answer as the set of the ids inserted would.          *)
AnswersAsSet == ContainsIsMembership /\ ProbesEnd
================================================================================
