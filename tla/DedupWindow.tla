------------------------------ MODULE DedupWindow ------------------------------
(* The broker's memory of the messages it has routed: two rotating windows of  *)
(* message ids.  An id lands in the current window; when that is full the two  *)
(* swap and the older one is forgotten.                                        *)
(* Models Broker::isDuplicate (src/server/broker.cpp), with the id sets as     *)
(* sets: MessageIdSet has its own module.                                      *)
EXTENDS Naturals, FiniteSets

CONSTANTS Ids, MaxHistorySize

ASSUME HistoryAssumption == MaxHistorySize \in Nat \ {0}

VARIABLES m_seenCurrent, m_seenPrevious,
          age   \* history: how many ids were accepted after this one, up to Never

windowVars == <<m_seenCurrent, m_seenPrevious, age>>

Never == 2 * MaxHistorySize

WindowInit ==
    /\ m_seenCurrent = {}
    /\ m_seenPrevious = {}
    /\ age = [id \in Ids |-> Never]

Seen(id) == id \in m_seenCurrent \/ id \in m_seenPrevious

(* Insert the id in the current window, and rotate the windows when full.      *)
Remember(id, full) ==
    LET window == m_seenCurrent \cup {id} IN
    /\ m_seenCurrent' = IF full THEN {} ELSE window
    /\ m_seenPrevious' = IF full THEN window ELSE m_seenPrevious
    /\ age' = [i \in Ids |-> IF i = id THEN 0
                             ELSE IF age[i] < Never THEN age[i] + 1 ELSE Never]

Fill(id) == Cardinality(m_seenCurrent \cup {id})

(* The half of isDuplicate that returns true.                                  *)
Refuse(id) == Seen(id) /\ UNCHANGED windowVars

(* The half that returns false.                                                *)
AcceptLate(id) == ~ Seen(id) /\ Remember(id, Fill(id) > MaxHistorySize)
Accept(id) == ~ Seen(id) /\ Remember(id, Fill(id) >= MaxHistorySize)

isDuplicate(id) == Refuse(id) \/ Accept(id)

WindowNext == \E id \in Ids : isDuplicate(id)

WindowSpec == WindowInit /\ [][WindowNext]_windowVars
--------------------------------------------------------------------------------
(* The windows hold ids, never more than the sets were sized for, and every    *)
(* age is a count up to Never.                                                 *)
WindowTypeOK ==
    /\ m_seenCurrent \in SUBSET Ids
    /\ m_seenPrevious \in SUBSET Ids
    /\ age \in [Ids -> 0 .. Never]

(* Loop protection: an id is recognized as a repeat for as long as fewer than  *)
(* MaxHistorySize other messages have been accepted after it, wherever in its  *)
(* window it landed and however many rotations happened.                       *)
RecentRemembered == \A id \in Ids : age[id] < MaxHistorySize => Seen(id)

(* The windows hold the most recent ids and nothing else, fewer than twice     *)
(* MaxHistorySize of them: an id older than that is forgotten, so a set sized  *)
(* for MaxHistorySize entries never fills up.                                  *)
OldForgotten ==
    /\ \A id \in Ids : Seen(id) => age[id] < Never - 1
    /\ Cardinality(m_seenCurrent) < MaxHistorySize
    /\ Cardinality(m_seenPrevious) <= MaxHistorySize

(* isDuplicate remembers as much as its windows were sized for, and no more.   *)
WindowsAsSized == RecentRemembered /\ OldForgotten

(* The inductive invariant: an id's window tells its age to within the fill of *)
(* the current window.                                                         *)
WindowInv ==
    /\ WindowTypeOK
    /\ IsFiniteSet(m_seenCurrent)
    /\ IsFiniteSet(m_seenPrevious)
    /\ Cardinality(m_seenCurrent) < MaxHistorySize
    /\ Cardinality(m_seenPrevious) <= MaxHistorySize
    /\ \A id \in Ids :
          LET fill == Cardinality(m_seenCurrent) IN
          /\ id \in m_seenCurrent <=> age[id] < fill
          /\ id \in m_seenPrevious <=> age[id] \in fill .. fill + MaxHistorySize - 1
================================================================================
