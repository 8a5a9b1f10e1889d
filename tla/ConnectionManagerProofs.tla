------------------------- MODULE ConnectionManagerProofs -------------------------
(* For any topics, instances, scopes and limits, and any number of calls,      *)
(* faults and starts: once all that was said has arrived the broker holds what *)
(* the callbacks want, a request finds its reply subscribed, and a callback is *)
(* not chosen for a message of an origin it did not ask for.                   *)
EXTENDS ConnectionManager, SequenceTheorems, FunctionTheorems, FiniteSetTheorems, TLAPS

(* The k-th of a finite set of places: there is one, and only one.             *)
LEMMA Ranked ==
    ASSUME NEW K, K \subseteq Int, IsFiniteSet(K)
    PROVE  /\ Cardinality(K) \in Nat
           /\ \A k \in 1 .. Cardinality(K) : Place(k, K) \in K /\ Cardinality(UpTo(Place(k, K), K)) = k
           /\ \A p \in K : Cardinality(UpTo(p, K)) \in 1 .. Cardinality(K)
           /\ \A p, q \in K : Cardinality(UpTo(p, K)) = Cardinality(UpTo(q, K)) => p = q
<1> DEFINE n == Cardinality(K)
           rank == [p \in K |-> Cardinality(UpTo(p, K))]
<1>1. n \in Nat
  BY FS_CardinalityType
<1>2. ASSUME NEW p \in K PROVE IsFiniteSet(UpTo(p, K)) /\ Cardinality(UpTo(p, K)) \in 1 .. n
  <2>1. UpTo(p, K) \in SUBSET K /\ p \in UpTo(p, K)
    BY DEF UpTo
  <2>2. IsFiniteSet(UpTo(p, K)) /\ Cardinality(UpTo(p, K)) <= n
    BY <2>1, FS_Subset
  <2>3. Cardinality(UpTo(p, K)) \in Nat /\ Cardinality(UpTo(p, K)) # 0
    BY Zenon, <2>1, <2>2, FS_CardinalityType, FS_EmptySet
  <2> QED
    BY <1>1, <2>2, <2>3
<1>3. ASSUME NEW p \in K, NEW q \in K, p < q PROVE Cardinality(UpTo(p, K)) # Cardinality(UpTo(q, K))
  <2>1. p \in Int /\ q \in Int /\ q <= q /\ ~ q <= p /\ \A r \in K : r <= p => r <= q
    BY <1>3
  <2>2. UpTo(p, K) \in SUBSET UpTo(q, K) /\ q \in UpTo(q, K) /\ q \notin UpTo(p, K)
    BY Zenon, <2>1 DEF UpTo
  <2> QED
    BY Zenon, <1>2, <2>2, FS_Subset
<1>4. \A p, q \in K : Cardinality(UpTo(p, K)) = Cardinality(UpTo(q, K)) => p = q
  BY <1>3
<1>5. rank \in Injection(K, 1 .. n)
  <2>1. rank \in [K -> 1 .. n] /\ \A p, q \in K : rank[p] = rank[q] => p = q
    BY <1>2, <1>4
  <2> HIDE DEF rank, n
  <2> QED
    BY Zenon, <2>1, Fun_IsInj
<1>6. IsFiniteSet(1 .. n) /\ Cardinality(1 .. n) = n
  BY <1>1, FS_Interval
<1>7. rank \in Surjection(K, 1 .. n)
  <2> HIDE DEF rank
  <2> QED
    BY Zenon, <1>5, <1>6, FS_Injection
<1>8. ASSUME NEW k \in 1 .. n PROVE \E p \in K : Cardinality(UpTo(p, K)) = k
  <2>1. \E p \in K : rank[p] = k
    <3> HIDE DEF rank, n
    <3>1. \A t \in 1 .. n : \E p \in K : rank[p] = t
      BY Zenon, <1>7, Fun_SurjectionProperties
    <3> QED
      BY Zenon, <1>8, <3>1
  <2> QED
    BY <2>1
<1>9. ASSUME NEW k \in 1 .. n PROVE Place(k, K) \in K /\ Cardinality(UpTo(Place(k, K), K)) = k
  BY Zenon, <1>8, <1>9 DEF Place
<1> QED
  BY <1>1, <1>2, <1>4, <1>9

(* What ListOf makes of a list: the elements at the places, each once.         *)
SublistOf(M, list, K) ==
    /\ IsFiniteSet(K) /\ Cardinality(K) \in Nat
    /\ ListOf(list, K) \in Seq(M) /\ DOMAIN ListOf(list, K) = 1 .. Cardinality(K)
    /\ \A k \in 1 .. Cardinality(K) : Place(k, K) \in K /\ ListOf(list, K)[k] = list[Place(k, K)]
    /\ \A k, l \in 1 .. Cardinality(K) : Place(k, K) = Place(l, K) => k = l
    /\ \A p \in K : \E k \in 1 .. Cardinality(K) : Place(k, K) = p

(* Of every list and any of its places, it does.                               *)
LEMMA ListOfIs == \A M : \A list \in Seq(M) : \A K \in SUBSET DOMAIN list : SublistOf(M, list, K)
<1> SUFFICES ASSUME NEW M, NEW list \in Seq(M), NEW K \in SUBSET DOMAIN list PROVE SublistOf(M, list, K)
  OBVIOUS
<1> DEFINE n == Cardinality(K)
<1>1. DOMAIN list = 1 .. Len(list) /\ Len(list) \in Nat /\ \A i \in DOMAIN list : list[i] \in M
  BY LenProperties, ElementOfSeq
<1>2. IsFiniteSet(K) /\ K \subseteq Int
  <2>1. IsFiniteSet(1 .. Len(list)) /\ 1 .. Len(list) \subseteq Int
    BY <1>1, FS_Interval
  <2> QED
    BY Zenon, <1>1, <2>1, FS_Subset
<1>3. /\ n \in Nat
      /\ \A k \in 1 .. n : Place(k, K) \in K /\ Cardinality(UpTo(Place(k, K), K)) = k
      /\ \A p \in K : Cardinality(UpTo(p, K)) \in 1 .. n
      /\ \A p, q \in K : Cardinality(UpTo(p, K)) = Cardinality(UpTo(q, K)) => p = q
  BY Zenon, <1>2, Ranked
<1>4. ListOf(list, K) \in [1 .. n -> M]
  BY Zenon, <1>1, <1>3 DEF ListOf
<1> HIDE DEF n
<1>5. ListOf(list, K) \in Seq(M)
  BY <1>3, <1>4
<1>6. \A k \in 1 .. n : ListOf(list, K)[k] = list[Place(k, K)]
  BY DEF ListOf, n
<1>7. \A k, l \in 1 .. n : Place(k, K) = Place(l, K) => k = l
  BY Zenon, <1>3
<1>8. ASSUME NEW p \in K PROVE \E k \in 1 .. n : Place(k, K) = p
  BY Zenon, <1>3, <1>8
<1>9. DOMAIN ListOf(list, K) = 1 .. n
  BY <1>4
<1> QED
  BY Zenon, <1>2, <1>3, <1>5, <1>6, <1>7, <1>8, <1>9 DEF SublistOf, n

(* As many elements of a kind are in it as at the places.                      *)
SameCount(A, B) == IsFiniteSet(A) /\ IsFiniteSet(B) /\ Cardinality(A) = Cardinality(B) /\ Cardinality(A) \in Nat
Kind(list, K, X) == {i \in K : list[i] \in X}

(* ListOf neither drops nor doubles an element of any kind.                    *)
LEMMA ListCounts ==
    \A M, X : \A list \in Seq(M) : \A K \in SUBSET DOMAIN list :
        SameCount(Kind(ListOf(list, K), DOMAIN ListOf(list, K), X), Kind(list, K, X))
<1> SUFFICES ASSUME NEW M, NEW X, NEW list \in Seq(M), NEW K \in SUBSET DOMAIN list
             PROVE  SameCount(Kind(ListOf(list, K), DOMAIN ListOf(list, K), X), Kind(list, K, X))
  OBVIOUS
<1> DEFINE A == Kind(ListOf(list, K), DOMAIN ListOf(list, K), X)
           B == Kind(list, K, X)
           f == [k \in A |-> Place(k, K)]
<1>1. SublistOf(M, list, K)
  BY Zenon, ListOfIs
<1>2. IsFiniteSet(B)
  <2>1. B \in SUBSET K
    BY DEF Kind
  <2> QED
    BY Zenon, <1>1, <2>1, FS_Subset DEF SublistOf
<1>3. \A k \in A : Place(k, K) \in B
  BY Zenon, <1>1 DEF SublistOf, Kind
<1>4. \A k, l \in A : Place(k, K) = Place(l, K) => k = l
  BY Zenon, <1>1 DEF SublistOf, Kind
<1>5. \A p \in B : \E k \in A : Place(k, K) = p
  BY Zenon, <1>1 DEF SublistOf, Kind
<1> HIDE DEF A, B
<1>6. f \in [A -> B] /\ (\A k, l \in A : f[k] = f[l] => k = l) /\ (\A p \in B : \E k \in A : f[k] = p)
  BY <1>3, <1>4, <1>5
<1> HIDE DEF f
<1>7. f \in Bijection(A, B)
  BY Zenon, <1>6, Fun_IsBij
<1>8. f \in Injection(A, B) /\ f \in Surjection(A, B)
  BY Zenon, <1>7, Fun_BijectionProperties
<1>9. IsFiniteSet(A) /\ Cardinality(A) = Cardinality(B)
  BY Zenon, <1>2, <1>8, FS_Injection
<1>10. Cardinality(A) \in Nat
  BY Zenon, <1>9, FS_CardinalityType
<1> QED
  BY Zenon, <1>2, <1>9, <1>10 DEF SameCount, A, B

(* A finite set made a list has each of its elements, and no other.           *)
OrderOf(S) == CHOOSE list \in Bijection(1 .. Cardinality(S), S) : TRUE

(* There is such a list.                                                       *)
LEMMA OrderOfIs ==
    ASSUME NEW S, IsFiniteSet(S)
    PROVE  OrderOf(S) \in Seq(S) /\ \A x \in S : \E i \in DOMAIN OrderOf(S) : OrderOf(S)[i] = x
<1> DEFINE n == Cardinality(S)
           f == OrderOf(S)
<1>1. n \in Nat /\ ExistsBijection(1 .. n, S)
  BY FS_CardinalityType
<1> HIDE DEF n
<1>2. f \in Bijection(1 .. n, S)
  BY Zenon, <1>1 DEF ExistsBijection, OrderOf, n
<1> HIDE DEF f
<1>3. f \in [1 .. n -> S] /\ \A x \in S : \E i \in 1 .. n : f[i] = x
  BY Zenon, <1>2 DEF Bijection, Injection, Surjection
<1>4. f \in Seq(S) /\ DOMAIN f = 1 .. n
  BY <1>1, <1>3
<1> QED
  BY Zenon, <1>3, <1>4 DEF f

--------------------------------------------------------------------------------
(* What lists of control messages say, when one is put behind another.         *)
Reaffirms(list, t, scope) == Said(list, t) /\ LastAsks(list, t, scope) /\ Renewed(list, t)
NoConnect(list) == \A i \in DOMAIN list : list[i][1] # "CONNECT"
Joined(c, d, e) ==
    /\ Stays(c) /\ Stays(d) => Stays(e)
    /\ \A t : Said(e, t) <=> Said(c, t) \/ Said(d, t)
    /\ \A t, s : Reaffirms(d, t, s) => Reaffirms(e, t, s)
    /\ \A t, s : ~ Said(d, t) /\ LastAsks(c, t, s) => LastAsks(e, t, s)
    /\ \A t : NoConnect(d) /\ Renewed(c, t) => Renewed(e, t)

(* Concatenating two lists does just that.                                     *)
LEMMA JoinSays == \A c, d \in Seq(Wishes) : c \o d \in Seq(Wishes) /\ Joined(c, d, c \o d)
<1> SUFFICES ASSUME NEW c \in Seq(Wishes), NEW d \in Seq(Wishes)
             PROVE  c \o d \in Seq(Wishes) /\ Joined(c, d, c \o d)
  OBVIOUS
<1> DEFINE e == c \o d
           n == Len(c)
           m == Len(d)
<1>1. e \in Seq(Wishes) /\ n \in Nat /\ m \in Nat
  BY ConcatProperties, LenProperties
<1>2. DOMAIN c = 1 .. n /\ DOMAIN d = 1 .. m /\ DOMAIN e = 1 .. (n + m)
  BY ConcatProperties, LenProperties
<1>3. \A i \in 1 .. (n + m) : e[i] = IF i <= n THEN c[i] ELSE d[i - n]
  BY ConcatProperties
<1> HIDE DEF e, n, m
<1>4. \A i \in DOMAIN c : i \in DOMAIN e /\ e[i] = c[i]
  BY <1>1, <1>2, <1>3
<1>5. \A i \in DOMAIN d : n + i \in DOMAIN e /\ e[n + i] = d[i]
  <2> TAKE i \in DOMAIN d
  <2>1. n + i \in 1 .. (n + m) /\ ~ n + i <= n /\ (n + i) - n = i
    BY <1>1, <1>2
  <2> QED
    BY <1>2, <1>3, <2>1
<1>6. \A k \in DOMAIN e : k \in DOMAIN c \/ \E i \in DOMAIN d : k = n + i
  <2> SUFFICES ASSUME NEW k \in DOMAIN e, k \notin DOMAIN c PROVE \E i \in DOMAIN d : k = n + i
    OBVIOUS
  <2>1. k - n \in DOMAIN d /\ k = n + (k - n)
    BY <1>1, <1>2
  <2> QED
    BY Zenon, <2>1
<1>7. \A i \in DOMAIN c, j \in DOMAIN d : i < n + j
  BY <1>1, <1>2
<1>8. \A i, j \in DOMAIN d : i < j <=> n + i < n + j
  BY <1>1, <1>2
<1>9. Stays(c) /\ Stays(d) => Stays(e)
  <2> SUFFICES ASSUME Stays(c), Stays(d), NEW k \in DOMAIN e PROVE e[k][1] # "DISCONNECT"
    BY Zenon DEF Stays
  <2>1. CASE k \in DOMAIN c
    BY <1>4, <2>1 DEF Stays
  <2>2. CASE k \notin DOMAIN c
    BY <1>5, <1>6, <2>2 DEF Stays
  <2> QED
    BY Zenon, <2>1, <2>2
<1>10. ASSUME NEW t PROVE Said(e, t) <=> Said(c, t) \/ Said(d, t)
  BY Zenon, <1>4, <1>5, <1>6 DEF Said
<1>11. ASSUME NEW t, NEW s, Said(d, t), LastAsks(d, t, s) PROVE LastAsks(e, t, s)
  <2> SUFFICES ASSUME NEW k \in DOMAIN e, About(e[k], t), \A l \in DOMAIN e : k < l => ~ About(e[l], t)
               PROVE  Asks(e[k]) = s
    BY Zenon DEF LastAsks
  <2>1. PICK j \in DOMAIN d : About(d[j], t)
    BY Zenon, <1>11 DEF Said
  <2>2. k \notin DOMAIN c
    BY Zenon, <1>5, <1>7, <2>1
  <2>3. PICK i \in DOMAIN d : k = n + i
    BY Zenon, <1>6, <2>2
  <2>4. About(d[i], t) /\ \A l \in DOMAIN d : i < l => ~ About(d[l], t)
    BY Zenon, <1>5, <1>8, <2>3
  <2> QED
    BY Zenon, <1>5, <1>11, <2>3, <2>4 DEF LastAsks
<1>12. ASSUME NEW t, Said(d, t), Renewed(d, t) PROVE Renewed(e, t)
  <2> SUFFICES ASSUME NEW k \in DOMAIN e, e[k][1] = "CONNECT" PROVE \E l \in DOMAIN e : k < l /\ About(e[l], t)
    BY Zenon DEF Renewed
  <2>1. CASE k \in DOMAIN c
    BY Zenon, <1>5, <1>7, <1>12, <2>1 DEF Said
  <2>2. CASE k \notin DOMAIN c
    <3>1. PICK i \in DOMAIN d : k = n + i
      BY Zenon, <1>6, <2>2
    <3>2. PICK j \in DOMAIN d : i < j /\ About(d[j], t)
      BY Zenon, <1>5, <1>12, <3>1 DEF Renewed
    <3> QED
      BY Zenon, <1>5, <1>8, <3>1, <3>2
  <2> QED
    BY Zenon, <2>1, <2>2
<1>13. ASSUME NEW t, NEW s, ~ Said(d, t), LastAsks(c, t, s) PROVE LastAsks(e, t, s)
  <2> SUFFICES ASSUME NEW k \in DOMAIN e, About(e[k], t), \A l \in DOMAIN e : k < l => ~ About(e[l], t)
               PROVE  Asks(e[k]) = s
    BY Zenon DEF LastAsks
  <2>1. k \in DOMAIN c
    BY Zenon, <1>5, <1>6, <1>13 DEF Said
  <2>2. About(c[k], t) /\ \A l \in DOMAIN c : k < l => ~ About(c[l], t)
    BY Zenon, <1>4, <2>1
  <2> QED
    BY Zenon, <1>4, <1>13, <2>1, <2>2 DEF LastAsks
<1>14. ASSUME NEW t, NoConnect(d), Renewed(c, t) PROVE Renewed(e, t)
  <2> SUFFICES ASSUME NEW k \in DOMAIN e, e[k][1] = "CONNECT" PROVE \E l \in DOMAIN e : k < l /\ About(e[l], t)
    BY Zenon DEF Renewed
  <2>1. k \in DOMAIN c
    BY <1>5, <1>6, <1>14 DEF NoConnect
  <2> QED
    BY Zenon, <1>4, <1>14, <2>1 DEF Renewed
<1>15. \A t, s : Reaffirms(d, t, s) => Reaffirms(e, t, s)
  BY Zenon, <1>10, <1>11, <1>12 DEF Reaffirms
<1>16. Joined(c, d, e)
  BY Zenon, <1>9, <1>10, <1>13, <1>14, <1>15 DEF Joined
<1> QED
  BY Zenon, <1>1, <1>16 DEF e

(* What is left of a list that is read from its front.                         *)
ReadOn(c, d) ==
    /\ Stays(c) => Stays(d)
    /\ \A t, s : LastAsks(c, t, s) => LastAsks(d, t, s)
    /\ \A t : Renewed(c, t) => Renewed(d, t)

(* And so does dropping any number of messages from the front.                 *)
LEMMA RestSays ==
    \A c \in Seq(Wishes) : \A n \in 0 .. Len(c) :
        SubSeq(c, n + 1, Len(c)) \in Seq(Wishes) /\ ReadOn(c, SubSeq(c, n + 1, Len(c)))
<1> SUFFICES ASSUME NEW c \in Seq(Wishes), NEW n \in 0 .. Len(c)
             PROVE  SubSeq(c, n + 1, Len(c)) \in Seq(Wishes) /\ ReadOn(c, SubSeq(c, n + 1, Len(c)))
  OBVIOUS
<1> DEFINE d == SubSeq(c, n + 1, Len(c))
           m == Len(c)
<1>1. m \in Nat /\ DOMAIN c = 1 .. m /\ \A i \in 1 .. m : c[i] \in Wishes
  BY LenProperties, ElementOfSeq
<1>2. d \in Seq(Wishes) /\ Len(d) = m - n /\ \A i \in 1 .. (m - n) : d[i] = c[n + i]
  <2>1. n + 1 \in Int /\ m \in Int /\ \A i \in (n + 1) .. m : c[i] \in Wishes
    BY <1>1
  <2>2. /\ d \in Seq(Wishes)
        /\ Len(d) = IF n + 1 <= m THEN m - (n + 1) + 1 ELSE 0
        /\ \A i \in 1 .. (m - (n + 1) + 1) : d[i] = c[(n + 1) + i - 1]
    BY <2>1, SubSeqProperties
  <2> HIDE DEF d
  <2>3. \A i \in 1 .. (m - n) : i \in 1 .. (m - (n + 1) + 1) /\ (n + 1) + i - 1 = n + i
    BY <1>1
  <2>4. Len(d) = m - n
    <3>1. n \in 0 .. m
      OBVIOUS
    <3> HIDE DEF m
    <3> QED
      BY <1>1, <2>2, <3>1
  <2> QED
    BY <2>2, <2>3, <2>4
<1>3. DOMAIN d = 1 .. (m - n)
  BY <1>2, LenProperties
<1> HIDE DEF d, m
<1>4. \A i \in DOMAIN d : n + i \in DOMAIN c /\ d[i] = c[n + i]
  BY <1>1, <1>2, <1>3
<1>5. \A k \in DOMAIN c, i \in DOMAIN d : n + i < k => \E j \in DOMAIN d : k = n + j /\ i < j
  <2> SUFFICES ASSUME NEW k \in DOMAIN c, NEW i \in DOMAIN d, n + i < k PROVE \E j \in DOMAIN d : k = n + j /\ i < j
    OBVIOUS
  <2>1. k - n \in DOMAIN d /\ k = n + (k - n) /\ i < k - n
    BY <1>1, <1>3
  <2> QED
    BY Zenon, <2>1
<1>6. Stays(c) => Stays(d)
  BY Zenon, <1>4 DEF Stays
<1>7. ASSUME NEW t, NEW s, LastAsks(c, t, s) PROVE LastAsks(d, t, s)
  <2> SUFFICES ASSUME NEW k \in DOMAIN d, About(d[k], t), \A l \in DOMAIN d : k < l => ~ About(d[l], t)
               PROVE  Asks(d[k]) = s
    BY Zenon DEF LastAsks
  <2>1. About(c[n + k], t) /\ \A l \in DOMAIN c : n + k < l => ~ About(c[l], t)
    BY Zenon, <1>4, <1>5
  <2> QED
    BY Zenon, <1>4, <1>7, <2>1 DEF LastAsks
<1>8. ASSUME NEW t, Renewed(c, t) PROVE Renewed(d, t)
  <2> SUFFICES ASSUME NEW k \in DOMAIN d, d[k][1] = "CONNECT" PROVE \E l \in DOMAIN d : k < l /\ About(d[l], t)
    BY Zenon DEF Renewed
  <2>1. PICK l \in DOMAIN c : n + k < l /\ About(c[l], t)
    BY Zenon, <1>4, <1>8 DEF Renewed
  <2> QED
    BY Zenon, <1>4, <1>5, <2>1
<1> QED
  BY Zenon, <1>2, <1>6, <1>7, <1>8 DEF ReadOn, d, m

(* The front one read: what it said counts if nothing about the topic follows. *)
LEMMA FrontSays ==
    \A c \in Seq(Wishes) : c # <<>> =>
        /\ Head(c) \in Wishes /\ Tail(c) \in Seq(Wishes) /\ ReadOn(c, Tail(c))
        /\ Stays(c) => Head(c)[1] # "DISCONNECT"
        /\ \A t : Said(c, t) => Said(Tail(c), t) \/ About(Head(c), t)
        /\ \A t, s : About(Head(c), t) /\ ~ Said(Tail(c), t) /\ LastAsks(c, t, s) => Asks(Head(c)) = s
        /\ \A t : Head(c)[1] = "CONNECT" /\ Renewed(c, t) => Said(Tail(c), t)
<1> SUFFICES ASSUME NEW c \in Seq(Wishes), c # <<>>
             PROVE  /\ Head(c) \in Wishes /\ Tail(c) \in Seq(Wishes) /\ ReadOn(c, Tail(c))
                    /\ Stays(c) => Head(c)[1] # "DISCONNECT"
                    /\ \A t : Said(c, t) => Said(Tail(c), t) \/ About(Head(c), t)
                    /\ \A t, s : About(Head(c), t) /\ ~ Said(Tail(c), t) /\ LastAsks(c, t, s) => Asks(Head(c)) = s
                    /\ \A t : Head(c)[1] = "CONNECT" /\ Renewed(c, t) => Said(Tail(c), t)
  BY Zenon
<1> DEFINE d == Tail(c)
           h == Head(c)
           m == Len(c)
<1>1. m \in Nat /\ m # 0 /\ DOMAIN c = 1 .. m /\ h = c[1]
  BY LenProperties, EmptySeq
<1>2. h \in Wishes /\ d \in Seq(Wishes) /\ Len(d) = m - 1 /\ \A i \in 1 .. Len(d) : d[i] = c[i + 1]
  BY HeadTailProperties
<1>3. DOMAIN d = 1 .. (m - 1)
  BY <1>2, LenProperties
<1>4. d = SubSeq(c, 1 + 1, Len(c)) /\ 1 \in 0 .. Len(c)
  BY <1>1, TailIsSubSeq
<1>5. ReadOn(c, d)
  BY Zenon, <1>4, RestSays
<1> HIDE DEF d, m, h
<1>6. 1 \in DOMAIN c /\ \A k \in DOMAIN c : k = 1 \/ \E i \in DOMAIN d : d[i] = c[k]
  <2> SUFFICES ASSUME NEW k \in DOMAIN c, k # 1 PROVE \E i \in DOMAIN d : d[i] = c[k]
    BY <1>1
  <2>1. k - 1 \in DOMAIN d /\ k - 1 \in 1 .. Len(d) /\ (k - 1) + 1 = k
    BY <1>1, <1>2, <1>3
  <2>2. d[k - 1] = c[k]
    BY <1>2, <2>1
  <2> QED
    BY Zenon, <2>1, <2>2
<1>7. Stays(c) => h[1] # "DISCONNECT"
  BY Zenon, <1>1, <1>6 DEF Stays
<1>8. ASSUME NEW t, Said(c, t) PROVE Said(d, t) \/ About(h, t)
  BY Zenon, <1>1, <1>6, <1>8 DEF Said
<1>9. ~ 1 < 1
  OBVIOUS
<1>10. ASSUME NEW t, NEW s, About(h, t), ~ Said(d, t), LastAsks(c, t, s) PROVE Asks(h) = s
  BY Zenon, <1>1, <1>6, <1>9, <1>10 DEF Said, LastAsks
<1>11. ASSUME NEW t, h[1] = "CONNECT", Renewed(c, t) PROVE Said(d, t)
  BY Zenon, <1>1, <1>6, <1>9, <1>11 DEF Said, Renewed
<1> QED
  BY Zenon, <1>2, <1>5, <1>7, <1>8, <1>10, <1>11 DEF d, h

--------------------------------------------------------------------------------
(* The lists that are sent: one subscription, its end, and all there are.      *)
Speaks(list, t, scope) ==
    /\ list \in Seq(Wishes) /\ Stays(list) /\ NoConnect(list)
    /\ Reaffirms(list, t, scope) /\ \A u : u # t => ~ Said(list, u)

(* A SUBSCRIBE or an UNSUBSCRIBE by itself.                                    *)
LEMMA OneSpeaks ==
    \A t \in AllTopics : /\ \A s \in SUBSET OriginAny : Speaks(<<<<"SUBSCRIBE", t, s>>>>, t, s)
                         /\ Speaks(<<<<"UNSUBSCRIBE", t>>>>, t, NoScope)
<1> SUFFICES ASSUME NEW t \in AllTopics, NEW m \in Wishes, NEW s, About(m, t), Asks(m) = s
             PROVE  Speaks(<<m>>, t, s)
  <2>1. ASSUME NEW t \in AllTopics, NEW s \in SUBSET OriginAny
        PROVE  LET m == <<"SUBSCRIBE", t, s>> IN m \in Wishes /\ About(m, t) /\ Asks(m) = s
    BY DEF Wishes, About, Asks
  <2>2. ASSUME NEW t \in AllTopics
        PROVE  LET m == <<"UNSUBSCRIBE", t>> IN m \in Wishes /\ About(m, t) /\ Asks(m) = NoScope
    BY DEF Wishes, About, Asks
  <2> QED
    BY Zenon, <2>1, <2>2
<1> DEFINE l == <<m>>
<1>1. l \in Seq(Wishes) /\ DOMAIN l = {1} /\ l[1] = m
  OBVIOUS
<1> HIDE DEF l
<1>2. m[1] # "CONNECT" /\ m[1] # "DISCONNECT" /\ \A u : u # t => ~ About(m, u)
  BY DEF About
<1>3. Stays(l) /\ NoConnect(l) /\ Renewed(l, t)
  BY <1>1, <1>2 DEF Stays, NoConnect, Renewed
<1>4. Said(l, t) /\ LastAsks(l, t, s)
  BY Zenon, <1>1 DEF Said, LastAsks
<1>5. \A u : u # t => ~ Said(l, u)
  BY Zenon, <1>1, <1>2 DEF Said
<1> QED
  BY Zenon, <1>1, <1>3, <1>4, <1>5 DEF Speaks, Reaffirms, l

(* What the callbacks of a topic want between them is a set of origins.        *)
LEMMA UnionIsScope ==
    \A list \in Seq(Entries) : unionScope(list) \in SUBSET OriginAny /\ (list = <<>> => unionScope(list) = NoScope)
<1> SUFFICES ASSUME NEW list \in Seq(Entries)
             PROVE  unionScope(list) \in SUBSET OriginAny /\ (list = <<>> => unionScope(list) = NoScope)
  OBVIOUS
<1>1. \A i \in DOMAIN list : list[i] \in Entries
  BY ElementOfSeq, LenProperties
<1>2. \A e \in Entries : e[2] \in SUBSET OriginAny
  BY DEF Entries, Origin, OriginLocal, OriginMesh, OriginAny
<1>3. unionScope(list) \in SUBSET OriginAny
  BY Zenon, <1>1, <1>2 DEF unionScope
<1>4. list = <<>> => unionScope(list) = NoScope
  BY DEF unionScope, NoScope
<1> QED
  BY <1>3, <1>4

(* Everything anew: it says the wish of each topic that has callbacks, and     *)
(* nothing of the others.                                                      *)
SpeaksAll(list) ==
    /\ list \in Seq(Wishes) /\ Stays(list)
    /\ \A t \in AllTopics : IF Wanted(t) THEN Reaffirms(list, t, Wish(t)) ELSE ~ Said(list, t)

(* That is what resubscribeAll sends, with a CONNECT before it or without.     *)
LEMMA ResubscriptionSpeaks ==
    ASSUME m_msgHandlers \in [AllTopics -> Seq(Entries)]
    PROVE  SpeaksAll(Resubscription) /\ NoConnect(Resubscription) /\ SpeaksAll(<<<<"CONNECT">>>> \o Resubscription)
<1> DEFINE W == {u \in AllTopics : m_msgHandlers[u] # <<>>}
           Sub(t) == Subscribe(t, m_msgHandlers)
           S == {Sub(t) : t \in W}
           f == [t \in W |-> Sub(t)]
           r == Resubscription
           c == <<<<"CONNECT">>>>
<1>1. IsFiniteSet(S)
  <2>1. IsFiniteSet(AllTopics)
    BY Zenon, ManagerAssumption, FS_AddElement DEF AllTopics
  <2>2. IsFiniteSet(W)
    <3>1. W \in SUBSET AllTopics
      OBVIOUS
    <3> QED
      BY Zenon, <2>1, <3>1, FS_Subset
  <2>3. f \in [W -> S] /\ \A x \in S : \E t \in W : f[t] = x
    OBVIOUS
  <2> HIDE DEF W, S, f
  <2>4. f \in Surjection(W, S)
    BY Zenon, <2>3, Fun_IsSurj
  <2> QED
    BY Zenon, <2>2, <2>4, FS_Surjection
<1>2. \A t \in W : /\ Sub(t) \in Wishes /\ Sub(t)[1] = "SUBSCRIBE"
                   /\ Asks(Sub(t)) = Wish(t) /\ \A u : About(Sub(t), u) <=> u = t
  <2> TAKE t \in W
  <2>1. t \in AllTopics /\ Wish(t) \in SUBSET OriginAny
    BY Zenon, UnionIsScope DEF Wish
  <2>2. Sub(t) = <<"SUBSCRIBE", t, Wish(t)>>
    BY DEF Subscribe, Wish
  <2> HIDE DEF W, Sub
  <2> QED
    BY <2>1, <2>2 DEF Wishes, Asks, About
<1>3. r \in Seq(S) /\ \A x \in S : \E i \in DOMAIN r : r[i] = x
  <2>1. r = OrderOf(S)
    BY Zenon DEF Resubscription, OrderOf
  <2> HIDE DEF S, r
  <2> QED
    BY Zenon, <1>1, <2>1, OrderOfIs
<1>4. S \subseteq Wishes
  BY <1>2
<1>5. \A i \in DOMAIN r : \E t \in W : r[i] = Sub(t)
  <2>1. \A i \in DOMAIN r : r[i] \in S
    BY <1>3, ElementOfSeq, LenProperties
  <2> HIDE DEF r
  <2> QED
    BY Zenon, <2>1
<1>6. \A t \in W : \E i \in DOMAIN r : r[i] = Sub(t)
  BY Zenon, <1>3
<1>7. \A t \in AllTopics : Wanted(t) <=> t \in W
  BY Zenon DEF Wanted
<1>8. r \in Seq(Wishes)
  BY <1>3, <1>4, SeqMonotonic
<1> HIDE DEF r, S, W, Sub, f
<1>9. Stays(r) /\ NoConnect(r)
  BY <1>2, <1>5 DEF Stays, NoConnect
<1>10. ASSUME NEW t \in AllTopics, Wanted(t) PROVE Reaffirms(r, t, Wish(t))
  <2>1. Said(r, t)
    <3>1. t \in W /\ About(Sub(t), t)
      BY <1>2, <1>7, <1>10
    <3>2. PICK i \in DOMAIN r : r[i] = Sub(t)
      BY Zenon, <1>6, <3>1
    <3> QED
      BY Zenon, <3>1, <3>2 DEF Said
  <2>2. LastAsks(r, t, Wish(t))
    <3> SUFFICES ASSUME NEW k \in DOMAIN r, About(r[k], t) PROVE Asks(r[k]) = Wish(t)
      BY Zenon DEF LastAsks
    <3>1. PICK u \in W : r[k] = Sub(u)
      BY Zenon, <1>5
    <3>2. t = u /\ Asks(Sub(u)) = Wish(u)
      BY <1>2, <3>1
    <3> QED
      BY Zenon, <3>1, <3>2
  <2>3. Renewed(r, t)
    BY Zenon, <1>9 DEF Renewed, NoConnect
  <2> QED
    BY Zenon, <2>1, <2>2, <2>3 DEF Reaffirms
<1>11. ASSUME NEW t \in AllTopics, ~ Wanted(t) PROVE ~ Said(r, t)
  BY Zenon, <1>2, <1>5, <1>7, <1>11 DEF Said
<1>12. SpeaksAll(r)
  BY Zenon, <1>8, <1>9, <1>10, <1>11 DEF SpeaksAll
<1>13. c \in Seq(Wishes) /\ Stays(c) /\ \A t : ~ Said(c, t)
  BY DEF Wishes, Stays, Said, About
<1> HIDE DEF c
<1>14. c \o r \in Seq(Wishes) /\ Joined(c, r, c \o r)
  BY Zenon, <1>8, <1>13, JoinSays
<1>15. SpeaksAll(c \o r)
  BY Zenon, <1>12, <1>13, <1>14 DEF SpeaksAll, Joined
<1> QED
  BY Zenon, <1>9, <1>12, <1>15 DEF r, c

(* What is sent goes behind the rest, or some of it is refused.                *)
LEMMA SendsOrLoses ==
    ASSUME control \in Seq(Wishes), NEW list \in Seq(Wishes), SendControl(list)
    PROVE  control' \in Seq(Wishes) /\ (~ lost' => ~ lost /\ control' = control \o list)
<1> DEFINE room == ControlLimit - Len(control)
           k == IF Len(list) < room THEN Len(list) ELSE room
<1>1. Len(control) \in Nat /\ Len(list) \in Nat /\ ControlLimit \in Nat
  BY LenProperties, ManagerAssumption
<1>2. control' = control \o SubSeq(list, 1, k) /\ lost' = (lost \/ Len(list) > room)
  BY DEF SendControl
<1>3. k \in Int /\ k <= Len(list)
  BY <1>1
<1>4. SubSeq(list, 1, k) \in Seq(Wishes)
  <2>1. \A i \in 1 .. k : list[i] \in Wishes
    BY <1>1, <1>3, ElementOfSeq
  <2> HIDE DEF k
  <2> QED
    BY <1>3, <2>1, SubSeqProperties
<1>5. control' \in Seq(Wishes)
  BY <1>2, <1>4, ConcatProperties
<1>6. ASSUME ~ lost' PROVE ~ lost /\ control' = control \o list
  <2>1. ~ lost /\ ~ Len(list) > room
    BY Zenon, <1>2, <1>6
  <2>2. k = Len(list)
    BY <1>1, <2>1
  <2>3. SubSeq(list, 1, k) = list
    BY <2>2, SubSeqFull
  <2> QED
    BY Zenon, <1>2, <2>1, <2>3
<1> QED
  BY Zenon, <1>5, <1>6

--------------------------------------------------------------------------------
(* The callbacks that care, counted over all topics, when one topic changes.   *)
LEMMA CountsChange ==
    ASSUME m_msgHandlers \in [AllTopics -> Seq(Entries)], m_msgHandlers' \in [AllTopics -> Seq(Entries)],
           NEW t \in AllTopics, \A u \in AllTopics : u # t => m_msgHandlers'[u] = m_msgHandlers[u],
           IsFiniteSet(ScopedPlaces)
    PROVE  LET X == Scoped(m_msgHandlers[t])
               Y == Scoped(m_msgHandlers'[t])
           IN  /\ IsFiniteSet(ScopedPlaces') /\ IsFiniteSet(X) /\ IsFiniteSet(Y)
               /\ Cardinality(ScopedPlaces') = Cardinality(ScopedPlaces) - Cardinality(X) + Cardinality(Y)
<1> DEFINE X == Scoped(m_msgHandlers[t])
           Y == Scoped(m_msgHandlers'[t])
           P == ScopedPlaces
           Q == ScopedPlaces'
           R == {p \in P : p[1] # t}
           A == {t} \X X
           B == {t} \X Y
<1>1. \A list \in Seq(Entries) : IsFiniteSet(Scoped(list))
  <2> TAKE list \in Seq(Entries)
  <2>1. Scoped(list) \in SUBSET (1 .. Len(list)) /\ Len(list) \in Nat
    BY LenProperties DEF Scoped
  <2>2. IsFiniteSet(1 .. Len(list))
    BY <2>1, FS_Interval
  <2> QED
    BY Zenon, <2>1, <2>2, FS_Subset
<1>2. IsFiniteSet(X) /\ IsFiniteSet(Y)
  BY <1>1
<1>3. ASSUME NEW Z, IsFiniteSet(Z)
      PROVE  IsFiniteSet({t} \X Z) /\ Cardinality({t} \X Z) = Cardinality(Z)
  <2> DEFINE f == [i \in Z |-> <<t, i>>]
  <2>1. f \in [Z -> {t} \X Z] /\ (\A i, j \in Z : f[i] = f[j] => i = j) /\ \A p \in {t} \X Z : \E i \in Z : f[i] = p
    OBVIOUS
  <2> HIDE DEF f
  <2>2. ExistsBijection(Z, {t} \X Z)
    BY Zenon, <2>1, Fun_IsBij DEF ExistsBijection
  <2> QED
    BY Zenon, <1>3, <2>2, FS_Bijection
<1>4. P = R \cup A
  BY DEF ScopedPlaces
<1>5. Q = R \cup B
  <2>1. ASSUME NEW p \in Q PROVE p \in R \cup B
    <3>1. PICK u \in AllTopics : p \in {u} \X Scoped(m_msgHandlers'[u])
      BY DEF ScopedPlaces
    <3> QED
      BY <3>1 DEF ScopedPlaces
  <2>2. ASSUME NEW p \in R PROVE p \in Q
    <3>1. PICK u \in AllTopics : p \in {u} \X Scoped(m_msgHandlers[u])
      BY DEF ScopedPlaces
    <3> QED
      BY <3>1 DEF ScopedPlaces
  <2>3. B \subseteq Q
    BY DEF ScopedPlaces
  <2> HIDE DEF Q, R, B
  <2> QED
    BY <2>1, <2>2, <2>3
<1>6. R \cap A = {} /\ R \cap B = {}
  OBVIOUS
<1>7. IsFiniteSet(R)
  <2>1. R \in SUBSET P
    OBVIOUS
  <2> HIDE DEF R
  <2> QED
    BY Zenon, <2>1, FS_Subset
<1> HIDE DEF X, Y, P, Q, R
<1>8. IsFiniteSet(A) /\ Cardinality(A) = Cardinality(X) /\ IsFiniteSet(B) /\ Cardinality(B) = Cardinality(Y)
  BY Zenon, <1>2, <1>3
<1> HIDE DEF A, B
<1>9. \A S, T : IsFiniteSet(S) /\ IsFiniteSet(T) /\ S \cap T = {} =>
          IsFiniteSet(S \cup T) /\ Cardinality(S \cup T) = Cardinality(S) + Cardinality(T)
  <2> SUFFICES ASSUME NEW S, NEW T, IsFiniteSet(S), IsFiniteSet(T), S \cap T = {}
               PROVE  IsFiniteSet(S \cup T) /\ Cardinality(S \cup T) = Cardinality(S) + Cardinality(T)
    BY Zenon
  <2>1. IsFiniteSet(S \cup T) /\ Cardinality(S \cup T) = Cardinality(S) + Cardinality(T) - Cardinality(S \cap T)
    BY Zenon, FS_Union
  <2>2. Cardinality(S \cap T) = 0 /\ Cardinality(S) \in Nat /\ Cardinality(T) \in Nat
    BY Zenon, FS_EmptySet, FS_CardinalityType
  <2> QED
    BY <2>1, <2>2
<1>10. IsFiniteSet(Q) /\ Cardinality(P) = Cardinality(R) + Cardinality(X) /\ Cardinality(Q) = Cardinality(R) + Cardinality(Y)
  BY Zenon, <1>4, <1>5, <1>6, <1>7, <1>8, <1>9
<1>11. Cardinality(R) \in Nat /\ Cardinality(X) \in Nat /\ Cardinality(Y) \in Nat
  BY Zenon, <1>2, <1>7, FS_CardinalityType
<1>12. Cardinality(Q) = Cardinality(P) - Cardinality(X) + Cardinality(Y)
  BY <1>10, <1>11
<1> QED
  BY Zenon, <1>2, <1>10, <1>12 DEF X, Y, P, Q

(* What a registration or a removal does to the callbacks and says of it.      *)
Announced(t) ==
    \/ control' = control /\ m_msgHandlers' = m_msgHandlers
    \/ control' = control /\ Wanted(t)' /\ (~ m_connected \/ (Wanted(t) /\ Wish(t)' = Wish(t)))
    \/ \E list : Speaks(list, t, Wish(t)') /\ control' = control \o list
Changes(t) ==
    /\ m_msgHandlers' \in [AllTopics -> Seq(Entries)] /\ control' \in Seq(Wishes) /\ CountInv'
    /\ \A u \in AllTopics : u # t => m_msgHandlers'[u] = m_msgHandlers[u]
    /\ ~ lost' => ~ lost /\ Announced(t)

(* performRegistration appends the callback, counts it, and announces it.      *)
LEMMA RegistrationChanges ==
    ASSUME ManagerTypeOK, CountInv, NEW t \in AllTopics, NEW i \in Instances \cup {Requester}, NEW s \in Origin,
           performRegistration(t, i, s)
    PROVE  Changes(t) /\ m_msgHandlers'[t] = Append(m_msgHandlers[t], <<i, s>>)
<1> DEFINE list == m_msgHandlers[t]
           e == <<i, s>>
           next == Append(list, e)
<1>1. m_msgHandlers \in [AllTopics -> Seq(Entries)] /\ control \in Seq(Wishes)
  BY Zenon DEF ManagerTypeOK, ClientTypeOK
<1>2. list \in Seq(Entries) /\ e \in Entries
  BY <1>1 DEF Entries
<1> HIDE DEF list, e
<1>3. /\ next \in Seq(Entries) /\ next # <<>> /\ Len(next) = Len(list) + 1 /\ Len(list) \in Nat
      /\ (\A k \in 1 .. Len(list) : next[k] = list[k]) /\ next[Len(list) + 1] = e
  BY <1>2, AppendProperties, LenProperties
<1> HIDE DEF next
<1>4. /\ m_msgHandlers' = [m_msgHandlers EXCEPT ![t] = next]
      /\ m_scopedHandlers' = m_scopedHandlers + (IF s # OriginAny THEN 1 ELSE 0)
      /\ IF m_connected THEN SendControl(<<Subscribe(t, m_msgHandlers')>>) ELSE UNCHANGED <<control, lost>>
  BY DEF performRegistration, next, list, e
<1>5. m_msgHandlers' \in [AllTopics -> Seq(Entries)] /\ m_msgHandlers'[t] = next
      /\ \A u \in AllTopics : u # t => m_msgHandlers'[u] = m_msgHandlers[u]
  BY <1>1, <1>3, <1>4
<1>6. CountInv'
  <2> DEFINE X == Scoped(list)
             Y == Scoped(next)
  <2>1. IsFiniteSet(ScopedPlaces') /\ IsFiniteSet(X)
        /\ Cardinality(ScopedPlaces') = Cardinality(ScopedPlaces) - Cardinality(X) + Cardinality(Y)
    BY <1>1, <1>5, CountsChange DEF CountInv, list
  <2>2. DOMAIN list = 1 .. Len(list) /\ DOMAIN next = 1 .. Len(list) + 1
    BY <1>2, <1>3, LenProperties
  <2>3. Len(list) + 1 \notin X
    BY <1>3, <2>2 DEF Scoped
  <2>4. Y = IF s # OriginAny THEN X \cup {Len(list) + 1} ELSE X
    <3>1. e[2] = s
      BY DEF e
    <3> QED
      BY <1>3, <2>2, <3>1 DEF Scoped
  <2>5. Cardinality(Y) = Cardinality(X) + (IF s # OriginAny THEN 1 ELSE 0)
    <3>1. Cardinality(X) \in Nat
      BY Zenon, <2>1, FS_CardinalityType
    <3>2. CASE s # OriginAny
      <4>1. Cardinality(X \cup {Len(list) + 1}) = Cardinality(X) + 1
        BY Zenon, <2>1, <2>3, FS_AddElement
      <4> QED
        BY Zenon, <2>4, <3>2, <4>1
    <3>3. CASE s = OriginAny
      BY <2>4, <3>1, <3>3
    <3> QED
      BY Zenon, <3>2, <3>3
  <2>6. Cardinality(X) \in Nat /\ Cardinality(ScopedPlaces) \in Nat /\ m_scopedHandlers = Cardinality(ScopedPlaces)
    BY Zenon, <2>1, FS_CardinalityType DEF CountInv
  <2> HIDE DEF X, Y
  <2>7. m_scopedHandlers' = Cardinality(ScopedPlaces')
    BY <1>4, <2>1, <2>5, <2>6
  <2> QED
    BY Zenon, <2>1, <2>7 DEF CountInv
<1>7. Wanted(t)'
  BY <1>3, <1>5 DEF Wanted
<1>8. CASE m_connected
  <2> DEFINE d == <<Subscribe(t, m_msgHandlers')>>
  <2>1. d = <<<<"SUBSCRIBE", t, Wish(t)'>>>>
    BY DEF Subscribe, Wish
  <2>2. Wish(t)' \in SUBSET OriginAny
    BY Zenon, <1>3, <1>5, UnionIsScope DEF Wish
  <2>3. Speaks(d, t, Wish(t)')
    BY Zenon, <2>1, <2>2, OneSpeaks
  <2>4. d \in Seq(Wishes)
    BY Zenon, <2>3 DEF Speaks
  <2> HIDE DEF d
  <2>5. SendControl(d)
    BY Zenon, <1>4, <1>8 DEF d
  <2>6. control' \in Seq(Wishes) /\ (~ lost' => ~ lost /\ control' = control \o d)
    BY Zenon, <1>1, <2>4, <2>5, SendsOrLoses
  <2> QED
    BY Zenon, <1>5, <1>6, <2>3, <2>6 DEF Changes, Announced, next, list, e
<1>9. CASE ~ m_connected
  <2>1. control' = control /\ lost' = lost
    BY Zenon, <1>4, <1>9
  <2> QED
    BY Zenon, <1>1, <1>5, <1>6, <1>7, <1>9, <2>1 DEF Changes, Announced, next, list, e
<1> QED
  BY Zenon, <1>8, <1>9

(* A removal leaves the others in place; the last one unsubscribes.            *)
LEMMA UnregistrationChanges ==
    ASSUME ManagerTypeOK, CountInv, NEW t \in AllTopics, NEW i, performUnregistration(t, i)
    PROVE  /\ Changes(t)
           /\ m_msgHandlers[t] = <<>> => m_msgHandlers'[t] = <<>>
           /\ m_msgHandlers[t] # <<>> => m_msgHandlers'[t] = Without(i, m_msgHandlers[t])
<1> DEFINE before == m_msgHandlers[t]
           next == Without(i, before)
           out == Of(i, before)
           K == DOMAIN before \ out
<1>1. m_msgHandlers \in [AllTopics -> Seq(Entries)] /\ control \in Seq(Wishes)
  BY Zenon DEF ManagerTypeOK, ClientTypeOK
<1>2. before \in Seq(Entries) /\ K \in SUBSET DOMAIN before /\ out \in SUBSET DOMAIN before
  BY <1>1 DEF Of
<1>3. /\ before = <<>> => UNCHANGED <<m_msgHandlers, m_scopedHandlers, control, lost>>
      /\ before # <<>> =>
            /\ m_msgHandlers' = [m_msgHandlers EXCEPT ![t] = next]
            /\ m_scopedHandlers' = m_scopedHandlers - Cardinality(out \cap Scoped(before))
            /\ IF next = <<>> THEN SendControl(Unsubscribe(t))
               ELSE IF m_connected /\ unionScope(next) # unionScope(before)
               THEN SendControl(<<Subscribe(t, m_msgHandlers')>>)
               ELSE UNCHANGED <<control, lost>>
  BY Zenon DEF performUnregistration, mapVars, ScopedLeft
<1>4. next = ListOf(before, K)
  BY Zenon DEF Without
<1>5. next \in Seq(Entries)
  <2> HIDE DEF next, K, before
  <2>1. SublistOf(Entries, before, K)
    BY Zenon, <1>2, ListOfIs
  <2> QED
    BY Zenon, <1>4, <2>1 DEF SublistOf
<1>6. CASE before = <<>>
  <2>1. m_msgHandlers' = m_msgHandlers /\ m_scopedHandlers' = m_scopedHandlers /\ control' = control /\ lost' = lost
    BY Zenon, <1>3, <1>6
  <2>2. CountInv'
    BY <2>1 DEF CountInv, ScopedPlaces
  <2> QED
    BY Zenon, <1>1, <1>6, <2>1, <2>2 DEF Changes, Announced
<1>7. CASE before # <<>>
  <2>1. m_msgHandlers' = [m_msgHandlers EXCEPT ![t] = next]
    BY Zenon, <1>3, <1>7
  <2> HIDE DEF next
  <2>2. m_msgHandlers' \in [AllTopics -> Seq(Entries)] /\ m_msgHandlers'[t] = next
        /\ \A u \in AllTopics : u # t => m_msgHandlers'[u] = m_msgHandlers[u]
    BY <1>1, <1>5, <2>1
  <2>3. CountInv'
    <3> DEFINE X == Scoped(before)
               Y == Scoped(next)
               M == {e \in Entries : e[2] # OriginAny}
    <3>1. IsFiniteSet(ScopedPlaces') /\ IsFiniteSet(X) /\ IsFiniteSet(Y)
          /\ Cardinality(ScopedPlaces') = Cardinality(ScopedPlaces) - Cardinality(X) + Cardinality(Y)
      BY <1>1, <2>2, CountsChange DEF CountInv
    <3>2. Y = Kind(next, DOMAIN next, M)
      <4>1. \A k \in DOMAIN next : next[k] \in Entries
        BY <1>5, ElementOfSeq, LenProperties
      <4> QED
        BY <4>1 DEF Scoped, Kind
    <3>3. X \ (out \cap X) = Kind(before, K, M)
      <4>1. \A k \in DOMAIN before : before[k] \in Entries
        BY <1>2, ElementOfSeq, LenProperties
      <4> HIDE DEF before, out
      <4> QED
        BY <1>2, <4>1 DEF Scoped, Kind
    <3>4. Cardinality(Y) = Cardinality(X \ (out \cap X))
      <4> HIDE DEF K, M, before
      <4> QED
        BY Zenon, <1>2, <1>4, <3>2, <3>3, ListCounts DEF SameCount
    <3> HIDE DEF X, Y, out
    <3>5. Cardinality(X \ (out \cap X)) = Cardinality(X) - Cardinality(out \cap X)
      <4>1. Cardinality(X \ (out \cap X)) = Cardinality(X) - Cardinality(X \cap (out \cap X))
        BY Zenon, <3>1, FS_Difference
      <4>2. X \cap (out \cap X) = out \cap X
        OBVIOUS
      <4> QED
        BY Zenon, <4>1, <4>2
    <3>6. m_scopedHandlers' = m_scopedHandlers - Cardinality(out \cap X)
      BY Zenon, <1>3, <1>7 DEF X, next
    <3>7. Cardinality(X) \in Nat /\ Cardinality(ScopedPlaces) \in Nat /\ Cardinality(out \cap X) \in Nat
          /\ m_scopedHandlers = Cardinality(ScopedPlaces)
      BY Zenon, <3>1, FS_CardinalityType, FS_Intersection DEF CountInv
    <3>8. m_scopedHandlers' = Cardinality(ScopedPlaces')
      BY <3>1, <3>4, <3>5, <3>6, <3>7
    <3> QED
      BY Zenon, <3>1, <3>8 DEF CountInv
  <2>4. Wish(t)' = unionScope(next) /\ (Wanted(t)' <=> next # <<>>) /\ Wanted(t) /\ Wish(t) = unionScope(before)
    BY Zenon, <1>7, <2>2 DEF Wish, Wanted
  <2>5. ASSUME NEW d, SendControl(d), Speaks(d, t, Wish(t)') PROVE Changes(t)
    <3>1. d \in Seq(Wishes)
      BY Zenon, <2>5 DEF Speaks
    <3>2. control' \in Seq(Wishes) /\ (~ lost' => ~ lost /\ control' = control \o d)
      BY Zenon, <1>1, <2>5, <3>1, SendsOrLoses
    <3> QED
      BY Zenon, <2>2, <2>3, <2>5, <3>2 DEF Changes, Announced
  <2>6. CASE next = <<>>
    <3>1. SendControl(Unsubscribe(t))
      BY Zenon, <1>3, <1>7, <2>6 DEF next
    <3>2. Wish(t)' = NoScope
      BY Zenon, <1>5, <2>4, <2>6, UnionIsScope
    <3>3. Speaks(Unsubscribe(t), t, Wish(t)')
      BY Zenon, <3>2, OneSpeaks DEF Unsubscribe
    <3> QED
      BY Zenon, <2>2, <1>7, <2>5, <3>1, <3>3 DEF next
  <2>7. CASE next # <<>> /\ m_connected /\ unionScope(next) # unionScope(before)
    <3>1. SendControl(<<Subscribe(t, m_msgHandlers')>>)
      BY Zenon, <1>3, <1>7, <2>7 DEF next
    <3>2. Wish(t)' \in SUBSET OriginAny
      BY Zenon, <1>5, <2>4, UnionIsScope
    <3>3. Subscribe(t, m_msgHandlers') = <<"SUBSCRIBE", t, Wish(t)'>>
      BY DEF Subscribe, Wish
    <3>4. Speaks(<<Subscribe(t, m_msgHandlers')>>, t, Wish(t)')
      BY Zenon, <3>2, <3>3, OneSpeaks
    <3> QED
      BY Zenon, <2>2, <1>7, <2>5, <3>1, <3>4 DEF next
  <2>8. CASE next # <<>> /\ ~ (m_connected /\ unionScope(next) # unionScope(before))
    <3>1. control' = control /\ lost' = lost
      BY Zenon, <1>3, <1>7, <2>8 DEF next
    <3> QED
      BY Zenon, <1>1, <1>7, <2>2, <2>3, <2>4, <2>8, <3>1 DEF Changes, Announced, next
  <2> QED
    BY Zenon, <2>6, <2>7, <2>8
<1> QED
  BY Zenon, <1>6, <1>7

--------------------------------------------------------------------------------
(* The processing thread and its queue: a RESET on its way stays on its way,   *)
(* while the client runs.                                                      *)
LEMMA HeadOrTail ==
    \A M : \A q \in Seq(M) : q # <<>> =>
        Head(q) \in M /\ Tail(q) \in Seq(M) /\ (Among(q) => OnTheWay(Head(q)) \/ Among(Tail(q)))
<1> SUFFICES ASSUME NEW M, NEW q \in Seq(M), q # <<>>
             PROVE  Head(q) \in M /\ Tail(q) \in Seq(M) /\ (Among(q) => OnTheWay(Head(q)) \/ Among(Tail(q)))
  BY Zenon
<1>1. /\ Head(q) \in M /\ Tail(q) \in Seq(M) /\ Len(Tail(q)) = Len(q) - 1
      /\ \A i \in 1 .. Len(Tail(q)) : Tail(q)[i] = q[i + 1]
  BY HeadTailProperties
<1>2. DOMAIN q = 1 .. Len(q) /\ Len(q) \in Nat /\ DOMAIN Tail(q) = 1 .. (Len(q) - 1) /\ Head(q) = q[1]
  BY <1>1, LenProperties
<1>3. ASSUME NEW i \in DOMAIN q, OnTheWay(q[i]), i # 1 PROVE Among(Tail(q))
  <2>1. i - 1 \in DOMAIN Tail(q) /\ i - 1 \in 1 .. Len(Tail(q)) /\ (i - 1) + 1 = i
    BY <1>1, <1>2, <1>3
  <2>2. Tail(q)[i - 1] = q[i]
    BY <1>1, <2>1
  <2> QED
    BY Zenon, <1>3, <2>1, <2>2 DEF Among
<1> QED
  BY Zenon, <1>1, <1>2, <1>3 DEF Among

(* A list with one more behind.                                                *)
LEMMA AppendAmong ==
    \A M : \A q \in Seq(M) : \A m \in M :
        /\ Append(q, m) \in Seq(M)
        /\ Among(q) \/ OnTheWay(m) => Among(Append(q, m))
<1> SUFFICES ASSUME NEW M, NEW q \in Seq(M), NEW m \in M
             PROVE  Append(q, m) \in Seq(M) /\ (Among(q) \/ OnTheWay(m) => Among(Append(q, m)))
  BY Zenon
<1> DEFINE r == Append(q, m)
<1>1. /\ r \in Seq(M) /\ Len(r) = Len(q) + 1 /\ (\A i \in 1 .. Len(q) : r[i] = q[i]) /\ r[Len(q) + 1] = m
      /\ Len(q) \in Nat
  BY AppendProperties, LenProperties
<1>2. DOMAIN q = 1 .. Len(q) /\ DOMAIN r = 1 .. Len(r)
  BY <1>1, LenProperties
<1> HIDE DEF r
<1>3. (\A i \in DOMAIN q : i \in DOMAIN r /\ r[i] = q[i]) /\ Len(q) + 1 \in DOMAIN r
  BY <1>1, <1>2
<1>4. Among(q) \/ OnTheWay(m) => Among(r)
  BY Zenon, <1>1, <1>3 DEF Among
<1> QED
  BY Zenon, <1>1, <1>4 DEF r

(* A message taken in hand.                                                    *)
LEMMA TakenKeeps ==
    ASSUME NEW m \in Queued, NEW rest \in Seq(Queued) \cup {Popped}, Taken(m, rest)
    PROVE  ProcTypeOK' /\ (OnTheWay(m) => proc'.at = "reset") /\ proc'.batch = rest /\ proc'.at # "dispatch"
<1>1. proc' = [at |-> IF m[1] = "RESET" THEN "reset" ELSE "handle", message |-> m, list |-> <<>>, batch |-> rest]
  BY Zenon DEF Taken, Idle
<1>2. m[1] # "RESET" => m \in {"MESSAGE"} \X AllTopics \X Nat
  BY DEF Queued
<1>3. <<>> \in Seq(Entries)
  OBVIOUS
<1> QED
  BY <1>1, <1>2, <1>3 DEF ProcTypeOK, OnTheWay

(* Between messages nothing is in hand.                                        *)
LEMMA IdleIsTyped ==
    /\ proc' = Idle => ProcTypeOK' /\ proc'.at = "pop" /\ proc'.batch = <<>>
    /\ proc' = Ended => ProcTypeOK' /\ proc'.at = "ended" /\ proc'.batch = <<>>
<1>1. <<>> \in Seq(Entries) /\ <<>> \in Seq(Queued)
  OBVIOUS
<1>2. ASSUME proc' = Idle PROVE ProcTypeOK' /\ proc'.at = "pop" /\ proc'.batch = <<>>
  <2>1. proc' = [at |-> "pop", message |-> <<>>, list |-> <<>>, batch |-> <<>>]
    BY <1>2 DEF Idle
  <2> QED
    BY <1>1, <2>1 DEF ProcTypeOK
<1>3. ASSUME proc' = Ended PROVE ProcTypeOK' /\ proc'.at = "ended" /\ proc'.batch = <<>>
  <2>1. proc' = [at |-> "ended", message |-> <<>>, list |-> <<>>, batch |-> <<>>]
    BY <1>3 DEF Ended, Idle
  <2> QED
    BY <1>1, <2>1 DEF ProcTypeOK
<1> QED
  BY Zenon, <1>2, <1>3

(* The resets that the processing thread will find.                            *)
Ahead == Among(m_queue) \/ Among(proc.batch)

(* The next look of the processing loop takes a message or passes over none.   *)
LEMMA FollowsKeeps ==
    ASSUME QueueTypeOK, ProcTypeOK, Follows, UNCHANGED carried
    PROVE  /\ QueueTypeOK' /\ ProcTypeOK' /\ m_stop' = m_stop /\ proc'.at # "dispatch"
           /\ m_running /\ Ahead => proc'.at = "reset" \/ Ahead'
<1>1. m_queue \in Seq(Queued) /\ proc.batch \in Seq(Queued) \cup {Popped} /\ <<>> \in Seq(Queued)
  BY DEF QueueTypeOK, ProcTypeOK
<1>2. ~ Among(Popped) /\ ~ Among(<<>>)
  BY DEF Among, OnTheWay, Popped
<1>3. ASSUME NEW q \in Seq(Queued), TakenWhileRunning(q, Idle)
      PROVE  /\ ProcTypeOK' /\ proc'.at # "dispatch"
             /\ m_running /\ Among(q) => proc'.at = "reset" \/ Among(proc'.batch)
  <2>1. CASE q # <<>> /\ m_running
    <3>1. Taken(Head(q), Tail(q))
      BY Zenon, <1>3, <2>1 DEF TakenWhileRunning
    <3>2. Head(q) \in Queued /\ Tail(q) \in Seq(Queued) /\ (Among(q) => OnTheWay(Head(q)) \/ Among(Tail(q)))
      BY Zenon, <2>1, HeadOrTail
    <3>3. Tail(q) \in Seq(Queued) \cup {Popped}
      BY Zenon, <3>2
    <3>4. ProcTypeOK' /\ (OnTheWay(Head(q)) => proc'.at = "reset") /\ proc'.batch = Tail(q) /\ proc'.at # "dispatch"
      BY Zenon, <3>1, <3>2, <3>3, TakenKeeps
    <3> QED
      BY Zenon, <3>2, <3>4
  <2>2. CASE ~ (q # <<>> /\ m_running)
    <3>1. proc' = Idle
      BY Zenon, <1>3, <2>2 DEF TakenWhileRunning
    <3>2. ProcTypeOK' /\ proc'.at = "pop"
      BY Zenon, <3>1, IdleIsTyped
    <3> QED
      BY Zenon, <1>2, <2>2, <3>2
  <2> QED
    BY Zenon, <2>1, <2>2
<1>4. CASE proc.batch = Popped /\ m_queue # <<>> /\ drainTo /\ TakenWhileRunning(m_queue, Idle)
  <2>1. m_queue' = <<>> /\ at' = Awoken /\ m_stop' = m_stop
    BY Zenon, <1>4 DEF drainTo
  <2>2. QueueTypeOK'
    BY <1>1, <2>1 DEF QueueTypeOK, Awoken
  <2> QED
    BY Zenon, <1>1, <1>2, <1>3, <1>4, <2>1, <2>2 DEF Ahead
<1>5. CASE /\ proc.batch = Popped => m_queue = <<>>
           /\ TakenWhileRunning(IF proc.batch = Popped THEN <<>> ELSE proc.batch, Idle)
           /\ UNCHANGED queueVars
  <2>1. m_queue' = m_queue /\ at' = at /\ m_stop' = m_stop
    BY Zenon, <1>5 DEF queueVars
  <2>2. QueueTypeOK'
    BY <2>1 DEF QueueTypeOK
  <2> DEFINE q == IF proc.batch = Popped THEN <<>> ELSE proc.batch
  <2>3. q \in Seq(Queued) /\ (Among(proc.batch) => Among(q))
    BY Zenon, <1>1, <1>2
  <2>4. TakenWhileRunning(q, Idle)
    BY Zenon, <1>5
  <2> HIDE DEF q
  <2> QED
    BY Zenon, <1>3, <2>1, <2>2, <2>3, <2>4 DEF Ahead
<1> QED
  BY Zenon, <1>4, <1>5 DEF Follows

--------------------------------------------------------------------------------
(* Types, the count and the request's callback, action by action.              *)
Base == ManagerTypeOK /\ CountInv /\ ReplyInv
MapKept == UNCHANGED mapVars /\ (request' = "idle" <=> request = "idle")

(* A step that leaves the callbacks alone keeps their count.                   *)
LEMMA MapKeeps ==
    ASSUME CountInv, ReplyInv, MapKept
    PROVE  CountInv' /\ ReplyInv'
<1>1. m_msgHandlers' = m_msgHandlers /\ m_scopedHandlers' = m_scopedHandlers /\ (request' = "idle" <=> request = "idle")
  BY Zenon DEF MapKept, mapVars
<1>2. CountInv'
  BY <1>1 DEF CountInv, ScopedPlaces
<1>3. ReplyInv'
  BY Zenon, <1>1 DEF ReplyInv
<1> QED
  BY Zenon, <1>2, <1>3

(* The calls of the application, before init and after it.                     *)
LEMMA RegisterBase ==
    ASSUME Base, NEW t \in Topics, NEW i \in Instances, NEW s \in Scopes, registerInternal(t, i, s)
    PROVE  Base'
<1>1. /\ UNCHANGED <<s_instance, shut, m_stop, m_running, back, epoch, held, m_queue, at, carried, proc, request>>
      /\ ManagerTypeOK /\ CountInv /\ ReplyInv
  BY Zenon DEF registerInternal, stateVars, queueVars, requestVars, brokerVars, Base
<1>2. BrokerTypeOK' /\ QueueTypeOK' /\ ProcTypeOK'
  <2>1. BrokerTypeOK'
    BY Zenon, <1>1 DEF ManagerTypeOK, BrokerTypeOK
  <2>2. QueueTypeOK'
    BY Zenon, <1>1 DEF ManagerTypeOK, QueueTypeOK
  <2>3. ProcTypeOK'
    BY Zenon, <1>1 DEF ManagerTypeOK, ProcTypeOK
  <2> QED
    BY Zenon, <2>1, <2>2, <2>3
<1>3. CASE performRegistration(t, i, s) /\ UNCHANGED s_pendingMsgCallbacks
  <2>1. t \in AllTopics /\ i \in Instances \cup {Requester} /\ s \in Origin /\ t # ReplyTopic /\ ReplyTopic \in AllTopics
    BY ManagerAssumption DEF AllTopics
  <2>2. Changes(t)
    BY Zenon, <1>1, <1>3, <2>1, RegistrationChanges
  <2>3. ClientTypeOK'
    BY Zenon, <1>1, <1>3, <2>2 DEF ManagerTypeOK, ClientTypeOK, Changes
  <2>4. ReplyInv'
    BY Zenon, <1>1, <2>1, <2>2 DEF ReplyInv, Changes
  <2> QED
    BY Zenon, <1>2, <2>2, <2>3, <2>4 DEF Base, ManagerTypeOK, Changes
<1>4. CASE /\ s_pendingMsgCallbacks' = Append(s_pendingMsgCallbacks, <<t, i, s>>)
           /\ UNCHANGED <<mapVars, control, lost>>
  <2>1. s_pendingMsgCallbacks' \in Seq(Topics \X Instances \X Scopes)
    BY <1>1, <1>4 DEF ManagerTypeOK, ClientTypeOK
  <2>2. ClientTypeOK'
    BY Zenon, <1>1, <1>4, <2>1 DEF ManagerTypeOK, ClientTypeOK, mapVars
  <2>3. CountInv' /\ ReplyInv'
    BY Zenon, <1>1, <1>4, MapKeeps DEF MapKept
  <2> QED
    BY Zenon, <1>2, <2>2, <2>3 DEF Base, ManagerTypeOK
<1> QED
  BY Zenon, <1>3, <1>4 DEF registerInternal

(* The same for removals.                                                      *)
LEMMA UnregisterBase ==
    ASSUME Base, NEW t \in Topics, NEW i \in Instances, unregisterCallback(t, i)
    PROVE  Base'
<1>1. /\ UNCHANGED <<s_instance, shut, m_stop, m_running, back, epoch, held, m_queue, at, carried, proc, request>>
      /\ ManagerTypeOK /\ CountInv /\ ReplyInv
  BY Zenon DEF unregisterCallback, stateVars, queueVars, requestVars, brokerVars, Base
<1>2. BrokerTypeOK' /\ QueueTypeOK' /\ ProcTypeOK'
  <2>1. BrokerTypeOK'
    BY Zenon, <1>1 DEF ManagerTypeOK, BrokerTypeOK
  <2>2. QueueTypeOK'
    BY Zenon, <1>1 DEF ManagerTypeOK, QueueTypeOK
  <2>3. ProcTypeOK'
    BY Zenon, <1>1 DEF ManagerTypeOK, ProcTypeOK
  <2> QED
    BY Zenon, <2>1, <2>2, <2>3
<1>3. CASE performUnregistration(t, i) /\ UNCHANGED s_pendingMsgCallbacks
  <2>1. t \in AllTopics /\ t # ReplyTopic /\ ReplyTopic \in AllTopics
    BY ManagerAssumption DEF AllTopics
  <2>2. Changes(t)
    BY Zenon, <1>1, <1>3, <2>1, UnregistrationChanges
  <2>3. ClientTypeOK'
    BY Zenon, <1>1, <1>3, <2>2 DEF ManagerTypeOK, ClientTypeOK, Changes
  <2>4. ReplyInv'
    BY Zenon, <1>1, <2>1, <2>2 DEF ReplyInv, Changes
  <2> QED
    BY Zenon, <1>2, <2>2, <2>3, <2>4 DEF Base, ManagerTypeOK, Changes
<1>4. ASSUME NEW K \in SUBSET DOMAIN s_pendingMsgCallbacks,
             s_pendingMsgCallbacks' = ListOf(s_pendingMsgCallbacks, K), UNCHANGED <<mapVars, control, lost>>
      PROVE  Base'
  <2>1. s_pendingMsgCallbacks \in Seq(Topics \X Instances \X Scopes)
    BY Zenon, <1>1 DEF ManagerTypeOK, ClientTypeOK
  <2>2. s_pendingMsgCallbacks' \in Seq(Topics \X Instances \X Scopes)
    BY Zenon, <1>4, <2>1, ListOfIs DEF SublistOf
  <2>3. ClientTypeOK'
    BY Zenon, <1>1, <1>4, <2>2 DEF ManagerTypeOK, ClientTypeOK, mapVars
  <2>4. CountInv' /\ ReplyInv'
    BY Zenon, <1>1, <1>4, MapKeeps DEF MapKept
  <2> QED
    BY Zenon, <1>2, <2>3, <2>4 DEF Base, ManagerTypeOK
<1> DEFINE K == {k \in DOMAIN s_pendingMsgCallbacks :
                    ~ (s_pendingMsgCallbacks[k][1] = t /\ s_pendingMsgCallbacks[k][2] = i)}
<1>5. K \in SUBSET DOMAIN s_pendingMsgCallbacks
  OBVIOUS
<1>6. CASE s_pendingMsgCallbacks' = ListOf(s_pendingMsgCallbacks, K) /\ UNCHANGED <<mapVars, control, lost>>
  <2> HIDE DEF K
  <2> QED
    BY Zenon, <1>4, <1>5, <1>6
<1> QED
  BY Zenon, <1>3, <1>6 DEF unregisterCallback

(* init.                                                                       *)
LEMMA InitBeginsBase ==
    ASSUME Base, InitBegins
    PROVE  Base'
<1>1. ManagerTypeOK /\ ReplyInv /\ request = "idle" /\ request' = request
  BY Zenon DEF InitBegins, Base, requestVars
<1>2. /\ m_msgHandlers' = NoHandlers /\ m_scopedHandlers' = 0
      /\ control' = <<<<"CONNECT">>>> /\ back' = <<>> /\ m_queue' = <<>>
      /\ m_stop' = FALSE /\ m_running' = TRUE /\ shut' = "none"
      /\ at' = [at EXCEPT !["worker"] = "runs"] /\ carried' = <<>> /\ proc' = Idle
      /\ s_pendingMsgCallbacks' = s_pendingMsgCallbacks /\ epoch' = epoch /\ held' = held
  BY Zenon DEF InitBegins, brokerVars
<1>3. m_msgHandlers' \in [AllTopics -> Seq(Entries)] /\ ReplyTopic \in AllTopics
  BY <1>2 DEF NoHandlers, AllTopics
<1>4. control' \in Seq(Wishes)
  BY <1>2 DEF Wishes
<1>5. ClientTypeOK'
  BY Zenon, <1>1, <1>2, <1>3, <1>4 DEF ManagerTypeOK, ClientTypeOK
<1>6. BrokerTypeOK'
  BY <1>1, <1>2 DEF ManagerTypeOK, BrokerTypeOK
<1>7. QueueTypeOK'
  BY <1>1, <1>2 DEF ManagerTypeOK, QueueTypeOK
<1>8. ProcTypeOK'
  BY Zenon, <1>2, IdleIsTyped
<1>9. ReplyInv'
  BY <1>1, <1>2, <1>3 DEF ReplyInv, NoHandlers
<1>10. CountInv'
  <2>1. ScopedPlaces' = {}
    BY <1>2 DEF ScopedPlaces, Scoped, NoHandlers
  <2> QED
    BY <1>2, <2>1, FS_EmptySet DEF CountInv
<1> QED
  BY Zenon, <1>5, <1>6, <1>7, <1>8, <1>9, <1>10 DEF Base, ManagerTypeOK

(* The kept callbacks, one by one.                                             *)
LEMMA InitFlushesBase ==
    ASSUME Base, InitFlushes
    PROVE  Base'
<1>1. /\ UNCHANGED <<s_instance, shut, m_stop, m_running, back, epoch, held, m_queue, at, carried, proc, request>>
      /\ ManagerTypeOK /\ CountInv /\ ReplyInv
  BY DEF InitFlushes, stateVars, queueVars, requestVars, brokerVars, Base
<1>2. BrokerTypeOK' /\ QueueTypeOK' /\ ProcTypeOK'
  <2>1. BrokerTypeOK'
    BY Zenon, <1>1 DEF ManagerTypeOK, BrokerTypeOK
  <2>2. QueueTypeOK'
    BY Zenon, <1>1 DEF ManagerTypeOK, QueueTypeOK
  <2>3. ProcTypeOK'
    BY Zenon, <1>1 DEF ManagerTypeOK, ProcTypeOK
  <2> QED
    BY Zenon, <2>1, <2>2, <2>3
<1>3. CASE s_pendingMsgCallbacks = <<>>
  <2>1. UNCHANGED <<s_pendingMsgCallbacks, mapVars, control, lost>>
    BY Zenon, <1>3 DEF InitFlushes
  <2>2. ClientTypeOK'
    BY Zenon, <1>1, <2>1 DEF ManagerTypeOK, ClientTypeOK, mapVars
  <2>3. CountInv' /\ ReplyInv'
    BY Zenon, <1>1, <2>1, MapKeeps DEF MapKept
  <2> QED
    BY Zenon, <1>2, <2>2, <2>3 DEF Base, ManagerTypeOK
<1>4. CASE s_pendingMsgCallbacks # <<>>
  <2> DEFINE p == Head(s_pendingMsgCallbacks)
  <2>1. performRegistration(p[1], p[2], p[3]) /\ s_pendingMsgCallbacks' = Tail(s_pendingMsgCallbacks)
    BY Zenon, <1>4 DEF InitFlushes
  <2>2. p \in Topics \X Instances \X Scopes /\ s_pendingMsgCallbacks' \in Seq(Topics \X Instances \X Scopes)
    BY <1>1, <1>4, <2>1, HeadTailProperties DEF ManagerTypeOK, ClientTypeOK
  <2> HIDE DEF p
  <2>3. /\ p[1] \in AllTopics /\ p[2] \in Instances \cup {Requester} /\ p[3] \in Origin
        /\ p[1] # ReplyTopic /\ ReplyTopic \in AllTopics
    BY <2>2, ManagerAssumption DEF AllTopics
  <2>4. Changes(p[1])
    BY Zenon, <1>1, <2>1, <2>3, RegistrationChanges
  <2>5. ClientTypeOK'
    BY Zenon, <1>1, <2>2, <2>4 DEF ManagerTypeOK, ClientTypeOK, Changes
  <2>6. ReplyInv'
    BY Zenon, <1>1, <2>3, <2>4 DEF ReplyInv, Changes
  <2> QED
    BY Zenon, <1>2, <2>4, <2>5, <2>6 DEF Base, ManagerTypeOK, Changes
<1> QED
  BY Zenon, <1>3, <1>4

(* shutdown, and the threads' end.                                             *)
LEMMA ShutdownBase ==
    ASSUME Base, shutdown \/ TeardownStops \/ TeardownJoins
    PROVE  Base'
<1>1. ManagerTypeOK /\ CountInv /\ ReplyInv
  BY Zenon DEF Base
<1>2. CountInv' /\ ReplyInv'
  <2>1. UNCHANGED mapVars /\ request' = request
    BY Zenon DEF shutdown, TeardownStops, TeardownJoins, requestVars
  <2> QED
    BY Zenon, <1>1, <2>1, MapKeeps DEF MapKept
<1>3. CASE shutdown
  <2>1. /\ UNCHANGED <<s_pendingMsgCallbacks, m_msgHandlers, back, epoch, held, m_queue, at, carried, proc>>
        /\ s_instance' = FALSE
        /\ IF m_connected THEN SendControl(<<<<"DISCONNECT">>>>) ELSE UNCHANGED <<control, lost>>
    BY Zenon, <1>3 DEF shutdown, mapVars, queueVars, brokerVars
  <2>2. control' \in Seq(Wishes)
    <3>1. <<<<"DISCONNECT">>>> \in Seq(Wishes)
      BY DEF Wishes
    <3>2. control \in Seq(Wishes)
      BY Zenon, <1>1 DEF ManagerTypeOK, ClientTypeOK
    <3> QED
      BY Zenon, <2>1, <3>1, <3>2, SendsOrLoses
  <2>3. ClientTypeOK'
    BY Zenon, <1>1, <2>1, <2>2 DEF ManagerTypeOK, ClientTypeOK
  <2>4. BrokerTypeOK'
    BY Zenon, <1>1, <2>1 DEF ManagerTypeOK, BrokerTypeOK
  <2>5. QueueTypeOK'
    BY Zenon, <1>1, <2>1 DEF ManagerTypeOK, QueueTypeOK
  <2>6. ProcTypeOK'
    BY Zenon, <1>1, <2>1 DEF ManagerTypeOK, ProcTypeOK
  <2> QED
    BY Zenon, <1>2, <2>3, <2>4, <2>5, <2>6 DEF Base, ManagerTypeOK
<1>4. CASE TeardownStops
  <2>1. /\ UNCHANGED <<s_pendingMsgCallbacks, s_instance, m_msgHandlers, control, back, epoch, held, m_queue, carried, proc>>
        /\ shut = "stops" /\ at' = Awoken
    BY Zenon, <1>4 DEF TeardownStops, stop, apiVars, mapVars, brokerVars
  <2>2. ~ s_instance
    BY <1>1, <2>1 DEF ManagerTypeOK, ClientTypeOK
  <2>3. ClientTypeOK'
    BY Zenon, <1>1, <2>1, <2>2 DEF ManagerTypeOK, ClientTypeOK
  <2>4. BrokerTypeOK'
    BY Zenon, <1>1, <2>1 DEF ManagerTypeOK, BrokerTypeOK
  <2>5. QueueTypeOK'
    BY <1>1, <2>1 DEF ManagerTypeOK, QueueTypeOK, Awoken
  <2>6. ProcTypeOK'
    BY Zenon, <1>1, <2>1 DEF ManagerTypeOK, ProcTypeOK
  <2> QED
    BY Zenon, <1>2, <2>3, <2>4, <2>5, <2>6 DEF Base, ManagerTypeOK
<1>5. CASE TeardownJoins
  <2>1. /\ UNCHANGED <<s_pendingMsgCallbacks, s_instance, m_msgHandlers, epoch, held, m_queue, carried, proc>>
        /\ shut = "joins" /\ at["worker"] = "runs" /\ at' = [at EXCEPT !["worker"] = "none"] /\ back' = <<>>
        /\ \E n \in 0 .. Len(control) : control' = SubSeq(control, 1, n)
    BY Zenon, <1>5 DEF TeardownJoins, apiVars, mapVars, brokerVars
  <2>2. ~ s_instance
    BY <1>1, <2>1 DEF ManagerTypeOK, ClientTypeOK
  <2>3. control' \in Seq(Wishes)
    <3>1. PICK n \in 0 .. Len(control) : control' = SubSeq(control, 1, n)
      BY Zenon, <2>1
    <3>2. control \in Seq(Wishes) /\ Len(control) \in Nat
      BY <1>1, LenProperties DEF ManagerTypeOK, ClientTypeOK
    <3>3. 1 \in Int /\ n \in Int /\ \A i \in 1 .. n : control[i] \in Wishes
      BY <3>2, ElementOfSeq
    <3> QED
      BY <3>1, <3>3, SubSeqProperties
  <2>4. ClientTypeOK'
    BY Zenon, <1>1, <2>1, <2>2, <2>3 DEF ManagerTypeOK, ClientTypeOK
  <2>5. BrokerTypeOK'
    BY <1>1, <2>1 DEF ManagerTypeOK, BrokerTypeOK
  <2>6. QueueTypeOK'
    BY <1>1, <2>1 DEF ManagerTypeOK, QueueTypeOK
  <2>7. ProcTypeOK'
    BY Zenon, <1>1, <2>1 DEF ManagerTypeOK, ProcTypeOK
  <2> QED
    BY Zenon, <1>2, <2>4, <2>5, <2>6, <2>7 DEF Base, ManagerTypeOK
<1> QED
  BY Zenon, <1>3, <1>4, <1>5

(* A removal of the only callback there is leaves none.                        *)
LEMMA WithoutOnly == Without(Requester, <<<<Requester, OriginAny>>>>) = <<>>
<1> DEFINE l == <<<<Requester, OriginAny>>>>
<1>1. DOMAIN l \ Of(Requester, l) = {}
  BY DEF Of
<1>2. 1 .. Cardinality({}) = {}
  BY FS_EmptySet
<1>3. Without(Requester, l) = [k \in {} |-> l[Place(k, {})]]
  BY Zenon, <1>1, <1>2 DEF Without, ListOf
<1> QED
  BY <1>3

(* A request.                                                                  *)
LEMMA RequestBase ==
    ASSUME Base, RequestRegisters \/ RequestSends \/ RequestEnds
    PROVE  Base'
<1>1. /\ ManagerTypeOK /\ CountInv /\ ReplyInv /\ ReplyTopic \in AllTopics
      /\ UNCHANGED <<s_pendingMsgCallbacks, s_instance, shut, m_stop, m_running, back, epoch, held, m_queue, at, carried, proc>>
  <2>1. ManagerTypeOK /\ CountInv /\ ReplyInv /\ ReplyTopic \in AllTopics
    BY Zenon DEF Base, AllTopics
  <2>2. RequestRegisters => UNCHANGED <<s_pendingMsgCallbacks, s_instance, shut, m_stop, m_running, back, epoch, held,
                                        m_queue, at, carried, proc>>
    BY Zenon DEF RequestRegisters, stateVars, queueVars, brokerVars
  <2>3. RequestSends => UNCHANGED <<s_pendingMsgCallbacks, s_instance, shut, m_stop, m_running, back, epoch, held,
                                    m_queue, at, carried, proc>>
    BY Zenon DEF RequestSends, apiVars, stateVars, queueVars, brokerVars
  <2>4. RequestEnds => UNCHANGED <<s_pendingMsgCallbacks, s_instance, shut, m_stop, m_running, back, epoch, held,
                                   m_queue, at, carried, proc>>
    BY Zenon DEF RequestEnds, apiVars, stateVars, queueVars, brokerVars
  <2> QED
    BY Zenon, <2>1, <2>2, <2>3, <2>4
<1>2. BrokerTypeOK' /\ QueueTypeOK' /\ ProcTypeOK'
  <2>1. BrokerTypeOK'
    BY Zenon, <1>1 DEF ManagerTypeOK, BrokerTypeOK
  <2>2. QueueTypeOK'
    BY Zenon, <1>1 DEF ManagerTypeOK, QueueTypeOK
  <2>3. ProcTypeOK'
    BY Zenon, <1>1 DEF ManagerTypeOK, ProcTypeOK
  <2> QED
    BY Zenon, <2>1, <2>2, <2>3
<1>3. CASE RequestRegisters
  <2>1. performRegistration(ReplyTopic, Requester, OriginAny) /\ request = "idle" /\ request' = "sends"
    BY Zenon, <1>3 DEF RequestRegisters
  <2>2. OriginAny \in Origin /\ Requester \in Instances \cup {Requester}
    BY DEF Origin
  <2>3. Changes(ReplyTopic) /\ m_msgHandlers'[ReplyTopic] = Append(m_msgHandlers[ReplyTopic], <<Requester, OriginAny>>)
    BY Zenon, <1>1, <2>1, <2>2, RegistrationChanges
  <2>4. m_msgHandlers[ReplyTopic] = <<>>
    BY Zenon, <1>1, <2>1 DEF ReplyInv
  <2>5. Append(<<>>, <<Requester, OriginAny>>) = <<<<Requester, OriginAny>>>>
    OBVIOUS
  <2>6. ReplyInv'
    BY <2>1, <2>3, <2>4, <2>5 DEF ReplyInv
  <2>7. ClientTypeOK'
    BY Zenon, <1>1, <2>3 DEF ManagerTypeOK, ClientTypeOK, Changes
  <2> QED
    BY Zenon, <1>2, <2>3, <2>6, <2>7 DEF Base, ManagerTypeOK, Changes
<1>4. CASE RequestSends
  <2>1. UNCHANGED <<m_msgHandlers, m_scopedHandlers, control>> /\ request = "sends" /\ request' = "waits"
    BY Zenon, <1>4 DEF RequestSends, mapVars
  <2>2. MapKept
    BY <2>1 DEF MapKept, mapVars
  <2>3. ClientTypeOK'
    BY Zenon, <1>1, <2>1 DEF ManagerTypeOK, ClientTypeOK
  <2>4. CountInv' /\ ReplyInv'
    BY Zenon, <1>1, <2>2, MapKeeps
  <2> QED
    BY Zenon, <1>2, <2>3, <2>4 DEF Base, ManagerTypeOK
<1>5. CASE RequestEnds
  <2>1. performUnregistration(ReplyTopic, Requester) /\ request # "idle" /\ request' = "idle"
    BY <1>5 DEF RequestEnds
  <2>2. m_msgHandlers[ReplyTopic] = <<<<Requester, OriginAny>>>>
    BY Zenon, <1>1, <2>1 DEF ReplyInv
  <2>3. <<<<Requester, OriginAny>>>> # <<>>
    OBVIOUS
  <2>4. Changes(ReplyTopic) /\ m_msgHandlers'[ReplyTopic] = <<>>
    BY Zenon, <1>1, <2>1, <2>2, <2>3, UnregistrationChanges, WithoutOnly
  <2>5. ReplyInv'
    BY Zenon, <2>1, <2>4 DEF ReplyInv
  <2>6. ClientTypeOK'
    BY Zenon, <1>1, <2>4 DEF ManagerTypeOK, ClientTypeOK, Changes
  <2> QED
    BY Zenon, <1>2, <2>4, <2>5, <2>6 DEF Base, ManagerTypeOK, Changes
<1> QED
  BY Zenon, <1>3, <1>4, <1>5

(* The worker's thread.                                                        *)
LEMMA WorkerBase ==
    ASSUME Base, Receives \/ Pushes \/ GoesOffline
    PROVE  Base'
<1>1. ManagerTypeOK /\ CountInv /\ ReplyInv
  BY Zenon DEF Base
<1>2. /\ UNCHANGED <<s_pendingMsgCallbacks, s_instance, shut, m_stop, m_running, m_msgHandlers, epoch, held, proc>>
      /\ UNCHANGED mapVars /\ request' = request
  <2>1. Receives => UNCHANGED <<s_pendingMsgCallbacks, s_instance, shut, m_stop, m_running, m_msgHandlers, epoch, held, proc>>
                    /\ UNCHANGED mapVars /\ request' = request
    BY DEF Receives, apiVars, mapVars, requestVars, brokerVars
  <2>2. Pushes => UNCHANGED <<s_pendingMsgCallbacks, s_instance, shut, m_stop, m_running, m_msgHandlers, epoch, held, proc>>
                  /\ UNCHANGED mapVars /\ request' = request
    BY DEF Pushes, push, pushWaits, pushTimesOut, apiVars, mapVars, requestVars, brokerVars, stateVars
  <2>3. GoesOffline => UNCHANGED <<s_pendingMsgCallbacks, s_instance, shut, m_stop, m_running, m_msgHandlers, epoch, held, proc>>
                       /\ UNCHANGED mapVars /\ request' = request
    BY DEF GoesOffline, apiVars, mapVars, requestVars, brokerVars, queueVars
  <2> QED
    BY Zenon, <2>1, <2>2, <2>3
<1>3. CountInv' /\ ReplyInv' /\ ProcTypeOK'
  <2>1. CountInv' /\ ReplyInv'
    BY Zenon, <1>1, <1>2, MapKeeps DEF MapKept
  <2>2. ProcTypeOK'
    BY Zenon, <1>1, <1>2 DEF ManagerTypeOK, ProcTypeOK
  <2> QED
    BY Zenon, <2>1, <2>2
<1>4. CASE Receives
  <2> DEFINE m == Head(back)
  <2>1. /\ at["worker"] = "runs" /\ back # <<>> /\ back' = Tail(back) /\ m_queue' = m_queue
        /\ IF m_connected THEN UNCHANGED <<control, lost>> ELSE SendControl(<<<<"CONNECT">>>> \o Resubscription)
        /\ \/ m[1] = "HEARTBEAT_ACK" /\ UNCHANGED <<at, carried>>
           \/ m[1] # "HEARTBEAT_ACK" /\ at' = [at EXCEPT !["worker"] = "pushes"] /\ carried' = m
    BY Zenon, <1>4 DEF Receives, statusHandler
  <2>2. m \in Answers /\ Tail(back) \in Seq(Answers)
    BY <1>1, <2>1, HeadTailProperties DEF ManagerTypeOK, BrokerTypeOK
  <2> HIDE DEF m
  <2>3. m[1] # "HEARTBEAT_ACK" => m \in Queued
    BY <2>2 DEF Answers
  <2>4. QueueTypeOK'
    BY <1>1, <2>1, <2>3 DEF ManagerTypeOK, QueueTypeOK
  <2>5. BrokerTypeOK'
    BY Zenon, <1>1, <1>2, <2>1, <2>2 DEF ManagerTypeOK, BrokerTypeOK
  <2>6. control \in Seq(Wishes) /\ m_msgHandlers \in [AllTopics -> Seq(Entries)]
    BY Zenon, <1>1 DEF ManagerTypeOK, ClientTypeOK
  <2>7. <<<<"CONNECT">>>> \o Resubscription \in Seq(Wishes)
    BY Zenon, <2>6, ResubscriptionSpeaks DEF SpeaksAll
  <2>8. control' \in Seq(Wishes)
    BY Zenon, <2>1, <2>6, <2>7, SendsOrLoses
  <2>9. ClientTypeOK'
    BY Zenon, <1>1, <1>2, <2>8 DEF ManagerTypeOK, ClientTypeOK
  <2> QED
    BY Zenon, <1>3, <2>4, <2>5, <2>9 DEF Base, ManagerTypeOK
<1>5. CASE Pushes \/ GoesOffline
  <2>1. control' = control /\ back' = back
    BY Zenon, <1>5 DEF Pushes, GoesOffline
  <2>2. ClientTypeOK'
    BY Zenon, <1>1, <1>2, <2>1 DEF ManagerTypeOK, ClientTypeOK
  <2>3. BrokerTypeOK'
    BY Zenon, <1>1, <1>2, <2>1 DEF ManagerTypeOK, BrokerTypeOK
  <2>4. QueueTypeOK'
    <3>1. CASE GoesOffline
      BY Zenon, <1>1, <3>1 DEF GoesOffline, queueVars, ManagerTypeOK, QueueTypeOK
    <3>2. CASE Pushes
      <4>0. /\ m_queue \in Seq(Queued) /\ at \in [{"worker"} -> {"none", "runs", "pushes", "sleeps"}]
            /\ at["worker"] \in {"pushes", "sleeps"} => carried \in Queued
            /\ carried' = IF at'["worker"] = "runs" THEN <<>> ELSE carried
        BY <1>1, <3>2 DEF ManagerTypeOK, QueueTypeOK, Pushes
      <4>1. CASE push("worker", carried)
        <5>1. m_queue' \in Seq(Queued)
          BY <4>0, <4>1 DEF push
        <5> QED
          BY <4>0, <4>1, <5>1 DEF push, QueueTypeOK
      <4>2. CASE pushWaits("worker")
        BY <4>0, <4>2 DEF pushWaits, QueueTypeOK
      <4>3. CASE pushTimesOut("worker")
        <5>1. PICK w \in {"pushes", "runs"} : at' = [at EXCEPT !["worker"] = w]
          BY Zenon, <4>3 DEF pushTimesOut
        <5>2. at["worker"] = "sleeps" /\ m_queue' = m_queue
          BY Zenon, <4>3 DEF pushTimesOut
        <5> QED
          BY <4>0, <5>1, <5>2 DEF QueueTypeOK
      <4> QED
        BY Zenon, <3>2, <4>1, <4>2, <4>3 DEF Pushes
    <3> QED
      BY Zenon, <1>5, <3>1, <3>2
  <2> QED
    BY Zenon, <1>3, <2>2, <2>3, <2>4 DEF Base, ManagerTypeOK
<1> QED
  BY Zenon, <1>4, <1>5

(* The processing thread.                                                      *)
LEMMA AcceptingIsTyped ==
    ASSUME ManagerTypeOK, NEW t \in AllTopics
    PROVE  Callbacks(t) \in Seq(Entries) /\ \A K \in SUBSET DOMAIN Callbacks(t) : SublistOf(Entries, Callbacks(t), K)
<1>1. \A u \in AllTopics : m_msgHandlers[u] \in Seq(Entries)
  BY Zenon DEF ManagerTypeOK, ClientTypeOK
<1>2. WILDCARD_TOPIC \in AllTopics
  BY ManagerAssumption DEF AllTopics
<1>3. Callbacks(t) \in Seq(Entries)
  BY <1>1, <1>2, ConcatProperties, EmptySeq DEF Callbacks
<1> QED
  BY Zenon, <1>3, ListOfIs

(* Its steps.                                                                  *)
LEMMA ProcessingBase ==
    ASSUME Base, ProcessingStep
    PROVE  Base'
<1>1. ManagerTypeOK /\ CountInv /\ ReplyInv /\ QueueTypeOK /\ ProcTypeOK
  BY Zenon DEF Base, ManagerTypeOK
<1>2. UNCHANGED <<s_pendingMsgCallbacks, s_instance, shut, m_running, m_msgHandlers, back, epoch, held, carried>>
      /\ UNCHANGED mapVars
  BY Zenon DEF ProcessingStep, Pops, resubscribeAll, handleMessage, Dispatch, apiVars, mapVars, stateVars, brokerVars
<1>3. MapKept
  <2>1. request' = "idle" <=> request = "idle"
    BY DEF ProcessingStep, Pops, resubscribeAll, handleMessage, Dispatch, requestVars
  <2> QED
    BY Zenon, <1>2, <2>1 DEF MapKept
<1>4. CountInv' /\ ReplyInv' /\ BrokerTypeOK'
  <2>1. CountInv' /\ ReplyInv'
    BY Zenon, <1>1, <1>3, MapKeeps
  <2>2. BrokerTypeOK'
    BY Zenon, <1>1, <1>2 DEF ManagerTypeOK, BrokerTypeOK
  <2> QED
    BY Zenon, <2>1, <2>2
<1>5. ASSUME control' \in Seq(Wishes), m_stop' = m_stop, QueueTypeOK', ProcTypeOK' PROVE Base'
  <2>1. ClientTypeOK'
    BY Zenon, <1>1, <1>2, <1>5 DEF ManagerTypeOK, ClientTypeOK
  <2> QED
    BY Zenon, <1>4, <1>5, <2>1 DEF Base, ManagerTypeOK
<1>6. control \in Seq(Wishes) /\ m_msgHandlers \in [AllTopics -> Seq(Entries)]
  BY Zenon, <1>1 DEF ManagerTypeOK, ClientTypeOK
<1>7. CASE Pops
  <2>1. control' = control
    BY Zenon, <1>7 DEF Pops
  <2>2. CASE m_queue = <<>> /\ m_stop /\ proc' = Ended /\ UNCHANGED queueVars
    <3>1. m_stop' = m_stop /\ QueueTypeOK'
      BY Zenon, <1>1, <1>2, <2>2 DEF queueVars, QueueTypeOK
    <3> QED
      BY Zenon, <1>5, <1>6, <2>1, <2>2, <3>1, IdleIsTyped
  <2>3. CASE pop /\ IF m_running THEN Taken(Head(m_queue), Popped) ELSE proc' = Ended
    <3>1. m_queue # <<>> /\ m_queue' = Tail(m_queue) /\ m_stop' = m_stop
      BY Zenon, <2>3 DEF pop
    <3>2. m_queue \in Seq(Queued) /\ at \in [{"worker"} -> {"none", "runs", "pushes", "sleeps"}]
      BY Zenon, <1>1 DEF QueueTypeOK
    <3>3. Head(m_queue) \in Queued /\ Tail(m_queue) \in Seq(Queued)
      BY Zenon, <3>1, <3>2, HeadOrTail
    <3>4. at' = at \/ (at["worker"] = "sleeps" /\ at' = [at EXCEPT !["worker"] = "pushes"])
      BY <2>3, <3>2 DEF pop
    <3>5. QueueTypeOK'
      BY <1>1, <1>2, <3>1, <3>3, <3>4 DEF QueueTypeOK
    <3>6. Popped \in Seq(Queued) \cup {Popped}
      OBVIOUS
    <3>7. ProcTypeOK'
      BY Zenon, <2>3, <3>3, <3>6, TakenKeeps, IdleIsTyped
    <3> QED
      BY Zenon, <1>5, <1>6, <2>1, <3>1, <3>5, <3>7
  <2> QED
    BY Zenon, <1>7, <2>2, <2>3 DEF Pops
<1>8. ASSUME Follows PROVE QueueTypeOK' /\ ProcTypeOK' /\ m_stop' = m_stop
  BY Zenon, <1>1, <1>2, <1>8, FollowsKeeps
<1>9. CASE resubscribeAll
  <2>1. SendControl(Resubscription) /\ Follows
    BY Zenon, <1>9 DEF resubscribeAll
  <2>2. Resubscription \in Seq(Wishes)
    BY Zenon, <1>6, ResubscriptionSpeaks DEF SpeaksAll
  <2>3. control' \in Seq(Wishes)
    BY Zenon, <1>6, <2>1, <2>2, SendsOrLoses
  <2> QED
    BY Zenon, <1>5, <1>8, <2>1, <2>3
<1>10. ASSUME UNCHANGED queueVars PROVE QueueTypeOK' /\ m_stop' = m_stop
  BY Zenon, <1>1, <1>2, <1>10 DEF queueVars, QueueTypeOK
<1>11. CASE handleMessage
  <2> DEFINE all == Callbacks(proc.message[2])
             K == {i \in DOMAIN all : scopeAccepts(all[i][2], IsLocal(proc.message[3]))}
             accepting == ListOf(all, K)
  <2>1. control' = control /\ proc.at = "handle"
        /\ (Follows \/ (proc' = [proc EXCEPT !.at = "dispatch", !.list = accepting] /\ UNCHANGED queueVars))
    BY Zenon, <1>11 DEF handleMessage
  <2>2. proc.message \in {"MESSAGE"} \X AllTopics \X Nat
    BY <1>1, <2>1 DEF ProcTypeOK
  <2>3. proc.message[2] \in AllTopics
    BY <2>2
  <2>4. K \in SUBSET DOMAIN all
    OBVIOUS
  <2>5. accepting \in Seq(Entries)
    <3> HIDE DEF K
    <3> QED
      BY Zenon, <1>1, <2>3, <2>4, AcceptingIsTyped DEF SublistOf
  <2> HIDE DEF accepting
  <2>6. proc' = [proc EXCEPT !.at = "dispatch", !.list = accepting] => ProcTypeOK'
    BY Zenon, <1>1, <2>2, <2>5 DEF ProcTypeOK
  <2> QED
    BY Zenon, <1>5, <1>6, <1>8, <1>10, <2>1, <2>6
<1>12. CASE Dispatch
  <2>1. control' = control /\ proc.at = "dispatch"
        /\ (Follows \/ (Len(proc.list) > 1 /\ proc' = [proc EXCEPT !.list = Tail(@)] /\ UNCHANGED queueVars))
    BY Zenon, <1>12 DEF Dispatch
  <2>2. ASSUME Len(proc.list) > 1, proc' = [proc EXCEPT !.list = Tail(@)] PROVE ProcTypeOK'
    <3>1. proc.list \in Seq(Entries)
      BY <1>1 DEF ProcTypeOK
    <3>2. proc.list # <<>>
      BY <2>2, <3>1
    <3>3. Tail(proc.list) \in Seq(Entries)
      BY <3>1, <3>2, HeadTailProperties
    <3> QED
      BY Zenon, <1>1, <2>1, <2>2, <3>3 DEF ProcTypeOK
  <2> QED
    BY Zenon, <1>5, <1>6, <1>8, <1>10, <2>1, <2>2
<1> QED
  BY Zenon, <1>7, <1>9, <1>11, <1>12 DEF ProcessingStep

(* The broker.                                                                 *)
LEMMA ConcatAmong ==
    \A M : \A q, r \in Seq(M) :
        /\ q \o r \in Seq(M)
        /\ Among(q) \/ Among(r) => Among(q \o r)
<1> SUFFICES ASSUME NEW M, NEW q \in Seq(M), NEW r \in Seq(M)
             PROVE  q \o r \in Seq(M) /\ (Among(q) \/ Among(r) => Among(q \o r))
  BY Zenon
<1> DEFINE s == q \o r
<1>1. /\ s \in Seq(M) /\ Len(s) = Len(q) + Len(r)
      /\ \A i \in 1 .. Len(q) + Len(r) : s[i] = IF i <= Len(q) THEN q[i] ELSE r[i - Len(q)]
  BY ConcatProperties
<1>2. /\ DOMAIN q = 1 .. Len(q) /\ DOMAIN r = 1 .. Len(r) /\ DOMAIN s = 1 .. Len(s)
      /\ Len(q) \in Nat /\ Len(r) \in Nat
  BY <1>1, LenProperties
<1> HIDE DEF s
<1>3. \A i \in DOMAIN q : i \in DOMAIN s /\ s[i] = q[i]
  BY <1>1, <1>2
<1>4. \A i \in DOMAIN r : Len(q) + i \in DOMAIN s /\ s[Len(q) + i] = r[i]
  BY <1>1, <1>2
<1>5. Among(q) \/ Among(r) => Among(s)
  BY Zenon, <1>3, <1>4 DEF Among
<1> QED
  BY Zenon, <1>1, <1>5 DEF s

(* Whoever it does not know is answered with a RESET.                          *)
LEMMA AskedIs ==
    ASSUME epoch \in Nat \ {0}, NEW key
    PROVE  Asked(key) \in Seq(Answers) /\ (~ known /\ key \notin {"CONNECT", "DISCONNECT"} => Among(Asked(key)))
<1>1. <<"RESET", epoch>> \in Answers /\ OnTheWay(<<"RESET", epoch>>)
  BY DEF Answers, Queued, OnTheWay
<1>2. <<<<"RESET", epoch>>>> \in Seq(Answers) /\ Among(<<<<"RESET", epoch>>>>)
  BY <1>1 DEF Among
<1>3. <<>> \in Seq(Answers)
  OBVIOUS
<1> QED
  BY Zenon, <1>2, <1>3 DEF Asked

(* Its steps.                                                                  *)
BrokerActs == \/ BrokerStep \/ Heartbeat \/ BrokerForgets
              \/ \E t \in AllTopics, o \in {0, epoch} : Routes(t, o)

(* No step of the broker disturbs the types or the callbacks.                  *)
LEMMA BrokerBase ==
    ASSUME Base, BrokerActs
    PROVE  Base'
<1>1. ManagerTypeOK /\ CountInv /\ ReplyInv /\ QueueTypeOK /\ ProcTypeOK
  BY Zenon DEF Base, ManagerTypeOK
<1>2. UNCHANGED <<s_pendingMsgCallbacks, s_instance, shut, m_stop, m_running, m_msgHandlers, m_queue, at, carried, proc,
                  mapVars, request>>
  <2>1. BrokerHandlesControl =>
            UNCHANGED <<s_pendingMsgCallbacks, s_instance, shut, m_stop, m_running, m_msgHandlers, m_queue, at, carried, proc,
                        mapVars, request>>
    BY DEF BrokerHandlesControl, apiVars, mapVars, stateVars, queueVars, requestVars
  <2>2. BrokerHandlesRequest \/ Heartbeat \/ BrokerForgets =>
            UNCHANGED <<s_pendingMsgCallbacks, s_instance, shut, m_stop, m_running, m_msgHandlers, m_queue, at, carried, proc,
                        mapVars, request>>
    BY DEF BrokerHandlesRequest, Heartbeat, BrokerForgets, apiVars, mapVars, stateVars, queueVars, requestVars
  <2>3. ASSUME NEW t, NEW o, Routes(t, o)
        PROVE UNCHANGED <<s_pendingMsgCallbacks, s_instance, shut, m_stop, m_running, m_msgHandlers, m_queue, at, carried, proc,
                          mapVars, request>>
    BY <2>3 DEF Routes, apiVars, mapVars, stateVars, queueVars, requestVars
  <2> QED
    BY Zenon, <2>1, <2>2, <2>3 DEF BrokerActs, BrokerStep
<1>3. CountInv' /\ ReplyInv' /\ QueueTypeOK' /\ ProcTypeOK'
  <2>1. MapKept
    BY Zenon, <1>2 DEF MapKept
  <2>2. CountInv' /\ ReplyInv'
    BY Zenon, <1>1, <2>1, MapKeeps
  <2>3. QueueTypeOK'
    BY Zenon, <1>1, <1>2 DEF QueueTypeOK
  <2>4. ProcTypeOK'
    BY Zenon, <1>1, <1>2 DEF ProcTypeOK
  <2> QED
    BY Zenon, <2>2, <2>3, <2>4
<1>4. ASSUME control' \in Seq(Wishes), BrokerTypeOK' PROVE Base'
  <2>1. ClientTypeOK'
    BY Zenon, <1>1, <1>2, <1>4 DEF ManagerTypeOK, ClientTypeOK
  <2> QED
    BY Zenon, <1>3, <1>4, <2>1 DEF Base, ManagerTypeOK
<1>5. /\ control \in Seq(Wishes) /\ back \in Seq(Answers) /\ epoch \in Nat \ {0}
      /\ held \in [AllTopics -> SUBSET OriginAny]
  BY Zenon, <1>1 DEF ManagerTypeOK, ClientTypeOK, BrokerTypeOK
<1>6. \A key : Asked(key) \in Seq(Answers) /\ back \o Asked(key) \in Seq(Answers)
  BY Zenon, <1>5, AskedIs, ConcatAmong
<1>7. NoSubscriptions \in [AllTopics -> SUBSET OriginAny]
  BY DEF NoSubscriptions, NoScope
<1>8. CASE BrokerHandlesControl
  <2> DEFINE m == Head(control)
  <2>1. /\ control # <<>> /\ control' = Tail(control) /\ epoch' = epoch
        /\ back' = IF shut = "down" THEN back ELSE back \o Asked(m[1])
        /\ held' = CASE m[1] = "SUBSCRIBE" -> [held EXCEPT ![m[2]] = m[3]]
                     [] m[1] = "UNSUBSCRIBE" -> [held EXCEPT ![m[2]] = NoScope]
                     [] m[1] = "DISCONNECT" -> NoSubscriptions
                     [] OTHER -> held
    BY <1>8 DEF BrokerHandlesControl
  <2>2. m \in Wishes /\ control' \in Seq(Wishes)
    BY Zenon, <1>5, <2>1, FrontSays
  <2> HIDE DEF m
  <2>3. back' \in Seq(Answers)
    BY Zenon, <1>5, <1>6, <2>1
  <2>4. held' \in [AllTopics -> SUBSET OriginAny]
    <3>1. CASE m[1] = "SUBSCRIBE"
      <4>1. m[2] \in AllTopics /\ m[3] \in SUBSET OriginAny
        BY <2>2, <3>1 DEF Wishes
      <4>2. held' = [held EXCEPT ![m[2]] = m[3]]
        BY <2>1, <3>1
      <4> QED
        BY <1>5, <4>1, <4>2
    <3>2. CASE m[1] = "UNSUBSCRIBE"
      <4>1. held' = [held EXCEPT ![m[2]] = NoScope]
        BY <2>1, <3>2
      <4> QED
        BY Zenon, <1>5, <4>1 DEF NoScope
    <3>3. CASE m[1] = "DISCONNECT"
      BY <1>7, <2>1, <3>3
    <3>4. CASE m[1] \notin {"SUBSCRIBE", "UNSUBSCRIBE", "DISCONNECT"}
      BY <1>5, <2>1, <3>4
    <3> QED
      BY <3>1, <3>2, <3>3, <3>4
  <2> QED
    BY Zenon, <1>4, <1>5, <2>1, <2>2, <2>3, <2>4 DEF BrokerTypeOK
<1>9. CASE BrokerHandlesRequest
  <2>1. control' = control /\ back' = back \o Asked("request") /\ epoch' = epoch /\ held' = held
    BY Zenon, <1>9 DEF BrokerHandlesRequest
  <2> QED
    BY Zenon, <1>4, <1>5, <1>6, <2>1 DEF BrokerTypeOK
<1>10. CASE Heartbeat
  <2>1. control' = control /\ back' = Asked("HEARTBEAT") \o <<<<"HEARTBEAT_ACK", epoch>>>> /\ epoch' = epoch /\ held' = held
    BY Zenon, <1>10 DEF Heartbeat
  <2>2. <<<<"HEARTBEAT_ACK", epoch>>>> \in Seq(Answers)
    BY <1>5 DEF Answers
  <2>3. back' \in Seq(Answers)
    BY Zenon, <1>6, <2>1, <2>2, ConcatAmong
  <2> QED
    BY Zenon, <1>4, <1>5, <2>1, <2>3 DEF BrokerTypeOK
<1>11. CASE BrokerForgets
  <2>1. held' = NoSubscriptions
    BY Zenon, <1>11 DEF BrokerForgets
  <2>2. CASE UNCHANGED <<epoch, control, back>>
    BY Zenon, <1>4, <1>5, <1>7, <2>1, <2>2 DEF BrokerTypeOK
  <2>3. CASE /\ epoch' = epoch + 1 /\ back' = <<>>
             /\ \E n \in 0 .. Len(control) : control' = SubSeq(control, n + 1, Len(control))
    <3>1. control' \in Seq(Wishes)
      BY Zenon, <1>5, <2>3, RestSays
    <3>2. epoch' \in Nat \ {0} /\ back' \in Seq(Answers)
      BY <1>5, <2>3
    <3> QED
      BY Zenon, <1>4, <1>7, <2>1, <3>1, <3>2 DEF BrokerTypeOK
  <2> QED
    BY Zenon, <1>11, <2>2, <2>3 DEF BrokerForgets
<1>12. ASSUME NEW t \in AllTopics, NEW o \in {0, epoch}, Routes(t, o) PROVE Base'
  <2>1. control' = control /\ back' = Append(back, <<"MESSAGE", t, o>>) /\ epoch' = epoch /\ held' = held
    BY Zenon, <1>12 DEF Routes, brokerVars
  <2>2. <<"MESSAGE", t, o>> \in Answers
    BY <1>5 DEF Answers, Queued
  <2>3. back' \in Seq(Answers)
    BY Zenon, <1>5, <2>1, <2>2, AppendAmong
  <2> QED
    BY Zenon, <1>4, <1>5, <2>1, <2>3 DEF BrokerTypeOK
<1> QED
  BY Zenon, <1>8, <1>9, <1>10, <1>11, <1>12 DEF BrokerActs, BrokerStep

(* All steps together.                                                         *)
LEMMA BaseStep ==
    ASSUME Base, [Next]_vars
    PROVE  Base'
<1>1. CASE Next
  <2>1. ASSUME NEW t \in Topics, NEW i \in Instances,
               unregisterCallback(t, i) \/ \E s \in Scopes : registerInternal(t, i, s)
        PROVE  Base'
    BY Zenon, <2>1, RegisterBase, UnregisterBase
  <2> QED
    BY Zenon, <1>1, <2>1, InitBeginsBase, InitFlushesBase, ShutdownBase, RequestBase, WorkerBase, ProcessingBase, BrokerBase
       DEF Next, TeardownStep, WorkerStep, BrokerActs
<1>2. CASE UNCHANGED vars
  <2>1. /\ UNCHANGED <<s_pendingMsgCallbacks, m_msgHandlers, control, s_instance, shut, m_stop, m_running>>
        /\ UNCHANGED <<back, epoch, held, m_queue, at, carried, proc, mapVars, request>>
    BY <1>2 DEF vars, apiVars, mapVars, stateVars, queueVars, brokerVars, requestVars
  <2>2. CountInv' /\ ReplyInv'
    BY Zenon, <2>1, MapKeeps DEF MapKept, Base
  <2>3. ClientTypeOK' /\ BrokerTypeOK'
    BY Zenon, <2>1 DEF Base, ManagerTypeOK, ClientTypeOK, BrokerTypeOK
  <2>4. QueueTypeOK'
    BY Zenon, <2>1 DEF Base, ManagerTypeOK, QueueTypeOK
  <2>5. ProcTypeOK'
    BY Zenon, <2>1 DEF Base, ManagerTypeOK, ProcTypeOK
  <2> QED
    BY Zenon, <2>2, <2>3, <2>4, <2>5 DEF Base, ManagerTypeOK
<1> QED
  BY Zenon, <1>1, <1>2

--------------------------------------------------------------------------------
(* What makes the broker hold what the callbacks want, topic by topic: a topic *)
(* of which all is said anew, and one of which nothing changes.                *)
LEMMA TopicAnew ==
    ASSUME NEW t, Reaffirms(control', t, Wish(t)')
    PROVE  TopicInv(t)'
BY Zenon DEF TopicInv, Reaffirms

Carries(t) ==
    /\ (Wanted(t)' <=> Wanted(t)) /\ Wish(t)' = Wish(t)
    /\ m_connected' /\ Wanted(t) => m_connected
    /\ \A s : LastAsks(control, t, s) => LastAsks(control', t, s)
    /\ Wanted(t) /\ Renewed(control, t) => Renewed(control', t)
    /\ Said(control, t) => Said(control', t)
    /\ held'[t] = held[t] /\ inherited' = inherited
    /\ Wanted(t) /\ known' /\ ~ ResetOnTheWay' => known /\ ~ ResetOnTheWay
    /\ Wanted(t) /\ t = ReplyTopic /\ ~ forgotten' => ~ forgotten

(* A topic of which nothing changes keeps its invariant.                       *)
LEMMA TopicCarries ==
    ASSUME NEW t, TopicInv(t), Carries(t)
    PROVE  TopicInv(t)'
<1>1. m_connected' \/ ~ Wanted(t)' => LastAsks(control', t, Wish(t)')
  BY Zenon DEF TopicInv, Carries
<1>2. m_connected' /\ Wanted(t)' => Renewed(control', t)
  BY Zenon DEF TopicInv, Carries
<1>3. ~ Wanted(t)' /\ ~ Said(control', t) => held'[t] = NoScope \/ t \in inherited'
  BY Zenon DEF TopicInv, Carries
<1>4. m_connected' /\ Wanted(t)' /\ ~ Said(control', t) =>
          /\ known' /\ ~ ResetOnTheWay' => held'[t] = Wish(t)'
          /\ t = ReplyTopic /\ ~ forgotten' => held'[t] = Wish(t)'
  BY Zenon DEF TopicInv, Carries
<1> QED
  BY Zenon, <1>1, <1>2, <1>3, <1>4 DEF TopicInv

(* The client stays, and every topic is looked after.                          *)
Wished == Stays(control) /\ \A t \in AllTopics : TopicInv(t)
Quiet ==
    /\ UNCHANGED <<control, m_msgHandlers, held, inherited, forgotten>> /\ (m_connected' => m_connected)
    /\ known' /\ ~ ResetOnTheWay' => known /\ ~ ResetOnTheWay

(* A step that says nothing, and that hides no reset, keeps every topic.       *)
LEMMA QuietWished ==
    ASSUME Wished, Quiet
    PROVE  Wished'
<1>1. Stays(control')
  BY Zenon DEF Wished, Quiet
<1>2. ASSUME NEW t \in AllTopics PROVE TopicInv(t)'
  <2>1. Carries(t)
    BY Zenon DEF Carries, Quiet, Wanted, Wish
  <2>2. TopicInv(t)
    BY Zenon DEF Wished
  <2> QED
    BY Zenon, <2>1, <2>2, TopicCarries
<1> QED
  BY Zenon, <1>1, <1>2 DEF Wished

(* The callbacks of a topic change.                                            *)
LEMMA ChangeWished ==
    ASSUME Base, Wished, NEW t \in AllTopics, Changes(t), ~ lost',
           UNCHANGED <<m_connected, held, known, inherited, proc, carried, back, m_queue>>,
           forgotten' = forgotten \/ (t = ReplyTopic /\ ~ Wanted(t) /\ Wanted(t)')
    PROVE  Wished'
<1>1. Announced(t) /\ (\A u \in AllTopics : u # t => m_msgHandlers'[u] = m_msgHandlers[u])
  BY Zenon DEF Changes
<1>2. ResetOnTheWay' <=> ResetOnTheWay
  BY Zenon DEF ResetOnTheWay
<1>3. control \in Seq(Wishes)
  BY Zenon DEF Base, ManagerTypeOK, ClientTypeOK
<1>4. ASSUME NEW list, Speaks(list, t, Wish(t)'), control' = control \o list PROVE Wished'
  <2>1. list \in Seq(Wishes) /\ Stays(list) /\ NoConnect(list) /\ Reaffirms(list, t, Wish(t)')
        /\ \A u : u # t => ~ Said(list, u)
    BY Zenon, <1>4 DEF Speaks
  <2>2. Joined(control, list, control')
    BY Zenon, <1>3, <1>4, <2>1, JoinSays
  <2>3. Stays(control')
    BY Zenon, <2>1, <2>2 DEF Joined, Wished
  <2>4. TopicInv(t)'
    <3>1. Reaffirms(control', t, Wish(t)')
      BY Zenon, <2>1, <2>2 DEF Joined
    <3> QED
      BY Zenon, <3>1, TopicAnew
  <2>5. ASSUME NEW u \in AllTopics, u # t PROVE TopicInv(u)'
    <3>1. (Wanted(u)' <=> Wanted(u)) /\ Wish(u)' = Wish(u)
      BY Zenon, <1>1, <2>5 DEF Wanted, Wish
    <3>2. /\ \A s : LastAsks(control, u, s) => LastAsks(control', u, s)
          /\ Renewed(control, u) => Renewed(control', u)
          /\ Said(control, u) => Said(control', u)
      BY Zenon, <2>1, <2>2, <2>5 DEF Joined
    <3>3. u = ReplyTopic /\ ~ forgotten' => ~ forgotten
      BY Zenon, <2>5
    <3>4. Carries(u)
      BY Zenon, <1>2, <3>1, <3>2, <3>3 DEF Carries
    <3> QED
      BY Zenon, <3>4, TopicCarries DEF Wished
  <2> QED
    BY Zenon, <2>3, <2>4, <2>5 DEF Wished
<1>5. ASSUME control' = control PROVE Stays(control') /\ \A u \in AllTopics : u # t => TopicInv(u)'
  <2>1. Stays(control')
    BY Zenon, <1>5 DEF Wished
  <2>2. ASSUME NEW u \in AllTopics, u # t PROVE TopicInv(u)'
    <3>1. (Wanted(u)' <=> Wanted(u)) /\ Wish(u)' = Wish(u)
      BY Zenon, <1>1, <2>2 DEF Wanted, Wish
    <3>2. u = ReplyTopic /\ ~ forgotten' => ~ forgotten
      BY Zenon, <2>2
    <3>3. Carries(u)
      BY Zenon, <1>2, <1>5, <3>1, <3>2 DEF Carries
    <3> QED
      BY Zenon, <3>3, TopicCarries DEF Wished
  <2> QED
    BY Zenon, <2>1, <2>2
<1>6. ASSUME control' = control, Wanted(t)' <=> Wanted(t), Wish(t)' = Wish(t) PROVE Wished'
  <2>1. forgotten' = forgotten
    BY Zenon, <1>6
  <2>2. Carries(t)
    BY Zenon, <1>2, <1>6, <2>1 DEF Carries
  <2>3. TopicInv(t)'
    BY Zenon, <2>2, TopicCarries DEF Wished
  <2> QED
    BY Zenon, <1>5, <1>6, <2>3 DEF Wished
<1>7. CASE control' = control /\ m_msgHandlers' = m_msgHandlers
  <2>1. (Wanted(t)' <=> Wanted(t)) /\ Wish(t)' = Wish(t)
    BY Zenon, <1>7 DEF Wanted, Wish
  <2> QED
    BY Zenon, <1>6, <1>7, <2>1
<1>8. CASE control' = control /\ Wanted(t)' /\ ~ m_connected
  <2>1. TopicInv(t)'
    BY Zenon, <1>8 DEF TopicInv
  <2> QED
    BY Zenon, <1>5, <1>8, <2>1 DEF Wished
<1>9. CASE control' = control /\ Wanted(t)' /\ Wanted(t) /\ Wish(t)' = Wish(t)
  BY Zenon, <1>6, <1>9
<1> QED
  BY Zenon, <1>1, <1>4, <1>7, <1>8, <1>9 DEF Announced

(* Everything is said anew.                                                    *)
LEMMA AnewWished ==
    ASSUME Base, Wished, NEW list, SpeaksAll(list), SendControl(list), ~ lost',
           UNCHANGED <<m_msgHandlers, held, inherited>>
    PROVE  Wished'
<1>1. control \in Seq(Wishes) /\ list \in Seq(Wishes) /\ Stays(list)
  BY Zenon DEF Base, ManagerTypeOK, ClientTypeOK, SpeaksAll
<1>2. control' = control \o list
  BY Zenon, <1>1, SendsOrLoses
<1>3. Joined(control, list, control')
  BY Zenon, <1>1, <1>2, JoinSays
<1>4. Stays(control')
  BY Zenon, <1>1, <1>3 DEF Joined, Wished
<1>5. ASSUME NEW t \in AllTopics PROVE TopicInv(t)'
  <2>1. (Wanted(t)' <=> Wanted(t)) /\ Wish(t)' = Wish(t)
    BY Zenon DEF Wanted, Wish
  <2>2. CASE Wanted(t)
    <3>1. Reaffirms(control', t, Wish(t)')
      BY Zenon, <1>3, <2>1, <2>2 DEF Joined, SpeaksAll
    <3> QED
      BY Zenon, <3>1, TopicAnew
  <2>3. CASE ~ Wanted(t)
    <3>1. /\ \A s : LastAsks(control, t, s) => LastAsks(control', t, s)
          /\ Said(control, t) => Said(control', t)
      BY Zenon, <1>3, <2>3 DEF Joined, SpeaksAll
    <3>2. Carries(t)
      BY Zenon, <2>1, <2>3, <3>1 DEF Carries
    <3> QED
      BY Zenon, <3>2, TopicCarries DEF Wished
  <2> QED
    BY Zenon, <2>2, <2>3
<1> QED
  BY Zenon, <1>4, <1>5 DEF Wished

(* The broker reads what it was sent.                                          *)
LEMMA ControlWished ==
    ASSUME Base, Wished, s_instance, BrokerHandlesControl
    PROVE  Wished'
<1> DEFINE m == Head(control)
<1>1. /\ control # <<>> /\ control' = Tail(control) /\ known' = (m[1] # "DISCONNECT")
      /\ back' = IF shut = "down" THEN back ELSE back \o Asked(m[1])
      /\ held' = CASE m[1] = "SUBSCRIBE" -> [held EXCEPT ![m[2]] = m[3]]
                   [] m[1] = "UNSUBSCRIBE" -> [held EXCEPT ![m[2]] = NoScope]
                   [] m[1] = "DISCONNECT" -> NoSubscriptions
                   [] OTHER -> held
      /\ UNCHANGED <<m_msgHandlers, m_connected, inherited, forgotten, proc, carried, m_queue>>
  BY DEF BrokerHandlesControl, mapVars, stateVars, apiVars, requestVars, queueVars
<1>2. /\ control \in Seq(Wishes) /\ back \in Seq(Answers) /\ epoch \in Nat \ {0}
      /\ held \in [AllTopics -> SUBSET OriginAny] /\ shut = "none"
  BY Zenon DEF Base, ManagerTypeOK, ClientTypeOK, BrokerTypeOK
<1>3. /\ m \in Wishes /\ ReadOn(control, control')
      /\ Stays(control) => m[1] # "DISCONNECT"
      /\ \A t : Said(control, t) => Said(control', t) \/ About(m, t)
      /\ \A t, s : About(m, t) /\ ~ Said(control', t) /\ LastAsks(control, t, s) => Asks(m) = s
      /\ \A t : m[1] = "CONNECT" /\ Renewed(control, t) => Said(control', t)
  BY Zenon, <1>1, <1>2, FrontSays
<1> HIDE DEF m
<1>4. Stays(control') /\ m[1] # "DISCONNECT"
  BY Zenon, <1>3 DEF Wished, ReadOn
<1>5. back' = back \o Asked(m[1])
  BY <1>1, <1>2
<1>6. /\ Asked(m[1]) \in Seq(Answers)
      /\ ~ known /\ m[1] # "CONNECT" => Among(Asked(m[1]))
  BY <1>2, <1>4, AskedIs
<1>7. ResetOnTheWay => ResetOnTheWay'
  BY Zenon, <1>1, <1>2, <1>5, <1>6, ConcatAmong DEF ResetOnTheWay
<1>8. ~ known /\ m[1] # "CONNECT" => ResetOnTheWay'
  BY Zenon, <1>2, <1>5, <1>6, ConcatAmong DEF ResetOnTheWay
<1>9. \A t \in AllTopics : held'[t] = IF About(m, t) THEN Asks(m) ELSE held[t]
  <2> TAKE t \in AllTopics
  <2>1. CASE m[1] = "SUBSCRIBE"
    <3>1. held' = [held EXCEPT ![m[2]] = m[3]]
      BY <1>1, <2>1
    <3> QED
      BY <1>2, <2>1, <3>1 DEF About, Asks
  <2>2. CASE m[1] = "UNSUBSCRIBE"
    <3>1. held' = [held EXCEPT ![m[2]] = NoScope]
      BY <1>1, <2>2
    <3> QED
      BY <1>2, <2>2, <3>1 DEF About, Asks
  <2>3. CASE m[1] \notin {"SUBSCRIBE", "UNSUBSCRIBE"}
    <3>1. held' = held
      BY <1>1, <1>4, <2>3
    <3> QED
      BY <2>3, <3>1 DEF About
  <2> QED
    BY <2>1, <2>2, <2>3
<1>10. ASSUME NEW t \in AllTopics PROVE TopicInv(t)'
  <2>1. TopicInv(t)
    BY Zenon DEF Wished
  <2>2. (Wanted(t)' <=> Wanted(t)) /\ Wish(t)' = Wish(t)
    BY Zenon, <1>1 DEF Wanted, Wish
  <2>3. (\A s : LastAsks(control, t, s) => LastAsks(control', t, s)) /\ (Renewed(control, t) => Renewed(control', t))
    BY Zenon, <1>3 DEF ReadOn
  <2>4. m_connected' \/ ~ Wanted(t)' => LastAsks(control, t, Wish(t)) /\ LastAsks(control', t, Wish(t)')
    BY Zenon, <1>1, <2>1, <2>2, <2>3 DEF TopicInv
  <2>5. m_connected' /\ Wanted(t)' => Renewed(control, t) /\ Renewed(control', t)
    BY Zenon, <1>1, <2>1, <2>2, <2>3 DEF TopicInv
  <2>6. CASE About(m, t)
    <3>1. (m_connected' \/ ~ Wanted(t)') /\ ~ Said(control', t) => held'[t] = Wish(t)'
      BY Zenon, <1>3, <1>9, <2>2, <2>4, <2>6
    <3>2. ~ Wanted(t)' => Wish(t)' = NoScope
      <4>1. m_msgHandlers' = m_msgHandlers /\ m_msgHandlers[t] \in Seq(Entries)
        BY Zenon, <1>1 DEF Base, ManagerTypeOK, ClientTypeOK
      <4> QED
        BY Zenon, <4>1, UnionIsScope DEF Wish, Wanted
    <3> QED
      BY Zenon, <2>4, <2>5, <3>1, <3>2 DEF TopicInv
  <2>7. CASE ~ About(m, t)
    <3>1. held'[t] = held[t] /\ (Said(control, t) => Said(control', t))
      BY Zenon, <1>3, <1>9, <2>7
    <3>2. ~ Wanted(t)' /\ ~ Said(control', t) => held'[t] = NoScope \/ t \in inherited'
      BY Zenon, <1>1, <2>1, <2>2, <3>1 DEF TopicInv
    <3>3. m_connected' /\ Wanted(t)' /\ ~ Said(control', t) /\ known' /\ ~ ResetOnTheWay' => known /\ ~ ResetOnTheWay
      BY Zenon, <1>3, <1>7, <1>8, <2>5
    <3>4. m_connected' /\ Wanted(t)' /\ ~ Said(control', t) =>
              /\ known' /\ ~ ResetOnTheWay' => held'[t] = Wish(t)'
              /\ t = ReplyTopic /\ ~ forgotten' => held'[t] = Wish(t)'
      BY Zenon, <1>1, <2>1, <2>2, <3>1, <3>3 DEF TopicInv
    <3> QED
      BY Zenon, <2>4, <2>5, <3>2, <3>4 DEF TopicInv
  <2> QED
    BY Zenon, <2>6, <2>7
<1> QED
  BY Zenon, <1>4, <1>10 DEF Wished

(* The broker forgets.                                                         *)
LEMMA ForgetsWished ==
    ASSUME Base, Wished, BrokerForgets
    PROVE  Wished'
<1>1. /\ known' = FALSE /\ held' = NoSubscriptions /\ forgotten' = TRUE
      /\ UNCHANGED <<m_msgHandlers, m_connected, inherited>>
      /\ control' = control \/ \E n \in 0 .. Len(control) : control' = SubSeq(control, n + 1, Len(control))
  BY Zenon DEF BrokerForgets, mapVars, stateVars, apiVars
<1>2. control \in Seq(Wishes)
  BY Zenon DEF Base, ManagerTypeOK, ClientTypeOK
<1>3. ReadOn(control, control')
  <2>1. control' = control => ReadOn(control, control')
    BY Zenon DEF ReadOn
  <2> QED
    BY Zenon, <1>1, <1>2, <2>1, RestSays
<1>4. \A t \in AllTopics : held'[t] = NoScope
  BY <1>1 DEF NoSubscriptions
<1>5. ASSUME NEW t \in AllTopics PROVE TopicInv(t)'
  <2>1. (Wanted(t)' <=> Wanted(t)) /\ Wish(t)' = Wish(t) /\ TopicInv(t)
    BY Zenon, <1>1 DEF Wanted, Wish, Wished
  <2>2. m_connected' \/ ~ Wanted(t)' => LastAsks(control', t, Wish(t)')
    BY Zenon, <1>1, <1>3, <2>1 DEF TopicInv, ReadOn
  <2>3. m_connected' /\ Wanted(t)' => Renewed(control', t)
    BY Zenon, <1>1, <1>3, <2>1 DEF TopicInv, ReadOn
  <2> QED
    BY Zenon, <1>1, <1>4, <2>2, <2>3 DEF TopicInv
<1>6. Stays(control')
  BY Zenon, <1>3 DEF ReadOn, Wished
<1> QED
  BY Zenon, <1>5, <1>6 DEF Wished

(* init: nothing is wanted yet, and what the broker holds is inherited.        *)
LEMMA InitWished ==
    ASSUME InitBegins
    PROVE  Wished'
<1>1. /\ m_msgHandlers' = NoHandlers /\ m_connected' = FALSE /\ control' = <<<<"CONNECT">>>>
      /\ held' = held /\ inherited' = {t \in AllTopics : held[t] # NoScope}
  BY Zenon DEF InitBegins, brokerVars
<1>2. Stays(control') /\ \A t : ~ Said(control', t)
  BY <1>1 DEF Stays, Said, About
<1>3. ASSUME NEW t \in AllTopics PROVE TopicInv(t)'
  <2>1. ~ Wanted(t)'
    BY <1>1 DEF Wanted, NoHandlers
  <2>2. LastAsks(control', t, Wish(t)')
    BY Zenon, <1>2 DEF LastAsks, Said
  <2>3. held'[t] = NoScope \/ t \in inherited'
    BY Zenon, <1>1
  <2> QED
    BY Zenon, <2>1, <2>2, <2>3 DEF TopicInv
<1> QED
  BY Zenon, <1>2, <1>3 DEF Wished

(* The worker's thread: a RESET goes from hand to hand.                        *)
LEMMA WorkerWished ==
    ASSUME Base, Wished, s_instance, ~ lost', Receives \/ Pushes \/ GoesOffline
    PROVE  Wished'
<1>1. /\ ~ m_stop /\ back \in Seq(Answers) /\ m_queue \in Seq(Queued)
      /\ at["worker"] = "runs" => carried = <<>>
      /\ at["worker"] \in {"pushes", "sleeps"} => carried \in Queued
  BY DEF Base, ManagerTypeOK, ClientTypeOK, BrokerTypeOK, QueueTypeOK
<1>2. ~ OnTheWay(<<>>)
  BY DEF OnTheWay
<1>3. CASE Receives
  <2> DEFINE m == Head(back)
  <2>1. /\ at["worker"] = "runs" /\ back # <<>> /\ back' = Tail(back) /\ m_connected' = TRUE
        /\ IF m_connected THEN UNCHANGED <<control, lost>> ELSE SendControl(<<<<"CONNECT">>>> \o Resubscription)
        /\ \/ m[1] = "HEARTBEAT_ACK" /\ UNCHANGED <<at, carried>>
           \/ m[1] # "HEARTBEAT_ACK" /\ at' = [at EXCEPT !["worker"] = "pushes"] /\ carried' = m
        /\ UNCHANGED <<m_msgHandlers, held, inherited, forgotten, known, proc, m_queue>>
    BY Zenon, <1>3 DEF Receives, statusHandler, mapVars, brokerVars, apiVars, requestVars
  <2>2. CASE m_connected
    <3>1. Among(back) => OnTheWay(m) \/ Among(back')
      BY Zenon, <1>1, <2>1, HeadOrTail
    <3>2. OnTheWay(m) => carried' = m
      BY <2>1 DEF OnTheWay
    <3>3. ResetOnTheWay => ResetOnTheWay'
      BY Zenon, <1>1, <1>2, <2>1, <3>1, <3>2 DEF ResetOnTheWay
    <3>4. Quiet
      BY Zenon, <2>1, <2>2, <3>3 DEF Quiet
    <3> QED
      BY Zenon, <3>4, QuietWished
  <2>3. CASE ~ m_connected
    <3>1. m_msgHandlers \in [AllTopics -> Seq(Entries)]
      BY Zenon DEF Base, ManagerTypeOK, ClientTypeOK
    <3>2. SpeaksAll(<<<<"CONNECT">>>> \o Resubscription)
      BY Zenon, <3>1, ResubscriptionSpeaks
    <3> QED
      BY Zenon, <2>1, <2>3, <3>2, AnewWished
  <2> QED
    BY Zenon, <2>2, <2>3
<1>4. CASE Pushes
  <2>1. /\ UNCHANGED <<control, m_msgHandlers, held, inherited, forgotten, m_connected, known, back, proc>>
        /\ carried' = IF at'["worker"] = "runs" THEN <<>> ELSE carried
    BY Zenon, <1>4 DEF Pushes, mapVars, brokerVars, apiVars, requestVars, stateVars
  <2>2. CASE push("worker", carried)
    <3>1. m_queue' = Append(m_queue, carried) /\ carried \in Queued
      BY <1>1, <2>2 DEF push
    <3>2. Among(m_queue) \/ OnTheWay(carried) => Among(m_queue')
      BY Zenon, <1>1, <3>1, AppendAmong
    <3>3. ResetOnTheWay => ResetOnTheWay'
      BY Zenon, <2>1, <3>2 DEF ResetOnTheWay
    <3>4. Quiet
      BY Zenon, <2>1, <3>3 DEF Quiet
    <3> QED
      BY Zenon, <3>4, QuietWished
  <2>3. CASE pushWaits("worker") \/ (pushTimesOut("worker") /\ ~ (at'["worker"] = "runs" /\ carried[1] = "RESET"))
    <3>1. m_queue' = m_queue
      BY Zenon, <2>3 DEF pushWaits, pushTimesOut
    <3>2. OnTheWay(carried) => OnTheWay(carried')
      <4>1. CASE pushWaits("worker")
        <5>1. at'["worker"] # "runs"
          BY <4>1 DEF pushWaits, Base, ManagerTypeOK, QueueTypeOK
        <5> QED
          BY Zenon, <2>1, <5>1
      <4>2. CASE ~ (at'["worker"] = "runs" /\ carried[1] = "RESET")
        BY Zenon, <2>1, <4>2 DEF OnTheWay
      <4> QED
        BY Zenon, <2>3, <4>1, <4>2
    <3>3. ResetOnTheWay => ResetOnTheWay'
      BY Zenon, <2>1, <3>1, <3>2 DEF ResetOnTheWay
    <3>4. Quiet
      BY Zenon, <2>1, <3>3 DEF Quiet
    <3> QED
      BY Zenon, <3>4, QuietWished
  <2> QED
    BY Zenon, <1>4, <2>2, <2>3 DEF Pushes
<1>5. CASE GoesOffline
  <2>1. /\ UNCHANGED <<control, m_msgHandlers, held, inherited, forgotten, known, back, proc, carried, m_queue>>
        /\ m_connected' = FALSE
    BY Zenon, <1>5 DEF GoesOffline, mapVars, brokerVars, apiVars, requestVars, queueVars
  <2>2. ResetOnTheWay => ResetOnTheWay'
    BY Zenon, <2>1 DEF ResetOnTheWay
  <2>3. Quiet
    BY Zenon, <2>1, <2>2 DEF Quiet
  <2> QED
    BY Zenon, <2>3, QuietWished
<1> QED
  BY Zenon, <1>3, <1>4, <1>5

(* The processing thread: a RESET it takes from the queue it answers.          *)
LEMMA ProcessingWished ==
    ASSUME Base, Wished, s_instance, ~ lost', ProcessingStep
    PROVE  Wished'
<1>1. m_running /\ ~ m_stop /\ QueueTypeOK /\ ProcTypeOK /\ m_queue \in Seq(Queued)
  BY Zenon DEF Base, ManagerTypeOK, ClientTypeOK, QueueTypeOK
<1>2. UNCHANGED <<m_msgHandlers, held, inherited, forgotten, m_connected, known, back, carried>>
  BY Zenon DEF ProcessingStep, Pops, resubscribeAll, handleMessage, Dispatch, mapVars, brokerVars, apiVars, stateVars, requestVars
<1>3. ASSUME control' = control, ResetOnTheWay => ResetOnTheWay' PROVE Wished'
  <2>1. Quiet
    BY Zenon, <1>2, <1>3 DEF Quiet
  <2> QED
    BY Zenon, <2>1, QuietWished
<1>4. CASE Pops
  <2>1. /\ control' = control /\ proc.at = "pop"
        /\ pop /\ Taken(Head(m_queue), Popped)
    BY Zenon, <1>1, <1>4 DEF Pops
  <2>2. proc.batch = <<>> /\ ~ Among(<<>>) /\ proc.at # "reset"
    BY <1>1, <2>1 DEF ProcTypeOK, Among
  <2>3. m_queue # <<>> /\ m_queue' = Tail(m_queue)
    BY Zenon, <2>1 DEF pop
  <2>4. Head(m_queue) \in Queued /\ (Among(m_queue) => OnTheWay(Head(m_queue)) \/ Among(m_queue'))
    BY Zenon, <1>1, <2>3, HeadOrTail
  <2>5. Popped \in Seq(Queued) \cup {Popped}
    OBVIOUS
  <2>6. OnTheWay(Head(m_queue)) => proc'.at = "reset"
    BY Zenon, <2>1, <2>4, <2>5, TakenKeeps
  <2>7. ResetOnTheWay => ResetOnTheWay'
    BY Zenon, <1>2, <2>2, <2>4, <2>6 DEF ResetOnTheWay
  <2> QED
    BY Zenon, <1>3, <2>1, <2>7
<1>5. CASE resubscribeAll
  <2>1. SendControl(Resubscription)
    BY Zenon, <1>5 DEF resubscribeAll
  <2>2. m_msgHandlers \in [AllTopics -> Seq(Entries)]
    BY Zenon DEF Base, ManagerTypeOK, ClientTypeOK
  <2>3. SpeaksAll(Resubscription)
    BY Zenon, <2>2, ResubscriptionSpeaks
  <2> QED
    BY Zenon, <1>2, <2>1, <2>3, AnewWished
<1>6. ASSUME Follows, proc.at # "reset" PROVE ResetOnTheWay => ResetOnTheWay'
  <2>1. Ahead => proc'.at = "reset" \/ Ahead'
    BY Zenon, <1>1, <1>2, <1>6, FollowsKeeps
  <2> QED
    BY Zenon, <1>2, <1>6, <2>1 DEF ResetOnTheWay, Ahead
<1>7. ASSUME proc'.batch = proc.batch, UNCHANGED queueVars, proc.at # "reset" PROVE ResetOnTheWay => ResetOnTheWay'
  BY Zenon, <1>2, <1>7 DEF ResetOnTheWay, queueVars
<1>8. CASE handleMessage
  <2> DEFINE all == Callbacks(proc.message[2])
             accepting == ListOf(all, {i \in DOMAIN all : scopeAccepts(all[i][2], IsLocal(proc.message[3]))})
  <2>1. control' = control /\ proc.at = "handle"
        /\ (Follows \/ (proc' = [proc EXCEPT !.at = "dispatch", !.list = accepting] /\ UNCHANGED queueVars))
    BY Zenon, <1>8 DEF handleMessage
  <2> HIDE DEF accepting
  <2>2. proc' = [proc EXCEPT !.at = "dispatch", !.list = accepting] => proc'.batch = proc.batch
    BY <1>1 DEF ProcTypeOK
  <2>3. proc.at # "reset"
    BY <2>1
  <2> QED
    BY Zenon, <1>3, <1>6, <1>7, <2>1, <2>2, <2>3
<1>9. CASE Dispatch
  <2>1. control' = control /\ proc.at = "dispatch"
        /\ (Follows \/ (proc' = [proc EXCEPT !.list = Tail(@)] /\ UNCHANGED queueVars))
    BY Zenon, <1>9 DEF Dispatch
  <2>2. proc' = [proc EXCEPT !.list = Tail(@)] => proc'.batch = proc.batch
    BY <1>1 DEF ProcTypeOK
  <2>3. proc.at # "reset"
    BY <2>1
  <2> QED
    BY Zenon, <1>3, <1>6, <1>7, <2>1, <2>2, <2>3
<1> QED
  BY Zenon, <1>4, <1>5, <1>8, <1>9 DEF ProcessingStep

(* The broker: whoever says something unasked for is answered with a RESET.    *)
LEMMA BrokerWished ==
    ASSUME Base, Wished, s_instance, BrokerActs
    PROVE  Wished'
<1>1. back \in Seq(Answers) /\ epoch \in Nat \ {0}
  BY Zenon DEF Base, ManagerTypeOK, BrokerTypeOK
<1>2. ASSUME UNCHANGED <<control, m_msgHandlers, held, inherited, forgotten, m_connected, proc, carried, m_queue>>,
             Among(back) => Among(back'), known' /\ ~ known => Among(back')
      PROVE  Wished'
  <2>1. known' /\ ~ ResetOnTheWay' => known /\ ~ ResetOnTheWay
    BY Zenon, <1>2 DEF ResetOnTheWay
  <2>2. Quiet
    BY Zenon, <1>2, <2>1 DEF Quiet
  <2> QED
    BY Zenon, <2>2, QuietWished
<1>3. \A key \in {"request", "HEARTBEAT"} : Asked(key) \in Seq(Answers) /\ (~ known => Among(Asked(key)))
  <2> TAKE key \in {"request", "HEARTBEAT"}
  <2>1. key \notin {"CONNECT", "DISCONNECT"}
    OBVIOUS
  <2> QED
    BY Zenon, <1>1, <2>1, AskedIs
<1>4. CASE BrokerHandlesRequest
  <2>1. /\ UNCHANGED <<control, m_msgHandlers, held, inherited, forgotten, m_connected, proc, carried, m_queue>>
        /\ back' = back \o Asked("request")
    BY Zenon, <1>4 DEF BrokerHandlesRequest, mapVars, apiVars, stateVars, requestVars, queueVars
  <2>2. Asked("request") \in Seq(Answers) /\ (~ known => Among(Asked("request")))
    BY <1>3
  <2>3. (Among(back) => Among(back')) /\ (~ known => Among(back'))
    BY Zenon, <1>1, <2>1, <2>2, ConcatAmong
  <2> QED
    BY Zenon, <1>2, <2>1, <2>3
<1>5. CASE Heartbeat
  <2>1. /\ UNCHANGED <<control, m_msgHandlers, held, inherited, forgotten, m_connected, proc, carried, m_queue>>
        /\ back = <<>> /\ back' = Asked("HEARTBEAT") \o <<<<"HEARTBEAT_ACK", epoch>>>>
    BY Zenon, <1>5 DEF Heartbeat, mapVars, apiVars, stateVars, requestVars, queueVars
  <2>2. Asked("HEARTBEAT") \in Seq(Answers) /\ (~ known => Among(Asked("HEARTBEAT")))
    BY <1>3
  <2>3. <<<<"HEARTBEAT_ACK", epoch>>>> \in Seq(Answers) /\ ~ Among(<<>>)
    BY <1>1 DEF Answers, Among
  <2>4. (Among(back) => Among(back')) /\ (~ known => Among(back'))
    BY Zenon, <2>1, <2>2, <2>3, ConcatAmong
  <2> QED
    BY Zenon, <1>2, <2>1, <2>4
<1>6. ASSUME NEW t \in AllTopics, NEW o \in {0, epoch}, Routes(t, o) PROVE Wished'
  <2>1. /\ UNCHANGED <<control, m_msgHandlers, held, inherited, forgotten, m_connected, proc, carried, m_queue, known>>
        /\ back' = Append(back, <<"MESSAGE", t, o>>)
    BY Zenon, <1>6 DEF Routes, mapVars, apiVars, stateVars, requestVars, queueVars, brokerVars
  <2>2. <<"MESSAGE", t, o>> \in Answers
    BY <1>1 DEF Answers, Queued
  <2>3. Among(back) => Among(back')
    BY Zenon, <1>1, <2>1, <2>2, AppendAmong
  <2> QED
    BY Zenon, <1>2, <2>1, <2>3
<1> QED
  BY Zenon, <1>4, <1>5, <1>6, ControlWished, ForgetsWished DEF BrokerActs, BrokerStep

(* The calls.                                                                  *)
LEMMA CallsWished ==
    ASSUME Base, Wished, s_instance, ~ lost',
           \/ \E t \in Topics, i \in Instances : unregisterCallback(t, i) \/ \E s \in Scopes : registerInternal(t, i, s)
           \/ InitFlushes \/ RequestRegisters \/ RequestSends \/ RequestEnds
    PROVE  Wished'
<1>1. ManagerTypeOK /\ CountInv /\ ReplyInv /\ ReplyTopic \in AllTopics /\ Topics \subseteq AllTopics
  BY DEF Base, AllTopics
<1>2. /\ UNCHANGED <<m_connected, held, known, inherited, proc, carried, back, m_queue>>
      /\ RequestRegisters \/ forgotten' = forgotten
  <2>1. ASSUME NEW t, NEW i, unregisterCallback(t, i)
        PROVE  UNCHANGED <<m_connected, held, known, inherited, proc, carried, back, m_queue, forgotten>>
    BY Zenon, <2>1 DEF unregisterCallback, stateVars, brokerVars, queueVars, requestVars
  <2>2. ASSUME NEW t, NEW i, NEW s, registerInternal(t, i, s)
        PROVE  UNCHANGED <<m_connected, held, known, inherited, proc, carried, back, m_queue, forgotten>>
    BY Zenon, <2>2 DEF registerInternal, stateVars, brokerVars, queueVars, requestVars
  <2>3. InitFlushes => UNCHANGED <<m_connected, held, known, inherited, proc, carried, back, m_queue, forgotten>>
    BY DEF InitFlushes, stateVars, brokerVars, queueVars, requestVars
  <2>4. RequestRegisters => UNCHANGED <<m_connected, held, known, inherited, proc, carried, back, m_queue>>
    BY Zenon DEF RequestRegisters, stateVars, brokerVars, queueVars
  <2>5. RequestSends \/ RequestEnds =>
            UNCHANGED <<m_connected, held, known, inherited, proc, carried, back, m_queue, forgotten>>
    BY Zenon DEF RequestSends, RequestEnds, apiVars, stateVars, brokerVars, queueVars
  <2> QED
    BY Zenon, <2>1, <2>2, <2>3, <2>4, <2>5
<1>3. ASSUME NEW t \in AllTopics, Changes(t), forgotten' = forgotten PROVE Wished'
  BY Zenon, <1>2, <1>3, ChangeWished
<1>4. ASSUME NEW t \in Topics, NEW i \in Instances, unregisterCallback(t, i) PROVE Wished'
  <2>1. performUnregistration(t, i) /\ forgotten' = forgotten /\ t \in AllTopics
    BY Zenon, <1>1, <1>4 DEF unregisterCallback, requestVars
  <2> QED
    BY Zenon, <1>1, <1>3, <2>1, UnregistrationChanges
<1>5. ASSUME NEW t \in AllTopics, NEW i \in Instances, NEW s \in Scopes, performRegistration(t, i, s), forgotten' = forgotten
      PROVE  Wished'
  <2>1. i \in Instances \cup {Requester} /\ s \in Origin
    BY ManagerAssumption
  <2> QED
    BY Zenon, <1>1, <1>3, <1>5, <2>1, RegistrationChanges
<1>6. ASSUME NEW t \in Topics, NEW i \in Instances, NEW s \in Scopes, registerInternal(t, i, s) PROVE Wished'
  <2>1. performRegistration(t, i, s) /\ forgotten' = forgotten /\ t \in AllTopics
    BY Zenon, <1>1, <1>6 DEF registerInternal, requestVars
  <2> QED
    BY Zenon, <1>5, <2>1
<1>7. ASSUME UNCHANGED <<control, m_msgHandlers, forgotten>> PROVE Wished'
  <2>1. Quiet
    BY Zenon, <1>2, <1>7 DEF Quiet, ResetOnTheWay
  <2> QED
    BY Zenon, <2>1, QuietWished
<1>8. CASE InitFlushes
  <2>0. forgotten' = forgotten
    BY <1>8 DEF InitFlushes, requestVars
  <2>1. CASE s_pendingMsgCallbacks = <<>>
    <3>1. UNCHANGED <<control, m_msgHandlers>>
      BY Zenon, <1>8, <2>1 DEF InitFlushes, mapVars
    <3> QED
      BY Zenon, <1>7, <2>0, <3>1
  <2>2. CASE s_pendingMsgCallbacks # <<>>
    <3> DEFINE p == Head(s_pendingMsgCallbacks)
    <3>1. performRegistration(p[1], p[2], p[3])
      BY Zenon, <1>8, <2>2 DEF InitFlushes
    <3>2. p \in Topics \X Instances \X Scopes
      BY <1>1, <2>2, HeadTailProperties DEF ManagerTypeOK, ClientTypeOK
    <3> HIDE DEF p
    <3>3. p[1] \in AllTopics /\ p[2] \in Instances /\ p[3] \in Scopes
      BY <1>1, <3>2
    <3> QED
      BY Zenon, <1>5, <2>0, <3>1, <3>3
  <2> QED
    BY Zenon, <2>1, <2>2
<1>9. CASE RequestRegisters
  <2>1. performRegistration(ReplyTopic, Requester, OriginAny) /\ request = "idle"
    BY Zenon, <1>9 DEF RequestRegisters
  <2>2. OriginAny \in Origin /\ Requester \in Instances \cup {Requester}
    BY DEF Origin
  <2>3. Changes(ReplyTopic) /\ m_msgHandlers'[ReplyTopic] = Append(m_msgHandlers[ReplyTopic], <<Requester, OriginAny>>)
    BY Zenon, <1>1, <2>1, <2>2, RegistrationChanges
  <2>4. m_msgHandlers[ReplyTopic] = <<>>
    BY Zenon, <1>1, <2>1 DEF ReplyInv
  <2>5. Append(<<>>, <<Requester, OriginAny>>) # <<>>
    OBVIOUS
  <2>6. ~ Wanted(ReplyTopic) /\ Wanted(ReplyTopic)'
    BY Zenon, <2>3, <2>4, <2>5 DEF Wanted
  <2> QED
    BY Zenon, <1>1, <1>2, <2>3, <2>6, ChangeWished
<1>10. CASE RequestSends
  <2>1. UNCHANGED <<control, m_msgHandlers, forgotten>>
    BY Zenon, <1>10 DEF RequestSends, mapVars
  <2> QED
    BY Zenon, <1>7, <2>1
<1>11. CASE RequestEnds
  <2>1. performUnregistration(ReplyTopic, Requester) /\ forgotten' = forgotten
    BY Zenon, <1>11 DEF RequestEnds
  <2> QED
    BY Zenon, <1>1, <1>3, <2>1, UnregistrationChanges
<1> QED
  BY Zenon, <1>4, <1>6, <1>8, <1>9, <1>10, <1>11

--------------------------------------------------------------------------------
(* What was refused stays refused.                                             *)
LEMMA LostStays ==
    ASSUME Next, ~ lost'
    PROVE  ~ lost
<1>1. ASSUME NEW list, SendControl(list) PROVE ~ lost
  BY Zenon, <1>1 DEF SendControl
<1>2. ASSUME NEW t, NEW i, NEW s, performRegistration(t, i, s) PROVE ~ lost
  BY Zenon, <1>1, <1>2 DEF performRegistration
<1>3. ASSUME NEW t, NEW i, performUnregistration(t, i) PROVE ~ lost
  BY Zenon, <1>1, <1>3 DEF performUnregistration
<1>4. ASSUME NEW t, NEW i, NEW s, registerInternal(t, i, s) PROVE ~ lost
  BY Zenon, <1>2, <1>4 DEF registerInternal
<1>5. ASSUME NEW t, NEW i, unregisterCallback(t, i) PROVE ~ lost
  BY Zenon, <1>3, <1>5 DEF unregisterCallback
<1>6. InitBegins \/ InitFlushes \/ shutdown \/ TeardownStep => ~ lost
  BY Zenon, <1>1, <1>2 DEF InitBegins, InitFlushes, shutdown, TeardownStep, TeardownStops, TeardownJoins
<1>7. RequestRegisters \/ RequestSends \/ RequestEnds => ~ lost
  BY Zenon, <1>2, <1>3 DEF RequestRegisters, RequestSends, RequestEnds
<1>8. WorkerStep \/ GoesOffline => ~ lost
  BY Zenon, <1>1 DEF WorkerStep, Receives, statusHandler, Pushes, GoesOffline
<1>9. ProcessingStep => ~ lost
  BY Zenon, <1>1 DEF ProcessingStep, Pops, resubscribeAll, handleMessage, Dispatch
<1>10. BrokerStep \/ Heartbeat \/ BrokerForgets => ~ lost
  BY Zenon DEF BrokerStep, BrokerHandlesControl, BrokerHandlesRequest, Heartbeat, BrokerForgets
<1>11. ASSUME NEW t, NEW o, Routes(t, o) PROVE ~ lost
  BY Zenon, <1>11 DEF Routes
<1> QED
  BY Zenon, <1>4, <1>5, <1>6, <1>7, <1>8, <1>9, <1>10, <1>11 DEF Next

(* No instance comes but from init.                                            *)
LEMMA InstanceStays ==
    ASSUME Next, s_instance'
    PROVE  (s_instance /\ ~ shutdown) \/ InitBegins
<1>1. ASSUME NEW t, NEW i, NEW s, registerInternal(t, i, s) PROVE s_instance
  BY Zenon, <1>1 DEF registerInternal
<1>2. ASSUME NEW t, NEW i, unregisterCallback(t, i) PROVE s_instance
  BY Zenon, <1>2 DEF unregisterCallback
<1>3. InitFlushes => s_instance
  BY Zenon DEF InitFlushes
<1>4. TeardownStep => s_instance
  BY Zenon DEF TeardownStep, TeardownStops, TeardownJoins, apiVars
<1>5. RequestRegisters \/ RequestSends \/ RequestEnds => s_instance
  BY Zenon DEF RequestRegisters, RequestSends, RequestEnds, apiVars
<1>6. WorkerStep \/ GoesOffline => s_instance
  BY Zenon DEF WorkerStep, Receives, Pushes, GoesOffline, apiVars
<1>7. ProcessingStep => s_instance
  BY Zenon DEF ProcessingStep, Pops, resubscribeAll, handleMessage, Dispatch, apiVars
<1>8. BrokerStep \/ Heartbeat \/ BrokerForgets => s_instance
  BY Zenon DEF BrokerStep, BrokerHandlesControl, BrokerHandlesRequest, Heartbeat, BrokerForgets, apiVars
<1>9. ASSUME NEW t, NEW o, Routes(t, o) PROVE s_instance
  BY Zenon, <1>9 DEF Routes, apiVars
<1>10. shutdown => ~ s_instance'
  BY Zenon DEF shutdown
<1> QED
  BY Zenon, <1>1, <1>2, <1>3, <1>4, <1>5, <1>6, <1>7, <1>8, <1>9, <1>10 DEF Next

(* The invariant holds at first and after every step.                          *)
LEMMA ManagerStarts == Init => ManagerInv
<1> SUFFICES ASSUME Init PROVE ManagerInv
  OBVIOUS
<1>1. ClientTypeOK
  <2>1. NoHandlers \in [AllTopics -> Seq(Entries)]
    BY DEF NoHandlers
  <2> QED
    BY <2>1 DEF Init, ClientTypeOK
<1>2. BrokerTypeOK
  BY DEF Init, BrokerTypeOK, NoSubscriptions, NoScope
<1>3. QueueTypeOK
  BY DEF Init, QueueTypeOK
<1>4. ProcTypeOK
  <2>1. proc = [at |-> "ended", message |-> <<>>, list |-> <<>>, batch |-> <<>>]
    BY DEF Init, Idle
  <2> QED
    BY <2>1 DEF ProcTypeOK
<1>5. CountInv
  <2>1. ScopedPlaces = {}
    BY DEF Init, ScopedPlaces, Scoped, NoHandlers
  <2> QED
    BY <2>1, FS_EmptySet DEF Init, CountInv
<1>6. ReplyInv
  BY DEF Init, ReplyInv, NoHandlers, AllTopics
<1>7. WishesInv
  BY Zenon DEF Init, WishesInv
<1> QED
  BY Zenon, <1>1, <1>2, <1>3, <1>4, <1>5, <1>6, <1>7 DEF ManagerInv, ManagerTypeOK

(* And after every step.                                                       *)
LEMMA ManagerStep == ManagerInv /\ [Next]_vars => ManagerInv'
<1> SUFFICES ASSUME ManagerInv, [Next]_vars PROVE ManagerInv'
  BY Zenon
<1>1. Base /\ WishesInv
  BY Zenon DEF ManagerInv, Base
<1>2. Base'
  BY Zenon, <1>1, BaseStep
<1>3. WishesInv'
  <2> SUFFICES ASSUME s_instance', ~ lost' PROVE Wished'
    BY Zenon DEF WishesInv, Wished
  <2>1. CASE InitBegins
    BY Zenon, <2>1, InitWished
  <2>2. CASE Next /\ ~ InitBegins
    <3>1. s_instance /\ ~ lost /\ ~ shutdown
      BY Zenon, <2>2, InstanceStays, LostStays
    <3>2. Wished
      BY Zenon, <1>1, <3>1 DEF WishesInv, Wished
    <3>3. ~ TeardownStep
      <4>1. shut = "none"
        BY Zenon, <1>1, <3>1 DEF Base, ManagerTypeOK, ClientTypeOK
      <4> QED
        BY <4>1 DEF TeardownStep, TeardownStops, TeardownJoins
    <3> QED
      BY Zenon, <1>1, <2>2, <3>1, <3>2, <3>3, CallsWished, WorkerWished, ProcessingWished, BrokerWished
         DEF Next, WorkerStep, BrokerActs
  <2>3. CASE UNCHANGED vars
    <3>1. /\ UNCHANGED <<control, m_msgHandlers, held, inherited, forgotten, m_connected, known, proc, carried>>
          /\ UNCHANGED <<back, m_queue, s_instance, lost>>
      BY Zenon, <2>3 DEF vars, apiVars, mapVars, stateVars, queueVars, brokerVars, requestVars
    <3>2. Wished /\ Quiet
      BY Zenon, <1>1, <3>1 DEF WishesInv, Wished, Quiet, ResetOnTheWay
    <3> QED
      BY Zenon, <3>2, QuietWished
  <2> QED
    BY Zenon, <2>1, <2>2, <2>3
<1> QED
  BY Zenon, <1>2, <1>3 DEF ManagerInv, Base

(* What the client keeps in order at every moment.                             *)
THEOREM ManagerKeepsOrder == Spec => []ManagerInv
BY ManagerStarts, ManagerStep, PTL DEF Spec

(* Once all that was said has arrived, the broker holds exactly what the       *)
(* callbacks want between them, whatever outages, resets and restarts there    *)
(* were, unless a full queue refused part of it: performRegistration and       *)
(* performUnregistration, statusHandler and resubscribeAll.                    *)
THEOREM SubscriptionsCorrect == Spec => []SettledMatches
<1>1. ManagerInv => SettledMatches
  <2> SUFFICES ASSUME ManagerInv, Settled, ~ lost, NEW t \in AllTopics
               PROVE  held[t] = unionScope(m_msgHandlers[t]) \/ (t \in inherited /\ m_msgHandlers[t] = <<>>)
    BY Zenon DEF SettledMatches, Matches
  <2>1. s_instance /\ m_connected /\ known /\ control = <<>> /\ ~ ResetOnTheWay
    BY Zenon DEF Settled
  <2>2. TopicInv(t)
    BY Zenon, <2>1 DEF ManagerInv, WishesInv
  <2>3. ~ Said(control, t)
    BY <2>1 DEF Said
  <2>4. ~ Wanted(t) => unionScope(m_msgHandlers[t]) = NoScope
    <3>1. m_msgHandlers[t] \in Seq(Entries)
      BY Zenon DEF ManagerInv, ManagerTypeOK, ClientTypeOK
    <3> QED
      BY Zenon, <3>1, UnionIsScope DEF Wanted
  <2> QED
    BY Zenon, <2>1, <2>2, <2>3, <2>4 DEF TopicInv, Wanted, Wish
<1> QED
  BY <1>1, ManagerKeepsOrder, PTL

(* A request reaches a broker that can route its reply: sendRequest registers  *)
(* the reply topic before it sends, and control goes first.                    *)
THEOREM RequestCorrect == Spec => RequestFindsSubscription
<1>1. ManagerInv /\ [Next]_vars =>
        [BrokerHandlesRequest /\ request = "waits" /\ s_instance /\ ~ forgotten /\ ~ lost => held[ReplyTopic] # NoScope]_vars
  <2> SUFFICES ASSUME ManagerInv, BrokerHandlesRequest, request = "waits", s_instance, ~ forgotten, ~ lost
               PROVE  held[ReplyTopic] # NoScope
    BY Zenon
  <2>1. m_connected /\ control = <<>> /\ ReplyTopic \in AllTopics
    BY Zenon DEF BrokerHandlesRequest, AllTopics
  <2>2. TopicInv(ReplyTopic)
    BY Zenon, <2>1 DEF ManagerInv, WishesInv
  <2>3. m_msgHandlers[ReplyTopic] = <<<<Requester, OriginAny>>>>
    BY DEF ManagerInv, ReplyInv
  <2>4. Wanted(ReplyTopic) /\ Wish(ReplyTopic) # NoScope
    BY <2>3 DEF Wanted, Wish, unionScope, OriginAny, NoScope
  <2>5. ~ Said(control, ReplyTopic)
    BY <2>1 DEF Said
  <2>6. held[ReplyTopic] = Wish(ReplyTopic)
    BY Zenon, <2>1, <2>2, <2>4, <2>5 DEF TopicInv
  <2> QED
    BY Zenon, <2>4, <2>6
<1> QED
  BY <1>1, ManagerKeepsOrder, PTL DEF Spec, RequestFindsSubscription

(* A callback that asked for one origin is not chosen for a message of another *)
(* one, by handleMessage, whose shortcut rests on the count of such callbacks. *)
THEOREM ScopesCorrect == Spec => ScopesAreHonoured
<1> DEFINE Chosen == handleMessage /\ proc'.at = "dispatch" /\ m_brokerId = epoch /\ proc.message[3] \in {0, epoch}
                        => \A i \in DOMAIN proc'.list : scopeAccepts(proc'.list[i][2], proc.message[3] # 0)
<1>1. ManagerInv /\ [Next]_vars => [Chosen]_vars
  <2> SUFFICES ASSUME ManagerInv, handleMessage, proc'.at = "dispatch", m_brokerId = epoch, proc.message[3] \in {0, epoch}
               PROVE  \A i \in DOMAIN proc'.list : scopeAccepts(proc'.list[i][2], proc.message[3] # 0)
    BY Zenon
  <2> DEFINE isLocal == IsLocal(proc.message[3])
             all == Callbacks(proc.message[2])
             K == {i \in DOMAIN all : scopeAccepts(all[i][2], isLocal)}
             accepting == ListOf(all, K)
  <2>1. /\ proc.at = "handle"
        /\ Follows \/ proc' = [proc EXCEPT !.at = "dispatch", !.list = accepting]
    BY Zenon DEF handleMessage
  <2>2. ManagerTypeOK /\ CountInv /\ QueueTypeOK /\ ProcTypeOK /\ epoch \in Nat \ {0}
    BY Zenon DEF ManagerInv, ManagerTypeOK, BrokerTypeOK
  <2>3. UNCHANGED carried
    BY Zenon DEF handleMessage
  <2>4. ~ Follows
    BY Zenon, <2>2, <2>3, FollowsKeeps
  <2>5. proc.message[2] \in AllTopics
    BY <2>1, <2>2 DEF ProcTypeOK
  <2>6. SublistOf(Entries, all, K) /\ all \in Seq(Entries)
    <3>1. K \in SUBSET DOMAIN all
      OBVIOUS
    <3> HIDE DEF K
    <3> QED
      BY Zenon, <2>2, <2>5, <3>1, AcceptingIsTyped
  <2>7. proc'.list = accepting
    <3> HIDE DEF accepting
    <3> QED
      BY Zenon, <2>1, <2>2, <2>4 DEF ProcTypeOK
  <2>8. ASSUME NEW k \in DOMAIN accepting
        PROVE  \E i \in DOMAIN all : accepting[k] = all[i] /\ scopeAccepts(all[i][2], isLocal)
    <3>1. Place(k, K) \in K /\ accepting[k] = all[Place(k, K)]
      BY Zenon, <2>6, <2>8 DEF SublistOf
    <3> QED
      BY Zenon, <3>1
  <2>9. CASE m_scopedHandlers # 0
    <3>1. isLocal <=> proc.message[3] # 0
      BY <2>2, <2>9 DEF IsLocal
    <3> HIDE DEF isLocal
    <3>2. \A k \in DOMAIN accepting : scopeAccepts(accepting[k][2], isLocal)
      BY Zenon, <2>8
    <3>3. \A s : scopeAccepts(s, isLocal) => scopeAccepts(s, proc.message[3] # 0)
      BY Zenon, <3>1 DEF scopeAccepts
    <3> HIDE DEF accepting
    <3> QED
      BY Zenon, <2>7, <3>2, <3>3
  <2>10. CASE m_scopedHandlers = 0
    <3>1. ScopedPlaces = {}
      BY Zenon, <2>2, <2>10, FS_EmptySet DEF CountInv
    <3>2. \A t \in AllTopics : \A i \in DOMAIN m_msgHandlers[t] : m_msgHandlers[t][i][2] = OriginAny
      <4> SUFFICES ASSUME NEW t \in AllTopics, NEW i \in Scoped(m_msgHandlers[t]) PROVE FALSE
        BY DEF Scoped
      <4>1. <<t, i>> \in ScopedPlaces
        BY DEF ScopedPlaces
      <4> QED
        BY <3>1, <4>1
    <3>3. \A i \in DOMAIN all : all[i][2] = OriginAny
      <4>1. \A t \in AllTopics : m_msgHandlers[t] \in Seq(Entries)
        BY Zenon, <2>2 DEF ManagerTypeOK, ClientTypeOK
      <4>2. WILDCARD_TOPIC \in AllTopics
        BY ManagerAssumption DEF AllTopics
      <4> DEFINE l == m_msgHandlers[proc.message[2]]
                 r == IF proc.message[2] # WILDCARD_TOPIC THEN m_msgHandlers[WILDCARD_TOPIC] ELSE <<>>
      <4>3. l \in Seq(Entries) /\ r \in Seq(Entries)
        BY <2>5, <4>1, <4>2, EmptySeq
      <4>4. (\A i \in DOMAIN l : l[i][2] = OriginAny) /\ \A i \in DOMAIN r : r[i][2] = OriginAny
        BY <2>5, <3>2, <4>2
      <4>5. all = l \o r
        BY Zenon DEF Callbacks
      <4> HIDE DEF l, r, all
      <4>6. /\ Len(all) = Len(l) + Len(r) /\ DOMAIN all = 1 .. Len(all)
            /\ \A i \in 1 .. Len(l) + Len(r) : all[i] = IF i <= Len(l) THEN l[i] ELSE r[i - Len(l)]
        BY <2>6, <4>3, <4>5, ConcatProperties, LenProperties
      <4>7. DOMAIN l = 1 .. Len(l) /\ DOMAIN r = 1 .. Len(r) /\ Len(l) \in Nat /\ Len(r) \in Nat
        BY <4>3, LenProperties
      <4>8. ASSUME NEW i \in DOMAIN all PROVE all[i][2] = OriginAny
        <5>1. i <= Len(l) => i \in DOMAIN l /\ all[i] = l[i]
          BY <4>6, <4>7, <4>8
        <5>2. ~ i <= Len(l) => i - Len(l) \in DOMAIN r /\ all[i] = r[i - Len(l)]
          BY <4>6, <4>7, <4>8
        <5> QED
          BY Zenon, <4>4, <5>1, <5>2
      <4> QED
        BY Zenon, <4>8
    <3>4. \A b : scopeAccepts(OriginAny, b)
      BY DEF scopeAccepts, OriginAny
    <3>5. \A k \in DOMAIN accepting : accepting[k][2] = OriginAny
      BY Zenon, <2>8, <3>3
    <3> HIDE DEF accepting
    <3> QED
      BY Zenon, <2>7, <3>4, <3>5
  <2> QED
    BY Zenon, <2>9, <2>10
<1>2. Spec => [][Chosen]_vars
  BY <1>1, ManagerKeepsOrder, PTL DEF Spec
<1> QED
  BY Zenon, <1>2 DEF ScopesAreHonoured
================================================================================
