----------------------------- MODULE StoreProofs -----------------------------
(***************************************************************************)
(* The session store, proved: map, list and flags agree, evictions take    *)
(* the least recently used, and TTL and lookup fit together, for any       *)
(* number of sessions, goroutines and any limits.                          *)
(***************************************************************************)
EXTENDS Store, SelectionProofs

----------------------------------------------------------------------------
(* What the evictions leave *)

\* t is the front of s: what stays keeps its order, and what goes was behind
\* all of it.
Front(t, s) ==
  /\ t \in Seq(Ids)
  /\ IsInjective(t)
  /\ Range(t) \subseteq Range(s)
  /\ \A a, b : Ahead(t, a, b) => Ahead(s, a, b)
  /\ \A a \in Range(t), b \in Range(s) \ Range(t) : Ahead(s, a, b)

\* One eviction after another (store.go:76-77, 102-103).
LEMMA FrontTwice ==
  ASSUME NEW s, NEW t, NEW u, Front(t, s), Front(u, t)
  PROVE  Front(u, s)
<1>1. ASSUME NEW a \in Range(u), NEW b \in Range(s) \ Range(u)
      PROVE  Ahead(s, a, b)
  <2>1. CASE b \in Range(t)
    BY <1>1, <2>1 DEF Front
  <2>2. CASE b \notin Range(t)
    BY <1>1, <2>2 DEF Front
  <2> QED BY <2>1, <2>2
<1> QED BY <1>1 DEF Front

\* Whatever goes from the back leaves a front (store.go:195-226).
LEMMA CutIsFront ==
  ASSUME NEW s \in Seq(Ids), IsInjective(s), NEW places,
         \A i \in places, j \in 1 .. Len(s) : j <= i => j \in places
  PROVE  Front(Selection(s, places), s)
<1> DEFINE t == Selection(s, places)
<1>1. \A i, j \in places \cap (1 .. Len(s)) : s[i] = s[j] => i = j
  BY DEF IsInjective
<1>2. /\ t \in Seq(Ids) /\ IsInjective(t)
      /\ Range(t) = {s[i] : i \in places \cap (1 .. Len(s))}
  BY <1>1, SelectionFacts
<1>3. Range(t) \subseteq Range(s)
  BY <1>2 DEF Range
<1>4. ASSUME NEW a, NEW b, Ahead(t, a, b) PROVE Ahead(s, a, b)
  <2>1. AheadAt(s, places, a, b)
    BY <1>4, SelectionOrder
  <2> QED BY <2>1 DEF Ahead, AheadAt
<1>5. \A a \in Range(t), b \in Range(s) \ Range(t) : Ahead(s, a, b)
  BY FrontStays
<1> HIDE DEF t
<1>6. Front(t, s)
  BY <1>2, <1>3, <1>4, <1>5 DEF Front
<1> QED BY <1>6 DEF t

\* evictExpiredLocked (store.go:208-226) leaves a front; what stays is fresh
\* or ahead of something fresh, and what goes is not fresh.
LEMMA UnexpiredFacts ==
  ASSUME NEW s \in Seq(Ids), IsInjective(s), NEW now
  PROVE  /\ Front(Unexpired(s, now), s)
         /\ Len(Unexpired(s, now)) <= Len(s)
         /\ \A a \in Range(Unexpired(s, now)) :
              \E b \in Range(s) : Fresh(b, now) /\ (a = b \/ Ahead(s, a, b))
         /\ \A b \in Range(s) \ Range(Unexpired(s, now)) : ~ Fresh(b, now)
<1> DEFINE P == {j \in DOMAIN s : \E n \in j .. Len(s) : Fresh(s[n], now)}
           t == Unexpired(s, now)
<1>1. \A i \in P, j \in 1 .. Len(s) : j <= i => j \in P
  OBVIOUS
<1>2. t = Selection(s, P)
  BY DEF Unexpired
<1>3. P \subseteq 1 .. Len(s)
  OBVIOUS
<1>4. \A j \in P : \E n \in j .. Len(s) : Fresh(s[n], now)
  OBVIOUS
<1>5. \A j \in 1 .. Len(s) : Fresh(s[j], now) => j \in P
  OBVIOUS
<1> HIDE DEF P, t
<1>6. Front(t, s)
  BY <1>1, <1>2, CutIsFront
<1>7. Len(t) <= Len(s) /\ Range(t) = {s[i] : i \in P \cap (1 .. Len(s))}
  BY <1>2, SelectionFacts
<1>8. ASSUME NEW a \in Range(t)
      PROVE  \E b \in Range(s) : Fresh(b, now) /\ (a = b \/ Ahead(s, a, b))
  <2>1. PICK i \in P : i \in 1 .. Len(s) /\ s[i] = a
    BY <1>7
  <2>2. PICK n \in i .. Len(s) : Fresh(s[n], now)
    BY <1>4
  <2>3. n \in 1 .. Len(s) /\ s[n] \in Range(s)
    BY <2>1, <2>2 DEF Range
  <2>4. i = n \/ i < n
    BY <2>1, <2>2
  <2>5. i < n => Ahead(s, a, s[n])
    BY <2>1, <2>3 DEF Ahead
  <2> QED BY <2>1, <2>2, <2>3, <2>4, <2>5
<1>9. ASSUME NEW b \in Range(s) \ Range(t) PROVE ~ Fresh(b, now)
  <2>1. PICK j \in 1 .. Len(s) : s[j] = b
    BY DEF Range
  <2>2. j \notin P
    BY <1>7, <2>1
  <2> QED BY <1>5, <2>1, <2>2
<1> QED BY <1>6, <1>7, <1>8, <1>9 DEF t

\* evictOverLimitLocked (store.go:195-206) leaves a front no longer than the
\* limit; the session in front always stays.
LEMMA WithinLimitFacts ==
  ASSUME NEW s \in Seq(Ids), IsInjective(s)
  PROVE  /\ Front(WithinLimit(s), s)
         /\ Len(WithinLimit(s)) <= MaxSessions
         /\ \A a : (Len(s) > 0 /\ a = s[1]) => a \in Range(WithinLimit(s))
<1> DEFINE P == 1 .. MaxSessions
           t == WithinLimit(s)
<1>0. MaxSessions \in Nat \ {0}
  BY StoreAssumption
<1>1. \A i \in P, j \in 1 .. Len(s) : j <= i => j \in P
  BY <1>0
<1>2. t = Selection(s, P)
  BY DEF WithinLimit
<1>3. Front(t, s)
  <2> HIDE DEF P
  <2> QED BY <1>1, <1>2, CutIsFront
<1>4. Len(t) <= MaxSessions
  BY <1>0, <1>2, SelectionShorter
<1>5. Range(t) = {s[i] : i \in P \cap (1 .. Len(s))}
  <2> HIDE DEF P
  <2> QED BY <1>2, SelectionFacts
<1>6. ASSUME Len(s) > 0 PROVE s[1] \in Range(t)
  BY <1>0, <1>5, <1>6
<1> QED BY <1>3, <1>4, <1>6

\* MoveToFront and PushFront (store.go:98, 138): the session is in front of
\* the others, which keep their order.
LEMMA InFrontFacts ==
  ASSUME NEW s \in Seq(Ids), IsInjective(s), NEW i \in Ids
  PROVE  /\ InFront(i, s) \in Seq(Ids)
         /\ IsInjective(InFront(i, s))
         /\ Range(InFront(i, s)) = Range(s) \cup {i}
         /\ Len(InFront(i, s)) > 0 /\ InFront(i, s)[1] = i
         /\ i \in Range(s) => Len(InFront(i, s)) <= Len(s)
         /\ \A a, b : Ahead(InFront(i, s), a, b) =>
              \/ a = i /\ b \in Range(s) \ {i}
              \/ a # i /\ b # i /\ Ahead(s, a, b)
<1> DEFINE t == Without(s, {i})
           one == <<i>>
<1>1. t \in Seq(Ids) /\ IsInjective(t) /\ Range(t) = Range(s) \ {i}
  BY WithoutFacts
<1>2. \A a, b : Ahead(t, a, b) <=> Ahead(s, a, b) /\ a # i /\ b # i
  BY WithoutAhead
<1>3. ASSUME i \in Range(s) PROVE Len(t) < Len(s)
  <2> DEFINE P == {n \in DOMAIN s : s[n] \notin {i}}
  <2>1. PICK n \in 1 .. Len(s) : s[n] = i
    BY <1>3 DEF Range
  <2>2. ~ (1 .. Len(s) \subseteq P)
    BY <2>1
  <2>3. t = Selection(s, P)
    BY DEF Without
  <2> HIDE DEF P
  <2> QED BY <2>2, <2>3, SelectionShorter
<1>4. /\ one \in Seq(Ids) /\ Range(one) = {i} /\ IsInjective(one)
      /\ \A a, b : ~ Ahead(one, a, b)
  <2>1. one \in Seq(Ids) /\ DOMAIN one = {1} /\ one[1] = i
    OBVIOUS
  <2> HIDE DEF one
  <2> QED BY <2>1 DEF Range, IsInjective, Ahead
<1>5. InFront(i, s) = one \o t
  BY DEF InFront
<1>6. /\ Len(InFront(i, s)) = Len(t) + 1 /\ Len(t) \in Nat
      /\ InFront(i, s)[1] = i
  BY <1>1, <1>5
<1> HIDE DEF t, one
<1>7. /\ InFront(i, s) \in Seq(Ids) /\ IsInjective(InFront(i, s))
      /\ Range(InFront(i, s)) = Range(s) \cup {i}
  <2>1. Range(one) \cap Range(t) = {}
    BY <1>1, <1>4
  <2>2. /\ one \o t \in Seq(Ids) /\ IsInjective(one \o t)
        /\ Range(one \o t) = Range(one) \cup Range(t)
    BY <1>1, <1>4, <2>1, ConcatFacts
  <2> QED BY <1>1, <1>4, <1>5, <2>2
<1>8. ASSUME NEW a, NEW b, Ahead(InFront(i, s), a, b)
      PROVE  \/ a = i /\ b \in Range(s) \ {i}
             \/ a # i /\ b # i /\ Ahead(s, a, b)
  <2>1. \/ Ahead(one, a, b)
        \/ a \in Range(one) /\ b \in Range(t)
        \/ Ahead(t, a, b)
    BY <1>1, <1>4, <1>5, <1>8, ConcatAhead
  <2> QED BY <1>1, <1>2, <1>4, <2>1
<1> QED BY <1>3, <1>6, <1>7, <1>8

----------------------------------------------------------------------------
(* The invariant *)

\* A call's time is not in the future and not older than a call may wait for
\* the lock (store.go:74, 119); it is after a session that has an id.
CallInv ==
  \A p \in Procs :
    /\ pc[p] \in {"new", "get"} => at[p] <= clock /\ clock - at[p] <= MaxDelay
    /\ pc[p] \in {"get", "activate"} => id[p] \in Ids

\* lastUsed is the time the last use read, and at most that wait before the
\* use took effect (store.go:98, 137).
UseInv ==
  \A i \in Ids :
    /\ lastUsed[i] <= used[i]
    /\ used[i] <= lastUsed[i] + MaxDelay
    /\ used[i] <= clock

\* The list is in the order in which uses took effect, whatever their times.
UseOrder == \A a, b \in Ids : Ahead(lru, a, b) => used[b] <= used[a]

\* What every step keeps.
Inv == TypeOK /\ ClosedIsGone /\ CallInv /\ UseInv /\ UseOrder

\* What deleteElemLocked does to the map and the flags keeps them in
\* agreement with the list (store.go:228-236).
LEMMA KeepFacts ==
  ASSUME TypeOK, ClosedIsGone,
         NEW s \in Seq(Ids), NEW new \in SUBSET (Ids \ made),
         Len(s) <= MaxSessions, IsInjective(s), Range(s) \subseteq m \cup new,
         Keep(s, new)
  PROVE  /\ lru' = s /\ lru' \in Seq(Ids) /\ Len(lru') <= MaxSessions
         /\ m' = Range(s) /\ m' \in SUBSET Ids
         /\ made' = made \cup new /\ made' \in SUBSET Ids
         /\ closed' \in SUBSET Ids
         /\ ClosedIsGone'
<1>1. /\ lru' = s
      /\ m' = (m \cup new) \cap Range(s)
      /\ made' = made \cup new
      /\ closed' = closed \cup ((m \cup new) \ Range(s))
  BY DEF Keep
<1>2. m' = Range(s)
  BY <1>1
<1>3. /\ m \in SUBSET Ids /\ made \in SUBSET Ids /\ closed \in SUBSET Ids
      /\ m \cap closed = {} /\ m \cup closed = made
  BY DEF TypeOK, ClosedIsGone
<1>4. m' \cap closed' = {} /\ m' \cup closed' = made'
  BY <1>1, <1>2, <1>3
<1>5. Range(lru') = m' /\ IsInjective(lru')
  BY <1>1, <1>2
<1>6. ClosedIsGone'
  BY <1>4, <1>5 DEF ClosedIsGone
<1>7. m' \in SUBSET Ids /\ made' \in SUBSET Ids /\ closed' \in SUBSET Ids
  BY <1>1, <1>2, <1>3
<1> QED BY <1>1, <1>2, <1>6, <1>7

\* A use that a call makes now is the last one, and its time is the call's
\* (store.go:98, 137, 191).
LEMMA UseFacts ==
  ASSUME Inv, NEW p \in Procs, NEW i \in Ids, pc[p] \in {"new", "get"},
         Use(p, i), clock' = clock
  PROVE  /\ lastUsed' \in [Ids -> Time] /\ used' \in [Ids -> Time]
         /\ used'[i] = clock
         /\ \A k \in Ids : k # i => used'[k] = used[k]
         /\ \A k \in Ids : used[k] <= clock
         /\ UseInv'
<1>1. /\ lastUsed' = [lastUsed EXCEPT ![i] = at[p]]
      /\ used' = [used EXCEPT ![i] = clock]
  BY DEF Use
<1>2. /\ lastUsed \in [Ids -> Time] /\ used \in [Ids -> Time]
      /\ at[p] \in Time /\ clock \in Time /\ MaxDelay \in Nat
  BY StoreAssumption DEF Inv, TypeOK
<1>3. at[p] <= clock /\ clock - at[p] <= MaxDelay
  BY DEF Inv, CallInv
<1>4. lastUsed' \in [Ids -> Time] /\ used' \in [Ids -> Time]
  BY <1>1, <1>2
<1>5. used'[i] = clock /\ lastUsed'[i] = at[p]
  BY <1>1, <1>2
<1>6. \A k \in Ids : k # i => used'[k] = used[k] /\ lastUsed'[k] = lastUsed[k]
  BY <1>1, <1>2
<1>7. \A k \in Ids : /\ lastUsed[k] <= used[k]
                     /\ used[k] <= lastUsed[k] + MaxDelay
                     /\ used[k] <= clock
  BY DEF Inv, UseInv
<1>8. ASSUME NEW k \in Ids
      PROVE  /\ lastUsed'[k] <= used'[k]
             /\ used'[k] <= lastUsed'[k] + MaxDelay
             /\ used'[k] <= clock
  <2>1. CASE k = i
    BY <1>2, <1>3, <1>5, <2>1 DEF Time
  <2>2. CASE k # i
    BY <1>6, <1>7, <2>2
  <2> QED BY <2>1, <2>2
<1>9. UseInv'
  BY <1>8 DEF UseInv
<1> QED BY <1>4, <1>5, <1>6, <1>7, <1>9

\* Cutting the back off keeps the order of use (store.go:195-226).
LEMMA FrontOrder ==
  ASSUME UseOrder, NEW t, Front(t, lru), NEW a \in Ids, NEW b \in Ids
  PROVE  /\ Ahead(t, a, b) => used[b] <= used[a]
         /\ a \in Range(t) /\ b \in Range(lru) \ Range(t) => used[b] <= used[a]
  BY DEF UseOrder, Front

\* The session used last in front of a front is in the order of use
\* (store.go:98, 137-138).
LEMMA InFrontOrder ==
  ASSUME Inv, NEW p \in Procs, NEW i \in Ids, pc[p] \in {"new", "get"},
         Use(p, i), clock' = clock,
         NEW t, Front(t, lru), NEW a \in Ids, NEW b \in Ids,
         Ahead(InFront(i, t), a, b)
  PROVE  used'[b] <= used'[a]
<1>1. /\ used'[i] = clock
      /\ \A k \in Ids : k # i => used'[k] = used[k]
      /\ \A k \in Ids : used[k] <= clock
  BY UseFacts
<1>2. t \in Seq(Ids) /\ IsInjective(t)
  BY DEF Front
<1>3. \/ a = i /\ b # i
      \/ a # i /\ b # i /\ Ahead(t, a, b)
  BY <1>2, InFrontFacts
<1>4. Ahead(t, a, b) => used[b] <= used[a]
  BY FrontOrder DEF Inv
<1> QED BY <1>1, <1>3, <1>4

----------------------------------------------------------------------------
(* The list *)

\* What the invariant says of sessions, and not of calls.
ListInv ==
  /\ lru \in Seq(Ids) /\ Len(lru) <= MaxSessions
  /\ m \in SUBSET Ids /\ made \in SUBSET Ids /\ closed \in SUBSET Ids
  /\ lastUsed \in [Ids -> Time] /\ used \in [Ids -> Time]
  /\ ClosedIsGone /\ UseInv /\ UseOrder

\* What was used no later than anything that stays.
LeastUsedGo ==
  \A gone \in m \ m' : \A kept \in m' \cap m : used[gone] <= used[kept]

\* Evictions alone (store.go:76-83, 124-127): a front of the list is kept.
LEMMA CutStep ==
  ASSUME Inv, NEW t, Front(t, lru), Len(t) <= MaxSessions,
         Keep(t, {}), UNCHANGED <<clock, lastUsed, used>>
  PROVE  ListInv' /\ m' = Range(t) /\ LeastUsedGo
<1>1. /\ TypeOK /\ ClosedIsGone /\ UseInv /\ UseOrder
      /\ Range(lru) = m /\ m \in SUBSET Ids
  BY DEF Inv, TypeOK, ClosedIsGone
<1>2. t \in Seq(Ids) /\ IsInjective(t) /\ Range(t) \subseteq m \cup {}
  BY <1>1 DEF Front
<1>3. /\ lru' = t /\ lru' \in Seq(Ids) /\ Len(lru') <= MaxSessions
      /\ m' = Range(t) /\ m' \in SUBSET Ids
      /\ made' \in SUBSET Ids /\ closed' \in SUBSET Ids /\ ClosedIsGone'
  BY <1>1, <1>2, KeepFacts
<1>4. UseOrder'
  <2>1. ASSUME NEW a \in Ids, NEW b \in Ids, Ahead(t, a, b)
        PROVE  used'[b] <= used'[a]
    BY <1>1, <2>1, FrontOrder
  <2> QED BY <1>3, <2>1 DEF UseOrder
<1>5. UseInv'
  BY <1>1 DEF UseInv
<1>6. LeastUsedGo
  <2>1. ASSUME NEW a \in Range(t), NEW b \in m \ Range(t)
        PROVE  used[b] <= used[a]
    BY <1>1, <1>2, <2>1, FrontOrder
  <2> QED BY <1>3, <2>1 DEF LeastUsedGo
<1>7. lastUsed' \in [Ids -> Time] /\ used' \in [Ids -> Time]
  BY <1>1 DEF TypeOK
<1>8. ListInv'
  BY <1>3, <1>4, <1>5, <1>7 DEF ListInv
<1> QED BY <1>3, <1>6, <1>8

\* A session deleted from the midst of the list (store.go:111, 142-149).
LEMMA RemoveStep ==
  ASSUME Inv, NEW i, Keep(Without(lru, {i}), {}),
         UNCHANGED <<clock, lastUsed, used>>
  PROVE  ListInv'
<1> DEFINE t == Without(lru, {i})
<1>1. /\ TypeOK /\ ClosedIsGone /\ UseInv /\ UseOrder
      /\ Range(lru) = m /\ IsInjective(lru)
      /\ lru \in Seq(Ids) /\ Len(lru) <= MaxSessions
  BY DEF Inv, TypeOK, ClosedIsGone
<1>2. /\ t \in Seq(Ids) /\ IsInjective(t) /\ Range(t) \subseteq m \cup {}
      /\ Len(t) <= Len(lru)
  BY <1>1, WithoutFacts
<1>3. \A a, b : Ahead(t, a, b) => Ahead(lru, a, b)
  BY <1>1, WithoutAhead
<1>4. Keep(t, {})
  OBVIOUS
<1> HIDE DEF t
<1>5. MaxSessions \in Nat /\ Len(t) \in Nat /\ Len(lru) \in Nat
  BY <1>1, <1>2, StoreAssumption
<1>6. Len(t) <= MaxSessions
  BY <1>1, <1>2, <1>5
<1>7. /\ lru' = t /\ lru' \in Seq(Ids) /\ Len(lru') <= MaxSessions
      /\ m' \in SUBSET Ids /\ made' \in SUBSET Ids /\ closed' \in SUBSET Ids
      /\ ClosedIsGone'
  BY <1>1, <1>2, <1>4, <1>6, KeepFacts
<1>8. UseOrder' /\ UseInv'
  BY <1>1, <1>3, <1>7 DEF UseOrder, UseInv
<1>9. lastUsed' \in [Ids -> Time] /\ used' \in [Ids -> Time]
  BY <1>1 DEF TypeOK
<1> QED BY <1>7, <1>8, <1>9 DEF ListInv

\* A session is used: it goes in front of what evictions left, and the back
\* may be cut off once more (store.go:98-103, 137-138).
LEMMA UseStep ==
  ASSUME Inv, NEW p \in Procs, NEW i \in Ids, pc[p] \in {"new", "get"},
         NEW t, Front(t, lru), NEW s, Front(s, InFront(i, t)),
         Len(s) <= MaxSessions, NEW new \in SUBSET (Ids \ made), i \in m \cup new,
         \/ i \notin m
         \/ i \in Range(t) /\ s = InFront(i, t),
         Keep(s, new), Use(p, i), clock' = clock
  PROVE  ListInv' /\ m' = Range(s) /\ LeastUsedGo
<1>1. /\ TypeOK /\ ClosedIsGone /\ UseOrder
      /\ Range(lru) = m /\ m \in SUBSET Ids
  BY DEF Inv, TypeOK, ClosedIsGone
<1>2. t \in Seq(Ids) /\ IsInjective(t) /\ Range(t) \subseteq m
  BY <1>1 DEF Front
<1>3. /\ Range(InFront(i, t)) = Range(t) \cup {i}
      /\ \A a, b : Ahead(InFront(i, t), a, b) =>
            \/ a = i /\ b \in Range(t) \ {i}
            \/ a # i /\ b # i /\ Ahead(t, a, b)
  BY <1>2, InFrontFacts
<1>4. s \in Seq(Ids) /\ IsInjective(s) /\ Range(s) \subseteq m \cup new
  BY <1>2, <1>3 DEF Front
<1>5. /\ lru' = s /\ lru' \in Seq(Ids) /\ Len(lru') <= MaxSessions
      /\ m' = Range(s) /\ m' \in SUBSET Ids
      /\ made' \in SUBSET Ids /\ closed' \in SUBSET Ids /\ ClosedIsGone'
  BY <1>1, <1>4, KeepFacts
<1>6. /\ lastUsed' \in [Ids -> Time] /\ used' \in [Ids -> Time] /\ UseInv'
  BY UseFacts
<1>7. UseOrder'
  <2>1. ASSUME NEW a \in Ids, NEW b \in Ids, Ahead(s, a, b)
        PROVE  used'[b] <= used'[a]
    <3>1. Ahead(InFront(i, t), a, b)
      BY <2>1 DEF Front
    <3> QED BY <3>1, InFrontOrder
  <2> QED BY <1>5, <2>1 DEF UseOrder
<1>8. ASSUME NEW a \in m, a \in Range(s), NEW b \in m, b \notin Range(s)
      PROVE  used[b] <= used[a]
  <2>1. a \in Range(t) /\ a \in Ids /\ b \in Ids
    BY <1>1, <1>3, <1>8 DEF Front
  <2>2. CASE b \notin Range(t)
    BY <1>1, <1>8, <2>1, <2>2, FrontOrder
  <2>3. CASE b \in Range(t)
    <3>1. Ahead(InFront(i, t), a, b) /\ i \notin m
      BY <1>3, <1>8, <2>3 DEF Front
    <3>2. Ahead(t, a, b)
      BY <1>3, <1>8, <3>1
    <3> QED BY <1>1, <2>1, <3>2, FrontOrder
  <2> QED BY <2>2, <2>3
<1>9. LeastUsedGo
  BY <1>5, <1>8 DEF LeastUsedGo
<1>10. ListInv'
  BY <1>5, <1>6, <1>7 DEF ListInv
<1> QED BY <1>5, <1>9, <1>10

----------------------------------------------------------------------------
(* The operations *)

\* Both evictions leave a front within the limit (store.go:76-77).
LEMMA BothCuts ==
  ASSUME Inv, NEW p \in Procs
  PROVE  /\ Front(Unexpired(lru, at[p]), lru)
         /\ Len(Unexpired(lru, at[p])) <= MaxSessions
         /\ Front(WithinLimit(Unexpired(lru, at[p])), lru)
         /\ Len(WithinLimit(Unexpired(lru, at[p]))) <= MaxSessions
<1> DEFINE u == Unexpired(lru, at[p])
<1>1. lru \in Seq(Ids) /\ Len(lru) <= MaxSessions /\ IsInjective(lru)
  BY DEF Inv, TypeOK, ClosedIsGone
<1>2. Front(u, lru) /\ Len(u) <= Len(lru)
  BY <1>1, UnexpiredFacts
<1> HIDE DEF u
<1>3. u \in Seq(Ids) /\ IsInjective(u)
  BY <1>2 DEF Front
<1>4. Front(WithinLimit(u), u) /\ Len(WithinLimit(u)) <= MaxSessions
  BY <1>3, WithinLimitFacts
<1>5. Front(WithinLimit(u), lru)
  BY <1>2, <1>4, FrontTwice
<1>6. MaxSessions \in Nat /\ Len(u) \in Nat /\ Len(lru) \in Nat
  BY <1>1, <1>3, StoreAssumption
<1>7. Len(u) <= MaxSessions
  BY <1>1, <1>2, <1>6
<1> QED BY <1>2, <1>4, <1>5, <1>7 DEF u

\* NewSession (store.go:74-108) keeps the invariant, and the new session.
LEMMA NewStep ==
  ASSUME Inv, NEW p \in Procs, NEW i \in Ids, New(p, i)
  PROVE  ListInv' /\ LeastUsedGo /\ made' = made \cup {i} /\ i \in m'
<1> DEFINE t == WithinLimit(Unexpired(lru, at[p]))
           s == WithinLimit(InFront(i, t))
<1>1. /\ pc[p] = "new" /\ i \notin made /\ Keep(s, {i}) /\ Use(p, i)
      /\ clock' = clock
  BY DEF New
<1>2. Front(t, lru)
  BY BothCuts
<1> HIDE DEF t
<1>3. t \in Seq(Ids) /\ IsInjective(t)
  BY <1>2 DEF Front
<1>4. /\ InFront(i, t) \in Seq(Ids) /\ IsInjective(InFront(i, t))
      /\ Len(InFront(i, t)) > 0 /\ InFront(i, t)[1] = i
  BY <1>3, InFrontFacts
<1>5. Front(s, InFront(i, t)) /\ Len(s) <= MaxSessions /\ i \in Range(s)
  BY <1>4, WithinLimitFacts
<1> HIDE DEF s
<1>6. i \notin m /\ {i} \in SUBSET (Ids \ made)
  BY <1>1 DEF Inv, ClosedIsGone
<1>7. ListInv' /\ m' = Range(s) /\ LeastUsedGo
  BY <1>1, <1>2, <1>5, <1>6, UseStep
<1>8. made' = made \cup {i}
  BY <1>1 DEF Keep
<1> QED BY <1>5, <1>7, <1>8

\* A NewSession that gets no id has only evicted (store.go:76-85).
LEMMA NewFailsStep ==
  ASSUME Inv, NEW p \in Procs, NewFails(p)
  PROVE  ListInv' /\ LeastUsedGo /\ made' = made
<1>1. /\ Keep(WithinLimit(Unexpired(lru, at[p])), {})
      /\ UNCHANGED <<clock, lastUsed, used>>
  BY DEF NewFails
<1>2. made' = made
  BY <1>1 DEF Keep
<1> QED BY <1>1, <1>2, BothCuts, CutStep

\* Get and touch (store.go:118-140, 179-193) keep the invariant.  Whom they
\* serve is fresh or was used after something fresh; whom they evict is not
\* fresh.
LEMMA GetStep ==
  ASSUME Inv, NEW p \in Procs, Get(p)
  PROVE  /\ ListInv' /\ LeastUsedGo /\ made' = made
         /\ m' = Range(Unexpired(lru, at[p]))
<1> DEFINE t == Unexpired(lru, at[p])
           i == id[p]
           Serves == /\ i \in m /\ i \in Range(t)
                     /\ Keep(InFront(i, t), {}) /\ Use(p, i)
           Fails == Keep(t, {}) /\ UNCHANGED <<lastUsed, used>>
<1>1. pc[p] = "get" /\ clock' = clock /\ (Serves \/ Fails)
  BY DEF Get
<1>2. made' = made
  BY <1>1 DEF Keep
<1>3. Front(t, lru) /\ Len(t) <= MaxSessions
  BY BothCuts
<1>4. i \in Ids
  BY <1>1 DEF Inv, CallInv
<1>5. CASE Serves
  <2>1. /\ i \in m /\ i \in Range(t) /\ Keep(InFront(i, t), {}) /\ Use(p, i)
    BY <1>5
  <2> HIDE DEF t, i
  <2>2. t \in Seq(Ids) /\ IsInjective(t)
    BY <1>3 DEF Front
  <2>3. /\ InFront(i, t) \in Seq(Ids) /\ IsInjective(InFront(i, t))
        /\ Range(InFront(i, t)) = Range(t) \cup {i}
        /\ Len(InFront(i, t)) <= Len(t)
    BY <1>4, <2>1, <2>2, InFrontFacts
  <2>4. MaxSessions \in Nat /\ Len(t) \in Nat /\ Len(InFront(i, t)) \in Nat
    BY <2>2, <2>3, StoreAssumption
  <2>5. Len(InFront(i, t)) <= MaxSessions
    BY <1>3, <2>3, <2>4
  <2>6. Front(InFront(i, t), InFront(i, t))
    BY <2>3 DEF Front
  <2>7. ListInv' /\ m' = Range(InFront(i, t)) /\ LeastUsedGo
    BY <1>1, <1>3, <1>4, <2>1, <2>5, <2>6, UseStep
  <2>8. m' = Range(t)
    BY <2>1, <2>3, <2>7
  <2> QED BY <1>2, <2>7, <2>8 DEF t
<1>6. CASE Fails
  <2>1. Keep(t, {}) /\ UNCHANGED <<clock, lastUsed, used>>
    BY <1>1, <1>6
  <2> HIDE DEF t
  <2>2. ListInv' /\ m' = Range(t) /\ LeastUsedGo
    BY <1>3, <2>1, CutStep
  <2> QED BY <1>2, <2>2 DEF t
<1> QED BY <1>1, <1>5, <1>6

\* Sessions deleted by CloseSession or by NewSession (store.go:110-114,
\* 142-149).
LEMMA DeleteSteps ==
  ASSUME Inv, \/ \E p \in Procs : ActivationFails(p)
              \/ \E i \in Ids : Delete(i)
  PROVE  ListInv' /\ made' = made
<1>1. \E i : /\ Keep(Without(lru, {i}), {})
            /\ UNCHANGED <<clock, lastUsed, used>>
  BY DEF ActivationFails, Delete
<1>2. made' = made
  BY <1>1 DEF Keep
<1> QED BY <1>1, <1>2, RemoveStep

\* What does not touch the sessions keeps what is true of them; the clock
\* only goes on (store.go:74, 119).
LEMMA QuietSteps ==
  ASSUME Inv, UNCHANGED <<lru, m, lastUsed, made, closed, used>>,
         clock' \in Time, clock' >= clock
  PROVE  ListInv' /\ m' = m /\ made' = made
<1>1. /\ lru \in Seq(Ids) /\ Len(lru) <= MaxSessions
      /\ m \in SUBSET Ids /\ made \in SUBSET Ids /\ closed \in SUBSET Ids
      /\ lastUsed \in [Ids -> Time] /\ used \in [Ids -> Time] /\ clock \in Time
      /\ ClosedIsGone /\ UseInv /\ UseOrder
  BY DEF Inv, TypeOK
<1>2. ClosedIsGone' /\ UseOrder'
  BY <1>1 DEF ClosedIsGone, UseOrder
<1>3. MaxTime \in Nat
  BY StoreAssumption
<1>4. UseInv'
  <2>1. ASSUME NEW i \in Ids PROVE used[i] <= clock'
    BY <1>1, <1>3 DEF UseInv, Time
  <2> QED BY <1>1, <2>1 DEF UseInv
<1> QED BY <1>1, <1>2, <1>4 DEF ListInv

\* A goroutine's own variables, in any step: calls begin, read the clock and
\* return (store.go:67-149).
CallTypes ==
  /\ clock \in Time
  /\ pc \in [Procs -> {"idle", "new", "get", "activate"}]
  /\ id \in [Procs -> Ids \cup {None}]
  /\ at \in [Procs -> Time]

\* Returning forgets the call (store.go:82-139).
LEMMA ReturnFacts ==
  ASSUME CallTypes, CallInv, NEW p \in Procs, Return(p), clock' = clock
  PROVE  CallTypes' /\ CallInv'
<1>1. /\ pc' = [pc EXCEPT ![p] = "idle"] /\ id' = [id EXCEPT ![p] = None]
      /\ at' = [at EXCEPT ![p] = 0] /\ 0 \in Time
  BY StoreAssumption DEF Return, Time
<1>2. CallTypes'
  BY <1>1 DEF CallTypes
<1>3. pc'[p] = "idle"
  BY <1>1 DEF CallTypes
<1>4. \A q \in Procs : q # p => pc'[q] = pc[q] /\ id'[q] = id[q] /\ at'[q] = at[q]
  BY <1>1 DEF CallTypes
<1>5. CallInv'
  <2>1. ASSUME NEW q \in Procs
        PROVE  /\ pc'[q] \in {"new", "get"} =>
                    at'[q] <= clock' /\ clock' - at'[q] <= MaxDelay
               /\ pc'[q] \in {"get", "activate"} => id'[q] \in Ids
    <3>1. CASE q = p
      BY <1>3, <3>1
    <3>2. CASE q # p
      BY <1>4, <3>2 DEF CallInv
    <3> QED BY <3>1, <3>2
  <2> QED BY <2>1 DEF CallInv
<1> QED BY <1>2, <1>5

\* A call begins with the clock's time (store.go:74, 119).
LEMMA StartFacts ==
  ASSUME CallTypes, CallInv, NEW p \in Procs, NEW i \in Ids \cup {None},
         NEW where \in {"new", "get"}, Start(p, where, i),
         where = "get" => i \in Ids
  PROVE  CallTypes' /\ CallInv'
<1>1. /\ pc' = [pc EXCEPT ![p] = where] /\ id' = [id EXCEPT ![p] = i]
      /\ at' = [at EXCEPT ![p] = clock] /\ clock' = clock
      /\ MaxDelay \in Nat /\ MaxTime \in Nat
  BY StoreAssumption DEF Start
<1>2. CallTypes'
  BY <1>1 DEF CallTypes
<1>3. pc'[p] = where /\ id'[p] = i /\ at'[p] = clock
  BY <1>1 DEF CallTypes
<1>4. \A q \in Procs : q # p => pc'[q] = pc[q] /\ id'[q] = id[q] /\ at'[q] = at[q]
  BY <1>1 DEF CallTypes
<1>5. CallInv'
  <2>1. ASSUME NEW q \in Procs
        PROVE  /\ pc'[q] \in {"new", "get"} =>
                    at'[q] <= clock' /\ clock' - at'[q] <= MaxDelay
               /\ pc'[q] \in {"get", "activate"} => id'[q] \in Ids
    <3>1. CASE q = p
      BY <1>1, <1>3, <3>1 DEF CallTypes, Time
    <3>2. CASE q # p
      BY <1>1, <1>4, <3>2 DEF CallInv
    <3> QED BY <3>1, <3>2
  <2> QED BY <2>1 DEF CallInv
<1> QED BY <1>2, <1>5

\* NewSession goes on to activate the initial skills (store.go:106-110).
LEMMA GoOnFacts ==
  ASSUME CallTypes, CallInv, NEW p \in Procs, NEW i \in Ids,
         pc' = [pc EXCEPT ![p] = "activate"], id' = [id EXCEPT ![p] = i],
         UNCHANGED <<at, clock>>
  PROVE  CallTypes' /\ CallInv'
<1>1. CallTypes'
  BY DEF CallTypes
<1>2. pc'[p] = "activate" /\ id'[p] = i
  BY DEF CallTypes
<1>3. \A q \in Procs : q # p => pc'[q] = pc[q] /\ id'[q] = id[q] /\ at'[q] = at[q]
  BY DEF CallTypes
<1>4. CallInv'
  <2>1. ASSUME NEW q \in Procs
        PROVE  /\ pc'[q] \in {"new", "get"} =>
                    at'[q] <= clock' /\ clock' - at'[q] <= MaxDelay
               /\ pc'[q] \in {"get", "activate"} => id'[q] \in Ids
    <3>1. CASE q = p
      BY <1>2, <3>1
    <3>2. CASE q # p
      BY <1>3, <3>2 DEF CallInv
    <3> QED BY <3>1, <3>2
  <2> QED BY <2>1 DEF CallInv
<1> QED BY <1>1, <1>4

\* The clock waits for calls that are late (the bound MaxDelay).
LEMMA TickFacts ==
  ASSUME CallTypes, CallInv, Tick
  PROVE  CallTypes' /\ CallInv' /\ clock' >= clock
<1>1. /\ clock < MaxTime /\ clock' = clock + 1 /\ UNCHANGED <<pc, id, at>>
      /\ \A p \in Procs : pc[p] \in {"new", "get"} => clock - at[p] < MaxDelay
      /\ MaxDelay \in Nat /\ MaxTime \in Nat
  BY StoreAssumption DEF Tick
<1>2. CallTypes' /\ clock' >= clock
  BY <1>1 DEF CallTypes, Time
<1>3. ASSUME NEW p \in Procs, pc[p] \in {"new", "get"}
      PROVE  at[p] <= clock + 1 /\ clock + 1 - at[p] <= MaxDelay
  BY <1>1, <1>3 DEF CallTypes, CallInv, Time
<1>4. ASSUME NEW p \in Procs
      PROVE  /\ pc'[p] \in {"new", "get"} =>
                  at'[p] <= clock' /\ clock' - at'[p] <= MaxDelay
             /\ pc'[p] \in {"get", "activate"} => id'[p] \in Ids
  <2>1. pc'[p] = pc[p] /\ at'[p] = at[p] /\ id'[p] = id[p] /\ clock' = clock + 1
    BY <1>1
  <2>2. pc[p] \in {"get", "activate"} => id[p] \in Ids
    BY DEF CallInv
  <2>3. CASE pc[p] \in {"new", "get"}
    <3>1. at[p] <= clock + 1 /\ clock + 1 - at[p] <= MaxDelay
      BY <1>3, <2>3
    <3>2. at'[p] <= clock' /\ clock' - at'[p] <= MaxDelay
      BY <2>1, <3>1 DEF CallTypes, Time
    <3>3. pc'[p] \in {"get", "activate"} => id'[p] \in Ids
      BY <2>1, <2>2
    <3> QED BY <3>2, <3>3
  <2>4. CASE pc[p] \notin {"new", "get"}
    BY <2>1, <2>2, <2>4
  <2> QED BY <2>3, <2>4
<1>5. CallInv'
  BY <1>4 DEF CallInv
<1> QED BY <1>2, <1>5

----------------------------------------------------------------------------
(* Theorems *)

\* The two halves of the invariant, sessions and calls (store.go:67-236).
LEMMA Halves == Inv <=> CallTypes /\ CallInv /\ ListInv
  BY DEF Inv, CallTypes, ListInv, TypeOK

\* They make the invariant after a step as well (store.go:67-236).
LEMMA HalvesNext == CallTypes' /\ CallInv' /\ ListInv' => Inv'
<1>1. CallTypes' /\ ListInv' => TypeOK'
  BY DEF CallTypes, ListInv, TypeOK
<1>2. ListInv' => ClosedIsGone' /\ UseInv' /\ UseOrder'
  BY DEF ListInv
<1> QED BY <1>1, <1>2 DEF Inv

\* A step of a goroutine or of CloseSession (store.go:67-236), and what it
\* makes.
LEMMA EachStep ==
  ASSUME Inv, [Next]_vars
  PROVE  Inv' /\ made' \ made \subseteq m'
<1>0. CallTypes /\ CallInv /\ ListInv
  BY Halves
<1>1. ASSUME NEW p \in Procs, NEW i \in Ids, New(p, i)
      PROVE  Inv' /\ made' \ made \subseteq m'
  <2>1. ListInv' /\ made' = made \cup {i} /\ i \in m'
    BY <1>1, NewStep
  <2>2. clock' = clock
    BY <1>1 DEF New
  <2>3. \/ Return(p)
        \/ pc' = [pc EXCEPT ![p] = "activate"] /\ id' = [id EXCEPT ![p] = i] /\ at' = at
    BY <1>1 DEF New
  <2>4. CallTypes' /\ CallInv'
    BY <1>0, <2>2, <2>3, ReturnFacts, GoOnFacts
  <2> QED BY <2>1, <2>4, HalvesNext
<1>2. ASSUME NEW p \in Procs, NewFails(p)
      PROVE  Inv' /\ made' \ made \subseteq m'
  <2>1. ListInv' /\ made' = made
    BY <1>2, NewFailsStep
  <2>2. CallTypes' /\ CallInv'
    BY <1>0, <1>2, ReturnFacts DEF NewFails
  <2> QED BY <2>1, <2>2, HalvesNext
<1>3. ASSUME NEW p \in Procs, Get(p)
      PROVE  Inv' /\ made' \ made \subseteq m'
  <2>1. ListInv' /\ made' = made
    BY <1>3, GetStep
  <2>2. CallTypes' /\ CallInv'
    BY <1>0, <1>3, ReturnFacts DEF Get
  <2> QED BY <2>1, <2>2, HalvesNext
<1>4. ASSUME NEW p \in Procs, ActivationFails(p)
      PROVE  Inv' /\ made' \ made \subseteq m'
  <2>1. ListInv' /\ made' = made
    BY <1>4, DeleteSteps
  <2>2. CallTypes' /\ CallInv'
    BY <1>0, <1>4, ReturnFacts DEF ActivationFails
  <2> QED BY <2>1, <2>2, HalvesNext
<1>5. ASSUME NEW i \in Ids, Delete(i)
      PROVE  Inv' /\ made' \ made \subseteq m'
  <2>1. ListInv' /\ made' = made
    BY <1>5, DeleteSteps
  <2>2. CallTypes' /\ CallInv'
    BY <1>0, <1>5 DEF Delete, CallTypes, CallInv
  <2> QED BY <2>1, <2>2, HalvesNext
<1>6. CASE Tick
  <2>1. CallTypes' /\ CallInv' /\ clock' >= clock
    BY <1>0, <1>6, TickFacts
  <2>2. ListInv' /\ made' = made
    BY <1>6, <2>1, QuietSteps DEF Tick, CallTypes
  <2> QED BY <2>1, <2>2, HalvesNext
<1>7. ASSUME NEW p \in Procs,
             StartNew(p) \/ (\E i \in Ids : StartGet(p, i)) \/ Activated(p)
      PROVE  Inv' /\ made' \ made \subseteq m'
  <2>1. CallTypes' /\ CallInv'
    <3>1. CASE StartNew(p)
      <4>1. Start(p, "new", None) /\ None \in Ids \cup {None}
        BY <3>1 DEF StartNew
      <4> QED BY <1>0, <4>1, StartFacts
    <3>2. ASSUME NEW i \in Ids, StartGet(p, i) PROVE CallTypes' /\ CallInv'
      <4>1. Start(p, "get", i) /\ i \in Ids \cup {None} /\ "get" \in {"new", "get"}
        BY <3>2 DEF StartGet
      <4> QED BY <1>0, <4>1, StartFacts
    <3>3. CASE Activated(p)
      BY <1>0, <3>3, ReturnFacts DEF Activated
    <3> QED BY <1>7, <3>1, <3>2, <3>3
  <2>2. clock' = clock /\ UNCHANGED <<lru, m, lastUsed, made, closed, used>>
    BY <1>7 DEF StartNew, StartGet, Start, Activated
  <2>3. clock \in Int /\ clock' \in Time
    BY <1>0, <2>2 DEF CallTypes, Time
  <2>4. clock' >= clock
    BY <2>2, <2>3
  <2>5. ListInv' /\ made' = made
    BY <2>2, <2>3, <2>4, QuietSteps
  <2> QED BY <2>1, <2>5, HalvesNext
<1>8. CASE UNCHANGED vars
  <2>1. clock' = clock /\ UNCHANGED <<lru, m, lastUsed, made, closed, used>>
    BY <1>8 DEF vars
  <2>2. clock \in Int /\ clock' \in Time
    BY <1>0, <2>1 DEF CallTypes, Time
  <2>3. ListInv' /\ made' = made
    BY <2>1, <2>2, QuietSteps
  <2>4. CallTypes'
    BY <1>0, <1>8 DEF vars, CallTypes
  <2>5. CallInv'
    BY <1>0, <1>8 DEF vars, CallInv
  <2> QED BY <2>3, <2>4, <2>5, HalvesNext
<1>9. ASSUME NEW p \in Procs,
             \/ StartNew(p) \/ (\E i \in Ids : StartGet(p, i))
             \/ (\E i \in Ids : New(p, i)) \/ NewFails(p)
             \/ Activated(p) \/ ActivationFails(p) \/ Get(p)
      PROVE  Inv' /\ made' \ made \subseteq m'
  <2>1. CASE \E i \in Ids : New(p, i)
    BY <1>1, <2>1
  <2>2. CASE NewFails(p)
    BY <1>2, <2>2
  <2>3. CASE Get(p)
    BY <1>3, <2>3
  <2>4. CASE ActivationFails(p)
    BY <1>4, <2>4
  <2>5. CASE StartNew(p) \/ (\E i \in Ids : StartGet(p, i)) \/ Activated(p)
    BY <1>7, <2>5
  <2> QED BY <1>9, <2>1, <2>2, <2>3, <2>4, <2>5
<1> QED BY <1>5, <1>6, <1>8, <1>9 DEF Next

\* Every behaviour of the store (store.go) keeps the invariant.
LEMMA InvAlways == Spec => []Inv
<1>1. Init => Inv
  <2> SUFFICES ASSUME Init PROVE Inv
    OBVIOUS
  <2>1. /\ MaxTime \in Nat /\ MaxDelay \in Nat /\ MaxSessions \in Nat /\ 0 \in Time
    BY StoreAssumption DEF Time
  <2>2. lru = <<>> /\ lru \in Seq(Ids) /\ Len(lru) = 0 /\ DOMAIN lru = {}
    BY DEF Init
  <2>3. TypeOK
    BY <2>1, <2>2 DEF Init, TypeOK
  <2>4. ClosedIsGone
    BY <2>2 DEF Init, ClosedIsGone, Range, IsInjective
  <2>5. UseInv
    BY <2>1 DEF Init, UseInv
  <2>6. CallInv /\ UseOrder
    BY <2>2 DEF Init, CallInv, UseOrder, Ahead
  <2> QED BY <2>3, <2>4, <2>5, <2>6 DEF Inv
<1>2. Inv /\ [Next]_vars => Inv'
  BY EachStep
<1> QED BY <1>1, <1>2, PTL DEF Spec

\* The variables keep to their types, and the store to its limit, even while
\* a session is made (store.go:103).
THEOREM StoreTypes == Spec => []TypeOK
<1>1. Inv => TypeOK
  BY DEF Inv
<1> QED BY <1>1, InvAlways, PTL

\* Map, list and closed flags always tell the same story (store.go:228-236).
THEOREM ClosedAreGone == Spec => []ClosedIsGone
<1>1. Inv => ClosedIsGone
  BY DEF Inv
<1> QED BY <1>1, InvAlways, PTL

\* NewSession never evicts the session it makes (store.go:100-103).
THEOREM NewAreKept == Spec => NewIsKept
<1>1. Inv /\ [Next]_vars => [made' \ made \subseteq m']_vars
  BY EachStep
<1> QED BY <1>1, InvAlways, PTL DEF Spec, NewIsKept

\* A call of one goroutine that ends is a step of that goroutine.
LEMMA WhoseStep ==
  ASSUME Inv, [Next]_vars, NEW p \in Procs, pc[p] \in {"new", "get"}, pc'[p] # pc[p]
  PROVE  \/ \E i \in Ids : New(p, i)
         \/ NewFails(p)
         \/ Get(p)
<1>1. pc \in [Procs -> {"idle", "new", "get", "activate"}]
  BY DEF Inv, TypeOK
<1>2. ASSUME NEW q \in Procs, q # p, NEW v, pc' = [pc EXCEPT ![q] = v] PROVE FALSE
  BY <1>1, <1>2
<1>3. ASSUME NEW q \in Procs,
             \/ StartNew(q) \/ (\E i \in Ids : StartGet(q, i))
             \/ (\E i \in Ids : New(q, i)) \/ NewFails(q)
             \/ Activated(q) \/ ActivationFails(q) \/ Get(q)
      PROVE  q = p
  <2>1. \E v : pc' = [pc EXCEPT ![q] = v]
    BY <1>3 DEF StartNew, StartGet, Start, New, NewFails, Activated,
                ActivationFails, Get, Return
  <2> QED BY <1>2, <2>1
<1>4. ~ UNCHANGED vars /\ ~ Tick /\ \A i \in Ids : ~ Delete(i)
  BY DEF vars, Tick, Delete
<1>5. /\ ~ StartNew(p) /\ (\A i \in Ids : ~ StartGet(p, i))
      /\ ~ Activated(p) /\ ~ ActivationFails(p)
  BY DEF StartNew, StartGet, Start, Activated, ActivationFails
<1> QED BY <1>3, <1>4, <1>5 DEF Next

\* What goes, for its age or for room, was used no later than what stays
\* (store.go:195-226), though times may disagree with the order of the list.
THEOREM LeastRecentlyUsedGo == Spec => EvictsLeastRecentlyUsed
<1>1. ASSUME Inv, [Next]_vars, NEW p \in Procs,
             pc[p] \in {"new", "get"}, pc'[p] # pc[p]
      PROVE  LeastUsedGo
  BY <1>1, WhoseStep, NewStep, NewFailsStep, GetStep
<1>2. Inv /\ [Next]_vars =>
        [\A p \in Procs : (pc[p] \in {"new", "get"} /\ pc'[p] # pc[p]) =>
           \A gone \in m \ m' : \A kept \in m' \cap m : used[gone] <= used[kept]]_vars
  BY <1>1 DEF LeastUsedGo
<1> QED BY <1>2, InvAlways, PTL DEF Spec, EvictsLeastRecentlyUsed

\* A session that Get serves was used within the TTL (store.go:124, 220-222).
THEOREM ServedAreFresh == Spec => ServedWithinTTL
<1>1. ASSUME Inv, [Next]_vars, NEW p \in Procs,
             pc[p] = "get", pc'[p] = "idle", id[p] \in m'
      PROVE  at[p] - used[id[p]] <= TTL
  <2>1. Get(p)
    BY <1>1, WhoseStep DEF New, NewFails
  <2>2. id[p] \in Range(Unexpired(lru, at[p]))
    BY <1>1, <2>1, GetStep
  <2>3. lru \in Seq(Ids) /\ IsInjective(lru) /\ Range(lru) = m /\ m \in SUBSET Ids
    BY <1>1 DEF Inv, TypeOK, ClosedIsGone
  <2>4. PICK b \in Range(lru) :
          Fresh(b, at[p]) /\ (id[p] = b \/ Ahead(lru, id[p], b))
    BY <2>2, <2>3, UnexpiredFacts
  <2>5. id[p] \in Ids /\ b \in Ids
    BY <1>1, <2>3 DEF Inv, CallInv
  <2>6. id[p] = b \/ used[b] <= used[id[p]]
    BY <1>1, <2>4, <2>5 DEF Inv, UseOrder
  <2>7. lastUsed[b] <= used[b] /\ at[p] - lastUsed[b] <= TTL
    BY <1>1, <2>4, <2>5 DEF Inv, UseInv, Fresh
  <2>8. /\ lastUsed[b] \in Int /\ used[b] \in Int /\ used[id[p]] \in Int
        /\ at[p] \in Int /\ TTL \in Int
    BY <1>1, <2>5, StoreAssumption DEF Inv, TypeOK, Time
  <2> QED BY <2>6, <2>7, <2>8
<1>2. Inv /\ [Next]_vars =>
        [\A p \in Procs : (pc[p] = "get" /\ pc'[p] = "idle" /\ id[p] \in m') =>
           at[p] - used[id[p]] <= TTL]_vars
  BY <1>1
<1> QED BY <1>2, InvAlways, PTL DEF Spec, ServedWithinTTL

\* What Get expires was idle for the TTL, but for the time its last use may
\* have waited for the lock (store.go:119-124, 220-224).
THEOREM ExpiredAreIdle == Spec => ExpiredOnlyWhenIdle
<1>1. ASSUME Inv, [Next]_vars, NEW p \in Procs,
             pc[p] = "get", pc'[p] = "idle", NEW gone \in m \ m'
      PROVE  at[p] - used[gone] > TTL - MaxDelay
  <2>1. Get(p)
    BY <1>1, WhoseStep DEF New, NewFails
  <2>2. lru \in Seq(Ids) /\ IsInjective(lru) /\ Range(lru) = m /\ m \in SUBSET Ids
    BY <1>1 DEF Inv, TypeOK, ClosedIsGone
  <2>3. gone \in Range(lru) \ Range(Unexpired(lru, at[p]))
    BY <1>1, <2>1, <2>2, GetStep
  <2>4. ~ Fresh(gone, at[p])
    BY <2>2, <2>3, UnexpiredFacts
  <2>5. gone \in Ids
    BY <2>2
  <2>6. used[gone] <= lastUsed[gone] + MaxDelay /\ ~ (at[p] - lastUsed[gone] <= TTL)
    BY <1>1, <2>4, <2>5 DEF Inv, UseInv, Fresh
  <2>7. /\ lastUsed[gone] \in Int /\ used[gone] \in Int /\ at[p] \in Int
        /\ TTL \in Int /\ MaxDelay \in Int
    BY <1>1, <2>5, StoreAssumption DEF Inv, TypeOK, Time
  <2> QED BY <2>6, <2>7
<1>2. Inv /\ [Next]_vars =>
        [\A p \in Procs : (pc[p] = "get" /\ pc'[p] = "idle") =>
           \A gone \in m \ m' : at[p] - used[gone] > TTL - MaxDelay]_vars
  BY <1>1
<1> QED BY <1>2, InvAlways, PTL DEF Spec, ExpiredOnlyWhenIdle

=============================================================================
