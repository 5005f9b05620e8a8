------------------------------- MODULE Store -------------------------------
(***************************************************************************)
(* internal/session/store.go: the sessions, in a map and in a list that is *)
(* kept in order of use, evicted when idle for longer than the TTL or when *)
(* there are too many.                                                     *)
(*                                                                         *)
(* NewSession, Get and touch read the clock before they take the store's   *)
(* mutex, so uses may take effect in another order than their times tell.  *)
(* Each of them is two steps here: Start, that reads the clock, and the    *)
(* critical section.                                                       *)
(***************************************************************************)
EXTENDS Integers, Sequences, Functions, Selections

CONSTANTS
  Ids,          \* session ids; uuid.NewV7 never yields one twice
  Procs,        \* goroutines that call the store
  TTL,
  MaxSessions,
  MaxTime,      \* bound: the clock stops there
  MaxDelay,     \* bound: ticks between reading the clock and the lock
  None          \* no id

ASSUME StoreAssumption ==
  /\ TTL \in Nat \ {0} /\ MaxSessions \in Nat \ {0}
  /\ MaxTime \in Nat /\ MaxDelay \in Nat
  /\ None \notin Ids

VARIABLES
  clock,
  lru,          \* Store.lru: ids, the most recently used one first
  m,            \* Store.m: the ids that have an element
  lastUsed,     \* item.lastUsed
  made,         \* ids given out so far
  closed,       \* sessions whose closed flag is set
  pc, id, at,   \* a goroutine's place, the session it is after, its `now'
  used          \* history only: when the last use of a session took effect

vars == <<clock, lru, m, lastUsed, made, closed, pc, id, at, used>>

Time == 0 .. MaxTime

Init ==
  /\ clock = 0
  /\ lru = <<>>
  /\ m = {}
  /\ lastUsed = [i \in Ids |-> 0]
  /\ made = {}
  /\ closed = {}
  /\ pc = [p \in Procs |-> "idle"]
  /\ id = [p \in Procs |-> None]
  /\ at = [p \in Procs |-> 0]
  /\ used = [i \in Ids |-> 0]

----------------------------------------------------------------------------
(* Helpers *)

Fresh(i, now) == now - lastUsed[i] <= TTL

\* Mutant: nothing is evicted for its age.
UnexpiredAll(s, now) == s

\* evictExpiredLocked goes from the back and stops at the first session that
\* is not expired: what stays is fresh or has something fresh behind it.
Unexpired(s, now) ==
  Selection(s, {j \in DOMAIN s : \E n \in j .. Len(s) : Fresh(s[n], now)})

\* Mutant: the limit is one session too high.
WithinLimitOffByOne(s) == Selection(s, 1 .. MaxSessions + 1)

\* evictOverLimitLocked drops sessions from the back.
WithinLimit(s) == Selection(s, 1 .. MaxSessions)

\* Mutant: a session used again keeps its place.
InFrontIfNew(i, s) == IF i \in Range(s) THEN s ELSE <<i>> \o s

\* Mutant: a session goes to the wrong end.
AtTheBack(i, s) == Without(s, {i}) \o <<i>>

\* PushFront, or MoveToFront of a session in the list.
InFront(i, s) == <<i>> \o Without(s, {i})

\* Mutant: deleteElemLocked forgets to set the flag.
KeepUnflagged(s, new) ==
  /\ lru' = s
  /\ m' = Range(s)
  /\ made' = made \cup new
  /\ UNCHANGED closed

\* The list becomes s, with the new sessions; deleteElemLocked has taken the
\* others out of the map and set their flags.
Keep(s, new) ==
  /\ lru' = s
  /\ m' = (m \cup new) \cap Range(s)
  /\ made' = made \cup new
  /\ closed' = closed \cup ((m \cup new) \ Range(s))

\* Mutant: lastUsed keeps the time of creation.
UseWithoutTime(p, i) ==
  /\ lastUsed' = IF i \in made THEN lastUsed
                 ELSE [lastUsed EXCEPT ![i] = at[p]]
  /\ used' = [used EXCEPT ![i] = clock]

\* The item's lastUsed becomes the time p read before it took the lock.
Use(p, i) ==
  /\ lastUsed' = [lastUsed EXCEPT ![i] = at[p]]
  /\ used' = [used EXCEPT ![i] = clock]

Return(p) ==
  /\ pc' = [pc EXCEPT ![p] = "idle"]
  /\ id' = [id EXCEPT ![p] = None]
  /\ at' = [at EXCEPT ![p] = 0]

----------------------------------------------------------------------------
(* Operations *)

\* The clock advances, but leaves nobody behind by more than MaxDelay.
Tick ==
  /\ clock < MaxTime
  /\ \A p \in Procs : pc[p] \in {"new", "get"} => clock - at[p] < MaxDelay
  /\ clock' = clock + 1
  /\ UNCHANGED <<lru, m, lastUsed, made, closed, pc, id, at, used>>

\* An operation begins and reads the clock: `now := time.Now()'.
Start(p, where, i) ==
  /\ pc[p] = "idle"
  /\ pc' = [pc EXCEPT ![p] = where]
  /\ id' = [id EXCEPT ![p] = i]
  /\ at' = [at EXCEPT ![p] = clock]
  /\ UNCHANGED <<clock, lru, m, lastUsed, made, closed, used>>

StartNew(p) == Start(p, "new", None)

\* Get and touch; any id may be asked for.
StartGet(p, i) == Start(p, "get", i)

\* NewSession's critical section; with initial skills it goes on to activate.
New(p, i) ==
  /\ pc[p] = "new"
  /\ i \notin made
  /\ LET left == WithinLimit(Unexpired(lru, at[p]))
     IN  Keep(WithinLimit(InFront(i, left)), {i})
  /\ Use(p, i)
  /\ \/ Return(p)
     \/ /\ pc' = [pc EXCEPT ![p] = "activate"]
        /\ id' = [id EXCEPT ![p] = i]
        /\ UNCHANGED at
  /\ UNCHANGED clock

\* No id could be made: the evictions stay done.
NewFails(p) ==
  /\ pc[p] = "new"
  /\ Keep(WithinLimit(Unexpired(lru, at[p])), {})
  /\ Return(p)
  /\ UNCHANGED <<clock, lastUsed, used>>

\* ActivateKeys on the new session returns; on an error it is deleted.
Activated(p) ==
  /\ pc[p] = "activate"
  /\ Return(p)
  /\ UNCHANGED <<clock, lru, m, lastUsed, made, closed, used>>

ActivationFails(p) ==
  /\ pc[p] = "activate"
  /\ Keep(Without(lru, {id[p]}), {})
  /\ Return(p)
  /\ UNCHANGED <<clock, lastUsed, used>>

(***************************************************************************)
(* The critical section of Get and of touch.  That they delete a session   *)
(* found closed is left out: by ClosedIsGone none is in the map.           *)
(***************************************************************************)
Get(p) ==
  /\ pc[p] = "get"
  /\ LET left == Unexpired(lru, at[p])
     IN  \/ /\ id[p] \in m
            /\ id[p] \in Range(left)
            /\ Keep(InFront(id[p], left), {})
            /\ Use(p, id[p])
         \/ /\ ~ (id[p] \in m /\ id[p] \in Range(left))
            /\ Keep(left, {})
            /\ UNCHANGED <<lastUsed, used>>
  /\ Return(p)
  /\ UNCHANGED clock

\* CloseSession, or NewSession cleaning up.
Delete(i) ==
  /\ i \in m
  /\ Keep(Without(lru, {i}), {})
  /\ UNCHANGED <<clock, lastUsed, pc, id, at, used>>

Next ==
  \/ Tick
  \/ \E p \in Procs :
       \/ StartNew(p) \/ (\E i \in Ids : StartGet(p, i))
       \/ (\E i \in Ids : New(p, i)) \/ NewFails(p)
       \/ Activated(p) \/ ActivationFails(p)
       \/ Get(p)
  \/ \E i \in Ids : Delete(i)

Spec == Init /\ [][Next]_vars

----------------------------------------------------------------------------
(* Properties *)

\* What every variable holds; the store never has more sessions than its
\* limit, not even while it makes one (store.go:103).
TypeOK ==
  /\ clock \in Time
  /\ lru \in Seq(Ids) /\ Len(lru) <= MaxSessions
  /\ m \in SUBSET Ids
  /\ made \in SUBSET Ids
  /\ closed \in SUBSET Ids
  /\ lastUsed \in [Ids -> Time]
  /\ used \in [Ids -> Time]
  /\ pc \in [Procs -> {"idle", "new", "get", "activate"}]
  /\ id \in [Procs -> Ids \cup {None}]
  /\ at \in [Procs -> Time]

\* Map, list and closed flags tell the same story: a session that was made
\* is in the map and once in the list, or its flag is set, and never both.
\* A goroutine that still holds an evicted session finds it closed.
ClosedIsGone ==
  /\ Range(lru) = m
  /\ IsInjective(lru)
  /\ m \cap closed = {}
  /\ m \cup closed = made

\* NewSession never evicts the session it makes (store.go:100-103).
NewIsKept == [][made' \ made \subseteq m']_vars

\* What goes, for its age or for room, was used no later than anything that
\* stays, though uses are ordered by the lock and not by their times.
EvictsLeastRecentlyUsed ==
  [][\A p \in Procs : (pc[p] \in {"new", "get"} /\ pc'[p] # pc[p]) =>
       \A gone \in m \ m' : \A kept \in m' \cap m : used[gone] <= used[kept]]_vars

\* Get never revives a session whose last use took effect longer than the
\* TTL before the call, even when times and list order disagree
\* (store.go:124, 220-222).
ServedWithinTTL ==
  [][\A p \in Procs :
       (pc[p] = "get" /\ pc'[p] = "idle" /\ id[p] \in m') =>
         at[p] - used[id[p]] <= TTL]_vars

\* A session is not expired early by more than the time a use of it may have
\* waited for the lock.
ExpiredOnlyWhenIdle ==
  [][\A p \in Procs : (pc[p] = "get" /\ pc'[p] = "idle") =>
       \A gone \in m \ m' : at[p] - used[gone] > TTL - MaxDelay]_vars

============================================================================
