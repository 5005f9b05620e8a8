------------------------------ MODULE Session ------------------------------
(***************************************************************************)
(* internal/session/session.go, the skills tools of tools_impl.go and the  *)
(* removal of a skill by the runtime (runtime.go RemoveSkill): one         *)
(* session's list of active skills, and the goroutines that change it.     *)
(*                                                                         *)
(*   Loaders    ActivateKeys, for skills-load and for NewSession           *)
(*   Unloaders  skills-unload                                              *)
(*   Listers    ActiveKeys, for the host's listing and the prompt          *)
(*   Hosts      RemoveSkill: out of the catalog, then out of the sessions  *)
(*                                                                         *)
(* The catalog is what they see of it, one call at a time: which keys are  *)
(* registered, and with what insert mode.  A step is a call of the         *)
(* catalog, a critical section of the session's mutex, or a part of one    *)
(* between two calls of the catalog (then mu is held).                     *)
(*                                                                         *)
(* stateVersion is compared for equality with a snapshot only, so it is    *)
(* represented by who has missed an increment: stale[p] says that it has   *)
(* moved since p took its snapshot.                                        *)
(***************************************************************************)
EXTENDS Naturals, Sequences, Functions, Selections

CONSTANTS
  Keys, Loaders, Unloaders, Listers, Hosts,
  Inserts,      \* the insert modes of skills
  MaxActive,    \* the session's limit; 0 is no limit
  MaxTries,     \* rounds of ActivateKeys's loop (5 in the code)
  MaxRequest,   \* bound: keys one call names
  None          \* no entry in the catalog; nobody holds the mutex

Procs == Loaders \cup Unloaders \cup Listers \cup Hosts

Modes == {"replace", "add"}

ASSUME SessionAssumption ==
  /\ MaxActive \in Nat /\ MaxTries \in Nat \ {0} /\ MaxRequest \in Nat \ {0}
  /\ None \notin Procs /\ None \notin [mode : Modes, keys : Seq(Keys)]

VARIABLES
  insert,       \* the catalog: the insert mode of a registered key, or None
  session,      \* "new" before the store has it, "open", "closed" for ever
  activeOrder, activeSet,
  mu,           \* the holder of the session's mutex, or None
  pc,           \* where a goroutine is; "idle" outside of its call
  args,         \* the keys its call names
  mode,         \* the load mode of its call
  todo,         \* the keys it still has to ask the catalog about
  next,         \* nextOrder of ActivateKeys
  missing,      \* keys the catalog did not have
  tries,        \* rounds of ActivateKeys begun
  stale         \* stateVersion has moved since the snapshot

listVars == <<activeOrder, activeSet>>
vars == <<insert, session, activeOrder, activeSet, mu,
          pc, args, mode, todo, next, missing, tries, stale>>

Requests == UNION {[1 .. n -> Keys] : n \in 1 .. MaxRequest}

Init ==
  /\ insert = [k \in Keys |-> None]
  /\ session = "new"
  /\ activeOrder = <<>>
  /\ activeSet = {}
  /\ mu = None
  /\ pc = [p \in Procs |-> "idle"]
  /\ args = [p \in Procs |-> <<>>]
  /\ mode = [p \in Procs |-> "replace"]
  /\ todo = [p \in Procs |-> <<>>]
  /\ next = [p \in Procs |-> <<>>]
  /\ missing = [p \in Procs |-> {}]
  /\ tries = [p \in Procs |-> 0]
  /\ stale = [p \in Procs |-> FALSE]

----------------------------------------------------------------------------
(* Helpers *)

Registered(k) == insert[k] # None

Open == session = "open"

\* The keys of a request without its repetitions: each at its first place.
Distinct(ks) ==
  Selection(ks, {i \in DOMAIN ks : \A j \in 1 .. i - 1 : ks[j] # ks[i]})

\* Mutant: a key that is active already stays where it is as well.
NextOrderKeepingRequested(order, ks, m) ==
  (IF m = "add" THEN order ELSE <<>>) \o Distinct(ks)

\* Requested keys move to the end; "replace" drops the others.
NextOrder(order, ks, m) ==
  (IF m = "add" THEN Without(order, Range(ks)) ELSE <<>>) \o Distinct(ks)

\* Mutant: one skill too many is let through.
TooManyOffByOne(s) == MaxActive > 0 /\ Len(s) > MaxActive + 1

TooMany(s) == MaxActive > 0 /\ Len(s) > MaxActive

\* stateVersion++: whoever holds a snapshot has an old one now.
Bump == stale' = [q \in Procs |->
                    stale[q] \/ pc[q] \in {"ensure", "recheck", "commit"}]

Return(p) ==
  /\ pc' = [pc EXCEPT ![p] = "idle"]
  /\ args' = [args EXCEPT ![p] = <<>>]
  /\ mode' = [mode EXCEPT ![p] = "replace"]
  /\ todo' = [todo EXCEPT ![p] = <<>>]
  /\ next' = [next EXCEPT ![p] = <<>>]
  /\ missing' = [missing EXCEPT ![p] = {}]
  /\ tries' = [tries EXCEPT ![p] = 0]

Goto(p, where, keys) ==
  /\ pc' = [pc EXCEPT ![p] = where]
  /\ todo' = [todo EXCEPT ![p] = keys]

\* Done with the first key of todo; after the last one p is at `where'.
Advance(p, where) ==
  Goto(p, IF Len(todo[p]) = 1 THEN where ELSE pc[p], Tail(todo[p]))

Enter(p, where, ks, m) ==
  /\ pc[p] = "idle"
  /\ Open
  /\ Goto(p, where, ks)
  /\ args' = [args EXCEPT ![p] = ks]
  /\ mode' = [mode EXCEPT ![p] = m]
  /\ UNCHANGED <<insert, session, listVars, mu, next, missing, tries, stale>>

----------------------------------------------------------------------------
(* ActivateKeys *)

StartLoad(p, ks, m) == Enter(p, "validate", ks, m)

\* Each requested key has to be there, and to be an instructions skill.
Activatable(k) == insert[k] = "instructions"

Validate(p) ==
  /\ pc[p] = "validate"
  /\ \/ /\ Activatable(Head(todo[p]))
        /\ Advance(p, "snapshot")
        /\ UNCHANGED <<args, mode, next, missing, tries>>
     \/ /\ ~ Activatable(Head(todo[p]))
        /\ Return(p)
  /\ UNCHANGED <<insert, session, listVars, mu, stale>>

Snapshot(p) ==
  /\ pc[p] = "snapshot"
  /\ mu = None
  /\ LET wanted == NextOrder(activeOrder, args[p], mode[p])
     IN  \/ /\ Open
            /\ ~ TooMany(wanted)
            /\ Goto(p, "ensure", wanted)
            /\ next' = [next EXCEPT ![p] = wanted]
            /\ tries' = [tries EXCEPT ![p] = @ + 1]
            /\ UNCHANGED <<args, mode, missing>>
         \/ /\ ~ Open \/ TooMany(wanted)
            /\ Return(p)
  /\ stale' = [stale EXCEPT ![p] = FALSE]
  /\ UNCHANGED <<insert, session, listVars, mu>>

(***************************************************************************)
(* EnsureBody of the next key, at the moment its last lookup finds the     *)
(* entry.  It can also fail: the skill is gone, its body does not load, or *)
(* the context is done.                                                    *)
(***************************************************************************)
Ensure(p) ==
  /\ pc[p] = "ensure"
  /\ \/ /\ Registered(Head(todo[p]))
        /\ pc' = [pc EXCEPT ![p] = IF Len(todo[p]) = 1 THEN "recheck" ELSE @]
        /\ todo' = [todo EXCEPT ![p] =
                      IF Len(todo[p]) = 1 THEN next[p] ELSE Tail(@)]
        /\ UNCHANGED <<args, mode, next, missing, tries>>
     \/ Return(p)
  /\ UNCHANGED <<insert, session, listVars, mu, stale>>

\* Existence, and nothing more, is looked up once again before the commit.
Recheck(p) ==
  /\ pc[p] = "recheck"
  /\ \/ /\ Registered(Head(todo[p]))
        /\ Advance(p, "commit")
        /\ UNCHANGED <<args, mode, next, missing, tries>>
     \/ /\ ~ Registered(Head(todo[p]))
        /\ Return(p)
  /\ UNCHANGED <<insert, session, listVars, mu, stale>>

\* Mutant: the version is not compared before the commit.
ConflictOverlooked(p) == FALSE

Conflict(p) == stale[p]

\* Mutant: one round too many.
RoundLeftOffByOne(p) == tries[p] <= MaxTries

RoundLeft(p) == tries[p] < MaxTries

Commit(p) ==
  /\ pc[p] = "commit"
  /\ mu = None
  /\ \/ /\ Open
        /\ ~ Conflict(p)
        /\ activeOrder' = next[p]
        /\ activeSet' = Range(next[p])
        /\ Bump
        /\ mu' = p
        /\ Goto(p, "handles", next[p])
        /\ UNCHANGED <<args, mode, next, missing, tries>>
     \/ /\ Open
        /\ Conflict(p)
        /\ RoundLeft(p)
        /\ Goto(p, "snapshot", <<>>)
        /\ next' = [next EXCEPT ![p] = <<>>]
        /\ UNCHANGED <<args, mode, missing, tries, listVars, mu, stale>>
     \/ /\ ~ Open \/ (Conflict(p) /\ ~ RoundLeft(p))
        /\ Return(p)
        /\ UNCHANGED <<listVars, mu, stale>>
  /\ UNCHANGED <<insert, session>>

----------------------------------------------------------------------------
(* activeHandlesLocked, with the mutex held *)

\* Mutant: handles that cannot be found are left out of the answer only.
NoticeNothing(p) == UNCHANGED missing

NoticeMissing(p) ==
  missing' = [missing EXCEPT ![p] = IF Registered(Head(todo[p])) THEN @
                                    ELSE @ \cup {Head(todo[p])}]

ReadHandle(p) ==
  /\ pc[p] = "handles"
  /\ todo[p] # <<>>
  /\ NoticeMissing(p)
  /\ todo' = [todo EXCEPT ![p] = Tail(@)]
  /\ UNCHANGED <<insert, session, listVars, mu, pc, args, mode, next, tries,
                 stale>>

\* Mutant: an early return, without the unlock, when handles were missing.
UnlockUnlessMissing(p) == mu' = IF missing[p] = {} THEN None ELSE mu

Unlock(p) == mu' = None

ReleaseHandles(p) ==
  /\ pc[p] = "handles"
  /\ todo[p] = <<>>
  /\ \/ /\ missing[p] # {}
        /\ activeSet' = activeSet \ missing[p]
        /\ activeOrder' = Without(activeOrder, missing[p])
        /\ Bump
     \/ /\ missing[p] = {}
        /\ UNCHANGED <<listVars, stale>>
  /\ Unlock(p)
  /\ Return(p)
  /\ UNCHANGED <<insert, session>>

----------------------------------------------------------------------------
(* skills-unload *)

StartUnload(p, ks) == Enter(p, "resolve", ks, "replace")

\* Resolving a handle: it has to lead to a registered key.
Resolve(p) ==
  /\ pc[p] = "resolve"
  /\ \/ /\ Registered(Head(todo[p]))
        /\ Advance(p, "filter")
        /\ UNCHANGED <<args, mode, next, missing, tries>>
     \/ /\ ~ Registered(Head(todo[p]))
        /\ Return(p)
  /\ UNCHANGED <<insert, session, listVars, mu, stale>>

\* The session may have been closed since the call began: nobody asks.
Filter(p) ==
  /\ pc[p] = "filter"
  /\ mu = None
  /\ activeSet' = activeSet \ Range(args[p])
  /\ activeOrder' = Selection(activeOrder,
                            {i \in DOMAIN activeOrder :
                               activeOrder[i] \in activeSet'})
  /\ Bump
  /\ mu' = p
  /\ Goto(p, "handles", activeOrder')
  /\ UNCHANGED <<insert, session, args, mode, next, missing, tries>>

StartUnloadAll(p) == Enter(p, "clear", <<>>, "replace")

\* The handles of the empty list need no call of the catalog.
Clear(p) ==
  /\ pc[p] = "clear"
  /\ mu = None
  /\ activeSet' = {}
  /\ activeOrder' = <<>>
  /\ Bump
  /\ Return(p)
  /\ UNCHANGED <<insert, session, mu>>

----------------------------------------------------------------------------
(* ActiveKeys *)

StartList(p) == Enter(p, "copy", <<>>, "replace")

Copy(p) ==
  /\ pc[p] = "copy"
  /\ mu = None
  /\ \/ /\ activeOrder # <<>>
        /\ Goto(p, "look", activeOrder)
        /\ UNCHANGED <<args, mode, next, missing, tries>>
     \/ /\ activeOrder = <<>>
        /\ Return(p)
  /\ UNCHANGED <<insert, session, listVars, mu, stale>>

LookUp(p) ==
  /\ pc[p] = "look"
  /\ NoticeMissing(p)
  /\ Advance(p, "prune")
  /\ UNCHANGED <<insert, session, listVars, mu, args, mode, next, tries, stale>>

\* pruneKeys, which looks at closed under the lock.
PruneMissing(p) ==
  /\ pc[p] = "prune"
  /\ mu = None
  /\ \/ /\ Open
        /\ activeSet \cap missing[p] # {}
        /\ activeSet' = activeSet \ missing[p]
        /\ activeOrder' = Without(activeOrder, missing[p])
        /\ Bump
     \/ /\ ~ Open \/ activeSet \cap missing[p] = {}
        /\ UNCHANGED <<listVars, stale>>
  /\ Return(p)
  /\ UNCHANGED <<insert, session, mu>>

----------------------------------------------------------------------------
(* The host: the catalog, and pruning after a removal *)

AddSkill(k, ins) ==
  /\ ~ Registered(k)
  /\ insert' = [insert EXCEPT ![k] = ins]
  /\ UNCHANGED <<session, listVars, mu, pc, args, mode, todo, next, missing,
                 tries, stale>>

RemoveSkill(p, k) ==
  /\ pc[p] = "idle"
  /\ Registered(k)
  /\ insert' = [insert EXCEPT ![k] = None]
  /\ pc' = [pc EXCEPT ![p] = "collect"]
  /\ args' = [args EXCEPT ![p] = <<k>>]
  /\ UNCHANGED <<session, listVars, mu, mode, todo, next, missing, tries,
                 stale>>

\* PruneSkill lists the sessions that are open, under the store's lock.
Collect(p) ==
  /\ pc[p] = "collect"
  /\ \/ /\ Open
        /\ pc' = [pc EXCEPT ![p] = "pruneKey"]
        /\ UNCHANGED <<args, mode, todo, next, missing, tries>>
     \/ /\ ~ Open
        /\ Return(p)
  /\ UNCHANGED <<insert, session, listVars, mu, stale>>

\* pruneKey looks at closed before it takes the lock, and then no more.
SkipClosed(p) ==
  /\ pc[p] = "pruneKey"
  /\ ~ Open
  /\ Return(p)
  /\ UNCHANGED <<insert, session, listVars, mu, stale>>

PruneKey(p) ==
  /\ pc[p] = "pruneKey"
  /\ mu = None
  /\ \/ /\ args[p][1] \in activeSet
        /\ activeSet' = activeSet \ Range(args[p])
        /\ activeOrder' = Without(activeOrder, Range(args[p]))
        /\ Bump
     \/ /\ args[p][1] \notin activeSet
        /\ UNCHANGED <<listVars, stale>>
  /\ Return(p)
  /\ UNCHANGED <<insert, session, mu>>

----------------------------------------------------------------------------
(* The store: the session enters it, and is evicted or deleted *)

OpenSession ==
  /\ session = "new"
  /\ session' = "open"
  /\ UNCHANGED <<insert, listVars, mu, pc, args, mode, todo, next, missing,
                 tries, stale>>

CloseSession ==
  /\ session = "open"
  /\ session' = "closed"
  /\ UNCHANGED <<insert, listVars, mu, pc, args, mode, todo, next, missing,
                 tries, stale>>

----------------------------------------------------------------------------

\* The steps a goroutine takes by itself once its call has begun.
Step(p) ==
  \/ Validate(p) \/ Snapshot(p) \/ Ensure(p) \/ Recheck(p) \/ Commit(p)
  \/ ReadHandle(p) \/ ReleaseHandles(p)
  \/ Resolve(p) \/ Filter(p) \/ Clear(p)
  \/ Copy(p) \/ LookUp(p) \/ PruneMissing(p)
  \/ Collect(p) \/ SkipClosed(p) \/ PruneKey(p)

Start ==
  \/ \E p \in Loaders, ks \in Requests, m \in Modes : StartLoad(p, ks, m)
  \/ \E p \in Unloaders, ks \in Requests : StartUnload(p, ks)
  \/ \E p \in Unloaders : StartUnloadAll(p)
  \/ \E p \in Listers : StartList(p)
  \/ \E p \in Hosts, k \in Keys : RemoveSkill(p, k)

Next ==
  \/ Start
  \/ \E p \in Procs : Step(p)
  \/ \E k \in Keys, ins \in Inserts : AddSkill(k, ins)
  \/ OpenSession
  \/ CloseSession

Spec == Init /\ [][Next]_vars

\* Goroutines that can go on do, and so does one that waits for the mutex:
\* Go's mutexes hand the lock to a waiter starved for a millisecond.
FairSpec == Spec /\ \A p \in Procs : SF_vars(Step(p))

----------------------------------------------------------------------------
(* Properties *)

Places == {"idle",
           "validate", "snapshot", "ensure", "recheck", "commit", "handles",
           "resolve", "filter", "clear",
           "copy", "look", "prune",
           "collect", "pruneKey"}

\* What every variable holds, and that the mutex is held exactly by the
\* goroutine that reads handles (session.go:235-236).
TypeOK ==
  /\ insert \in [Keys -> Inserts \cup {None}]
  /\ session \in {"new", "open", "closed"}
  /\ activeOrder \in Seq(Keys)
  /\ activeSet \in SUBSET Keys
  /\ mu \in Procs \cup {None}
  /\ pc \in [Procs -> Places]
  /\ args \in [Procs -> Seq(Keys)]
  /\ mode \in [Procs -> Modes]
  /\ todo \in [Procs -> Seq(Keys)]
  /\ next \in [Procs -> Seq(Keys)]
  /\ missing \in [Procs -> SUBSET Keys]
  /\ tries \in [Procs -> 0 .. MaxTries]
  /\ stale \in [Procs -> BOOLEAN]
  /\ \A p \in Procs : mu = p <=> pc[p] = "handles"

\* activeOrder lists activeSet, each key once, after any mix of loads,
\* unloads, prunings and lookups (session.go:230-233, 258-267, 294-309).
ListAndSetAgree ==
  /\ Range(activeOrder) = activeSet
  /\ IsInjective(activeOrder)

\* Loads that each fit the limit never exceed it together (session.go:196).
WithinLimit == MaxActive > 0 => Len(activeOrder) <= MaxActive

PrunePending(k) ==
  \E h \in Hosts : pc[h] \in {"collect", "pruneKey"} /\ args[h][1] = k

\* A skill removed from the catalog does not stay active: while the session
\* is open, an active key without an entry is about to be pruned, by the
\* host that removed it or by the load that holds the mutex.  This is why
\* the commit looks every handle up with the mutex held (session.go:235).
NoDanglingActive ==
  \A k \in activeSet : Open =>
    \/ Registered(k)
    \/ PrunePending(k)
    \/ mu # None /\ k \in Range(todo[mu]) \cup missing[mu]

Loading == {"validate", "snapshot", "ensure", "recheck", "commit"}

Asked == [p \in Loaders |-> IF pc[p] \in Loading
                            THEN [mode |-> mode[p], keys |-> args[p]] ELSE None]

\* The session implements ActiveList: a commit is its load taking effect on
\* the list as it is, although the list was copied, and the next one
\* computed, long before and without the mutex (session.go:148-238).
ActiveListSpec == INSTANCE ActiveList WITH
  Clients <- Loaders,
  active <- activeOrder, ask <- Asked

ImplementsActiveList == ActiveListSpec!Spec

\* Every call returns: the retries of a load are bounded and no goroutine
\* waits for the mutex for ever (session.go:148, 240).
CallsReturn == \A p \in Procs : pc[p] # "idle" ~> pc[p] = "idle"

\* A removed skill leaves an open session, unless it is registered again
\* (runtime.go:212, 244).
RemovedSkillLeaves ==
  \A k \in Keys :
    (k \in activeSet /\ ~ Registered(k)) ~>
      (k \notin activeSet \/ Registered(k) \/ ~ Open)

\* README.md:81-83 and the error of session.go:139: a user-message skill is
\* never loaded into a session.  (Said of loads that no pruning of the same
\* key is about to undo.)
ActivatesOnlyInstructions ==
  [][\A k \in activeSet' \ activeSet :
       insert[k] = "user-message" => PrunePending(k)]_vars

\* session.go:65: ActiveKeys `prunes keys that no longer exist in the
\* catalog'.  A skill it prunes is not there then, or it was removed and the
\* pruning for that is still to come.
PrunesOnlyMissing ==
  [][\A p \in Listers : (pc[p] = "prune" /\ pc'[p] = "idle") =>
       \A k \in activeSet \ activeSet' : ~ Registered(k) \/ PrunePending(k)]_vars

============================================================================
