---------------------------- MODULE SessionProofs ----------------------------
(***************************************************************************)
(* Proofs about Session, for any number of skills, goroutines and rounds   *)
(* and requests of any length.                                             *)
(***************************************************************************)
EXTENDS Session, SelectionProofs

----------------------------------------------------------------------------
(* Lists *)

\* A key of a request has a first place in it, where session.go:122-145 keeps
\* it.
LEMMA FirstPlace ==
  ASSUME NEW X, NEW s \in Seq(X), NEW k \in Range(s)
  PROVE  \E i \in 1 .. Len(s) : s[i] = k /\ \A j \in 1 .. i - 1 : s[j] # k
<1> DEFINE P == {i \in 1 .. Len(s) : s[i] = k}
<1>1. P \in SUBSET Nat /\ P # {}
  BY DEF Range
<1>2. PICK i \in P : \A j \in P : i <= j
  BY <1>1, LeastNatural
<1>3. \A j \in 1 .. i - 1 : s[j] # k
  BY <1>2
<1> QED BY <1>2, <1>3

\* Dropping repetitions (session.go:122-145) loses no key and leaves none
\* twice.
LEMMA DistinctFacts ==
  ASSUME NEW X, NEW ks \in Seq(X)
  PROVE  /\ Distinct(ks) \in Seq(X)
         /\ Range(Distinct(ks)) = Range(ks)
         /\ IsInjective(Distinct(ks))
<1> DEFINE P == {i \in DOMAIN ks : \A j \in 1 .. i - 1 : ks[j] # ks[i]}
<1>1. DOMAIN ks = 1 .. Len(ks) /\ P \cap (1 .. Len(ks)) = P /\ Len(ks) \in Nat
  OBVIOUS
<1>2. {ks[i] : i \in P} = Range(ks)
  <2>1. {ks[i] : i \in P} \subseteq Range(ks)
    BY DEF Range
  <2>2. ASSUME NEW k \in Range(ks) PROVE \E i \in P : ks[i] = k
    BY <1>1, FirstPlace
  <2> QED BY <2>1, <2>2
<1>3. ASSUME NEW i \in P, NEW j \in P, ks[i] = ks[j] PROVE i = j
  <2>1. i \in 1 .. Len(ks) /\ j \in 1 .. Len(ks)
    BY <1>1
  <2>2. CASE i < j
    <3>1. i \in 1 .. j - 1
      BY <1>1, <2>1, <2>2
    <3> QED BY <1>3, <3>1
  <2>3. CASE j < i
    <3>1. j \in 1 .. i - 1
      BY <1>1, <2>1, <2>3
    <3> QED BY <1>3, <3>1
  <2> QED BY <1>1, <2>1, <2>2, <2>3
<1>4. Distinct(ks) = Selection(ks, P)
  BY DEF Distinct
<1> HIDE DEF P
<1>5. /\ Selection(ks, P) \in Seq(X)
      /\ Range(Selection(ks, P)) = {ks[i] : i \in P \cap (1 .. Len(ks))}
      /\ (\A i, j \in P \cap (1 .. Len(ks)) : ks[i] = ks[j] => i = j)
           => IsInjective(Selection(ks, P))
  BY SelectionFacts
<1> QED BY <1>1, <1>2, <1>3, <1>4, <1>5

\* The list a load computes (session.go:163-194) has no key twice, and it has
\* what was asked for.
LEMMA NextOrderFacts ==
  ASSUME NEW s \in Seq(Keys), IsInjective(s), NEW ks \in Seq(Keys), NEW md
  PROVE  /\ NextOrder(s, ks, md) \in Seq(Keys)
         /\ IsInjective(NextOrder(s, ks, md))
         /\ ks # <<>> => NextOrder(s, ks, md) # <<>>
<1> DEFINE w == IF md = "add" THEN Without(s, Range(ks)) ELSE <<>>
           d == Distinct(ks)
<1>1. NextOrder(s, ks, md) = w \o d
  BY DEF NextOrder
<1>2. w \in Seq(Keys) /\ IsInjective(w) /\ Range(w) \cap Range(ks) = {}
  <2>1. CASE md = "add"
    BY <2>1, WithoutFacts
  <2>2. CASE md # "add"
    BY <2>2 DEF IsInjective, Range
  <2> QED BY <2>1, <2>2
<1>3. d \in Seq(Keys) /\ IsInjective(d) /\ Range(d) = Range(ks)
  BY DistinctFacts
<1> HIDE DEF w, d
<1>4. w \o d \in Seq(Keys) /\ IsInjective(w \o d)
      /\ Range(w \o d) = Range(w) \cup Range(d)
  BY <1>2, <1>3, ConcatFacts
<1>5. ASSUME ks # <<>> PROVE w \o d # <<>>
  <2>1. ks[1] \in Range(w \o d)
    <3>1. 1 \in DOMAIN ks
      BY <1>5
    <3>2. ks[1] \in Range(ks)
      BY <3>1 DEF Range
    <3> QED BY <1>3, <1>4, <3>2
  <2> QED BY <2>1 DEF Range
<1> QED BY <1>1, <1>4, <1>5

----------------------------------------------------------------------------
(* Calls *)

Checked == {"ensure", "recheck", "commit"}

\* What a goroutine knows where it is: it has keys to go on with, and a load
\* that is past its snapshot has a list that may be committed.
CallInv ==
  \A p \in Procs :
    /\ pc[p] \in Loading \cup {"resolve", "collect", "pruneKey"} =>
         args[p] # <<>>
    /\ pc[p] \in {"validate", "ensure", "recheck", "resolve", "look"} =>
         todo[p] # <<>>
    /\ pc[p] \in Checked =>
         next[p] # <<>> /\ IsInjective(next[p]) /\ ~ TooMany(next[p])
    /\ pc[p] \in {"idle", "validate"} => tries[p] = 0
    /\ pc[p] = "snapshot" => tries[p] < MaxTries

\* A request names at least one key (session.go:118).
LEMMA RequestFacts == \A ks \in Requests : ks \in Seq(Keys) /\ ks # <<>>
BY SessionAssumption DEF Requests

\* Going through a list key by key (session.go:206, 213, 247): what is left.
LEMMA TailFacts ==
  ASSUME NEW s \in Seq(Keys), s # <<>>
  PROVE  /\ Head(s) \in Keys /\ Tail(s) \in Seq(Keys)
         /\ Len(s) # 1 => Tail(s) # <<>>
         /\ Range(s) = {Head(s)} \cup Range(Tail(s))
<1>1. Len(s) \in Nat /\ Len(s) >= 1 /\ DOMAIN s = 1 .. Len(s)
  OBVIOUS
<1>2. Head(s) = s[1] /\ Head(s) \in Keys
  BY <1>1
<1>3. Tail(s) \in Seq(Keys) /\ Len(Tail(s)) = Len(s) - 1
  BY <1>1
<1>4. \A i \in 1 .. Len(s) - 1 : Tail(s)[i] = s[i + 1]
  BY <1>1
<1>5. DOMAIN Tail(s) = 1 .. Len(s) - 1
  BY <1>3
<1>6. ASSUME NEW i \in 1 .. Len(s) PROVE s[i] \in {Head(s)} \cup Range(Tail(s))
  <2>1. CASE i = 1
    BY <1>2, <2>1
  <2>2. CASE i # 1
    <3>1. i - 1 \in 1 .. Len(s) - 1 /\ (i - 1) + 1 = i
      BY <1>1, <2>2
    <3> QED BY <1>4, <1>5, <3>1 DEF Range
  <2> QED BY <2>1, <2>2
<1>7. ASSUME NEW i \in 1 .. Len(s) - 1 PROVE Tail(s)[i] \in Range(s)
  BY <1>1, <1>4 DEF Range
<1>8. Head(s) \in Range(s)
  BY <1>1, <1>2 DEF Range
<1>9. Range(s) = {Head(s)} \cup Range(Tail(s))
  <2>1. Range(s) = {s[i] : i \in 1 .. Len(s)}
    BY <1>1 DEF Range
  <2>2. Range(Tail(s)) = {Tail(s)[i] : i \in 1 .. Len(s) - 1}
    BY <1>5 DEF Range
  <2> QED BY <1>6, <1>7, <1>8, <2>1, <2>2
<1>10. Len(s) # 1 => Tail(s) # <<>>
  BY <1>1, <1>3
<1> QED BY <1>2, <1>3, <1>9, <1>10

\* The step of a call that returns (session.go:97-121) leaves the types of
\* the calls as they are, and nothing of this call.
LEMMA ReturnCalls ==
  ASSUME TypeOK, CallInv, NEW p \in Procs, Return(p), mu' \in Procs \cup {None},
         UNCHANGED <<insert, session>>, activeOrder' \in Seq(Keys),
         activeSet' \in SUBSET Keys, stale' \in [Procs -> BOOLEAN],
         \A q \in Procs : mu' = q <=> (mu = q /\ q # p)
  PROVE  TypeOK' /\ CallInv'
<1>1. ASSUME NEW q \in Procs, q # p
      PROVE  /\ pc'[q] = pc[q] /\ args'[q] = args[q] /\ todo'[q] = todo[q]
             /\ next'[q] = next[q] /\ tries'[q] = tries[q]
  BY <1>1 DEF Return, TypeOK
<1>2. /\ pc'[p] = "idle" /\ args'[p] = <<>> /\ todo'[p] = <<>>
      /\ next'[p] = <<>> /\ tries'[p] = 0
  BY DEF Return, TypeOK
<1>3. TypeOK'
  <2>1. pc' \in [Procs -> Places] /\ mode' \in [Procs -> Modes]
    BY DEF Return, TypeOK, Places, Modes
  <2>2. args' \in [Procs -> Seq(Keys)]
    BY DEF Return, TypeOK
  <2>3. todo' \in [Procs -> Seq(Keys)] /\ next' \in [Procs -> Seq(Keys)]
    BY DEF Return, TypeOK
  <2>4. missing' \in [Procs -> SUBSET Keys] /\ tries' \in [Procs -> 0 .. MaxTries]
    BY SessionAssumption DEF Return, TypeOK
  <2>5. \A q \in Procs : mu' = q <=> pc'[q] = "handles"
    BY <1>1, <1>2 DEF TypeOK
  <2> QED BY <2>1, <2>2, <2>3, <2>4, <2>5 DEF TypeOK
<1>4. CallInv'
  BY <1>1, <1>2 DEF CallInv, Loading, Checked, TooMany
<1> QED BY <1>3, <1>4

\* A call begins (session.go:97-110, tools_impl.go:82-94).
LEMMA EnterCalls ==
  ASSUME TypeOK, CallInv, NEW p \in Procs, NEW ks \in Seq(Keys), NEW md \in Modes,
         NEW where, Enter(p, where, ks, md),
         \/ where \in {"validate", "resolve"} /\ ks # <<>>
         \/ where \in {"clear", "copy"}
  PROVE  TypeOK' /\ CallInv'
<1>1. ASSUME NEW q \in Procs, q # p
      PROVE  /\ pc'[q] = pc[q] /\ args'[q] = args[q] /\ todo'[q] = todo[q]
             /\ next'[q] = next[q] /\ tries'[q] = tries[q]
  BY <1>1 DEF Enter, Goto, TypeOK
<1>2. /\ pc[p] = "idle" /\ pc'[p] = where /\ args'[p] = ks /\ todo'[p] = ks
      /\ next'[p] = next[p] /\ tries'[p] = tries[p]
  BY DEF Enter, Goto, TypeOK
<1>3. TypeOK'
  <2>1. pc' \in [Procs -> Places] /\ mode' \in [Procs -> Modes]
    BY DEF Enter, Goto, TypeOK, Places
  <2>2. args' \in [Procs -> Seq(Keys)] /\ todo' \in [Procs -> Seq(Keys)]
    BY DEF Enter, Goto, TypeOK
  <2>3. \A q \in Procs : mu' = q <=> pc'[q] = "handles"
    BY <1>1, <1>2 DEF Enter, TypeOK
  <2> QED BY <2>1, <2>2, <2>3 DEF Enter, listVars, TypeOK
<1>4. CallInv'
  BY <1>1, <1>2 DEF CallInv, Loading, Checked, TooMany
<1> QED BY <1>3, <1>4

\* A call goes on: what has to be seen of its own state, for the others' is
\* left alone (session.go:122-240).
LEMMA GoOnCalls ==
  ASSUME TypeOK, CallInv, NEW p \in Procs, NEW where \in Places, NEW left \in Seq(Keys),
         Goto(p, where, left), UNCHANGED <<insert, session, args, mode>>,
         next' \in [Procs -> Seq(Keys)],
         tries' \in [Procs -> 0 .. MaxTries],
         \A q \in Procs : q # p => next'[q] = next[q] /\ tries'[q] = tries[q],
         missing' \in [Procs -> SUBSET Keys], stale' \in [Procs -> BOOLEAN],
         activeOrder' \in Seq(Keys), activeSet' \in SUBSET Keys,
         mu' \in Procs \cup {None},
         \A q \in Procs : q # p => (mu' = q <=> mu = q),
         mu' = p <=> where = "handles",
         where \in Loading \cup {"resolve"} => args[p] # <<>>,
         where \notin {"idle", "collect", "pruneKey"},
         where \in {"validate", "ensure", "recheck", "resolve", "look"} => left # <<>>,
         where \in Checked =>
           next'[p] # <<>> /\ IsInjective(next'[p]) /\ ~ TooMany(next'[p]),
         where = "validate" => tries'[p] = 0,
         where = "snapshot" => tries'[p] < MaxTries
  PROVE  TypeOK' /\ CallInv'
<1>1. ASSUME NEW q \in Procs, q # p
      PROVE  pc'[q] = pc[q] /\ todo'[q] = todo[q]
  BY <1>1 DEF Goto, TypeOK
<1>2. pc'[p] = where /\ todo'[p] = left
  BY DEF Goto, TypeOK
<1>3. TypeOK'
  <2>1. pc' \in [Procs -> Places] /\ todo' \in [Procs -> Seq(Keys)]
    BY DEF Goto, TypeOK
  <2>2. \A q \in Procs : mu' = q <=> pc'[q] = "handles"
    BY <1>1, <1>2 DEF TypeOK
  <2> QED BY <2>1, <2>2 DEF TypeOK
<1>4. CallInv'
  BY <1>1, <1>2 DEF CallInv, Loading, Checked, TooMany
<1> QED BY <1>3, <1>4

\* Whoever holds the mutex reads handles; nobody else does (session.go:235).
LEMMA MutexFacts ==
  ASSUME TypeOK, NEW p \in Procs
  PROVE  /\ mu = p <=> pc[p] = "handles"
         /\ p # None
BY SessionAssumption DEF TypeOK

\* A call asks the catalog about the next key of its list (session.go:122,
\* 213, 82, tools_impl.go:109).
LEMMA AdvanceCalls ==
  ASSUME TypeOK, CallInv, NEW p \in Procs, NEW where, Advance(p, where),
         \/ pc[p] = "validate" /\ where = "snapshot"
         \/ pc[p] = "recheck" /\ where = "commit"
         \/ pc[p] = "resolve" /\ where = "filter"
         \/ pc[p] = "look" /\ where = "prune",
         UNCHANGED <<insert, session, listVars, mu, args, mode, next, tries, stale>>,
         missing' \in [Procs -> SUBSET Keys]
  PROVE  TypeOK' /\ CallInv'
<1> USE SessionAssumption
<1>1. todo[p] # <<>> /\ (where # "prune" => args[p] # <<>>)
  BY DEF CallInv, Loading
<1>2. pc[p] = "validate" => tries[p] = 0
  BY DEF CallInv
<1>3. pc[p] = "recheck" =>
        next[p] # <<>> /\ IsInjective(next[p]) /\ ~ TooMany(next[p])
  BY DEF CallInv, Checked
<1>4. Tail(todo[p]) \in Seq(Keys) /\ (Len(todo[p]) # 1 => Tail(todo[p]) # <<>>)
  BY <1>1, TailFacts DEF TypeOK
<1>5. mu # p
  BY MutexFacts
<1>6. /\ stale' \in [Procs -> BOOLEAN] /\ next' = next /\ tries' = tries
      /\ next \in [Procs -> Seq(Keys)] /\ tries \in [Procs -> 0 .. MaxTries]
      /\ activeOrder' \in Seq(Keys) /\ activeSet' \in SUBSET Keys
      /\ mu' \in Procs \cup {None} /\ mu' = mu
  BY DEF TypeOK, listVars
<1>7. 0 < MaxTries
  OBVIOUS
<1>8. CASE Len(todo[p]) = 1
  <2>1. Goto(p, where, Tail(todo[p]))
    BY <1>8 DEF Advance
  <2>2. where \in Places /\ where \notin {"validate", "ensure", "recheck", "resolve", "look"}
        /\ where \notin {"idle", "collect", "pruneKey", "handles"}
        /\ (where \in Loading \cup {"resolve"} => args[p] # <<>>)
    BY <1>1 DEF Places, Loading
  <2>3. where \in Checked => pc[p] = "recheck"
    BY DEF Checked
  <2>4. where = "snapshot" => tries'[p] < MaxTries
    BY <1>2, <1>6, <1>7
  <2> QED BY <1>3, <1>4, <1>5, <1>6, <2>1, <2>2, <2>3, <2>4, GoOnCalls
<1>9. CASE Len(todo[p]) # 1
  <2>1. Goto(p, pc[p], Tail(todo[p]))
    BY <1>9 DEF Advance
  <2>2. pc[p] \in Places /\ pc[p] \notin {"idle", "collect", "pruneKey", "handles", "snapshot"}
        /\ (pc[p] \in Loading \cup {"resolve"} => args[p] # <<>>)
    BY <1>1 DEF Places, Loading
  <2>3. pc[p] \in Checked => pc[p] = "recheck"
    BY DEF Checked
  <2> QED BY <1>2, <1>3, <1>4, <1>5, <1>6, <1>9, <2>1, <2>2, <2>3, GoOnCalls
<1> QED BY <1>8, <1>9

\* Every step keeps the types and what the calls know (session.go:97-327,
\* tools_impl.go:82-149).
LEMMA StepCalls ==
  TypeOK /\ CallInv /\ IsInjective(activeOrder) /\ [Next]_vars => TypeOK' /\ CallInv'
<1> SUFFICES ASSUME TypeOK, CallInv, IsInjective(activeOrder), [Next]_vars
             PROVE  TypeOK' /\ CallInv'
  OBVIOUS
<1> USE SessionAssumption
<1>1. CASE UNCHANGED vars
  BY <1>1 DEF vars, listVars, TypeOK, CallInv, TooMany
<1>2. CASE Start
  <2>1. ASSUME NEW p \in Procs, NEW ks \in Requests, NEW md \in Modes,
               StartLoad(p, ks, md) \/ StartUnload(p, ks)
        PROVE  TypeOK' /\ CallInv'
    BY <2>1, RequestFacts, EnterCalls DEF StartLoad, StartUnload, Modes
  <2>2. ASSUME NEW p \in Procs, StartUnloadAll(p) \/ StartList(p)
        PROVE  TypeOK' /\ CallInv'
    <3>1. <<>> \in Seq(Keys) /\ "replace" \in Modes
      BY DEF Modes
    <3> QED BY <2>2, <3>1, EnterCalls DEF StartUnloadAll, StartList
  <2>3. ASSUME NEW p \in Procs, NEW k \in Keys, RemoveSkill(p, k)
        PROVE  TypeOK' /\ CallInv'
    <3>1. <<k>> \in Seq(Keys) /\ <<k>> # <<>>
      OBVIOUS
    <3>2. /\ pc' \in [Procs -> Places] /\ args' \in [Procs -> Seq(Keys)]
          /\ insert' \in [Keys -> Inserts \cup {None}]
      BY <2>3, <3>1 DEF RemoveSkill, TypeOK, Places
    <3>3. \A q \in Procs : IF q = p THEN pc[q] = "idle" /\ pc'[q] = "collect" /\ args'[q] = <<k>>
                           ELSE pc'[q] = pc[q] /\ args'[q] = args[q]
      BY <2>3 DEF RemoveSkill, TypeOK
    <3>4. \A q \in Procs : mu' = q <=> pc'[q] = "handles"
      BY <2>3, <3>3 DEF RemoveSkill, TypeOK
    <3>5. TypeOK'
      BY <2>3, <3>2, <3>4 DEF RemoveSkill, listVars, TypeOK
    <3>6. CallInv'
      BY <2>3, <3>1, <3>3 DEF RemoveSkill, CallInv, Loading, Checked, TooMany
    <3> QED BY <3>5, <3>6
  <2> QED BY <1>2, <2>1, <2>2, <2>3 DEF Start, Procs, Modes
<1>3. ASSUME NEW k \in Keys, NEW ins \in Inserts, AddSkill(k, ins)
      PROVE  TypeOK' /\ CallInv'
  <2>1. TypeOK'
    BY <1>3 DEF AddSkill, listVars, TypeOK
  <2>2. CallInv'
    BY <1>3 DEF AddSkill, CallInv, TooMany
  <2> QED BY <2>1, <2>2
<1>4. CASE OpenSession \/ CloseSession
  <2>1. TypeOK'
    BY <1>4 DEF OpenSession, CloseSession, listVars, TypeOK
  <2>2. CallInv'
    BY <1>4 DEF OpenSession, CloseSession, CallInv, TooMany
  <2> QED BY <2>1, <2>2
<1>5. ASSUME NEW p \in Procs, Step(p) PROVE TypeOK' /\ CallInv'
  <2>1. ASSUME Return(p), pc[p] # "handles",
               UNCHANGED <<insert, session, listVars, mu>>,
               stale' \in [Procs -> BOOLEAN]
        PROVE  TypeOK' /\ CallInv'
    BY <2>1, MutexFacts, ReturnCalls DEF listVars, TypeOK
  <2>2. /\ stale \in [Procs -> BOOLEAN] /\ [stale EXCEPT ![p] = FALSE] \in [Procs -> BOOLEAN]
        /\ next \in [Procs -> Seq(Keys)] /\ tries \in [Procs -> 0 .. MaxTries]
        /\ missing \in [Procs -> SUBSET Keys]
        /\ activeOrder \in Seq(Keys) /\ activeSet \in SUBSET Keys
        /\ mu \in Procs \cup {None}
        /\ todo[p] \in Seq(Keys) /\ args[p] \in Seq(Keys) /\ next[p] \in Seq(Keys)
    BY DEF TypeOK
  <2>3. Bump => stale' \in [Procs -> BOOLEAN]
    BY DEF Bump, TypeOK
  <2>4. CASE Validate(p)
    <3>1. CASE Activatable(Head(todo[p]))
      BY <2>2, <2>4, <3>1, AdvanceCalls DEF Validate
    <3>2. CASE ~ Activatable(Head(todo[p]))
      BY <2>1, <2>2, <2>4, <3>2 DEF Validate
    <3> QED BY <3>1, <3>2
  <2>5. CASE Recheck(p)
    <3>1. CASE Registered(Head(todo[p]))
      BY <2>2, <2>5, <3>1, AdvanceCalls DEF Recheck
    <3>2. CASE ~ Registered(Head(todo[p]))
      BY <2>1, <2>2, <2>5, <3>2 DEF Recheck
    <3> QED BY <3>1, <3>2
  <2>6. CASE Resolve(p)
    <3>1. CASE Registered(Head(todo[p]))
      BY <2>2, <2>6, <3>1, AdvanceCalls DEF Resolve
    <3>2. CASE ~ Registered(Head(todo[p]))
      BY <2>1, <2>2, <2>6, <3>2 DEF Resolve
    <3> QED BY <3>1, <3>2
  <2>7. (pc[p] \in {"look", "handles"} /\ todo[p] # <<>> /\ NoticeMissing(p)) =>
           missing' \in [Procs -> SUBSET Keys]
    BY <2>2, TailFacts DEF NoticeMissing, TypeOK
  <2>8. CASE LookUp(p)
    <3>1. todo[p] # <<>>
      BY <2>8 DEF LookUp, CallInv
    <3> QED BY <2>7, <2>8, <3>1, AdvanceCalls DEF LookUp
  <2>9. CASE Snapshot(p)
    <3> DEFINE wanted == NextOrder(activeOrder, args[p], mode[p])
    <3>1. args[p] # <<>> /\ tries[p] < MaxTries /\ tries[p] \in 0 .. MaxTries
      BY <2>2, <2>9 DEF Snapshot, CallInv, Loading
    <3>2. wanted \in Seq(Keys) /\ IsInjective(wanted) /\ wanted # <<>>
      BY <2>2, <3>1, NextOrderFacts
    <3> HIDE DEF wanted
    <3>3. CASE Open /\ ~ TooMany(wanted)
      <4>1. /\ Goto(p, "ensure", wanted)
            /\ next' = [next EXCEPT ![p] = wanted]
            /\ tries' = [tries EXCEPT ![p] = tries[p] + 1]
            /\ UNCHANGED <<args, mode, missing, insert, session, listVars, mu>>
            /\ stale' = [stale EXCEPT ![p] = FALSE]
        BY <2>9, <3>3 DEF Snapshot, wanted
      <4>2. next' \in [Procs -> Seq(Keys)] /\ tries' \in [Procs -> 0 .. MaxTries]
            /\ next'[p] = wanted
            /\ \A q \in Procs : q # p => next'[q] = next[q] /\ tries'[q] = tries[q]
        BY <2>2, <3>1, <3>2, <4>1
      <4>3. mu # p
        BY <2>9, MutexFacts DEF Snapshot
      <4> QED BY <2>2, <3>1, <3>2, <3>3, <4>1, <4>2, <4>3, GoOnCalls
              DEF listVars, Places, Loading, Checked, TooMany
    <3>4. CASE ~ (Open /\ ~ TooMany(wanted))
      <4>1. Return(p) /\ stale' \in [Procs -> BOOLEAN]
        BY <2>2, <2>9, <3>4 DEF Snapshot, wanted
      <4> QED BY <2>1, <2>9, <4>1 DEF Snapshot
    <3> QED BY <3>3, <3>4
  <2>10. CASE Ensure(p)
    <3>1. CASE Return(p)
      BY <2>1, <2>2, <2>10, <3>1 DEF Ensure
    <3>2. CASE ~ Return(p)
      <4>1. /\ todo[p] # <<>> /\ args[p] # <<>>
            /\ next[p] # <<>> /\ IsInjective(next[p]) /\ ~ TooMany(next[p])
        BY <2>10 DEF Ensure, CallInv, Loading, Checked
      <4>2. Tail(todo[p]) \in Seq(Keys) /\ (Len(todo[p]) # 1 => Tail(todo[p]) # <<>>)
        BY <2>2, <4>1, TailFacts
      <4>3. mu # p
        BY <2>10, MutexFacts DEF Ensure
      <4>4. UNCHANGED <<insert, session, listVars, mu, stale, args, mode, next, missing, tries>>
        BY <2>10, <3>2 DEF Ensure
      <4>5. CASE Len(todo[p]) = 1
        <5>1. Goto(p, "recheck", next[p])
          BY <2>10, <3>2, <4>5 DEF Ensure, Goto, TypeOK
        <5> QED BY <2>2, <4>1, <4>3, <4>4, <5>1, GoOnCalls
                DEF listVars, Places, Loading, Checked, TooMany
      <4>6. CASE Len(todo[p]) # 1
        <5>1. Goto(p, "ensure", Tail(todo[p]))
          BY <2>10, <3>2, <4>6 DEF Ensure, Goto, TypeOK
        <5> QED BY <2>2, <4>1, <4>2, <4>3, <4>4, <4>6, <5>1, GoOnCalls
                DEF listVars, Places, Loading, Checked, TooMany
      <4> QED BY <4>5, <4>6
    <3> QED BY <3>1, <3>2
  <2>11. \A gone : Without(activeOrder, gone) \in Seq(Keys)
    BY <2>2, WithoutFacts
  <2>12. CASE Commit(p)
    <3>1. /\ args[p] # <<>> /\ Range(next[p]) \subseteq Keys
          /\ next[p] # <<>> /\ IsInjective(next[p]) /\ ~ TooMany(next[p])
      BY <2>2, <2>12 DEF Commit, CallInv, Loading, Checked, Range
    <3>2. mu = None /\ mu # p /\ UNCHANGED <<insert, session>> /\ pc[p] = "commit"
      BY <2>12, MutexFacts DEF Commit
    <3>3. CASE Open /\ ~ Conflict(p)
      <4>1. /\ Goto(p, "handles", next[p])
            /\ mu' = p /\ activeOrder' = next[p] /\ activeSet' = Range(next[p])
            /\ UNCHANGED <<args, mode, next, missing, tries>>
            /\ stale' \in [Procs -> BOOLEAN]
        BY <2>3, <2>12, <3>3 DEF Commit
      <4>2. \A q \in Procs : q # p => (mu' = q <=> mu = q)
        BY <3>2, <4>1, MutexFacts
      <4> QED BY <2>2, <3>1, <3>2, <4>1, <4>2, GoOnCalls
              DEF Places, Loading, Checked
    <3>4. CASE Open /\ Conflict(p) /\ RoundLeft(p)
      <4>1. /\ Goto(p, "snapshot", <<>>)
            /\ next' = [next EXCEPT ![p] = <<>>]
            /\ UNCHANGED <<args, mode, missing, tries, listVars, mu, stale>>
        BY <2>12, <3>4 DEF Commit
      <4>2. /\ next' \in [Procs -> Seq(Keys)]
            /\ \A q \in Procs : q # p => next'[q] = next[q]
        BY <2>2, <4>1
      <4>3. tries'[p] < MaxTries
        BY <3>4, <4>1 DEF RoundLeft
      <4>4. <<>> \in Seq(Keys)
        OBVIOUS
      <4> QED BY <2>2, <3>1, <3>2, <4>1, <4>2, <4>3, <4>4, GoOnCalls
              DEF listVars, Places, Loading, Checked
    <3>5. CASE ~ Open \/ (Conflict(p) /\ ~ RoundLeft(p))
      <4>1. Return(p) /\ UNCHANGED <<listVars, mu, stale>>
        BY <2>12, <3>5 DEF Commit
      <4> QED BY <2>1, <2>2, <3>2, <4>1
    <3> QED BY <3>3, <3>4, <3>5
  <2>13. CASE ReadHandle(p)
    <3>1. /\ missing' \in [Procs -> SUBSET Keys] /\ Tail(todo[p]) \in Seq(Keys)
      BY <2>2, <2>7, <2>13, TailFacts DEF ReadHandle
    <3>2. mu = p
      BY <2>13, MutexFacts DEF ReadHandle
    <3>3. Goto(p, "handles", Tail(todo[p]))
      BY <2>13 DEF ReadHandle, Goto, TypeOK
    <3>4. UNCHANGED <<insert, session, listVars, mu, args, mode, next, tries, stale>>
      BY <2>13 DEF ReadHandle
    <3> QED BY <2>2, <3>1, <3>2, <3>3, <3>4, GoOnCalls
            DEF listVars, Places, Loading, Checked
  <2>14. CASE ReleaseHandles(p)
    <3>1. /\ mu = p /\ mu' = None /\ Return(p) /\ UNCHANGED <<insert, session>>
      BY <2>14, MutexFacts DEF ReleaseHandles, Unlock
    <3>2. /\ activeOrder' \in Seq(Keys) /\ activeSet' \in SUBSET Keys
          /\ stale' \in [Procs -> BOOLEAN]
      BY <2>2, <2>3, <2>11, <2>14 DEF ReleaseHandles, listVars
    <3>3. \A q \in Procs : mu' = q <=> (mu = q /\ q # p)
      BY <3>1, MutexFacts
    <3> QED BY <3>1, <3>2, <3>3, ReturnCalls
  <2>15. CASE Filter(p)
    <3>1. /\ mu = None /\ mu # p /\ mu' = p
          /\ UNCHANGED <<insert, session, args, mode, next, missing, tries>>
          /\ Goto(p, "handles", activeOrder') /\ activeSet' \in SUBSET Keys
          /\ stale' \in [Procs -> BOOLEAN]
      BY <2>2, <2>3, <2>15, MutexFacts DEF Filter
    <3>2. activeOrder' \in Seq(Keys)
      BY <2>2, <2>15, SelectionFacts DEF Filter
    <3>3. \A q \in Procs : q # p => (mu' = q <=> mu = q)
      BY <3>1, MutexFacts
    <3> QED BY <2>2, <3>1, <3>2, <3>3, GoOnCalls DEF Places, Loading, Checked
  <2>16. CASE Clear(p)
    <3>1. <<>> \in Seq(Keys) /\ mu # p
      BY <2>16, MutexFacts DEF Clear
    <3>2. \A q \in Procs : mu' = q <=> (mu = q /\ q # p)
      BY <2>16, <3>1 DEF Clear
    <3> QED BY <2>2, <2>3, <2>16, <3>1, <3>2, ReturnCalls DEF Clear
  <2>17. CASE Copy(p)
    <3>1. mu # p
      BY <2>17, MutexFacts DEF Copy
    <3>2. CASE activeOrder # <<>>
      BY <2>2, <2>17, <3>1, <3>2, GoOnCalls
         DEF Copy, listVars, Places, Loading, Checked
    <3>3. CASE activeOrder = <<>>
      BY <2>1, <2>2, <2>17, <3>3 DEF Copy
    <3> QED BY <3>2, <3>3
  <2>18. CASE PruneMissing(p) \/ PruneKey(p)
    <3>1. mu # p /\ Return(p) /\ UNCHANGED <<insert, session, mu>>
      BY <2>18, MutexFacts DEF PruneMissing, PruneKey
    <3>2. /\ activeOrder' \in Seq(Keys) /\ activeSet' \in SUBSET Keys
          /\ stale' \in [Procs -> BOOLEAN]
      BY <2>2, <2>3, <2>11, <2>18 DEF PruneMissing, PruneKey, listVars
    <3>3. \A q \in Procs : mu' = q <=> (mu = q /\ q # p)
      BY <3>1
    <3> QED BY <2>2, <3>1, <3>2, <3>3, ReturnCalls
  <2>19. CASE Collect(p)
    <3>1. CASE Open
      <4>1. \A q \in Procs : IF q = p THEN pc[q] = "collect" /\ pc'[q] = "pruneKey"
                             ELSE pc'[q] = pc[q]
        BY <2>19, <3>1 DEF Collect, TypeOK
      <4>2. pc' \in [Procs -> Places]
        BY <2>19, <3>1 DEF Collect, TypeOK, Places
      <4>3. UNCHANGED <<insert, session, listVars, mu, stale, args, mode, todo, next, missing, tries>>
        BY <2>19, <3>1 DEF Collect
      <4>4. \A q \in Procs : mu' = q <=> pc'[q] = "handles"
        BY <4>1, <4>3 DEF TypeOK
      <4>5. TypeOK'
        BY <4>2, <4>3, <4>4 DEF listVars, TypeOK
      <4>6. CallInv'
        BY <4>1, <4>3 DEF CallInv, Loading, Checked, TooMany
      <4> QED BY <4>5, <4>6
    <3>2. CASE ~ Open
      BY <2>1, <2>2, <2>19, <3>2 DEF Collect
    <3> QED BY <3>1, <3>2
  <2>20. CASE SkipClosed(p)
    BY <2>1, <2>2, <2>20 DEF SkipClosed
  <2> QED BY <1>5, <2>4, <2>5, <2>6, <2>8, <2>9, <2>10, <2>12, <2>13, <2>14, <2>15,
          <2>16, <2>17, <2>18, <2>19, <2>20 DEF Step
<1> QED BY <1>1, <1>2, <1>3, <1>4, <1>5 DEF Next

----------------------------------------------------------------------------
(* The list *)

Loses(gone) ==
  /\ activeOrder' = Without(activeOrder, gone)
  /\ activeSet' = activeSet \ gone
  /\ Bump

\* The three things a step can do to the list: nothing, a commit
\* (session.go:219-233), or taking keys out of it (session.go:258-267,
\* 294-309, 318-326, tools_impl.go:94-149).
LEMMA ListSteps ==
  ASSUME TypeOK, ListAndSetAgree, [Next]_vars
  PROVE  \/ UNCHANGED listVars
         \/ \E p \in Procs : Commit(p) /\ Open /\ ~ Conflict(p)
         \/ \E p \in Procs, gone \in SUBSET Keys :
              /\ Step(p) /\ pc[p] \notin Loading /\ pc'[p] \notin Loading
              /\ Loses(gone)
<1>1. CASE \E p \in Procs : Step(p)
  <2>1. PICK p \in Procs : Step(p)
    BY <1>1
  <2>2. CASE \/ Validate(p) \/ Snapshot(p) \/ Ensure(p) \/ Recheck(p) \/ ReadHandle(p)
             \/ Resolve(p) \/ Copy(p) \/ LookUp(p) \/ Collect(p) \/ SkipClosed(p)
    BY <2>2 DEF Validate, Snapshot, Ensure, Recheck, ReadHandle, Resolve, Copy,
                LookUp, Collect, SkipClosed, listVars
  <2>3. CASE Commit(p)
    BY <2>3 DEF Commit
  <2>r. Return(p) => pc'[p] = "idle"
    BY DEF Return, TypeOK
  <2>m. missing[p] \in SUBSET Keys /\ Range(args[p]) \in SUBSET Keys
    <3>1. args[p] \in Seq(Keys)
      BY DEF TypeOK
    <3> QED BY <3>1 DEF TypeOK, Range
  <2>4. CASE ReleaseHandles(p)
    BY <2>1, <2>4, <2>r, <2>m DEF ReleaseHandles, Loses, Loading
  <2>5. CASE Filter(p)
    <3>1. {i \in DOMAIN activeOrder : activeOrder[i] \in activeSet'}
             = {i \in DOMAIN activeOrder : activeOrder[i] \notin Range(args[p])}
      BY <2>5 DEF Filter, ListAndSetAgree, Range
    <3>2. pc'[p] = "handles" /\ pc[p] = "filter"
      BY <2>5 DEF Filter, Goto, TypeOK
    <3> QED BY <2>1, <2>5, <2>m, <3>1, <3>2 DEF Filter, Loses, Without, Loading
  <2>6. CASE Clear(p)
    <3>1. Without(activeOrder, activeSet) = <<>>
      <4>1. /\ Without(activeOrder, activeSet) \in Seq(Keys)
            /\ Range(Without(activeOrder, activeSet)) = {}
        BY WithoutFacts DEF TypeOK, ListAndSetAgree
      <4> DEFINE t == Without(activeOrder, activeSet)
      <4>2. Len(t) \in Nat /\ DOMAIN t = 1 .. Len(t)
        BY <4>1
      <4>3. Len(t) = 0
        <5>1. CASE 1 \in DOMAIN t
          BY <4>1, <5>1 DEF Range
        <5>2. CASE 1 \notin DOMAIN t
          BY <4>2, <5>2
        <5> QED BY <5>1, <5>2
      <4> QED BY <4>1, <4>3
    <3>2. activeSet \in SUBSET Keys
      BY DEF TypeOK
    <3> QED BY <2>1, <2>6, <2>r, <3>1, <3>2 DEF Clear, Loses, Loading
  <2>7. CASE PruneMissing(p) \/ PruneKey(p)
    BY <2>1, <2>7, <2>r, <2>m DEF PruneMissing, PruneKey, Loses, Loading, listVars
  <2> QED BY <2>1, <2>2, <2>3, <2>4, <2>5, <2>6, <2>7 DEF Step
<1>2. CASE ~ \E p \in Procs : Step(p)
  <2>1. Start => UNCHANGED listVars
    BY DEF Start, StartLoad, StartUnload, StartUnloadAll, StartList, RemoveSkill,
           Enter, listVars
  <2> QED BY <1>2, <2>1
          DEF Next, AddSkill, OpenSession, CloseSession, vars, listVars
<1> QED BY <1>1, <1>2

\* The list keeps to the set, to the limit and has no key twice: what a commit
\* installs was computed without the mutex, but from a list that had not
\* changed (session.go:219-238).
LEMMA StepList ==
  TypeOK /\ CallInv /\ ListAndSetAgree /\ WithinLimit /\ [Next]_vars
    => ListAndSetAgree' /\ WithinLimit'
<1> SUFFICES ASSUME TypeOK, CallInv, ListAndSetAgree, WithinLimit, [Next]_vars
             PROVE  ListAndSetAgree' /\ WithinLimit'
  OBVIOUS
<1>1. CASE UNCHANGED listVars
  BY <1>1 DEF listVars, ListAndSetAgree, WithinLimit
<1>2. ASSUME NEW p \in Procs, Commit(p), Open, ~ Conflict(p)
      PROVE  ListAndSetAgree' /\ WithinLimit'
  <2>1. /\ activeOrder' = next[p] /\ activeSet' = Range(next[p])
        /\ next[p] \in Seq(Keys)
        /\ IsInjective(next[p]) /\ ~ TooMany(next[p])
    BY <1>2 DEF Commit, TypeOK, CallInv, Checked
  <2> QED BY <2>1, SessionAssumption DEF ListAndSetAgree, WithinLimit, TooMany
<1>3. ASSUME NEW gone, Loses(gone)
      PROVE  ListAndSetAgree' /\ WithinLimit'
  <2>1. activeOrder \in Seq(Keys)
    BY DEF TypeOK
  <2>2. LET t == Without(activeOrder, gone)
        IN  /\ t \in Seq(Keys) /\ Len(t) <= Len(activeOrder)
            /\ Range(t) = activeSet \ gone /\ IsInjective(t)
    BY <2>1, WithoutFacts DEF ListAndSetAgree
  <2> QED BY <1>3, <2>1, <2>2, SessionAssumption DEF Loses, ListAndSetAgree, WithinLimit
<1> QED BY <1>1, <1>2, <1>3, ListSteps

Inv == TypeOK /\ CallInv /\ ListAndSetAgree /\ WithinLimit

\* The session starts empty and nobody has called it (session.go:34-59).
LEMMA InitInv == Init => Inv
<1> SUFFICES ASSUME Init PROVE Inv
  OBVIOUS
<1> USE SessionAssumption
<1>1. <<>> \in Seq(Keys) /\ "idle" \in Places /\ "replace" \in Modes
  BY DEF Places, Modes
<1>2. insert \in [Keys -> Inserts \cup {None}] /\ mu \in Procs \cup {None}
  BY DEF Init
<1>3. \A p \in Procs : mu = p <=> pc[p] = "handles"
  BY DEF Init
<1>4. TypeOK
  BY <1>1, <1>2, <1>3 DEF Init, TypeOK
<1>5. CallInv
  BY DEF Init, CallInv, Loading, Checked
<1>6. ListAndSetAgree /\ WithinLimit
  BY DEF Init, ListAndSetAgree, WithinLimit, Range, IsInjective
<1> QED BY <1>4, <1>5, <1>6 DEF Inv

\* The invariant of all that follows: of the calls, and of the list with its
\* set and its limit (session.go:34-59, 196-238).
LEMMA AlwaysInv == Spec => []Inv
<1>1. Inv /\ [Next]_vars => Inv'
  BY StepCalls, StepList DEF Inv, ListAndSetAgree
<1> QED BY <1>1, InitInv, PTL DEF Spec

\* Types, the bounded number of rounds (session.go:148), and that the mutex is
\* held by the goroutine that reads handles and by nobody else.
THEOREM SessionTypes == Spec => []TypeOK
BY AlwaysInv, PTL DEF Inv

\* After any mix of loads, unloads, prunings and lookups the list has every
\* active key once (session.go:230-233, 258-267, 294-309).
THEOREM ListAgrees == Spec => []ListAndSetAgree
BY AlwaysInv, PTL DEF Inv

\* Loads that each fit the limit never exceed it together, whatever they race
\* with (session.go:196).
THEOREM LimitHolds == Spec => []WithinLimit
BY AlwaysInv, PTL DEF Inv

----------------------------------------------------------------------------
(* Removed skills *)

\* A step of one call leaves the others alone, and the catalog: goroutines
\* share the session and nothing else (session.go:34-59).
LEMMA OthersAlone ==
  ASSUME TypeOK, NEW p \in Procs, Step(p)
  PROVE  /\ UNCHANGED <<insert, session>>
         /\ \A q \in Procs : q # p =>
              /\ pc'[q] = pc[q] /\ args'[q] = args[q]
              /\ todo'[q] = todo[q] /\ missing'[q] = missing[q]
              /\ mode'[q] = mode[q] /\ next'[q] = next[q]
<1>1. CASE Validate(p) \/ Recheck(p) \/ Resolve(p)
  BY <1>1 DEF Validate, Recheck, Resolve, Advance, Goto, Return, TypeOK
<1>2. CASE Snapshot(p) \/ Ensure(p) \/ Commit(p)
  BY <1>2 DEF Snapshot, Ensure, Commit, Goto, Return, TypeOK
<1>3. CASE ReadHandle(p) \/ ReleaseHandles(p) \/ LookUp(p)
  BY <1>3 DEF ReadHandle, ReleaseHandles, LookUp, NoticeMissing, Advance, Goto, Return,
              TypeOK
<1>4. CASE Filter(p) \/ Clear(p) \/ Copy(p) \/ PruneMissing(p)
  BY <1>4 DEF Filter, Clear, Copy, PruneMissing, Goto, Return, TypeOK
<1>5. CASE Collect(p) \/ SkipClosed(p) \/ PruneKey(p)
  BY <1>5 DEF Collect, SkipClosed, PruneKey, Return, TypeOK
<1> QED BY <1>1, <1>2, <1>3, <1>4, <1>5 DEF Step

NewIsEmpty == session = "new" => activeSet = {}

\* Whoever is to prune a key, or holds the mutex and has not looked it up yet.
Seen(k) == mu # None /\ k \in Range(todo[mu]) \cup missing[mu]

\* A step of a call leaves nobody dangling: a removed key that stays active is
\* still about to be pruned (session.go:235, 258-267, runtime.go:244).
LEMMA StepDangling ==
  ASSUME Inv, NoDanglingActive, NEW p \in Procs, Step(p),
         NEW k \in activeSet', Open
  PROVE  (Registered(k) \/ PrunePending(k) \/ Seen(k))'
<1>0. TypeOK /\ CallInv /\ ListAndSetAgree
  BY DEF Inv
<1>a. /\ insert' = insert /\ Open'
      /\ \A q \in Procs : q # p => /\ pc'[q] = pc[q] /\ args'[q] = args[q]
                                 /\ todo'[q] = todo[q] /\ missing'[q] = missing[q]
  BY <1>0, OthersAlone DEF Open
<1>1. CASE Commit(p) /\ ~ Conflict(p)
  <2>1. /\ mu' = p /\ todo'[p] = next[p] /\ activeSet' = Range(next[p])
    BY <1>0, <1>1 DEF Commit, Goto, TypeOK
  <2> QED BY <1>0, <2>1, MutexFacts DEF Seen
<1>2. CASE ~ (Commit(p) /\ ~ Conflict(p))
  <2>1. k \in activeSet
    <3>1. [Next]_vars
      BY DEF Next
    <3>2. CASE UNCHANGED listVars
      BY <3>2 DEF listVars
    <3>3. CASE \E gone : Loses(gone)
      BY <3>3 DEF Loses
    <3>4. ASSUME NEW q \in Procs, Commit(q), ~ Conflict(q) PROVE k \in activeSet
      <4>1. q # p
        BY <1>2, <3>4
      <4>2. pc'[q] = "handles" /\ pc[q] = "commit"
        BY <1>0, <3>4 DEF Commit, Goto, TypeOK, Open
      <4> QED BY <1>a, <4>1, <4>2
    <3> QED BY <1>0, <3>1, <3>2, <3>3, <3>4, ListSteps
  <2>2. CASE Registered(k)
    BY <1>a, <2>2 DEF Registered
  <2>3. CASE PrunePending(k)
    <3>1. PICK h \in Hosts : pc[h] \in {"collect", "pruneKey"} /\ args[h][1] = k
      BY <2>3 DEF PrunePending
    <3>2. h \in Procs
      BY DEF Procs
    <3>3. CASE h # p
      BY <1>a, <3>1, <3>2, <3>3 DEF PrunePending
    <3>4. CASE h = p /\ pc[p] = "collect"
      <4>1. Collect(p)
        BY <3>4 DEF Step, Validate, Snapshot, Ensure, Recheck, Commit, ReadHandle,
                    ReleaseHandles, Resolve, Filter, Clear, Copy, LookUp,
                    PruneMissing, SkipClosed, PruneKey
      <4>2. pc'[p] = "pruneKey" /\ args' = args
        BY <1>0, <4>1 DEF Collect, TypeOK
      <4> QED BY <3>1, <3>4, <4>2 DEF PrunePending
    <3>5. CASE h = p /\ pc[p] = "pruneKey"
      <4>1. PruneKey(p)
        BY <3>5 DEF Step, Validate, Snapshot, Ensure, Recheck, Commit, ReadHandle,
                    ReleaseHandles, Resolve, Filter, Clear, Copy, LookUp,
                    PruneMissing, SkipClosed, Collect
      <4>2. args[p] \in Seq(Keys) /\ args[p] # <<>>
        BY <1>0, <3>5 DEF TypeOK, CallInv
      <4>3. k \in Range(args[p])
        BY <3>1, <3>5, <4>2 DEF Range
      <4> QED BY <2>1, <3>1, <3>5, <4>1, <4>3 DEF PruneKey, listVars
    <3> QED BY <3>1, <3>3, <3>4, <3>5
  <2>4. CASE Seen(k)
    <3>1. mu \in Procs /\ pc[mu] = "handles"
      BY <1>0, <2>4, MutexFacts DEF Seen, TypeOK
    <3>2. CASE mu # p
      <4>1. pc'[mu] = "handles" /\ todo'[mu] = todo[mu] /\ missing'[mu] = missing[mu]
        BY <1>a, <3>1, <3>2
      <4>2. mu' = mu
        BY <1>0, <3>1, <3>2, MutexFacts
           DEF Step, Validate, Snapshot, Ensure, Recheck, Commit, ReadHandle,
               ReleaseHandles, Resolve, Filter, Clear, Copy, LookUp,
               PruneMissing, SkipClosed, Collect, PruneKey
      <4> QED BY <2>4, <4>1, <4>2 DEF Seen
    <3>3. CASE mu = p
      <4>1. ReadHandle(p) \/ ReleaseHandles(p)
        BY <3>1, <3>3 DEF Step, Validate, Snapshot, Ensure, Recheck, Commit,
                    Resolve, Filter, Clear, Copy, LookUp,
                    PruneMissing, SkipClosed, Collect, PruneKey
      <4>2. CASE ReadHandle(p)
        <5>1. todo[p] \in Seq(Keys) /\ todo[p] # <<>>
          BY <1>0, <4>2 DEF ReadHandle, TypeOK
        <5>2. todo'[p] = Tail(todo[p]) /\ mu' = mu
          BY <1>0, <4>2 DEF ReadHandle, TypeOK
        <5>3. missing'[p] = IF Registered(Head(todo[p])) THEN missing[p]
                            ELSE missing[p] \cup {Head(todo[p])}
          BY <1>0, <4>2 DEF ReadHandle, NoticeMissing, TypeOK
        <5>4. Range(todo[p]) = {Head(todo[p])} \cup Range(Tail(todo[p]))
          BY <5>1, TailFacts
        <5>5. CASE k = Head(todo[p]) /\ Registered(k)
          BY <1>a, <5>5 DEF Registered
        <5>6. CASE ~ (k = Head(todo[p]) /\ Registered(k))
          <6>1. k \in Range(Tail(todo[p])) \cup missing'[p]
            BY <2>4, <3>3, <5>3, <5>4, <5>6 DEF Seen
          <6> QED BY <2>4, <3>3, <5>2, <6>1 DEF Seen
        <5> QED BY <5>5, <5>6
      <4>3. CASE ReleaseHandles(p)
        <5>1. todo[p] = <<>> /\ k \in missing[p]
          BY <2>4, <3>3, <4>3 DEF ReleaseHandles, Seen, Range
        <5> QED BY <4>3, <5>1 DEF ReleaseHandles
      <4> QED BY <4>1, <4>2, <4>3
    <3> QED BY <3>2, <3>3
  <2> QED BY <2>1, <2>2, <2>3, <2>4 DEF NoDanglingActive, Seen
<1> QED BY <1>1, <1>2

\* Neither does any other step: the host that removes a skill is about to
\* prune it (runtime.go:212-246).
LEMMA StepNoDangling ==
  Inv /\ NoDanglingActive /\ NewIsEmpty /\ [Next]_vars
    => NoDanglingActive' /\ NewIsEmpty'
<1> SUFFICES ASSUME Inv, NoDanglingActive, NewIsEmpty, [Next]_vars
             PROVE  NoDanglingActive' /\ NewIsEmpty'
  OBVIOUS
<1>0. TypeOK /\ ListAndSetAgree
  BY DEF Inv
<1>1. CASE UNCHANGED vars
  BY <1>1 DEF vars, listVars, NoDanglingActive, NewIsEmpty, Registered, PrunePending, Open
<1>2. ASSUME NEW p \in Procs, Step(p) PROVE NoDanglingActive' /\ NewIsEmpty'
  <2>1. UNCHANGED <<insert, session>>
    BY <1>0, <1>2, OthersAlone
  <2>2. NoDanglingActive'
    BY <1>2, <2>1, StepDangling DEF NoDanglingActive, Seen, Open
  <2>3. session # "open" => activeSet' \subseteq activeSet
    BY <1>0, ListSteps DEF Open, Loses, listVars
  <2> QED BY <2>1, <2>2, <2>3 DEF NewIsEmpty
<1>3. CASE Start
  <2>1. ASSUME NEW p \in Procs, NEW where, NEW ks, NEW md, Enter(p, where, ks, md),
               where \notin {"collect", "pruneKey"}
        PROVE  NoDanglingActive' /\ NewIsEmpty'
    <3>1. \A q \in Procs : q # p => /\ pc'[q] = pc[q] /\ args'[q] = args[q]
                                  /\ todo'[q] = todo[q] /\ missing'[q] = missing[q]
      BY <1>0, <2>1 DEF Enter, Goto, TypeOK
    <3>2. pc[p] = "idle" /\ UNCHANGED <<insert, session, listVars, mu>>
      BY <2>1 DEF Enter
    <3>3. mu # p
      BY <1>0, <3>2, MutexFacts
    <3>4. mu # None => todo'[mu] = todo[mu] /\ missing'[mu] = missing[mu]
      BY <1>0, <3>1, <3>3 DEF TypeOK
    <3>5. \A k : PrunePending(k) => PrunePending(k)'
      BY <3>1, <3>2 DEF PrunePending, Procs
    <3> QED BY <3>2, <3>4, <3>5 DEF NoDanglingActive, NewIsEmpty, Registered, Open, listVars
  <2>2. ASSUME NEW h \in Hosts, NEW k \in Keys, RemoveSkill(h, k)
        PROVE  NoDanglingActive' /\ NewIsEmpty'
    <3>1. \A q \in Procs : IF q = h THEN pc[q] = "idle" /\ pc'[q] = "collect" /\ args'[q] = <<k>>
                           ELSE pc'[q] = pc[q] /\ args'[q] = args[q]
      BY <1>0, <2>2 DEF RemoveSkill, TypeOK
    <3>2. UNCHANGED <<session, listVars, mu, todo, missing>>
      BY <2>2 DEF RemoveSkill
    <3>3. \A l \in Keys : l # k => insert'[l] = insert[l]
      BY <1>0, <2>2 DEF RemoveSkill, TypeOK
    <3>4. h \in Procs
      BY DEF Procs
    <3>5. PrunePending(k)'
      BY <3>1, <3>4 DEF PrunePending
    <3>6. \A l : PrunePending(l) => PrunePending(l)'
      BY <3>1 DEF PrunePending, Procs
    <3>7. activeSet \subseteq Keys
      BY <1>0 DEF TypeOK
    <3> QED BY <3>2, <3>3, <3>5, <3>6, <3>7 DEF NoDanglingActive, NewIsEmpty, Registered, Open, listVars
  <2> QED BY <1>3, <2>1, <2>2
          DEF Start, StartLoad, StartUnload, StartUnloadAll, StartList, Procs
<1>4. ASSUME NEW k \in Keys, NEW ins \in Inserts, AddSkill(k, ins)
      PROVE  NoDanglingActive' /\ NewIsEmpty'
  <2>1. insert[k] = None /\ \A l \in Keys : l # k => insert'[l] = insert[l]
    BY <1>0, <1>4 DEF AddSkill, Registered, TypeOK
  <2>2. activeSet \subseteq Keys
    BY <1>0 DEF TypeOK
  <2>3. \A l \in Keys : Registered(l) => Registered(l)'
    BY <2>1 DEF Registered
  <2> QED BY <1>4, <2>2, <2>3
          DEF AddSkill, NoDanglingActive, NewIsEmpty, PrunePending, Open, listVars
<1>5. CASE OpenSession
  BY <1>5 DEF OpenSession, NoDanglingActive, NewIsEmpty, listVars
<1>6. CASE CloseSession
  BY <1>6 DEF CloseSession, NoDanglingActive, NewIsEmpty, Open
<1> QED BY <1>1, <1>2, <1>3, <1>4, <1>5, <1>6 DEF Next

\* A removed skill does not stay active in an open session unless somebody is
\* still about to prune it (session.go:235, 258-267, runtime.go:244).
THEOREM RemovedDoNotStay == Spec => []NoDanglingActive
<1>1. Init => NoDanglingActive /\ NewIsEmpty
  BY DEF Init, NoDanglingActive, NewIsEmpty
<1>2. Inv /\ NoDanglingActive /\ NewIsEmpty /\ [Next]_vars
        => NoDanglingActive' /\ NewIsEmpty'
  BY StepNoDangling
<1> QED BY <1>1, <1>2, AlwaysInv, PTL DEF Spec

----------------------------------------------------------------------------
(* The list as its clients see it *)

Before(s, a, b) == ActiveListSpec!Before(s, a, b)

\* ActiveList and the facts about the loops of session.go:180-193 mean the same
\* by order.
LEMMA BeforeIsAhead == \A s, a, b : Before(s, a, b) <=> Ahead(s, a, b)
BY DEF Before, ActiveListSpec!Before, Ahead

\* Filtering (session.go:180-189, 304-307) keeps the order of what it keeps.
LEMMA WithoutOrder ==
  ASSUME NEW X, NEW s \in Seq(X), NEW gone, NEW a, NEW b
  PROVE  Before(Without(s, gone), a, b) <=>
           Before(s, a, b) /\ a \notin gone /\ b \notin gone
BY WithoutAhead, BeforeIsAhead


\* Without its repetitions (session.go:122-145) a request is in the order in
\* which it names its keys first.
LEMMA DistinctOrder ==
  ASSUME NEW X, NEW ks \in Seq(X), NEW a \in Range(ks), NEW b \in Range(ks)
  PROVE  Before(Distinct(ks), a, b) <=>
           a # b /\ ActiveListSpec!AskedBefore(ks, a, b)
<1> DEFINE P == {i \in DOMAIN ks : \A j \in 1 .. i - 1 : ks[j] # ks[i]}
<1>1. DOMAIN ks = 1 .. Len(ks) /\ P \cap (1 .. Len(ks)) = P /\ Len(ks) \in Nat
  OBVIOUS
<1>2. Distinct(ks) = Selection(ks, P)
  BY DEF Distinct
<1>3. Before(Selection(ks, P), a, b) <=> \E i, j \in P : i < j /\ ks[i] = a /\ ks[j] = b
  <2>1. AheadAt(ks, P, a, b) <=> \E i, j \in P : i < j /\ ks[i] = a /\ ks[j] = b
    <3> HIDE DEF P
    <3> QED BY <1>1 DEF AheadAt
  <2>2. Ahead(Selection(ks, P), a, b) <=> AheadAt(ks, P, a, b)
    <3> HIDE DEF P
    <3> QED BY SelectionOrder
  <2> HIDE DEF P
  <2> QED BY <2>1, <2>2 DEF Before, ActiveListSpec!Before, Ahead
<1>4. PICK f \in 1 .. Len(ks) : ks[f] = a /\ \A j \in 1 .. f - 1 : ks[j] # a
  BY FirstPlace
<1>5. PICK g \in 1 .. Len(ks) : ks[g] = b /\ \A j \in 1 .. g - 1 : ks[j] # b
  BY FirstPlace
<1>6. f \in P /\ g \in P
  BY <1>1, <1>4, <1>5
<1>7. ASSUME NEW i \in P, NEW j \in P, i < j, ks[i] = a, ks[j] = b
      PROVE  a # b /\ ActiveListSpec!AskedBefore(ks, a, b)
  <2>1. i \in 1 .. j - 1
    BY <1>1, <1>7
  <2>2. a # b
    BY <1>7, <2>1
  <2>3. \A l \in 1 .. i : ks[l] # b
    <3> TAKE l \in 1 .. i
    <3>1. l \in 1 .. j - 1
      BY <1>1, <1>7
    <3> QED BY <1>7, <3>1
  <2> QED BY <1>7, <2>2, <2>3 DEF ActiveListSpec!AskedBefore
<1>8. ASSUME a # b, ActiveListSpec!AskedBefore(ks, a, b)
      PROVE  f < g
  <2>1. PICK i \in DOMAIN ks : ks[i] = a /\ \A j \in 1 .. i : ks[j] # b
    BY <1>8 DEF ActiveListSpec!AskedBefore
  <2>2. ~ (i < f)
    <3>1. i < f => i \in 1 .. f - 1
      BY <1>1
    <3> QED BY <1>4, <2>1, <3>1
  <2>3. ~ (g <= i)
    <3>1. g <= i => g \in 1 .. i
      BY <1>1
    <3> QED BY <1>5, <2>1, <3>1
  <2> QED BY <1>1, <2>2, <2>3
<1> HIDE DEF P
<1> QED BY <1>2, <1>3, <1>4, <1>5, <1>6, <1>7, <1>8

\* The order of two lists one after the other (session.go:180-193).
LEMMA ConcatOrder ==
  ASSUME NEW X, NEW s \in Seq(X), NEW t \in Seq(X), NEW a, NEW b
  PROVE  Before(s \o t, a, b) <=>
           \/ Before(s, a, b)
           \/ a \in Range(s) /\ b \in Range(t)
           \/ Before(t, a, b)
BY ConcatAhead, BeforeIsAhead

\* The list a load computes (session.go:163-194) is what the request makes of
\* the list it was computed from.
LEMMA NextOrderServes ==
  ASSUME NEW s \in Seq(Keys), IsInjective(s), NEW ks \in Seq(Keys), NEW md \in Modes
  PROVE  ActiveListSpec!Serves(NextOrder(s, ks, md), s, [mode |-> md, keys |-> ks])
<1> DEFINE w == IF md = "add" THEN Without(s, Range(ks)) ELSE <<>>
           d == Distinct(ks)
           kept == IF md = "add" THEN Range(s) \ Range(ks) ELSE {}
           t == NextOrder(s, ks, md)
<1>1. t = w \o d
  BY DEF NextOrder
<1>2. /\ w \in Seq(Keys) /\ IsInjective(w) /\ Range(w) = kept
      /\ kept \cap Range(ks) = {}
  <2>1. CASE md = "add"
    BY <2>1, WithoutFacts
  <2>2. CASE md # "add"
    BY <2>2 DEF IsInjective, Range
  <2> QED BY <2>1, <2>2
<1>3. \A a, b : Before(w, a, b) <=> a \in kept /\ b \in kept /\ Before(s, a, b)
  <2>0. \A a, b : Before(s, a, b) => a \in Range(s) /\ b \in Range(s)
    BY DEF Before, ActiveListSpec!Before, Range
  <2>1. CASE md = "add"
    BY <2>0, <2>1, WithoutOrder
  <2>2. CASE md # "add"
    BY <2>2 DEF Before, ActiveListSpec!Before
  <2> QED BY <2>1, <2>2
<1>4. d \in Seq(Keys) /\ IsInjective(d) /\ Range(d) = Range(ks)
  BY DistinctFacts
<1>5. \A a, b \in Range(ks) :
        Before(d, a, b) <=> a # b /\ ActiveListSpec!AskedBefore(ks, a, b)
  BY DistinctOrder
<1>6. \A a, b : Before(d, a, b) => a \in Range(d) /\ b \in Range(d)
  BY DEF Before, ActiveListSpec!Before, Range
<1> HIDE DEF w, d, kept, t
<1>7. IsInjective(t) /\ Range(t) = kept \cup Range(ks)
  BY <1>1, <1>2, <1>4, ConcatFacts
<1>8. \A a, b : Before(t, a, b) <=>
        Before(w, a, b) \/ (a \in Range(w) /\ b \in Range(d)) \/ Before(d, a, b)
  BY <1>1, <1>2, <1>4, ConcatOrder
<1>9. ASSUME NEW a \in Range(t), NEW b \in Range(t)
      PROVE  Before(t, a, b) <=>
               \/ a \in kept /\ b \in kept /\ Before(s, a, b)
               \/ a \in kept /\ b \notin kept
               \/ a \notin kept /\ b \notin kept /\ a # b
                    /\ ActiveListSpec!AskedBefore(ks, a, b)
  BY <1>2, <1>3, <1>4, <1>5, <1>6, <1>7, <1>8
<1>10. /\ ActiveListSpec!Range(s) = Range(s) /\ ActiveListSpec!Range(ks) = Range(ks)
       /\ ActiveListSpec!Range(t) = Range(t)
  BY DEF ActiveListSpec!Range, Range
<1>11. ActiveListSpec!IsInjective(t)
  BY <1>7 DEF ActiveListSpec!IsInjective, IsInjective
<1> DEFINE r == [mode |-> md, keys |-> ks]
<1>12. r.mode = md /\ r.keys = ks
  OBVIOUS
<1> HIDE DEF r
<1>13. ActiveListSpec!Serves(t, s, r)
  BY <1>7, <1>9, <1>10, <1>11, <1>12 DEF ActiveListSpec!Serves, Before, kept
<1> QED BY <1>13 DEF t, r

----------------------------------------------------------------------------
(* The refinement *)

\* While the version has not moved since a load's snapshot, what it is about
\* to commit is what its request makes of the list as it is now
\* (session.go:148-229).  Only loads are past a snapshot.
SnapshotInv ==
  \A p \in Procs :
    /\ pc[p] \in Loading => p \in Loaders
    /\ pc[p] \in Checked /\ ~ stale[p] =>
         next[p] = NextOrder(activeOrder, args[p], mode[p])

\* A change of the list moves the version of everybody who has a snapshot, and
\* only a new snapshot brings it up to date (session.go:158, 233, 267, 309, 323).
LEMMA VersionMoves ==
  ASSUME Inv, NEW p \in Procs, Step(p), NEW q \in Procs, pc[q] \in Checked
  PROVE  /\ stale[q] => stale'[q] \/ (q = p /\ Snapshot(p))
         /\ activeOrder' = activeOrder \/ stale'[q]
<1>0. TypeOK /\ ListAndSetAgree
  BY DEF Inv
<1>1. Bump => stale'[q]
  BY DEF Bump, Checked
<1>2. CASE Snapshot(p)
  BY <1>0, <1>2 DEF Snapshot, listVars, TypeOK
<1>3. CASE Commit(p) \/ ReleaseHandles(p) \/ Filter(p) \/ Clear(p)
           \/ PruneMissing(p) \/ PruneKey(p)
  BY <1>1, <1>3 DEF Commit, ReleaseHandles, Filter, Clear, PruneMissing, PruneKey, listVars
<1>4. CASE Validate(p) \/ Ensure(p) \/ Recheck(p) \/ ReadHandle(p) \/ Resolve(p)
           \/ Copy(p) \/ LookUp(p) \/ Collect(p) \/ SkipClosed(p)
  BY <1>4 DEF Validate, Ensure, Recheck, ReadHandle, Resolve, Copy, LookUp, Collect,
              SkipClosed, listVars
<1> QED BY <1>2, <1>3, <1>4 DEF Step

\* Where a load is after its step, and that its request has not changed if it
\* is still loading (session.go:97-240).
LEMMA LoadSteps ==
  ASSUME Inv, NEW p \in Procs, Step(p)
  PROVE  /\ pc'[p] \in Loading => /\ pc[p] \in Loading
                                /\ args'[p] = args[p] /\ mode'[p] = mode[p]
         /\ pc'[p] \in Checked /\ ~ Snapshot(p) =>
              pc[p] \in Checked /\ next'[p] = next[p]
<1>0. TypeOK
  BY DEF Inv
<1>1. CASE Validate(p)
  BY <1>0, <1>1 DEF Validate, Advance, Goto, Return, Loading, Checked, TypeOK
<1>2. CASE Snapshot(p)
  BY <1>0, <1>2 DEF Snapshot, Goto, Return, Loading, Checked, TypeOK
<1>3. CASE Ensure(p)
  BY <1>0, <1>3 DEF Ensure, Return, Loading, Checked, TypeOK
<1>4. CASE Recheck(p)
  BY <1>0, <1>4 DEF Recheck, Advance, Goto, Return, Loading, Checked, TypeOK
<1>5. CASE Commit(p)
  BY <1>0, <1>5 DEF Commit, Goto, Return, Loading, Checked, TypeOK
<1>6. CASE ReadHandle(p) \/ ReleaseHandles(p) \/ Filter(p) \/ Clear(p)
  BY <1>0, <1>6 DEF ReadHandle, ReleaseHandles, Filter, Clear, Goto, Return, Loading,
                    Checked, TypeOK
<1>7. CASE Resolve(p) \/ Copy(p) \/ LookUp(p) \/ PruneMissing(p)
  BY <1>0, <1>7 DEF Resolve, Copy, LookUp, PruneMissing, Advance, Goto, Return, Loading,
                    Checked, TypeOK
<1>8. CASE Collect(p) \/ SkipClosed(p) \/ PruneKey(p)
  BY <1>0, <1>8 DEF Collect, SkipClosed, PruneKey, Return, Loading, Checked, TypeOK
<1> QED BY <1>1, <1>2, <1>3, <1>4, <1>5, <1>6, <1>7, <1>8 DEF Step

\* The version protects what was computed without the mutex
\* (session.go:158, 225-229).
LEMMA StepSnapshot == Inv /\ SnapshotInv /\ [Next]_vars => SnapshotInv'
<1> SUFFICES ASSUME Inv, SnapshotInv, [Next]_vars PROVE SnapshotInv'
  OBVIOUS
<1>0. TypeOK
  BY DEF Inv
<1>1. ASSUME NEW p \in Procs, Step(p) PROVE SnapshotInv'
  <2>1. ASSUME NEW q \in Procs, q # p
        PROVE  /\ pc'[q] \in Loading => q \in Loaders
               /\ pc'[q] \in Checked /\ ~ stale'[q] =>
                    next'[q] = NextOrder(activeOrder', args'[q], mode'[q])
    <3>1. /\ pc'[q] = pc[q] /\ args'[q] = args[q] /\ mode'[q] = mode[q]
          /\ next'[q] = next[q]
      BY <1>0, <1>1, <2>1, OthersAlone
    <3>2. pc[q] \in Checked /\ ~ stale'[q] => ~ stale[q] /\ activeOrder' = activeOrder
      BY <1>1, <2>1, VersionMoves
    <3> QED BY <3>1, <3>2 DEF SnapshotInv
  <2>2. pc'[p] \in Loading => p \in Loaders
    BY <1>1, LoadSteps DEF SnapshotInv
  <2>3. CASE Snapshot(p)
    <3>1. pc'[p] \in Checked =>
            /\ next'[p] = NextOrder(activeOrder, args[p], mode[p])
            /\ args' = args /\ mode' = mode
      BY <1>0, <2>3 DEF Snapshot, Goto, Return, Checked, TypeOK
    <3>2. activeOrder' = activeOrder
      BY <2>3 DEF Snapshot, listVars
    <3> QED BY <2>1, <2>2, <3>1, <3>2 DEF SnapshotInv
  <2>4. CASE ~ Snapshot(p)
    <3>1. pc'[p] \in Checked => /\ pc[p] \in Checked /\ next'[p] = next[p]
                               /\ args'[p] = args[p] /\ mode'[p] = mode[p]
      BY <1>1, <2>4, LoadSteps DEF Checked, Loading
    <3>2. pc[p] \in Checked /\ ~ stale'[p] => ~ stale[p] /\ activeOrder' = activeOrder
      BY <1>1, <2>4, VersionMoves
    <3>3. pc'[p] \in Checked /\ ~ stale'[p] =>
            next'[p] = NextOrder(activeOrder', args'[p], mode'[p])
      BY <3>1, <3>2 DEF SnapshotInv
    <3> QED BY <2>1, <2>2, <3>3 DEF SnapshotInv
  <2> QED BY <2>3, <2>4
<1>2. CASE UNCHANGED vars
  BY <1>2 DEF vars, listVars, SnapshotInv
<1>3. CASE Start
  <2>1. ASSUME NEW p \in Procs, NEW where, NEW ks, NEW md, Enter(p, where, ks, md),
               where \notin Loading \/ (where = "validate" /\ p \in Loaders)
        PROVE  SnapshotInv'
    <3>1. \A q \in Procs : IF q = p THEN pc'[q] = where
                           ELSE pc'[q] = pc[q] /\ args'[q] = args[q] /\ mode'[q] = mode[q]
      BY <1>0, <2>1 DEF Enter, Goto, TypeOK
    <3>2. UNCHANGED <<next, stale, activeOrder>>
      BY <2>1 DEF Enter, listVars
    <3> QED BY <2>1, <3>1, <3>2 DEF SnapshotInv, Loading, Checked
  <2>2. ASSUME NEW p \in Procs, NEW k \in Keys, RemoveSkill(p, k)
        PROVE  SnapshotInv'
    <3>1. \A q \in Procs : IF q = p THEN pc'[q] = "collect"
                           ELSE pc'[q] = pc[q] /\ args'[q] = args[q]
      BY <1>0, <2>2 DEF RemoveSkill, TypeOK
    <3>2. UNCHANGED <<next, stale, mode, activeOrder>>
      BY <2>2 DEF RemoveSkill, listVars
    <3> QED BY <3>1, <3>2 DEF SnapshotInv, Loading, Checked
  <2> QED BY <1>3, <2>1, <2>2
          DEF Start, StartLoad, StartUnload, StartUnloadAll, StartList, Procs, Loading
<1>4. CASE \/ \E k \in Keys, ins \in Inserts : AddSkill(k, ins)
           \/ OpenSession \/ CloseSession
  BY <1>4 DEF AddSkill, OpenSession, CloseSession, listVars, SnapshotInv
<1> QED BY <1>1, <1>2, <1>3, <1>4 DEF Next

\* What a load asks for is no request before it begins (session.go:97-120).
LEMMA AskedFacts ==
  ASSUME TypeOK, NEW p \in Loaders
  PROVE  /\ Asked[p] = IF pc[p] \in Loading
                       THEN [mode |-> mode[p], keys |-> args[p]] ELSE None
         /\ Asked[p] # None <=> pc[p] \in Loading
<1>1. p \in Procs
  BY DEF Procs
<1>2. [mode |-> mode[p], keys |-> args[p]] \in [mode : Modes, keys : Seq(Keys)]
  BY <1>1 DEF TypeOK
<1> QED BY <1>2, SessionAssumption DEF Asked

\* Every loader has at most one request (session.go:97-120).
LEMMA AskedIs ==
  /\ Asked = [p \in Loaders |-> Asked[p]]
  /\ Asked' = [p \in Loaders |-> Asked'[p]]
BY DEF Asked

\* A step of a call is, for the clients, its request taking effect or being
\* refused, or keys being lost, or nothing (session.go:219-240, 294-309).
LEMMA CallRefines ==
  ASSUME Inv, Inv', SnapshotInv, [Next]_vars, NEW p \in Procs, Step(p)
  PROVE  [ActiveListSpec!Next]_(ActiveListSpec!vars)
<1>0. TypeOK /\ TypeOK' /\ CallInv /\ ListAndSetAgree
  BY DEF Inv
<1>1. ASSUME NEW q \in Loaders, q # p PROVE Asked'[q] = Asked[q]
  <2>1. q \in Procs
    BY DEF Procs
  <2>2. pc'[q] = pc[q] /\ args'[q] = args[q] /\ mode'[q] = mode[q]
    BY <1>0, <1>1, <2>1, OthersAlone
  <2> QED BY <2>2 DEF Asked
<1>2. CASE Commit(p) /\ Open /\ ~ Conflict(p)
  <2>1. /\ pc[p] = "commit" /\ pc'[p] = "handles" /\ activeOrder' = next[p]
    BY <1>0, <1>2 DEF Commit, Goto, TypeOK
  <2>2. p \in Loaders /\ next[p] = NextOrder(activeOrder, args[p], mode[p])
    BY <1>2, <2>1 DEF SnapshotInv, Loading, Checked, Conflict
  <2>3. /\ Asked[p] = [mode |-> mode[p], keys |-> args[p]] /\ Asked[p] # None
    BY <1>0, <2>1, <2>2, AskedFacts DEF Loading
  <2>4. Asked'[p] = None
    BY <2>1, <2>2 DEF Asked, Loading
  <2>5. Asked' = [Asked EXCEPT ![p] = None]
    BY <1>1, <2>2, <2>4, AskedIs
  <2>6. ActiveListSpec!Serves(activeOrder', activeOrder, Asked[p])
    <3>1. /\ activeOrder \in Seq(Keys) /\ IsInjective(activeOrder)
          /\ args[p] \in Seq(Keys) /\ mode[p] \in Modes
      BY <1>0 DEF TypeOK, ListAndSetAgree
    <3> QED BY <2>1, <2>2, <2>3, <3>1, NextOrderServes
  <2>7. ActiveListSpec!WithinLimit(activeOrder')
    <3>1. WithinLimit'
      BY DEF Inv
    <3> QED BY <3>1 DEF WithinLimit, ActiveListSpec!WithinLimit
  <2>8. ActiveListSpec!Serve(p)
    BY <2>3, <2>5, <2>6, <2>7 DEF ActiveListSpec!Serve
  <2> QED BY <2>2, <2>8 DEF ActiveListSpec!Next
<1>3. ASSUME NEW q \in Procs, NEW gone, Step(q), Loses(gone),
             pc[q] \notin Loading, pc'[q] \notin Loading
      PROVE  [ActiveListSpec!Next]_(ActiveListSpec!vars)
  <2>1. ASSUME NEW l \in Loaders PROVE Asked'[l] = Asked[l]
    <3>1. l \in Procs
      BY DEF Procs
    <3>2. CASE l # q
      <4>1. pc'[l] = pc[l] /\ args'[l] = args[l] /\ mode'[l] = mode[l]
        BY <1>0, <1>3, <3>1, <3>2, OthersAlone
      <4> QED BY <4>1 DEF Asked
    <3>3. CASE l = q
      BY <1>3, <3>3 DEF Asked
    <3> QED BY <3>2, <3>3
  <2>2. Asked' = Asked
    BY <2>1, AskedIs
  <2>3. /\ activeOrder' = Without(activeOrder, gone) /\ activeOrder \in Seq(Keys)
        /\ IsInjective(activeOrder)
    BY <1>0, <1>3 DEF Loses, TypeOK, ListAndSetAgree
  <2>4. IsInjective(activeOrder') /\ Range(activeOrder') \subseteq Range(activeOrder)
    BY <2>3, WithoutFacts
  <2>5. \A a, b : Before(activeOrder', a, b) => Before(activeOrder, a, b)
    BY <2>3, WithoutOrder
  <2>6. ActiveListSpec!Lose
    BY <2>2, <2>4, <2>5
       DEF ActiveListSpec!Lose, ActiveListSpec!IsInjective, IsInjective,
           ActiveListSpec!Range, Range, Before
  <2> QED BY <2>6 DEF ActiveListSpec!Next
<1>4. CASE UNCHANGED listVars /\ ~ (Commit(p) /\ Open /\ ~ Conflict(p))
  <2>1. activeOrder' = activeOrder
    BY <1>4 DEF listVars
  <2>2. CASE p \in Loaders /\ pc[p] \in Loading /\ pc'[p] \notin Loading
    <3>1. Asked[p] # None /\ Asked'[p] = None
      BY <1>0, <2>2, AskedFacts DEF Asked
    <3>2. Asked' = [Asked EXCEPT ![p] = None]
      BY <1>1, <2>2, <3>1, AskedIs
    <3>3. ActiveListSpec!Refuse(p)
      BY <2>1, <3>1, <3>2 DEF ActiveListSpec!Refuse
    <3> QED BY <2>2, <3>3 DEF ActiveListSpec!Next
  <2>3. CASE ~ (p \in Loaders /\ pc[p] \in Loading /\ pc'[p] \notin Loading)
    <3>1. p \in Loaders => Asked'[p] = Asked[p]
      <4>1. pc'[p] \in Loading => /\ pc[p] \in Loading
                                 /\ args'[p] = args[p] /\ mode'[p] = mode[p]
        BY LoadSteps
      <4> QED BY <2>3, <4>1 DEF Asked
    <3>2. Asked' = Asked
      BY <1>1, <3>1, AskedIs
    <3> QED BY <2>1, <3>2 DEF ActiveListSpec!vars
  <2> QED BY <2>2, <2>3
<1>5. ASSUME NEW q \in Procs, Commit(q), Open, ~ Conflict(q), q # p
      PROVE  FALSE
  <2>1. pc'[q] = "handles" /\ pc[q] = "commit"
    BY <1>0, <1>5 DEF Commit, Goto, TypeOK
  <2>2. pc'[q] = pc[q]
    BY <1>0, <1>5, OthersAlone
  <2> QED BY <2>1, <2>2
<1> QED BY <1>0, <1>2, <1>3, <1>4, <1>5, ListSteps

\* Every step of the session is a step of the list its clients see, or none
\* (session.go:97-327).
LEMMA StepRefines ==
  Inv /\ Inv' /\ SnapshotInv /\ [Next]_vars
    => [ActiveListSpec!Next]_(ActiveListSpec!vars)
<1> SUFFICES ASSUME Inv, Inv', SnapshotInv, [Next]_vars
             PROVE  [ActiveListSpec!Next]_(ActiveListSpec!vars)
  OBVIOUS
<1>0. TypeOK /\ TypeOK'
  BY DEF Inv
<1>1. ASSUME NEW p \in Procs, Step(p) PROVE [ActiveListSpec!Next]_(ActiveListSpec!vars)
  BY <1>1, CallRefines
<1>2. CASE UNCHANGED vars
  BY <1>2 DEF vars, listVars, Asked, ActiveListSpec!vars
<1>3. ASSUME NEW p \in Loaders, NEW ks \in Requests, NEW md \in Modes, StartLoad(p, ks, md)
      PROVE  [ActiveListSpec!Next]_(ActiveListSpec!vars)
  <2>1. p \in Procs
    BY DEF Procs
  <2>2. /\ pc[p] = "idle" /\ pc' = [pc EXCEPT ![p] = "validate"]
        /\ args' = [args EXCEPT ![p] = ks] /\ mode' = [mode EXCEPT ![p] = md]
        /\ activeOrder' = activeOrder
    BY <1>3 DEF StartLoad, Enter, Goto, listVars
  <2>3. Asked[p] = None
    BY <2>2 DEF Asked, Loading
  <2>4. Asked'[p] = [mode |-> md, keys |-> ks]
    BY <1>0, <2>1, <2>2 DEF Asked, Loading, TypeOK
  <2>5. Asked'[p] \in ActiveListSpec!Requests
    BY <2>4, RequestFacts DEF ActiveListSpec!Requests, ActiveListSpec!Modes, Modes
  <2>6. \A q \in Loaders : q # p => Asked'[q] = Asked[q]
    BY <1>0, <2>2 DEF Asked, TypeOK, Procs
  <2>7. Asked' = [Asked EXCEPT ![p] = Asked'[p]]
    BY <2>6, AskedIs
  <2>8. ActiveListSpec!Ask(p)
    BY <2>2, <2>3, <2>5, <2>7 DEF ActiveListSpec!Ask
  <2> QED BY <2>8 DEF ActiveListSpec!Next
<1>4. ASSUME NEW p \in Procs, NEW where, NEW ks, NEW md, Enter(p, where, ks, md),
             where \notin Loading
      PROVE  [ActiveListSpec!Next]_(ActiveListSpec!vars)
  <2>1. \A q \in Loaders : Asked'[q] = Asked[q]
    BY <1>0, <1>4 DEF Enter, Goto, Asked, TypeOK, Procs, Loading
  <2> QED BY <1>4, <2>1, AskedIs DEF Enter, listVars, ActiveListSpec!vars
<1>5. ASSUME NEW h \in Hosts, NEW k \in Keys, RemoveSkill(h, k)
      PROVE  [ActiveListSpec!Next]_(ActiveListSpec!vars)
  <2>1. \A q \in Loaders : Asked'[q] = Asked[q]
    BY <1>0, <1>5 DEF RemoveSkill, Asked, TypeOK, Procs, Loading
  <2> QED BY <1>5, <2>1, AskedIs DEF RemoveSkill, listVars, ActiveListSpec!vars
<1>6. CASE \/ \E k \in Keys, ins \in Inserts : AddSkill(k, ins)
           \/ OpenSession \/ CloseSession
  BY <1>6 DEF AddSkill, OpenSession, CloseSession, listVars, Asked, ActiveListSpec!vars
<1>7. CASE Start
  <2>1. "resolve" \notin Loading /\ "clear" \notin Loading /\ "copy" \notin Loading
    BY DEF Loading
  <2> QED BY <1>3, <1>4, <1>5, <1>7, <2>1
          DEF Start, StartUnload, StartUnloadAll, StartList, Procs
<1> QED BY <1>1, <1>2, <1>6, <1>7 DEF Next

\* The session implements ActiveList: although ActivateKeys copies the list,
\* computes the next one and loads bodies without the mutex, a commit is the
\* request taking effect as a whole on the list as it is then
\* (session.go:148-238), and all else that happens to the list is a loss.
THEOREM ListRefines == Spec => ImplementsActiveList
<1>1. Init => ActiveListSpec!Init
  BY DEF Init, Asked, Loading, Procs, ActiveListSpec!Init
<1>2. Init => SnapshotInv
  BY DEF Init, SnapshotInv, Loading, Checked
<1>3. Inv /\ SnapshotInv /\ [Next]_vars => SnapshotInv'
  BY StepSnapshot
<1>4. Inv /\ Inv' /\ SnapshotInv /\ [Next]_vars
        => [ActiveListSpec!Next]_(ActiveListSpec!vars)
  BY StepRefines
<1> QED BY <1>1, <1>2, <1>3, <1>4, AlwaysInv, PTL
        DEF Spec, ImplementsActiveList, ActiveListSpec!Spec

=============================================================================
