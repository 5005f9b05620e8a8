--------------------------- MODULE CatalogProofs ---------------------------
(***************************************************************************)
(* Proofs about Catalog and the names it gives out, for any number of      *)
(* skills, callers and rounds.                                             *)
(***************************************************************************)
EXTENDS Catalog, SequenceTheorems, TLAPS

Entries == [Keys -> Entry \cup {None}]

\* What recomputing the names leaves alone: which keys are registered, and
\* everything about an entry but its LLM name (catalog.go:371-411).
LEMMA InstallKeeps ==
  ASSUME NEW bk \in Entries, Install(bk)
  PROVE  /\ byKey' \in Entries
         /\ \A k \in Keys : byKey'[k] = None <=> bk[k] = None
         /\ \A k \in Keys : bk[k] # None =>
              /\ byKey'[k].def = bk[k].def
              /\ byKey'[k].bodyLoaded = bk[k].bodyLoaded
              /\ byKey'[k].bodyErr = bk[k].bodyErr
              /\ byKey'[k].bodyWait = bk[k].bodyWait
         /\ \A h \in DOMAIN handleIndex' : handleIndex'[h] \in Keys
<1> DEFINE live == LiveDefs(bk)
           new(k) == [bk[k] EXCEPT !.llmName = LLMName(live, k)]
<1>1. DOMAIN live \subseteq Keys /\ \A k \in DOMAIN live : live[k] \in Defs
  BY CatalogAssumption DEF LiveDefs, Entries, Entry
<1>2. \A k \in DOMAIN live : LLMName(live, k) \in Names
  <2> SUFFICES ASSUME NEW k \in DOMAIN live PROVE LLMName(live, k) \in Names
    OBVIOUS
  <2>1. k.name \in Names /\ ShortHash[live[k]] \in NameParts
    BY <1>1, HandlesAssumption
  <2>2. Suffixed(live, k) \in Names
    BY <2>1 DEF Suffixed, Names
  <2> QED
    BY <2>1, <2>2 DEF LLMName, FirstPass
<1>3. \A k \in Keys : bk[k] # None => k \in DOMAIN live /\ bk[k] \in Entry
  BY DEF LiveDefs, Entries
<1>4. \A k \in Keys : bk[k] # None =>
        /\ new(k) \in Entry
        /\ new(k).def = bk[k].def
        /\ new(k).bodyLoaded = bk[k].bodyLoaded
        /\ new(k).bodyErr = bk[k].bodyErr
        /\ new(k).bodyWait = bk[k].bodyWait
  <2> SUFFICES ASSUME NEW k \in Keys, bk[k] # None
               PROVE  /\ new(k) \in Entry
                      /\ new(k).def = bk[k].def
                      /\ new(k).bodyLoaded = bk[k].bodyLoaded
                      /\ new(k).bodyErr = bk[k].bodyErr
                      /\ new(k).bodyWait = bk[k].bodyWait
    OBVIOUS
  <2>1. bk[k] \in Entry /\ LLMName(live, k) \in Names
    BY <1>2, <1>3
  <2> HIDE DEF live
  <2> QED
    BY <2>1 DEF Entry
<1>5. \A k \in Keys : byKey'[k] = IF bk[k] = None THEN None ELSE new(k)
  BY DEF Install
<1>6. byKey' = [k \in Keys |-> IF bk[k] = None THEN None ELSE new(k)]
  BY DEF Install
<1>7. \A h \in DOMAIN handleIndex' : handleIndex'[h] \in Keys
  BY <1>1 DEF Install, HandleIndexes
<1>8. None \notin Entry
  BY CatalogAssumption
<1> HIDE DEF live, new
<1>9. byKey' \in Entries
  BY <1>4, <1>6 DEF Entries
<1>10. \A k \in Keys : byKey'[k] = None <=> bk[k] = None
  BY <1>4, <1>5, <1>8
<1> QED
  BY <1>4, <1>5, <1>7, <1>9, <1>10

----------------------------------------------------------------------------
(* Type correctness *)

\* A call that returns leaves the caller's variables well typed.
LEMMA ReturnType ==
  ASSUME TypeOK, NEW c \in Callers, NEW r \in Results, Return(c, r)
  PROVE  /\ pc' \in [Callers -> {"idle", "check", "lookup", "wait", "load"}]
         /\ key' \in [Callers -> Keys \cup {None}]
         /\ ch' \in [Callers -> Chans \cup {None}]
         /\ attempt' \in [Callers -> 0 .. MaxAttempts]
         /\ done' \in [Callers -> BOOLEAN]
         /\ res' \in [Callers -> Results]
         /\ \A x \in Callers : /\ pc'[x] # "idle" => key'[x] \in Keys
                               /\ pc'[x] \in {"wait", "load"} <=> ch'[x] # None
  BY CatalogAssumption DEF TypeOK, Return

LEMMA InitType == Init => TypeOK
<1> SUFFICES ASSUME Init PROVE TypeOK
  OBVIOUS
<1>1. 0 \in 0 .. MaxAttempts
  BY CatalogAssumption
<1>2. \A h \in DOMAIN handleIndex : handleIndex[h] \in Keys
  BY DEF Init
<1> QED
  BY <1>1, <1>2 DEF Init, TypeOK, Results

\* Every step of the catalog preserves the type invariant.
LEMMA StepType == TypeOK /\ [Next]_vars => TypeOK'
<1> SUFFICES ASSUME TypeOK, [Next]_vars PROVE TypeOK'
  OBVIOUS
<1> USE CatalogAssumption
<1>1. ASSUME NEW d \in Defs, NEW k \in Keys, NEW insert \in Inserts,
             NEW b \in BOOLEAN, Add(d, k, insert, b)
      PROVE  TypeOK'
  <2> DEFINE e == [def |-> d, insert |-> insert, llmName |-> k.name,
                   bodyLoaded |-> b, bodyErr |-> "none", bodyWait |-> None]
             bk == [byKey EXCEPT ![k] = e]
  <2>1. e \in Entry
    BY HandlesAssumption DEF Entry
  <2>2. bk \in Entries
    BY <2>1 DEF TypeOK, Entries
  <2>3. Install(bk)
    BY <1>1 DEF Add
  <2>4. byKey' \in Entries /\ \A h \in DOMAIN handleIndex' : handleIndex'[h] \in Keys
    BY <2>2, <2>3, InstallKeeps
  <2> QED
    BY <1>1, <2>4 DEF TypeOK, Add, callVars, Entries
<1>2. ASSUME NEW d \in Defs, Remove(d)
      PROVE  TypeOK'
  <2> DEFINE k == byDef[d]
             bk == [byKey EXCEPT ![k] = None]
  <2>1. k \in Keys /\ byKey[k] \in Entry
    BY <1>2 DEF TypeOK, Remove, Registered
  <2>2. bk \in Entries
    BY DEF TypeOK, Entries
  <2>3. Install(bk)
    BY <1>2 DEF Remove
  <2>4. byKey' \in Entries /\ \A h \in DOMAIN handleIndex' : handleIndex'[h] \in Keys
    BY <2>2, <2>3, InstallKeeps
  <2>5. closed' \in SUBSET Chans /\ panicked' \in BOOLEAN
    BY <1>2, <2>1 DEF TypeOK, Remove, Close, WokenByRemove, Entry
  <2> QED
    BY <1>2, <2>4, <2>5 DEF TypeOK, Remove, callVars, Entries, Disturb
<1>3. ASSUME NEW c \in Callers, NEW k \in Keys, Call(c, k)
      PROVE  TypeOK'
  BY <1>3 DEF TypeOK, Call, catalogVars, Results
<1>4. ASSUME NEW c \in Callers, Cancel(c)
      PROVE  TypeOK'
  BY <1>4 DEF TypeOK, Cancel, catalogVars
<1>5. ASSUME NEW c \in Callers, CheckContext(c)
      PROVE  TypeOK'
  <2>1. CASE Return(c, "ctx")
    BY <1>5, <2>1, ReturnType DEF TypeOK, CheckContext, catalogVars, Results,
                                  Outcomes
  <2>2. CASE pc' = [pc EXCEPT ![c] = "lookup"]
             /\ UNCHANGED <<key, ch, attempt, done, res>>
    BY <1>5, <2>2 DEF TypeOK, CheckContext, catalogVars
  <2> QED
    BY <1>5, <2>1, <2>2 DEF CheckContext
<1>6. ASSUME NEW c \in Callers, Answered(c)
      PROVE  TypeOK'
  <2>1. PICK r \in Results : Return(c, r)
    BY <1>6 DEF TypeOK, Answered, Registered, Entry, Results, Outcomes
  <2> QED
    BY <1>6, <2>1, ReturnType DEF TypeOK, Answered, catalogVars
<1>7. ASSUME NEW c \in Callers, JoinLoad(c)
      PROVE  TypeOK'
  BY <1>7 DEF TypeOK, JoinLoad, catalogVars, InFlight, Unresolved, Registered,
              Entry
<1>8. ASSUME NEW c \in Callers, BecomeLoader(c)
      PROVE  TypeOK'
  <2>1. PICK x \in Chans : /\ byKey' = [byKey EXCEPT ![key[c]].bodyWait = x]
                           /\ ch' = [ch EXCEPT ![c] = x]
                           /\ closed' = closed \ {x}
    BY <1>8 DEF BecomeLoader
  <2>2. key[c] \in Keys /\ byKey[key[c]] \in Entry
    BY <1>8 DEF TypeOK, BecomeLoader, Unresolved, Registered
  <2>3. byKey' \in [Keys -> Entry \cup {None}]
    BY <2>1, <2>2 DEF TypeOK, Entry
  <2> QED
    BY <1>8, <2>1, <2>3 DEF TypeOK, BecomeLoader
<1>9. ASSUME NEW c \in Callers, Wake(c)
      PROVE  TypeOK'
  <2>1. CASE Return(c, "exhausted")
    BY <1>9, <2>1, ReturnType DEF TypeOK, Wake, catalogVars, Results
  <2>2. CASE ~ Return(c, "exhausted")
    BY <1>9, <2>2 DEF TypeOK, Wake, catalogVars, RetryLeft
  <2> QED
    BY <2>1, <2>2
<1>10. ASSUME NEW c \in Callers, AbandonWait(c)
       PROVE  TypeOK'
  BY <1>10, ReturnType DEF TypeOK, AbandonWait, catalogVars, Results, Outcomes
<1>11. ASSUME NEW c \in Callers, NEW outcome \in Outcomes, FinishLoad(c, outcome)
       PROVE  TypeOK'
  <2>1. outcome \in Results
    BY DEF Results
  <2>2. closed' \in SUBSET Chans /\ panicked' \in BOOLEAN
    BY <1>11 DEF TypeOK, FinishLoad, Close
  <2>. disturbed' \in [Callers -> BOOLEAN]
    <3>1. CASE UNCHANGED disturbed
      BY <3>1 DEF TypeOK
    <3>2. CASE Disturb(key[c])
      BY <3>2 DEF TypeOK, Disturb
    <3> QED
      BY <1>11, <3>1, <3>2 DEF FinishLoad
  <2>3. byKey' \in [Keys -> Entry \cup {None}]
    <3>1. CASE StillInstalled(c)
      <4>1. byKey[key[c]] \in Entry /\ key[c] \in Keys
        BY <1>11, <3>1 DEF TypeOK, FinishLoad, StillInstalled, Registered
      <4>2. Cached(byKey[key[c]], outcome) \in Entry
        BY <4>1 DEF Cached, Entry, Outcomes
      <4>3. [Cached(byKey[key[c]], outcome) EXCEPT !.bodyWait = None] \in Entry
        BY <4>2 DEF Entry
      <4> QED
        BY <1>11, <3>1, <4>3 DEF TypeOK, FinishLoad
    <3>2. CASE ~ StillInstalled(c)
      BY <1>11, <3>2 DEF TypeOK, FinishLoad
    <3> QED
      BY <3>1, <3>2
  <2> QED
    BY <1>11, <2>1, <2>2, <2>3, ReturnType DEF TypeOK, FinishLoad
<1>12. CASE UNCHANGED vars
  BY <1>12 DEF TypeOK, vars
<1> QED
  BY <1>1, <1>2, <1>3, <1>4, <1>5, <1>6, <1>7, <1>8, <1>9, <1>10, <1>11, <1>12
     DEF Next, Host, Step

\* The variables keep to their types, and EnsureBody to its rounds, in every
\* behaviour (catalog.go:230).
THEOREM TypeCorrect == Spec => []TypeOK
  BY InitType, StepType, PTL DEF Spec

----------------------------------------------------------------------------
(* The inductive invariant *)

\* The entry of a load under way knows its channel unless it was removed, and
\* being removed is all that can happen to it.
LoaderInstalled ==
  \A c \in Callers : pc[c] = "load" => (StillInstalled(c) <=> ~ disturbed[c])

\* Each load has a channel of its own.
DistinctChannels ==
  \A c, l \in Callers :
    (pc[c] = "load" /\ pc[l] = "load" /\ ch[c] = ch[l]) => c = l

\* A channel in an entry is open, and the load that will close it under way.
WaitOwned ==
  \A k \in Keys : (Registered(k) /\ byKey[k].bodyWait # None) =>
    /\ byKey[k].bodyWait \notin closed
    /\ Unresolved(k)
    /\ \E c \in Callers : /\ pc[c] = "load"
                          /\ key[c] = k
                          /\ ch[c] = byKey[k].bodyWait

FlightInv == LoaderInstalled /\ DistinctChannels /\ WaitOwned

\* What a waiter of an undisturbed call waits for is what its entry waits for.
QuietWait(c) ==
  (pc[c] = "wait" /\ ~ disturbed[c]) =>
    /\ Registered(key[c])
    /\ ch[c] \in closed => ~ Unresolved(key[c])
    /\ ch[c] \notin closed => byKey[key[c]].bodyWait = ch[c]

\* An undisturbed call needs no third round: in the second the entry has an
\* answer.
QuietRetry(c) ==
  (attempt[c] >= 2 /\ ~ disturbed[c]) =>
    /\ pc[c] # "wait"
    /\ pc[c] \in {"check", "lookup"} => Registered(key[c]) /\ ~ Unresolved(key[c])

QuietResult(c) ==
  /\ pc[c] # "idle" => res[c] = "none"
  /\ res[c] = "exhausted" => disturbed[c]

Quiet(c) == QuietWait(c) /\ QuietRetry(c) /\ QuietResult(c)

QuietInv == \A c \in Callers : Quiet(c)

\* No entry holds a context error.
NoContextCached == \A k \in Keys : Registered(k) => byKey[k].bodyErr # "ctx"

----------------------------------------------------------------------------
(* What the actions do to the entries *)

\* The entry of k stays, or stays missing, but for its LLM name.
Kept(k) ==
  /\ byKey'[k] = None <=> byKey[k] = None
  /\ byKey[k] # None => /\ byKey'[k].def = byKey[k].def
                        /\ byKey'[k].bodyLoaded = byKey[k].bodyLoaded
                        /\ byKey'[k].bodyErr = byKey[k].bodyErr
                        /\ byKey'[k].bodyWait = byKey[k].bodyWait

LEMMA AddEffect ==
  ASSUME TypeOK, NEW d \in Defs, NEW k \in Keys, NEW insert \in Inserts,
         NEW b \in BOOLEAN, Add(d, k, insert, b)
  PROVE  /\ byKey[k] = None
         /\ byKey'[k] # None
         /\ byKey'[k].def = d
         /\ byKey'[k].bodyErr = "none"
         /\ byKey'[k].bodyWait = None
         /\ \A j \in Keys \ {k} : Kept(j)
<1> DEFINE e == [def |-> d, insert |-> insert, llmName |-> k.name,
                 bodyLoaded |-> b, bodyErr |-> "none", bodyWait |-> None]
           bk == [byKey EXCEPT ![k] = e]
<1>1. e \in Entry
  BY HandlesAssumption DEF Entry
<1>2. bk \in Entries
  BY <1>1 DEF TypeOK, Entries
<1>3. Install(bk)
  BY DEF Add
<1>4. bk[k] = e /\ e # None /\ \A j \in Keys \ {k} : bk[j] = byKey[j]
  BY <1>1, CatalogAssumption DEF TypeOK
<1>5. byKey[k] = None
  BY DEF Add, AlreadyExists, Registered
<1> HIDE DEF bk
<1> QED
  BY <1>2, <1>3, <1>4, <1>5, InstallKeeps DEF Kept

LEMMA RemoveEffect ==
  ASSUME TypeOK, NEW d \in Defs, Remove(d)
  PROVE  /\ byDef[d] \in Keys
         /\ byKey[byDef[d]] # None
         /\ byKey'[byDef[d]] = None
         /\ \A j \in Keys \ {byDef[d]} : Kept(j)
<1> DEFINE k == byDef[d]
           bk == [byKey EXCEPT ![k] = None]
<1>1. k \in Keys /\ byKey[k] # None
  BY DEF TypeOK, Remove, Registered
<1>2. bk \in Entries
  BY DEF TypeOK, Entries
<1>3. Install(bk)
  BY DEF Remove
<1>4. bk[k] = None /\ \A j \in Keys \ {k} : bk[j] = byKey[j]
  BY <1>1 DEF TypeOK
<1> HIDE DEF bk
<1> QED
  BY <1>1, <1>2, <1>3, <1>4, InstallKeeps DEF Kept

LEMMA BecomeLoaderEffect ==
  ASSUME TypeOK, NEW c \in Callers, BecomeLoader(c)
  PROVE  \E x \in Chans :
           /\ Fresh(x)
           /\ ch' = [ch EXCEPT ![c] = x]
           /\ closed' = closed \ {x}
           /\ byKey'[key[c]] # None
           /\ byKey'[key[c]].def = byKey[key[c]].def
           /\ byKey'[key[c]].llmName = byKey[key[c]].llmName
           /\ byKey'[key[c]].bodyLoaded = byKey[key[c]].bodyLoaded
           /\ byKey'[key[c]].bodyErr = byKey[key[c]].bodyErr
           /\ byKey'[key[c]].bodyWait = x
           /\ \A j \in Keys \ {key[c]} : byKey'[j] = byKey[j]
<1>1. PICK x \in Chans : /\ Fresh(x)
                         /\ byKey' = [byKey EXCEPT ![key[c]].bodyWait = x]
                         /\ ch' = [ch EXCEPT ![c] = x]
                         /\ closed' = closed \ {x}
  BY DEF BecomeLoader
<1>2. key[c] \in Keys /\ byKey[key[c]] \in Entry
  BY DEF TypeOK, BecomeLoader, Unresolved, Registered
<1> DEFINE e == [byKey[key[c]] EXCEPT !.bodyWait = x]
<1>3. /\ e \in Entry
      /\ e.def = byKey[key[c]].def
      /\ e.llmName = byKey[key[c]].llmName
      /\ e.bodyLoaded = byKey[key[c]].bodyLoaded
      /\ e.bodyErr = byKey[key[c]].bodyErr
      /\ e.bodyWait = x
  BY <1>2 DEF Entry
<1>4. byKey' = [byKey EXCEPT ![key[c]] = e]
  BY <1>1
<1> HIDE DEF e
<1>5. byKey'[key[c]] = e /\ \A j \in Keys \ {key[c]} : byKey'[j] = byKey[j]
  BY <1>2, <1>4 DEF TypeOK
<1>6. e # None
  BY <1>3, CatalogAssumption
<1> QED
  BY <1>1, <1>3, <1>5, <1>6

LEMMA FinishLoadEffect ==
  ASSUME TypeOK, NEW c \in Callers, NEW outcome \in Outcomes,
         FinishLoad(c, outcome), StillInstalled(c)
  PROVE  /\ key[c] \in Keys
         /\ byKey'[key[c]] # None
         /\ byKey'[key[c]].def = byKey[key[c]].def
         /\ byKey'[key[c]].llmName = byKey[key[c]].llmName
         /\ byKey[key[c]].bodyLoaded => byKey'[key[c]].bodyLoaded
         /\ outcome = "body" => byKey'[key[c]].bodyLoaded
         /\ outcome = "failed" => byKey'[key[c]].bodyErr = "failed"
         /\ byKey'[key[c]].bodyErr \in {"none", "failed", byKey[key[c]].bodyErr}
         /\ byKey'[key[c]].bodyWait = None
         /\ \A j \in Keys \ {key[c]} : byKey'[j] = byKey[j]
<1>1. byKey[key[c]] \in Entry /\ key[c] \in Keys
  BY DEF TypeOK, FinishLoad, StillInstalled, Registered
<1> DEFINE f == Cached(byKey[key[c]], outcome)
           e == [f EXCEPT !.bodyWait = None]
<1>2. /\ f \in Entry
      /\ f.def = byKey[key[c]].def
      /\ f.llmName = byKey[key[c]].llmName
      /\ byKey[key[c]].bodyLoaded => f.bodyLoaded
      /\ outcome = "body" => f.bodyLoaded
      /\ outcome = "failed" => f.bodyErr = "failed"
      /\ f.bodyErr \in {"none", "failed", byKey[key[c]].bodyErr}
  BY <1>1 DEF Cached, Entry, Outcomes
<1>3. byKey' = [byKey EXCEPT ![key[c]] = e]
  BY DEF FinishLoad
<1> HIDE DEF f
<1>4. /\ e \in Entry
      /\ e.def = f.def
      /\ e.llmName = f.llmName
      /\ e.bodyLoaded = f.bodyLoaded
      /\ e.bodyErr = f.bodyErr
      /\ e.bodyWait = None
  BY <1>2 DEF Entry
<1> HIDE DEF e
<1>5. byKey'[key[c]] = e /\ \A j \in Keys \ {key[c]} : byKey'[j] = byKey[j]
  BY <1>1, <1>3 DEF TypeOK
<1>6. e # None
  BY <1>4, CatalogAssumption
<1> QED
  BY <1>1, <1>2, <1>4, <1>5, <1>6

----------------------------------------------------------------------------
(* The two indexes *)

\* IndexesAgree looks at no more of an entry than its definition.
LEMMA SameDefsAgree ==
  IndexesAgree /\ byDef' = byDef
    /\ (\A k \in Keys : /\ byKey'[k] = None <=> byKey[k] = None
                        /\ byKey[k] # None => byKey'[k].def = byKey[k].def)
    => IndexesAgree'
  BY DEF IndexesAgree, Registered

LEMMA StepIndexes == TypeOK /\ IndexesAgree /\ [Next]_vars => IndexesAgree'
<1> SUFFICES ASSUME TypeOK, IndexesAgree, [Next]_vars PROVE IndexesAgree'
  OBVIOUS
<1> USE CatalogAssumption
<1>1. ASSUME NEW d \in Defs, NEW k \in Keys, NEW insert \in Inserts,
             NEW b \in BOOLEAN, Add(d, k, insert, b)
      PROVE  IndexesAgree'
  <2>1. byDef' = [byDef EXCEPT ![d] = k] /\ byDef[d] = None /\ byKey[k] = None
    BY <1>1 DEF Add, AlreadyExists, Registered
  <2>2. \A e \in Defs : byDef[e] # k
    BY <2>1 DEF IndexesAgree, Registered
  <2> QED
    BY <1>1, <2>1, <2>2, AddEffect DEF TypeOK, IndexesAgree, Registered, Kept
<1>2. ASSUME NEW d \in Defs, Remove(d)
      PROVE  IndexesAgree'
  <2>1. byKey[byDef[d]].def = d
    BY <1>2, RemoveEffect DEF IndexesAgree
  <2>2. byDef' = [byDef EXCEPT ![d] = None]
    BY <1>2, <2>1 DEF Remove
  <2> QED
    BY <1>2, <2>1, <2>2, RemoveEffect DEF TypeOK, IndexesAgree, Registered, Kept
<1>3. ASSUME NEW c \in Callers, BecomeLoader(c)
      PROVE  IndexesAgree'
  <2>1. key[c] \in Keys /\ byKey[key[c]] # None
    BY <1>3 DEF TypeOK, BecomeLoader, Unresolved, Registered
  <2>2. \A k \in Keys : /\ byKey'[k] = None <=> byKey[k] = None
                        /\ byKey[k] # None => byKey'[k].def = byKey[k].def
    BY <1>3, <2>1, BecomeLoaderEffect
  <2>3. byDef' = byDef
    BY <1>3 DEF BecomeLoader
  <2> QED
    BY <2>2, <2>3, SameDefsAgree
<1>4. ASSUME NEW c \in Callers, NEW outcome \in Outcomes, FinishLoad(c, outcome)
      PROVE  IndexesAgree'
  <2>1. byDef' = byDef
    BY <1>4 DEF FinishLoad
  <2>2. CASE StillInstalled(c)
    <3>1. byKey[key[c]] # None
      BY <2>2 DEF StillInstalled, Registered
    <3>2. \A k \in Keys : /\ byKey'[k] = None <=> byKey[k] = None
                          /\ byKey[k] # None => byKey'[k].def = byKey[k].def
      BY <1>4, <2>2, <3>1, FinishLoadEffect
    <3> QED
      BY <2>1, <3>2, SameDefsAgree
  <2>3. CASE ~ StillInstalled(c)
    BY <1>4, <2>1, <2>3, SameDefsAgree DEF FinishLoad
  <2> QED
    BY <2>2, <2>3
<1>5. CASE UNCHANGED <<byKey, byDef>>
  BY <1>5 DEF IndexesAgree, Registered
<1> QED
  BY <1>1, <1>2, <1>3, <1>4, <1>5
     DEF Next, Host, Step, Call, Cancel, CheckContext, Answered, JoinLoad, Wake,
         AbandonWait, vars, catalogVars

\* byDef and byKey stay inverse to each other in every behaviour
\* (catalog.go:131-150, 166-186).
THEOREM IndexesStayInverse == Spec => []IndexesAgree
<1>1. Init => IndexesAgree
  BY CatalogAssumption DEF Init, IndexesAgree, Registered
<1> QED
  BY <1>1, InitType, StepType, StepIndexes, PTL DEF Spec

----------------------------------------------------------------------------
(* Loads, channels and waiters *)

\* A waiter's channel is closed, or a load that will close it is under way.
Woken(c) ==
  \/ ch[c] \in closed
  \/ \E l \in Callers : /\ pc[l] = "load"
                        /\ ch[l] = ch[c]
                        /\ key[l] = key[c]
                        /\ StillInstalled(l)

Safe == FlightInv /\ NoPanic /\ NoLostWakeup

\* What a step does not disturb when it leaves entries, channels and loads
\* alone, and lets nobody wait for anything new.
LoadsKept ==
  /\ UNCHANGED <<byKey, closed, panicked>>
  /\ \A l \in Callers : /\ pc'[l] = "load" <=> pc[l] = "load"
                        /\ pc[l] = "load" => /\ key'[l] = key[l]
                                             /\ ch'[l] = ch[l]
                                             /\ disturbed'[l] = disturbed[l]

LEMMA KeptLoads ==
  Safe /\ LoadsKept
    => /\ FlightInv'
       /\ NoPanic'
       /\ \A c \in Callers :
            (ch'[c] = ch[c] /\ key'[c] = key[c] /\ Woken(c)) => Woken(c)'
<1> SUFFICES ASSUME Safe, LoadsKept
             PROVE  /\ FlightInv'
                    /\ NoPanic'
                    /\ \A c \in Callers :
                         (ch'[c] = ch[c] /\ key'[c] = key[c] /\ Woken(c))
                           => Woken(c)'
  OBVIOUS
<1>1. \A l \in Callers : pc[l] = "load" =>
        (StillInstalled(l)' <=> StillInstalled(l))
  BY DEF LoadsKept, StillInstalled, Registered
<1>2. LoaderInstalled'
  BY <1>1 DEF LoadsKept, Safe, FlightInv, LoaderInstalled
<1>3. DistinctChannels'
  BY DEF LoadsKept, Safe, FlightInv, DistinctChannels
<1>4. WaitOwned'
  BY DEF LoadsKept, Safe, FlightInv, WaitOwned, Registered, Unresolved
<1>5. NoPanic'
  BY DEF LoadsKept, Safe, NoPanic
<1>6. \A c \in Callers :
        (ch'[c] = ch[c] /\ key'[c] = key[c] /\ Woken(c)) => Woken(c)'
  BY <1>1 DEF LoadsKept, Woken
<1> QED
  BY <1>2, <1>3, <1>4, <1>5, <1>6 DEF FlightInv

\* The steps of callers that neither begin nor end a load.
LEMMA QuietStepSafe ==
  ASSUME TypeOK, Safe, NEW c \in Callers,
         \/ \E k \in Keys : Call(c, k)
         \/ Cancel(c)
         \/ CheckContext(c)
         \/ Answered(c)
         \/ JoinLoad(c)
         \/ Wake(c)
         \/ AbandonWait(c)
  PROVE  Safe'
<1>1. LoadsKept
  <2>1. ASSUME NEW k \in Keys, Call(c, k) PROVE LoadsKept
    BY <2>1 DEF TypeOK, LoadsKept, Call, catalogVars
  <2>2. CASE Cancel(c)
    BY <2>2 DEF TypeOK, LoadsKept, Cancel, catalogVars
  <2>3. CASE CheckContext(c)
    BY <2>3 DEF TypeOK, LoadsKept, CheckContext, Return, catalogVars
  <2>4. CASE Answered(c)
    BY <2>4 DEF TypeOK, LoadsKept, Answered, Return, catalogVars
  <2>5. CASE JoinLoad(c)
    BY <2>5 DEF TypeOK, LoadsKept, JoinLoad, catalogVars
  <2>6. CASE Wake(c)
    BY <2>6 DEF TypeOK, LoadsKept, Wake, Return, catalogVars
  <2>7. CASE AbandonWait(c)
    BY <2>7 DEF TypeOK, LoadsKept, AbandonWait, Return, catalogVars
  <2> QED
    BY <2>1, <2>2, <2>3, <2>4, <2>5, <2>6, <2>7
<1>2. \A x \in Callers : pc[x] = "wait" => Woken(x)
  BY DEF Safe, NoLostWakeup, Woken
<1>3. ASSUME NEW x \in Callers, pc'[x] = "wait" PROVE Woken(x)'
  <2>1. CASE ~ JoinLoad(c) \/ x # c
    <3>1. pc[x] = "wait" /\ ch'[x] = ch[x] /\ key'[x] = key[x]
      BY <1>3, <2>1 DEF TypeOK, Call, Cancel, CheckContext, Answered, JoinLoad,
                        Wake, AbandonWait, Return
    <3> QED
      BY <1>1, <1>2, <3>1, KeptLoads
  <2>2. CASE JoinLoad(c) /\ x = c
    <3>1. /\ key[c] \in Keys
          /\ Registered(key[c])
          /\ byKey[key[c]].bodyWait # None
          /\ ch'[c] = byKey[key[c]].bodyWait
          /\ key'[c] = key[c]
      BY <2>2 DEF TypeOK, JoinLoad, Unresolved, Registered, InFlight
    <3>2. PICK l \in Callers : /\ pc[l] = "load"
                               /\ key[l] = key[c]
                               /\ ch[l] = ch'[c]
                               /\ StillInstalled(l)
      BY <3>1 DEF Safe, FlightInv, WaitOwned, StillInstalled
    <3>3. /\ pc'[l] = "load"
          /\ key'[l] = key'[c]
          /\ ch'[l] = ch'[c]
          /\ StillInstalled(l)'
      BY <1>1, <3>1, <3>2 DEF LoadsKept, StillInstalled, Registered
    <3> QED
      BY <2>2, <3>3 DEF Woken
  <2> QED
    BY <2>1, <2>2
<1> QED
  BY <1>1, <1>3, KeptLoads DEF Safe, NoLostWakeup, Woken

LEMMA AddSafe ==
  ASSUME TypeOK, Safe, NEW d \in Defs, NEW k \in Keys, NEW insert \in Inserts,
         NEW b \in BOOLEAN, Add(d, k, insert, b)
  PROVE  Safe'
<1>1. UNCHANGED <<closed, panicked, pc, key, ch, disturbed>>
  BY DEF Add, callVars
<1>2. /\ byKey[k] = None
      /\ byKey'[k].bodyWait = None
      /\ \A j \in Keys \ {k} : Kept(j)
  BY AddEffect
<1>3. \A c \in Callers : pc[c] = "load" => key[c] \in Keys /\ ch[c] # None
  BY DEF TypeOK
<1>4. \A c \in Callers : pc[c] = "load" =>
        (StillInstalled(c)' <=> StillInstalled(c))
  BY <1>1, <1>2, <1>3 DEF StillInstalled, Registered, Kept
<1>5. LoaderInstalled'
  BY <1>1, <1>4 DEF Safe, FlightInv, LoaderInstalled
<1>6. DistinctChannels'
  BY <1>1 DEF Safe, FlightInv, DistinctChannels
<1>7. WaitOwned'
  BY <1>1, <1>2 DEF Safe, FlightInv, WaitOwned, Registered, Unresolved, Kept
<1>8. NoPanic'
  BY <1>1 DEF Safe, NoPanic
<1>9. NoLostWakeup'
  BY <1>1, <1>4 DEF Safe, NoLostWakeup
<1> QED
  BY <1>5, <1>6, <1>7, <1>8, <1>9 DEF Safe, FlightInv

\* Remove closes the channel of the entry it deletes, which is open, and so
\* wakes exactly the waiters whose load it overtakes.
LEMMA RemoveSafe ==
  ASSUME TypeOK, Safe, NEW d \in Defs, Remove(d)
  PROVE  Safe'
<1> DEFINE k == byDef[d]
<1>1. UNCHANGED <<pc, key, ch>>
  BY DEF Remove, callVars
<1>2. /\ k \in Keys
      /\ byKey[k] # None
      /\ byKey'[k] = None
      /\ \A j \in Keys \ {k} : Kept(j)
  BY RemoveEffect
<1>3. /\ closed' = closed \cup ({byKey[k].bodyWait} \ {None})
      /\ panicked' = (panicked \/ ({byKey[k].bodyWait} \ {None}) \cap closed # {})
      /\ disturbed' = [c \in Callers |->
                         disturbed[c] \/ (pc[c] # "idle" /\ key[c] = k)]
  BY DEF Remove, Close, WokenByRemove, Disturb
<1> HIDE DEF k
<1>4. \A c \in Callers : pc[c] = "load" => key[c] \in Keys /\ ch[c] # None
  BY DEF TypeOK
<1>5. \A c \in Callers : pc[c] = "load" =>
        (StillInstalled(c)' <=> StillInstalled(c) /\ key[c] # k)
  BY <1>1, <1>2, <1>4 DEF StillInstalled, Registered, Kept
<1>6. LoaderInstalled'
  BY <1>1, <1>3, <1>5 DEF Safe, FlightInv, LoaderInstalled
<1>7. DistinctChannels'
  BY <1>1 DEF Safe, FlightInv, DistinctChannels
<1>8. WaitOwned'
  <2> SUFFICES ASSUME NEW j \in Keys, Registered(j)', byKey'[j].bodyWait # None
               PROVE  /\ byKey'[j].bodyWait \notin closed'
                      /\ Unresolved(j)'
                      /\ \E c \in Callers : /\ pc'[c] = "load"
                                            /\ key'[c] = j
                                            /\ ch'[c] = byKey'[j].bodyWait
    BY DEF WaitOwned
  <2>1. /\ j # k
        /\ Registered(j)
        /\ byKey'[j].bodyWait = byKey[j].bodyWait
        /\ byKey'[j].bodyLoaded = byKey[j].bodyLoaded
        /\ byKey'[j].bodyErr = byKey[j].bodyErr
    BY <1>2 DEF Registered, Kept
  <2>2. PICK c \in Callers : /\ pc[c] = "load"
                             /\ key[c] = j
                             /\ ch[c] = byKey[j].bodyWait
    BY <2>1 DEF Safe, FlightInv, WaitOwned
  <2>3. byKey[j].bodyWait \notin closed /\ Unresolved(j)
    BY <2>1 DEF Safe, FlightInv, WaitOwned
  <2>4. byKey[k].bodyWait # byKey[j].bodyWait
    <3> SUFFICES ASSUME byKey[k].bodyWait = byKey[j].bodyWait PROVE FALSE
      OBVIOUS
    <3>1. PICK l \in Callers : /\ pc[l] = "load"
                               /\ key[l] = k
                               /\ ch[l] = byKey[k].bodyWait
      BY <1>2, <2>1 DEF Safe, FlightInv, WaitOwned, Registered
    <3> QED
      BY <2>1, <2>2, <3>1 DEF Safe, FlightInv, DistinctChannels
  <2>5. byKey'[j].bodyWait \notin closed'
    BY <1>3, <2>1, <2>3, <2>4
  <2> QED
    BY <1>1, <2>1, <2>2, <2>3, <2>5 DEF Unresolved, Registered
<1>9. NoPanic'
  BY <1>2, <1>3 DEF Safe, FlightInv, WaitOwned, NoPanic, Registered
<1>10. NoLostWakeup'
  <2> SUFFICES ASSUME NEW c \in Callers, pc[c] = "wait", ch[c] \notin closed'
               PROVE  \E l \in Callers : /\ pc'[l] = "load"
                                         /\ ch'[l] = ch'[c]
                                         /\ key'[l] = key'[c]
                                         /\ StillInstalled(l)'
    BY <1>1 DEF NoLostWakeup
  <2>1. PICK l \in Callers : /\ pc[l] = "load"
                             /\ ch[l] = ch[c]
                             /\ key[l] = key[c]
                             /\ StillInstalled(l)
    BY <1>3 DEF Safe, NoLostWakeup
  <2>2. key[l] # k
    BY <1>3, <1>4, <2>1 DEF StillInstalled
  <2> QED
    BY <1>1, <1>5, <2>1, <2>2
<1> QED
  BY <1>6, <1>7, <1>8, <1>9, <1>10 DEF Safe, FlightInv

\* The new channel is one nobody refers to, so no waiter falls back asleep.
LEMMA BecomeLoaderSafe ==
  ASSUME TypeOK, Safe, NEW c \in Callers, BecomeLoader(c)
  PROVE  Safe'
<1> DEFINE k == key[c]
<1>1. PICK x \in Chans : /\ Fresh(x)
                         /\ ch' = [ch EXCEPT ![c] = x]
                         /\ closed' = closed \ {x}
                         /\ byKey'[k] # None
                         /\ byKey'[k].bodyLoaded = byKey[k].bodyLoaded
                         /\ byKey'[k].bodyErr = byKey[k].bodyErr
                         /\ byKey'[k].bodyWait = x
                         /\ \A j \in Keys \ {k} : byKey'[j] = byKey[j]
  BY BecomeLoaderEffect
<1>2. /\ k \in Keys
      /\ pc[c] = "lookup"
      /\ Unresolved(k)
      /\ byKey[k].bodyWait = None
      /\ pc' = [pc EXCEPT ![c] = "load"]
      /\ disturbed' = [disturbed EXCEPT ![c] = FALSE]
      /\ UNCHANGED <<panicked, key>>
  BY DEF TypeOK, BecomeLoader, InFlight
<1> HIDE DEF k
<1>3. /\ ch'[c] = x /\ pc'[c] = "load" /\ disturbed'[c] = FALSE /\ key'[c] = k
      /\ \A l \in Callers \ {c} : /\ ch'[l] = ch[l]
                                  /\ ch[l] # x
                                  /\ pc'[l] = pc[l]
                                  /\ key'[l] = key[l]
                                  /\ disturbed'[l] = disturbed[l]
  BY <1>1, <1>2 DEF TypeOK, Fresh, k
<1>4. \A l \in Callers : pc[l] = "load" => key[l] \in Keys /\ ch[l] # None
  BY DEF TypeOK
<1>5. StillInstalled(c)'
  BY <1>1, <1>3 DEF StillInstalled, Registered
<1>6. \A l \in Callers \ {c} : pc[l] = "load" =>
        (StillInstalled(l)' <=> StillInstalled(l))
  BY <1>1, <1>2, <1>3, <1>4 DEF StillInstalled, Registered, Unresolved
<1>7. LoaderInstalled'
  BY <1>3, <1>5, <1>6 DEF Safe, FlightInv, LoaderInstalled
<1>8. DistinctChannels'
  BY <1>3 DEF Safe, FlightInv, DistinctChannels
<1>9. WaitOwned'
  <2> SUFFICES ASSUME NEW j \in Keys, Registered(j)', byKey'[j].bodyWait # None
               PROVE  /\ byKey'[j].bodyWait \notin closed'
                      /\ Unresolved(j)'
                      /\ \E l \in Callers : /\ pc'[l] = "load"
                                            /\ key'[l] = j
                                            /\ ch'[l] = byKey'[j].bodyWait
    BY DEF WaitOwned
  <2>1. CASE j = k
    BY <1>1, <1>2, <1>3, <2>1 DEF Unresolved, Registered
  <2>2. CASE j # k
    <3>1. byKey'[j] = byKey[j] /\ Registered(j)
      BY <1>1, <2>2 DEF Registered
    <3>2. PICK l \in Callers : /\ pc[l] = "load"
                               /\ key[l] = j
                               /\ ch[l] = byKey[j].bodyWait
      BY <3>1 DEF Safe, FlightInv, WaitOwned
    <3>3. byKey[j].bodyWait \notin closed /\ Unresolved(j)
      BY <3>1 DEF Safe, FlightInv, WaitOwned
    <3>4. l # c
      BY <1>2, <3>2
    <3> QED
      BY <1>1, <1>3, <3>1, <3>2, <3>3, <3>4 DEF Unresolved, Registered
  <2> QED
    BY <2>1, <2>2
<1>10. NoPanic'
  BY <1>2 DEF Safe, NoPanic
<1>11. NoLostWakeup'
  <2> SUFFICES ASSUME NEW w \in Callers, pc'[w] = "wait", ch'[w] \notin closed'
               PROVE  \E l \in Callers : /\ pc'[l] = "load"
                                         /\ ch'[l] = ch'[w]
                                         /\ key'[l] = key'[w]
                                         /\ StillInstalled(l)'
    BY DEF NoLostWakeup
  <2>1. w # c /\ pc[w] = "wait" /\ ch[w] \notin closed
    BY <1>1, <1>3
  <2>2. PICK l \in Callers : /\ pc[l] = "load"
                             /\ ch[l] = ch[w]
                             /\ key[l] = key[w]
                             /\ StillInstalled(l)
    BY <2>1 DEF Safe, NoLostWakeup
  <2>3. l # c
    BY <1>2, <2>2
  <2> QED
    BY <1>3, <1>6, <2>1, <2>2, <2>3
<1> QED
  BY <1>7, <1>8, <1>9, <1>10, <1>11 DEF Safe, FlightInv

\* A load that ends publishes and closes only if it is still installed; then
\* no other load of the key is, and its channel was open.
LEMMA FinishLoadSafe ==
  ASSUME TypeOK, Safe, NEW c \in Callers, NEW outcome \in Outcomes,
         FinishLoad(c, outcome)
  PROVE  Safe'
<1> DEFINE k == key[c]
<1>1. /\ pc[c] = "load" /\ pc'[c] # "load" /\ pc'[c] # "wait" /\ k \in Keys
      /\ \A l \in Callers \ {c} : /\ ch'[l] = ch[l]
                                  /\ pc'[l] = pc[l]
                                  /\ key'[l] = key[l]
  BY DEF TypeOK, FinishLoad, Return
<1>2. \A l \in Callers : pc[l] = "load" => key[l] \in Keys /\ ch[l] # None
  BY DEF TypeOK
<1>3. DistinctChannels'
  BY <1>1 DEF Safe, FlightInv, DistinctChannels
<1>4. CASE StillInstalled(c)
  <2>1. /\ byKey'[k] # None
        /\ byKey'[k].bodyWait = None
        /\ \A j \in Keys \ {k} : byKey'[j] = byKey[j]
    BY <1>4, FinishLoadEffect
  <2>2. /\ Registered(k)
        /\ byKey[k].bodyWait = ch[c]
        /\ closed' = closed \cup {ch[c]}
        /\ panicked' = (panicked \/ {ch[c]} \cap closed # {})
        /\ \A l \in Callers : key[l] # k => disturbed'[l] = disturbed[l]
        /\ \A l \in Callers : disturbed[l] => disturbed'[l]
    BY <1>4 DEF TypeOK, FinishLoad, StillInstalled, Close, Disturb
  <2>3. ch[c] \notin closed
    BY <1>1, <1>2, <2>2 DEF Safe, FlightInv, WaitOwned
  <2> HIDE DEF k
  <2>4. \A l \in Callers \ {c} : (pc[l] = "load" /\ key[l] = k) =>
          ~ StillInstalled(l) /\ disturbed[l]
    BY <1>1, <2>2 DEF Safe, FlightInv, DistinctChannels, LoaderInstalled,
                      StillInstalled
  <2>5. \A l \in Callers \ {c} : pc[l] = "load" =>
          (StillInstalled(l)' <=> StillInstalled(l))
    BY <1>1, <1>2, <2>1, <2>4 DEF StillInstalled, Registered
  <2>6. LoaderInstalled'
    <3> SUFFICES ASSUME NEW l \in Callers \ {c}, pc[l] = "load"
                 PROVE  StillInstalled(l)' <=> ~ disturbed'[l]
      BY <1>1 DEF LoaderInstalled
    <3>1. StillInstalled(l) <=> ~ disturbed[l]
      BY DEF Safe, FlightInv, LoaderInstalled
    <3>2. CASE key[l] = k
      BY <2>2, <2>4, <2>5, <3>2
    <3>3. CASE key[l] # k
      BY <2>2, <2>5, <3>1, <3>3
    <3> QED
      BY <3>2, <3>3
  <2>7. WaitOwned'
    <3> SUFFICES ASSUME NEW j \in Keys, Registered(j)', byKey'[j].bodyWait # None
                 PROVE  /\ byKey'[j].bodyWait \notin closed'
                        /\ Unresolved(j)'
                        /\ \E l \in Callers : /\ pc'[l] = "load"
                                              /\ key'[l] = j
                                              /\ ch'[l] = byKey'[j].bodyWait
      BY DEF WaitOwned
    <3>1. j # k /\ byKey'[j] = byKey[j] /\ Registered(j)
      BY <2>1 DEF Registered
    <3>2. PICK l \in Callers : /\ pc[l] = "load"
                               /\ key[l] = j
                               /\ ch[l] = byKey[j].bodyWait
      BY <3>1 DEF Safe, FlightInv, WaitOwned
    <3>3. byKey[j].bodyWait \notin closed /\ Unresolved(j)
      BY <3>1 DEF Safe, FlightInv, WaitOwned
    <3>4. l # c
      BY <3>1, <3>2 DEF k
    <3>5. ch[l] # ch[c]
      BY <1>1, <3>2, <3>4 DEF Safe, FlightInv, DistinctChannels
    <3> QED
      BY <1>1, <2>2, <3>1, <3>2, <3>3, <3>4, <3>5 DEF Unresolved, Registered
  <2>8. NoPanic'
    BY <2>2, <2>3 DEF Safe, NoPanic
  <2>9. NoLostWakeup'
    <3> SUFFICES ASSUME NEW w \in Callers, pc'[w] = "wait", ch'[w] \notin closed'
                 PROVE  \E l \in Callers : /\ pc'[l] = "load"
                                           /\ ch'[l] = ch'[w]
                                           /\ key'[l] = key'[w]
                                           /\ StillInstalled(l)'
      BY DEF NoLostWakeup
    <3>1. w # c /\ pc[w] = "wait" /\ ch[w] \notin closed /\ ch[w] # ch[c]
      BY <1>1, <2>2
    <3>2. PICK l \in Callers : /\ pc[l] = "load"
                               /\ ch[l] = ch[w]
                               /\ key[l] = key[w]
                               /\ StillInstalled(l)
      BY <3>1 DEF Safe, NoLostWakeup
    <3>3. l # c
      BY <3>1, <3>2
    <3> QED
      BY <1>1, <2>5, <3>1, <3>2, <3>3
  <2> QED
    BY <1>3, <2>6, <2>7, <2>8, <2>9 DEF Safe, FlightInv
<1>5. CASE ~ StillInstalled(c)
  <2>1. UNCHANGED <<byKey, closed, panicked, disturbed>>
    BY <1>5 DEF FinishLoad
  <2>2. \A l \in Callers \ {c} : StillInstalled(l)' <=> StillInstalled(l)
    BY <1>1, <2>1 DEF StillInstalled, Registered
  <2>3. LoaderInstalled'
    BY <1>1, <2>1, <2>2 DEF Safe, FlightInv, LoaderInstalled
  <2>4. WaitOwned'
    <3>1. \A j \in Keys : (Registered(j) /\ byKey[j].bodyWait # None) =>
            \E l \in Callers \ {c} : /\ pc[l] = "load"
                                     /\ key[l] = j
                                     /\ ch[l] = byKey[j].bodyWait
      BY <1>5 DEF Safe, FlightInv, WaitOwned, StillInstalled
    <3> QED
      BY <1>1, <2>1, <3>1 DEF Safe, FlightInv, WaitOwned, Registered, Unresolved
  <2>5. NoPanic'
    BY <2>1 DEF Safe, NoPanic
  <2>6. NoLostWakeup'
    BY <1>1, <1>5, <2>1, <2>2 DEF Safe, NoLostWakeup
  <2> QED
    BY <1>3, <2>3, <2>4, <2>5, <2>6 DEF Safe, FlightInv
<1> QED
  BY <1>4, <1>5

LEMMA InitSafe == Init => Safe
  BY DEF Init, Safe, FlightInv, LoaderInstalled, DistinctChannels, WaitOwned,
         NoPanic, NoLostWakeup, Registered

LEMMA StepSafe == TypeOK /\ Safe /\ [Next]_vars => Safe'
<1> SUFFICES ASSUME TypeOK, Safe, [Next]_vars PROVE Safe'
  OBVIOUS
<1>1. CASE Host
  BY <1>1, AddSafe, RemoveSafe DEF Host
<1>2. ASSUME NEW c \in Callers, \/ \E k \in Keys : Call(c, k)
                                \/ Cancel(c)
                                \/ Step(c)
      PROVE  Safe'
  BY <1>2, QuietStepSafe, BecomeLoaderSafe, FinishLoadSafe DEF Step
<1>3. CASE UNCHANGED vars
  BY <1>3 DEF vars, Safe, FlightInv, LoaderInstalled, DistinctChannels, WaitOwned,
              NoPanic, NoLostWakeup, Registered, Unresolved, StillInstalled
<1> QED
  BY <1>1, <1>2, <1>3 DEF Next

LEMMA AlwaysSafe == Spec => [](TypeOK /\ Safe)
<1>1. Init => TypeOK /\ Safe
  BY InitType, InitSafe
<1>2. TypeOK /\ Safe /\ [Next]_vars => (TypeOK /\ Safe)'
  BY StepType, StepSafe
<1> QED
  BY <1>1, <1>2, PTL DEF Spec

\* No interleaving of Remove, registration under the same key and
\* finishBodyLoad closes a channel twice (catalog.go:178-181, 416-436).
THEOREM NeverPanics == Spec => []NoPanic
<1>1. Safe => NoPanic
  BY DEF Safe
<1> QED
  BY <1>1, AlwaysSafe, PTL

\* A waiter of EnsureBody has been woken, or the load it waits for is under
\* way and will wake it (catalog.go:264-271).
THEOREM WakeupsNotLost == Spec => []NoLostWakeup
<1>1. Safe => NoLostWakeup
  BY DEF Safe
<1> QED
  BY <1>1, AlwaysSafe, PTL

\* Two callers load for one key only if a Remove came between them
\* (catalog.go:251-261).
THEOREM OneLoadPerEntry == Spec => []SingleFlight
<1>1. Safe => SingleFlight
  BY DEF Safe, FlightInv, LoaderInstalled, DistinctChannels, StillInstalled,
         SingleFlight
<1> QED
  BY <1>1, AlwaysSafe, PTL

\* What is published in an entry is the result of the load begun for it, never
\* of one a Remove overtook (catalog.go:420-427).
THEOREM OnlyCurrentPublished == Spec => PublishOnlyCurrent
<1> DEFINE Published ==
             \A k \in Keys :
               (Registered(k) /\ Registered(k)' /\ Unresolved(k) /\ ~ Unresolved(k)')
                 => \E c \in Callers : /\ pc[c] = "load"
                                       /\ key[c] = k
                                       /\ pc'[c] = "idle"
                                       /\ ~ disturbed[c]
<1>1. TypeOK /\ Safe /\ [Next]_vars => [Published]_vars
  <2> SUFFICES ASSUME TypeOK, Safe, [Next]_vars, ~ (UNCHANGED vars),
                      NEW k \in Keys, Registered(k), Registered(k)',
                      Unresolved(k), ~ Unresolved(k)'
               PROVE  \E c \in Callers : /\ pc[c] = "load"
                                         /\ key[c] = k
                                         /\ pc'[c] = "idle"
                                         /\ ~ disturbed[c]
    OBVIOUS
  <2>1. ASSUME NEW d \in Defs, NEW j \in Keys, NEW insert \in Inserts,
               NEW b \in BOOLEAN, Add(d, j, insert, b)
        PROVE  FALSE
    BY <2>1, AddEffect DEF Registered, Unresolved, Kept
  <2>2. ASSUME NEW d \in Defs, Remove(d)
        PROVE  FALSE
    BY <2>2, RemoveEffect DEF Registered, Unresolved, Kept
  <2>3. ASSUME NEW c \in Callers, BecomeLoader(c)
        PROVE  FALSE
    BY <2>3, BecomeLoaderEffect DEF Registered, Unresolved
  <2>4. ASSUME NEW c \in Callers, NEW outcome \in Outcomes,
               FinishLoad(c, outcome)
        PROVE  pc[c] = "load" /\ key[c] = k /\ pc'[c] = "idle" /\ ~ disturbed[c]
    <3>1. StillInstalled(c)
      BY <2>4 DEF FinishLoad, Registered, Unresolved
    <3>2. key[c] = k
      BY <2>4, <3>1, FinishLoadEffect DEF Registered, Unresolved
    <3>3. pc[c] = "load" /\ pc'[c] = "idle"
      BY <2>4 DEF TypeOK, FinishLoad, Return
    <3> QED
      BY <3>1, <3>2, <3>3 DEF Safe, FlightInv, LoaderInstalled
  <2>5. UNCHANGED byKey => FALSE
    BY DEF Registered, Unresolved
  <2> QED
    BY <2>1, <2>2, <2>3, <2>4, <2>5
       DEF Next, Host, Step, Call, Cancel, CheckContext, Answered, JoinLoad, Wake,
           AbandonWait, vars, catalogVars
<1>2. Spec => [][Published]_vars
  BY <1>1, AlwaysSafe, PTL DEF Spec
<1> QED
  BY <1>2 DEF PublishOnlyCurrent

----------------------------------------------------------------------------
(* Rounds of undisturbed calls *)

\* The steps of callers that neither begin nor end a load.
LEMMA QuietCallerStep ==
  ASSUME TypeOK, Safe, QuietInv, NEW c \in Callers,
         \/ \E k \in Keys : Call(c, k)
         \/ Cancel(c)
         \/ CheckContext(c)
         \/ Answered(c)
         \/ JoinLoad(c)
         \/ Wake(c)
         \/ AbandonWait(c)
  PROVE  QuietInv'
<1> USE CatalogAssumption
<1>1. UNCHANGED <<byKey, closed>>
  BY DEF Call, Cancel, CheckContext, Answered, JoinLoad, Wake, AbandonWait,
         catalogVars
<1>2. \A x \in Callers \ {c} :
        /\ pc'[x] = pc[x]
        /\ key'[x] = key[x]
        /\ ch'[x] = ch[x]
        /\ attempt'[x] = attempt[x]
        /\ res'[x] = res[x]
        /\ disturbed'[x] = disturbed[x]
  BY DEF TypeOK, Call, Cancel, CheckContext, Answered, JoinLoad, Wake,
         AbandonWait, Return
<1>3. SUFFICES Quiet(c)'
  <2>1. \A x \in Callers \ {c} : Quiet(x)' <=> Quiet(x)
    BY <1>1, <1>2 DEF Quiet, QuietWait, QuietRetry, QuietResult, Registered,
                      Unresolved
  <2> QED
    BY <1>3, <2>1 DEF QuietInv
<1>4. Quiet(c)
  BY DEF QuietInv
<1> USE DEF Quiet, QuietWait, QuietRetry, QuietResult
<1>5. ASSUME NEW k \in Keys, Call(c, k) PROVE Quiet(c)'
  <2>1. pc'[c] = "check" /\ attempt'[c] = 1 /\ res'[c] = "none"
    BY <1>5 DEF TypeOK, Call
  <2> QED
    BY <2>1
<1>6. CASE Cancel(c)
  BY <1>1, <1>4, <1>6 DEF Cancel, Registered, Unresolved
<1>7. ASSUME NEW r \in Results \ {"exhausted"}, Return(c, r) PROVE Quiet(c)'
  <2>1. pc'[c] = "idle" /\ attempt'[c] = 0 /\ res'[c] # "exhausted"
    BY <1>7 DEF TypeOK, Return
  <2> QED
    BY <2>1
<1>8. CASE CheckContext(c)
  <2>1. CASE Return(c, "ctx")
    BY <1>7, <2>1 DEF Results, Outcomes
  <2>2. CASE pc' = [pc EXCEPT ![c] = "lookup"]
             /\ UNCHANGED <<key, ch, attempt, done, res>>
    <3>1. /\ pc'[c] = "lookup" /\ pc[c] = "check"
          /\ UNCHANGED <<key, ch, attempt, res, disturbed>>
      BY <1>8, <2>2 DEF TypeOK, CheckContext
    <3> QED
      BY <1>1, <1>4, <3>1 DEF Registered, Unresolved
  <2> QED
    BY <1>8, <2>1, <2>2 DEF CheckContext
<1>9. CASE Answered(c)
  <2>1. PICK r \in Results \ {"exhausted"} : Return(c, r)
    BY <1>9 DEF TypeOK, Answered, Registered, Entry, Results, Outcomes
  <2> QED
    BY <1>7, <2>1
<1>10. CASE JoinLoad(c)
  <2>1. /\ pc[c] = "lookup" /\ pc'[c] = "wait"
        /\ ch'[c] = byKey[key[c]].bodyWait
        /\ Unresolved(key[c])
        /\ byKey[key[c]].bodyWait # None
        /\ key[c] \in Keys
        /\ UNCHANGED <<key, attempt, res, disturbed>>
    BY <1>10 DEF TypeOK, JoinLoad, InFlight
  <2>2. ch'[c] \notin closed
    BY <2>1 DEF Safe, FlightInv, WaitOwned, Unresolved
  <2> QED
    BY <1>1, <1>4, <2>1, <2>2 DEF Registered, Unresolved
<1>11. CASE Wake(c)
  <2>1. pc[c] = "wait" /\ ch[c] \in closed /\ disturbed' = disturbed
    BY <1>11 DEF Wake
  <2>2. CASE RetryLeft(c) /\ UNCHANGED <<key, done, res>>
                          /\ pc' = [pc EXCEPT ![c] = "check"]
    <3>1. pc'[c] = "check"
      BY <2>2 DEF TypeOK
    <3> QED
      BY <1>1, <1>4, <2>1, <2>2, <3>1 DEF Registered, Unresolved
  <2>3. CASE ~ RetryLeft(c) /\ Return(c, "exhausted")
    <3>1. attempt[c] >= 2
      BY <2>3 DEF TypeOK, RetryLeft
    <3>2. pc'[c] = "idle" /\ attempt'[c] = 0
      BY <2>3 DEF TypeOK, Return
    <3> QED
      BY <1>4, <2>1, <3>1, <3>2
  <2> QED
    BY <1>11, <2>2, <2>3 DEF Wake
<1>12. CASE AbandonWait(c)
  BY <1>7, <1>12 DEF AbandonWait, Results, Outcomes
<1> QED
  BY <1>5, <1>6, <1>8, <1>9, <1>10, <1>11, <1>12

\* Other calls see a new load only if the entry had no answer, and so had not
\* been waited for by an undisturbed call.
LEMMA QuietBecomeLoader ==
  ASSUME TypeOK, Safe, QuietInv, NEW c \in Callers, BecomeLoader(c)
  PROVE  QuietInv'
<1> DEFINE k == key[c]
<1>1. PICK x \in Chans : /\ Fresh(x)
                         /\ ch' = [ch EXCEPT ![c] = x]
                         /\ closed' = closed \ {x}
                         /\ byKey'[k] # None
                         /\ byKey'[k].bodyLoaded = byKey[k].bodyLoaded
                         /\ byKey'[k].bodyErr = byKey[k].bodyErr
                         /\ \A j \in Keys \ {k} : byKey'[j] = byKey[j]
  BY BecomeLoaderEffect
<1>2. /\ k \in Keys
      /\ pc[c] = "lookup"
      /\ Unresolved(k)
      /\ byKey[k].bodyWait = None
      /\ pc' = [pc EXCEPT ![c] = "load"]
      /\ disturbed' = [disturbed EXCEPT ![c] = FALSE]
      /\ UNCHANGED <<key, attempt, res>>
  BY DEF TypeOK, BecomeLoader, InFlight
<1> HIDE DEF k
<1>3. \A j \in Keys : /\ Registered(j)' <=> Registered(j)
                      /\ Unresolved(j)' <=> Unresolved(j)
  BY <1>1, <1>2 DEF Registered, Unresolved
<1>4. Quiet(c)'
  <2>1. pc'[c] = "load" /\ res[c] = "none"
    BY <1>2 DEF TypeOK, QuietInv, Quiet, QuietResult
  <2> QED
    BY <1>2, <2>1 DEF Quiet, QuietWait, QuietRetry, QuietResult
<1>5. ASSUME NEW w \in Callers \ {c} PROVE Quiet(w)'
  <2>1. /\ pc'[w] = pc[w] /\ ch'[w] = ch[w] /\ ch[w] # x
        /\ disturbed'[w] = disturbed[w]
        /\ pc[w] # "idle" => key[w] \in Keys
        /\ pc[w] = "wait" => ch[w] # None
    BY <1>1, <1>2 DEF TypeOK, Fresh
  <2>2. Quiet(w)
    BY DEF QuietInv
  <2>3. QuietWait(w)'
    <3>1. (pc[w] = "wait" /\ ~ disturbed[w] /\ ch[w] \notin closed) => key[w] # k
      BY <1>2, <2>1, <2>2 DEF Quiet, QuietWait
    <3>2. (pc[w] = "wait" /\ key[w] # k) => byKey'[key[w]] = byKey[key[w]]
      BY <1>1, <2>1
    <3> QED
      BY <1>1, <1>2, <1>3, <2>1, <2>2, <3>1, <3>2 DEF Quiet, QuietWait
  <2>4. QuietRetry(w)'
    BY <1>2, <1>3, <2>1, <2>2 DEF Quiet, QuietRetry
  <2>5. QuietResult(w)'
    BY <1>2, <2>1, <2>2 DEF Quiet, QuietResult
  <2> QED
    BY <2>3, <2>4, <2>5 DEF Quiet
<1> QED
  BY <1>4, <1>5 DEF QuietInv

\* A load that ends leaves an answer behind, or disturbs the calls for its key.
LEMMA QuietFinishLoad ==
  ASSUME TypeOK, Safe, QuietInv, NEW c \in Callers, NEW outcome \in Outcomes,
         FinishLoad(c, outcome)
  PROVE  QuietInv'
<1> DEFINE k == key[c]
<1>1. /\ pc[c] = "load" /\ pc'[c] = "idle" /\ attempt'[c] = 0
      /\ res'[c] # "exhausted"
      /\ k \in Keys
      /\ \A w \in Callers \ {c} : /\ ch'[w] = ch[w]
                                  /\ pc'[w] = pc[w]
                                  /\ key'[w] = key[w]
                                  /\ attempt'[w] = attempt[w]
                                  /\ res'[w] = res[w]
  BY DEF TypeOK, FinishLoad, Return, Outcomes
<1>2. Quiet(c)'
  BY <1>1 DEF Quiet, QuietWait, QuietRetry, QuietResult
<1>3. CASE StillInstalled(c)
  <2>1. /\ byKey'[k] # None
        /\ byKey[k].bodyLoaded => byKey'[k].bodyLoaded
        /\ outcome = "body" => byKey'[k].bodyLoaded
        /\ outcome = "failed" => byKey'[k].bodyErr = "failed"
        /\ \A j \in Keys \ {k} : byKey'[j] = byKey[j]
    BY <1>3, FinishLoadEffect
  <2>2. /\ Registered(k)
        /\ byKey[k].bodyWait = ch[c]
        /\ ch[c] # None
        /\ closed' = closed \cup {ch[c]}
        /\ \A w \in Callers : disturbed[w] => disturbed'[w]
        /\ outcome = "ctx" =>
             \A w \in Callers : (pc[w] # "idle" /\ key[w] = k) => disturbed'[w]
    BY <1>3 DEF TypeOK, FinishLoad, StillInstalled, Close, Disturb
  <2> HIDE DEF k
  <2>3. outcome # "ctx" => byKey'[k].bodyLoaded \/ byKey'[k].bodyErr # "none"
    BY <2>1 DEF Outcomes
  <2>4. Unresolved(k)
    BY <1>1, <2>2 DEF Safe, FlightInv, WaitOwned
  <2>5. \A j \in Keys \ {k} : /\ Registered(j)' <=> Registered(j)
                              /\ Unresolved(j)' <=> Unresolved(j)
                              /\ byKey'[j].bodyWait = byKey[j].bodyWait
    BY <2>1 DEF Registered, Unresolved
  <2>6. ASSUME NEW w \in Callers \ {c} PROVE Quiet(w)'
    <3>1. /\ Quiet(w)
          /\ pc[w] # "idle" => key[w] \in Keys
          /\ pc[w] = "wait" => ch[w] # None
      BY DEF QuietInv, TypeOK
    <3>2. QuietResult(w)'
      BY <1>1, <2>2, <3>1 DEF Quiet, QuietResult
    <3>3. CASE key[w] # k
      <4>1. (pc[w] = "wait" /\ ~ disturbed[w] /\ ch[w] \notin closed)
              => ch[w] # ch[c]
        <5> SUFFICES ASSUME pc[w] = "wait", ~ disturbed[w], ch[w] \notin closed,
                            ch[w] = ch[c]
                     PROVE  FALSE
          OBVIOUS
        <5>1. Registered(key[w]) /\ byKey[key[w]].bodyWait = ch[w]
          BY <3>1 DEF Quiet, QuietWait
        <5>2. PICK l \in Callers : pc[l] = "load" /\ key[l] = key[w] /\ ch[l] = ch[w]
          BY <3>1, <5>1 DEF Safe, FlightInv, WaitOwned
        <5> QED
          BY <1>1, <3>3, <5>2 DEF Safe, FlightInv, DistinctChannels, k
      <4> QED
        BY <1>1, <2>2, <2>5, <3>1, <3>2, <3>3, <4>1
           DEF Quiet, QuietWait, QuietRetry
    <3>4. CASE key[w] = k
      <4>1. (pc[w] = "wait" /\ ~ disturbed[w]) => ch[w] = ch[c]
        BY <2>2, <2>4, <3>1, <3>4 DEF Quiet, QuietWait
      <4>2. CASE outcome = "ctx"
        BY <1>1, <2>2, <3>1, <3>2, <3>4, <4>2 DEF Quiet, QuietWait, QuietRetry
      <4>3. CASE outcome # "ctx"
        BY <1>1, <2>1, <2>2, <2>3, <3>1, <3>2, <3>4, <4>1, <4>3
           DEF Quiet, QuietWait, QuietRetry, Registered, Unresolved
      <4> QED
        BY <4>2, <4>3
    <3> QED
      BY <3>3, <3>4
  <2> QED
    BY <1>2, <2>6 DEF QuietInv
<1>4. CASE ~ StillInstalled(c)
  <2>1. UNCHANGED <<byKey, closed, disturbed>>
    BY <1>4 DEF FinishLoad
  <2>2. \A w \in Callers \ {c} : Quiet(w)' <=> Quiet(w)
    BY <1>1, <2>1 DEF Quiet, QuietWait, QuietRetry, QuietResult, Registered,
                      Unresolved
  <2> QED
    BY <1>2, <2>2 DEF QuietInv
<1> QED
  BY <1>3, <1>4

LEMMA QuietHost ==
  ASSUME TypeOK, Safe, QuietInv, Host
  PROVE  QuietInv'
<1>1. UNCHANGED <<pc, key, ch, attempt, res>>
  BY DEF Host, Add, Remove, callVars
<1>2. ASSUME NEW d \in Defs, NEW k \in Keys, NEW insert \in Inserts,
             NEW b \in BOOLEAN, Add(d, k, insert, b)
      PROVE  QuietInv'
  <2>1. UNCHANGED <<closed, disturbed>>
    BY <1>2 DEF Add
  <2>2. \A j \in Keys : Registered(j) =>
          /\ Registered(j)'
          /\ Unresolved(j)' <=> Unresolved(j)
          /\ byKey'[j].bodyWait = byKey[j].bodyWait
    BY <1>2, AddEffect DEF Registered, Unresolved, Kept
  <2>3. ASSUME NEW c \in Callers PROVE Quiet(c)'
    <3>1. Quiet(c) /\ (pc[c] # "idle" => key[c] \in Keys)
      BY DEF QuietInv, TypeOK
    <3> QED
      BY <1>1, <2>1, <2>2, <3>1 DEF Quiet, QuietWait, QuietRetry, QuietResult
  <2> QED
    BY <2>3 DEF QuietInv
<1>3. ASSUME NEW d \in Defs, Remove(d) PROVE QuietInv'
  <2> DEFINE k == byDef[d]
  <2>1. /\ closed' = closed \cup ({byKey[k].bodyWait} \ {None})
        /\ \A c \in Callers : disturbed[c] => disturbed'[c]
        /\ \A c \in Callers : (pc[c] # "idle" /\ key[c] = k) => disturbed'[c]
    BY <1>3 DEF Remove, Close, WokenByRemove, Disturb
  <2>2. k \in Keys /\ Registered(k)
    BY <1>3, RemoveEffect DEF Registered
  <2>3. \A j \in Keys \ {k} :
          /\ Registered(j)' <=> Registered(j)
          /\ Unresolved(j)' <=> Unresolved(j)
          /\ Registered(j) => byKey'[j].bodyWait = byKey[j].bodyWait
    BY <1>3, RemoveEffect DEF Registered, Unresolved, Kept
  <2> HIDE DEF k
  <2>4. ASSUME NEW c \in Callers PROVE Quiet(c)'
    <3>1. Quiet(c) /\ (pc[c] # "idle" => key[c] \in Keys)
      BY DEF QuietInv, TypeOK
    <3>2. QuietResult(c)'
      BY <1>1, <2>1, <3>1 DEF Quiet, QuietResult
    <3>3. CASE key[c] = k
      BY <1>1, <2>1, <3>1, <3>2, <3>3 DEF Quiet, QuietWait, QuietRetry
    <3>4. CASE key[c] # k
      <4>1. (pc[c] = "wait" /\ ~ disturbed[c] /\ ch[c] \notin closed)
              => ch[c] \notin closed'
        <5> SUFFICES ASSUME pc[c] = "wait", ~ disturbed[c], ch[c] \notin closed,
                            ch[c] = byKey[k].bodyWait, ch[c] # None
                     PROVE  FALSE
          BY <2>1
        <5>1. Registered(key[c]) /\ byKey[key[c]].bodyWait = ch[c]
          BY <3>1 DEF Quiet, QuietWait
        <5>2. PICK l \in Callers : pc[l] = "load" /\ key[l] = key[c] /\ ch[l] = ch[c]
          BY <3>1, <5>1 DEF Safe, FlightInv, WaitOwned
        <5>3. PICK m \in Callers : pc[m] = "load" /\ key[m] = k /\ ch[m] = ch[c]
          BY <2>2 DEF Safe, FlightInv, WaitOwned
        <5> QED
          BY <3>4, <5>2, <5>3 DEF Safe, FlightInv, DistinctChannels
      <4> QED
        BY <1>1, <2>1, <2>3, <3>1, <3>2, <3>4, <4>1
           DEF Quiet, QuietWait, QuietRetry
    <3> QED
      BY <3>3, <3>4
  <2> QED
    BY <2>4 DEF QuietInv
<1> QED
  BY <1>2, <1>3 DEF Host

\* EnsureBody uses its five rounds up only if, meanwhile, the skill was removed
\* or a load was cancelled (catalog.go:230-284).
THEOREM QuietCallsSucceed == Spec => []QuietCallSucceeds
<1>1. Init => QuietInv
  BY CatalogAssumption
     DEF Init, QuietInv, Quiet, QuietWait, QuietRetry, QuietResult
<1>2. TypeOK /\ Safe /\ QuietInv /\ [Next]_vars => QuietInv'
  <2> SUFFICES ASSUME TypeOK, Safe, QuietInv, [Next]_vars PROVE QuietInv'
    OBVIOUS
  <2>1. ASSUME NEW c \in Callers, \/ \E k \in Keys : Call(c, k)
                                  \/ Cancel(c)
                                  \/ Step(c)
        PROVE  QuietInv'
    BY <2>1, QuietCallerStep, QuietBecomeLoader, QuietFinishLoad DEF Step
  <2>2. CASE UNCHANGED vars
    BY <2>2 DEF vars, QuietInv, Quiet, QuietWait, QuietRetry, QuietResult,
                Registered, Unresolved
  <2> QED
    BY <2>1, <2>2, QuietHost DEF Next
<1>3. QuietInv => QuietCallSucceeds
  BY DEF QuietInv, Quiet, QuietResult, QuietCallSucceeds
<1> QED
  BY <1>1, <1>2, <1>3, AlwaysSafe, PTL DEF Spec

----------------------------------------------------------------------------
(* Context errors *)

ContextInv == NoContextCached /\ OwnContextOnly

LEMMA StepContext == TypeOK /\ ContextInv /\ [Next]_vars => ContextInv'
<1> SUFFICES ASSUME TypeOK, ContextInv, [Next]_vars PROVE ContextInv'
  OBVIOUS
<1>1. CASE Host
  <2>1. NoContextCached'
    <3>1. ASSUME NEW d \in Defs, NEW k \in Keys, NEW insert \in Inserts,
                 NEW b \in BOOLEAN, Add(d, k, insert, b)
          PROVE  NoContextCached'
      BY <3>1, AddEffect DEF ContextInv, NoContextCached, Registered, Kept
    <3>2. ASSUME NEW d \in Defs, Remove(d)
          PROVE  NoContextCached'
      BY <3>2, RemoveEffect DEF ContextInv, NoContextCached, Registered, Kept
    <3> QED
      BY <1>1, <3>1, <3>2 DEF Host
  <2>2. UNCHANGED <<res, done>>
    BY <1>1 DEF Host, Add, Remove, callVars
  <2> QED
    BY <2>1, <2>2 DEF ContextInv, OwnContextOnly
<1>2. ASSUME NEW c \in Callers, BecomeLoader(c)
      PROVE  ContextInv'
  <2>1. UNCHANGED <<res, done>> /\ Registered(key[c]) /\ key[c] \in Keys
    BY <1>2 DEF TypeOK, BecomeLoader, Unresolved
  <2> QED
    BY <1>2, <2>1, BecomeLoaderEffect
       DEF ContextInv, NoContextCached, OwnContextOnly, Registered
<1>3. ASSUME NEW c \in Callers, NEW outcome \in Outcomes, FinishLoad(c, outcome)
      PROVE  ContextInv'
  <2>1. OwnContextOnly'
    BY <1>3 DEF TypeOK, FinishLoad, Return, ContextInv, OwnContextOnly
  <2>2. CASE StillInstalled(c)
    BY <1>3, <2>1, <2>2, FinishLoadEffect
       DEF ContextInv, NoContextCached, Registered, StillInstalled
  <2>3. CASE ~ StillInstalled(c)
    BY <1>3, <2>1, <2>3 DEF FinishLoad, ContextInv, NoContextCached, Registered
  <2> QED
    BY <2>2, <2>3
<1>4. CASE UNCHANGED byKey
  <2>1. NoContextCached'
    BY <1>4 DEF ContextInv, NoContextCached, Registered
  <2>2. ASSUME NEW c \in Callers, \/ \E k \in Keys : Call(c, k)
                                  \/ Cancel(c)
                                  \/ CheckContext(c)
                                  \/ JoinLoad(c)
                                  \/ Wake(c)
                                  \/ AbandonWait(c)
        PROVE  OwnContextOnly'
    BY <2>2 DEF TypeOK, Call, Cancel, CheckContext, JoinLoad, Wake, AbandonWait,
                Return, ContextInv, OwnContextOnly
  <2>3. ASSUME NEW c \in Callers, Answered(c)
        PROVE  OwnContextOnly'
    BY <2>3 DEF TypeOK, Answered, Return, ContextInv, NoContextCached,
                OwnContextOnly
  <2>4. UNCHANGED <<res, done>> => OwnContextOnly'
    BY DEF ContextInv, OwnContextOnly
  <2>5. ASSUME NEW c \in Callers,
               BecomeLoader(c) \/ \E o \in Outcomes : FinishLoad(c, o)
        PROVE  ContextInv'
    BY <1>2, <1>3, <2>5
  <2>6. Host => UNCHANGED <<res, done>>
    BY DEF Host, Add, Remove, callVars
  <2>7. (\E c \in Callers : (\E k \in Keys : Call(c, k)) \/ Cancel(c) \/ Step(c))
          => OwnContextOnly'
    BY <2>2, <2>3, <2>5 DEF Step, ContextInv
  <2>8. OwnContextOnly'
    BY <2>4, <2>6, <2>7 DEF Next, vars
  <2> QED
    BY <2>1, <2>8 DEF ContextInv
<1> QED
  BY <1>1, <1>2, <1>3, <1>4
     DEF Next, Step, Call, Cancel, CheckContext, Answered, JoinLoad, Wake,
         AbandonWait, vars, catalogVars

\* A context error is returned to a caller only for its own context, whoever
\* loaded, waited or gave up (catalog.go:430-436).
THEOREM ContextErrorsStayPrivate == Spec => []OwnContextOnly
<1>1. Init => ContextInv
  BY DEF Init, ContextInv, NoContextCached, OwnContextOnly, Registered
<1>2. ContextInv => OwnContextOnly
  BY DEF ContextInv
<1> QED
  BY <1>1, <1>2, InitType, StepType, StepContext, PTL DEF Spec

----------------------------------------------------------------------------
(* The names of recomputeLLMNamesLocked: when handles lead back to the     *)
(* keys they were given out for                                            *)

\* No two definitions share their eight hex digits.
HashesDiffer == \A d, e \in Defs : ShortHash[d] = ShortHash[e] => d = e

\* The suffixed name of a definition.
Tagged(d) == Append(d.name, ShortHash[d])

\* No skill is named "n#h#g" where another is named "n#h", both being what a
\* suffix makes of names in use.
NoCraftedChain ==
  \A a, b, d \in Defs : ~ (b.name = Tagged(a) /\ d.name = Tagged(b))

\* What the catalog registers: definitions with their own names, each once.
Live(live) ==
  /\ DOMAIN live \subseteq Keys
  /\ \A k \in DOMAIN live : live[k] \in Defs /\ live[k].name = k.name
  /\ \A j, k \in DOMAIN live : live[j] = live[k] => j = k

\* A suffix always changes a name.
LEMMA TaggedDiffers == \A d \in Defs : Tagged(d) # d.name
<1> SUFFICES ASSUME NEW d \in Defs PROVE Tagged(d) # d.name
  OBVIOUS
<1>1. d.name \in Seq(NameParts) /\ ShortHash[d] \in NameParts
  BY HandlesAssumption DEF Names
<1>2. Len(Append(d.name, ShortHash[d])) = Len(d.name) + 1 /\ Len(d.name) \in Nat
  BY <1>1, AppendProperties, LenProperties
<1> QED
  BY <1>2 DEF Tagged

\* Names with different suffixes differ.
LEMMA TaggedInjective ==
  ASSUME HashesDiffer, NEW d \in Defs, NEW e \in Defs, Tagged(d) = Tagged(e)
  PROVE  d = e
<1>1. /\ d.name \in Seq(NameParts) /\ ShortHash[d] \in NameParts
      /\ e.name \in Seq(NameParts) /\ ShortHash[e] \in NameParts
  BY HandlesAssumption DEF Names
<1>2. ShortHash[d] = ShortHash[e]
  BY <1>1, AppendInjective DEF Tagged
<1> QED
  BY <1>2 DEF HashesDiffer

\* The names the two passes give out are unique at each location.  The second
\* pass is needed: it resolves a name "n#h" that a skill has by itself, as long
\* as nobody is named as it then will be (catalog.go:377-411).
LEMMA HandlesUnique ==
  ASSUME HashesDiffer, NoCraftedChain, NEW live, Live(live),
         NEW j \in DOMAIN live, NEW k \in DOMAIN live,
         HandleOf(live, j) = HandleOf(live, k)
  PROVE  j = k
<1> SUFFICES ASSUME j # k PROVE FALSE
  OBVIOUS
<1>1. /\ LLMName(live, j) = LLMName(live, k)
      /\ live[j].location = live[k].location
  BY DEF HandleOf
<1>2. \A x \in DOMAIN live : /\ live[x] \in Defs
                             /\ x.name = live[x].name
                             /\ Suffixed(live, x) = Tagged(live[x])
                             /\ Suffixed(live, x) # x.name
  BY TaggedDiffers DEF Live, Suffixed, Tagged
<1>3. \A x \in DOMAIN live : /\ FirstPass(live, x) \in {x.name, Suffixed(live, x)}
                             /\ LLMName(live, x) \in {x.name, Suffixed(live, x)}
  BY DEF LLMName, FirstPass
<1>4. ASSUME NEW x \in DOMAIN live, NEW y \in DOMAIN live, x # y,
             live[x].location = live[y].location, x.name = y.name
      PROVE  FirstPass(live, x) = Suffixed(live, x)
  BY <1>4 DEF FirstPass, Group
<1>5. ASSUME LLMName(live, j) = j.name, LLMName(live, k) = k.name
      PROVE  FALSE
  BY <1>1, <1>2, <1>4, <1>5 DEF LLMName
<1>6. ASSUME LLMName(live, j) = Suffixed(live, j),
             LLMName(live, k) = Suffixed(live, k)
      PROVE  FALSE
  <2>1. Tagged(live[j]) = Tagged(live[k])
    BY <1>1, <1>2, <1>6
  <2>2. live[j] = live[k]
    BY <1>2, <2>1, TaggedInjective
  <2> QED
    BY <2>2 DEF Live
<1>7. ASSUME NEW x \in DOMAIN live, NEW y \in DOMAIN live, x # y,
             live[x].location = live[y].location,
             LLMName(live, x) = x.name, LLMName(live, y) = Suffixed(live, y),
             x.name = Suffixed(live, y)
      PROVE  FALSE
  <2>1. ~ Clashes(live, x) /\ FirstPass(live, x) = x.name
    BY <1>2, <1>7 DEF LLMName
  <2>2. FirstPass(live, y) # Suffixed(live, y)
    BY <1>7, <2>1 DEF Clashes
  <2>3. FirstPass(live, y) = y.name /\ Clashes(live, y)
    BY <1>2, <1>3, <1>7, <2>2 DEF LLMName
  <2>4. PICK z \in DOMAIN live \ {y} : /\ FirstPass(live, z) = y.name
                                       /\ live[z].location = live[y].location
    BY <2>3 DEF Clashes
  <2>5. z.name # y.name
    BY <1>4, <2>2, <2>4
  <2>6. y.name = Suffixed(live, z)
    BY <1>3, <2>4, <2>5
  <2> QED
    BY <1>2, <1>7, <2>6 DEF NoCraftedChain
<1> QED
  BY <1>1, <1>3, <1>5, <1>6, <1>7

----------------------------------------------------------------------------
(* The catalog's names *)

\* Entries carry the names computed for the skills now registered, under the
\* names their definitions have, and the handle index is one of those.
NamesCurrent ==
  /\ \A k \in Keys : Registered(k) =>
       /\ byKey[k].llmName = LLMName(LiveDefs(byKey), k)
       /\ byKey[k].def.name = k.name
  /\ handleIndex \in HandleIndexes(LiveDefs(byKey))

\* The live part of the catalog is a map of the kind HandlesUnique is about.
LEMMA LiveCatalog ==
  ASSUME TypeOK, IndexesAgree, NamesCurrent
  PROVE  Live(LiveDefs(byKey))
<1>1. \A k \in Keys : byKey[k] # None => byKey[k] \in Entry
  BY DEF TypeOK
<1>2. \A k \in Keys : byKey[k] # None => byKey[k].def \in Defs
  BY <1>1 DEF Entry
<1>3. \A j, k \in Keys :
        (byKey[j] # None /\ byKey[k] # None /\ byKey[j].def = byKey[k].def) => j = k
  BY <1>2 DEF IndexesAgree, Registered
<1> QED
  BY <1>2, <1>3 DEF Live, LiveDefs, NamesCurrent, Registered

LEMMA NamesResolve ==
  ASSUME HashesDiffer, NoCraftedChain, TypeOK, IndexesAgree, NamesCurrent
  PROVE  HandlesResolve
<1> DEFINE live == LiveDefs(byKey)
<1>1. DOMAIN live = {k \in Keys : Registered(k)}
  BY DEF LiveDefs, Registered
<1>2. \A k \in DOMAIN live : live[k] = byKey[k].def
  BY DEF LiveDefs
<1>3. /\ DOMAIN handleIndex = {HandleOf(live, k) : k \in DOMAIN live}
      /\ \A h \in DOMAIN handleIndex : /\ handleIndex[h] \in DOMAIN live
                                       /\ HandleOf(live, handleIndex[h]) = h
  BY DEF NamesCurrent, HandleIndexes
<1>4. Live(live)
  BY LiveCatalog
<1>5. \A k \in Keys : Registered(k) => byKey[k].llmName = LLMName(live, k)
  BY DEF NamesCurrent
<1> HIDE DEF live
<1>6. ASSUME NEW k \in Keys, Registered(k)
      PROVE  LET h == [name |-> byKey[k].llmName,
                       location |-> byKey[k].def.location]
             IN  h \in DOMAIN handleIndex /\ handleIndex[h] = k
  <2>1. k \in DOMAIN live
    BY <1>1, <1>6
  <2>2. HandleOf(live, k) = [name |-> byKey[k].llmName,
                             location |-> byKey[k].def.location]
    BY <1>2, <1>5, <1>6, <2>1 DEF HandleOf
  <2>3. HandleOf(live, k) \in DOMAIN handleIndex
    BY <1>3, <2>1
  <2>4. handleIndex[HandleOf(live, k)] = k
    BY <1>3, <1>4, <2>1, <2>3, HandlesUnique
  <2> QED
    BY <2>2, <2>3, <2>4
<1>7. \A h \in DOMAIN handleIndex : Registered(handleIndex[h])
  BY <1>1, <1>3
<1> QED
  BY <1>6, <1>7 DEF HandlesResolve

\* Installing a map of entries computes the names for that very map.
LEMMA InstallNames ==
  ASSUME NEW bk \in Entries, Install(bk),
         \A k \in Keys : bk[k] # None => bk[k].def.name = k.name
  PROVE  NamesCurrent'
<1>1. /\ \A k \in Keys : byKey'[k] = None <=> bk[k] = None
      /\ \A k \in Keys : bk[k] # None => byKey'[k].def = bk[k].def
  BY InstallKeeps
<1>2. LiveDefs(byKey') = LiveDefs(bk)
  BY <1>1 DEF LiveDefs
<1>3. \A k \in Keys : bk[k] # None =>
        byKey'[k] = [bk[k] EXCEPT !.llmName = LLMName(LiveDefs(bk), k)]
  BY DEF Install
<1>4. \A k \in Keys : bk[k] # None => bk[k] \in Entry
  BY DEF Entries
<1>5. \A k \in Keys : bk[k] # None => byKey'[k].llmName = LLMName(LiveDefs(bk), k)
  BY <1>3, <1>4 DEF Entry
<1>6. handleIndex' \in HandleIndexes(LiveDefs(bk))
  BY DEF Install
<1> QED
  BY <1>1, <1>2, <1>5, <1>6 DEF NamesCurrent, Registered

\* NamesCurrent looks at no more of an entry than its definition and its name.
LEMMA SameNamesCurrent ==
  NamesCurrent /\ handleIndex' = handleIndex
    /\ (\A k \in Keys : /\ byKey'[k] = None <=> byKey[k] = None
                        /\ byKey[k] # None =>
                             /\ byKey'[k].def = byKey[k].def
                             /\ byKey'[k].llmName = byKey[k].llmName)
    => NamesCurrent'
<1> SUFFICES ASSUME NamesCurrent, handleIndex' = handleIndex,
                    \A k \in Keys : /\ byKey'[k] = None <=> byKey[k] = None
                                    /\ byKey[k] # None =>
                                         /\ byKey'[k].def = byKey[k].def
                                         /\ byKey'[k].llmName = byKey[k].llmName
             PROVE  NamesCurrent'
  OBVIOUS
<1>1. LiveDefs(byKey') = LiveDefs(byKey)
  BY DEF LiveDefs
<1> QED
  BY <1>1 DEF NamesCurrent, Registered

LEMMA StepNames == TypeOK /\ NamesCurrent /\ [Next]_vars => NamesCurrent'
<1> SUFFICES ASSUME TypeOK, NamesCurrent, [Next]_vars PROVE NamesCurrent'
  OBVIOUS
<1>1. ASSUME NEW d \in Defs, NEW k \in Keys, NEW insert \in Inserts,
             NEW b \in BOOLEAN, Add(d, k, insert, b)
      PROVE  NamesCurrent'
  <2> DEFINE e == [def |-> d, insert |-> insert, llmName |-> k.name,
                   bodyLoaded |-> b, bodyErr |-> "none", bodyWait |-> None]
             bk == [byKey EXCEPT ![k] = e]
  <2>1. e \in Entry /\ e.def.name = k.name
    BY <1>1, HandlesAssumption DEF Entry, Add
  <2>2. bk \in Entries
    BY <2>1 DEF TypeOK, Entries
  <2>3. Install(bk)
    BY <1>1 DEF Add
  <2>4. bk[k] = e /\ \A j \in Keys \ {k} : bk[j] = byKey[j]
    BY DEF TypeOK
  <2> HIDE DEF e, bk
  <2>5. \A j \in Keys : bk[j] # None => bk[j].def.name = j.name
    BY <2>1, <2>4 DEF NamesCurrent, Registered
  <2> QED
    BY <2>2, <2>3, <2>5, InstallNames
<1>2. ASSUME NEW d \in Defs, Remove(d)
      PROVE  NamesCurrent'
  <2> DEFINE k == byDef[d]
             bk == [byKey EXCEPT ![k] = None]
  <2>1. bk \in Entries
    BY DEF TypeOK, Entries
  <2>2. Install(bk)
    BY <1>2 DEF Remove
  <2>3. k \in Keys
    BY <1>2, RemoveEffect
  <2>4. bk[k] = None /\ \A j \in Keys \ {k} : bk[j] = byKey[j]
    BY <2>3 DEF TypeOK
  <2> HIDE DEF k, bk
  <2>5. \A j \in Keys : bk[j] # None => bk[j].def.name = j.name
    BY <2>4 DEF NamesCurrent, Registered
  <2> QED
    BY <2>1, <2>2, <2>5, InstallNames
<1>3. ASSUME NEW c \in Callers, BecomeLoader(c)
      PROVE  NamesCurrent'
  <2>1. key[c] \in Keys /\ byKey[key[c]] # None /\ handleIndex' = handleIndex
    BY <1>3 DEF TypeOK, BecomeLoader, Unresolved, Registered
  <2> QED
    BY <1>3, <2>1, BecomeLoaderEffect, SameNamesCurrent
<1>4. ASSUME NEW c \in Callers, NEW outcome \in Outcomes, FinishLoad(c, outcome)
      PROVE  NamesCurrent'
  <2>1. handleIndex' = handleIndex
    BY <1>4 DEF FinishLoad
  <2>2. CASE StillInstalled(c)
    <3>1. byKey[key[c]] # None
      BY <2>2 DEF StillInstalled, Registered
    <3> QED
      BY <1>4, <2>1, <2>2, <3>1, FinishLoadEffect, SameNamesCurrent
  <2>3. CASE ~ StillInstalled(c)
    BY <1>4, <2>1, <2>3, SameNamesCurrent DEF FinishLoad
  <2> QED
    BY <2>2, <2>3
<1>5. CASE UNCHANGED <<byKey, handleIndex>>
  BY <1>5, SameNamesCurrent
<1> QED
  BY <1>1, <1>2, <1>3, <1>4, <1>5
     DEF Next, Host, Step, Call, Cancel, CheckContext, Answered, JoinLoad, Wake,
         AbandonWait, vars, catalogVars

\* Handles lead back to the keys they were given out for, through every Add and
\* Remove, unless two definitions share a hash or a skill is named after the
\* suffixed name of a suffixed name (catalog.go:371-411).
THEOREM HandlesLeadBack ==
  ASSUME HashesDiffer, NoCraftedChain
  PROVE  Spec => []HandlesResolve
<1>1. Init => NamesCurrent
  <2> SUFFICES ASSUME Init PROVE NamesCurrent
    OBVIOUS
  <2>1. \A k \in Keys : byKey[k] = None
    BY DEF Init
  <2>2. DOMAIN LiveDefs(byKey) = {}
    BY <2>1 DEF LiveDefs
  <2>3. handleIndex \in HandleIndexes(LiveDefs(byKey))
    BY <2>2 DEF Init, HandleIndexes
  <2> QED
    BY <2>1, <2>3 DEF NamesCurrent, Registered
<1>2. TypeOK /\ IndexesAgree /\ NamesCurrent => HandlesResolve
  BY NamesResolve
<1> QED
  BY <1>1, <1>2, InitType, StepType, StepNames, IndexesStayInverse, PTL DEF Spec

=============================================================================
