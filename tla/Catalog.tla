------------------------------ MODULE Catalog ------------------------------
(***************************************************************************)
(* internal/catalog/catalog.go: the registry of skills and its             *)
(* single-flight cache of skill bodies.                                    *)
(*                                                                         *)
(* Every action is one critical section of Catalog.mu, or one step a       *)
(* goroutine inside EnsureBody takes between two of them.  Add and Remove  *)
(* are the host's calls; Callers are the goroutines that call EnsureBody,  *)
(* each again and again, for any key.  A channel is a pointer: make(chan)  *)
(* yields one nobody refers to, so a finite set of them is enough.         *)
(***************************************************************************)
EXTENDS Handles, Naturals

CONSTANTS
  Callers,      \* goroutines inside EnsureBody
  Chans,        \* channels, at least one for each caller
  Inserts,      \* the normalised insert modes of skills
  MaxAttempts,  \* rounds of EnsureBody's loop (5 in the code)
  None          \* no entry, no key, no channel (a nil map read, a nil channel)

VARIABLES
  byKey,        \* Catalog.byKey: the entry of a key, or None
  byDef,        \* Catalog.byDef: the key a definition was registered under
  handleIndex,  \* Catalog.handleIndex: from LLM-facing handles to keys
  closed,       \* the channels that have been closed
  panicked,     \* a channel was closed twice, which Go answers with a panic
  pc,           \* where a caller is in EnsureBody; "idle" outside of it
  key,          \* the key a caller asked for
  ch,           \* the channel a caller waits on, or loads under
  attempt,      \* the round of the loop a caller is in
  done,         \* whether the context of the caller's last call is done
  res,          \* what the caller's last call returned
  disturbed     \* history only, see Disturb

catalogVars == <<byKey, byDef, handleIndex>>
callVars == <<pc, key, ch, attempt, done, res>>
vars == <<byKey, byDef, handleIndex, closed, panicked,
          pc, key, ch, attempt, done, res, disturbed>>

\* What LoadBody returns: a body, an error of its own, or a context error.
Outcomes == {"body", "failed", "ctx"}
Results == Outcomes \cup {"notFound", "exhausted", "none"}

Entry == [def : Defs, insert : Inserts, llmName : Names,
          bodyLoaded : BOOLEAN,
          bodyErr : {"none", "failed", "ctx"},
          bodyWait : Chans \cup {None}]

ASSUME CatalogAssumption ==
  /\ MaxAttempts \in Nat
  /\ MaxAttempts >= 2
  /\ None \notin Entry \cup Keys \cup Chans

Init ==
  /\ byKey = [k \in Keys |-> None]
  /\ byDef = [d \in Defs |-> None]
  /\ handleIndex = <<>>
  /\ closed = {}
  /\ panicked = FALSE
  /\ pc = [c \in Callers |-> "idle"]
  /\ key = [c \in Callers |-> None]
  /\ ch = [c \in Callers |-> None]
  /\ attempt = [c \in Callers |-> 0]
  /\ done = [c \in Callers |-> FALSE]
  /\ res = [c \in Callers |-> "none"]
  /\ disturbed = [c \in Callers |-> FALSE]

----------------------------------------------------------------------------
(* Helpers *)

Registered(k) == byKey[k] # None

LiveDefs(bk) == [k \in {j \in Keys : bk[j] # None} |-> bk[k].def]

\* recomputeLLMNamesLocked on the map bk: new names, and a new handle index.
Install(bk) ==
  /\ byKey' = [k \in Keys |->
                 IF bk[k] = None THEN None
                 ELSE [bk[k] EXCEPT !.llmName = LLMName(LiveDefs(bk), k)]]
  /\ handleIndex' \in HandleIndexes(LiveDefs(bk))

\* close(x) for the channels x of the set xs.
Close(xs) ==
  /\ closed' = closed \cup xs
  /\ panicked' = (panicked \/ xs \cap closed # {})

\* History: while c was after key k its entry was removed, or the load that
\* was under way gave up on a context error without leaving a result.
Disturb(k) ==
  disturbed' = [c \in Callers |->
                  disturbed[c] \/ (pc[c] # "idle" /\ key[c] = k)]

Return(c, r) ==
  /\ pc' = [pc EXCEPT ![c] = "idle"]
  /\ key' = [key EXCEPT ![c] = None]
  /\ ch' = [ch EXCEPT ![c] = None]
  /\ attempt' = [attempt EXCEPT ![c] = 0]
  /\ res' = [res EXCEPT ![c] = r]
  /\ UNCHANGED done

\* A channel that no caller and no entry refers to any more.
Fresh(x) ==
  /\ \A c \in Callers : ch[c] # x
  /\ \A k \in Keys : Registered(k) => byKey[k].bodyWait # x

----------------------------------------------------------------------------
(* The host: Add and Remove *)

\* Mutant: only the canonical key is looked up.
AlreadyExistsByKeyOnly(k, d) == Registered(k)

AlreadyExists(k, d) == Registered(k) \/ byDef[d] # None

(***************************************************************************)
(* Index runs before the lock and may canonicalise the location of d to    *)
(* any key of d's type and name; a provider may supply the body as well.   *)
(* A refused Add changes nothing.                                          *)
(***************************************************************************)
Add(d, k, insert, prefilled) ==
  /\ k.type = d.type
  /\ k.name = d.name
  /\ ~ AlreadyExists(k, d)
  /\ Install([byKey EXCEPT ![k] =
                [def |-> d, insert |-> insert, llmName |-> k.name,
                 bodyLoaded |-> prefilled, bodyErr |-> "none",
                 bodyWait |-> None]])
  /\ byDef' = [byDef EXCEPT ![d] = k]
  /\ UNCHANGED <<closed, panicked, callVars, disturbed>>

\* Mutant: Remove leaves the waiters to the loader.
WokenByNobody(k) == {}

\* The channels Remove closes on its way out.
WokenByRemove(k) == {byKey[k].bodyWait} \ {None}

(***************************************************************************)
(* The branch that repairs a definition whose key has no entry (lines      *)
(* 171-176) is missing: by IndexesAgree there never is one.                *)
(***************************************************************************)
Remove(d) ==
  /\ byDef[d] # None
  /\ LET k == byDef[d]
     IN  /\ Registered(k)
         /\ Close(WokenByRemove(k))
         /\ Install([byKey EXCEPT ![k] = None])
         /\ byDef' = [byDef EXCEPT ![byKey[k].def] = None]
         /\ Disturb(k)
  /\ UNCHANGED callVars

----------------------------------------------------------------------------
(* EnsureBody *)

Call(c, k) ==
  /\ pc[c] = "idle"
  /\ pc' = [pc EXCEPT ![c] = "check"]
  /\ key' = [key EXCEPT ![c] = k]
  /\ attempt' = [attempt EXCEPT ![c] = 1]
  /\ done' = [done EXCEPT ![c] = FALSE]
  /\ res' = [res EXCEPT ![c] = "none"]
  /\ disturbed' = [disturbed EXCEPT ![c] = FALSE]
  /\ UNCHANGED <<catalogVars, closed, panicked, ch>>

\* The caller's context is cancelled, or its deadline passes.
Cancel(c) ==
  /\ pc[c] # "idle"
  /\ ~ done[c]
  /\ done' = [done EXCEPT ![c] = TRUE]
  /\ UNCHANGED <<catalogVars, closed, panicked, pc, key, ch, attempt, res,
                 disturbed>>

\* ctx.Err() at the head of the loop, before the lock is taken.
CheckContext(c) ==
  /\ pc[c] = "check"
  /\ \/ /\ done[c]
        /\ Return(c, "ctx")
     \/ /\ ~ done[c]
        /\ pc' = [pc EXCEPT ![c] = "lookup"]
        /\ UNCHANGED <<key, ch, attempt, done, res>>
  /\ UNCHANGED <<catalogVars, closed, panicked, disturbed>>

\* The locked lookup finds an answer, or nothing.
Answered(c) ==
  /\ pc[c] = "lookup"
  /\ \/ /\ ~ Registered(key[c])
        /\ Return(c, "notFound")
     \/ /\ Registered(key[c])
        /\ byKey[key[c]].bodyLoaded
        /\ Return(c, "body")
     \/ /\ Registered(key[c])
        /\ ~ byKey[key[c]].bodyLoaded
        /\ byKey[key[c]].bodyErr # "none"
        /\ Return(c, byKey[key[c]].bodyErr)
  /\ UNCHANGED <<catalogVars, closed, panicked, disturbed>>

Unresolved(k) ==
  /\ Registered(k)
  /\ ~ byKey[k].bodyLoaded
  /\ byKey[k].bodyErr = "none"

\* Mutant: a load under way is not looked for.
InFlightIgnored(k) == FALSE

InFlight(k) == byKey[k].bodyWait # None

\* Another caller is loading: wait on its channel.
JoinLoad(c) ==
  /\ pc[c] = "lookup"
  /\ Unresolved(key[c])
  /\ InFlight(key[c])
  /\ pc' = [pc EXCEPT ![c] = "wait"]
  /\ ch' = [ch EXCEPT ![c] = byKey[key[c]].bodyWait]
  /\ UNCHANGED <<catalogVars, closed, panicked, key, attempt, done, res,
                 disturbed>>

\* Nobody is loading: install a new channel and become the loader.
BecomeLoader(c) ==
  /\ pc[c] = "lookup"
  /\ Unresolved(key[c])
  /\ ~ InFlight(key[c])
  /\ \E x \in Chans :
       /\ Fresh(x)
       /\ byKey' = [byKey EXCEPT ![key[c]].bodyWait = x]
       /\ ch' = [ch EXCEPT ![c] = x]
       /\ closed' = closed \ {x}
  /\ pc' = [pc EXCEPT ![c] = "load"]
  /\ disturbed' = [disturbed EXCEPT ![c] = FALSE]
  /\ UNCHANGED <<byDef, handleIndex, panicked, key, attempt, done, res>>

\* Mutant: one round too many.
RetryLeftOffByOne(c) == attempt[c] <= MaxAttempts

RetryLeft(c) == attempt[c] < MaxAttempts

\* The select of a waiter sees the channel closed: go round, or give up.
Wake(c) ==
  /\ pc[c] = "wait"
  /\ ch[c] \in closed
  /\ \/ /\ RetryLeft(c)
        /\ pc' = [pc EXCEPT ![c] = "check"]
        /\ ch' = [ch EXCEPT ![c] = None]
        /\ attempt' = [attempt EXCEPT ![c] = @ + 1]
        /\ UNCHANGED <<key, done, res>>
     \/ /\ ~ RetryLeft(c)
        /\ Return(c, "exhausted")
  /\ UNCHANGED <<catalogVars, closed, panicked, disturbed>>

\* The select of a waiter sees its own context done.
AbandonWait(c) ==
  /\ pc[c] = "wait"
  /\ done[c]
  /\ Return(c, "ctx")
  /\ UNCHANGED <<catalogVars, closed, panicked, disturbed>>

\* Mutant: the entry's channel is not compared with the loader's.
StillRegistered(c) == Registered(key[c])

\* finishBodyLoad publishes only for the load that is still installed.
StillInstalled(c) ==
  /\ Registered(key[c])
  /\ byKey[key[c]].bodyWait = ch[c]

\* Mutant: every error is cached.
CachedWithContextErrors(e, outcome) ==
  IF outcome = "body" THEN [e EXCEPT !.bodyLoaded = TRUE, !.bodyErr = "none"]
  ELSE [e EXCEPT !.bodyErr = outcome]

\* Mutant: a body is not marked as loaded (as if it had to be non-empty).
CachedUnmarked(e, outcome) ==
  IF outcome = "failed" THEN [e EXCEPT !.bodyErr = "failed"] ELSE e

\* Context errors are the loader's own: they are not cached.
Cached(e, outcome) ==
  CASE outcome = "body" -> [e EXCEPT !.bodyLoaded = TRUE, !.bodyErr = "none"]
    [] outcome = "failed" -> [e EXCEPT !.bodyErr = "failed"]
    [] OTHER -> e

(***************************************************************************)
(* LoadBody returns and finishBodyLoad runs; the loader returns what it    *)
(* loaded whether or not that was published.  LoadBody reports a context   *)
(* error only for the caller's own context.                                *)
(***************************************************************************)
FinishLoad(c, outcome) ==
  /\ pc[c] = "load"
  /\ outcome = "ctx" => done[c]
  /\ \/ /\ StillInstalled(c)
        /\ byKey' = [byKey EXCEPT ![key[c]] =
                       [Cached(@, outcome) EXCEPT !.bodyWait = None]]
        /\ Close({ch[c]})
        /\ IF outcome = "ctx" THEN Disturb(key[c]) ELSE UNCHANGED disturbed
     \/ /\ ~ StillInstalled(c)
        /\ UNCHANGED <<byKey, closed, panicked, disturbed>>
  /\ Return(c, outcome)
  /\ UNCHANGED <<byDef, handleIndex>>

----------------------------------------------------------------------------

Host == \/ \E d \in Defs, k \in Keys, insert \in Inserts, b \in BOOLEAN :
             Add(d, k, insert, b)
        \/ \E d \in Defs : Remove(d)

\* The steps EnsureBody takes by itself once it has been called.
Step(c) == \/ CheckContext(c)
           \/ Answered(c)
           \/ JoinLoad(c)
           \/ BecomeLoader(c)
           \/ Wake(c)
           \/ AbandonWait(c)
           \/ \E outcome \in Outcomes : FinishLoad(c, outcome)

Next == \/ Host
        \/ \E c \in Callers : \/ \E k \in Keys : Call(c, k)
                              \/ Cancel(c)
                              \/ Step(c)

Spec == Init /\ [][Next]_vars

\* A goroutine that can go on does, and LoadBody returns.
FairSpec == Spec /\ \A c \in Callers : WF_vars(Step(c))

----------------------------------------------------------------------------
(* Properties *)

\* What every variable holds; rounds of EnsureBody's loop never exceed
\* `for range 5', and channels and keys are held only inside a call.
TypeOK ==
  /\ byKey \in [Keys -> Entry \cup {None}]
  /\ byDef \in [Defs -> Keys \cup {None}]
  /\ \A h \in DOMAIN handleIndex : handleIndex[h] \in Keys
  /\ closed \in SUBSET Chans
  /\ panicked \in BOOLEAN
  /\ pc \in [Callers -> {"idle", "check", "lookup", "wait", "load"}]
  /\ key \in [Callers -> Keys \cup {None}]
  /\ ch \in [Callers -> Chans \cup {None}]
  /\ attempt \in [Callers -> 0 .. MaxAttempts]
  /\ done \in [Callers -> BOOLEAN]
  /\ res \in [Callers -> Results]
  /\ disturbed \in [Callers -> BOOLEAN]
  /\ \A c \in Callers : /\ pc[c] # "idle" => key[c] \in Keys
                        /\ pc[c] \in {"wait", "load"} <=> ch[c] # None

\* byDef and byKey stay inverse to each other through every Add and Remove,
\* even when the provider canonicalises one definition to different keys at
\* different times: Remove's drift repair is never needed.
IndexesAgree ==
  \A d \in Defs, k \in Keys :
    byDef[d] = k <=> (Registered(k) /\ byKey[k].def = d)

\* Handles given out by HandleForKey lead back through ResolveHandle to the
\* same key, and no handle leads to a removed one: the names are recomputed
\* whenever a collision group gains or loses a member.
HandlesResolve ==
  /\ \A k \in Keys : Registered(k) =>
       LET h == [name |-> byKey[k].llmName, location |-> byKey[k].def.location]
       IN  h \in DOMAIN handleIndex /\ handleIndex[h] = k
  /\ \A h \in DOMAIN handleIndex : Registered(handleIndex[h])

\* No channel is closed twice, whichever of Remove and finishBodyLoad comes
\* first: a second close would panic the process.
NoPanic == ~ panicked

\* A waiter's channel is closed already, or its loader is still running and
\* will find the entry it has to wake the waiters of (catalog.go:178).
NoLostWakeup ==
  \A c \in Callers : pc[c] = "wait" =>
    \/ ch[c] \in closed
    \/ \E l \in Callers : /\ pc[l] = "load"
                          /\ ch[l] = ch[c]
                          /\ key[l] = key[c]
                          /\ StillInstalled(l)

\* At most one caller loads for an entry: of two loads of one key, one was
\* overtaken by a Remove.
SingleFlight ==
  \A c, l \in Callers :
    (pc[c] = "load" /\ pc[l] = "load" /\ key[c] = key[l] /\ c # l)
      => disturbed[c] \/ disturbed[l]

\* A caller gets a context error only for its own context: another caller's
\* cancellation is never cached as the body's error (catalog.go:430).
OwnContextOnly == \A c \in Callers : res[c] = "ctx" => done[c]

\* EnsureBody gives up after its last round only when, during the call, a
\* load was cancelled or the skill removed: waiting for loads that end with
\* a result never uses the rounds up.
QuietCallSucceeds == \A c \in Callers : res[c] = "exhausted" => disturbed[c]

\* A body or an error enters an entry only from a load begun for this very
\* registration: a load that a Remove overtook does not reach the entry of a
\* skill registered again under the same key.
PublishOnlyCurrent ==
  [][\A k \in Keys :
       (Registered(k) /\ Registered(k)' /\ Unresolved(k) /\ ~ Unresolved(k)')
         => \E c \in Callers : /\ pc[c] = "load"
                               /\ key[c] = k
                               /\ pc'[c] = "idle"
                               /\ ~ disturbed[c]]_vars

\* Every call of EnsureBody returns, whatever is removed, registered again or
\* cancelled meanwhile, as long as goroutines run and LoadBody returns.
EnsureBodyReturns == \A c \in Callers : pc[c] # "idle" ~> pc[c] = "idle"

============================================================================
