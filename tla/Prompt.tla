-------------------------------- MODULE Prompt --------------------------------
(***************************************************************************)
(* skillprompt.go (SkillsPrompt, RenderSkill) and runtime.go ListSkills:   *)
(* one caller that puts an answer together from separate reads of the      *)
(* catalog and of one session, none of which excludes the others, while    *)
(* hosts remove and register skills and the session's list changes.        *)
(*                                                                         *)
(* A step is one call of the catalog or of the session.  What tells two    *)
(* registrations of a key apart is the definition it was registered under  *)
(* and the insert mode: whatever is read of a registration is represented  *)
(* by these.                                                               *)
(***************************************************************************)
EXTENDS Naturals, Sequences, Functions, Selections

CONSTANTS
  Keys,         \* canonical keys
  Defs,         \* the definitions hosts register
  Canonical,    \* the keys a provider may make of each of them
  AllowLists,   \* what callers pass as AllowSkills: definitions and Blank
  InsertLists,  \* what they pass as Inserts: sets of modes and Unknown
  Blank,        \* a definition that lacks its type, name or location
  Unknown,      \* an insert mode that there is not
  None

VARIABLES
  entry,        \* the catalog: the registration of each key, or None
  open,         \* the session is in the store
  active,       \* the session's activeOrder
  call,         \* what was asked for
  pc,           \* "idle", or the read that is next
  records,      \* what the catalog listed, or resolved, as it was then
  order,        \* the session's active keys, as read
  missing,      \* active keys the catalog did not have
  todo,         \* active keys, or the rendered one, still to be read
  left,         \* available keys still to be read
  index,        \* the index read of the first key of todo
  items,        \* the active section, or what was rendered
  listed,       \* the available section, or the list
  res,          \* how the last call ended; "none" while it runs
  steady, always, never \* history, see Begin

envVars == <<entry, open, active>>
ghostVars == <<steady, always, never>>
readVars == <<records, order, missing, todo, left, index>>
vars == <<entry, open, active, call, pc, records, order, missing, todo, left,
          index, items, listed, res, steady, always, never>>

Inserts == {"instructions", "user-message"}
Registrations == [def : Defs, insert : Inserts]
Activities == {"any", "active", "inactive"}

\* scoped: a SessionID is given.  skill: the definition RenderSkill is given.
Calls == [op : {"prompt"}, activity : Activities, scoped : BOOLEAN,
          allow : AllowLists, inserts : {{}}, skill : {None}]
         \cup
         [op : {"list"}, activity : Activities, scoped : BOOLEAN,
          allow : AllowLists, inserts : InsertLists, skill : {None}]
         \cup
         [op : {"render"}, activity : {"any"}, scoped : {FALSE},
          allow : {{}}, inserts : {{}}, skill : Defs]

ASSUME PromptAssumption ==
  /\ Canonical \in [Defs -> SUBSET Keys]
  /\ AllowLists \subseteq SUBSET (Defs \cup {Blank})
  /\ InsertLists \subseteq SUBSET (Inserts \cup {Unknown})
  /\ Blank \notin Defs /\ Unknown \notin Inserts
  /\ None \notin Keys \cup Defs \cup Registrations

\* No key, or only k, with its registration.
NoRecords == [k \in {} |-> None]
RecordOf(k) == [j \in {k} |-> entry[k]]

Init ==
  /\ entry = [k \in Keys |-> None]
  /\ open = TRUE
  /\ active = <<>>
  /\ call \in Calls
  /\ pc = "idle"
  /\ records = NoRecords /\ order = <<>> /\ missing = {}
  /\ todo = <<>> /\ left = {} /\ index = None
  /\ items = <<>> /\ listed = {}
  /\ res = "none"
  /\ steady = {} /\ always = {} /\ never = {}

Registered(k) == entry[k] # None

----------------------------------------------------------------------------
(* Filters *)

\* A filter as the catalog gets it: what says nothing has been dropped, and
\* a prompt is about instructions skills whatever was asked for.
Normalized(c) ==
  [allow |-> c.allow \ {Blank},
   inserts |-> IF c.op = "prompt" THEN {"instructions"}
               ELSE c.inserts \ {Unknown}]

\* An empty list restricts nothing.
Admits(list, x) == list = {} \/ x \in list

\* The allowlist is of definitions: a key that was registered again under
\* another one, which has the same canonical key, is another skill to it.
Admitted(f, reg) == Admits(f.allow, reg.def) /\ Admits(f.inserts, reg.insert)

(***************************************************************************)
(* AllowSkills stands for Types and LocationPrefix too, which restrict by  *)
(* the definition alone.  (NamePrefix goes by the name in the catalog at   *)
(* that moment; it is left out.)                                           *)
(***************************************************************************)
Matches(f, k) == Registered(k) /\ Admitted(f, entry[k])

----------------------------------------------------------------------------
(* The reads *)

Answer(r) == pc' = "idle" /\ res' = r

(***************************************************************************)
(* The caller begins.  activity=active asks for a session.  History:       *)
(* steady are the keys registered once and for all of the call, always and *)
(* never the keys that were, or were not, active all the time.             *)
(***************************************************************************)
Begin(c) ==
  /\ pc = "idle"
  /\ call' = c
  /\ IF c.activity = "active" /\ ~ c.scoped
     THEN Answer("invalidArgument")
     ELSE pc' = (IF c.op = "render" THEN "resolve" ELSE "list") /\ res' = "none"
  /\ records' = NoRecords /\ order' = <<>> /\ missing' = {}
  /\ todo' = <<>> /\ left' = {} /\ index' = None
  /\ items' = <<>> /\ listed' = {}
  /\ steady' = {k \in Keys : Registered(k)}
  /\ always' = Range(active)
  /\ never' = Keys \ Range(active)
  /\ UNCHANGED envVars

\* Mutant: the active section ignores the filter.
WantedUnfiltered(recs, ord) == ord

\* The active skills of the filtered catalog, in the session's order.
Wanted(recs, ord) == Selection(ord, {i \in DOMAIN ord : ord[i] \in recs})

\* Mutant: what is active is asked once more.
InactiveNow(recs, ord) == recs \ Range(active)

Inactive(recs, ord) == recs \ Range(ord)

\* Without a session the activity is not looked at.
Listed(recs, ord) ==
  LET scope == IF call.scoped THEN call.activity ELSE "any"
  IN  CASE scope = "any" -> recs
        [] scope = "active" -> recs \cap Range(ord)
        [] OTHER -> Inactive(recs, ord)

\* ListSkills answers now; SkillsPrompt goes through its sections.
Sections(recs, ord) ==
  \/ /\ call.op = "list"
     /\ listed' = Listed(recs, ord)
     /\ Answer("ok")
     /\ UNCHANGED <<todo, left>>
  \/ /\ call.op = "prompt"
     /\ todo' = IF call.activity = "inactive" THEN <<>> ELSE Wanted(recs, ord)
     /\ left' = IF call.activity = "active" THEN {} ELSE Inactive(recs, ord)
     /\ pc' = "handle"
     /\ UNCHANGED <<listed, res>>

\* ListPromptIndexRecords, ListUserEntries.
List ==
  /\ pc = "list"
  /\ records' = [k \in {q \in Keys : Matches(Normalized(call), q)} |-> entry[k]]
  /\ IF call.scoped
     THEN pc' = "get" /\ UNCHANGED <<todo, left, listed, res>>
     ELSE Sections(DOMAIN records', <<>>)
  /\ UNCHANGED <<envVars, call, order, missing, index, items, ghostVars>>

\* Store.Get.
GetSession ==
  /\ pc = "get"
  /\ IF open THEN pc' = "copy" /\ UNCHANGED res
             ELSE Answer("sessionNotFound")
  /\ UNCHANGED <<envVars, call, readVars, items, listed, ghostVars>>

\* ActiveKeys: a copy of the list,
CopyActive ==
  /\ pc = "copy"
  /\ IF open THEN pc' = "look" /\ UNCHANGED res
             ELSE Answer("sessionNotFound")
  /\ todo' = active
  /\ UNCHANGED <<envVars, call, records, order, missing, left, index, items,
                 listed, ghostVars>>

\* ... each of its keys looked up,
LookUp ==
  /\ pc = "look"
  /\ todo # <<>>
  /\ IF Registered(Head(todo))
     THEN order' = Append(order, Head(todo)) /\ UNCHANGED missing
     ELSE missing' = missing \cup {Head(todo)} /\ UNCHANGED order
  /\ todo' = Tail(todo)
  /\ UNCHANGED <<envVars, call, pc, records, left, index, items, listed, res,
                 ghostVars>>

\* ... and those that were not found pruned from the session.
PruneMissing ==
  /\ pc = "look"
  /\ todo = <<>>
  /\ active' = IF open THEN Without(active, missing) ELSE active
  /\ always' = always \cap Range(active')
  /\ Sections(DOMAIN records, order)
  /\ UNCHANGED <<entry, open, call, records, order, missing, index, items,
                 steady, never>>

\* Mutant: a skill that has gone ends the loop.
StopAtMissing == <<>>

\* A skill that has gone is passed over.
PassOver == Tail(todo)

\* The rest of the section without the skill that could not be found; there
\* is nothing to render without it.
NotFound ==
  IF call.op = "render"
  THEN Answer("skillNotFound") /\ UNCHANGED todo
  ELSE todo' = PassOver /\ pc' = "handle" /\ UNCHANGED res

\* The key that RenderSkill's definition was registered with.
ResolveDef ==
  /\ pc = "resolve"
  /\ \/ \E k \in Keys :
          /\ Registered(k) /\ entry[k].def = call.skill
          /\ records' = RecordOf(k)
          /\ todo' = <<k>>
          /\ pc' = "index"
          /\ UNCHANGED res
     \/ /\ \A k \in Keys : Registered(k) => entry[k].def # call.skill
        /\ Answer("skillNotFound")
        /\ UNCHANGED <<records, todo>>
  /\ UNCHANGED <<envVars, call, order, missing, left, index, items, listed,
                 ghostVars>>

\* HandleForKey.
ReadHandle ==
  /\ pc = "handle"
  /\ todo # <<>>
  /\ IF Registered(Head(todo)) THEN pc' = "index" /\ UNCHANGED <<todo, res>>
                               ELSE NotFound
  /\ UNCHANGED <<envVars, call, records, order, missing, left, index, items,
                 listed, ghostVars>>

\* GetIndex.
ReadIndex ==
  /\ pc = "index"
  /\ IF Registered(Head(todo))
     THEN /\ index' = entry[Head(todo)]
          /\ pc' = "body"
          /\ UNCHANGED <<todo, res>>
     ELSE NotFound /\ UNCHANGED index
  /\ UNCHANGED <<envVars, call, records, order, missing, left, items, listed,
                 ghostVars>>

(***************************************************************************)
(* EnsureBody, at its last lookup, and RenderSkillBody on what it found.   *)
(* A body that does not load ends the whole call.                          *)
(***************************************************************************)
ReadBody ==
  /\ pc = "body"
  /\ \/ /\ Registered(Head(todo))
        /\ items' = Append(items, [key |-> Head(todo), index |-> index,
                                   body |-> entry[Head(todo)]])
        /\ todo' = Tail(todo)
        /\ IF call.op = "render" THEN Answer("ok")
           ELSE pc' = "handle" /\ UNCHANGED res
     \/ /\ ~ Registered(Head(todo))
        /\ NotFound
        /\ UNCHANGED items
     \/ /\ Answer("bodyFailed")
        /\ UNCHANGED <<items, todo>>
  /\ index' = None
  /\ UNCHANGED <<envVars, call, records, order, missing, left, listed,
                 ghostVars>>

\* The available section follows the active one.
ReadAvailable(k) ==
  /\ pc = "handle"
  /\ todo = <<>>
  /\ k \in left
  /\ left' = left \ {k}
  /\ listed' = IF Registered(k) THEN listed \cup {k} ELSE listed
  /\ UNCHANGED <<envVars, call, pc, records, order, missing, todo, index,
                 items, res, ghostVars>>

Finish ==
  /\ pc = "handle"
  /\ todo = <<>>
  /\ left = {}
  /\ Answer("ok")
  /\ UNCHANGED <<envVars, call, readVars, items, listed, ghostVars>>

----------------------------------------------------------------------------
(* Everybody else *)

readerVars == <<call, pc, readVars, items, listed, res>>

\* Neither the key nor the definition is in the catalog yet.
AddSkill(d, k, ins) ==
  /\ ~ Registered(k)
  /\ \A j \in Keys : Registered(j) => entry[j].def # d
  /\ entry' = [entry EXCEPT ![k] = [def |-> d, insert |-> ins]]
  /\ UNCHANGED <<open, active, readerVars, ghostVars>>

\* Out of the catalog; the sessions are pruned by DropSkill, or not yet.
RemoveSkill(k) ==
  /\ Registered(k)
  /\ entry' = [entry EXCEPT ![k] = None]
  /\ steady' = steady \ {k}
  /\ UNCHANGED <<open, active, readerVars, always, never>>

\* Mutant: a skill that is active already is listed again.
LoadedAgain(k) == Append(active, k)

Loaded(k) == Append(Without(active, {k}), k)

\* A load commits.
LoadSkill(k) ==
  /\ open
  /\ Registered(k) /\ entry[k].insert = "instructions"
  /\ active' = Loaded(k)
  /\ never' = never \ {k}
  /\ UNCHANGED <<entry, open, readerVars, steady, always>>

\* An unload, a load that replaces, or a pruning.
DropSkill(k) ==
  /\ k \in Range(active)
  /\ active' = Without(active, {k})
  /\ always' = always \ {k}
  /\ UNCHANGED <<entry, open, readerVars, steady, never>>

CloseSession ==
  /\ open
  /\ open' = FALSE
  /\ UNCHANGED <<entry, active, readerVars, ghostVars>>

----------------------------------------------------------------------------

Reader ==
  \/ List
  \/ GetSession \/ CopyActive \/ LookUp \/ PruneMissing
  \/ ResolveDef \/ ReadHandle \/ ReadIndex \/ ReadBody
  \/ \E k \in Keys : ReadAvailable(k)
  \/ Finish

Others ==
  \/ \E d \in Defs, ins \in Inserts : \E k \in Canonical[d] : AddSkill(d, k, ins)
  \/ \E k \in Keys : RemoveSkill(k) \/ LoadSkill(k) \/ DropSkill(k)
  \/ CloseSession

Next == (\E c \in Calls : Begin(c)) \/ Reader \/ Others

Spec == Init /\ [][Next]_vars

----------------------------------------------------------------------------
(* Properties *)

ShownActive == {items[i].key : i \in DOMAIN items}

\* What every variable holds; the session's list has no duplicates, and the
\* keys still to be read are of a copy of it (session.go:76-89).
TypeOK ==
  /\ entry \in [Keys -> Registrations \cup {None}]
  /\ open \in BOOLEAN
  /\ active \in Seq(Keys) /\ IsInjective(active)
  /\ call \in Calls
  /\ pc \in {"idle", "list", "get", "copy", "look", "resolve", "handle", "index",
             "body"}
  /\ DOMAIN records \in SUBSET Keys
  /\ records \in [DOMAIN records -> Registrations]
  /\ missing \in SUBSET Keys
  /\ order \in Seq(Keys) /\ todo \in Seq(Keys)
  /\ IsInjective(order) /\ IsInjective(todo)
  /\ left \in SUBSET Keys /\ listed \in SUBSET Keys
  /\ index \in Registrations \cup {None}
  /\ items \in Seq([key : Keys, index : Registrations, body : Registrations])
  /\ res \in {"none", "ok", "invalidArgument", "sessionNotFound",
              "skillNotFound", "bodyFailed"}
  /\ steady \in SUBSET Keys /\ always \in SUBSET Keys /\ never \in SUBSET Keys

\* A prompt shows no skill twice, neither in one section nor in both, though
\* the session's list changes while the sections are put together
\* (skillprompt.go:116, 175).
NoneTwice ==
  call.op = "prompt" =>
    /\ ShownActive \cap (listed \cup left) = {}
    /\ \A i, j \in DOMAIN items : items[i].key = items[j].key => i = j

(***************************************************************************)
(* An answer misses nothing that was there all the time, whatever happens  *)
(* to other skills: a skill registered throughout the call and admitted by *)
(* the filter is shown, as active if it was active throughout, as          *)
(* available if it never was, and in one of the two sections if it was     *)
(* activated or unloaded meanwhile.  What is shown of it is of one         *)
(* registration, and a prompt shows the body of instructions skills only   *)
(* (skillprompt.go:136-190, 254-262, runtime.go:303-327; of skills that    *)
(* are registered again meanwhile none of this can be said).               *)
(***************************************************************************)
SteadyShownRight ==
  /\ \A i \in DOMAIN items : items[i].key \in steady =>
       /\ items[i].index = items[i].body
       /\ call.op = "prompt" => items[i].body.insert = "instructions"
  /\ (res = "ok" /\ call.op # "render") =>
    LET active_ == IF call.op = "list" /\ call.activity # "inactive"
                   THEN listed ELSE ShownActive
        available == IF call.op = "list" /\ call.activity = "active"
                     THEN {} ELSE listed
    IN  \A k \in steady : Matches(Normalized(call), k) =>
          /\ call.activity = "any" => k \in active_ \cup available
          /\ (call.scoped /\ k \in always) =>
               IF call.activity = "inactive" THEN k \notin listed
               ELSE k \in active_
          /\ (~ call.scoped \/ k \in never) =>
               IF call.activity = "active" THEN k \notin active_
               ELSE k \in available

(***************************************************************************)
(* Every section and every list is of registrations that the filter        *)
(* admits, the active section too, whose keys come from the session and    *)
(* not from the catalog (skillprompt.go:128); and what is rendered is of   *)
(* the definition that was asked for.  What is admitted are the            *)
(* registrations listed or resolved.  A key that is removed then, and      *)
(* registered again under another definition, is read and shown by its key *)
(* all the same (skillprompt.go:136-180, 249-262): that AllowSkills        *)
(* `always apply' (skillprompt.go:22) is true of steady skills only.       *)
(***************************************************************************)
KeepsToFilter ==
  \A k \in ShownActive \cup listed :
    /\ k \in DOMAIN records
    /\ call.op # "render" => Admitted(Normalized(call), records[k])
    /\ call.op = "render" => records[k].def = call.skill
    /\ k \in steady => records[k] = entry[k]

============================================================================
