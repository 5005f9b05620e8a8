----------------------------- MODULE PromptProofs -----------------------------
(***************************************************************************)
(* Prompts and lists, proved: no skill is shown twice, what is shown is of *)
(* registrations that the filter admitted, and nothing is missed that was  *)
(* there all the time, for any number of skills and definitions, whatever  *)
(* happens between the reads.                                              *)
(***************************************************************************)
EXTENDS Prompt, SelectionProofs

----------------------------------------------------------------------------
(* Lists *)

\* The active section is of records, in the order of the session
\* (skillprompt.go:124-139).
LEMMA WantedFacts ==
  ASSUME NEW recs, NEW ord \in Seq(Keys), IsInjective(ord)
  PROVE  /\ Wanted(recs, ord) \in Seq(Keys)
         /\ IsInjective(Wanted(recs, ord))
         /\ Range(Wanted(recs, ord)) = Range(ord) \cap recs
<1> DEFINE P == {i \in DOMAIN ord : ord[i] \in recs}
<1>1. P \cap (1 .. Len(ord)) = P
  OBVIOUS
<1>2. {ord[i] : i \in P} = Range(ord) \cap recs
  BY DEF Range
<1>3. \A i, j \in P : ord[i] = ord[j] => i = j
  BY DEF IsInjective
<1>4. Wanted(recs, ord) = Selection(ord, P)
  BY DEF Wanted
<1> HIDE DEF P
<1> QED BY <1>1, <1>2, <1>3, <1>4, SelectionFacts

\* A key appended that was not there (session.go:84, 191).
LEMMA AppendFacts ==
  ASSUME NEW s \in Seq(Keys), IsInjective(s), NEW k \in Keys, k \notin Range(s)
  PROVE  /\ Append(s, k) \in Seq(Keys)
         /\ IsInjective(Append(s, k))
         /\ Range(Append(s, k)) = Range(s) \cup {k}
<1> DEFINE one == <<k>>
<1>1. one \in Seq(Keys) /\ DOMAIN one = {1} /\ one[1] = k
  OBVIOUS
<1>2. Append(s, k) = s \o one
  OBVIOUS
<1> HIDE DEF one
<1>3. Range(one) = {k} /\ IsInjective(one)
  BY <1>1 DEF Range, IsInjective
<1>4. Range(s) \cap Range(one) = {}
  BY <1>3
<1> QED BY <1>1, <1>2, <1>3, <1>4, ConcatFacts

\* What is left to read once the first key was read (session.go:80-89,
\* skillprompt.go:136-164).
LEMMA TailFacts ==
  ASSUME NEW s \in Seq(Keys), IsInjective(s), s # <<>>
  PROVE  /\ Head(s) \in Keys /\ Tail(s) \in Seq(Keys)
         /\ IsInjective(Tail(s))
         /\ Range(Tail(s)) = Range(s) \ {Head(s)}
         /\ Head(s) \in Range(s)
<1>1. /\ Len(s) \in Nat /\ Len(s) > 0 /\ DOMAIN s = 1 .. Len(s)
      /\ Head(s) = s[1] /\ Tail(s) \in Seq(Keys)
      /\ Len(Tail(s)) = Len(s) - 1
      /\ \A i \in 1 .. Len(s) - 1 : Tail(s)[i] = s[i + 1]
  OBVIOUS
<1> DEFINE t == Tail(s)
<1>2. DOMAIN t = 1 .. Len(s) - 1
  BY <1>1
<1>3. \A i \in 1 .. Len(s) - 1 : t[i] = s[i + 1]
  BY <1>1
<1> HIDE DEF t
<1>4. \A i, j \in 1 .. Len(s) : s[i] = s[j] => i = j
  BY <1>1 DEF IsInjective
<1>5. IsInjective(t)
  <2>1. ASSUME NEW i \in 1 .. Len(s) - 1, NEW j \in 1 .. Len(s) - 1, t[i] = t[j]
        PROVE  i = j
    <3>1. i + 1 \in 1 .. Len(s) /\ j + 1 \in 1 .. Len(s) /\ s[i + 1] = s[j + 1]
      BY <1>1, <1>3, <2>1
    <3>2. i + 1 = j + 1
      BY <1>4, <3>1
    <3> QED BY <3>2
  <2> QED BY <1>2, <2>1 DEF IsInjective
<1>6. ASSUME NEW i \in DOMAIN t PROVE t[i] \in Range(s) \ {Head(s)}
  <2>1. i + 1 \in 1 .. Len(s) /\ 1 \in 1 .. Len(s) /\ t[i] = s[i + 1] /\ i + 1 # 1
    BY <1>1, <1>2, <1>3
  <2>2. s[i + 1] # s[1]
    BY <1>4, <2>1
  <2> QED BY <1>1, <2>1, <2>2 DEF Range
<1>7. ASSUME NEW i \in 1 .. Len(s), s[i] # Head(s) PROVE s[i] \in Range(t)
  <2>1. i - 1 \in 1 .. Len(s) - 1 /\ s[i] = s[(i - 1) + 1]
    BY <1>1, <1>7
  <2>2. i - 1 \in DOMAIN t /\ t[i - 1] = s[i]
    BY <1>2, <1>3, <2>1
  <2> QED BY <2>2 DEF Range
<1>8. Range(t) \subseteq Range(s) \ {Head(s)}
  BY <1>6 DEF Range
<1>9. Range(s) \ {Head(s)} \subseteq Range(t)
  BY <1>1, <1>7 DEF Range
<1>10. Head(s) \in Range(s) /\ Head(s) \in Keys
  BY <1>1 DEF Range
<1> QED BY <1>1, <1>5, <1>8, <1>9, <1>10 DEF t

----------------------------------------------------------------------------
(* The invariant *)

\* What has been read at each place: nothing is shown before the sections
\* are known, a looked up key is no longer to be looked up, and there is a
\* key whose handle, index or body is read (session.go:76-89,
\* skillprompt.go:136-164).
Places ==
  /\ pc \in {"list", "get", "copy", "resolve"} => todo = <<>> /\ order = <<>>
  /\ pc \in {"list", "get", "copy", "look", "resolve"} =>
       items = <<>> /\ listed = {} /\ left = {}
  /\ pc \in {"list", "get", "copy", "look"} => call.op # "render"
  /\ pc = "resolve" => call.op = "render"
  /\ pc = "look" => Range(order) \cap Range(todo) = {}
  /\ pc \in {"index", "body"} => todo # <<>>
  /\ pc = "body" => index \in Registrations

\* What a prompt has shown it will not show again (skillprompt.go:116, 175).
Apart ==
  call.op = "prompt" =>
    /\ ShownActive \cap Range(todo) = {}
    /\ (ShownActive \cup Range(todo)) \cap (listed \cup left) = {}
    /\ \A i, j \in DOMAIN items : items[i].key = items[j].key => i = j

\* What is shown, or will be, is of the registrations that the catalog has
\* filtered, or resolved (skillprompt.go:124-139, 172-175, 249,
\* runtime.go:303-327).
Filtered ==
  /\ \A k \in DOMAIN records :
       /\ call.op # "render" => Admitted(Normalized(call), records[k])
       /\ call.op = "render" => records[k].def = call.skill
  /\ ShownActive \cup listed \cup left \subseteq DOMAIN records
  /\ pc \in {"handle", "index", "body"} => Range(todo) \subseteq DOMAIN records

\* What every step keeps.
Inv == TypeOK /\ Places /\ Apart /\ Filtered

----------------------------------------------------------------------------
(* What others do *)

\* What the caller keeps is not touched by what others do (runtime.go:182-246,
\* session.go:97-327).
LEMMA OthersKeep ==
  ASSUME Inv, UNCHANGED readerVars
  PROVE  Places' /\ Apart' /\ Filtered'
<1>1. /\ call' = call /\ pc' = pc /\ items' = items /\ listed' = listed
      /\ records' = records /\ order' = order /\ todo' = todo /\ left' = left
      /\ index' = index
  BY DEF readerVars, readVars
<1>2. Places'
  BY <1>1 DEF Inv, Places
<1>3. ShownActive' = ShownActive
  BY <1>1 DEF ShownActive
<1>4. Apart'
  BY <1>1, <1>3 DEF Inv, Apart
<1>5. Filtered'
  BY <1>1, <1>3 DEF Inv, Filtered
<1> QED BY <1>2, <1>4, <1>5

\* The types of the caller's variables (skillprompt.go:75-206).
ReaderTypes ==
  /\ call \in Calls
  /\ pc \in {"idle", "list", "get", "copy", "look", "resolve", "handle", "index",
             "body"}
  /\ DOMAIN records \in SUBSET Keys
  /\ records \in [DOMAIN records -> Registrations]
  /\ missing \in SUBSET Keys
  /\ order \in Seq(Keys) /\ todo \in Seq(Keys)
  /\ IsInjective(order) /\ IsInjective(todo)
  /\ left \in SUBSET Keys /\ listed \in SUBSET Keys
  /\ index \in Registrations \cup {None}
  /\ items \in Seq([key : Keys, index : Registrations, body : Registrations])
  /\ res \in {"none", "ok", "invalidArgument", "sessionNotFound",
              "skillNotFound", "bodyFailed"}

\* The types of the catalog's and the session's variables (runtime.go:182-246,
\* session.go:97-327), and of the history.
OtherTypes ==
  /\ entry \in [Keys -> Registrations \cup {None}]
  /\ open \in BOOLEAN
  /\ active \in Seq(Keys) /\ IsInjective(active)
  /\ steady \in SUBSET Keys /\ always \in SUBSET Keys /\ never \in SUBSET Keys

\* Both make the type invariant, before a step and after it (skillprompt.go).
LEMMA TypeHalves ==
  /\ TypeOK <=> ReaderTypes /\ OtherTypes
  /\ TypeOK' <=> ReaderTypes' /\ OtherTypes'
<1>1. TypeOK <=> ReaderTypes /\ OtherTypes
  BY DEF TypeOK, ReaderTypes, OtherTypes
<1>2. TypeOK' <=> ReaderTypes' /\ OtherTypes'
  BY DEF TypeOK, ReaderTypes, OtherTypes
<1> QED BY <1>1, <1>2

\* What the caller does not touch (skillprompt.go:100-206) keeps its types.
LEMMA ReaderKeeps ==
  ASSUME TypeOK, UNCHANGED <<envVars, ghostVars>>
  PROVE  OtherTypes'
  BY DEF TypeOK, OtherTypes, envVars, ghostVars

\* Registrations, removals, loads and unloads (runtime.go:182-246,
\* session.go:97-327) keep the session's list without duplicates.
LEMMA OthersStep ==
  ASSUME Inv, Others
  PROVE  Inv'
<1>0. TypeOK /\ OtherTypes /\ ReaderTypes
  BY TypeHalves DEF Inv
<1>1. UNCHANGED readerVars
  BY DEF Others, AddSkill, RemoveSkill, LoadSkill, DropSkill, CloseSession
<1>2. ReaderTypes'
  BY <1>0, <1>1 DEF ReaderTypes, readerVars, readVars
<1>3. ASSUME NEW gone
      PROVE  /\ Without(active, gone) \in Seq(Keys)
             /\ IsInjective(Without(active, gone))
             /\ Range(Without(active, gone)) = Range(active) \ gone
  BY <1>0, WithoutFacts DEF OtherTypes
<1>4. ASSUME NEW d \in Defs, NEW ins \in Inserts, NEW k \in Canonical[d],
             AddSkill(d, k, ins)
      PROVE  OtherTypes'
  <2> DEFINE reg == [def |-> d, insert |-> ins]
  <2>1. k \in Keys /\ reg \in Registrations
    BY PromptAssumption DEF Registrations
  <2>2. entry' = [entry EXCEPT ![k] = reg] /\ UNCHANGED <<open, active, ghostVars>>
    BY <1>4 DEF AddSkill
  <2> HIDE DEF reg
  <2> QED BY <1>0, <2>1, <2>2 DEF OtherTypes, ghostVars
<1>5. ASSUME NEW k \in Keys, RemoveSkill(k) PROVE OtherTypes'
  BY <1>0, <1>5 DEF RemoveSkill, OtherTypes
<1>6. ASSUME NEW k \in Keys, LoadSkill(k) PROVE OtherTypes'
  <2> DEFINE t == Without(active, {k})
  <2>1. t \in Seq(Keys) /\ IsInjective(t) /\ k \notin Range(t)
    BY <1>3
  <2>2. /\ active' = Append(t, k) /\ never' = never \ {k}
        /\ UNCHANGED <<entry, open, steady, always>>
    BY <1>6 DEF LoadSkill, Loaded
  <2> HIDE DEF t
  <2>3. Append(t, k) \in Seq(Keys) /\ IsInjective(Append(t, k))
    BY <2>1, AppendFacts
  <2> QED BY <1>0, <2>2, <2>3 DEF OtherTypes
<1>7. ASSUME NEW k \in Keys, DropSkill(k) PROVE OtherTypes'
  BY <1>0, <1>3, <1>7 DEF DropSkill, OtherTypes
<1>8. ASSUME CloseSession PROVE OtherTypes'
  BY <1>0, <1>8 DEF CloseSession, OtherTypes, ghostVars
<1>9. OtherTypes'
  BY <1>4, <1>5, <1>6, <1>7, <1>8 DEF Others
<1> QED BY <1>1, <1>2, <1>9, OthersKeep, TypeHalves DEF Inv

----------------------------------------------------------------------------
(* What the caller does *)

\* What of the invariant is about the caller (skillprompt.go:75-206).
ReaderInv == ReaderTypes /\ Places /\ Apart /\ Filtered

\* With nothing shown there is nothing to show twice (skillprompt.go:100-116).
LEMMA NothingShown ==
  /\ items = <<>> => ShownActive = {}
  /\ items' = <<>> => ShownActive' = {}
<1>1. ASSUME items = <<>> PROVE ShownActive = {}
  BY <1>1 DEF ShownActive
<1>2. ASSUME items' = <<>> PROVE ShownActive' = {}
  BY <1>2 DEF ShownActive
<1> QED BY <1>1, <1>2

\* The empty list of keys (skillprompt.go:100).
LEMMA EmptyFacts ==
  <<>> \in Seq(Keys) /\ IsInjective(<<>>) /\ Range(<<>>) = {}
<1>1. <<>> \in Seq(Keys) /\ DOMAIN <<>> = {}
  OBVIOUS
<1> QED BY <1>1 DEF IsInjective, Range

\* A call begins with nothing read and nothing shown (skillprompt.go:75-98).
LEMMA BeginStep ==
  ASSUME Inv, NEW c \in Calls, Begin(c)
  PROVE  ReaderInv' /\ OtherTypes'
<1>0. TypeOK /\ OtherTypes /\ ReaderTypes
  BY TypeHalves DEF Inv
<1>1. /\ call' = c /\ records' = NoRecords /\ order' = <<>> /\ missing' = {}
      /\ todo' = <<>> /\ left' = {} /\ index' = None /\ items' = <<>> /\ listed' = {}
  BY DEF Begin
<1>2. \/ pc' = "idle" /\ res' = "invalidArgument"
      \/ pc' = (IF c.op = "render" THEN "resolve" ELSE "list") /\ res' = "none"
  BY DEF Begin, Answer
<1>3. DOMAIN NoRecords = {} /\ NoRecords \in [{} -> Registrations]
  BY DEF NoRecords
<1>4. c.op \in {"prompt", "list", "render"}
  BY DEF Calls
<1>5. <<>> \in Seq([key : Keys, index : Registrations, body : Registrations])
  OBVIOUS
<1>6. ReaderTypes'
  BY <1>1, <1>2, <1>3, <1>5, EmptyFacts DEF ReaderTypes
<1>7. Places'
  BY <1>1, <1>2 DEF Places
<1>8. ShownActive' = {}
  BY <1>1, NothingShown
<1>9. Apart'
  BY <1>1, <1>8 DEF Apart
<1>10. Filtered'
  <2>1. pc' \notin {"handle", "index", "body"}
    BY <1>2
  <2> QED BY <1>1, <1>3, <1>8, <2>1 DEF Filtered
<1>11. Range(active) \subseteq Keys
  BY <1>0 DEF OtherTypes, Range
<1>12. OtherTypes'
  <2>1. /\ steady' \in SUBSET Keys /\ always' \in SUBSET Keys /\ never' \in SUBSET Keys
        /\ UNCHANGED <<entry, open, active>>
    BY <1>11 DEF Begin, envVars
  <2> QED BY <1>0, <2>1 DEF OtherTypes
<1> QED BY <1>6, <1>7, <1>9, <1>10, <1>12 DEF ReaderInv

\* What ListSkills answers and what SkillsPrompt goes on to read are of the
\* records, and the two sections have no key in common (skillprompt.go:116-179,
\* runtime.go:298-328).
LEMMA SectionsFacts ==
  ASSUME ReaderTypes, call.op # "render", listed = {}, left = {},
         NEW recs \in SUBSET Keys,
         NEW ord \in Seq(Keys), IsInjective(ord), Sections(recs, ord)
  PROVE  /\ todo' = todo \/ (todo' \in Seq(Keys) /\ IsInjective(todo'))
         /\ left' \in SUBSET recs /\ listed' \in SUBSET recs
         /\ res' = res \/ res' = "ok"
         /\ \/ call.op = "list" /\ pc' = "idle"
            \/ /\ call.op = "prompt" /\ pc' = "handle" /\ listed' = {}
               /\ Range(todo') \subseteq recs
               /\ Range(todo') \cap left' = {}
<1>1. CASE call.op = "list"
  <2>1. /\ todo' = todo /\ left' = left /\ pc' = "idle" /\ res' = "ok"
        /\ \/ listed' = recs
           \/ listed' = recs \cap Range(ord)
           \/ listed' = Inactive(recs, ord)
    BY <1>1 DEF Sections, Listed, Answer
  <2>2. listed' \in SUBSET recs
    BY <2>1 DEF Inactive
  <2> QED BY <1>1, <2>1, <2>2
<1>2. CASE call.op = "prompt"
  <2>1. /\ todo' = <<>> \/ todo' = Wanted(recs, ord)
        /\ left' = {} \/ left' = Inactive(recs, ord)
        /\ pc' = "handle" /\ listed' = {} /\ res' = res
    BY <1>2 DEF Sections
  <2>2. /\ todo' \in Seq(Keys) /\ IsInjective(todo')
        /\ Range(todo') \subseteq Range(ord) \cap recs
    <3>1. CASE todo' = <<>>
      BY <3>1, EmptyFacts
    <3>2. CASE todo' = Wanted(recs, ord)
      BY <3>2, WantedFacts
    <3> QED BY <2>1, <3>1, <3>2
  <2>3. left' \subseteq recs \ Range(ord)
    BY <2>1 DEF Inactive
  <2> QED BY <1>2, <2>1, <2>2, <2>3
<1>3. call.op = "list" \/ call.op = "prompt"
  BY DEF ReaderTypes, Calls
<1> QED BY <1>1, <1>2, <1>3

\* The sections begin with nothing shown (skillprompt.go:116-134).
LEMMA SectionsStep ==
  ASSUME ReaderTypes, call.op # "render", items = <<>>, listed = {}, left = {},
         NEW recs \in SUBSET Keys, NEW regs \in [recs -> Registrations],
         \A k \in recs : Admitted(Normalized(call), regs[k]),
         NEW ord \in Seq(Keys), IsInjective(ord), Sections(recs, ord),
         UNCHANGED <<call, order, missing, index, items>>, records' = regs
  PROVE  ReaderInv'
<1>1. /\ todo' = todo \/ (todo' \in Seq(Keys) /\ IsInjective(todo'))
      /\ left' \in SUBSET recs /\ listed' \in SUBSET recs
      /\ res' = res \/ res' = "ok"
      /\ \/ call.op = "list" /\ pc' = "idle"
         \/ /\ call.op = "prompt" /\ pc' = "handle" /\ listed' = {}
            /\ Range(todo') \subseteq recs
            /\ Range(todo') \cap left' = {}
  BY SectionsFacts
<1>2. ReaderTypes'
  BY <1>1 DEF ReaderTypes
<1>3. Places'
  BY <1>1 DEF Places
<1>4. ShownActive' = {} /\ DOMAIN items' = {}
  BY NothingShown
<1>5. Apart'
  BY <1>1, <1>4 DEF Apart
<1>6. Filtered'
  BY <1>1, <1>4 DEF Filtered
<1> QED BY <1>2, <1>3, <1>5, <1>6 DEF ReaderInv

\* The catalog is asked with the filter (catalog.go:286-334).
LEMMA ListStep ==
  ASSUME Inv, List
  PROVE  ReaderInv'
<1>0. ReaderTypes /\ OtherTypes /\ Places /\ pc = "list"
  BY TypeHalves DEF Inv, List
<1>1. /\ items = <<>> /\ listed = {} /\ left = {} /\ call.op # "render"
      /\ todo = <<>> /\ order = <<>>
  BY <1>0 DEF Places
<1> DEFINE recs == {k \in Keys : Matches(Normalized(call), k)}
           regs == [k \in recs |-> entry[k]]
<1>2. records' = regs /\ UNCHANGED <<call, order, missing, index, items>>
  BY DEF List
<1>3. /\ recs \in SUBSET Keys /\ regs \in [recs -> Registrations]
      /\ \A k \in recs : Admitted(Normalized(call), regs[k])
  <2>1. \A k \in recs : entry[k] \in Registrations
    BY <1>0 DEF OtherTypes, Matches, Registered
  <2>2. \A k \in recs : Admitted(Normalized(call), entry[k])
    BY DEF Matches
  <2> QED BY <2>1, <2>2
<1>6. \/ pc' = "get" /\ UNCHANGED <<todo, left, listed, res>>
      \/ Sections(recs, <<>>)
  <2>1. DOMAIN records' = recs
    BY <1>2
  <2> HIDE DEF recs, regs
  <2> QED BY <2>1 DEF List
<1> HIDE DEF recs, regs
<1>4. CASE pc' = "get" /\ UNCHANGED <<todo, left, listed, res>>
  <2>1. ReaderTypes'
    BY <1>0, <1>2, <1>3, <1>4 DEF ReaderTypes
  <2>2. Places'
    BY <1>1, <1>2, <1>4 DEF Places
  <2>3. ShownActive' = {} /\ DOMAIN items' = {}
    BY <1>1, <1>2, NothingShown
  <2>4. Apart'
    BY <1>1, <1>4, <2>3 DEF Apart
  <2>5. Filtered'
    BY <1>1, <1>2, <1>3, <1>4, <2>3 DEF Filtered
  <2> QED BY <2>1, <2>2, <2>4, <2>5 DEF ReaderInv
<1>5. CASE Sections(recs, <<>>)
  BY <1>0, <1>1, <1>2, <1>3, <1>5, EmptyFacts, SectionsStep
<1> QED BY <1>4, <1>5, <1>6

\* A read that shows nothing leaves what is shown, and what will be, apart
\* and of the records (skillprompt.go:136-153).
LEMMA NothingNewShown ==
  ASSUME Apart, Filtered, UNCHANGED <<call, records, items, listed, left>>,
         Range(todo') \subseteq Range(todo),
         pc' \in {"handle", "index", "body"} => pc \in {"handle", "index", "body"}
  PROVE  Apart' /\ Filtered'
<1>1. ShownActive' = ShownActive
  BY DEF ShownActive
<1>2. Apart'
  BY <1>1 DEF Apart
<1>3. Filtered'
  BY <1>1 DEF Filtered
<1> QED BY <1>2, <1>3

\* The session is looked up, its list copied (runtime.go:280-293,
\* session.go:66-78): before that nothing is shown.
LEMMA SessionReads ==
  ASSUME Inv, GetSession \/ CopyActive
  PROVE  ReaderInv'
<1>0. ReaderTypes /\ OtherTypes /\ Places /\ Filtered /\ pc \in {"get", "copy"}
  BY TypeHalves DEF Inv, GetSession, CopyActive
<1>1. /\ items = <<>> /\ listed = {} /\ left = {} /\ call.op # "render"
      /\ todo = <<>> /\ order = <<>>
  BY <1>0 DEF Places
<1>2. /\ UNCHANGED <<call, records, order, missing, left, index, items, listed>>
      /\ res' = res \/ res' = "sessionNotFound"
      /\ pc' \in {"copy", "look", "idle"}
      /\ pc' = "copy" => todo' = todo
      /\ todo' = todo \/ todo' = active
  BY DEF GetSession, CopyActive, Answer, readVars
<1>3. todo' \in Seq(Keys) /\ IsInjective(todo')
  BY <1>0, <1>2 DEF ReaderTypes, OtherTypes
<1>4. ReaderTypes'
  BY <1>0, <1>2, <1>3 DEF ReaderTypes
<1>5. Range(order) = {}
  BY <1>1, EmptyFacts
<1>6. Places'
  BY <1>1, <1>2, <1>5 DEF Places
<1>7. ShownActive = {} /\ ShownActive' = {} /\ DOMAIN items' = {}
  BY <1>1, <1>2, NothingShown
<1>8. Apart'
  BY <1>1, <1>2, <1>7 DEF Apart
<1>9. Filtered'
  BY <1>0, <1>2, <1>7 DEF Filtered
<1> QED BY <1>4, <1>6, <1>8, <1>9 DEF ReaderInv

\* A key of the copy is looked up (session.go:80-89).
LEMMA LookUpStep ==
  ASSUME Inv, LookUp
  PROVE  ReaderInv'
<1>0. /\ ReaderTypes /\ Places /\ Apart /\ Filtered
      /\ pc = "look" /\ todo # <<>>
  BY TypeHalves DEF Inv, LookUp
<1>1. /\ items = <<>> /\ listed = {} /\ left = {} /\ call.op # "render"
      /\ Range(order) \cap Range(todo) = {}
  BY <1>0 DEF Places
<1>2. /\ UNCHANGED <<call, pc, records, left, index, items, listed, res>>
      /\ todo' = Tail(todo)
      /\ \/ order' = Append(order, Head(todo)) /\ missing' = missing
         \/ order' = order /\ missing' = missing \cup {Head(todo)}
  BY DEF LookUp
<1>3. /\ Head(todo) \in Keys /\ todo' \in Seq(Keys) /\ IsInjective(todo')
      /\ Range(todo') = Range(todo) \ {Head(todo)} /\ Head(todo) \in Range(todo)
  BY <1>0, <1>2, TailFacts DEF ReaderTypes
<1>4. order \in Seq(Keys) /\ IsInjective(order) /\ Head(todo) \notin Range(order)
  BY <1>0, <1>1, <1>3 DEF ReaderTypes
<1>5. /\ order' \in Seq(Keys) /\ IsInjective(order')
      /\ Range(order') \subseteq Range(order) \cup {Head(todo)}
  <2> DEFINE k == Head(todo)
  <2>1. k \in Keys /\ k \notin Range(order)
    BY <1>3, <1>4
  <2>2. order' = Append(order, k) \/ order' = order
    BY <1>2
  <2> HIDE DEF k
  <2>3. CASE order' = Append(order, k)
    <3>1. /\ Append(order, k) \in Seq(Keys) /\ IsInjective(Append(order, k))
          /\ Range(Append(order, k)) = Range(order) \cup {k}
      BY <1>4, <2>1, AppendFacts
    <3> QED BY <2>3, <3>1 DEF k
  <2>4. CASE order' = order
    BY <1>4, <2>4
  <2> QED BY <2>2, <2>3, <2>4
<1>6. missing' \in SUBSET Keys
  BY <1>0, <1>2, <1>3 DEF ReaderTypes
<1>7. ReaderTypes'
  BY <1>0, <1>2, <1>3, <1>5, <1>6 DEF ReaderTypes
<1>8. Places'
  <2>1. Range(order') \cap Range(todo') = {}
    BY <1>1, <1>3, <1>5
  <2> QED BY <1>0, <1>1, <1>2, <2>1 DEF Places
<1>9. Apart' /\ Filtered'
  BY <1>0, <1>2, <1>3, NothingNewShown
<1> QED BY <1>7, <1>8, <1>9 DEF ReaderInv

\* The list is pruned, and the sections begin (session.go:91-95).
LEMMA PruneStep ==
  ASSUME Inv, PruneMissing
  PROVE  ReaderInv' /\ OtherTypes'
<1>0. ReaderTypes /\ OtherTypes /\ Places /\ Filtered /\ pc = "look"
  BY TypeHalves DEF Inv, PruneMissing
<1>1. items = <<>> /\ listed = {} /\ left = {} /\ call.op # "render"
  BY <1>0 DEF Places
<1>2. /\ active' = Without(active, missing) \/ active' = active
      /\ always' = always \cap Range(active')
      /\ UNCHANGED <<entry, open, steady, never>>
  BY DEF PruneMissing
<1>3. Without(active, missing) \in Seq(Keys) /\ IsInjective(Without(active, missing))
  BY <1>0, WithoutFacts DEF OtherTypes
<1>4. OtherTypes'
  BY <1>0, <1>2, <1>3 DEF OtherTypes
<1>5. /\ Sections(DOMAIN records, order)
      /\ UNCHANGED <<call, records, order, missing, index, items>>
  BY DEF PruneMissing
<1>6. \A k \in DOMAIN records : Admitted(Normalized(call), records[k])
  BY <1>0, <1>1 DEF Filtered
<1>7. /\ DOMAIN records \in SUBSET Keys
      /\ records \in [DOMAIN records -> Registrations]
      /\ order \in Seq(Keys) /\ IsInjective(order)
  BY <1>0 DEF ReaderTypes
<1>8. ReaderInv'
  BY <1>0, <1>1, <1>5, <1>6, <1>7, SectionsStep
<1> QED BY <1>4, <1>8

\* The definition is resolved to the key that it is registered with
\* (skillprompt.go:249).
LEMMA ResolveStep ==
  ASSUME Inv, ResolveDef
  PROVE  ReaderInv'
<1>0. ReaderTypes /\ OtherTypes /\ Places /\ Apart /\ Filtered /\ pc = "resolve"
  BY TypeHalves DEF Inv, ResolveDef
<1>1. /\ items = <<>> /\ listed = {} /\ left = {} /\ todo = <<>>
      /\ call.op = "render"
  BY <1>0 DEF Places
<1>2. UNCHANGED <<call, order, missing, left, index, items, listed>>
  BY DEF ResolveDef
<1>3. ShownActive' = {}
  BY <1>1, <1>2, NothingShown
<1>4. Apart'
  BY <1>1, <1>2 DEF Apart
<1>5. ASSUME NEW k \in Keys, Registered(k), entry[k].def = call.skill,
             records' = RecordOf(k), todo' = <<k>>, pc' = "index", UNCHANGED res
      PROVE  ReaderTypes' /\ Places' /\ Filtered'
  <2> DEFINE one == <<k>>
  <2>1. one \in Seq(Keys) /\ DOMAIN one = {1} /\ one[1] = k /\ one # <<>>
    OBVIOUS
  <2>2. todo' = one
    BY <1>5
  <2> HIDE DEF one
  <2>3. IsInjective(one) /\ Range(one) = {k}
    BY <2>1 DEF IsInjective, Range
  <2>4. entry[k] \in Registrations
    BY <1>0, <1>5 DEF OtherTypes, Registered
  <2>5. /\ DOMAIN records' = {k} /\ records' \in [{k} -> Registrations]
        /\ \A j \in {k} : records'[j].def = call.skill
    BY <1>5, <2>4 DEF RecordOf
  <2>6. ReaderTypes'
    BY <1>0, <1>2, <1>5, <2>1, <2>2, <2>3, <2>5 DEF ReaderTypes
  <2>7. Places'
    BY <1>5, <2>1, <2>2 DEF Places
  <2>8. Filtered'
    BY <1>1, <1>2, <1>3, <2>2, <2>3, <2>5 DEF Filtered
  <2> QED BY <2>6, <2>7, <2>8
<1>6. ASSUME pc' = "idle", res' = "skillNotFound", UNCHANGED <<records, todo>>
      PROVE  ReaderTypes' /\ Places' /\ Filtered'
  <2>1. ReaderTypes'
    BY <1>0, <1>2, <1>6 DEF ReaderTypes
  <2>2. Places'
    BY <1>6 DEF Places
  <2>3. Filtered'
    BY <1>0, <1>1, <1>2, <1>3, <1>6 DEF Filtered
  <2> QED BY <2>1, <2>2, <2>3
<1> QED BY <1>4, <1>5, <1>6 DEF ReaderInv, ResolveDef, Answer

\* A skill that is not found is passed over (skillprompt.go:140-153), or ends
\* RenderSkill (skillprompt.go:249-257).
LEMMA NotFoundFacts ==
  ASSUME ReaderTypes, todo # <<>>, NotFound
  PROVE  /\ todo' \in Seq(Keys) /\ IsInjective(todo')
         /\ Range(todo') \subseteq Range(todo)
         /\ pc' \in {"idle", "handle"}
         /\ res' = res \/ res' = "skillNotFound"
<1>1. \/ pc' = "idle" /\ res' = "skillNotFound" /\ todo' = todo
      \/ todo' = Tail(todo) /\ pc' = "handle" /\ res' = res
  BY DEF NotFound, Answer, PassOver
<1>2. CASE todo' = todo
  BY <1>1, <1>2 DEF ReaderTypes
<1>3. CASE todo' = Tail(todo)
  BY <1>1, <1>3, TailFacts DEF ReaderTypes
<1> QED BY <1>1, <1>2, <1>3

\* Handle and index of the next skill are read (skillprompt.go:136-147).
LEMMA HandleAndIndexReads ==
  ASSUME Inv, ReadHandle \/ ReadIndex
  PROVE  ReaderInv'
<1>0. ReaderTypes /\ OtherTypes /\ Places /\ Apart /\ Filtered
  BY TypeHalves DEF Inv
<1>1. /\ pc \in {"handle", "index"} /\ todo # <<>>
      /\ UNCHANGED <<call, records, order, missing, left, items, listed>>
  BY <1>0 DEF ReadHandle, ReadIndex, Places
<1>2. Head(todo) \in Keys
  BY <1>0, <1>1, TailFacts DEF ReaderTypes
<1>3. \/ /\ pc' = "index" /\ UNCHANGED <<todo, res, index>>
      \/ /\ pc' = "body" /\ UNCHANGED <<todo, res>>
         /\ Registered(Head(todo)) /\ index' = entry[Head(todo)]
      \/ NotFound /\ index' = index
  BY DEF ReadHandle, ReadIndex
<1>4. Registered(Head(todo)) => entry[Head(todo)] \in Registrations
  BY <1>0, <1>2 DEF OtherTypes, Registered
<1>5. /\ todo' \in Seq(Keys) /\ IsInjective(todo')
      /\ Range(todo') \subseteq Range(todo)
      /\ pc' \in {"idle", "handle", "index", "body"}
      /\ pc' \in {"index", "body"} => todo' # <<>>
      /\ pc' = "body" => index' \in Registrations
      /\ index' \in Registrations \cup {None}
      /\ res' = res \/ res' = "skillNotFound"
  <2>1. CASE NotFound /\ index' = index
    BY <1>0, <1>1, <2>1, NotFoundFacts DEF ReaderTypes
  <2>2. CASE pc' \in {"index", "body"} /\ UNCHANGED <<todo, res>>
    BY <1>0, <1>1, <1>3, <1>4, <2>2, NotFoundFacts DEF ReaderTypes
  <2> QED BY <1>3, <2>1, <2>2
<1>6. ReaderTypes'
  BY <1>0, <1>1, <1>5 DEF ReaderTypes
<1>7. Places'
  BY <1>5 DEF Places
<1>8. Apart' /\ Filtered'
  BY <1>0, <1>1, <1>5, NothingNewShown
<1> QED BY <1>6, <1>7, <1>8 DEF ReaderInv

\* One more skill is shown (skillprompt.go:157-164).
LEMMA ShownFacts ==
  ASSUME NEW x \in [key : Keys, index : Registrations, body : Registrations],
         ReaderTypes, items' = Append(items, x)
  PROVE  /\ items' \in Seq([key : Keys, index : Registrations, body : Registrations])
         /\ ShownActive' = ShownActive \cup {x.key}
         /\ ((\A i, j \in DOMAIN items : items[i].key = items[j].key => i = j)
             /\ x.key \notin ShownActive)
              => \A i, j \in DOMAIN items' : items'[i].key = items'[j].key => i = j
<1> DEFINE Item == [key : Keys, index : Registrations, body : Registrations]
<1>1. items \in Seq(Item)
  BY DEF ReaderTypes
<1> HIDE DEF Item
<1>2. x \in Item
  BY DEF Item
<1>3. /\ items' \in Seq(Item) /\ Len(items) \in Nat
      /\ DOMAIN items = 1 .. Len(items) /\ DOMAIN items' = 1 .. Len(items) + 1
      /\ \A i \in 1 .. Len(items) : items'[i] = items[i]
      /\ items'[Len(items) + 1] = x
  BY <1>1, <1>2
<1>4. ShownActive' = {items'[i].key : i \in DOMAIN items'}
  BY DEF ShownActive
<1>5. ShownActive' \subseteq ShownActive \cup {x.key}
  BY <1>3, <1>4 DEF ShownActive
<1>6. ShownActive \subseteq ShownActive'
  <2>1. ASSUME NEW i \in DOMAIN items
        PROVE  i \in DOMAIN items' /\ items'[i].key = items[i].key
    BY <1>3, <2>1
  <2> QED BY <1>4, <2>1 DEF ShownActive
<1>7. x.key \in ShownActive'
  BY <1>3, <1>4
<1>8. ASSUME \A i, j \in DOMAIN items : items[i].key = items[j].key => i = j,
             x.key \notin ShownActive,
             NEW i \in DOMAIN items', NEW j \in DOMAIN items',
             items'[i].key = items'[j].key
      PROVE  i = j
  <2>1. \A n \in DOMAIN items : items'[n] = items[n] /\ items[n].key # x.key
    BY <1>3, <1>8 DEF ShownActive
  <2>2. \A n \in DOMAIN items' : n \in DOMAIN items \/ n = Len(items) + 1
    BY <1>3
  <2> QED BY <1>3, <1>8, <2>1, <2>2
<1> QED BY <1>3, <1>5, <1>6, <1>7, <1>8 DEF Item

\* A body is read and shown, the skill is passed over, or the call fails
\* (skillprompt.go:148-164, 249-289).
LEMMA BodyStep ==
  ASSUME Inv, ReadBody
  PROVE  ReaderInv'
<1>0. /\ ReaderTypes /\ OtherTypes /\ Places /\ Apart /\ Filtered
      /\ pc = "body" /\ todo # <<>> /\ index \in Registrations
  BY TypeHalves DEF Inv, ReadBody, Places
<1> DEFINE k == Head(todo)
           x == [key |-> k, index |-> index, body |-> entry[k]]
<1>1. /\ k \in Keys /\ Tail(todo) \in Seq(Keys) /\ IsInjective(Tail(todo))
      /\ Range(Tail(todo)) = Range(todo) \ {k} /\ k \in Range(todo)
  BY <1>0, TailFacts DEF ReaderTypes
<1>2. UNCHANGED <<call, records, order, missing, left, listed>> /\ index' = None
  BY DEF ReadBody
<1>3. \/ /\ Registered(k) /\ items' = Append(items, x) /\ todo' = Tail(todo)
         /\ \/ pc' = "idle" /\ res' = "ok"
            \/ pc' = "handle" /\ res' = res
      \/ NotFound /\ items' = items
      \/ /\ pc' = "idle" /\ res' = "bodyFailed" /\ UNCHANGED <<items, todo>>
  BY DEF ReadBody, Answer
<1>4. CASE /\ Registered(k) /\ items' = Append(items, x) /\ todo' = Tail(todo)
           /\ \/ pc' = "idle" /\ res' = "ok"
              \/ pc' = "handle" /\ res' = res
  <2>1. entry[k] \in Registrations
    BY <1>0, <1>1, <1>4 DEF OtherTypes, Registered
  <2>2. x \in [key : Keys, index : Registrations, body : Registrations] /\ x.key = k
    BY <1>0, <1>1, <2>1
  <2>3. items' = Append(items, x)
    BY <1>4
  <2> HIDE DEF x
  <2>4. /\ items' \in Seq([key : Keys, index : Registrations, body : Registrations])
        /\ ShownActive' = ShownActive \cup {k}
        /\ ((\A i, j \in DOMAIN items : items[i].key = items[j].key => i = j)
            /\ k \notin ShownActive)
             => \A i, j \in DOMAIN items' : items'[i].key = items'[j].key => i = j
    BY <1>0, <2>2, <2>3, ShownFacts
  <2>5. todo' = Tail(todo) /\ pc' \in {"idle", "handle"} /\ (res' = "ok" \/ res' = res)
    BY <1>4
  <2> HIDE DEF k
  <2>6. ReaderTypes'
    BY <1>0, <1>1, <1>2, <2>4, <2>5 DEF ReaderTypes
  <2>7. Places'
    BY <2>5 DEF Places
  <2>8. Apart'
    <3>1. SUFFICES ASSUME call.op = "prompt"
                   PROVE  /\ ShownActive' \cap Range(todo') = {}
                          /\ (ShownActive' \cup Range(todo')) \cap (listed' \cup left') = {}
                          /\ \A i, j \in DOMAIN items' :
                                items'[i].key = items'[j].key => i = j
      BY <1>2 DEF Apart
    <3>2. /\ ShownActive \cap Range(todo) = {}
          /\ (ShownActive \cup Range(todo)) \cap (listed \cup left) = {}
          /\ \A i, j \in DOMAIN items : items[i].key = items[j].key => i = j
      BY <1>0, <3>1 DEF Apart
    <3>3. Range(todo') = Range(todo) \ {k} /\ listed' = listed /\ left' = left
      BY <1>1, <1>2, <2>5
    <3>4. k \notin ShownActive
      BY <1>1, <3>2
    <3>5. ShownActive' \cap Range(todo') = {}
      BY <2>4, <3>2, <3>3
    <3>6. (ShownActive' \cup Range(todo')) \cap (listed' \cup left') = {}
      BY <1>1, <2>4, <3>2, <3>3
    <3> QED BY <2>4, <3>2, <3>4, <3>5, <3>6
  <2>9. Filtered'
    <3>1. ShownActive' \cup listed \cup left \subseteq DOMAIN records
      BY <1>0, <1>1, <2>4 DEF Filtered
    <3>2. Range(todo') \subseteq DOMAIN records
      BY <1>0, <1>1, <2>5 DEF Filtered
    <3> QED BY <1>0, <1>2, <3>1, <3>2 DEF Filtered
  <2> QED BY <2>6, <2>7, <2>8, <2>9 DEF ReaderInv
<1>5. CASE \/ NotFound /\ items' = items
           \/ pc' = "idle" /\ res' = "bodyFailed" /\ UNCHANGED <<items, todo>>
  <2>1. /\ items' = items
        /\ todo' \in Seq(Keys) /\ IsInjective(todo')
        /\ Range(todo') \subseteq Range(todo)
        /\ pc' \in {"idle", "handle"}
        /\ res' \in {res, "skillNotFound", "bodyFailed"}
    <3>1. CASE NotFound /\ items' = items
      BY <1>0, <3>1, NotFoundFacts
    <3>2. CASE pc' = "idle" /\ res' = "bodyFailed" /\ UNCHANGED <<items, todo>>
      BY <1>0, <3>2 DEF ReaderTypes
    <3> QED BY <1>5, <3>1, <3>2
  <2>2. ReaderTypes'
    BY <1>0, <1>2, <2>1 DEF ReaderTypes
  <2>3. Places'
    BY <2>1 DEF Places
  <2>4. Apart' /\ Filtered'
    BY <1>0, <1>2, <2>1, NothingNewShown
  <2> QED BY <2>2, <2>3, <2>4 DEF ReaderInv
<1> QED BY <1>3, <1>4, <1>5

\* The available section is read key by key, after the active one
\* (skillprompt.go:169-206).
LEMMA AvailableSteps ==
  ASSUME Inv, Finish \/ \E k \in Keys : ReadAvailable(k)
  PROVE  ReaderInv'
<1>0. ReaderTypes /\ Places /\ Apart /\ Filtered /\ pc = "handle"
  BY TypeHalves DEF Inv, Finish, ReadAvailable
<1>1. /\ UNCHANGED <<call, records, order, missing, todo, index, items>>
      /\ left' \subseteq left /\ listed' \subseteq listed \cup left
      /\ pc' \in {"idle", "handle"} /\ (res' = res \/ res' = "ok")
  BY DEF Finish, ReadAvailable, Answer, readVars
<1>2. ReaderTypes'
  BY <1>0, <1>1 DEF ReaderTypes
<1>3. Places'
  BY <1>1 DEF Places
<1>4. ShownActive' = ShownActive
  BY <1>1 DEF ShownActive
<1>5. Apart'
  BY <1>0, <1>1, <1>4 DEF Apart
<1>6. Filtered'
  BY <1>0, <1>1, <1>4 DEF Filtered
<1> QED BY <1>2, <1>3, <1>5, <1>6 DEF ReaderInv

----------------------------------------------------------------------------
(* Theorems *)

\* Every step, of the caller (skillprompt.go, runtime.go:274-328) or of
\* others, keeps the invariant.
LEMMA EachStep ==
  ASSUME Inv, [Next]_vars
  PROVE  Inv'
<1>1. ReaderInv' /\ OtherTypes' => Inv'
  BY TypeHalves DEF ReaderInv, Inv
<1>2. ASSUME NEW c \in Calls, Begin(c) PROVE Inv'
  BY <1>1, <1>2, BeginStep
<1>3. CASE Reader
  <2>1. CASE PruneMissing
    BY <1>1, <2>1, PruneStep
  <2>2. CASE \/ List \/ GetSession \/ CopyActive \/ LookUp
             \/ ResolveDef \/ ReadHandle \/ ReadIndex \/ ReadBody
             \/ Finish \/ \E k \in Keys : ReadAvailable(k)
    <3>1. UNCHANGED <<envVars, ghostVars>>
      BY <2>2 DEF List, GetSession, CopyActive, LookUp, ResolveDef, ReadHandle,
                  ReadIndex, ReadBody, Finish, ReadAvailable
    <3>2. OtherTypes'
      BY <3>1, ReaderKeeps DEF Inv
    <3>3. ReaderInv'
      BY <2>2, ListStep, SessionReads, LookUpStep, ResolveStep,
         HandleAndIndexReads, BodyStep, AvailableSteps
    <3> QED BY <1>1, <3>2, <3>3
  <2> QED BY <1>3, <2>1, <2>2 DEF Reader
<1>4. CASE Others
  BY <1>4, OthersStep
<1>5. CASE UNCHANGED vars
  <2>1. UNCHANGED readerVars /\ UNCHANGED <<envVars, ghostVars>>
    BY <1>5 DEF vars, readerVars, readVars, envVars, ghostVars
  <2>2. ReaderTypes'
    BY <2>1, TypeHalves DEF Inv, ReaderTypes, readerVars, readVars
  <2>3. OtherTypes'
    BY <2>1, ReaderKeeps DEF Inv
  <2>4. Places' /\ Apart' /\ Filtered'
    BY <2>1, OthersKeep
  <2> QED BY <1>1, <2>2, <2>3, <2>4 DEF ReaderInv
<1> QED BY <1>2, <1>3, <1>4, <1>5 DEF Next

\* Every behaviour (skillprompt.go:75-289, runtime.go:274-328) keeps the
\* invariant.
LEMMA InvAlways == Spec => []Inv
<1>1. Init => Inv
  <2> SUFFICES ASSUME Init PROVE Inv
    OBVIOUS
  <2>1. ShownActive = {} /\ DOMAIN items = {}
    BY NothingShown DEF Init
  <2>2. <<>> \in Seq([key : Keys, index : Registrations, body : Registrations])
    OBVIOUS
  <2>8. DOMAIN NoRecords = {} /\ NoRecords \in [{} -> Registrations]
    BY DEF NoRecords
  <2>3. ReaderTypes
    BY <2>2, <2>8, EmptyFacts DEF Init, ReaderTypes
  <2>4. OtherTypes
    BY EmptyFacts DEF Init, OtherTypes
  <2>5. Places
    BY DEF Init, Places
  <2>6. Apart
    BY <2>1 DEF Init, Apart
  <2>7. Filtered
    BY <2>1, <2>8 DEF Init, Filtered
  <2> QED BY <2>3, <2>4, <2>5, <2>6, <2>7, TypeHalves DEF Inv
<1>2. Inv /\ [Next]_vars => Inv'
  BY EachStep
<1> QED BY <1>1, <1>2, PTL DEF Spec

\* The variables keep to their types; no list of keys that is put together
\* has a key twice (session.go:76-89).
THEOREM PromptTypes == Spec => []TypeOK
<1>1. Inv => TypeOK
  BY DEF Inv
<1> QED BY <1>1, InvAlways, PTL

\* No prompt shows a skill twice, in one section or in both
\* (skillprompt.go:116, 175).
THEOREM ShownOnce == Spec => []NoneTwice
<1>1. Inv => NoneTwice
  BY DEF Inv, Apart, NoneTwice
<1> QED BY <1>1, InvAlways, PTL

----------------------------------------------------------------------------
(***************************************************************************)
(* That an answer misses nothing that was there all the time: what is true *)
(* of the steady skills at each place of the caller.                       *)
(***************************************************************************)

(* The invariant of the steady skills *)

\* The history is what its names say: the steady are registered, and the
\* session's list has all that always were active and none that never was.
Past ==
  /\ \A k \in steady : Registered(k)
  /\ always \subseteq Range(active)
  /\ never \cap Range(active) = {}

\* Where a call may be (skillprompt.go:75-98, runtime.go:274-296).
Scope ==
  /\ pc # "idle" => res = "none"
  /\ (pc # "idle" \/ res = "ok") /\ call.activity = "active" => call.scoped
  /\ pc \in {"get", "copy", "look"} => call.scoped
  /\ pc \in {"handle", "index", "body"} => call.op # "list"

\* The catalog's answer has the steady skills that match, and no other steady
\* ones (catalog.go:286-334).
Matching ==
  call.op # "render" =>
    /\ \A k \in steady \cap DOMAIN records : Matches(Normalized(call), k)
    /\ pc \in {"get", "copy", "look", "handle", "index", "body"} \/ res = "ok" =>
         \A k \in steady : Matches(Normalized(call), k) => k \in DOMAIN records

\* A steady skill is registered as it was when it was listed, or resolved
\* (catalog.go:286-334, 152).
AsRecorded == \A k \in steady \cap DOMAIN records : records[k] = entry[k]

\* The order that was read has what always was active, and nothing that never
\* was (session.go:66-95).
Ordered ==
  /\ pc = "look" =>
       /\ always \cap steady \subseteq Range(order) \cup Range(todo)
       /\ never \cap (Range(order) \cup Range(todo)) = {}
  /\ call.op # "render" /\ (pc \in {"handle", "index", "body"} \/ res = "ok") =>
       /\ ~ call.scoped => Range(order) = {}
       /\ call.scoped => always \cap steady \subseteq Range(order)
       /\ never \cap Range(order) = {}

\* The active section, shown or still to be read (skillprompt.go:124-164).
ActiveSection ==
  /\ ShownActive \cup Range(todo) \subseteq Range(order)
  /\ IF call.activity = "inactive" THEN ShownActive \cup Range(todo) = {}
     ELSE \A k \in steady \cap DOMAIN records \cap Range(order) :
            k \in ShownActive \cup Range(todo)

\* The available section, shown or still to be read (skillprompt.go:169-190).
AvailableSection ==
  /\ (listed \cup left) \cap Range(order) = {}
  /\ call.activity # "active" =>
       \A k \in (steady \cap DOMAIN records) \ Range(order) : k \in listed \cup left

\* A prompt has both sections, and when it is done nothing is left
\* (skillprompt.go:116-206).
BothSections ==
  call.op = "prompt" /\ (pc \in {"handle", "index", "body"} \/ res = "ok") =>
    /\ ActiveSection /\ AvailableSection
    /\ res = "ok" => Range(todo) = {} /\ left = {}

\* A list is what the filter and the session make it (runtime.go:298-328).
ListAnswer ==
  call.op = "list" /\ res = "ok" =>
    listed = Listed(DOMAIN records, order)

\* What was read of a steady skill is of its one registration
\* (skillprompt.go:136-164, 249-289).
OneRegistration ==
  /\ \A i \in DOMAIN items : items[i].key \in steady =>
       /\ items[i].index = entry[items[i].key]
       /\ items[i].body = entry[items[i].key]
  /\ pc = "body" /\ Head(todo) \in steady => index = entry[Head(todo)]

\* What every step keeps of them.
Steadily ==
  /\ Past /\ Scope /\ Matching /\ AsRecorded /\ Ordered /\ BothSections
  /\ ListAnswer /\ OneRegistration

----------------------------------------------------------------------------
(* What others do *)

\* A registration that stays matches as before (prompt.go:20-109).
LEMMA MatchesStay ==
  ASSUME NEW k, entry'[k] = entry[k], call' = call
  PROVE  /\ Matches(Normalized(call), k)' <=> Matches(Normalized(call), k)
         /\ Registered(k)' <=> Registered(k)
  BY DEF Matches, Normalized, Registered

\* What others do takes from the history what it is not true of any more, and
\* touches nothing else the invariant is about (runtime.go:182-246,
\* session.go:97-327).
LEMMA HistoryShrinks ==
  ASSUME Steadily, UNCHANGED readerVars, Past',
         steady' \subseteq steady, always' \subseteq always, never' \subseteq never,
         \A k \in steady' : entry'[k] = entry[k]
  PROVE  Steadily'
<1>1. /\ call' = call /\ pc' = pc /\ items' = items /\ listed' = listed
      /\ records' = records /\ order' = order /\ todo' = todo /\ left' = left
      /\ index' = index /\ res' = res
  BY DEF readerVars, readVars
<1>2. ShownActive' = ShownActive
  BY <1>1 DEF ShownActive
<1>3. Scope'
  BY <1>1 DEF Steadily, Scope
<1>4. Matching'
  <2>1. \A k \in steady' : Matches(Normalized(call), k)' <=> Matches(Normalized(call), k)
    BY <1>1, MatchesStay
  <2>2. Matching
    BY DEF Steadily
  <2> QED BY <1>1, <2>1, <2>2 DEF Matching
<1>5. Ordered'
  BY <1>1 DEF Steadily, Ordered
<1>6. BothSections'
  <2>1. ActiveSection => ActiveSection'
    BY <1>1, <1>2 DEF ActiveSection
  <2>2. AvailableSection => AvailableSection'
    BY <1>1 DEF AvailableSection
  <2> QED BY <1>1, <2>1, <2>2 DEF Steadily, BothSections
<1>7. ListAnswer'
  <2>1. Listed(DOMAIN records, order)' = Listed(DOMAIN records, order)
    BY <1>1 DEF Listed, Inactive
  <2> QED BY <1>1, <2>1 DEF Steadily, ListAnswer
<1>8. OneRegistration'
  <2>1. OneRegistration
    BY DEF Steadily
  <2>2. ASSUME NEW i \in DOMAIN items, items[i].key \in steady'
        PROVE  /\ items[i].index = entry'[items[i].key]
               /\ items[i].body = entry'[items[i].key]
    BY <2>1, <2>2 DEF OneRegistration
  <2>3. ASSUME pc = "body", Head(todo) \in steady'
        PROVE  index = entry'[Head(todo)]
    BY <2>1, <2>3 DEF OneRegistration
  <2> QED BY <1>1, <2>2, <2>3 DEF OneRegistration
<1>9. AsRecorded'
  <2>1. AsRecorded
    BY DEF Steadily
  <2> QED BY <1>1, <2>1 DEF AsRecorded
<1> QED BY <1>3, <1>4, <1>5, <1>6, <1>7, <1>8, <1>9 DEF Steadily

\* Registrations, removals, loads, unloads and a close (runtime.go:182-246,
\* session.go:97-327).
LEMMA OthersSteadily ==
  ASSUME Inv, Steadily, Others
  PROVE  Steadily'
<1>1. UNCHANGED readerVars
  BY DEF Others, AddSkill, RemoveSkill, LoadSkill, DropSkill, CloseSession
<1>2. OtherTypes /\ Past
  BY TypeHalves DEF Inv, Steadily
<1>3. ASSUME NEW k
      PROVE  /\ Without(active, {k}) \in Seq(Keys)
             /\ Range(Without(active, {k})) = Range(active) \ {k}
  BY <1>2, WithoutFacts DEF OtherTypes
<1>4. ASSUME NEW d \in Defs, NEW ins \in Inserts, NEW k \in Canonical[d],
             AddSkill(d, k, ins)
      PROVE  Steadily'
  <2> DEFINE reg == [def |-> d, insert |-> ins]
  <2>0. k \in Keys /\ reg \in Registrations /\ reg # None
    BY PromptAssumption DEF Registrations
  <2>1. /\ ~ Registered(k) /\ entry' = [entry EXCEPT ![k] = reg]
        /\ UNCHANGED <<active, steady, always, never>>
    BY <1>4 DEF AddSkill, ghostVars
  <2> HIDE DEF reg
  <2>2. k \notin steady
    BY <1>2, <2>1 DEF Past
  <2>3. \A q \in steady : entry'[q] = entry[q]
    BY <1>2, <2>1, <2>2 DEF OtherTypes
  <2>4. Past'
    BY <1>2, <2>0, <2>1, <2>3 DEF Past, Registered
  <2> QED BY <1>1, <2>1, <2>3, <2>4, HistoryShrinks
<1>5. ASSUME NEW k \in Keys, RemoveSkill(k) PROVE Steadily'
  <2>1. /\ entry' = [entry EXCEPT ![k] = None] /\ steady' = steady \ {k}
        /\ UNCHANGED <<active, always, never>>
    BY <1>5 DEF RemoveSkill
  <2>2. \A q \in steady' : entry'[q] = entry[q]
    BY <1>2, <2>1 DEF OtherTypes
  <2>3. Past'
    BY <1>2, <2>1, <2>2 DEF Past, Registered
  <2> QED BY <1>1, <2>1, <2>2, <2>3, HistoryShrinks
<1>6. ASSUME NEW k \in Keys, LoadSkill(k) PROVE Steadily'
  <2> DEFINE t == Without(active, {k})
  <2>1. /\ active' = Append(t, k) /\ never' = never \ {k}
        /\ UNCHANGED <<entry, steady, always>>
    BY <1>6 DEF LoadSkill, Loaded
  <2>2. /\ t \in Seq(Keys) /\ Range(t) = Range(active) \ {k} /\ IsInjective(t)
    BY <1>2, WithoutFacts DEF OtherTypes
  <2> HIDE DEF t
  <2>3. Range(active') = Range(active) \cup {k}
    <3>1. Range(Append(t, k)) = Range(t) \cup {k}
      BY <2>2, AppendFacts
    <3> QED BY <2>1, <2>2, <3>1
  <2>4. Past'
    BY <1>2, <2>1, <2>3 DEF Past, Registered
  <2> QED BY <1>1, <2>1, <2>4, HistoryShrinks
<1>7. ASSUME NEW k \in Keys, DropSkill(k) PROVE Steadily'
  <2>1. /\ active' = Without(active, {k}) /\ always' = always \ {k}
        /\ UNCHANGED <<entry, steady, never>>
    BY <1>7 DEF DropSkill
  <2>2. Past'
    BY <1>2, <1>3, <2>1 DEF Past, Registered
  <2> QED BY <1>1, <2>1, <2>2, HistoryShrinks
<1>8. ASSUME CloseSession PROVE Steadily'
  <2>1. UNCHANGED <<entry, active, steady, always, never>>
    BY <1>8 DEF CloseSession, ghostVars
  <2>2. Past'
    BY <1>2, <2>1 DEF Past, Registered
  <2> QED BY <1>1, <2>1, <2>2, HistoryShrinks
<1> QED BY <1>4, <1>5, <1>6, <1>7, <1>8 DEF Others

----------------------------------------------------------------------------
(* What the caller does *)

\* The history begins with the call (skillprompt.go:75-98).
LEMMA BeginSteadily ==
  ASSUME Inv, NEW c \in Calls, Begin(c)
  PROVE  Steadily'
<1>1. /\ call' = c /\ records' = NoRecords /\ items' = <<>> /\ entry' = entry
      /\ active' = active /\ steady' = {k \in Keys : Registered(k)}
      /\ always' = Range(active) /\ never' = Keys \ Range(active)
  BY DEF Begin, envVars
<1>2. \/ pc' = "idle" /\ res' = "invalidArgument"
      \/ /\ pc' = (IF c.op = "render" THEN "resolve" ELSE "list") /\ res' = "none"
         /\ ~ (c.activity = "active" /\ ~ c.scoped)
  BY DEF Begin, Answer
<1>3. Past'
  BY <1>1 DEF Past, Registered
<1>4. Scope'
  BY <1>1, <1>2 DEF Scope
<1>7. DOMAIN records' = {}
  BY <1>1 DEF NoRecords
<1>5. Matching' /\ AsRecorded' /\ Ordered' /\ BothSections' /\ ListAnswer'
  BY <1>1, <1>2, <1>7
     DEF Matching, AsRecorded, Ordered, BothSections, ListAnswer
<1>6. OneRegistration'
  BY <1>1, <1>2 DEF OneRegistration
<1> QED BY <1>3, <1>4, <1>5, <1>6 DEF Steadily

\* Other steps of the caller change neither catalog nor history
\* (skillprompt.go:100-206), but for the pruning.
LEMMA PastStays ==
  ASSUME Past, UNCHANGED <<envVars, ghostVars>>
  PROVE  Past'
  BY DEF Past, Registered, envVars, ghostVars

\* What was listed, or resolved, is kept to the end of the call
\* (skillprompt.go:100-206, 249).
LEMMA RecordsStay ==
  ASSUME AsRecorded, UNCHANGED <<entry, steady, records>>
  PROVE  AsRecorded'
  BY DEF AsRecorded

\* With records and order known the sections are as they should be
\* (skillprompt.go:116-179, runtime.go:298-328).
LEMMA SectionsSteadily ==
  ASSUME ReaderTypes, Scope, call.op # "render", pc # "idle",
         items = <<>>, listed = {}, left = {}, todo = <<>>,
         NEW recs \in SUBSET Keys, NEW ord \in Seq(Keys), IsInjective(ord),
         Sections(recs, ord), DOMAIN records' = recs, order' = ord,
         UNCHANGED <<call, items, index, entry, steady, never>>,
         always' \subseteq always,
         \A k \in steady \cap recs : Matches(Normalized(call), k),
         \A k \in steady : Matches(Normalized(call), k) => k \in recs,
         ~ call.scoped => Range(ord) = {},
         call.scoped => always \cap steady \subseteq Range(ord),
         never \cap Range(ord) = {}
  PROVE  /\ Scope' /\ Matching' /\ Ordered' /\ BothSections' /\ ListAnswer'
         /\ OneRegistration'
<1>1. \/ call.op = "list" /\ pc' = "idle" /\ res' = "ok"
      \/ call.op = "prompt" /\ pc' = "handle" /\ res' = res
  BY DEF Sections, Answer
<1>2. Scope'
  BY <1>1 DEF Scope
<1>3. Matching'
  <2>1. \A k : Matches(Normalized(call), k)' <=> Matches(Normalized(call), k)
    BY MatchesStay
  <2> QED BY <2>1 DEF Matching
<1>4. Ordered'
  BY <1>1 DEF Ordered
<1>5. BothSections'
  <2>1. CASE call.op = "prompt"
    <3>1. /\ todo' = IF call.activity = "inactive" THEN <<>> ELSE Wanted(recs, ord)
          /\ left' = IF call.activity = "active" THEN {} ELSE Inactive(recs, ord)
          /\ listed' = {} /\ res' = "none"
      BY <2>1 DEF Sections, Scope
    <3>2. Range(Wanted(recs, ord)) = Range(ord) \cap recs
      BY WantedFacts
    <3>3. ShownActive' = {}
      BY NothingShown
    <3>4. ActiveSection'
      BY <3>1, <3>2, <3>3, EmptyFacts DEF ActiveSection
    <3>5. AvailableSection'
      BY <3>1 DEF AvailableSection, Inactive
    <3> QED BY <3>1, <3>4, <3>5 DEF BothSections
  <2>2. CASE call.op # "prompt"
    BY <2>2 DEF BothSections
  <2> QED BY <2>1, <2>2
<1>6. ListAnswer'
  <2>1. CASE call.op = "list"
    <3>1. listed' = Listed(recs, ord)
      BY <2>1 DEF Sections
    <3>2. Listed(DOMAIN records, order)' = Listed(recs, ord)
      BY DEF Listed, Inactive
    <3> QED BY <3>1, <3>2 DEF ListAnswer
  <2>2. CASE call.op # "list"
    BY <2>2 DEF ListAnswer
  <2> QED BY <2>1, <2>2
<1>7. OneRegistration'
  BY <1>1 DEF OneRegistration
<1> QED BY <1>2, <1>3, <1>4, <1>5, <1>6, <1>7

\* The catalog is asked: all the steady that match are in its answer, and no
\* other steady ones (catalog.go:286-334).
LEMMA ListSteadily ==
  ASSUME Inv, Steadily, List
  PROVE  Steadily'
<1>0. /\ ReaderTypes /\ OtherTypes /\ pc = "list"
      /\ Past /\ Scope
  BY TypeHalves DEF Inv, Steadily, List
<1>1. /\ items = <<>> /\ listed = {} /\ left = {} /\ call.op # "render"
      /\ todo = <<>> /\ order = <<>>
  BY <1>0 DEF Inv, Places
<1> DEFINE recs == {k \in Keys : Matches(Normalized(call), k)}
<1>2. /\ records' = [k \in recs |-> entry[k]]
      /\ UNCHANGED <<call, order, index, items>> /\ UNCHANGED <<envVars, ghostVars>>
  BY DEF List
<1>3. UNCHANGED <<entry, steady, always, never>>
  BY <1>2 DEF envVars, ghostVars
<1>4. Past'
  BY <1>0, <1>2, PastStays
<1>8. /\ recs \in SUBSET Keys /\ DOMAIN records' = recs
      /\ \A k \in recs : records'[k] = entry[k]
  BY <1>2
<1>5. /\ \A k \in steady \cap recs : Matches(Normalized(call), k)
      /\ \A k \in steady : Matches(Normalized(call), k) => k \in recs
  BY <1>0 DEF OtherTypes
<1>10. \/ call.scoped /\ pc' = "get" /\ UNCHANGED <<todo, left, listed, res>>
       \/ ~ call.scoped /\ Sections(DOMAIN records', <<>>)
  BY DEF List
<1> HIDE DEF recs
<1>9. AsRecorded'
  BY <1>3, <1>8 DEF AsRecorded
<1>6. CASE call.scoped /\ pc' = "get" /\ UNCHANGED <<todo, left, listed, res>>
  <2>1. Scope'
    BY <1>0, <1>2, <1>6 DEF Scope
  <2>2. Matching'
    <3>1. \A k : Matches(Normalized(call), k)' <=> Matches(Normalized(call), k)
      BY <1>2, <1>3, MatchesStay
    <3> QED BY <1>2, <1>3, <1>5, <1>8, <3>1 DEF Matching
  <2>3. res' # "ok"
    BY <1>0, <1>6 DEF Scope
  <2>4. Ordered' /\ BothSections' /\ ListAnswer'
    BY <1>6, <2>3 DEF Ordered, BothSections, ListAnswer
  <2>5. OneRegistration'
    BY <1>1, <1>2, <1>6 DEF OneRegistration
  <2> QED BY <1>4, <1>9, <2>1, <2>2, <2>4, <2>5 DEF Steadily
<1>7. CASE ~ call.scoped /\ Sections(DOMAIN records', <<>>)
  <2> DEFINE none == <<>>
  <2>1. Sections(recs, none)
    BY <1>7, <1>8
  <2>2. none \in Seq(Keys) /\ IsInjective(none) /\ Range(none) = {} /\ order' = none
    BY <1>1, <1>2, EmptyFacts
  <2> HIDE DEF none
  <2>3. Scope' /\ Matching' /\ Ordered' /\ BothSections' /\ ListAnswer' /\ OneRegistration'
    BY <1>0, <1>1, <1>2, <1>3, <1>5, <1>7, <1>8, <2>1, <2>2, SectionsSteadily
  <2> QED BY <1>4, <1>9, <2>3 DEF Steadily
<1> QED BY <1>6, <1>7, <1>10

\* The copy of the session's list has what always was active, and nothing
\* that never was (session.go:66-78).
LEMMA SessionSteadily ==
  ASSUME Inv, Steadily, GetSession \/ CopyActive
  PROVE  Steadily'
<1>0. /\ ReaderTypes /\ OtherTypes /\ pc \in {"get", "copy"}
      /\ Past /\ Scope /\ Matching
  BY TypeHalves DEF Inv, Steadily, GetSession, CopyActive
<1>1. /\ items = <<>> /\ call.op # "render" /\ order = <<>> /\ Range(order) = {}
  BY <1>0, EmptyFacts DEF Inv, Places
<1>2. /\ UNCHANGED <<call, records, order, items, index, listed>>
      /\ UNCHANGED <<envVars, ghostVars>>
      /\ \/ pc' \in {"copy", "look"} /\ res' = res
         \/ pc' = "idle" /\ res' = "sessionNotFound"
      /\ pc' = "look" => todo' = active
  BY DEF GetSession, CopyActive, Answer, readVars
<1>3. UNCHANGED <<entry, steady, always, never>>
  BY <1>2 DEF envVars, ghostVars
<1>4. Past'
  BY <1>0, <1>2, PastStays
<1>5. res' # "ok"
  BY <1>0, <1>2 DEF Scope
<1>6. Scope'
  BY <1>0, <1>2, <1>5 DEF Scope
<1>7. Matching'
  <2>1. \A k : Matches(Normalized(call), k)' <=> Matches(Normalized(call), k)
    BY <1>2, <1>3, MatchesStay
  <2> QED BY <1>0, <1>2, <1>3, <1>5, <2>1 DEF Matching
<1>8. Ordered'
  <2>1. ASSUME pc' = "look"
        PROVE  /\ always \cap steady \subseteq Range(order) \cup Range(todo')
               /\ never \cap (Range(order) \cup Range(todo')) = {}
    BY <1>0, <1>1, <1>2, <2>1 DEF Past
  <2> QED BY <1>2, <1>3, <1>5, <2>1 DEF Ordered
<1>9. BothSections' /\ ListAnswer' /\ OneRegistration'
  BY <1>1, <1>2, <1>5 DEF BothSections, ListAnswer, OneRegistration
<1>10. AsRecorded'
  BY <1>2, <1>3, RecordsStay DEF Steadily
<1> QED BY <1>4, <1>6, <1>7, <1>8, <1>9, <1>10 DEF Steadily

\* A steady skill that is looked up is found (session.go:80-89).
LEMMA LookUpSteadily ==
  ASSUME Inv, Steadily, LookUp
  PROVE  Steadily'
<1>0. /\ ReaderTypes /\ pc = "look" /\ todo # <<>>
      /\ Past /\ Scope /\ Matching /\ Ordered
  BY TypeHalves DEF Inv, Steadily, LookUp
<1>1. items = <<>> /\ Range(order) \cap Range(todo) = {}
  BY <1>0 DEF Inv, Places
<1> DEFINE k == Head(todo)
<1>2. /\ UNCHANGED <<call, pc, records, items, index, listed, res>>
      /\ UNCHANGED <<envVars, ghostVars>>
      /\ todo' = Tail(todo)
      /\ \/ Registered(k) /\ order' = Append(order, k)
         \/ ~ Registered(k) /\ order' = order
  BY DEF LookUp
<1>3. /\ k \in Keys /\ k \in Range(todo)
      /\ Range(todo') = Range(todo) \ {k}
  BY <1>0, <1>2, TailFacts DEF ReaderTypes
<1>4. order \in Seq(Keys) /\ IsInjective(order) /\ k \notin Range(order)
  BY <1>0, <1>1, <1>3 DEF ReaderTypes
<1> HIDE DEF k
<1>5. /\ Registered(k) => Range(order') = Range(order) \cup {k}
      /\ ~ Registered(k) => Range(order') = Range(order)
  <2>1. Range(Append(order, k)) = Range(order) \cup {k}
    BY <1>3, <1>4, AppendFacts
  <2> QED BY <1>2, <2>1
<1>6. UNCHANGED <<entry, steady, always, never>>
  BY <1>2 DEF envVars, ghostVars
<1>7. Past'
  BY <1>0, <1>2, PastStays
<1>8. res = "none"
  BY <1>0 DEF Scope
<1>9. Scope'
  BY <1>0, <1>2 DEF Scope
<1>10. Matching'
  <2>1. \A q : Matches(Normalized(call), q)' <=> Matches(Normalized(call), q)
    BY <1>2, <1>6, MatchesStay
  <2> QED BY <1>0, <1>2, <1>6, <2>1 DEF Matching
<1>11. Ordered'
  <2>1. k \in steady => Registered(k)
    BY <1>0 DEF Past
  <2>2. /\ always \cap steady \subseteq Range(order) \cup Range(todo)
        /\ never \cap (Range(order) \cup Range(todo)) = {}
    BY <1>0 DEF Ordered
  <2>3. /\ always \cap steady \subseteq Range(order') \cup Range(todo')
        /\ never \cap (Range(order') \cup Range(todo')) = {}
    BY <1>3, <1>5, <2>1, <2>2
  <2> QED BY <1>0, <1>2, <1>6, <1>8, <2>3 DEF Ordered
<1>12. BothSections' /\ ListAnswer' /\ OneRegistration'
  BY <1>0, <1>1, <1>2, <1>8 DEF BothSections, ListAnswer, OneRegistration
<1>13. AsRecorded'
  BY <1>2, <1>6, RecordsStay DEF Steadily
<1> QED BY <1>7, <1>9, <1>10, <1>11, <1>12, <1>13 DEF Steadily

\* The pruning takes keys out of the session's list (session.go:91-95).
LEMMA PruneSteadily ==
  ASSUME Inv, Steadily, PruneMissing
  PROVE  Steadily'
<1>0. /\ ReaderTypes /\ OtherTypes /\ pc = "look" /\ todo = <<>>
      /\ Past /\ Scope /\ Matching /\ Ordered
  BY TypeHalves DEF Inv, Steadily, PruneMissing
<1>1. items = <<>> /\ listed = {} /\ left = {} /\ call.op # "render"
  BY <1>0 DEF Inv, Places
<1>2. /\ active' = Without(active, missing) \/ active' = active
      /\ always' = always \cap Range(active')
      /\ UNCHANGED <<call, items, index, entry, steady, never, records, order>>
      /\ Sections(DOMAIN records, order)
  BY DEF PruneMissing
<1>3. Range(active') \subseteq Range(active)
  <2>1. Range(Without(active, missing)) = Range(active) \ missing
    BY <1>0, WithoutFacts DEF OtherTypes
  <2> QED BY <1>2, <2>1
<1>4. Past'
  BY <1>0, <1>2, <1>3 DEF Past, Registered
<1>5. call.scoped
  BY <1>0 DEF Scope
<1>6. /\ always \cap steady \subseteq Range(order)
      /\ never \cap Range(order) = {}
  BY <1>0, EmptyFacts DEF Ordered
<1>7. /\ \A k \in steady \cap DOMAIN records : Matches(Normalized(call), k)
      /\ \A k \in steady : Matches(Normalized(call), k) => k \in DOMAIN records
  BY <1>0, <1>1 DEF Matching
<1>8. DOMAIN records \in SUBSET Keys /\ order \in Seq(Keys) /\ IsInjective(order)
  BY <1>0 DEF ReaderTypes
<1>9. Scope' /\ Matching' /\ Ordered' /\ BothSections' /\ ListAnswer' /\ OneRegistration'
  BY <1>0, <1>1, <1>2, <1>5, <1>6, <1>7, <1>8, SectionsSteadily
<1>10. AsRecorded'
  BY <1>2, RecordsStay DEF Steadily
<1> QED BY <1>4, <1>9, <1>10 DEF Steadily

\* The key that a definition is resolved to is kept with its registration
\* (skillprompt.go:249).
LEMMA ResolveSteadily ==
  ASSUME Inv, Steadily, ResolveDef
  PROVE  Steadily'
<1>0. ReaderTypes /\ pc = "resolve" /\ Past /\ Scope /\ AsRecorded
  BY TypeHalves DEF Inv, Steadily, ResolveDef
<1>1. items = <<>> /\ call.op = "render" /\ call.activity = "any"
  BY <1>0 DEF Inv, Places, ReaderTypes, Calls
<1>2. /\ UNCHANGED <<call, index, items>> /\ UNCHANGED <<envVars, ghostVars>>
      /\ \/ pc' = "index" /\ res' = res /\ \E k \in Keys : records' = RecordOf(k)
         \/ pc' = "idle" /\ res' = "skillNotFound" /\ records' = records
  BY DEF ResolveDef, Answer
<1>3. UNCHANGED <<entry, steady>>
  BY <1>2 DEF envVars, ghostVars
<1>4. Past'
  BY <1>0, <1>2, PastStays
<1>5. Scope'
  BY <1>0, <1>1, <1>2 DEF Scope
<1>6. Matching' /\ BothSections' /\ ListAnswer' /\ OneRegistration'
  BY <1>1, <1>2 DEF Matching, BothSections, ListAnswer, OneRegistration
<1>7. Ordered'
  BY <1>1, <1>2 DEF Ordered
<1>8. AsRecorded'
  BY <1>0, <1>2, <1>3 DEF AsRecorded, RecordOf
<1> QED BY <1>4, <1>5, <1>6, <1>7, <1>8 DEF Steadily

\* Nothing new is shown, and of what is still to be read no steady skill is
\* dropped, or the call fails (skillprompt.go:136-164).
LEMMA ReadSteadily ==
  ASSUME Inv, Steadily, pc \in {"handle", "index", "body"},
         UNCHANGED <<call, records, order, left, items, listed>>,
         UNCHANGED <<envVars, ghostVars>>,
         \/ /\ pc' \in {"handle", "index", "body"} /\ res' = res
            /\ Range(todo') \subseteq Range(todo)
            /\ steady \cap Range(todo) \subseteq Range(todo')
         \/ pc' = "idle" /\ res' # "ok",
         pc' = "body" /\ Head(todo') \in steady => index' = entry[Head(todo')]
  PROVE  Steadily'
<1>0. Past /\ Scope /\ Matching /\ Ordered /\ BothSections /\ OneRegistration
  BY DEF Steadily
<1>1. UNCHANGED <<entry, steady, always, never>>
  BY DEF envVars, ghostVars
<1>2. Past'
  BY <1>0, PastStays
<1>3. res = "none" /\ call.op # "list"
  BY <1>0 DEF Scope
<1>4. Scope'
  BY <1>0, <1>3 DEF Scope
<1>5. Matching'
  <2>1. \A k : Matches(Normalized(call), k)' <=> Matches(Normalized(call), k)
    BY <1>1, MatchesStay
  <2> QED BY <1>0, <1>1, <1>3, <2>1 DEF Matching
<1>6. Ordered'
  BY <1>0, <1>1, <1>3 DEF Ordered
<1>7. ShownActive' = ShownActive
  BY DEF ShownActive
<1>8. BothSections'
  <2>1. CASE pc' = "idle" /\ res' # "ok"
    BY <2>1 DEF BothSections
  <2>2. CASE /\ call.op = "prompt"
             /\ pc' \in {"handle", "index", "body"} /\ res' = res
             /\ Range(todo') \subseteq Range(todo)
             /\ steady \cap Range(todo) \subseteq Range(todo')
    <3>1. ActiveSection /\ AvailableSection
      BY <1>0, <2>2 DEF BothSections
    <3>2. ActiveSection'
      BY <1>1, <1>7, <2>2, <3>1 DEF ActiveSection
    <3>3. AvailableSection'
      BY <1>1, <3>1 DEF AvailableSection
    <3> QED BY <1>3, <2>2, <3>2, <3>3 DEF BothSections
  <2>3. CASE call.op # "prompt"
    BY <2>3 DEF BothSections
  <2> QED BY <2>1, <2>2, <2>3
<1>9. ListAnswer'
  BY <1>3 DEF ListAnswer
<1>10. OneRegistration'
  BY <1>0, <1>1 DEF OneRegistration
<1>11. AsRecorded'
  BY <1>1, RecordsStay DEF Steadily
<1> QED BY <1>2, <1>4, <1>5, <1>6, <1>8, <1>9, <1>10, <1>11 DEF Steadily

\* A skill that is not found is not steady (skillprompt.go:140-153, 249-257).
LEMMA NotFoundSteadily ==
  ASSUME ReaderTypes, Past, todo # <<>>, ~ Registered(Head(todo)), NotFound
  PROVE  \/ /\ pc' = "handle" /\ res' = res
            /\ Range(todo') \subseteq Range(todo)
            /\ steady \cap Range(todo) \subseteq Range(todo')
         \/ pc' = "idle" /\ res' # "ok"
<1>1. Head(todo) \notin steady
  BY DEF Past
<1>2. Range(Tail(todo)) = Range(todo) \ {Head(todo)}
  BY TailFacts DEF ReaderTypes
<1>3. \/ pc' = "idle" /\ res' = "skillNotFound"
      \/ todo' = Tail(todo) /\ pc' = "handle" /\ res' = res
  BY DEF NotFound, Answer, PassOver
<1> QED BY <1>1, <1>2, <1>3

\* Handle and index of the next skill are read (skillprompt.go:136-147).
LEMMA HandleAndIndexSteadily ==
  ASSUME Inv, Steadily, ReadHandle \/ ReadIndex
  PROVE  Steadily'
<1>0. ReaderTypes /\ Past
  BY TypeHalves DEF Inv, Steadily
<1>1. /\ pc \in {"handle", "index"} /\ todo # <<>>
      /\ UNCHANGED <<call, records, order, left, items, listed>>
      /\ UNCHANGED <<envVars, ghostVars>>
  BY DEF ReadHandle, ReadIndex, Inv, Places
<1>2. CASE NotFound /\ ~ Registered(Head(todo))
  <2>1. \/ /\ pc' = "handle" /\ res' = res
           /\ Range(todo') \subseteq Range(todo)
           /\ steady \cap Range(todo) \subseteq Range(todo')
        \/ pc' = "idle" /\ res' # "ok"
    BY <1>0, <1>1, <1>2, NotFoundSteadily
  <2> QED BY <1>1, <2>1, ReadSteadily
<1>3. CASE /\ UNCHANGED <<todo, res>>
           /\ \/ pc' = "index"
              \/ pc' = "body" /\ index' = entry[Head(todo)]
  BY <1>1, <1>3, ReadSteadily
<1> QED BY <1>2, <1>3 DEF ReadHandle, ReadIndex

\* A body is read of the registration whose index was read, if the skill is
\* steady (skillprompt.go:148-164, 249-289).
LEMMA BodySteadily ==
  ASSUME Inv, Steadily, ReadBody
  PROVE  Steadily'
<1>0. /\ ReaderTypes /\ OtherTypes /\ pc = "body" /\ todo # <<>> /\ index \in Registrations
      /\ Past /\ Scope /\ Matching /\ Ordered /\ BothSections /\ OneRegistration
      /\ res = "none" /\ call.op # "list"
  BY TypeHalves DEF Inv, Steadily, ReadBody, Places, Scope
<1> DEFINE k == Head(todo)
           x == [key |-> k, index |-> index, body |-> entry[k]]
<1>1. /\ k \in Keys /\ k \in Range(todo)
      /\ Range(Tail(todo)) = Range(todo) \ {k}
  BY <1>0, TailFacts DEF ReaderTypes
<1>2. /\ UNCHANGED <<call, records, order, left, listed>>
      /\ UNCHANGED <<envVars, ghostVars>> /\ index' = None
  BY DEF ReadBody
<1>3. CASE /\ Registered(k) /\ items' = Append(items, x) /\ todo' = Tail(todo)
           /\ \/ call.op = "render" /\ pc' = "idle" /\ res' = "ok"
              \/ call.op # "render" /\ pc' = "handle" /\ res' = res
  <2>1. entry[k] \in Registrations
    BY <1>0, <1>1, <1>3 DEF OtherTypes, Registered
  <2>2. /\ x \in [key : Keys, index : Registrations, body : Registrations]
        /\ x.key = k /\ x.index = index /\ x.body = entry[k]
    BY <1>0, <1>1, <2>1
  <2>3. /\ items' = Append(items, x)
        /\ Range(todo') = Range(todo) \ {k}
        /\ \/ call.op = "render" /\ pc' = "idle" /\ res' = "ok"
           \/ call.op # "render" /\ pc' = "handle" /\ res' = res
    BY <1>1, <1>3
  <2>4. k \in steady => index = entry[k]
    BY <1>0 DEF OneRegistration
  <2> HIDE DEF x, k
  <2>5. ShownActive' = ShownActive \cup {k}
    BY <1>0, <2>2, <2>3, ShownFacts
  <2>6. \A i \in DOMAIN items' :
          \/ i \in DOMAIN items /\ items'[i] = items[i]
          \/ items'[i] = x
    BY <1>0, <2>2, <2>3 DEF ReaderTypes
  <2>7. UNCHANGED <<entry, steady, always, never>>
    BY <1>2 DEF envVars, ghostVars
  <2>8. Past'
    BY <1>0, <1>2, PastStays
  <2>9. Scope'
    <3>1. call.op = "render" => call.activity = "any"
      BY <1>0 DEF ReaderTypes, Calls
    <3> QED BY <1>0, <1>2, <2>3, <3>1 DEF Scope
  <2>10. Matching'
    <3>1. \A q : Matches(Normalized(call), q)' <=> Matches(Normalized(call), q)
      BY <1>2, <2>7, MatchesStay
    <3> QED BY <1>0, <1>2, <2>3, <2>7, <3>1 DEF Matching
  <2>11. Ordered'
    BY <1>0, <1>2, <2>3, <2>7 DEF Ordered
  <2>12. BothSections'
    <3>1. CASE call.op = "prompt"
      <4>1. ActiveSection /\ AvailableSection
        BY <1>0, <3>1 DEF BothSections
      <4>2. ActiveSection'
        BY <1>1, <1>2, <2>3, <2>5, <2>7, <4>1 DEF ActiveSection
      <4>3. AvailableSection'
        BY <1>2, <2>7, <4>1 DEF AvailableSection
      <4> QED BY <1>0, <2>3, <3>1, <4>2, <4>3 DEF BothSections
    <3>2. CASE call.op # "prompt"
      BY <1>2, <3>2 DEF BothSections
    <3> QED BY <3>1, <3>2
  <2>13. ListAnswer'
    BY <1>0, <1>2 DEF ListAnswer
  <2>14. OneRegistration'
    <3>1. ASSUME NEW i \in DOMAIN items', items'[i].key \in steady
          PROVE  /\ items'[i].index = entry[items'[i].key]
                 /\ items'[i].body = entry[items'[i].key]
      <4>1. CASE i \in DOMAIN items /\ items'[i] = items[i]
        BY <1>0, <3>1, <4>1 DEF OneRegistration
      <4>2. CASE items'[i] = x
        BY <2>2, <2>4, <3>1, <4>2
      <4> QED BY <2>6, <4>1, <4>2
    <3>2. pc' # "body"
      BY <2>3
    <3> QED BY <2>7, <3>1, <3>2 DEF OneRegistration
  <2>15. AsRecorded'
    BY <1>2, <2>7, RecordsStay DEF Steadily
  <2> QED BY <2>8, <2>9, <2>10, <2>11, <2>12, <2>13, <2>14, <2>15 DEF Steadily
<1>4. CASE ~ Registered(k) /\ NotFound /\ items' = items
  <2>1. \/ /\ pc' = "handle" /\ res' = res
           /\ Range(todo') \subseteq Range(todo)
           /\ steady \cap Range(todo) \subseteq Range(todo')
        \/ pc' = "idle" /\ res' # "ok"
    BY <1>0, <1>4, NotFoundSteadily
  <2> QED BY <1>0, <1>2, <1>4, <2>1, ReadSteadily
<1>5. CASE pc' = "idle" /\ res' = "bodyFailed" /\ items' = items
  BY <1>0, <1>2, <1>5, ReadSteadily
<1> QED BY <1>3, <1>4, <1>5 DEF ReadBody, Answer

\* An available skill that is steady is found and shown
\* (skillprompt.go:169-190).
LEMMA AvailableSteadily ==
  ASSUME Inv, Steadily, NEW k \in Keys, ReadAvailable(k)
  PROVE  Steadily'
<1>0. /\ pc = "handle" /\ res = "none" /\ call.op # "list"
      /\ Past /\ Scope /\ Matching /\ Ordered /\ BothSections /\ OneRegistration
  BY DEF Steadily, ReadAvailable, Scope
<1>1. /\ UNCHANGED <<call, pc, records, order, todo, index, items, res>>
      /\ UNCHANGED <<envVars, ghostVars>>
      /\ k \in left /\ left' = left \ {k}
      /\ listed' = IF Registered(k) THEN listed \cup {k} ELSE listed
  BY DEF ReadAvailable
<1>2. UNCHANGED <<entry, steady, always, never>>
  BY <1>1 DEF envVars, ghostVars
<1>3. Past'
  BY <1>0, <1>1, PastStays
<1>4. Scope'
  BY <1>0, <1>1 DEF Scope
<1>5. Matching'
  <2>1. \A q : Matches(Normalized(call), q)' <=> Matches(Normalized(call), q)
    BY <1>1, <1>2, MatchesStay
  <2> QED BY <1>0, <1>1, <1>2, <2>1 DEF Matching
<1>6. Ordered'
  BY <1>0, <1>1, <1>2 DEF Ordered
<1>7. ShownActive' = ShownActive
  BY <1>1 DEF ShownActive
<1>8. BothSections'
  <2>1. CASE call.op = "prompt"
    <3>1. ActiveSection /\ AvailableSection
      BY <1>0, <2>1 DEF BothSections
    <3>2. ActiveSection'
      BY <1>1, <1>2, <1>7, <3>1 DEF ActiveSection
    <3>3. k \in steady => Registered(k)
      BY <1>0 DEF Past
    <3>4. AvailableSection'
      BY <1>1, <1>2, <3>1, <3>3 DEF AvailableSection
    <3> QED BY <1>0, <1>1, <3>2, <3>4 DEF BothSections
  <2>2. CASE call.op # "prompt"
    BY <1>1, <2>2 DEF BothSections
  <2> QED BY <2>1, <2>2
<1>9. ListAnswer' /\ OneRegistration'
  BY <1>0, <1>1, <1>2 DEF ListAnswer, OneRegistration
<1>10. AsRecorded'
  BY <1>1, <1>2, RecordsStay DEF Steadily
<1> QED BY <1>3, <1>4, <1>5, <1>6, <1>8, <1>9, <1>10 DEF Steadily

\* The answer is complete when nothing is left to read (skillprompt.go:192-206).
LEMMA FinishSteadily ==
  ASSUME Inv, Steadily, Finish
  PROVE  Steadily'
<1>0. /\ pc = "handle" /\ todo = <<>> /\ left = {} /\ call.op # "list"
      /\ Past /\ Scope /\ Matching /\ Ordered /\ BothSections /\ OneRegistration
  BY DEF Steadily, Finish, Scope
<1>1. /\ UNCHANGED <<call, records, order, todo, left, index, items, listed>>
      /\ UNCHANGED <<envVars, ghostVars>>
      /\ pc' = "idle" /\ res' = "ok"
  BY DEF Finish, Answer, readVars
<1>2. UNCHANGED <<entry, steady, always, never>>
  BY <1>1 DEF envVars, ghostVars
<1>3. Past'
  BY <1>0, <1>1, PastStays
<1>4. Scope'
  BY <1>0, <1>1 DEF Scope
<1>5. Matching'
  <2>1. \A q : Matches(Normalized(call), q)' <=> Matches(Normalized(call), q)
    BY <1>1, <1>2, MatchesStay
  <2> QED BY <1>0, <1>1, <1>2, <2>1 DEF Matching
<1>6. Ordered'
  BY <1>0, <1>1, <1>2 DEF Ordered
<1>7. ShownActive' = ShownActive /\ Range(todo) = {}
  BY <1>0, <1>1, EmptyFacts DEF ShownActive
<1>8. BothSections'
  <2>1. CASE call.op = "prompt"
    <3>1. ActiveSection /\ AvailableSection
      BY <1>0, <2>1 DEF BothSections
    <3>2. ActiveSection' /\ AvailableSection'
      BY <1>1, <1>2, <1>7, <3>1 DEF ActiveSection, AvailableSection
    <3> QED BY <1>0, <1>1, <1>7, <3>2 DEF BothSections
  <2>2. CASE call.op # "prompt"
    BY <1>1, <2>2 DEF BothSections
  <2> QED BY <2>1, <2>2
<1>9. ListAnswer' /\ OneRegistration'
  BY <1>0, <1>1, <1>2 DEF ListAnswer, OneRegistration
<1>10. AsRecorded'
  BY <1>1, <1>2, RecordsStay DEF Steadily
<1> QED BY <1>3, <1>4, <1>5, <1>6, <1>8, <1>9, <1>10 DEF Steadily

----------------------------------------------------------------------------
(* Theorem *)

\* Every step, of the caller (skillprompt.go, runtime.go:274-328) or of
\* others, keeps the invariant.
LEMMA EachStepSteadily ==
  ASSUME Inv, Steadily, [Next]_vars
  PROVE  Steadily'
<1>1. ASSUME NEW c \in Calls, Begin(c) PROVE Steadily'
  BY <1>1, BeginSteadily
<1>2. CASE Reader
  BY <1>2, ListSteadily, SessionSteadily, LookUpSteadily, PruneSteadily,
     ResolveSteadily, HandleAndIndexSteadily, BodySteadily, AvailableSteadily, FinishSteadily
     DEF Reader
<1>3. CASE Others
  BY <1>3, OthersSteadily
<1>4. CASE UNCHANGED vars
  <2>1. /\ UNCHANGED readerVars /\ UNCHANGED <<envVars, ghostVars>>
        /\ UNCHANGED <<entry, steady, always, never>>
    BY <1>4 DEF vars, readerVars, readVars, envVars, ghostVars
  <2>2. Past'
    BY <2>1, PastStays DEF Steadily
  <2> QED BY <2>1, <2>2, HistoryShrinks
<1> QED BY <1>1, <1>2, <1>3, <1>4 DEF Next

\* At the beginning nothing is steady (skillprompt.go:75-98).
LEMMA SteadilyFirst ==
  ASSUME Init
  PROVE  Steadily
<1>1. Past /\ Scope /\ Matching /\ AsRecorded /\ Ordered /\ BothSections /\ ListAnswer
  BY DEF Init, Past, Scope, Matching, AsRecorded, Ordered, BothSections, ListAnswer
<1>2. OneRegistration
  BY DEF Init, OneRegistration
<1> QED BY <1>1, <1>2 DEF Steadily

\* What a prompt or a list misses nothing of (skillprompt.go:116-206,
\* runtime.go:298-328).
Complete ==
  (res = "ok" /\ call.op # "render") =>
    LET active_ == IF call.op = "list" /\ call.activity # "inactive"
                   THEN listed ELSE ShownActive
        available == IF call.op = "list" /\ call.activity = "active"
                     THEN {} ELSE listed
    IN  \A k \in steady : Matches(Normalized(call), k) =>
          /\ call.activity = "any" => k \in active_ \cup available
          /\ (call.scoped /\ k \in always) =>
               IF call.activity = "inactive" THEN k \notin listed
               ELSE k \in active_
          /\ (~ call.scoped \/ k \in never) =>
               IF call.activity = "active" THEN k \notin active_
               ELSE k \in available

\* The answer of ListSkills (runtime.go:298-328).
LEMMA ListComplete ==
  ASSUME ReaderTypes, Steadily, call.op = "list", res = "ok"
  PROVE  Complete
<1>1. /\ listed = LET scope == IF call.scoped THEN call.activity ELSE "any"
                  IN  CASE scope = "any" -> DOMAIN records
                        [] scope = "active" -> DOMAIN records \cap Range(order)
                        [] OTHER -> DOMAIN records \ Range(order)
      /\ ~ call.scoped => Range(order) = {}
      /\ call.scoped => always \cap steady \subseteq Range(order)
      /\ never \cap Range(order) = {}
      /\ \A k \in steady : Matches(Normalized(call), k) => k \in DOMAIN records
      /\ call.activity = "active" => call.scoped
  BY DEF Steadily, ListAnswer, Listed, Inactive, Ordered, Matching, Scope
<1>2. call.activity \in Activities /\ call.scoped \in BOOLEAN
  BY DEF ReaderTypes, Calls
<1> QED BY <1>1, <1>2 DEF Complete, Activities

\* The answer of SkillsPrompt (skillprompt.go:116-206).
LEMMA PromptComplete ==
  ASSUME ReaderTypes, Steadily, call.op = "prompt", res = "ok"
  PROVE  Complete
<1>1. /\ ActiveSection /\ AvailableSection /\ Range(todo) = {} /\ left = {}
      /\ ~ call.scoped => Range(order) = {}
      /\ call.scoped => always \cap steady \subseteq Range(order)
      /\ never \cap Range(order) = {}
      /\ \A k \in steady : Matches(Normalized(call), k) => k \in DOMAIN records
      /\ call.activity = "active" => call.scoped
  BY DEF Steadily, BothSections, Ordered, Matching, Scope
<1>2. call.activity \in Activities /\ call.scoped \in BOOLEAN
  BY DEF ReaderTypes, Calls
<1> QED BY <1>1, <1>2 DEF Complete, Activities, ActiveSection, AvailableSection

\* A skill that is registered throughout a call, and admitted by its filter,
\* is shown where its activity was throughout, and as one registration, with
\* the body of an instructions skill in a prompt, whatever happens to other
\* skills meanwhile (skillprompt.go:136-190, 254-262, runtime.go:303-327).
THEOREM NothingSteadyMissed == Spec => []SteadyShownRight
<1>1. Init => Steadily
  BY SteadilyFirst
<1>2. Inv /\ Steadily /\ [Next]_vars => Steadily'
  BY EachStepSteadily
<1>3. Inv /\ Steadily => SteadyShownRight
  <2> SUFFICES ASSUME Inv, Steadily PROVE SteadyShownRight
    OBVIOUS
  <2>1. ReaderTypes
    BY TypeHalves DEF Inv
  <2>2. ASSUME NEW i \in DOMAIN items, items[i].key \in steady
        PROVE  /\ items[i].index = items[i].body
               /\ call.op = "prompt" => items[i].body.insert = "instructions"
    <3>1. items[i].index = entry[items[i].key] /\ items[i].body = entry[items[i].key]
      BY <2>2 DEF Steadily, OneRegistration
    <3>2. ASSUME call.op = "prompt" PROVE entry[items[i].key].insert = "instructions"
      <4>1. items[i].key \in DOMAIN records
        BY <3>2 DEF Inv, Filtered, ShownActive
      <4>2. Matches(Normalized(call), items[i].key)
        BY <2>2, <3>2, <4>1 DEF Steadily, Matching
      <4> QED BY <3>2, <4>2 DEF Matches, Admitted, Normalized, Admits
    <3> QED BY <3>1, <3>2
  <2>3. Complete
    <3>1. call.op \in {"prompt", "list", "render"}
      BY <2>1 DEF ReaderTypes, Calls
    <3>2. call.op = "render" \/ res # "ok" => Complete
      BY DEF Complete
    <3> QED BY <2>1, <3>1, <3>2, ListComplete, PromptComplete
  <2> QED BY <2>2, <2>3 DEF SteadyShownRight, Complete
<1> QED BY <1>1, <1>2, <1>3, InvAlways, PTL DEF Spec

\* Whatever is shown, in a section, a list or rendered, is of a key whose
\* registration the filter admitted when it was listed, or that was of the
\* definition when it was resolved; of a steady skill that is the registration
\* it has still, and so AllowSkills `always apply' (skillprompt.go:22, 128,
\* 136-180, 249).
THEOREM FilterHolds == Spec => []KeepsToFilter
<1>1. Init => Steadily
  BY SteadilyFirst
<1>2. Inv /\ Steadily /\ [Next]_vars => Steadily'
  BY EachStepSteadily
<1>3. Inv /\ Steadily => KeepsToFilter
  BY DEF Inv, Filtered, Steadily, AsRecorded, KeepsToFilter
<1> QED BY <1>1, <1>2, <1>3, InvAlways, PTL DEF Spec

=============================================================================
