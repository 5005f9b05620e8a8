# A verification of agentskills-go in TLA+

agentskills-go is a Go library that serves *agent skills* (directories with a
`SKILL.md` and resources) to LLM agents. A host registers skills in a catalog,
opens sessions, and hands the model a prompt and a set of tools; the model
activates skills in its session and uses them. Nothing is persisted: what is
hard in this code is concurrency. All entry points of the `Runtime` may be
called from any goroutine, the catalog, the store and each session have locks
of their own, and slow work (loading a body from a provider) happens between
critical sections, not in them. Around it stand the documents themselves
(`SKILL.md` is parsed, validated, rendered and written) and a provider that
reads them from a file system that others change.

This directory has TLA+ models of these parts, TLC configurations that check
them, and proofs checked by TLAPS.

## Inventory of the system

| component | source | state | operations | modelled in |
|---|---|---|---|---|
| catalog: registration and names | `internal/catalog/catalog.go` | `byKey`, `byDef`, `handleIndex` under `Catalog.mu` | `Add`, `Remove`, `ResolveDef`, `GetIndex`, `ResolveHandle`, `HandleForKey`, `recomputeLLMNamesLocked` | `Catalog`, `Handles` |
| catalog: body cache | same | `entry.bodyLoaded/bodyErr/bodyWait` | `EnsureBody`, `finishBodyLoad` | `Catalog` |
| session | `internal/session/session.go` | `activeOrder`, `activeSet`, `stateVersion` under `Session.mu`, atomic `closed` | `ActivateKeys`, `ActiveKeys`, `activeHandlesLocked`, `pruneKeys`, `pruneKey` | `Session`, `ActiveList` |
| skills tools | `internal/session/tools_impl.go` | none of its own | `skills-load`, `skills-unload`, `skills-readresource`, `skills-runscript` | `Session` (the first two) |
| session store | `internal/session/store.go` | `m`, `lru`, `item.lastUsed` under `Store.mu` | `NewSession`, `Get`, `touch`, `Delete`, `PruneSkill`, evictions | `Store`; `PruneSkill` in `Session` |
| runtime, host API | `runtime.go` | none of its own | `AddSkill`, `RemoveSkill`, `NewSession`, `CloseSession`, `ListSkills` | `Session` (`AddSkill`, `RemoveSkill`), `Prompt` (`ListSkills`), `Store` (`CloseSession`) |
| prompt and rendering | `skillprompt.go` | none | `SkillsPrompt`, `RenderSkill` | `Prompt` |
| argument rendering | `internal/catalog/artifact.go` | none (pure) | `RenderSkillBody` | `RenderBody`, run by `Document` |
| filters, prompt XML | `internal/catalog/prompt.go`, `promptxml.go` | none (pure) | predicates, formatting | the filters in `Prompt` |
| documents | `document.go` | none (pure) | `ParseSkillDocument`, `ValidateSkillDocument`, `RenderSkillDocument`, `MarshalSkillDocument` | `Document` |
| file system provider | `fsskillprovider/provider.go` | the disk | `Index`, `LoadBody`, `ReadResource`, `RunScript` | `FsProvider` (the first two) |
| types | `spec/` | none | declarations | as records and constants |

How they interact:

* The runtime calls the catalog and the store; `RemoveSkill` does both, one
  after the other and without a common lock: first the entry leaves the
  catalog, then `Store.PruneSkill` lists the open sessions under `Store.mu`
  and prunes each under `Session.mu`.
* A session calls the catalog many times in one operation. `ActivateKeys`
  validates keys, copies the list under its mutex, releases it, loads every
  body, looks every key up again, takes the mutex, and commits if
  `stateVersion` has not moved; then, **with the mutex held**, it asks the
  catalog for handles and drops keys that have none.
* The store closes a session by an atomic flag; goroutines inside the session
  go on and look at the flag at some places, before or under the mutex.
* `SkillsPrompt`, `ListSkills` and `RenderSkill` put an answer together from
  separate calls of the catalog, the store and a session; nothing keeps these
  from changing in between.
* The catalog calls the provider: `Index` in `Add` before the lock is taken,
  `LoadBody` in `EnsureBody` between two critical sections. The file system
  provider looks at the disk many times in each of them, and somebody else
  changes the files in between; both end in the parser of `document.go`.

What has to hold:

* **catalog**: the two indexes stay inverse; a handle shown to the model leads
  back to its skill; at most one caller loads a body, everybody else is woken
  with the result, nobody is woken by closing a channel twice; a load that a
  removal overtook publishes nothing; one caller's cancellation is its own.
* **session**: the list has no duplicates and agrees with the set; the limit
  holds though loads race; a commit is the load applied to the list as it is
  then; a removed skill leaves every open session; calls return.
* **store**: map, list and flags agree; a new session is not its own victim;
  eviction takes the least recently used ones; the TTL means what it says
  although the clock is read outside of the lock.
* **prompt**: an answer shows no skill twice and misses none that was there all
  the time; both sections keep to the filter; what it says of a skill is of one
  registration of it (the code ensures the last two only for skills that stay
  registered).
* **rendering**: placeholders of the body, and no others, are replaced.
* **documents**: what the parser accepts the validator accepts; nothing optional
  is dropped without a warning; limits count what is kept; what is written is
  read back as it was, and written the same way again.
* **provider**: a body is not older than the record it belongs to, nor than the
  `Add` that made the record; the resources listed are those that were there,
  whatever changes during the walk; a cached result stays until the removal.

`PROJECT.json` lists under `hazards` each place where these could go wrong,
with its line and the properties that would show it.

## The modules

### `Handles` and `Catalog`

`Handles` has the two passes of `recomputeLLMNamesLocked` as operators on the
map `live` from registered keys to definitions. Names are sequences of parts,
so that `n#h` is the name `n` with one part appended: that is all that is kept
of string formatting, and it is enough to tell apart a disambiguated name from
a skill that has such a name by itself. The handle index is filled by ranging
over a Go map, hence `HandleIndexes` is the set of indexes that can result.

`Catalog` has `Catalog`'s fields as variables and one action per critical
section of `Catalog.mu`, or per step between two of them:

| action | code |
|---|---|
| `Add`, `Remove` | the whole critical section, the recomputation of names included |
| `Call`, `CheckContext` | entry of `EnsureBody`, `ctx.Err()` at the head of its loop |
| `Answered`, `JoinLoad`, `BecomeLoader` | the locked lookup: an answer; a load to wait for; a channel of one's own |
| `Wake`, `AbandonWait` | the two cases of the `select` (both can be ready: Go picks either) |
| `FinishLoad` | `LoadBody` returns and `finishBodyLoad` runs |
| `Cancel` | the context of a call ends; at any time |

`Add`'s definition and key are independent but for type and name: providers
canonicalise locations, and a link may point elsewhere the next time. A channel
is a pointer, so `make(chan)` is any channel to which no entry and no caller
refers any more; a finite set of channels, one per caller, loses nothing.
Closing a closed channel sets `panicked`. `disturbed` is a history variable: it
records that the skill a call is after was removed, or that a load ended by its
context, since the call (or its own load) began.

Left out: `Remove`'s repair of a definition whose key has no entry. It is dead
code, as `IndexesAgree` says and `IndexesStayInverse` proves.

### `Session` and `ActiveList`

`Session` is one session and everybody who changes its list: loaders
(`ActivateKeys`), unloaders (`skills-unload`), listers (`ActiveKeys`) and hosts
(`RemoveSkill` with `PruneSkill`/`pruneKey`), next to the catalog reduced to
what they see of it, the insert mode of registered keys. A step is one call of
the catalog, or one critical section of the session's mutex; `mu` is held over
several steps only in `activeHandlesLocked`, which calls the catalog for each
key (`ReadHandle`). `todo` is the rest of the loop a goroutine is in.

Abstractions: `stateVersion` is only ever compared for equality with a
snapshot, so `stale[p]` (it has moved since p's snapshot) takes its place and
no counter needs a bound. `EnsureBody` is one step, at the moment its last
lookup finds the entry; `Catalog` has the rest. `skills-load` resolves handles
to keys before it calls `ActivateKeys`; the model lets the keys be any.
`skills-readresource` and `skills-runscript` change nothing here.

`ActiveList` is what a session promises. The list changes when a pending
request takes effect *as a whole on the list as it is at that moment*, within
the limit, or when keys are lost. `Serves` says what a request makes of a list
by the relative order of every two keys, not by the code's filter-and-append.
`Session` implements it under the mapping `active <- activeOrder`, with `ask`
the request of a loader that has not committed yet.

### `Store`

The map, the list in order of use and the closed flags, with the clock.
`NewSession`, `Get` and `touch` read `time.Now()` *before* they lock, so each
is two steps: `Start` reads the clock, another action is the critical section.
Both evictions are part of the critical sections they run in. `Delete` is
`CloseSession`. A new session is in the store before its initial skills are
active (`"activate"`); `ActivationFails` deletes it again. `used` is history:
the time at which the last use of a session took effect.

Left out: that `Get` deletes a session it finds closed; by `ClosedIsGone` no
closed session is in the map.

### `Prompt`

One call of `SkillsPrompt`, `ListSkills` or `RenderSkill` after another, as the
sequence of reads it is: the filtered listing, `Store.Get`, the three parts of
`ActiveKeys` (copy, look up, prune), then for each active skill handle, index
and body, then a handle for each available one. Between any two of them hosts
register and remove skills, and the session's list changes as `Session` lets it
change: a skill is appended by a load, lost by an unload or a pruning.
`RenderSkill` resolves its definition to a key and reads index and body of it.

| `pc` | the next read | code |
|---|---|---|
| `list` | `ListPromptIndexRecords`, `ListUserEntries` | `skillprompt.go:101`, `runtime.go:278` |
| `get` | `Store.Get` | `skillprompt.go:107`, `runtime.go:290` |
| `copy`, `look` | `ActiveKeys` | `session.go:66-95` |
| `resolve` | `ResolveDef` | `skillprompt.go:249` |
| `handle`, `index`, `body` | `HandleForKey`, `GetIndex`, `EnsureBody` | `skillprompt.go:140-161`, `254-262` |

A definition is not its key: several may canonicalise to one key, though only
one of them can be registered with it at a time, and a key may come back under
another definition. `entry` has for each key its registration, that is the
definition and the insert mode, which stand for everything that is read of it:
two registrations of a key are told apart by them. A filter admits
*registrations* (`Admitted`), by a list of allowed definitions and one of insert
modes; `Types` and `LocationPrefix` restrict by the definition as the former
does. `records`, `order` and `items` are the code's locals of that name (`order`
is `activeOrder`); `records` keeps for each key the registration it was listed
as, which the code's records have as well. `steady`, `always` and `never` are
history: the keys registered once and for all of the call, active all the time,
and never active. `Listed` is what `ListSkills` returns.
Left out: `NamePrefix`, the order of the available section
(it is sorted at the end), the text of the sections, and calls that are refused
before they read anything but for `activity=active` without a session.

### `Selections`

One operator for all the loops that go through a slice and append some of its
elements to another: `Selection(s, places)`, and `Without(s, gone)` for
`slices.DeleteFunc` and its like. `Session`, `Store`, `Prompt`, `FsProvider` and
`Document` are built from it: deduplication, the next order, unloading, pruning,
both evictions, moving to the front, the active section, the names of a
directory, the fields that are written. It is a recursive function and not a `RECURSIVE`
operator, so that it can be proved about, once for all of them.

### `RenderBody` and `Document`

`RenderBody` has `RenderSkillBody` as an operator on texts whose parts are
letters, digits, blanks, dollars, backslashes and *double* braces. A step says
what is written for the beginning of a text, how much of the text that stands
for, and which name is reported: `DollarStep` is one round of the loop of
`renderDollarPlaceholders`, `BracesStep` one match of the regular expression.
`Pass` goes on after each step with the rest of the text. `OnePass` is the
reference, a body read once from left to right. Left out: single braces, which no
placeholder contains, and warnings other than for unknown placeholders.

`Document` has the four functions of `document.go` that way, and calls them:
a behaviour is one call and its answer. What a call is given has a type
(`Text`, `Values`, `Contents`, `Arguments`, `Documents`, in `InputsAssumption`),
as it has in Go; nothing is assumed to be *valid*.

| operators | code |
|---|---|
| `NormalizeEndings`, `CleanBody`, `FirstHeading` | line ends, empty lines before the body, the display heading |
| `Rules`, `HasRule` | lines that are `---` *once trimmed*, in a text, an argument's object or a list |
| `SplitFrontmatter`, `CutValue`, `Remainder` | where the frontmatter ends: at the first such line, inside a field if it stands there |
| `ParseArguments`, `ParseTags`, `ParseInsert` | the lenient fields, item by item, with what each is warned of |
| `ParseSkillDocument`, `ValidateSkillDocument` | acceptance, and every field of the document |
| `BodyOf`, `EntriesOf`, `FieldsOf` | the heading put in front of the body, the fields in the order of their keys, and those of them that are written |
| `Encoded`, `Bytes`, `TooLarge` | the content that is written, its size, and whether it is refused for that |
| `MarshalSkillDocument`, `RenderSkillDocument` | writing and rendering of what is valid |

A text is a sequence of parts, each of which counts as a byte against the
limits. What the YAML library makes of a frontmatter is a sequence of fields
whose values are texts, lists, objects, null or something else (`Junk`); the
ways in which a file is unreadable as a whole other than its size (UTF-8, NUL,
missing delimiters, YAML errors) are one `fault`. A warning is represented by
the field it is about. Frontmatter fields that the runtime does not know are
`custom`.

Two things are assumed of how the YAML library writes: a text of several lines
becomes a block, each of its lines on a line of its own, and the keys of an
object are sorted, so that a line in an argument's description cuts off its
name. The size of a content is that of its texts and body, with a byte for each
key and item: delimiters, indentation and quotes are left out. What
`MarshalSkillDocument` adds to a parsed content (an insert mode that was not
there, the line ends around the body) is counted, so that a document can grow
past the limit.

### `FsProvider`

`Index` and `LoadBody` of one location, as `Catalog.Add` and `EnsureBody` call
them, a step for each look at the disk: the root, `Lstat` and reading of
`SKILL.md`, then for `Index` the walk, with the names of a directory read once
and each file looked at again when it is visited. The disk changes between any
two of them: `SKILL.md` is replaced (by a file with another name in it, a link,
a directory, nothing), resources come and go, so does the directory.

| variable | stands for |
|---|---|
| `disk` | the directory, `SKILL.md` with a *version* (the number of its change), the kind of each resource |
| `entry` | the catalog's entry of the location: version indexed, resources, the load under way, the cached body or error |
| `op` | per goroutine of the host, where it is in `Index` or `LoadBody` |
| `seen` | history: the version when an `Add` began, the files that were there all the time, and at any time, since |

The version is the data: two contents of `SKILL.md` are told apart by it, and
`body >= version` says that a body is no older than its record. Left out:
waiters (in `Catalog`), digests, partly written files (a file is replaced as a
whole), what the parser rejects but for the name, and the refusal of paths that
lead out of the directory.

### Mutated forms

Next to some definitions stands a form of it as a plausible bug would have it
(`StillRegistered` for `StillInstalled`, `UnlockUnlessMissing` for `Unlock`).
No specification uses them. They record what each property is sensitive to:
with the mutated form in place, TLC finds the property violated.

## What is checked

| run | instance | shows |
|---|---|---|
| `catalog_indexes` | 4 definitions, 4 keys, 1 caller | `IndexesAgree`, `HandlesResolve`: two types at one location collide, a third skill is named like one of them after that, one definition canonicalises to two keys |
| `catalog_flight` | 1 skill, 3 callers, 3 rounds | type, `NoPanic`, `NoLostWakeup`, `SingleFlight`, `OwnContextOnly`, `QuietCallSucceeds`, `PublishOnlyCurrent` |
| `catalog_live` | 1 skill, 2 callers, 2 rounds | `EnsureBodyReturns` |
| `session_loads` | 3 skills, 2 loaders, an unloader, limit 2 | `WithinLimit`, `ListAndSetAgree`, `ImplementsActiveList` |
| `session_removals` | 2 skills, a loader with requests of 2 keys, a lister, 2 hosts | type, `NoDanglingActive`, `ImplementsActiveList` |
| `session_live` | 1 skill, one goroutine of each kind | `CallsReturn`, `RemovedSkillLeaves` |
| `session_user_message` | 1 skill, 2 insert modes | a **violation** of `ActivatesOnlyInstructions`, see below |
| `session_late_prune` | 1 skill, a loader, a lister, a host | a **violation** of `PrunesOnlyMissing`, see below |
| `prompt` | 2 keys, 2 definitions, one of which canonicalises to either key, 2 allowlists, 2 insert lists, every activity | type, `NoneTwice`, `SteadyShownRight`, `KeepsToFilter` |
| `documents` | 180,000 calls: every small input of each kind, by families | `ParsedIsUsable`, `LosesNothingSilently`, `KeepsTheFirst`, `ReadsBack`, `IsCanonical`, `RendersInOnePass` |
| `provider` | 2 hosts, 3 resources (one in a subdirectory), 2 changes, at most 2 locations | type, `ServesNothingOlder`, `ResourcesSound`, `CachedForGood` |
| `store` | 3 sessions, room for 2, TTL 2, 2 goroutines | type, `ClosedIsGone`, `NewIsKept`, `EvictsLeastRecentlyUsed`, `ServedWithinTTL`, `ExpiredOnlyWhenIdle` |

### Bounds, and why they are enough

* **Callers 3, one key** in `catalog_flight`: a loader that a removal overtook,
  the loader of the new registration, and a waiter of either. A fourth caller
  repeats one of these roles, and calls for different keys meet only in
  channels, which are compared, never shared; the proofs cover any number of
  both. `MaxAttempts` is 3 (5 in the code): a first, a middle and a last round.
* **Loaders 2** in `session_loads`: a conflict needs one goroutine that commits
  while another is between snapshot and commit; the unloader adds conflicts that a
  load of the same skills does not make. `MaxTries` 2 has a round that
  is retried and one that is the last. Limit 2 of 3 keys lets two loads that
  each fit exceed it together. Requests have one key where two loaders race;
  `session_removals` has requests of two keys, repeated ones included.
* **Hosts 2** in `session_removals`: a late pruning of a skill that was
  removed, registered again and removed by another host.
* **Store**: three ids over room for two force evictions of both kinds.
  `MaxTime` 5 is the time two sessions need to be made, used and to expire
  after each other; `MaxDelay` 1 lets two goroutines apply their times in the
  wrong order. With a delay of 0 `lru` would be ordered by `lastUsed`.
* **Prompt**: two skills are one that is read and one that changes, in either
  section; the reads of one skill do not depend on a third. One caller is
  enough, callers meet in the session's list only, where `DropSkill` stands for
  what another's pruning does. Two definitions over two keys let a key be
  listed under the one that is allowed, removed, and registered again under the
  one that is not. The allowlists are the empty one and one that excludes a
  definition and has an incomplete one besides.
* **Documents**: every limit is small enough to be passed by one (names of 2,
  descriptions and display names of 3, 3 arguments, 2 tags of 3, argument texts
  of 2, contents of 40), and texts long enough for it: bodies of every length
  around the limit are parsed and written. Bodies to parse have up to 5 parts (a heading, a line end of
  either kind, and what follows), bodies to write up to 4, and all headings of
  up to 7 parts are among both. Lists have up to 4 items, of which there are
  good, repeated, padded, too long and foreign ones, and some with a rule in
  them, before and behind other items. Bodies to render have up to
  5 parts, the length of the longest placeholder `{{ a }}`; there are two names,
  and values and defaults that look like the other name's placeholder or like an
  escape, a name declared twice and one that is no identifier.
* **Provider**: two hosts, since a late load of one registration can meet the
  entry of another only if someone else removed and added the skill. `MaxEdits`
  2 lets a change come between an `Add` and its load, and another between the
  removed registration and the new one. Of three resources one stands before
  the subdirectory, one in it and one after it, and `MaxLocations` is one less
  than they are.
* Symmetry is used in safety runs only, over keys, callers, channels or ids
  that no constant tells apart.

Deadlock is checked in every run but two: `documents` makes one call and ends,
and in `session_loads`, without hosts, nothing can happen to a closed session.
Elsewhere a host can always register or remove, a caller always call.

### Fairness

* `Catalog`: weak fairness of each caller's own steps. A goroutine that can go
  on is scheduled, and `LoadBody` returns; the second is the provider's duty
  (a body that never arrives blocks its waiters until their contexts end). It
  is enough because the steps of one caller are enabled until it takes one:
  a lookup always has an outcome, and a closed channel stays closed.
* `Session`: strong fairness of each goroutine's steps. A step that waits for
  the mutex is disabled again and again while others hold it; Go's
  `sync.Mutex` hands the lock over to a waiter starved for a millisecond, so
  who waits gets it in the end.
* Nothing is assumed of hosts, of clients or of the clock.

### What the code does otherwise

* **`session_user_message`** (code): `ActivateKeys` checks
  `insert=instructions` once, before its retry loop, and before the commit
  only that the key still exists. A skill that is removed and registered again
  as `user-message` in between becomes active, which `README.md:81-83` and the
  error at `session.go:139` exclude.
* **`session_late_prune`** (code): `ActiveKeys` prunes later what it saw missing
  before, without looking again. A skill registered again and loaded in between
  drops out of the session, although the comment at `session.go:65` has it prune
  keys "that no longer exist in the catalog".

More that a reader of the models will meet, for which no run is kept:

* The second naming pass appends the same suffix again and does not look whether
  the result is taken (`catalog.go:394-402`), so four skills named `foo` (twice),
  `foo#h1` and `foo#h1#h3` end with one handle for two of them.
  `HandlesLeadBack` proves that this, which its hypothesis `NoCraftedChain`
  excludes, and a collision of the 32-bit hashes are the only ways to get there.
  The run has neither, but the first three of these skills.
* Reads are not atomic together. A skill that is removed and registered again
  between two reads of `RenderSkill` or `SkillsPrompt` gives one registration's
  insert mode, arguments or description with the other's text; if the second is
  a `user-message` skill, the active section discloses it. `SteadyShownRight`
  is what holds: it speaks of skills that stay registered during the call.
* A filter is applied to the registrations that are listed, and what is shown is
  read by key afterwards. A key that is removed after the listing, and registered
  again under another definition, is shown though the allowlist excludes that
  definition (`skillprompt.go:101`, `136-180`), whereas `skillprompt.go:22` says
  that `AllowSkills` "always apply". `KeepsToFilter` is what holds: of the
  registrations that were listed, and of the present ones for skills that stay
  registered during the call.
* Incomplete definitions are dropped from an allowlist (`skillprompt.go:372`),
  and a list left empty by that admits every skill (`Normalized`, `Admits`).
* A value that contains `{{name}}` is rendered itself, since braces are replaced
  in what the dollar pass leaves behind. `RendersInOnePass` is what holds:
  values without braces, and bodies without a dollar in braces, are rendered as
  `README.md:104-106` reads.
* A display name is cut after it was trimmed (`document.go:141`), so it may end
  in a blank; the validator does not take such a document (`document.go:658`).
  `ParsedIsUsable` and `IsCanonical` hold but for this (`Recut`).
* A document grows when it is written: an insert mode is put in, and line ends
  around the body. One that was parsed just under the size limit may so be
  refused (`document.go:299`); `ParsedIsUsable` excepts it (`TooLarge`).
* A line `---` inside a text of several lines ends the frontmatter
  (`document.go:331-332`: lines are trimmed, so indentation does not help), and
  what follows is body. The validator allows such a text in a description, in
  an argument's description or default and in a tag, so `MarshalSkillDocument`
  writes documents that read back without what follows. A display name may
  contain a line break, which makes its heading lose what follows. `Writable`
  and `Ruled` except both.
* A repeated tag is passed over without a warning (`document.go:639-641`),
  although `README.md:134-137` has the parser return warnings when it "ignores
  malformed or duplicate arguments/tags", and a repeated argument is warned of.
  `LosesNothingSilently` asks for all tags in order if none is repeated, and
  otherwise for each of them once or more.
* A body may be *newer* than the record it is served with: nothing compares
  digests when it is loaded. `ServesNothingOlder` excludes the reverse only. An
  error of the file system is cached like a body, until the skill is removed.

## What is proved

For every value of the constants: any number of skills, goroutines, sessions,
rounds, files and changes, any limits, documents and texts of any size. Every
safety invariant and every safety action property of a passing run is among
the theorems.

| module | theorem | states |
|---|---|---|
| `CatalogProofs` | `TypeCorrect` | `TypeOK` of `Catalog` |
| | `IndexesStayInverse` | `IndexesAgree` |
| | `NeverPanics`, `WakeupsNotLost`, `OneLoadPerEntry` | `NoPanic`, `NoLostWakeup`, `SingleFlight` |
| | `OnlyCurrentPublished` | the action property `PublishOnlyCurrent` |
| | `QuietCallsSucceed`, `ContextErrorsStayPrivate` | `QuietCallSucceeds`, `OwnContextOnly` |
| | `HandlesLeadBack` | `HandlesResolve`, if hashes differ and nobody is named after a suffixed suffixed name |
| `SelectionProofs` | `SelectionFacts`, `SelectionOrder` | what `Selection` returns: range, length, no repetitions, order |
| `SessionProofs` | `SessionTypes`, `ListAgrees`, `LimitHolds` | `TypeOK`, `ListAndSetAgree`, `WithinLimit` of `Session` |
| | `RemovedDoNotStay` | `NoDanglingActive` |
| | `ListRefines` | `ImplementsActiveList`: the refinement |
| `StoreProofs` | `StoreTypes`, `ClosedAreGone` | `TypeOK`, `ClosedIsGone` of `Store` |
| | `NewAreKept`, `LeastRecentlyUsedGo` | `NewIsKept`, `EvictsLeastRecentlyUsed` |
| | `ServedAreFresh`, `ExpiredAreIdle` | `ServedWithinTTL`, `ExpiredOnlyWhenIdle` |
| `PromptProofs` | `PromptTypes`, `ShownOnce`, `FilterHolds` | `TypeOK`, `NoneTwice`, `KeepsToFilter` of `Prompt` |
| | `NothingSteadyMissed` | `SteadyShownRight` |
| `FsProofs` | `FsTypes` | `TypeOK` of `FsProvider` |
| | `NothingOlderServed`, `CacheStays` | `ServesNothingOlder`, `CachedForGood` |
| | `WalkIsOrdered` | the order of the walk is strict and total |
| | `ScansAreSound` | `ResourcesSound` |
| `RenderProofs` | `TwoPassesAreOne` | the dollar pass followed by the braces pass is one pass |
| | `BodyRenderedInOnePass` | so is `RenderSkillBody`, with the first declaration of each name |
| `DocumentProofs` | `ArgumentsParsed`, `TagsParsed` | what any value gives as arguments and as tags |
| | `ParsedIsValid`, `ParsedCanBeUsed` | what is accepted is valid; `ParsedIsUsable` |
| | `NothingLostSilently`, `FirstOnesKept` | `LosesNothingSilently`, `KeepsTheFirst` |
| | `WrittenReadsBack`, `WrittenIsCanonical` | `ReadsBack`, `IsCanonical` |
| | `RenderedInOnePass` | `RendersInOnePass` |

**Assumptions**, all in the modules that declare the constants and evaluated by
TLC in their runs: `HandlesAssumption` (definitions and keys have names, hashing
yields a name part); `CatalogAssumption` (`MaxAttempts` is at least 2, `None` is
no entry, key or channel); `SessionAssumption` (a round and a key at least,
`None` is no goroutine and no request); `StoreAssumption` (TTL and limit are
positive, as `NewStore` makes them, `None` is no id); `PromptAssumption` (what
allowlists and insert lists may have, that a definition canonicalises to keys,
and that the placeholders are nothing else); `FsAssumption` (changes are counted, `None` is no version and no host);
`NamesAssumption` (a directory has each name once, the root and its
subdirectory have none in common, as paths); `AlphabetAssumption` (letters and
digits are neither blanks nor dollars, backslashes or braces);
`InputsAssumption` (the inputs of a call have their Go types);
`LimitsAssumption` (limits are naturals, and a name fits where a display name
does, 64 bytes in 256).
`HandlesLeadBack` alone has hypotheses that the code does not ensure,
`HashesDiffer` and `NoCraftedChain`.

### Lists: `SelectionProofs`

That a loop over a slice does what it should is induction over data, and the
library's induction theorems take an operator as a parameter. `SetInduction`
gets around this: it speaks of a *set* of numbers, and follows from
`LeastNatural`, that a set of naturals that is not empty has a least element.
`LoopExists` builds with it the function that the recursive definition of
`Selection` speaks of. `SelectionPicks` then says in one formula all that is
needed: there is an increasing `e` such that the n-th element of the result is
the `e[n]`-th of the slice, and every place that was kept is some `e[n]`. Range,
length, injectivity and order are read off it.

### `Catalog`

None of the safety properties is inductive. That no channel is
closed twice depends on whose channels entries hold:

* `WaitOwned`: a channel in an entry is open, the entry has no result, and a
  caller that is loading for this key holds the channel;
* `DistinctChannels`: no two loads have the same channel;
* `LoaderInstalled`: a load's entry still has its channel unless the call was
  disturbed, and then never again. (`finishBodyLoad` compares channels for this
  reason: the key alone may have been registered again.)

With `NoPanic` and `NoLostWakeup` these make the invariant `Safe`. There is one
lemma per action that changes an entry (`AddSafe`, `RemoveSafe`,
`BecomeLoaderSafe`, `FinishLoadSafe`) and one for the others (`QuietStepSafe`,
by `KeptLoads`). `SingleFlight` follows from `Safe` at once, `PublishOnlyCurrent`
by looking at the actions that can resolve an entry.

`QuietInv` adds what an undisturbed call knows: while it waits, its channel is
closed and its entry has an answer, or its channel is the entry's
(`QuietWait`); from the second round on its entry has an answer
(`QuietRetry`). So it never waits twice, and two rounds would do. `ContextInv`
is `OwnContextOnly` with `NoContextCached`, its reason.

`HandlesUnique` is about the naming operators alone: two keys with one handle
would be both plain (then they are in one group, and were suffixed), both
suffixed (then their hashes agree), or one is named like the other's suffixed
name, which the second pass repairs unless that one carries a suffixed name
itself. `NamesCurrent` carries it over to the catalog: entries and index have
the names of the skills now registered.

### `Session`

The invariant is `TypeOK`, `ListAndSetAgree` and `WithinLimit` with `CallInv`:
where a goroutine has keys to go on with, and that a load past its snapshot has
a next list that has no repetitions and fits the limit. The limit holds because
what a commit installs fits *as a whole*, and every other change is a loss
(`ListSteps`).

`NoDanglingActive` needs that a session that is not open yet is empty. A step
of a call is told from a registration: a removed key that is still active has a
host about to prune it, or is among what the holder of the mutex has still to
look up or has found missing (`StepDangling`).

For the refinement, `SnapshotInv` says that as long as the version has not moved,
what a load is about to commit is what its request makes of the list *as it
is now*, and `NextOrderServes` that the code's filter-and-append is what
`ActiveList` describes by the relative order of every two keys. Every step of a
call is then an `Ask`, a `Serve`, a `Refuse`, a `Lose` or nothing.

### `Store`

The invariant is `TypeOK`, `ClosedIsGone`, that a call's time is not older than
`MaxDelay` (`CallInv`), that `lastUsed` and the time at which the use took
effect differ by no more (`UseInv`), and `UseOrder`: the list is ordered by when
uses took *effect*, though not by the times they read. Evictions leave a
`Front` of the list, so what goes was used no later than what stays
(`FrontOrder`); with `UseInv` this gives the two statements about the TTL.

### `Prompt`

`Inv` is about what a caller has shown and is still going to show: the two
sections are disjoint and without repetitions *including what is still to be
read* (`Apart`), and both are of records, each of a registration that the
filter admitted or that was resolved (`Filtered`). Nothing that others do
touches any of it.

`SteadyShownRight` relates it to what happens elsewhere. `Steadily` follows the
skills that stay registered through the reads: they match the filter exactly if
they are among the records (`Matching`), and are registered as their records say
(`AsRecorded`, which with `Filtered` gives `KeepsToFilter`); those that were active throughout are
in the order that was read, and those that never were are not (`Ordered`); at
every moment each is shown or still to be read, in the section it belongs to
(`BothSections`); and what was read of it is of its one registration
(`OneRegistration`). What others do can only take skills out of the history
(`HistoryShrinks`), and no read passes over a skill that is steady
(`NotFoundSteadily`).

### `FsProvider`

Versions only grow, so it is enough to know at each place of a host's operation
that what it has read is not older than what it will be compared with (`Fits`):
an `Add` past the read has a version between its begin and now, and the loader
*of the entry* has read a version that is not older than the entry's. A load of
a removed registration is the loader of no entry, and says nothing.

`ResourcesSound` is about a tree of names that changes while it is walked. That
the order of the walk is strict and total (`WalkIsOrdered`) follows from the
order within each directory and from where the subdirectory stands in the root.
`ScanInv` says at each place of a scan that there is a set `C` of files that it
has counted (`Walked`): all of `C` were there at some time during the `Add`;
what is listed is `C`, or the first `MaxLocations` of it (`Counted`); what is
still to be visited comes after all of `C`, in order (`Pending`); and a file
that was there all the time is in `C` or is still waited for, by its own name or
by that of its directory (`Awaits`). A look at a directory changes the second
form of waiting into the first; a change of the disk takes files out of those
that were there all the time, or adds to those that were there at all.

### Rendering: `RenderProofs`

A recursive function over the places of a text is a loop, and exists like that
of `Selection` (`PassLoops`); `RunUnfolds` says of it what is needed: a pass is
its first step and a pass over what that leaves. Everything else is induction
over the length of texts (`TextInduction`, once more with a set in place of an
operator). Two facts carry the argument. What has no opening braces goes through
the braces pass untouched, whatever follows it (`BracesOver`): so what the first
pass puts in for a dollar placeholder, or leaves of an escape, stays
(`AsideOfBraces`). And where braces open, the first pass changes nothing up to
the end of the placeholder, for it has no dollar in it (`BracedIsPlain`,
`AtPlaceholder`); if there is no placeholder there, none comes into being
(`AtBraces`): closing braces are only those of the body (`NoNewBraces`), since
values have none, and up to the first of them there is no dollar, since the body
nests none. These are the hypotheses of `RendersInOnePass`, and the argument
fails where the code does without them. That at most one placeholder begins at a
place (`BracedUniquely`) is what makes `BracesStep` a function.

### `Document`

A behaviour is one call, so the invariant `CallInv` says only that an answer is
what its function gives; the work is in the functions.

The loops over items and over line ends are recursive functions. `Iteration`
gives the sequence of their states, `Invariance` what holds of all of these if
every round keeps it; both come from `SetInduction`. `KeepsFirst` is about any
list put together by such a loop that appends what is good and new while there
is room: it has the first different good ones, up to the limit. Arguments and
tags are two cases of it, which is `KeepsTheFirst`. `ArgumentsSilent` and
`TagsSilent` follow the warnings: as long as there is none, everything so far
was put out, tags but for those that were there already (`OneMoreSaid`).

`ParsedIsValid` puts the parts together: every field of what is accepted
satisfies its part of `ValidateSkillDocument`, a display name because it is cut
and a heading, or a name that is short enough, has no blanks at its ends.

The properties about lists and about writing except what has a rule in one of
its texts. `SplitType` is for all contents: what is left of a field that is cut,
in whichever text of whichever item (`CutItemType`, `CutValueType`), is a value
again, so that whatever is accepted is valid, rules or not.

`ReadsBack` goes through a document that is written as the parser will: it fits,
or it would not have been written (`MarshalAnswered`); no line of a field is a rule
(`WrittenWithoutRules`), so the split is where it was made; each field gives what it was made from (`ArgumentsAgain`, `TagsAgain`,
`InsertAgain`); a body that was cleaned is clean, with a line end in front of it
and one behind (`CleanAgain`, `BodyReadAgain`); the line end makes no heading
and takes none (`HeadingOfEnded`), and the heading that was put in front is read
as the display name it was made from (`HeadingPut`). `IsCanonical` needs in
addition that the fields of what was read are those that were written
(`FieldsAgain`) and that no second heading is put in front (`BodyOnceMore`).

Each of these invariants was checked by TLC, on the instances of the runs,
before it was proved.

## What is only model-checked

* Liveness (`EnsureBodyReturns`, `CallsReturn`, `RemovedSkillLeaves`): the
  prover has no support for fairness, nor for `ENABLED`.
* The two runs that find something are counterexamples, not claims.

## What is not modelled, and why

* `promptxml.go`, `spec/`: formatting and declarations without state.
* `New` and its options, the `Runtime`'s checks of contexts and of blanks in
  definitions, the resolution of `NewSession`'s definitions to keys: refusals
  before anything is read. `Session` lets a load name any keys, and `Validate`
  looks each of them up again as the code does.
* YAML parsing and its limits, encodings, path resolution and script execution:
  libraries and the operating system.
* `ReadResource` and `RunScript` of the provider: they keep nothing and hand
  everything on to `llmtools-go`.
* `skills-readresource`, `skills-runscript`: they check that a skill is active
  and call the provider; the check may be out of date when the provider is
  called, and no document promises more.
* `SKILL.md` files that are written in place and read half written.
* Logging, error texts, digests, and the provider's limits on the sizes of files.
* A `LoadBody` that panics. It would leave its channel open and its waiters
  waiting for their contexts; the model lets it return only.

## Plan

Done, in this order: `Handles` and `Catalog` with their proofs, `Session` and
`ActiveList`, `Store`, `Prompt`, `RenderBody`; then `Document`, `FsProvider`,
`Selections`, and the proofs about lists, sessions, the store, prompts and the
provider; then the proofs about scans of resources, rendering and documents,
with which every safety property of a passing run is proved.

What could follow: the composition of `Store` and several `Session`s for
`NewSession` with initial skills, where an eviction meets an activation that is
under way; prompts of several callers at once, which meet in the pruning only.
