----------------------------- MODULE FsProvider -----------------------------
(***************************************************************************)
(* fsskillprovider/provider.go: Index and LoadBody of a skill directory    *)
(* whose files somebody else changes meanwhile, as Catalog.Add and         *)
(* Catalog.EnsureBody call them.  Each look at the file system is a step.  *)
(*                                                                         *)
(* One location is modelled, so the catalog is one entry or none; callers  *)
(* that wait for somebody's load are in Catalog.  A file is replaced as a  *)
(* whole (written aside and renamed).                                      *)
(***************************************************************************)
EXTENDS FiniteSets, Functions, Selections

CONSTANTS
  Hosts,            \* goroutines of the host
  RootEntries,      \* names in the skill directory, in lexical order
  Sub, SubEntries,  \* the one that is a directory, and the names in it
  MaxLocations,     \* spec.MaxSkillResourceLocations
  Base, Other,      \* the directory's name, and another
  MaxEdits,         \* bound on changes of the files
  None

\* A directory's names differ, and so do relative paths.
ASSUME FsAssumption ==
  /\ MaxEdits \in Nat
  /\ None \notin 0 .. MaxEdits /\ None \notin Hosts

ASSUME NamesAssumption ==
  /\ MaxLocations \in Nat
  /\ RootEntries \in Seq(Range(RootEntries)) /\ IsInjective(RootEntries)
  /\ SubEntries \in Seq(Range(SubEntries)) /\ IsInjective(SubEntries)
  /\ Range(RootEntries) \cap Range(SubEntries) = {}
  /\ SubEntries # <<>> => Sub \in Range(RootEntries)

VARIABLES
  disk,    \* the directory: whether it exists, SKILL.md and resources
  edits,   \* changes made so far; a SKILL.md's version is its change
  entry,   \* the catalog's entry of the location, or None
  op,      \* per host, what it is doing
  seen     \* history: what the disk was since a host's Add, or the beginning

vars == <<disk, edits, entry, op, seen>>

Files == (Range(RootEntries) \ {Sub}) \cup Range(SubEntries)

Idle == [pc |-> "idle"]

\* Neither SKILL.md nor resources.
Bare == [md |-> [kind |-> "none", version |-> 0, name |-> Other],
         files |-> [f \in Files |-> "none"]]

Init ==
  /\ disk = [dir |-> TRUE,
             md |-> [kind |-> "file", version |-> 0, name |-> Base],
             files |-> [f \in Files |-> "file"]]
  /\ edits = 0
  /\ entry = None
  /\ op = [h \in Hosts |-> Idle]
  /\ seen = [h \in Hosts |-> [from |-> 0, steady |-> Files, ever |-> Files]]

Regular(d) == {f \in Files : d.files[f] = "file"}

----------------------------------------------------------------------------
(* The file system *)

Edit(d) ==
  /\ edits < MaxEdits
  /\ edits' = edits + 1
  /\ disk' = d
  /\ seen' = [h \in Hosts |->
                [seen[h] EXCEPT !.steady = @ \cap Regular(d),
                                !.ever = @ \cup Regular(d)]]
  /\ UNCHANGED <<entry, op>>

ReplaceSkillFile ==
  \E kind \in {"file", "link", "dir", "none"}, name \in {Base, Other} :
    /\ disk.dir
    /\ Edit([disk EXCEPT !.md = [kind |-> kind, version |-> edits + 1,
                                 name |-> name]])

ReplaceResource ==
  \E f \in Files, kind \in {"file", "link", "none"} :
    /\ disk.dir
    /\ disk.files[f] # kind
    /\ Edit([disk EXCEPT !.files[f] = kind])

RemoveDirectory ==
  /\ disk.dir
  /\ Edit([dir |-> FALSE, files |-> Bare.files,
           md |-> [Bare.md EXCEPT !.version = edits + 1]])

MakeDirectory ==
  /\ ~ disk.dir
  /\ Edit([disk EXCEPT !.dir = TRUE])

----------------------------------------------------------------------------
(* Reading SKILL.md *)

Becomes(h, r) == op' = [op EXCEPT ![h] = r]

\* An operation is an Add of a definition's name or a body load; its steps on
\* SKILL.md are the same.
CanonicalRoot(h) ==
  /\ op[h].pc = "root"
  /\ disk.dir
  /\ Becomes(h, [op[h] EXCEPT !.pc = "lstat"])
  /\ UNCHANGED <<disk, edits, entry, seen>>

\* A file that is missing is left to the read.
LstatSkillFile(h) ==
  /\ op[h].pc = "lstat"
  /\ disk.md.kind \in {"file", "none"}
  /\ Becomes(h, [op[h] EXCEPT !.pc = "read"])
  /\ UNCHANGED <<disk, edits, entry, seen>>

\* Open follows links.
Readable(md) == md.kind \in {"file", "link"} /\ md.name = Base

ReadSkillFile(h) ==
  /\ op[h].pc = "read"
  /\ Readable(disk.md)
  /\ Becomes(h, [op[h] EXCEPT
                   !.version = disk.md.version,
                   !.pc = IF op[h].what = "add" THEN "list" ELSE "loaded"])
  /\ UNCHANGED <<disk, edits, entry, seen>>

\* What any of the three fails for; Add is over then.
Fails(h) ==
  /\ \/ op[h].pc = "root" /\ ~ disk.dir
     \/ op[h].pc = "lstat" /\ disk.md.kind \in {"link", "dir"}
     \/ op[h].pc = "read" /\ ~ Readable(disk.md)
  /\ Becomes(h, IF op[h].what = "add" THEN Idle
                ELSE [op[h] EXCEPT !.pc = "loaded"])
  /\ UNCHANGED <<disk, edits, entry, seen>>

----------------------------------------------------------------------------
(* Index *)

StartAdd(h) ==
  \E name \in {Base, Other} :
    /\ op[h] = Idle
    /\ Becomes(h, [pc |-> "root", what |-> "add", name |-> name,
                   version |-> None, todo |-> <<>>, total |-> 0,
                   locations |-> <<>>])
    /\ seen' = [seen EXCEPT
                  ![h] = [from |-> disk.md.version, steady |-> Regular(disk),
                          ever |-> Regular(disk)]]
    /\ UNCHANGED <<disk, edits, entry>>

\* What a reading of a directory reports of a name in it.
Kind(name) ==
  IF name # Sub THEN disk.files[name]
  ELSE IF \E f \in Range(SubEntries) : disk.files[f] # "none" THEN "dir"
  ELSE "none"

Listing(names) ==
  Selection([i \in DOMAIN names |-> [file |-> names[i], kind |-> Kind(names[i])]],
            {i \in DOMAIN names : Kind(names[i]) # "none"})

\* WalkDir reads the names once; a directory that is gone has none.
List(h) ==
  /\ op[h].pc = "list"
  /\ Becomes(h, [op[h] EXCEPT !.pc = "walk", !.todo = Listing(RootEntries)])
  /\ UNCHANGED <<disk, edits, entry, seen>>

Enter(h) ==
  /\ op[h].pc = "walk" /\ op[h].todo # <<>>
  /\ Head(op[h].todo).kind = "dir"
  /\ Becomes(h, [op[h] EXCEPT !.todo = Listing(SubEntries) \o Tail(@)])
  /\ UNCHANGED <<disk, edits, entry, seen>>

\* Mutant: names are counted only as long as they are listed.
CountListed(o, f) ==
  IF Len(o.locations) = MaxLocations THEN o
  ELSE [o EXCEPT !.total = @ + 1, !.locations = Append(@, f)]

Count(o, f) ==
  [o EXCEPT !.total = @ + 1,
            !.locations = IF Len(@) < MaxLocations THEN Append(@, f) ELSE @]

\* Mutant: a file that vanished ends the scan of the directory it was in.
SkipRest(o) == [o EXCEPT !.todo = <<>>]

\* What is skipped, with a warning or without, leaves the rest to be visited.
Skip(o) == [o EXCEPT !.todo = Tail(@)]

\* Links are skipped by the listing, and all but regular files by Info, which
\* looks at the file anew.
Visit(h) ==
  LET e == Head(op[h].todo)
  IN  /\ op[h].pc = "walk" /\ op[h].todo # <<>>
      /\ e.kind # "dir"
      /\ Becomes(h, IF e.kind = "file" /\ disk.files[e.file] = "file"
                    THEN Count([op[h] EXCEPT !.todo = Tail(@)], e.file)
                    ELSE Skip(op[h]))
      /\ UNCHANGED <<disk, edits, entry, seen>>

Scanned(h) == op[h].pc = "walk" /\ op[h].todo = <<>>

----------------------------------------------------------------------------
(* The catalog *)

\* Index compares the names and Catalog.Add looks for the key.
FinishAdd(h) ==
  /\ Scanned(h)
  /\ entry' = IF op[h].name # Base \/ entry # None THEN entry
              ELSE [version |-> op[h].version, since |-> seen[h].from,
                    total |-> op[h].total, locations |-> op[h].locations,
                    loader |-> None, body |-> None, failed |-> FALSE]
  /\ Becomes(h, Idle)
  /\ UNCHANGED <<disk, edits, seen>>

RemoveSkill(h) ==
  /\ op[h] = Idle
  /\ entry # None
  /\ entry' = None
  /\ UNCHANGED <<disk, edits, op, seen>>

\* EnsureBody, if there is no body and nobody who loads it.
StartLoad(h) ==
  /\ op[h] = Idle
  /\ entry # None
  /\ entry.body = None /\ ~ entry.failed /\ entry.loader = None
  /\ entry' = [entry EXCEPT !.loader = h]
  /\ Becomes(h, [pc |-> "root", what |-> "load", version |-> None])
  /\ UNCHANGED <<disk, edits, seen>>

\* Mutant: a load is taken for the entry's whichever registration it was
\* begun for.
AnyEntry(h) == entry # None

OwnEntry(h) == entry # None /\ entry.loader = h

\* Mutant: a load that failed leaves the entry as it is.
CachedUnlessFailed(e, version) ==
  IF version = None THEN e
  ELSE [e EXCEPT !.loader = None, !.body = version]

Cached(e, version) ==
  [e EXCEPT !.loader = None, !.body = version, !.failed = version = None]

FinishLoad(h) ==
  /\ op[h].pc = "loaded"
  /\ entry' = IF OwnEntry(h) THEN Cached(entry, op[h].version) ELSE entry
  /\ Becomes(h, Idle)
  /\ UNCHANGED <<disk, edits, seen>>

----------------------------------------------------------------------------

Index(h) ==
  StartAdd(h) \/ List(h) \/ Enter(h) \/ Visit(h) \/ FinishAdd(h)

Step(h) ==
  \/ CanonicalRoot(h) \/ LstatSkillFile(h) \/ ReadSkillFile(h) \/ Fails(h)
  \/ Index(h)
  \/ RemoveSkill(h) \/ StartLoad(h) \/ FinishLoad(h)

Change ==
  ReplaceSkillFile \/ ReplaceResource \/ RemoveDirectory \/ MakeDirectory

Next == Change \/ \E h \in Hosts : Step(h)

Spec == Init /\ [][Next]_vars

----------------------------------------------------------------------------
(* Properties *)

Versions == 0 .. MaxEdits

(***************************************************************************)
(* Types.  A host that is past the read has a version, if it is to be      *)
(* indexed (provider.go:407); an entry is never at once loaded and failed, *)
(* and its loader is a host that is loading (catalog.go:263-271).          *)
(***************************************************************************)
TypeOK ==
  /\ edits \in Versions
  /\ disk.md.version \in 0 .. edits
  /\ DOMAIN disk.files = Files
  /\ \A h \in Hosts :
       /\ seen[h].from \in 0 .. disk.md.version
       /\ op[h] # Idle => op[h].version \in 0 .. edits \cup {None}
       /\ op[h].pc \in {"list", "walk"} =>
            op[h].what = "add" /\ op[h].version # None
  /\ entry # None =>
       /\ entry.version \in 0 .. edits
       /\ entry.body \in 0 .. edits \cup {None}
       /\ ~ (entry.failed /\ entry.body # None)
       /\ entry.loader # None =>
            /\ op[entry.loader] # Idle
            /\ op[entry.loader].what = "load"
            /\ entry.body = None /\ ~ entry.failed

(***************************************************************************)
(* A body that EnsureBody serves (catalog.go:436) is of the SKILL.md that  *)
(* the record was indexed from (provider.go:407) or of a later one, and    *)
(* neither is older than the call of Add: who changes the file, removes    *)
(* the skill and adds it again is not served what was there before, though *)
(* a load of the removed registration finishes late.                       *)
(***************************************************************************)
ServesNothingOlder ==
  entry # None =>
    /\ entry.version >= entry.since
    /\ entry.body # None => entry.body >= entry.version

\* The name in the skill directory that leads to a file.
RootOf(f) == IF f \in Range(SubEntries) THEN Sub ELSE f

\* The walk, which is depth-first, comes to f before it comes to g.
Before(f, g) ==
  Ahead(RootEntries, RootOf(f), RootOf(g)) \/ Ahead(SubEntries, f, g)

(***************************************************************************)
(* indexSkillResources (provider.go:487-556), whatever else changes during *)
(* the scan: files that were there all the time are counted, those that    *)
(* never were are not, none is counted twice, and the locations are the    *)
(* first of the counted ones in the walk's order, as many as may be.  With *)
(* nothing changing, the steady files are those that ever were: then the   *)
(* record is exact.                                                        *)
(***************************************************************************)
ResourcesSound ==
  \A h \in Hosts : Scanned(h) =>
    LET o == op[h]
        listed == Range(o.locations)
        full == Len(o.locations) = MaxLocations
    IN  /\ o.total \in Cardinality(seen[h].steady) .. Cardinality(seen[h].ever)
        /\ listed \subseteq seen[h].ever
        /\ IF full THEN o.total >= MaxLocations ELSE o.total = Len(o.locations)
        /\ \A i, j \in DOMAIN o.locations :
             i < j => Before(o.locations[i], o.locations[j])
        /\ \A f \in seen[h].steady :
             \/ f \in listed
             \/ full /\ \A g \in listed : Before(g, f)

(***************************************************************************)
(* What Catalog.finishBodyLoad (catalog.go:429-440) has cached of a        *)
(* registration, a body or an error of the file system, stays until the    *)
(* skill is removed, whatever becomes of the files.                        *)
(***************************************************************************)
CachedForGood ==
  [][entry # None /\ (entry.body # None \/ entry.failed) =>
       entry' \in {None, entry}]_vars

============================================================================
