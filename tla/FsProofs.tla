------------------------------ MODULE FsProofs ------------------------------
(***************************************************************************)
(* Indexing and loading a skill directory whose files change, proved: no   *)
(* body and no record older than the Add they belong to, and a sound scan  *)
(* of the resources, for any number of hosts and changes, any files and    *)
(* any limit of locations.                                                 *)
(***************************************************************************)
EXTENDS FsProvider, SelectionProofs, FiniteSetTheorems, TLAPS

----------------------------------------------------------------------------
(* The invariant *)

\* What a host that adds, or that loads, keeps of its call
\* (provider.go:184-239, 241-253).
AddFields == {"pc", "what", "name", "version", "todo", "total", "locations"}
LoadFields == {"pc", "what", "version"}

Doing(o) ==
  \/ o = Idle
  \/ /\ DOMAIN o = AddFields /\ o.what = "add"
     /\ o.pc \in {"root", "lstat", "read", "list", "walk"}
  \/ /\ DOMAIN o = LoadFields /\ o.what = "load"
     /\ o.pc \in {"root", "lstat", "read", "loaded"}

\* The disk has a SKILL.md of some change made so far.
DiskOK ==
  /\ edits \in Versions
  /\ DOMAIN disk = {"dir", "md", "files"}
  /\ DOMAIN disk.md = {"kind", "version", "name"}
  /\ disk.md.version \in 0 .. edits
  /\ DOMAIN disk.files = Files

\* What an Add saw first is no later than what there is now.
SeenOK ==
  /\ DOMAIN seen = Hosts
  /\ \A h \in Hosts : /\ DOMAIN seen[h] = {"from", "steady", "ever"}
                      /\ seen[h].from \in 0 .. disk.md.version

\* An entry is of a SKILL.md no older than its Add and has no older body; it
\* is loaded, failed or being loaded (catalog.go:263-271, 429-440).
EntryOK(e) ==
  e # None =>
    /\ DOMAIN e = {"version", "since", "total", "locations", "loader", "body",
                   "failed"}
    /\ e.version \in 0 .. disk.md.version /\ e.since \in 0 .. e.version
    /\ e.body \in 0 .. edits \cup {None} /\ e.failed \in BOOLEAN
    /\ e.body # None => e.body >= e.version
    /\ ~ (e.failed /\ e.body # None)
    /\ e.loader \in Hosts \cup {None}
    /\ e.loader # None => e.body = None /\ ~ e.failed

\* What host h may be doing while the catalog has e: what an Add has read is
\* not older than the Add, and what the entry's loader has read is not older
\* than the entry (provider.go:407, 448-485).
Fits(h, o, e) ==
  /\ Doing(o)
  /\ o # Idle => o.version \in 0 .. edits \cup {None}
  /\ o.pc \in {"list", "walk"} =>
       /\ o.version # None
       /\ seen[h].from <= o.version /\ o.version <= disk.md.version
  /\ (e # None /\ e.loader = h) =>
       /\ o # Idle /\ o.what = "load"
       /\ o.version # None => o.version >= e.version

\* What every step keeps.
Inv ==
  /\ DiskOK /\ SeenOK /\ EntryOK(entry)
  /\ DOMAIN op = Hosts
  /\ \A h \in Hosts : Fits(h, op[h], entry)

\* Calls are told apart by what they keep (provider.go:184-253).
LEMMA DoingFacts ==
  ASSUME NEW o, Doing(o)
  PROVE  /\ o = Idle => o.pc = "idle"
         /\ o # Idle => o.pc # "idle" /\ "pc" \in DOMAIN o /\ "version" \in DOMAIN o
         /\ (o # Idle /\ o.what = "add") => DOMAIN o = AddFields
         /\ (o # Idle /\ o.what = "load") => DOMAIN o = LoadFields
  BY DEF Doing, Idle, AddFields, LoadFields

\* The invariant has what is claimed (provider.go:407, catalog.go:436).
LEMMA InvImplies ==
  ASSUME Inv
  PROVE  TypeOK /\ ServesNothingOlder
<1>1. ASSUME NEW h \in Hosts
      PROVE  /\ seen[h].from \in 0 .. disk.md.version
             /\ op[h] # Idle => op[h].version \in 0 .. edits \cup {None}
             /\ op[h].pc \in {"list", "walk"} =>
                  op[h].what = "add" /\ op[h].version # None
  <2>1. Fits(h, op[h], entry) /\ seen[h].from \in 0 .. disk.md.version
    BY DEF Inv, SeenOK
  <2>2. op[h].pc \in {"list", "walk"} => op[h].what = "add"
    BY <2>1 DEF Fits, Doing, Idle
  <2> QED BY <2>1, <2>2 DEF Fits
<1>2. edits \in Versions /\ disk.md.version \in 0 .. edits /\ DOMAIN disk.files = Files
  BY DEF Inv, DiskOK
<1>3. ASSUME entry # None
      PROVE  /\ entry.version \in 0 .. edits
             /\ entry.body \in 0 .. edits \cup {None}
             /\ ~ (entry.failed /\ entry.body # None)
             /\ entry.loader # None =>
                  /\ op[entry.loader] # Idle
                  /\ op[entry.loader].what = "load"
                  /\ entry.body = None /\ ~ entry.failed
             /\ entry.version >= entry.since
             /\ entry.body # None => entry.body >= entry.version
  <2>1. /\ entry.version \in 0 .. disk.md.version /\ entry.since \in 0 .. entry.version
        /\ entry.body \in 0 .. edits \cup {None}
        /\ entry.body # None => entry.body >= entry.version
        /\ ~ (entry.failed /\ entry.body # None)
        /\ entry.loader \in Hosts \cup {None}
        /\ entry.loader # None => entry.body = None /\ ~ entry.failed
    BY <1>3 DEF Inv, EntryOK
  <2>2. entry.version \in 0 .. edits /\ entry.version >= entry.since
    BY <1>2, <2>1, FsAssumption DEF Versions
  <2>3. ASSUME entry.loader # None
        PROVE  op[entry.loader] # Idle /\ op[entry.loader].what = "load"
    <3>1. Fits(entry.loader, op[entry.loader], entry)
      BY <2>1, <2>3 DEF Inv
    <3> QED BY <1>3, <3>1 DEF Fits
  <2> QED BY <2>1, <2>2, <2>3
<1> QED BY <1>1, <1>2, <1>3 DEF TypeOK, ServesNothingOlder

----------------------------------------------------------------------------
(* Changes of the files *)

\* Whatever somebody makes of the directory, what was read of it before is
\* not newer than what there is then (the file system; provider.go:398-556).
LEMMA EditStep ==
  ASSUME Inv, NEW d, Edit(d),
         DOMAIN d = {"dir", "md", "files"},
         DOMAIN d.md = {"kind", "version", "name"},
         d.md.version \in {disk.md.version, edits + 1},
         DOMAIN d.files = Files
  PROVE  Inv'
<1>1. /\ edits < MaxEdits /\ edits' = edits + 1 /\ disk' = d
      /\ UNCHANGED <<entry, op>>
  BY DEF Edit
<1>2. /\ edits \in Nat /\ MaxEdits \in Nat /\ edits \in 0 .. MaxEdits
      /\ disk.md.version \in 0 .. edits
  BY FsAssumption DEF Inv, DiskOK, Versions
<1>3. /\ d.md.version \in 0 .. edits + 1 /\ disk.md.version <= d.md.version
      /\ 0 .. edits \subseteq 0 .. edits + 1
      /\ 0 .. disk.md.version \subseteq 0 .. d.md.version
  BY <1>2
<1>4. DiskOK'
  BY <1>1, <1>2, <1>3 DEF DiskOK, Versions
<1>5. /\ DOMAIN seen' = Hosts
      /\ \A h \in Hosts : /\ DOMAIN seen'[h] = {"from", "steady", "ever"}
                          /\ seen'[h].from = seen[h].from
                          /\ seen[h].from \in 0 .. disk.md.version
  BY DEF Edit, Inv, SeenOK
<1>6. SeenOK'
  BY <1>1, <1>3, <1>5 DEF SeenOK
<1>7. EntryOK(entry)'
  <2>1. EntryOK(entry)
    BY DEF Inv
  <2> QED BY <1>1, <1>3, <2>1 DEF EntryOK
<1>8. ASSUME NEW h \in Hosts PROVE Fits(h, op[h], entry)'
  <2>1. Fits(h, op[h], entry)
    BY DEF Inv
  <2>2. ASSUME op[h].pc \in {"list", "walk"} PROVE op[h].version <= d.md.version
    <3>1. /\ op[h] # Idle /\ op[h].version # None
          /\ op[h].version <= disk.md.version
      BY <2>1, <2>2 DEF Fits, Idle
    <3>2. op[h].version \in 0 .. edits
      BY <2>1, <3>1 DEF Fits
    <3> QED BY <1>2, <1>3, <3>1, <3>2
  <2>3. op'[h] = op[h] /\ entry' = entry /\ seen'[h].from = seen[h].from
    BY <1>1, <1>5
  <2>4. Doing(op[h])'
    BY <2>1, <2>3 DEF Fits, Doing
  <2> QED BY <1>1, <1>3, <2>1, <2>2, <2>3, <2>4 DEF Fits
<1> QED BY <1>1, <1>4, <1>6, <1>7, <1>8 DEF Inv

\* The changes there are (the file system).
LEMMA ChangeStep ==
  ASSUME Inv, Change
  PROVE  Inv'
<1>1. /\ DOMAIN disk = {"dir", "md", "files"}
      /\ DOMAIN disk.md = {"kind", "version", "name"}
      /\ DOMAIN disk.files = Files
  BY DEF Inv, DiskOK
<1>2. CASE ReplaceSkillFile
  <2>1. PICK kind \in {"file", "link", "dir", "none"}, name \in {Base, Other} :
          Edit([disk EXCEPT !.md = [kind |-> kind, version |-> edits + 1,
                                    name |-> name]])
    BY <1>2 DEF ReplaceSkillFile
  <2> DEFINE d == [disk EXCEPT !.md = [kind |-> kind, version |-> edits + 1,
                                       name |-> name]]
  <2>2. /\ DOMAIN d = {"dir", "md", "files"}
        /\ DOMAIN d.md = {"kind", "version", "name"}
        /\ d.md.version = edits + 1 /\ DOMAIN d.files = Files
    BY <1>1
  <2> HIDE DEF d
  <2> QED BY <2>1, <2>2, EditStep DEF d
<1>3. CASE ReplaceResource
  <2>1. PICK f \in Files, kind \in {"file", "link", "none"} :
          Edit([disk EXCEPT !.files[f] = kind])
    BY <1>3 DEF ReplaceResource
  <2> DEFINE d == [disk EXCEPT !.files[f] = kind]
  <2>2. /\ DOMAIN d = {"dir", "md", "files"} /\ d.md = disk.md
        /\ DOMAIN d.files = Files
    BY <1>1
  <2> HIDE DEF d
  <2> QED BY <1>1, <2>1, <2>2, EditStep DEF d
<1>4. CASE RemoveDirectory
  <2> DEFINE d == [dir |-> FALSE, files |-> Bare.files,
                   md |-> [Bare.md EXCEPT !.version = edits + 1]]
  <2>1. Edit(d)
    BY <1>4 DEF RemoveDirectory
  <2>2. /\ DOMAIN d = {"dir", "md", "files"}
        /\ DOMAIN d.md = {"kind", "version", "name"}
        /\ d.md.version = edits + 1 /\ DOMAIN d.files = Files
    BY DEF Bare
  <2> HIDE DEF d
  <2> QED BY <2>1, <2>2, EditStep
<1>5. CASE MakeDirectory
  <2> DEFINE d == [disk EXCEPT !.dir = TRUE]
  <2>1. Edit(d)
    BY <1>5 DEF MakeDirectory
  <2>2. /\ DOMAIN d = {"dir", "md", "files"} /\ d.md = disk.md /\ d.files = disk.files
    BY <1>1
  <2> HIDE DEF d
  <2> QED BY <1>1, <2>1, <2>2, EditStep
<1> QED BY <1>2, <1>3, <1>4, <1>5 DEF Change

----------------------------------------------------------------------------
(* Steps of the hosts *)

\* A host goes on to o; of the entry it changes at most one that it loads, or
\* that nobody loads (provider.go:184-253, catalog.go:160-191, 263-281).
LEMMA HostStep ==
  ASSUME Inv, NEW h \in Hosts, NEW o, Fits(h, o, entry'), Becomes(h, o),
         UNCHANGED <<disk, edits>>, EntryOK(entry'), SeenOK',
         o.pc \in {"list", "walk"} => seen'[h] = seen[h],
         \A g \in Hosts : g # h => seen'[g] = seen[g],
         entry' \in {entry, None} \/ entry'.loader \in {None, h}
  PROVE  Inv'
<1>1. DOMAIN op = Hosts /\ op' = [op EXCEPT ![h] = o]
  BY DEF Inv, Becomes
<1>2. DOMAIN op' = Hosts /\ op'[h] = o /\ \A g \in Hosts : g # h => op'[g] = op[g]
  BY <1>1
<1>3. DiskOK'
  BY DEF Inv, DiskOK
<1>4. EntryOK(entry)'
  BY DEF EntryOK
<1>5. Fits(h, op[h], entry)'
  <2>1. Doing(op[h])'
    BY <1>2 DEF Fits, Doing
  <2> QED BY <1>2, <2>1 DEF Fits
<1>6. ASSUME NEW g \in Hosts, g # h PROVE Fits(g, op[g], entry)'
  <2>1. Fits(g, op[g], entry)
    BY DEF Inv
  <2>2. op'[g] = op[g] /\ seen'[g] = seen[g]
    BY <1>2, <1>6
  <2>3. Doing(op[g])'
    BY <2>1, <2>2 DEF Fits, Doing
  <2>4. (entry' # None /\ entry'.loader = g) => entry' = entry
    BY <1>6, FsAssumption
  <2> QED BY <2>1, <2>2, <2>3, <2>4 DEF Fits
<1> QED BY <1>2, <1>3, <1>4, <1>5, <1>6 DEF Inv

\* The looks at SKILL.md (provider.go:398-420, 448-485), of Add and of a load.
LEMMA SkillFileSteps ==
  ASSUME Inv, NEW h \in Hosts,
         CanonicalRoot(h) \/ LstatSkillFile(h) \/ ReadSkillFile(h) \/ Fails(h)
  PROVE  Inv'
<1>0. /\ UNCHANGED <<disk, edits, entry, seen>>
      /\ op[h].pc \in {"root", "lstat", "read"}
  BY DEF CanonicalRoot, LstatSkillFile, ReadSkillFile, Fails
<1>1. /\ Fits(h, op[h], entry) /\ EntryOK(entry) /\ SeenOK
      /\ Doing(op[h]) /\ op[h] # Idle /\ op[h].version \in 0 .. edits \cup {None}
  BY <1>0 DEF Inv, Fits, Idle
<1>2. /\ seen[h].from \in 0 .. disk.md.version /\ disk.md.version \in 0 .. edits
      /\ edits \in Nat /\ None \notin 0 .. edits
  BY FsAssumption DEF Inv, SeenOK, DiskOK, Versions
<1>3. SeenOK' /\ EntryOK(entry') /\ entry' \in {entry, None}
  BY <1>0, <1>1 DEF SeenOK, EntryOK
<1>4. ASSUME NEW v \in {"lstat", "read"}, Becomes(h, [op[h] EXCEPT !.pc = v])
      PROVE  Inv'
  <2> DEFINE o == [op[h] EXCEPT !.pc = v]
  <2>1. /\ DOMAIN o = DOMAIN op[h] /\ o.pc = v /\ o.what = op[h].what
        /\ o.version = op[h].version /\ o # Idle
    BY <1>1 DEF Doing, AddFields, LoadFields, Idle
  <2>2. Becomes(h, o)
    BY <1>4
  <2> HIDE DEF o
  <2>3. Doing(o)
    BY <1>1, <2>1 DEF Doing
  <2>4. Fits(h, o, entry')
    BY <1>0, <1>1, <2>1, <2>3 DEF Fits
  <2> QED BY <1>0, <1>3, <2>2, <2>4, HostStep
<1>5. ASSUME ReadSkillFile(h) PROVE Inv'
  <2> DEFINE w == IF op[h].what = "add" THEN "list" ELSE "loaded"
             o == [op[h] EXCEPT !.version = disk.md.version, !.pc = w]
  <2>1. /\ DOMAIN o = DOMAIN op[h] /\ o.pc = w /\ o.what = op[h].what
        /\ o.version = disk.md.version /\ o # Idle
    BY <1>1 DEF Doing, AddFields, LoadFields, Idle
  <2>2. Becomes(h, o)
    BY <1>5 DEF ReadSkillFile
  <2> HIDE DEF o
  <2>3. Doing(o)
    BY <1>1, <2>1 DEF Doing
  <2>4. entry # None => entry.version \in 0 .. disk.md.version
    BY <1>1 DEF EntryOK
  <2>5. Fits(h, o, entry')
    BY <1>0, <1>1, <1>2, <2>1, <2>3, <2>4 DEF Fits
  <2> QED BY <1>0, <1>3, <2>2, <2>5, HostStep
<1>6. ASSUME Fails(h) PROVE Inv'
  <2>1. CASE op[h].what = "add"
    <3>1. Becomes(h, Idle)
      BY <1>6, <2>1 DEF Fails
    <3>2. Fits(h, Idle, entry')
      BY <1>0, <1>1, <2>1 DEF Fits, Doing, Idle
    <3>3. Idle.pc = "idle"
      BY DEF Idle
    <3> QED BY <1>0, <1>3, <3>1, <3>2, <3>3, HostStep
  <2>2. CASE op[h].what # "add"
    <3> DEFINE o == [op[h] EXCEPT !.pc = "loaded"]
    <3>1. /\ DOMAIN o = DOMAIN op[h] /\ o.pc = "loaded" /\ o.what = op[h].what
          /\ o.version = op[h].version /\ o # Idle
      BY <1>1 DEF Doing, AddFields, LoadFields, Idle
    <3>2. Becomes(h, o)
      BY <1>6, <2>2 DEF Fails
    <3> HIDE DEF o
    <3>3. Doing(o)
      BY <1>1, <2>2, <3>1 DEF Doing
    <3>4. Fits(h, o, entry')
      BY <1>0, <1>1, <3>1, <3>3 DEF Fits
    <3> QED BY <1>0, <1>3, <3>1, <3>2, <3>4, HostStep
  <2> QED BY <2>1, <2>2
<1> QED BY <1>4, <1>5, <1>6 DEF CanonicalRoot, LstatSkillFile

\* The walk of the directory (provider.go:487-556) leaves what was read of
\* SKILL.md alone.
LEMMA WalkSteps ==
  ASSUME Inv, NEW h \in Hosts, List(h) \/ Enter(h) \/ Visit(h)
  PROVE  Inv'
<1>0. /\ UNCHANGED <<disk, edits, entry, seen>>
      /\ op[h].pc \in {"list", "walk"}
  BY DEF List, Enter, Visit
<1>1. /\ Fits(h, op[h], entry) /\ EntryOK(entry) /\ SeenOK
      /\ DOMAIN op[h] = AddFields /\ op[h].what = "add"
  BY <1>0 DEF Inv, Fits, Doing, Idle
<1>2. SeenOK' /\ EntryOK(entry') /\ entry' \in {entry, None}
  BY <1>0, <1>1 DEF SeenOK, EntryOK
<1>3. ASSUME NEW o, Becomes(h, o), DOMAIN o = AddFields, o.what = "add",
             o.pc = "walk", o.version = op[h].version
      PROVE  Inv'
  <2>1. Doing(o) /\ o # Idle /\ op[h] # Idle
    BY <1>1, <1>3 DEF Doing, Idle, AddFields
  <2>2. Fits(h, o, entry')
    BY <1>0, <1>1, <1>3, <2>1 DEF Fits
  <2> QED BY <1>0, <1>2, <1>3, <2>2, HostStep
<1>4. ASSUME List(h) PROVE Inv'
  <2> DEFINE o == [op[h] EXCEPT !.pc = "walk", !.todo = Listing(RootEntries)]
  <2>1. DOMAIN o = AddFields /\ o.what = "add" /\ o.pc = "walk" /\ o.version = op[h].version
    BY <1>1 DEF AddFields
  <2>2. Becomes(h, o)
    BY <1>4 DEF List
  <2> HIDE DEF o
  <2> QED BY <1>3, <2>1, <2>2
<1>5. ASSUME Enter(h) PROVE Inv'
  <2> DEFINE o == [op[h] EXCEPT !.todo = Listing(SubEntries) \o Tail(@)]
  <2>1. DOMAIN o = AddFields /\ o.what = "add" /\ o.pc = "walk" /\ o.version = op[h].version
    BY <1>1, <1>5 DEF AddFields, Enter
  <2>2. Becomes(h, o)
    BY <1>5 DEF Enter
  <2> HIDE DEF o
  <2> QED BY <1>3, <2>1, <2>2
<1>6. ASSUME Visit(h) PROVE Inv'
  <2> DEFINE next == [op[h] EXCEPT !.todo = Tail(@)]
             e == Head(op[h].todo)
  <2>1. /\ DOMAIN next = AddFields /\ next.what = "add" /\ next.pc = "walk"
        /\ next.version = op[h].version
    BY <1>1, <1>6 DEF AddFields, Visit
  <2>2. Becomes(h, Count(next, e.file)) \/ Becomes(h, next)
    BY <1>6 DEF Visit, Skip
  <2> HIDE DEF next, e
  <2>3. /\ DOMAIN Count(next, e.file) = AddFields /\ Count(next, e.file).what = "add"
        /\ Count(next, e.file).pc = "walk" /\ Count(next, e.file).version = next.version
    BY <2>1 DEF Count, AddFields
  <2> QED BY <1>3, <2>1, <2>2, <2>3
<1> QED BY <1>4, <1>5, <1>6

\* An Add begins and notes what there is (provider.go:184-204).
LEMMA StartAddStep ==
  ASSUME Inv, NEW h \in Hosts, StartAdd(h)
  PROVE  Inv'
<1>1. PICK name \in {Base, Other} :
        /\ op[h] = Idle
        /\ Becomes(h, [pc |-> "root", what |-> "add", name |-> name,
                       version |-> None, todo |-> <<>>, total |-> 0,
                       locations |-> <<>>])
        /\ seen' = [seen EXCEPT
                      ![h] = [from |-> disk.md.version, steady |-> Regular(disk),
                              ever |-> Regular(disk)]]
        /\ UNCHANGED <<disk, edits, entry>>
  BY DEF StartAdd
<1> DEFINE o == [pc |-> "root", what |-> "add", name |-> name,
                 version |-> None, todo |-> <<>>, total |-> 0,
                 locations |-> <<>>]
           r == [from |-> disk.md.version, steady |-> Regular(disk),
                 ever |-> Regular(disk)]
<1>2. Doing(o) /\ o.version = None /\ o.pc = "root" /\ o # Idle
  BY DEF Doing, AddFields, Idle
<1>3. DOMAIN r = {"from", "steady", "ever"} /\ r.from = disk.md.version
  OBVIOUS
<1>4. Becomes(h, o) /\ seen' = [seen EXCEPT ![h] = r]
  BY <1>1
<1> HIDE DEF o, r
<1>5. Fits(h, op[h], entry) /\ EntryOK(entry) /\ SeenOK
  BY DEF Inv
<1>6. /\ DOMAIN seen' = Hosts /\ seen'[h] = r
      /\ \A g \in Hosts : g # h => seen'[g] = seen[g]
  BY <1>4, <1>5 DEF SeenOK
<1>7. disk.md.version \in Nat /\ disk.md.version \in 0 .. disk.md.version
  BY DEF Inv, DiskOK, Versions
<1>8. SeenOK'
  <2>1. ASSUME NEW g \in Hosts
        PROVE  /\ DOMAIN seen'[g] = {"from", "steady", "ever"}
               /\ seen'[g].from \in 0 .. disk.md.version
    <3>1. CASE g = h
      BY <1>3, <1>6, <1>7, <3>1
    <3>2. CASE g # h
      BY <1>5, <1>6, <3>2 DEF SeenOK
    <3> QED BY <3>1, <3>2
  <2> QED BY <1>1, <1>6, <2>1 DEF SeenOK
<1>9. entry' = entry /\ EntryOK(entry') /\ entry' \in {entry, None}
  BY <1>1, <1>5
<1>10. ~ (entry # None /\ entry.loader = h)
  BY <1>1, <1>5 DEF Fits
<1>11. Fits(h, o, entry')
  BY <1>2, <1>9, <1>10 DEF Fits
<1> QED BY <1>1, <1>2, <1>4, <1>6, <1>8, <1>9, <1>11, HostStep

\* A step that changes the entry, or not, and after which the host is idle
\* (provider.go:210-239, catalog.go:269-281).
LEMMA EndStep ==
  ASSUME Inv, NEW h \in Hosts, Becomes(h, Idle), UNCHANGED <<disk, edits, seen>>,
         EntryOK(entry'), entry' # None => entry'.loader # h,
         entry' \in {entry, None} \/ entry'.loader = None
  PROVE  Inv'
<1>1. SeenOK'
  BY DEF Inv, SeenOK
<1>2. Idle.pc = "idle" /\ Doing(Idle)
  BY DEF Doing, Idle
<1>3. Fits(h, Idle, entry')
  BY <1>2 DEF Fits
<1> QED BY <1>1, <1>2, <1>3, HostStep

\* The record becomes an entry, unless there is one (provider.go:210-239).
LEMMA FinishAddStep ==
  ASSUME Inv, NEW h \in Hosts, FinishAdd(h)
  PROVE  Inv'
<1>1. /\ op[h].pc = "walk" /\ Becomes(h, Idle) /\ UNCHANGED <<disk, edits, seen>>
  BY DEF FinishAdd, Scanned
<1>2. Fits(h, op[h], entry) /\ EntryOK(entry)
  BY DEF Inv
<1>3. entry # None => entry.loader # h
  BY <1>1, <1>2 DEF Fits, Doing
<1> DEFINE e == [version |-> op[h].version, since |-> seen[h].from,
                 total |-> op[h].total, locations |-> op[h].locations,
                 loader |-> None, body |-> None, failed |-> FALSE]
<1>4. entry' = entry \/ entry' = e
  BY DEF FinishAdd
<1>5. /\ DOMAIN e = {"version", "since", "total", "locations", "loader", "body",
                     "failed"}
      /\ e.version = op[h].version /\ e.since = seen[h].from
      /\ e.loader = None /\ e.body = None /\ e.failed = FALSE
  OBVIOUS
<1> HIDE DEF e
<1>6. /\ op[h].version \in 0 .. edits /\ op[h].version <= disk.md.version
      /\ seen[h].from <= op[h].version
      /\ seen[h].from \in 0 .. disk.md.version
      /\ disk.md.version \in 0 .. edits /\ edits \in Nat
  BY <1>1, <1>2 DEF Fits, Idle, Inv, SeenOK, DiskOK, Versions
<1>7. e.version \in 0 .. disk.md.version /\ e.since \in 0 .. e.version
  BY <1>5, <1>6
<1>8. EntryOK(e)
  BY <1>5, <1>7 DEF EntryOK
<1>9. h # None
  BY FsAssumption
<1>10. CASE entry' = entry
  BY <1>1, <1>2, <1>3, <1>10, EndStep
<1>11. CASE entry' = e
  BY <1>1, <1>5, <1>8, <1>9, <1>11, EndStep
<1> QED BY <1>4, <1>10, <1>11

\* EnsureBody begins a load (catalog.go:251-267).
LEMMA StartLoadStep ==
  ASSUME Inv, NEW h \in Hosts, StartLoad(h)
  PROVE  Inv'
<1>1. /\ op[h] = Idle /\ entry # None
      /\ entry.body = None /\ ~ entry.failed /\ entry.loader = None
      /\ entry' = [entry EXCEPT !.loader = h]
      /\ Becomes(h, [pc |-> "root", what |-> "load", version |-> None])
      /\ UNCHANGED <<disk, edits, seen>>
  BY DEF StartLoad
<1> DEFINE o == [pc |-> "root", what |-> "load", version |-> None]
<1>2. Doing(o) /\ o.version = None /\ o.pc = "root" /\ o.what = "load" /\ o # Idle
  BY DEF Doing, LoadFields, Idle
<1>3. Becomes(h, o)
  BY <1>1
<1> HIDE DEF o
<1>4. EntryOK(entry) /\ SeenOK
  BY DEF Inv
<1>5. /\ DOMAIN entry' = DOMAIN entry /\ entry'.loader = h
      /\ entry'.version = entry.version /\ entry'.since = entry.since
      /\ entry'.body = entry.body /\ entry'.failed = entry.failed
  BY <1>1, <1>4 DEF EntryOK
<1>6. EntryOK(entry')
  BY <1>1, <1>4, <1>5 DEF EntryOK
<1>7. SeenOK'
  BY <1>1, <1>4 DEF SeenOK
<1>8. Fits(h, o, entry')
  BY <1>2 DEF Fits
<1> QED BY <1>1, <1>2, <1>3, <1>5, <1>6, <1>7, <1>8, HostStep

\* finishBodyLoad caches what was read for the entry the load was begun for,
\* and for no other (catalog.go:416-440).
LEMMA FinishLoadStep ==
  ASSUME Inv, NEW h \in Hosts, FinishLoad(h)
  PROVE  Inv'
<1>1. /\ op[h].pc = "loaded" /\ Becomes(h, Idle) /\ UNCHANGED <<disk, edits, seen>>
      /\ entry' = IF OwnEntry(h) THEN Cached(entry, op[h].version) ELSE entry
  BY DEF FinishLoad
<1>2. Fits(h, op[h], entry) /\ EntryOK(entry)
  BY DEF Inv
<1>3. CASE ~ OwnEntry(h)
  <2>1. entry' = entry /\ (entry # None => entry.loader # h)
    BY <1>1, <1>3 DEF OwnEntry
  <2> QED BY <1>1, <1>2, <2>1, EndStep
<1>4. CASE OwnEntry(h)
  <2> DEFINE e == Cached(entry, op[h].version)
             v == op[h].version
  <2>1. /\ entry # None /\ entry.loader = h
        /\ DOMAIN entry = {"version", "since", "total", "locations", "loader",
                            "body", "failed"}
    BY <1>2, <1>4 DEF OwnEntry, EntryOK
  <2>2. /\ DOMAIN e = DOMAIN entry /\ e.loader = None /\ e.body = v
        /\ e.failed = (v = None)
        /\ e.version = entry.version /\ e.since = entry.since
    BY <2>1 DEF Cached
  <2>3. v \in 0 .. edits \cup {None} /\ (v # None => v >= entry.version)
    BY <1>2, <2>1 DEF Fits
  <2>4. entry' = e
    BY <1>1, <1>4
  <2> HIDE DEF e, v
  <2>5. EntryOK(e)
    BY <1>2, <2>1, <2>2, <2>3 DEF EntryOK
  <2>6. h # None
    BY FsAssumption
  <2> QED BY <1>1, <2>2, <2>4, <2>5, <2>6, EndStep
<1> QED BY <1>3, <1>4

\* Catalog.Remove (catalog.go:160-191).
LEMMA RemoveStep ==
  ASSUME Inv, NEW h \in Hosts, RemoveSkill(h)
  PROVE  Inv'
<1>1. op[h] = Idle /\ entry' = None /\ UNCHANGED <<disk, edits, op, seen>>
  BY DEF RemoveSkill
<1>2. DiskOK' /\ SeenOK' /\ EntryOK(entry)' /\ DOMAIN op' = Hosts
  BY <1>1 DEF Inv, DiskOK, SeenOK, EntryOK
<1>3. ASSUME NEW g \in Hosts PROVE Fits(g, op[g], entry)'
  <2>1. Fits(g, op[g], entry)
    BY DEF Inv
  <2>2. Doing(op[g])'
    BY <1>1, <2>1 DEF Fits, Doing
  <2> QED BY <1>1, <2>1, <2>2 DEF Fits
<1> QED BY <1>2, <1>3 DEF Inv

----------------------------------------------------------------------------
(* Theorems *)

\* Every behaviour of provider and catalog (provider.go:184-253,
\* catalog.go:160-281) keeps the invariant.
LEMMA InvAlways == Spec => []Inv
<1>1. Init => Inv
  <2> SUFFICES ASSUME Init PROVE Inv
    OBVIOUS
  <2>1. /\ disk = [dir |-> TRUE,
                   md |-> [kind |-> "file", version |-> 0, name |-> Base],
                   files |-> [f \in Files |-> "file"]]
        /\ edits = 0 /\ entry = None
        /\ op = [h \in Hosts |-> Idle]
        /\ seen = [h \in Hosts |-> [from |-> 0, steady |-> Files, ever |-> Files]]
    BY DEF Init
  <2>2. DiskOK
    BY <2>1, FsAssumption DEF DiskOK, Versions
  <2>3. SeenOK
    BY <2>1 DEF SeenOK
  <2>4. EntryOK(entry)
    BY <2>1 DEF EntryOK
  <2>5. ASSUME NEW h \in Hosts PROVE Fits(h, op[h], entry)
    <3>1. op[h] = Idle /\ Idle.pc = "idle"
      BY <2>1 DEF Idle
    <3> QED BY <2>1, <3>1 DEF Fits, Doing
  <2> QED BY <2>1, <2>2, <2>3, <2>4, <2>5 DEF Inv
<1>2. Inv /\ [Next]_vars => Inv'
  <2> SUFFICES ASSUME Inv, [Next]_vars PROVE Inv'
    OBVIOUS
  <2>1. CASE Change
    BY <2>1, ChangeStep
  <2>2. ASSUME NEW h \in Hosts, Step(h) PROVE Inv'
    BY <2>2, SkillFileSteps, WalkSteps, StartAddStep, FinishAddStep, RemoveStep,
       StartLoadStep, FinishLoadStep DEF Step, Index
  <2>3. CASE UNCHANGED vars
    <3>1. DiskOK' /\ SeenOK' /\ EntryOK(entry)' /\ DOMAIN op' = Hosts
      BY <2>3 DEF vars, Inv, DiskOK, SeenOK, EntryOK
    <3>2. ASSUME NEW g \in Hosts PROVE Fits(g, op[g], entry)'
      <4>1. Fits(g, op[g], entry)
        BY DEF Inv
      <4>2. Doing(op[g])'
        BY <2>3, <4>1 DEF vars, Fits, Doing
      <4> QED BY <2>3, <4>1, <4>2 DEF vars, Fits
    <3> QED BY <3>1, <3>2 DEF Inv
  <2> QED BY <2>1, <2>2, <2>3 DEF Next
<1> QED BY <1>1, <1>2, PTL DEF Spec

\* The variables keep to their types, an entry is never loaded and failed,
\* and its loader is a host that is loading (provider.go:407,
\* catalog.go:263-271).
THEOREM FsTypes == Spec => []TypeOK
<1>1. Inv => TypeOK
  BY InvImplies
<1> QED BY <1>1, InvAlways, PTL

\* No body is served that is older than its record or than the Add the record
\* comes from, though a load of a removed registration finishes late
\* (provider.go:407, 448-485, catalog.go:416-440).
THEOREM NothingOlderServed == Spec => []ServesNothingOlder
<1>1. Inv => ServesNothingOlder
  BY InvImplies
<1> QED BY <1>1, InvAlways, PTL

\* What finishBodyLoad has cached, a body or an error, stays until the skill
\* is removed (catalog.go:429-440).
THEOREM CacheStays == Spec => CachedForGood
<1>1. ASSUME Inv, [Next]_vars, entry # None, entry.body # None \/ entry.failed
      PROVE  entry' \in {None, entry}
  <2>1. entry.loader = None
    BY <1>1 DEF Inv, EntryOK
  <2>2. CASE Change
    BY <2>2 DEF Change, ReplaceSkillFile, ReplaceResource, RemoveDirectory,
                MakeDirectory, Edit
  <2>3. ASSUME NEW h \in Hosts, Step(h) PROVE entry' \in {None, entry}
    <3>1. h # None
      BY FsAssumption
    <3>2. CASE \/ CanonicalRoot(h) \/ LstatSkillFile(h) \/ ReadSkillFile(h)
               \/ Fails(h) \/ StartAdd(h) \/ List(h) \/ Enter(h) \/ Visit(h)
      BY <3>2 DEF CanonicalRoot, LstatSkillFile, ReadSkillFile, Fails, StartAdd,
                  List, Enter, Visit
    <3>3. CASE FinishAdd(h)
      BY <1>1, <3>3 DEF FinishAdd
    <3>4. CASE RemoveSkill(h)
      BY <3>4 DEF RemoveSkill
    <3>5. CASE StartLoad(h)
      BY <1>1, <3>5 DEF StartLoad
    <3>6. CASE FinishLoad(h)
      BY <2>1, <3>1, <3>6 DEF FinishLoad, OwnEntry
    <3> QED BY <2>3, <3>2, <3>3, <3>4, <3>5, <3>6 DEF Step, Index
  <2>4. CASE UNCHANGED vars
    BY <2>4 DEF vars
  <2> QED BY <1>1, <2>2, <2>3, <2>4 DEF Next
<1>2. Inv /\ [Next]_vars =>
        [entry # None /\ (entry.body # None \/ entry.failed) =>
           entry' \in {None, entry}]_vars
  BY <1>1
<1> QED BY <1>2, InvAlways, PTL DEF Spec, CachedForGood

----------------------------------------------------------------------------
(* The scan of the resources *)

\* What indexSkillResources has counted, C, and listed of it: all, or the
\* first ones, as many as may be (provider.go:541-544).
Counted(o, C) ==
  /\ o.total = Cardinality(C)
  /\ o.locations \in Seq(C)
  /\ Len(o.locations) <= MaxLocations
  /\ o.total >= Len(o.locations)
  /\ Len(o.locations) < MaxLocations => o.total = Len(o.locations)
  /\ \A i, j \in DOMAIN o.locations :
       i < j => Before(o.locations[i], o.locations[j])
  /\ \A f \in C \ Range(o.locations) :
       /\ Len(o.locations) = MaxLocations
       /\ \A g \in Range(o.locations) : Before(g, f)

Todo == [file : Files \cup {Sub}, kind : {"file", "link", "dir"}]

\* What WalkDir has still to visit, in its order, comes after what was
\* counted, and only Sub is a directory.
Pending(todo, C) ==
  /\ todo \in Seq(Todo)
  /\ \A i \in DOMAIN todo : /\ todo[i].kind = "dir" <=> todo[i].file = Sub
                            /\ \A c \in C : Before(c, todo[i].file)
  /\ \A i, j \in DOMAIN todo : i < j => Before(todo[i].file, todo[j].file)

\* A file is still to be visited if it was listed as one, or if its directory
\* is to be read.
Awaits(todo, f) ==
  \E i \in DOMAIN todo : \/ todo[i] = [file |-> f, kind |-> "file"]
                         \/ f \in Range(SubEntries) /\ todo[i].file = Sub

\* A scan that counted C, of files that there were, and has still all that
\* there are all the time and that it did not count.
Walked(o, s, C) ==
  /\ C \subseteq s.ever
  /\ Counted(o, C)
  /\ Pending(o.todo, C)
  /\ \A f \in s.steady : f \in C \/ Awaits(o.todo, f)

\* An Add that has not read the directory yet has counted nothing.
Scan(o, s) ==
  /\ o.pc \in {"root", "lstat", "read", "list"} /\ o.what = "add" =>
       o.total = 0 /\ o.locations = <<>>
  /\ o.pc = "walk" => \E C \in SUBSET Files : Walked(o, s, C)

\* What was there all the time is there now, and what is there now was there
\* some time.
FilesOK ==
  /\ disk.files \in [Files -> {"file", "link", "none"}]
  /\ \A h \in Hosts : /\ seen[h].steady \subseteq Regular(disk)
                      /\ Regular(disk) \subseteq seen[h].ever
                      /\ seen[h].ever \subseteq Files

ScanInv == FilesOK /\ \A h \in Hosts : Scan(op[h], seen[h])

----------------------------------------------------------------------------
(* The order of the walk *)

\* Names that differ: what is in front of something in a listing is something
\* else, and the order is transitive (WalkDir reads names in lexical order,
\* provider.go:501).
LEMMA AheadFacts ==
  ASSUME NEW X, NEW s \in Seq(X), IsInjective(s)
  PROVE  /\ \A a, b : Ahead(s, a, b) => a \in Range(s) /\ b \in Range(s)
         /\ \A a : ~ Ahead(s, a, a)
         /\ \A a, b, c : Ahead(s, a, b) /\ Ahead(s, b, c) => Ahead(s, a, c)
<1>1. \A i \in DOMAIN s : i \in Nat /\ s[i] \in Range(s)
  BY DEF Range
<1>2. \A i, j \in DOMAIN s : s[i] = s[j] => i = j
  BY DEF IsInjective
<1>3. \A a, b : Ahead(s, a, b) => a \in Range(s) /\ b \in Range(s)
  BY <1>1 DEF Ahead
<1>4. ASSUME NEW a, Ahead(s, a, a) PROVE FALSE
  BY <1>1, <1>2, <1>4 DEF Ahead
<1>5. ASSUME NEW a, NEW b, NEW c, Ahead(s, a, b), Ahead(s, b, c)
      PROVE  Ahead(s, a, c)
  <2>1. PICK i, j \in DOMAIN s : i < j /\ s[i] = a /\ s[j] = b
    BY <1>5 DEF Ahead
  <2>2. PICK k, l \in DOMAIN s : k < l /\ s[k] = b /\ s[l] = c
    BY <1>5 DEF Ahead
  <2>3. j = k
    BY <1>2, <2>1, <2>2
  <2>4. i < l
    BY <1>1, <2>1, <2>2, <2>3
  <2> QED BY <2>1, <2>2, <2>4 DEF Ahead
<1> QED BY <1>3, <1>4, <1>5

\* Of two names in a listing one is in front.
LEMMA AheadTotal ==
  ASSUME NEW X, NEW s \in Seq(X), NEW a \in Range(s), NEW b \in Range(s), a # b
  PROVE  Ahead(s, a, b) \/ Ahead(s, b, a)
<1>1. PICK i \in DOMAIN s : s[i] = a
  BY DEF Range
<1>2. PICK j \in DOMAIN s : s[j] = b
  BY DEF Range
<1>3. i \in Nat /\ j \in Nat /\ i # j
  BY <1>1, <1>2
<1>4. i < j \/ j < i
  BY <1>3
<1> QED BY <1>1, <1>2, <1>4 DEF Ahead

\* Only one of the names in the directory leads to each file.
LEMMA RootOfFacts ==
  /\ Sub \notin Range(SubEntries)
  /\ \A f \in Range(RootEntries) : RootOf(f) = f
  /\ \A f \in Range(SubEntries) : RootOf(f) = Sub /\ Sub \in Range(RootEntries)
<1>1. \A f \in Range(SubEntries) : SubEntries # <<>>
  BY DEF Range
<1> QED BY <1>1, NamesAssumption DEF RootOf

\* The walk comes to a directory's files when it comes to the directory
\* (WalkDir is depth-first, provider.go:501).
LEMMA SubBefore ==
  ASSUME NEW f \in Range(SubEntries), NEW g
  PROVE  /\ Before(Sub, g) => Before(f, g)
         /\ Before(g, Sub) => Before(g, f)
<1>1. Sub \notin Range(SubEntries) /\ RootOf(f) = Sub /\ RootOf(Sub) = Sub
  BY RootOfFacts
<1>2. ~ Ahead(SubEntries, Sub, g) /\ ~ Ahead(SubEntries, g, Sub)
  BY <1>1, AheadFacts, NamesAssumption
<1> QED BY <1>1, <1>2 DEF Before

\* Before orders the files: it is irreflexive, transitive and total, so the
\* locations, which are in its order (provider.go:541-544), name none twice.
THEOREM WalkIsOrdered ==
  /\ \A f : ~ Before(f, f)
  /\ \A f, g, k \in Files : Before(f, g) /\ Before(g, k) => Before(f, k)
  /\ \A f, g \in Files : f # g => Before(f, g) \/ Before(g, f)
<1>1. /\ \A a, b : Ahead(RootEntries, a, b) =>
                     a \in Range(RootEntries) /\ b \in Range(RootEntries)
      /\ \A a : ~ Ahead(RootEntries, a, a)
      /\ \A a, b, c : Ahead(RootEntries, a, b) /\ Ahead(RootEntries, b, c)
                        => Ahead(RootEntries, a, c)
  BY AheadFacts, NamesAssumption
<1>2. /\ \A a, b : Ahead(SubEntries, a, b) =>
                     a \in Range(SubEntries) /\ b \in Range(SubEntries)
      /\ \A a : ~ Ahead(SubEntries, a, a)
      /\ \A a, b, c : Ahead(SubEntries, a, b) /\ Ahead(SubEntries, b, c)
                        => Ahead(SubEntries, a, c)
  BY AheadFacts, NamesAssumption
<1>3. \A f, g : Ahead(SubEntries, f, g) => RootOf(f) = RootOf(g)
  BY <1>2, RootOfFacts
<1>4. ASSUME NEW f, Before(f, f) PROVE FALSE
  BY <1>1, <1>2, <1>4 DEF Before
<1>5. ASSUME NEW f \in Files, NEW g \in Files, NEW k \in Files,
             Before(f, g), Before(g, k)
      PROVE  Before(f, k)
  <2>1. CASE Ahead(SubEntries, f, g) /\ Ahead(SubEntries, g, k)
    BY <1>2, <2>1 DEF Before
  <2>2. CASE Ahead(SubEntries, f, g) /\ Ahead(RootEntries, RootOf(g), RootOf(k))
    BY <1>3, <2>2 DEF Before
  <2>3. CASE Ahead(RootEntries, RootOf(f), RootOf(g)) /\ Ahead(SubEntries, g, k)
    BY <1>3, <2>3 DEF Before
  <2>4. CASE /\ Ahead(RootEntries, RootOf(f), RootOf(g))
             /\ Ahead(RootEntries, RootOf(g), RootOf(k))
    BY <1>1, <2>4 DEF Before
  <2> QED BY <1>5, <2>1, <2>2, <2>3, <2>4 DEF Before
<1>6. ASSUME NEW f \in Files, NEW g \in Files, f # g
      PROVE  Before(f, g) \/ Before(g, f)
  <2>1. \A k \in Files : RootOf(k) \in Range(RootEntries)
    BY RootOfFacts DEF Files
  <2>2. CASE RootOf(f) # RootOf(g)
    BY <2>1, <2>2, AheadTotal, NamesAssumption DEF Before
  <2>3. CASE f \in Range(SubEntries) /\ g \in Range(SubEntries)
    BY <1>6, <2>3, AheadTotal, NamesAssumption DEF Before
  <2>4. CASE RootOf(f) = RootOf(g) /\ ~ (f \in Range(SubEntries) /\ g \in Range(SubEntries))
    BY <1>6, <2>4, RootOfFacts DEF Files
  <2> QED BY <2>2, <2>3, <2>4
<1> QED BY <1>4, <1>5, <1>6

\* There are finitely many files to count.
LEMMA FilesFinite == IsFiniteSet(Files)
<1>1. ASSUME NEW X, NEW s \in Seq(X) PROVE IsFiniteSet(Range(s))
  <2>1. DOMAIN s = 1 .. Len(s) /\ Len(s) \in Nat
    OBVIOUS
  <2>2. IsFiniteSet(1 .. Len(s))
    BY <2>1, FS_Interval
  <2>3. s \in Surjection(1 .. Len(s), Range(s))
    BY <2>1 DEF Surjection, Range
  <2> QED BY <2>2, <2>3, FS_Surjection
<1>2. IsFiniteSet(Range(RootEntries) \cup Range(SubEntries))
  BY <1>1, NamesAssumption, FS_Union
<1> QED BY <1>2, FS_Subset DEF Files

\* A reading of a directory: the names that there are, in order, each with
\* its kind (provider.go:501-533).
LEMMA ListingFacts ==
  ASSUME FilesOK, NEW names \in {RootEntries, SubEntries}
  PROVE  LET t == Listing(names)
         IN  /\ t \in Seq(Todo)
             /\ \A i \in DOMAIN t : /\ t[i].file \in Range(names)
                                    /\ t[i].kind = "dir" <=> t[i].file = Sub
             /\ \A i, j \in DOMAIN t : i < j => Before(t[i].file, t[j].file)
             /\ \A n \in Range(names) : Kind(n) # "none" =>
                  \E i \in DOMAIN t : t[i] = [file |-> n, kind |-> Kind(n)]
<1> DEFINE read == [i \in DOMAIN names |->
                      [file |-> names[i], kind |-> Kind(names[i])]]
           there == {i \in DOMAIN names : Kind(names[i]) # "none"}
           All == [file : Files \cup {Sub}, kind : {"file", "link", "none", "dir"}]
           t == Selection(read, there)
<1>0. Listing(names) = t
  BY DEF Listing
<1>1. /\ names \in Seq(Range(names)) /\ IsInjective(names)
      /\ Range(names) \subseteq Files \cup {Sub}
      /\ Sub \notin Files
  BY NamesAssumption, RootOfFacts DEF Files
<1>2. \A n \in Range(names) : Kind(n) \in {"file", "link", "none", "dir"}
  BY <1>1 DEF Kind, FilesOK
<1>3. \A n \in Range(names) : Kind(n) # "none" => (Kind(n) = "dir" <=> n = Sub)
  BY <1>1 DEF Kind, FilesOK
<1>4. /\ DOMAIN names = 1 .. Len(names) /\ Len(names) \in Nat
      /\ \A i \in DOMAIN names : names[i] \in Range(names)
  BY <1>1 DEF Range
<1>5. /\ read \in Seq(All) /\ Len(read) = Len(names) /\ DOMAIN read = DOMAIN names
      /\ \A i \in DOMAIN names :
           /\ read[i] = [file |-> names[i], kind |-> Kind(names[i])]
           /\ read[i].file = names[i] /\ read[i].kind = Kind(names[i])
  <2>1. \A i \in 1 .. Len(names) : [file |-> names[i], kind |-> Kind(names[i])] \in All
    BY <1>1, <1>2, <1>4
  <2> QED BY <1>4, <2>1
<1> HIDE DEF read, All
<1>6. PICK e : Picks(e, t, read, there, Len(read))
  BY <1>5, SelectionPicks
<1>7. t \in Seq(All)
  BY <1>5, SelectionFacts
<1> HIDE DEF t, there
<1>8. /\ DOMAIN t = 1 .. Len(t)
      /\ \A k \in DOMAIN t : e[k] \in there /\ t[k] = read[e[k]]
      /\ \A j, k \in DOMAIN t : j < k => e[j] < e[k]
      /\ \A i \in there : \E k \in DOMAIN t : e[k] = i
  BY <1>4, <1>5, <1>6, <1>7 DEF Picks, there
<1>9. \A i \in there : /\ i \in DOMAIN names /\ Kind(names[i]) # "none"
                       /\ names[i] \in Range(names)
  BY <1>4 DEF there
<1>10. \A k \in DOMAIN t : /\ t[k].file = names[e[k]] /\ t[k].kind = Kind(names[e[k]])
                           /\ t[k].kind # "none" /\ t[k].file \in Range(names)
  BY <1>5, <1>8, <1>9
<1>11. \A k \in DOMAIN t : t[k].kind = "dir" <=> t[k].file = Sub
  BY <1>3, <1>8, <1>9, <1>10
<1>12. t \in Seq(Todo)
  <2>1. ASSUME NEW k \in 1 .. Len(t) PROVE t[k] \in Todo
    <3>1. t[k] \in All /\ t[k].kind # "none"
      BY <1>7, <1>8, <1>10
    <3> QED BY <3>1 DEF All, Todo
  <2> QED BY <1>7, <2>1
<1>13. \A i, j \in DOMAIN t : i < j => Before(t[i].file, t[j].file)
  <2>1. SUFFICES ASSUME NEW i \in DOMAIN t, NEW j \in DOMAIN t, i < j
                 PROVE  Before(t[i].file, t[j].file)
    OBVIOUS
  <2>2. Ahead(names, t[i].file, t[j].file)
    BY <1>8, <1>9, <1>10, <2>1 DEF Ahead
  <2>3. t[i].file \in Range(names) /\ t[j].file \in Range(names)
    BY <1>10
  <2> QED BY <2>2, <2>3, RootOfFacts DEF Before
<1>14. ASSUME NEW n \in Range(names), Kind(n) # "none"
       PROVE  \E k \in DOMAIN t : t[k] = [file |-> n, kind |-> Kind(n)]
  <2>1. PICK i \in DOMAIN names : names[i] = n
    BY DEF Range
  <2>2. i \in there
    BY <1>14, <2>1 DEF there
  <2>3. PICK k \in DOMAIN t : e[k] = i
    BY <1>8, <2>2
  <2> QED BY <1>5, <1>8, <2>1, <2>3
<1> QED BY <1>0, <1>10, <1>11, <1>12, <1>13, <1>14

\* One name less to visit (provider.go:501-506): what follows comes after it.
LEMMA TailPending ==
  ASSUME NEW C, NEW todo, Pending(todo, C), todo # <<>>
  PROVE  /\ todo[1] \in Todo /\ Head(todo) = todo[1]
         /\ \A c \in C : Before(c, todo[1].file)
         /\ todo[1].kind = "dir" <=> todo[1].file = Sub
         /\ Tail(todo) \in Seq(Todo) /\ Len(Tail(todo)) + 1 = Len(todo)
         /\ \A i \in DOMAIN Tail(todo) : /\ Tail(todo)[i] = todo[i + 1]
                                         /\ Before(todo[1].file, Tail(todo)[i].file)
         /\ Pending(Tail(todo), C) /\ Pending(Tail(todo), C \cup {todo[1].file})
         /\ \A f : Awaits(todo, f) =>
              \/ Awaits(Tail(todo), f)
              \/ todo[1] = [file |-> f, kind |-> "file"]
              \/ f \in Range(SubEntries) /\ todo[1].file = Sub
<1> DEFINE t == Tail(todo)
<1>1. /\ todo \in Seq(Todo) /\ DOMAIN todo = 1 .. Len(todo) /\ Len(todo) \in Nat
      /\ 1 \in DOMAIN todo /\ todo[1] \in Todo /\ Head(todo) = todo[1]
  BY DEF Pending
<1>2. /\ t \in Seq(Todo) /\ Len(t) = Len(todo) - 1 /\ DOMAIN t = 1 .. Len(t)
      /\ \A i \in DOMAIN t : t[i] = todo[i + 1] /\ i + 1 \in DOMAIN todo /\ 1 < i + 1
  BY <1>1
<1> HIDE DEF t
<1>3. \A i \in DOMAIN t : Before(todo[1].file, t[i].file)
  BY <1>1, <1>2 DEF Pending
<1>4. \A i, j \in DOMAIN t : i < j => Before(t[i].file, t[j].file)
  <2>1. SUFFICES ASSUME NEW i \in DOMAIN t, NEW j \in DOMAIN t, i < j
                 PROVE  Before(todo[i + 1].file, todo[j + 1].file)
    BY <1>2
  <2>2. i + 1 < j + 1
    BY <1>2, <2>1
  <2> QED BY <1>2, <2>2 DEF Pending
<1>5. Pending(t, C) /\ Pending(t, C \cup {todo[1].file})
  BY <1>2, <1>3, <1>4 DEF Pending
<1>6. ASSUME NEW f, Awaits(todo, f), ~ Awaits(t, f)
      PROVE  \/ todo[1] = [file |-> f, kind |-> "file"]
             \/ f \in Range(SubEntries) /\ todo[1].file = Sub
  <2>1. PICK i \in DOMAIN todo : \/ todo[i] = [file |-> f, kind |-> "file"]
                                 \/ f \in Range(SubEntries) /\ todo[i].file = Sub
    BY <1>6 DEF Awaits
  <2>2. CASE i = 1
    BY <2>1, <2>2
  <2>3. CASE i # 1
    <3>1. i - 1 \in DOMAIN t /\ (i - 1) + 1 = i
      BY <1>1, <1>2, <2>3
    <3>2. t[i - 1] = todo[i]
      BY <1>2, <3>1
    <3> QED BY <1>6, <2>1, <3>1, <3>2 DEF Awaits
  <2> QED BY <2>2, <2>3
<1>7. \A c \in C : Before(c, todo[1].file)
  BY <1>1 DEF Pending
<1>8. todo[1].kind = "dir" <=> todo[1].file = Sub
  BY <1>1 DEF Pending
<1> QED BY <1>1, <1>2, <1>3, <1>5, <1>6, <1>7, <1>8 DEF t

\* Counting one file more, which comes after all that were counted, lists it
\* as long as there is room (provider.go:541-544).
LEMMA CountOne ==
  ASSUME NEW C \in SUBSET Files, NEW f \in Files, \A c \in C : Before(c, f),
         NEW o, DOMAIN o = AddFields, Counted(o, C)
  PROVE  Counted(Count(o, f), C \cup {f})
<1> DEFINE D == C \cup {f}
           s == o.locations
           q == Count(o, f)
           u == Append(s, f)
<1>1. f \notin C
  BY WalkIsOrdered
<1>2. /\ IsFiniteSet(C) /\ Cardinality(C) \in Nat
      /\ Cardinality(D) = Cardinality(C) + 1
  BY <1>1, FilesFinite, FS_Subset, FS_CardinalityType, FS_AddElement
<1>3. /\ q.total = o.total + 1
      /\ q.locations = IF Len(s) < MaxLocations THEN u ELSE s
  BY DEF Count, AddFields
<1>4. /\ s \in Seq(C) /\ s \in Seq(D) /\ Len(s) \in Nat /\ DOMAIN s = 1 .. Len(s)
      /\ \A i \in DOMAIN s : s[i] \in C /\ s[i] \in Range(s)
      /\ Range(s) \subseteq C
  BY DEF Counted, Range
<1>5. /\ o.total = Cardinality(C) /\ Len(s) <= MaxLocations /\ o.total >= Len(s)
      /\ Len(s) < MaxLocations => o.total = Len(s)
      /\ MaxLocations \in Nat
  BY NamesAssumption DEF Counted
<1>6. q.total = Cardinality(D)
  BY <1>2, <1>3, <1>5
<1>7. CASE Len(s) < MaxLocations
  <2>1. /\ u \in Seq(D) /\ Len(u) = Len(s) + 1 /\ DOMAIN u = 1 .. Len(s) + 1
        /\ u[Len(s) + 1] = f /\ \A i \in DOMAIN s : u[i] = s[i]
    BY <1>4
  <2>2. q.locations = u
    BY <1>3, <1>7
  <2> HIDE DEF u, q, D, s
  <2>3. Len(u) <= MaxLocations /\ q.total = Len(u)
    BY <1>2, <1>4, <1>5, <1>6, <1>7, <2>1
  <2>4. ASSUME NEW i \in DOMAIN u, NEW j \in DOMAIN u, i < j
        PROVE  Before(u[i], u[j])
    <3>1. i \in DOMAIN s
      BY <1>4, <2>1, <2>4
    <3>2. CASE j \in DOMAIN s
      BY <2>1, <2>4, <3>1, <3>2 DEF Counted, s
    <3>3. CASE j = Len(s) + 1
      BY <1>4, <2>1, <3>1, <3>3
    <3>4. j \in DOMAIN s \/ j = Len(s) + 1
      BY <1>4, <2>1
    <3> QED BY <3>2, <3>3, <3>4
  <2>5. D \ Range(u) = {}
    <3>1. C \subseteq Range(s)
      BY <1>5, <1>7 DEF Counted, s
    <3>2. \A i \in DOMAIN s : s[i] \in Range(u)
      BY <1>4, <2>1 DEF Range
    <3>3. Range(s) \subseteq Range(u) /\ f \in Range(u)
      BY <1>4, <2>1, <3>2 DEF Range
    <3> QED BY <3>1, <3>3 DEF D
  <2>6. Len(u) \in Nat /\ q.total >= Len(u)
    BY <1>4, <2>1, <2>3
  <2> QED BY <1>6, <2>1, <2>2, <2>3, <2>4, <2>5, <2>6 DEF Counted, D, q
<1>8. CASE ~ (Len(s) < MaxLocations)
  <2>1. q.locations = s /\ Len(s) = MaxLocations
    BY <1>3, <1>4, <1>5, <1>8
  <2>2. q.total >= Len(s)
    BY <1>3, <1>4, <1>5, <1>2
  <2>3. \A g \in D \ Range(s) : \A l \in Range(s) : Before(l, g)
    <3>1. \A l \in Range(s) : Before(l, f)
      BY <1>4
    <3>2. \A g \in C \ Range(s) : \A l \in Range(s) : Before(l, g)
      BY DEF Counted
    <3> QED BY <3>1, <3>2
  <2>4. \A i, j \in DOMAIN s : i < j => Before(s[i], s[j])
    BY DEF Counted
  <2> HIDE DEF u, q, D, s
  <2> QED BY <1>4, <1>6, <1>8, <2>1, <2>2, <2>3, <2>4, <1>5 DEF Counted, D, q
<1> QED BY <1>7, <1>8

\* A scan begins with what is in the skill directory (provider.go:501).
LEMMA ListScan ==
  ASSUME Inv, FilesOK, NEW h \in Hosts, Scan(op[h], seen[h]), List(h)
  PROVE  Scan(op'[h], seen'[h])
<1> DEFINE t == Listing(RootEntries)
           o == op'[h]
<1>1. /\ op[h].pc = "list" /\ DOMAIN op[h] = AddFields /\ op[h].what = "add"
      /\ op'[h] = [op[h] EXCEPT !.pc = "walk", !.todo = t]
      /\ seen' = seen
  BY DEF Inv, Fits, Doing, Idle, List, Becomes
<1>2. op[h].total = 0 /\ op[h].locations = <<>>
  BY <1>1 DEF Scan
<1>3. o.pc = "walk" /\ o.todo = t /\ o.total = 0 /\ o.locations = <<>>
  BY <1>1, <1>2 DEF AddFields
<1>4. /\ t \in Seq(Todo)
      /\ \A i \in DOMAIN t : t[i].kind = "dir" <=> t[i].file = Sub
      /\ \A i, j \in DOMAIN t : i < j => Before(t[i].file, t[j].file)
      /\ \A n \in Range(RootEntries) : Kind(n) # "none" =>
           \E i \in DOMAIN t : t[i] = [file |-> n, kind |-> Kind(n)]
  BY ListingFacts
<1> HIDE DEF t, o
<1>5. Counted(o, {})
  <2>1. /\ Cardinality({}) = 0 /\ <<>> \in Seq({}) /\ Len(<<>>) = 0
        /\ DOMAIN <<>> = {} /\ MaxLocations \in Nat
    BY FS_EmptySet, NamesAssumption
  <2> QED BY <1>3, <2>1 DEF Counted
<1>6. Pending(t, {})
  BY <1>4 DEF Pending
<1>7. ASSUME NEW f \in seen[h].steady PROVE Awaits(t, f)
  <2>1. f \in Files /\ disk.files[f] = "file"
    BY DEF FilesOK, Regular
  <2>2. CASE f \in Range(SubEntries)
    <3>1. Sub \in Range(RootEntries) /\ Kind(Sub) = "dir"
      BY <2>1, <2>2, RootOfFacts DEF Kind
    <3> QED BY <1>4, <2>2, <3>1 DEF Awaits
  <2>3. CASE f \notin Range(SubEntries)
    <3>1. f \in Range(RootEntries) /\ Kind(f) = "file"
      BY <2>1, <2>3 DEF Files, Kind
    <3>2. PICK i \in DOMAIN t : t[i] = [file |-> f, kind |-> Kind(f)]
      BY <1>4, <3>1
    <3> QED BY <3>1, <3>2 DEF Awaits
  <2> QED BY <2>2, <2>3
<1>8. Walked(o, seen[h], {})
  BY <1>3, <1>5, <1>6, <1>7 DEF Walked
<1>9. \E C \in SUBSET Files : Walked(o, seen[h], C)
  BY <1>8
<1> QED BY <1>1, <1>3, <1>9 DEF Scan, o

\* The files of a directory are visited in its place (provider.go:501).
LEMMA EnterScan ==
  ASSUME Inv, FilesOK, NEW h \in Hosts, Scan(op[h], seen[h]), Enter(h)
  PROVE  Scan(op'[h], seen'[h])
<1> DEFINE l == Listing(SubEntries)
           t == Tail(op[h].todo)
           u == l \o t
           e == op[h].todo[1]
           o == op'[h]
<1>1. /\ op[h].pc = "walk" /\ op[h].todo # <<>> /\ Head(op[h].todo).kind = "dir"
      /\ DOMAIN op[h] = AddFields
      /\ op'[h] = [op[h] EXCEPT !.todo = u] /\ seen' = seen
  BY DEF Inv, Fits, Doing, Idle, Enter, Becomes
<1>2. PICK C \in SUBSET Files : Walked(op[h], seen[h], C)
  BY <1>1 DEF Scan
<1>3. /\ o.pc = "walk" /\ o.todo = u /\ o.total = op[h].total
      /\ o.locations = op[h].locations
  BY <1>1 DEF AddFields
<1>4. /\ e.file = Sub /\ e.kind = "dir" /\ \A c \in C : Before(c, Sub)
      /\ t \in Seq(Todo) /\ Pending(t, C)
      /\ \A i \in DOMAIN t : Before(Sub, t[i].file)
      /\ \A f : Awaits(op[h].todo, f) =>
           Awaits(t, f) \/ e = [file |-> f, kind |-> "file"] \/ f \in Range(SubEntries)
  <2>1. Pending(op[h].todo, C)
    BY <1>2 DEF Walked
  <2>2. op[h].todo # <<>> /\ Head(op[h].todo).kind = "dir"
    BY <1>1
  <2> DEFINE todo == op[h].todo
  <2> HIDE DEF todo
  <2>3. /\ e.kind = "dir" /\ (e.kind = "dir" <=> e.file = Sub)
        /\ \A c \in C : Before(c, e.file)
        /\ t \in Seq(Todo) /\ Pending(t, C)
        /\ \A i \in DOMAIN t : Before(e.file, t[i].file)
        /\ \A f : Awaits(todo, f) =>
             \/ Awaits(t, f)
             \/ e = [file |-> f, kind |-> "file"]
             \/ f \in Range(SubEntries) /\ e.file = Sub
    BY <2>1, <2>2, TailPending DEF todo
  <2> HIDE DEF e, t
  <2> QED BY <2>3 DEF todo
<1>5. /\ l \in Seq(Todo)
      /\ \A i \in DOMAIN l : /\ l[i].file \in Range(SubEntries)
                             /\ l[i].kind = "dir" <=> l[i].file = Sub
      /\ \A i, j \in DOMAIN l : i < j => Before(l[i].file, l[j].file)
      /\ \A n \in Range(SubEntries) : Kind(n) # "none" =>
           \E i \in DOMAIN l : l[i] = [file |-> n, kind |-> Kind(n)]
  BY ListingFacts
<1> HIDE DEF l, t, e, o
<1>6. /\ u \in Seq(Todo) /\ Len(u) = Len(l) + Len(t)
      /\ Len(l) \in Nat /\ Len(t) \in Nat /\ DOMAIN u = 1 .. Len(u)
      /\ DOMAIN l = 1 .. Len(l) /\ DOMAIN t = 1 .. Len(t)
  BY <1>4, <1>5
<1>7. \A i \in DOMAIN l : i \in DOMAIN u /\ u[i] = l[i]
  BY <1>4, <1>5, <1>6
<1>8. \A i \in DOMAIN t : Len(l) + i \in DOMAIN u /\ u[Len(l) + i] = t[i]
  BY <1>4, <1>5, <1>6
<1> HIDE DEF u
<1>9. \A i \in DOMAIN u : i \notin DOMAIN l =>
        /\ i - Len(l) \in DOMAIN t /\ u[i] = t[i - Len(l)] /\ i > Len(l)
  <2>1. ASSUME NEW i \in DOMAIN u, i \notin DOMAIN l
        PROVE  i - Len(l) \in DOMAIN t /\ Len(l) + (i - Len(l)) = i /\ i > Len(l)
    BY <1>6, <2>1
  <2> QED BY <1>8, <2>1
<1>10. ASSUME NEW i \in DOMAIN u
       PROVE  /\ u[i].kind = "dir" <=> u[i].file = Sub
              /\ \A c \in C : Before(c, u[i].file)
  <2>1. CASE i \in DOMAIN l
    BY <1>4, <1>5, <1>7, <2>1, SubBefore
  <2>2. CASE i \notin DOMAIN l
    BY <1>4, <1>9, <2>2 DEF Pending
  <2> QED BY <2>1, <2>2
<1>11. ASSUME NEW i \in DOMAIN u, NEW j \in DOMAIN u, i < j
       PROVE  Before(u[i].file, u[j].file)
  <2>1. CASE i \in DOMAIN l /\ j \in DOMAIN l
    BY <1>5, <1>7, <1>11, <2>1
  <2>2. CASE i \in DOMAIN l /\ j \notin DOMAIN l
    BY <1>4, <1>5, <1>7, <1>9, <2>2, SubBefore
  <2>3. CASE i \notin DOMAIN l
    <3>1. j \notin DOMAIN l
      BY <1>6, <1>11, <2>3
    <3>2. i - Len(l) < j - Len(l)
      BY <1>6, <1>11
    <3> QED BY <1>4, <1>9, <2>3, <3>1, <3>2 DEF Pending
  <2> QED BY <2>1, <2>2, <2>3
<1>12. Pending(u, C)
  BY <1>6, <1>10, <1>11 DEF Pending
<1>13. ASSUME NEW f \in seen[h].steady, f \notin C PROVE Awaits(u, f)
  <2>1. f \in Files /\ disk.files[f] = "file" /\ Awaits(op[h].todo, f)
    BY <1>2, <1>13 DEF FilesOK, Regular, Walked
  <2>2. CASE Awaits(t, f)
    BY <1>8, <2>2 DEF Awaits
  <2>3. CASE f \in Range(SubEntries)
    <3>1. Kind(f) = "file"
      BY <2>1, <2>3, RootOfFacts DEF Kind
    <3>2. PICK i \in DOMAIN l : l[i] = [file |-> f, kind |-> "file"]
      BY <1>5, <2>3, <3>1
    <3> QED BY <1>7, <3>2 DEF Awaits
  <2>4. CASE e = [file |-> f, kind |-> "file"]
    BY <1>4, <2>4
  <2> QED BY <1>4, <2>1, <2>2, <2>3, <2>4
<1>14. Counted(o, C)
  BY <1>2, <1>3 DEF Walked, Counted
<1>15. Walked(o, seen[h], C)
  BY <1>2, <1>3, <1>12, <1>13, <1>14 DEF Walked
<1> QED BY <1>1, <1>3, <1>15 DEF Scan, o

\* A file is counted if it is one still, and is not passed over if it was one
\* all the time (provider.go:527-544).
LEMMA VisitScan ==
  ASSUME Inv, FilesOK, NEW h \in Hosts, Scan(op[h], seen[h]), Visit(h)
  PROVE  Scan(op'[h], seen'[h])
<1> DEFINE e == op[h].todo[1]
           t == Tail(op[h].todo)
           next == [op[h] EXCEPT !.todo = t]
           o == op'[h]
           counts == e.kind = "file" /\ disk.files[e.file] = "file"
<1>1. op[h].pc = "walk" /\ op[h].todo # <<>> /\ DOMAIN op[h] = AddFields
  BY DEF Inv, Fits, Doing, Idle, Visit
<1>2. PICK C \in SUBSET Files : Walked(op[h], seen[h], C)
  BY <1>1 DEF Scan
<1>3. /\ Head(op[h].todo) = e /\ e \in Todo /\ (e.kind = "dir" <=> e.file = Sub)
      /\ \A c \in C : Before(c, e.file)
      /\ Pending(t, C) /\ Pending(t, C \cup {e.file})
      /\ \A f : Awaits(op[h].todo, f) =>
           \/ Awaits(t, f)
           \/ e = [file |-> f, kind |-> "file"]
           \/ f \in Range(SubEntries) /\ e.file = Sub
  BY <1>1, <1>2, TailPending DEF Walked
<1>4. /\ e.kind # "dir" /\ seen' = seen
      /\ op'[h] = IF counts THEN Count(next, e.file) ELSE next
  BY <1>3 DEF Inv, Visit, Skip, Becomes
<1>5. /\ DOMAIN next = AddFields /\ next.pc = "walk" /\ next.todo = t
      /\ next.total = op[h].total /\ next.locations = op[h].locations
  BY <1>1 DEF AddFields
<1> HIDE DEF e, t, next, o
<1>6. e.file \in Files /\ e.file # Sub
  BY <1>3, <1>4 DEF Todo
<1>7. Counted(next, C)
  BY <1>2, <1>5 DEF Walked, Counted
<1>8. ASSUME NEW f \in seen[h].steady, f \notin C, ~ Awaits(t, f)
      PROVE  counts /\ f = e.file
  <2>1. disk.files[f] = "file" /\ Awaits(op[h].todo, f)
    BY <1>2, <1>8 DEF FilesOK, Regular, Walked
  <2>2. e = [file |-> f, kind |-> "file"]
    BY <1>3, <1>6, <1>8, <2>1
  <2> QED BY <2>1, <2>2
<1>9. CASE counts
  <2> DEFINE q == Count(next, e.file)
             D == C \cup {e.file}
  <2>1. Counted(q, D)
    BY <1>3, <1>5, <1>6, <1>7, CountOne
  <2>2. q.pc = "walk" /\ q.todo = t
    BY <1>5 DEF Count, AddFields
  <2>3. e.file \in seen[h].ever
    BY <1>6, <1>9 DEF FilesOK, Regular
  <2>4. o = q
    BY <1>4, <1>9 DEF o
  <2> HIDE DEF q
  <2>5. Walked(q, seen[h], D)
    BY <1>2, <1>3, <1>8, <2>1, <2>2, <2>3 DEF Walked
  <2>6. D \in SUBSET Files
    BY <1>6
  <2> HIDE DEF D
  <2> QED BY <1>4, <2>2, <2>4, <2>5, <2>6 DEF Scan, o
<1>10. CASE ~ counts
  <2>1. o = next
    BY <1>4, <1>10 DEF o
  <2>2. Walked(next, seen[h], C)
    BY <1>2, <1>3, <1>5, <1>7, <1>8, <1>10 DEF Walked
  <2> QED BY <1>4, <1>5, <2>1, <2>2 DEF Scan, o
<1> QED BY <1>9, <1>10

\* Whatever somebody makes of the files, what was counted was there some time,
\* and what is passed over is not there now (the file system).
LEMMA EditScan ==
  ASSUME Inv, ScanInv, NEW d, Edit(d), d.files \in [Files -> {"file", "link", "none"}]
  PROVE  ScanInv'
<1>1. /\ disk' = d /\ op' = op
      /\ \A h \in Hosts : /\ seen'[h].steady = seen[h].steady \cap Regular(d)
                          /\ seen'[h].ever = seen[h].ever \cup Regular(d)
  BY DEF Inv, SeenOK, Edit
<1>2. Regular(d) \subseteq Files /\ Regular(disk)' = Regular(d)
  BY <1>1 DEF Regular
<1>3. FilesOK'
  BY <1>1, <1>2 DEF ScanInv, FilesOK
<1>4. ASSUME NEW h \in Hosts PROVE Scan(op[h], seen[h])'
  <2>1. Scan(op[h], seen[h])
    BY DEF ScanInv
  <2>2. ASSUME op[h].pc = "walk"
        PROVE  \E C \in SUBSET Files : Walked(op[h], seen'[h], C)
    <3>1. PICK C \in SUBSET Files : Walked(op[h], seen[h], C)
      BY <2>1, <2>2 DEF Scan
    <3>2. Walked(op[h], seen'[h], C)
      BY <1>1, <3>1 DEF Walked
    <3> QED BY <3>2
  <2>3. Scan(op[h], seen'[h])
    BY <2>1, <2>2 DEF Scan
  <2> QED BY <1>1, <2>3
<1> QED BY <1>3, <1>4 DEF ScanInv

\* The changes there are keep to files, links and nothing (the file system).
LEMMA ChangeScan ==
  ASSUME Inv, ScanInv, Change
  PROVE  ScanInv'
<1>1. /\ DOMAIN disk = {"dir", "md", "files"}
      /\ disk.files \in [Files -> {"file", "link", "none"}]
  BY DEF Inv, DiskOK, ScanInv, FilesOK
<1>2. CASE ReplaceSkillFile
  <2>1. PICK kind \in {"file", "link", "dir", "none"}, name \in {Base, Other} :
          Edit([disk EXCEPT !.md = [kind |-> kind, version |-> edits + 1,
                                    name |-> name]])
    BY <1>2 DEF ReplaceSkillFile
  <2> DEFINE d == [disk EXCEPT !.md = [kind |-> kind, version |-> edits + 1,
                                       name |-> name]]
  <2>2. d.files = disk.files
    BY <1>1
  <2> HIDE DEF d
  <2> QED BY <1>1, <2>1, <2>2, EditScan DEF d
<1>3. CASE ReplaceResource
  <2>1. PICK f \in Files, kind \in {"file", "link", "none"} :
          Edit([disk EXCEPT !.files[f] = kind])
    BY <1>3 DEF ReplaceResource
  <2> DEFINE d == [disk EXCEPT !.files[f] = kind]
  <2>2. d.files = [disk.files EXCEPT ![f] = kind]
    BY <1>1
  <2>3. d.files \in [Files -> {"file", "link", "none"}]
    BY <1>1, <2>2
  <2> HIDE DEF d
  <2> QED BY <2>1, <2>3, EditScan DEF d
<1>4. CASE RemoveDirectory
  <2> DEFINE d == [dir |-> FALSE, files |-> Bare.files,
                   md |-> [Bare.md EXCEPT !.version = edits + 1]]
  <2>1. Edit(d)
    BY <1>4 DEF RemoveDirectory
  <2>2. d.files \in [Files -> {"file", "link", "none"}]
    BY DEF Bare
  <2> HIDE DEF d
  <2> QED BY <2>1, <2>2, EditScan
<1>5. CASE MakeDirectory
  <2> DEFINE d == [disk EXCEPT !.dir = TRUE]
  <2>1. Edit(d)
    BY <1>5 DEF MakeDirectory
  <2>2. d.files = disk.files
    BY <1>1
  <2> HIDE DEF d
  <2> QED BY <1>1, <2>1, <2>2, EditScan
<1> QED BY <1>2, <1>3, <1>4, <1>5 DEF Change

\* What a host does leaves the other hosts' scans alone
\* (provider.go:487-556 keeps its counters in the call).
LEMMA HostScan ==
  ASSUME Inv, ScanInv, NEW h \in Hosts, NEW o, Becomes(h, o), UNCHANGED disk,
         Scan(o, seen'[h]),
         \/ UNCHANGED seen
         \/ seen' = [seen EXCEPT ![h] = [from |-> disk.md.version,
                                         steady |-> Regular(disk),
                                         ever |-> Regular(disk)]]
  PROVE  ScanInv'
<1>1. /\ op'[h] = o /\ \A g \in Hosts : g # h => op'[g] = op[g]
      /\ Regular(disk)' = Regular(disk) /\ Regular(disk) \subseteq Files
  BY DEF Inv, Becomes, Regular
<1>2. \A g \in Hosts : g # h => seen'[g] = seen[g]
  BY DEF Inv, SeenOK
<1>3. /\ seen'[h].steady \subseteq Regular(disk)
      /\ Regular(disk) \subseteq seen'[h].ever /\ seen'[h].ever \subseteq Files
  BY <1>1 DEF Inv, SeenOK, ScanInv, FilesOK
<1>4. FilesOK'
  BY <1>1, <1>2, <1>3 DEF ScanInv, FilesOK
<1>5. ASSUME NEW g \in Hosts PROVE Scan(op'[g], seen'[g])
  <2>1. Scan(op[g], seen[g])
    BY DEF ScanInv
  <2>2. CASE g = h
    BY <1>1, <2>2
  <2>3. CASE g # h
    BY <1>1, <1>2, <2>1, <2>3
  <2> QED BY <2>2, <2>3
<1> QED BY <1>4, <1>5 DEF ScanInv

\* The looks at SKILL.md leave what a scan will count alone
\* (provider.go:184-204, 398-485).
LEMMA SkillFileScan ==
  ASSUME Inv, ScanInv, NEW h \in Hosts,
         CanonicalRoot(h) \/ LstatSkillFile(h) \/ ReadSkillFile(h) \/ Fails(h)
  PROVE  ScanInv'
<1>1. /\ UNCHANGED <<disk, seen>> /\ op[h].pc \in {"root", "lstat", "read"}
      /\ Scan(op[h], seen[h]) /\ Doing(op[h]) /\ op[h] # Idle
  BY DEF CanonicalRoot, LstatSkillFile, ReadSkillFile, Fails, Inv, Fits, Idle, ScanInv
<1>2. ASSUME NEW o, Becomes(h, o), o.pc \in {"lstat", "read", "list", "loaded"},
             o.what = "add" => /\ op[h].what = "add" /\ o.total = op[h].total
                               /\ o.locations = op[h].locations
      PROVE  ScanInv'
  <2>1. Scan(o, seen[h])
    BY <1>1, <1>2 DEF Scan
  <2>2. seen'[h] = seen[h]
    BY <1>1
  <2> QED BY <1>1, <1>2, <2>1, <2>2, HostScan
<1>3. ASSUME NEW v \in {"lstat", "read", "loaded"}, Becomes(h, [op[h] EXCEPT !.pc = v])
      PROVE  ScanInv'
  <2> DEFINE o == [op[h] EXCEPT !.pc = v]
  <2>1. /\ o.pc = v /\ o.what = op[h].what
        /\ op[h].what = "add" => o.total = op[h].total /\ o.locations = op[h].locations
    BY <1>1 DEF Doing, AddFields, LoadFields
  <2>2. Becomes(h, o)
    BY <1>3
  <2> HIDE DEF o
  <2> QED BY <1>2, <2>1, <2>2
<1>4. ASSUME ReadSkillFile(h) PROVE ScanInv'
  <2> DEFINE w == IF op[h].what = "add" THEN "list" ELSE "loaded"
             o == [op[h] EXCEPT !.version = disk.md.version, !.pc = w]
  <2>1. /\ o.pc = w /\ o.what = op[h].what
        /\ op[h].what = "add" => o.total = op[h].total /\ o.locations = op[h].locations
    BY <1>1 DEF Doing, AddFields, LoadFields
  <2>2. Becomes(h, o)
    BY <1>4 DEF ReadSkillFile
  <2> HIDE DEF o
  <2> QED BY <1>2, <2>1, <2>2
<1>5. ASSUME Becomes(h, Idle) PROVE ScanInv'
  <2>1. Scan(Idle, seen'[h])
    BY DEF Scan, Idle
  <2> QED BY <1>1, <1>5, <2>1, HostScan
<1> QED BY <1>3, <1>4, <1>5 DEF CanonicalRoot, LstatSkillFile, Fails

\* Every step keeps the scans sound (provider.go:184-253, 487-556).
LEMMA ScanStep ==
  ASSUME Inv, ScanInv, NEW h \in Hosts, Step(h)
  PROVE  ScanInv'
<1>1. CASE CanonicalRoot(h) \/ LstatSkillFile(h) \/ ReadSkillFile(h) \/ Fails(h)
  BY <1>1, SkillFileScan
<1>2. CASE List(h) \/ Enter(h) \/ Visit(h)
  <2>1. FilesOK /\ Scan(op[h], seen[h])
    BY DEF ScanInv
  <2>2. Scan(op'[h], seen'[h])
    BY <1>2, <2>1, ListScan, EnterScan, VisitScan
  <2>3. /\ UNCHANGED <<disk, seen>>
        /\ DOMAIN op = Hosts /\ DOMAIN op' = Hosts
        /\ \A g \in Hosts : g # h => op'[g] = op[g]
    BY <1>2 DEF Inv, List, Enter, Visit, Becomes
  <2>4. FilesOK'
    BY <2>1, <2>3 DEF FilesOK, Regular
  <2>5. ASSUME NEW g \in Hosts PROVE Scan(op'[g], seen'[g])
    <3>1. CASE g = h
      BY <2>2, <3>1
    <3>2. CASE g # h
      BY <2>3, <3>2 DEF ScanInv
    <3> QED BY <3>1, <3>2
  <2> QED BY <2>4, <2>5 DEF ScanInv
<1>3. CASE StartAdd(h)
  <2>1. PICK name \in {Base, Other} :
          Becomes(h, [pc |-> "root", what |-> "add", name |-> name,
                      version |-> None, todo |-> <<>>, total |-> 0,
                      locations |-> <<>>])
    BY <1>3 DEF StartAdd
  <2> DEFINE o == [pc |-> "root", what |-> "add", name |-> name,
                   version |-> None, todo |-> <<>>, total |-> 0,
                   locations |-> <<>>]
  <2>2. Scan(o, seen'[h])
    BY DEF Scan
  <2>3. Becomes(h, o)
    BY <2>1
  <2> HIDE DEF o
  <2> QED BY <1>3, <2>2, <2>3, HostScan DEF StartAdd
<1>4. CASE FinishAdd(h) \/ FinishLoad(h)
  <2>1. Becomes(h, Idle) /\ UNCHANGED <<disk, seen>>
    BY <1>4 DEF FinishAdd, FinishLoad
  <2>2. Scan(Idle, seen'[h])
    BY DEF Scan, Idle
  <2> QED BY <2>1, <2>2, HostScan
<1>5. CASE StartLoad(h)
  <2> DEFINE o == [pc |-> "root", what |-> "load", version |-> None]
  <2>1. Becomes(h, o) /\ UNCHANGED <<disk, seen>>
    BY <1>5 DEF StartLoad
  <2>2. Scan(o, seen'[h])
    BY DEF Scan
  <2> HIDE DEF o
  <2> QED BY <2>1, <2>2, HostScan
<1>6. CASE RemoveSkill(h)
  BY <1>6 DEF RemoveSkill, ScanInv, FilesOK, Regular
<1> QED BY <1>1, <1>2, <1>3, <1>4, <1>5, <1>6 DEF Step, Index

\* A scan that is over has what is claimed of it (provider.go:541-556).
LEMMA ScanImplies ==
  ASSUME ScanInv
  PROVE  ResourcesSound
<1> SUFFICES ASSUME NEW h \in Hosts, Scanned(h)
             PROVE  LET o == op[h]
                        listed == Range(o.locations)
                        full == Len(o.locations) = MaxLocations
                    IN  /\ o.total \in Cardinality(seen[h].steady) .. Cardinality(seen[h].ever)
                        /\ listed \subseteq seen[h].ever
                        /\ IF full THEN o.total >= MaxLocations
                           ELSE o.total = Len(o.locations)
                        /\ \A i, j \in DOMAIN o.locations :
                             i < j => Before(o.locations[i], o.locations[j])
                        /\ \A f \in seen[h].steady :
                             \/ f \in listed
                             \/ full /\ \A g \in listed : Before(g, f)
  BY DEF ResourcesSound
<1> DEFINE o == op[h]
           listed == Range(o.locations)
           full == Len(o.locations) = MaxLocations
<1>1. o.pc = "walk" /\ o.todo = <<>> /\ Scan(o, seen[h])
  BY DEF Scanned, ScanInv
<1>2. PICK C \in SUBSET Files : Walked(o, seen[h], C)
  BY <1>1 DEF Scan
<1>3. seen[h].steady \subseteq C /\ C \subseteq seen[h].ever
  BY <1>1, <1>2 DEF Walked, Awaits
<1>4. seen[h].ever \subseteq Files
  BY DEF ScanInv, FilesOK
<1>5. /\ Cardinality(seen[h].steady) <= Cardinality(C)
      /\ Cardinality(C) <= Cardinality(seen[h].ever)
      /\ Cardinality(seen[h].steady) \in Nat /\ Cardinality(seen[h].ever) \in Nat
      /\ Cardinality(C) \in Nat
  BY <1>3, <1>4, FilesFinite, FS_Subset, FS_CardinalityType
<1> HIDE DEF o
<1>6. Counted(o, C)
  BY <1>2 DEF Walked
<1>7. o.total \in Cardinality(seen[h].steady) .. Cardinality(seen[h].ever)
  BY <1>5, <1>6 DEF Counted
<1>8. /\ Len(o.locations) \in Nat /\ MaxLocations \in Nat
      /\ Len(o.locations) <= MaxLocations /\ listed \subseteq C
  BY <1>6, NamesAssumption DEF Counted, Range
<1>9. IF full THEN o.total >= MaxLocations ELSE o.total = Len(o.locations)
  BY <1>6, <1>8 DEF Counted
<1>10. \A f \in seen[h].steady : \/ f \in listed
                                 \/ full /\ \A g \in listed : Before(g, f)
  BY <1>3, <1>6 DEF Counted
<1>11. \A i, j \in DOMAIN o.locations : i < j => Before(o.locations[i], o.locations[j])
  BY <1>6 DEF Counted
<1> QED BY <1>3, <1>7, <1>8, <1>9, <1>10, <1>11 DEF o

\* Whatever is created, replaced or removed while indexSkillResources walks
\* (provider.go:487-556), files that were there all the time are counted,
\* files that never were are not, and the locations are the first ones.
THEOREM ScansAreSound == Spec => []ResourcesSound
<1>1. Init => ScanInv
  <2> SUFFICES ASSUME Init PROVE ScanInv
    OBVIOUS
  <2>1. Regular(disk) = Files /\ disk.files \in [Files -> {"file", "link", "none"}]
    BY DEF Init, Regular
  <2>2. FilesOK
    BY <2>1 DEF Init, FilesOK
  <2>3. ASSUME NEW h \in Hosts PROVE Scan(op[h], seen[h])
    <3>1. op[h].pc = "idle"
      BY DEF Init, Idle
    <3> QED BY <3>1 DEF Scan
  <2> QED BY <2>2, <2>3 DEF ScanInv
<1>2. Inv /\ ScanInv /\ [Next]_vars => ScanInv'
  <2> SUFFICES ASSUME Inv, ScanInv, [Next]_vars PROVE ScanInv'
    OBVIOUS
  <2>1. CASE UNCHANGED vars
    BY <2>1 DEF vars, ScanInv, FilesOK, Regular
  <2> QED BY <2>1, ChangeScan, ScanStep DEF Next
<1>3. ScanInv => ResourcesSound
  BY ScanImplies
<1> QED BY <1>1, <1>2, <1>3, InvAlways, PTL DEF Spec

=============================================================================
