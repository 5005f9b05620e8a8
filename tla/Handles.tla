------------------------------ MODULE Handles ------------------------------
(***************************************************************************)
(* The names under which the catalog shows skills to the model             *)
(* (internal/catalog/catalog.go, recomputeLLMNamesLocked).                 *)
(*                                                                         *)
(* A definition or a key is a record with fields type, name and location;  *)
(* a key's location is the provider's canonical one.  A name is a sequence *)
(* of parts: the string "n#h" is the name n with the part h appended, so a *)
(* skill whose own name already contains a '#' is a longer sequence.       *)
(*                                                                         *)
(* `live' is the registered part of the catalog: the map from each         *)
(* registered key to the definition it was registered under.               *)
(***************************************************************************)
EXTENDS Sequences

CONSTANTS
  Defs,       \* host definitions (spec.SkillDef)
  Keys,       \* canonical keys (spec.ProviderSkillKey)
  NameParts,  \* what names are made of
  ShortHash   \* shortHashDef: eight hex digits of a hash of the definition

Names == Seq(NameParts)

\* Every definition and key has a name, and hashing yields a name part.
ASSUME HandlesAssumption ==
  /\ \A x \in Defs \cup Keys : x.name \in Names
  /\ ShortHash \in [Defs -> NameParts]

\* Mutant: the hash leaves the definition's type out.
SuffixedWithoutType(live, k) ==
  LET d == CHOOSE x \in Defs : /\ x.name = live[k].name
                               /\ x.location = live[k].location
  IN  Append(k.name, ShortHash[d])

Suffixed(live, k) == Append(k.name, ShortHash[live[k]])

\* The first pass's group of k: same name, same user-visible location.
Group(live, k) ==
  {j \in DOMAIN live : j.name = k.name /\ live[j].location = live[k].location}

FirstPass(live, k) ==
  IF Group(live, k) = {k} THEN k.name ELSE Suffixed(live, k)

\* The second pass counts (name, location) pairs after the first one.
Clashes(live, k) ==
  \E j \in DOMAIN live \ {k} : /\ FirstPass(live, j) = FirstPass(live, k)
                               /\ live[j].location = live[k].location

\* Mutant: there is no second pass.
LLMNameOnce(live, k) == FirstPass(live, k)

LLMName(live, k) ==
  IF Clashes(live, k) THEN Suffixed(live, k) ELSE FirstPass(live, k)

HandleOf(live, k) == [name |-> LLMName(live, k), location |-> live[k].location]

(***************************************************************************)
(* The handle index is rebuilt by ranging over a Go map: of keys that      *)
(* share a handle any one may be written last and win.                     *)
(***************************************************************************)
HandleIndexes(live) ==
  LET handles == {HandleOf(live, k) : k \in DOMAIN live}
  IN  {hi \in [handles -> DOMAIN live] :
         \A h \in handles : HandleOf(live, hi[h]) = h}

============================================================================
