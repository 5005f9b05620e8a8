----------------------------- MODULE MCCatalog -----------------------------
(***************************************************************************)
(* Small instances of Catalog.  Two provider types serve a skill of the    *)
(* same name at the same user-visible location, so their names collide;    *)
(* the first one's location is a link whose target may change, so one      *)
(* definition can canonicalise to two keys; and the fourth skill there is  *)
(* named as the first one is once their names have collided.               *)
(***************************************************************************)
EXTENDS Catalog, TLC

CONSTANTS c1, c2, c3, ch1, ch2, ch3

Sk == <<"sk">>

def1 == [type |-> "fs", name |-> Sk, location |-> "link"]
def2 == [type |-> "web", name |-> Sk, location |-> "link"]
def3 == [type |-> "fs", name |-> Sk, location |-> "dir1"]
def4 == [type |-> "fs", name |-> <<"sk", "h1">>, location |-> "link"]

key1 == [type |-> "fs", name |-> Sk, location |-> "dir1"]
key2 == [type |-> "fs", name |-> Sk, location |-> "dir2"]
key3 == [type |-> "web", name |-> Sk, location |-> "link"]
key4 == [type |-> "fs", name |-> <<"sk", "h1">>, location |-> "link"]

OneDef == {def1}
OneKey == {key1}
LinkDefs == {def1, def3}
LinkKeys == {key1, key2}
AllDefs == {def1, def2, def3, def4}
AllKeys == {key1, key2, key3, key4}

Parts == {"sk", "h1", "h2", "h3", "h4"}
Hash(ds) == [d \in ds |-> CASE d = def1 -> "h1" [] d = def2 -> "h2"
                            [] d = def3 -> "h3" [] OTHER -> "h4"]
OneHash == Hash(OneDef)
LinkHash == Hash(LinkDefs)
AllHash == Hash(AllDefs)

Symmetry == Permutations({c1, c2, c3}) \cup Permutations({ch1, ch2, ch3})

============================================================================
