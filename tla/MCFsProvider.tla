---------------------------- MODULE MCFsProvider ----------------------------
(* Three resources, one of them in a subdirectory that the walk enters second *)
EXTENDS FsProvider, TLC

CONSTANTS h1, h2

MCRootEntries == <<"a.txt", "docs", "z.txt">>
MCSubEntries == <<"docs/b.txt">>

Symmetry == Permutations(Hosts)

============================================================================
