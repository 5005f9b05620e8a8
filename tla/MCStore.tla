------------------------------ MODULE MCStore ------------------------------
(* Small instances of Store. *)
EXTENDS Store, TLC

CONSTANTS s1, s2, s3, p1, p2

Symmetry == Permutations({s1, s2, s3}) \cup Permutations({p1, p2})

============================================================================
