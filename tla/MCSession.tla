----------------------------- MODULE MCSession -----------------------------
(* Small instances of Session. *)
EXTENDS Session, TLC

CONSTANTS k1, k2, k3, l1, l2, u1, q1, h1, h2

KeySymmetry == Permutations({k1, k2, k3})
LoaderSymmetry == KeySymmetry \cup Permutations({l1, l2})
HostSymmetry == KeySymmetry \cup Permutations({h1, h2})

============================================================================
