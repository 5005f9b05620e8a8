----------------------------- MODULE Selections -----------------------------
(***************************************************************************)
(* What a loop makes that goes through a slice and appends some of its     *)
(* elements to a new one, as session.go does to filter and to deduplicate, *)
(* and a reading of a directory that has only some of the names.           *)
(***************************************************************************)
EXTENDS Naturals, Sequences

\* The elements of s at the given places, in their order.
Selection(s, places) ==
  LET sel[n \in 0 .. Len(s)] ==
        IF n = 0 THEN <<>>
        ELSE IF n \in places THEN Append(sel[n - 1], s[n]) ELSE sel[n - 1]
  IN  sel[Len(s)]

\* What slices.DeleteFunc leaves: s without the elements that are gone.
Without(s, gone) == Selection(s, {i \in DOMAIN s : s[i] \notin gone})

\* a is somewhere in front of b in s.
Ahead(s, a, b) == \E i, j \in DOMAIN s : i < j /\ s[i] = a /\ s[j] = b

============================================================================
