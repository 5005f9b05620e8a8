----------------------------- MODULE ActiveList -----------------------------
(***************************************************************************)
(* What a session promises about its list of active skills, whatever its   *)
(* implementation does concurrently: the list has no duplicates and keeps  *)
(* within the limit, it changes only by a request taking effect as a whole *)
(* on the list as it is at that moment, or by losing keys.                 *)
(***************************************************************************)
EXTENDS Naturals, Sequences, Functions

CONSTANTS
  Keys,       \* skills that can be active
  Clients,    \* those who ask for skills to be loaded
  MaxActive,  \* the limit; 0 is no limit
  None        \* no request

VARIABLES
  active,     \* the active keys, in activation order
  ask         \* the request a client is waiting for, or None

vars == <<active, ask>>

Modes == {"replace", "add"}
Requests == [mode : Modes, keys : Seq(Keys)]

Init == active = <<>> /\ ask = [p \in Clients |-> None]

Before(s, a, b) == \E i, j \in DOMAIN s : i < j /\ s[i] = a /\ s[j] = b

\* a is asked for before b, going by the first time each is named.
AskedBefore(s, a, b) ==
  \E i \in DOMAIN s : s[i] = a /\ \A j \in 1 .. i : s[j] # b

(***************************************************************************)
(* The list t that request r makes of the list s: the requested keys come  *)
(* last, in the order they were asked for; in "add" mode the others stay   *)
(* in front of them, in the order they had.                                *)
(***************************************************************************)
Serves(t, s, r) ==
  LET kept == IF r.mode = "add" THEN Range(s) \ Range(r.keys) ELSE {}
  IN  /\ IsInjective(t)
      /\ Range(t) = kept \cup Range(r.keys)
      /\ \A a, b \in Range(t) :
           Before(t, a, b) <=>
             \/ a \in kept /\ b \in kept /\ Before(s, a, b)
             \/ a \in kept /\ b \notin kept
             \/ a \notin kept /\ b \notin kept /\ a # b
                  /\ AskedBefore(r.keys, a, b)

WithinLimit(t) == MaxActive > 0 => Len(t) <= MaxActive

Ask(p) == /\ ask[p] = None
          /\ ask'[p] \in Requests
          /\ ask' = [ask EXCEPT ![p] = ask'[p]]
          /\ UNCHANGED active

Serve(p) == /\ ask[p] # None
            /\ Serves(active', active, ask[p])
            /\ WithinLimit(active')
            /\ ask' = [ask EXCEPT ![p] = None]

Refuse(p) == /\ ask[p] # None
             /\ ask' = [ask EXCEPT ![p] = None]
             /\ UNCHANGED active

\* Keys are unloaded, or pruned since their skill was removed.
Lose == /\ IsInjective(active')
        /\ Range(active') \subseteq Range(active)
        /\ \A a, b \in Range(active') : Before(active', a, b) => Before(active, a, b)
        /\ UNCHANGED ask

Next == \/ \E p \in Clients : \/ Ask(p)
                              \/ Serve(p)
                              \/ Refuse(p)
        \/ Lose

Spec == Init /\ [][Next]_vars

============================================================================
