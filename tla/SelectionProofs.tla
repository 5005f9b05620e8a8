--------------------------- MODULE SelectionProofs ---------------------------
(***************************************************************************)
(* What the loops of session.go that filter and deduplicate slices make    *)
(* (Selections), proved for slices of any length: the induction is over    *)
(* sets of numbers, for which the provers need no operator as a parameter. *)
(***************************************************************************)
EXTENDS Selections, Functions, TLAPS, WellFoundedInduction

----------------------------------------------------------------------------
(* Induction *)

\* A set of numbers that has 0 and the successors of its elements has all:
\* how a loop over a slice (session.go:122, 180, 262, 304) is followed.
LEMMA SetInduction ==
  ASSUME NEW S \in SUBSET Nat, 0 \in S, \A n \in S : n + 1 \in S
  PROVE  S = Nat
<1>1. SUFFICES ASSUME Nat \ S # {} PROVE FALSE
  OBVIOUS
<1>2. Nat \ S \subseteq Nat
  OBVIOUS
<1>3. PICK x \in Nat \ S :
        \A y \in Nat \ S : ~ (<<y, x>> \in OpToRel(<, Nat))
  <2>1. IsWellFoundedOn(OpToRel(<, Nat), Nat)
    BY NatLessThanWellFounded
  <2> QED BY <1>1, <1>2, <2>1, WFMin
<1>4. x - 1 \in Nat /\ x - 1 < x
  OBVIOUS
<1>5. CASE x - 1 \in S
  BY <1>4, <1>5
<1>6. CASE x - 1 \notin S
  <2>1. <<x - 1, x>> \in OpToRel(<, Nat)
    BY <1>4 DEF OpToRel
  <2> QED BY <1>3, <1>4, <1>6, <2>1
<1> QED BY <1>5, <1>6

\* Of all the places where a slice has something there is a first: the one at
\* which session.go:122-145 keeps a repeated key.
LEMMA LeastNatural ==
  ASSUME NEW S \in SUBSET Nat, S # {}
  PROVE  \E n \in S : \A k \in S : n <= k
<1>1. PICK n \in S : \A k \in S : ~ (<<k, n>> \in OpToRel(<, Nat))
  <2>1. IsWellFoundedOn(OpToRel(<, Nat), Nat)
    BY NatLessThanWellFounded
  <2> QED BY <2>1, WFMin
<1>2. ASSUME NEW k \in S PROVE n <= k
  <2>1. CASE k < n
    <3>1. <<k, n>> \in OpToRel(<, Nat)
      BY <2>1 DEF OpToRel
    <3> QED BY <1>1, <3>1
  <2> QED BY <2>1
<1> QED BY <1>2

----------------------------------------------------------------------------
(* The loop *)

\* f is the loop of Selection, up to the place m.
Loops(f, s, places, m) ==
  /\ f[0] = <<>>
  /\ \A n \in 1 .. m :
       f[n] = IF n \in places THEN Append(f[n - 1], s[n]) ELSE f[n - 1]

\* The recursion of Selection, which is one loop over a slice
\* (session.go:180-189), has a solution.
LEMMA LoopExists ==
  ASSUME NEW X, NEW s \in Seq(X), NEW places
  PROVE  \E f \in [0 .. Len(s) -> Seq(X)] : Loops(f, s, places, Len(s))
<1> DEFINE S == {m \in Nat : m <= Len(s) =>
                    \E f \in [0 .. m -> Seq(X)] : Loops(f, s, places, m)}
<1>1. 0 \in S
  <2> DEFINE g == [i \in 0 .. 0 |-> <<>>]
  <2>1. g \in [0 .. 0 -> Seq(X)] /\ Loops(g, s, places, 0)
    BY DEF Loops
  <2> QED BY <2>1
<1>2. ASSUME NEW m \in S PROVE m + 1 \in S
  <2>1. SUFFICES ASSUME m + 1 <= Len(s)
                 PROVE \E f \in [0 .. m + 1 -> Seq(X)] :
                          Loops(f, s, places, m + 1)
    OBVIOUS
  <2>2. PICK f \in [0 .. m -> Seq(X)] : Loops(f, s, places, m)
    BY <2>1
  <2> DEFINE g == [i \in 0 .. m + 1 |->
                     IF i <= m THEN f[i]
                     ELSE IF m + 1 \in places THEN Append(f[m], s[m + 1])
                     ELSE f[m]]
  <2>3. g \in [0 .. m + 1 -> Seq(X)]
    <3>1. f[m] \in Seq(X) /\ s[m + 1] \in X
      BY <2>1
    <3> QED BY <3>1
  <2>4. Loops(g, s, places, m + 1)
    <3>1. g[0] = <<>>
      BY <2>2 DEF Loops
    <3>2. ASSUME NEW n \in 1 .. m + 1
          PROVE g[n] = IF n \in places THEN Append(g[n - 1], s[n])
                       ELSE g[n - 1]
      <4>1. CASE n <= m
        BY <4>1, <2>2 DEF Loops
      <4>2. CASE n = m + 1
        <5>1. g[n - 1] = f[m]
          BY <4>2
        <5> QED BY <4>2, <5>1
      <4> QED BY <4>1, <4>2
    <3> QED BY <3>1, <3>2 DEF Loops
  <2> QED BY <2>3, <2>4
<1>3. S = Nat
  <2> HIDE DEF S
  <2>1. S \in SUBSET Nat
    BY DEF S
  <2> QED BY <1>1, <1>2, <2>1, SetInduction
<1>4. Len(s) \in S
  <2> HIDE DEF S
  <2> QED BY <1>3
<1> QED BY <1>4

\* Selection is what the loop over the slice (session.go:180-189) ends with.
LEMMA SelectionLoops ==
  ASSUME NEW X, NEW s \in Seq(X), NEW places
  PROVE  \E f \in [0 .. Len(s) -> Seq(X)] :
            Loops(f, s, places, Len(s)) /\ Selection(s, places) = f[Len(s)]
<1> DEFINE Rec(f) == [n \in 0 .. Len(s) |->
                 IF n = 0 THEN <<>>
                 ELSE IF n \in places THEN Append(f[n - 1], s[n]) ELSE f[n - 1]]
<1> DEFINE sel == CHOOSE f : f = Rec(f)
<1>1. Selection(s, places) = sel[Len(s)]
  BY DEF Selection
<1>0. Len(s) \in Nat
  OBVIOUS
<1>r. ASSUME NEW f
      PROVE  /\ Rec(f)[0] = <<>>
             /\ \A n \in 1 .. Len(s) :
                  Rec(f)[n] = IF n \in places THEN Append(f[n - 1], s[n])
                              ELSE f[n - 1]
             /\ DOMAIN Rec(f) = 0 .. Len(s)
             /\ Rec(f) = [n \in 0 .. Len(s) |-> Rec(f)[n]]
  BY <1>0
<1> HIDE DEF Rec
<1>2. ASSUME NEW f \in [0 .. Len(s) -> Seq(X)], Loops(f, s, places, Len(s))
      PROVE  f = Rec(f)
  <2>1. ASSUME NEW n \in 0 .. Len(s) PROVE f[n] = Rec(f)[n]
    <3>1. CASE n = 0
      BY <1>2, <1>r, <3>1 DEF Loops
    <3>2. CASE n # 0
      <4>1. n \in 1 .. Len(s)
        BY <3>2, <1>0
      <4> QED BY <1>2, <1>r, <4>1 DEF Loops
    <3> QED BY <3>1, <3>2
  <2>2. f = [n \in 0 .. Len(s) |-> f[n]]
    OBVIOUS
  <2>3. Rec(f) = [n \in 0 .. Len(s) |-> Rec(f)[n]]
    BY <1>r
  <2> QED BY <2>1, <2>2, <2>3
<1>3. PICK f \in [0 .. Len(s) -> Seq(X)] : Loops(f, s, places, Len(s))
  BY LoopExists
<1>4. sel = Rec(sel)
  <2>1. f = Rec(f)
    BY <1>2, <1>3
  <2> QED BY <2>1
<1>5. ASSUME NEW g, g = Rec(g) PROVE Loops(g, s, places, Len(s))
  BY <1>5, <1>r DEF Loops
<1>6. ASSUME NEW g, g = Rec(g) PROVE g \in [0 .. Len(s) -> Seq(X)]
  <2> DEFINE S == {m \in Nat : m <= Len(s) => g[m] \in Seq(X)}
  <2>1. 0 \in S
    <3>1. g[0] = <<>>
      BY <1>5, <1>6 DEF Loops
    <3> QED BY <3>1
  <2>2. ASSUME NEW m \in S PROVE m + 1 \in S
    <3>1. SUFFICES ASSUME m + 1 <= Len(s) PROVE g[m + 1] \in Seq(X)
      OBVIOUS
    <3>2. g[m] \in Seq(X) /\ s[m + 1] \in X
      BY <3>1
    <3>3. g[m + 1] = IF m + 1 \in places THEN Append(g[m], s[m + 1]) ELSE g[m]
      BY <1>5, <1>6, <3>1 DEF Loops
    <3> QED BY <3>2, <3>3
  <2>3. S = Nat
    <3> HIDE DEF S
    <3>1. S \in SUBSET Nat
      BY DEF S
    <3> QED BY <2>1, <2>2, <3>1, SetInduction
  <2>4. \A m \in 0 .. Len(s) : g[m] \in Seq(X)
    BY <2>3
  <2>5. g = [n \in 0 .. Len(s) |-> g[n]]
    BY <1>6, <1>r
  <2> QED BY <2>4, <2>5
<1>7. sel \in [0 .. Len(s) -> Seq(X)] /\ Loops(sel, s, places, Len(s))
  <2> HIDE DEF sel, Rec
  <2> QED BY <1>4, <1>5, <1>6
<1> HIDE DEF sel, Rec
<1> QED BY <1>1, <1>7

----------------------------------------------------------------------------
(* What it makes *)

\* t has the elements of s at the places up to n, in their order: e tells
\* where each of them comes from.
Picks(e, t, s, places, n) ==
  /\ e \in [1 .. Len(t) -> places \cap (1 .. n)]
  /\ \A k \in 1 .. Len(t) : t[k] = s[e[k]]
  /\ \A j, k \in 1 .. Len(t) : j < k => e[j] < e[k]
  /\ \A i \in places \cap (1 .. n) : \E k \in 1 .. Len(t) : e[k] = i

\* One round of the loop (session.go:180-189) appends the element or does not.
LEMMA PicksOneMore ==
  ASSUME NEW X, NEW s \in Seq(X), NEW places, NEW t \in Seq(X),
         NEW n \in Nat, n + 1 \in 1 .. Len(s),
         NEW e, Picks(e, t, s, places, n)
  PROVE  IF n + 1 \in places
         THEN \E d : Picks(d, Append(t, s[n + 1]), s, places, n + 1)
         ELSE Picks(e, t, s, places, n + 1)
<1>1. CASE n + 1 \notin places
  <2>1. places \cap (1 .. n) = places \cap (1 .. n + 1)
    BY <1>1
  <2> QED BY <1>1, <2>1 DEF Picks
<1>2. CASE n + 1 \in places
  <2> DEFINE u == Append(t, s[n + 1])
             d == [k \in 1 .. Len(t) + 1 |-> IF k <= Len(t) THEN e[k] ELSE n + 1]
  <2>1. u \in Seq(X) /\ Len(u) = Len(t) + 1 /\ Len(t) \in Nat
    OBVIOUS
  <2>2. \A k \in 1 .. Len(t) : u[k] = t[k]
    OBVIOUS
  <2>3. u[Len(t) + 1] = s[n + 1]
    OBVIOUS
  <2>4. \A k \in 1 .. Len(t) : d[k] = e[k] /\ e[k] \in places \cap (1 .. n)
    BY <2>1 DEF Picks
  <2>5. d[Len(t) + 1] = n + 1
    BY <2>1
  <2>6. DOMAIN d = 1 .. Len(t) + 1 /\ d = [k \in 1 .. Len(t) + 1 |-> d[k]]
    OBVIOUS
  <2>7. \A k \in 1 .. Len(t) + 1 : k \in 1 .. Len(t) \/ k = Len(t) + 1
    BY <2>1
  <2> HIDE DEF u, d
  <2>8. d \in [1 .. Len(u) -> places \cap (1 .. n + 1)]
    <3>1. ASSUME NEW k \in 1 .. Len(t) + 1
          PROVE  d[k] \in places \cap (1 .. n + 1)
      <4>1. CASE k \in 1 .. Len(t)
        BY <2>4, <4>1
      <4>2. CASE k = Len(t) + 1
        BY <1>2, <2>5, <4>2
      <4> QED BY <2>7, <4>1, <4>2
    <3> QED BY <2>1, <2>6, <3>1
  <2>9. \A k \in 1 .. Len(u) : u[k] = s[d[k]]
    BY <2>1, <2>2, <2>3, <2>4, <2>5, <2>7 DEF Picks
  <2>10. ASSUME NEW j \in 1 .. Len(u), NEW k \in 1 .. Len(u), j < k
         PROVE  d[j] < d[k]
    <3>1. j \in 1 .. Len(t)
      BY <2>1, <2>10
    <3>2. CASE k \in 1 .. Len(t)
      BY <2>4, <2>10, <3>1, <3>2 DEF Picks
    <3>3. CASE k = Len(t) + 1
      BY <2>4, <2>5, <3>1, <3>3
    <3> QED BY <2>1, <2>7, <3>2, <3>3
  <2>11. ASSUME NEW i \in places \cap (1 .. n + 1)
         PROVE  \E k \in 1 .. Len(u) : d[k] = i
    <3>1. CASE i = n + 1
      BY <2>1, <2>5, <3>1
    <3>2. CASE i # n + 1
      <4>1. i \in places \cap (1 .. n)
        BY <3>2
      <4>2. PICK k \in 1 .. Len(t) : e[k] = i
        BY <4>1 DEF Picks
      <4> QED BY <2>1, <2>4, <4>2
    <3> QED BY <3>1, <3>2
  <2> QED BY <1>2, <2>8, <2>9, <2>10, <2>11 DEF Picks, u
<1> QED BY <1>1, <1>2

\* The loop (session.go:180-189, 304-307) keeps what is at the places, in the order it
\* had.
THEOREM SelectionPicks ==
  ASSUME NEW X, NEW s \in Seq(X), NEW places
  PROVE  /\ Selection(s, places) \in Seq(X)
         /\ \E e : Picks(e, Selection(s, places), s, places, Len(s))
<1>1. PICK f \in [0 .. Len(s) -> Seq(X)] :
         Loops(f, s, places, Len(s)) /\ Selection(s, places) = f[Len(s)]
  BY SelectionLoops
<1>2. Len(s) \in Nat
  OBVIOUS
<1> DEFINE S == {n \in Nat : n <= Len(s) => \E e : Picks(e, f[n], s, places, n)}
<1>3. 0 \in S
  <2>1. f[0] = <<>> /\ Len(f[0]) = 0
    BY <1>1 DEF Loops
  <2>2. Picks(<<>>, f[0], s, places, 0)
    <3>1. 1 .. 0 = {} /\ <<>> \in [{} -> {}]
      OBVIOUS
    <3>2. <<>> \in [1 .. 0 -> places \cap (1 .. 0)]
      BY <3>1
    <3> QED BY <2>1, <3>1, <3>2 DEF Picks
  <2> QED BY <2>2
<1>4. ASSUME NEW n \in S PROVE n + 1 \in S
  <2>1. SUFFICES ASSUME n + 1 <= Len(s)
                 PROVE  \E e : Picks(e, f[n + 1], s, places, n + 1)
    OBVIOUS
  <2>2. n \in Nat /\ n + 1 \in 1 .. Len(s) /\ n \in 0 .. Len(s)
    BY <2>1, <1>2
  <2>3. PICK e : Picks(e, f[n], s, places, n)
    BY <2>1, <2>2
  <2>4. f[n] \in Seq(X)
    BY <2>2
  <2>5. f[n + 1] = IF n + 1 \in places THEN Append(f[n], s[n + 1]) ELSE f[n]
    <3>1. (n + 1) - 1 = n
      BY <2>2
    <3> QED BY <1>1, <2>2, <3>1 DEF Loops
  <2>6. IF n + 1 \in places
        THEN \E d : Picks(d, Append(f[n], s[n + 1]), s, places, n + 1)
        ELSE Picks(e, f[n], s, places, n + 1)
    BY <2>2, <2>3, <2>4, PicksOneMore
  <2> QED BY <2>5, <2>6
<1>5. S = Nat
  <2> HIDE DEF S
  <2>1. S \in SUBSET Nat
    BY DEF S
  <2> QED BY <1>3, <1>4, <2>1, SetInduction
<1>6. \E e : Picks(e, f[Len(s)], s, places, Len(s))
  BY <1>2, <1>5
<1>7. f[Len(s)] \in Seq(X)
  BY <1>2
<1> QED BY <1>1, <1>6, <1>7

\* A filtered slice (session.go:304-307) is no longer than what it is made of.
LEMMA PicksAreLater ==
  ASSUME NEW X, NEW t \in Seq(X), NEW s, NEW places, NEW n \in Nat,
         NEW e, Picks(e, t, s, places, n)
  PROVE  Len(t) <= n
<1>1. Len(t) \in Nat
  OBVIOUS
<1>2. \A k \in 1 .. Len(t) : e[k] \in 1 .. n
  BY DEF Picks
<1> DEFINE S == {k \in Nat : k \in 1 .. Len(t) => e[k] >= k}
<1>3. 0 \in S
  OBVIOUS
<1>4. ASSUME NEW k \in S PROVE k + 1 \in S
  <2>1. SUFFICES ASSUME k + 1 \in 1 .. Len(t) PROVE e[k + 1] >= k + 1
    OBVIOUS
  <2>2. CASE k = 0
    BY <1>2, <2>1, <2>2
  <2>3. CASE k # 0
    <3>1. k \in 1 .. Len(t) /\ e[k] >= k
      BY <1>1, <2>1, <2>3
    <3>2. e[k] < e[k + 1]
      BY <2>1, <3>1 DEF Picks
    <3> QED BY <1>2, <2>1, <3>1, <3>2
  <2> QED BY <2>2, <2>3
<1>5. S = Nat
  <2> HIDE DEF S
  <2>1. S \in SUBSET Nat
    BY DEF S
  <2> QED BY <1>3, <1>4, <2>1, SetInduction
<1>6. CASE Len(t) = 0
  BY <1>6
<1>7. CASE Len(t) # 0
  <2>1. Len(t) \in 1 .. Len(t)
    BY <1>1, <1>7
  <2>2. e[Len(t)] >= Len(t)
    BY <1>1, <1>5, <2>1
  <2> QED BY <1>1, <1>2, <2>1, <2>2
<1> QED BY <1>6, <1>7

\* A slice that has lost an element (session.go:304-307, store.go:228-236) is
\* shorter.
LEMMA PicksFewer ==
  ASSUME NEW X, NEW t \in Seq(X), NEW s, NEW places, NEW n \in Nat,
         NEW e, Picks(e, t, s, places, n), NEW i \in 1 .. n, i \notin places
  PROVE  Len(t) < n
<1>1. Len(t) \in Nat
  OBVIOUS
<1>2. \A k \in 1 .. Len(t) : e[k] \in 1 .. n /\ e[k] # i
  BY DEF Picks
<1>3. \A k \in 1 .. Len(t) - 1 : e[k] < e[k + 1]
  BY <1>1 DEF Picks
<1> DEFINE S == {k \in Nat : k \in 1 .. Len(t) =>
                    /\ e[k] >= k
                    /\ k >= i => e[k] >= k + 1}
<1>4. 0 \in S
  OBVIOUS
<1>5. ASSUME NEW k \in S PROVE k + 1 \in S
  <2>1. SUFFICES ASSUME k + 1 \in 1 .. Len(t)
                 PROVE  /\ e[k + 1] >= k + 1
                        /\ k + 1 >= i => e[k + 1] >= k + 2
    OBVIOUS
  <2>2. e[k + 1] \in 1 .. n /\ e[k + 1] # i
    BY <1>2, <2>1
  <2>3. CASE k = 0
    BY <2>2, <2>3
  <2>4. CASE k # 0
    <3>1. k \in 1 .. Len(t) - 1 /\ k \in 1 .. Len(t)
      BY <1>1, <2>1, <2>4
    <3>2. e[k] < e[k + 1] /\ e[k] \in 1 .. n /\ e[k] >= k /\ (k >= i => e[k] >= k + 1)
      BY <1>2, <1>3, <3>1
    <3> QED BY <2>2, <3>2
  <2> QED BY <2>3, <2>4
<1>6. S = Nat
  <2> HIDE DEF S
  <2>1. S \in SUBSET Nat
    BY DEF S
  <2> QED BY <1>4, <1>5, <2>1, SetInduction
<1>7. CASE Len(t) >= n
  <2>1. n \in 1 .. Len(t) /\ n \in S
    BY <1>1, <1>6, <1>7
  <2>2. e[n] >= n + 1
    BY <2>1
  <2> QED BY <1>2, <2>1, <2>2
<1> QED BY <1>1, <1>7

\* As many elements as there are places, at most, and fewer than there were if
\* one of them goes (session.go:304-307, store.go:195-206).
LEMMA SelectionShorter ==
  ASSUME NEW X, NEW s \in Seq(X), NEW places
  PROVE  /\ \A n \in Nat : places \subseteq 1 .. n => Len(Selection(s, places)) <= n
         /\ ~ (1 .. Len(s) \subseteq places) => Len(Selection(s, places)) < Len(s)
<1> DEFINE t == Selection(s, places)
<1>1. t \in Seq(X) /\ \E e : Picks(e, t, s, places, Len(s))
  BY SelectionPicks
<1> HIDE DEF t
<1>2. PICK e : Picks(e, t, s, places, Len(s))
  BY <1>1
<1>3. Len(s) \in Nat /\ Len(t) \in Nat /\ Len(t) <= Len(s)
  BY <1>1, <1>2, PicksAreLater
<1>4. ASSUME NEW n \in Nat, places \subseteq 1 .. n PROVE Len(t) <= n
  <2>1. CASE Len(s) <= n
    BY <1>3, <2>1
  <2>2. CASE n < Len(s)
    <3>1. places \cap (1 .. Len(s)) = places \cap (1 .. n)
      BY <1>3, <1>4, <2>2
    <3>2. Picks(e, t, s, places, n)
      BY <1>2, <3>1 DEF Picks
    <3> QED BY <1>1, <3>2, PicksAreLater
  <2> QED BY <1>3, <2>1, <2>2
<1>5. ASSUME NEW i \in 1 .. Len(s), i \notin places PROVE Len(t) < Len(s)
  BY <1>1, <1>2, <1>3, <1>5, PicksFewer
<1> QED BY <1>4, <1>5 DEF t

\* What the rest of the proofs needs of a filtered slice (session.go:122-145,
\* 262-265, 304-307): its type, length, elements, and that it has none twice.
THEOREM SelectionFacts ==
  ASSUME NEW X, NEW s \in Seq(X), NEW places
  PROVE  /\ Selection(s, places) \in Seq(X)
         /\ Len(Selection(s, places)) <= Len(s)
         /\ Range(Selection(s, places)) = {s[i] : i \in places \cap (1 .. Len(s))}
         /\ (\A i, j \in places \cap (1 .. Len(s)) : s[i] = s[j] => i = j)
              => IsInjective(Selection(s, places))
<1> DEFINE t == Selection(s, places)
           P == places \cap (1 .. Len(s))
<1>1. t \in Seq(X) /\ \E e : Picks(e, t, s, places, Len(s))
  BY SelectionPicks
<1> HIDE DEF t
<1>2. PICK e : Picks(e, t, s, places, Len(s))
  BY <1>1
<1>3. Len(s) \in Nat /\ Len(t) \in Nat /\ DOMAIN t = 1 .. Len(t)
  BY <1>1
<1>4. Len(t) <= Len(s)
  BY <1>1, <1>2, <1>3, PicksAreLater
<1>5. \A k \in 1 .. Len(t) : e[k] \in P /\ t[k] = s[e[k]]
  BY <1>2 DEF Picks
<1>6. Range(t) = {s[i] : i \in P}
  <2>1. ASSUME NEW i \in P PROVE \E k \in 1 .. Len(t) : t[k] = s[i]
    BY <1>2, <1>5 DEF Picks
  <2>2. ASSUME NEW k \in 1 .. Len(t) PROVE \E i \in P : t[k] = s[i]
    BY <1>5
  <2>3. Range(t) = {t[k] : k \in 1 .. Len(t)}
    BY <1>3 DEF Range
  <2> HIDE DEF P
  <2> QED BY <2>1, <2>2, <2>3
<1>7. ASSUME \A i, j \in P : s[i] = s[j] => i = j
      PROVE  IsInjective(t)
  <2>1. SUFFICES ASSUME NEW j \in 1 .. Len(t), NEW k \in 1 .. Len(t), t[j] = t[k]
                 PROVE  j = k
    BY <1>3 DEF IsInjective
  <2>2. e[j] = e[k]
    BY <1>5, <1>7, <2>1
  <2>3. e[j] \in Nat
    BY <1>5, <1>3
  <2>4. ~ (j < k) /\ ~ (k < j)
    BY <1>2, <2>2, <2>3 DEF Picks
  <2> QED BY <2>4
<1> QED BY <1>1, <1>4, <1>6, <1>7 DEF t

\* a is in front of b among the elements of s at the places.
AheadAt(s, places, a, b) ==
  \E i, j \in places \cap (1 .. Len(s)) : i < j /\ s[i] = a /\ s[j] = b

\* One element is ahead of another in a filtered slice if it was before
\* (session.go:180-189, 304-307), and both are kept.
THEOREM SelectionOrder ==
  ASSUME NEW X, NEW s \in Seq(X), NEW places, NEW a, NEW b
  PROVE  Ahead(Selection(s, places), a, b) <=> AheadAt(s, places, a, b)
<1> DEFINE t == Selection(s, places)
           P == places \cap (1 .. Len(s))
<1>1. t \in Seq(X) /\ \E e : Picks(e, t, s, places, Len(s))
  BY SelectionPicks
<1> HIDE DEF t
<1>2. PICK e : Picks(e, t, s, places, Len(s))
  BY <1>1
<1>3. DOMAIN t = 1 .. Len(t) /\ Len(t) \in Nat
  BY <1>1
<1>4. \A k \in 1 .. Len(t) : e[k] \in P /\ t[k] = s[e[k]]
  BY <1>2 DEF Picks
<1>5. ASSUME NEW k \in 1 .. Len(t), NEW l \in 1 .. Len(t), k < l, t[k] = a, t[l] = b
      PROVE  \E i, j \in P : i < j /\ s[i] = a /\ s[j] = b
  <2>1. e[k] < e[l]
    BY <1>2, <1>5 DEF Picks
  <2> HIDE DEF P
  <2> QED BY <1>4, <1>5, <2>1
<1>6. ASSUME NEW i \in P, NEW j \in P, i < j, s[i] = a, s[j] = b
      PROVE  \E k, l \in 1 .. Len(t) : k < l /\ t[k] = a /\ t[l] = b
  <2>1. PICK k \in 1 .. Len(t) : e[k] = i
    BY <1>2 DEF Picks
  <2>2. PICK l \in 1 .. Len(t) : e[l] = j
    BY <1>2 DEF Picks
  <2>3. t[k] = a /\ t[l] = b
    BY <1>4, <1>6, <2>1, <2>2
  <2>4. CASE k = l
    BY <1>6, <2>1, <2>2, <2>4
  <2>5. CASE l < k
    <3>1. e[l] < e[k]
      BY <1>2, <2>5 DEF Picks
    <3> QED BY <1>6, <2>1, <2>2, <3>1
  <2>6. CASE k < l
    BY <2>3, <2>6
  <2> QED BY <2>4, <2>5, <2>6
<1>7. Ahead(t, a, b) <=> AheadAt(s, places, a, b)
  BY <1>3, <1>5, <1>6 DEF Ahead, AheadAt
<1> QED BY <1>7 DEF t

----------------------------------------------------------------------------
(* Deleting and appending *)

\* What slices.DeleteFunc leaves of a list (session.go:262-265, 304-307).
LEMMA WithoutFacts ==
  ASSUME NEW X, NEW s \in Seq(X), NEW gone
  PROVE  /\ Without(s, gone) \in Seq(X)
         /\ Len(Without(s, gone)) <= Len(s)
         /\ Range(Without(s, gone)) = Range(s) \ gone
         /\ IsInjective(s) => IsInjective(Without(s, gone))
<1> DEFINE P == {i \in DOMAIN s : s[i] \notin gone}
<1>1. DOMAIN s = 1 .. Len(s) /\ P \cap (1 .. Len(s)) = P
  OBVIOUS
<1>2. {s[i] : i \in P} = Range(s) \ gone
  BY DEF Range
<1>3. IsInjective(s) => \A i, j \in P : s[i] = s[j] => i = j
  BY DEF IsInjective
<1>4. Without(s, gone) = Selection(s, P)
  BY DEF Without
<1> HIDE DEF P
<1> QED BY <1>1, <1>2, <1>3, <1>4, SelectionFacts

\* Filtering (session.go:180-189, 304-307) keeps the order of what it keeps.
LEMMA WithoutAhead ==
  ASSUME NEW X, NEW s \in Seq(X), NEW gone, NEW a, NEW b
  PROVE  Ahead(Without(s, gone), a, b) <=>
           Ahead(s, a, b) /\ a \notin gone /\ b \notin gone
<1> DEFINE P == {i \in DOMAIN s : s[i] \notin gone}
<1>1. DOMAIN s = 1 .. Len(s) /\ P \cap (1 .. Len(s)) = P
  OBVIOUS
<1>2. Without(s, gone) = Selection(s, P)
  BY DEF Without
<1>3. Ahead(Selection(s, P), a, b) <=> AheadAt(s, P, a, b)
  <2> HIDE DEF P
  <2> QED BY SelectionOrder
<1>4. AheadAt(s, P, a, b) <=>
        Ahead(s, a, b) /\ a \notin gone /\ b \notin gone
  BY <1>1 DEF Ahead, AheadAt
<1> QED BY <1>2, <1>3, <1>4

\* Two lists one after the other (session.go:180-193).
LEMMA ConcatFacts ==
  ASSUME NEW X, NEW s \in Seq(X), NEW t \in Seq(X)
  PROVE  /\ s \o t \in Seq(X)
         /\ Range(s \o t) = Range(s) \cup Range(t)
         /\ IsInjective(s) /\ IsInjective(t) /\ Range(s) \cap Range(t) = {}
              => IsInjective(s \o t)
<1> DEFINE u == s \o t
<1>1. u \in Seq(X) /\ Len(u) = Len(s) + Len(t) /\ Len(s) \in Nat /\ Len(t) \in Nat
  OBVIOUS
<1>2. \A i \in 1 .. Len(s) : u[i] = s[i]
  OBVIOUS
<1>3. \A i \in 1 .. Len(t) : u[Len(s) + i] = t[i]
  OBVIOUS
<1>4. \A i \in 1 .. Len(u) : i \in 1 .. Len(s) \/ i - Len(s) \in 1 .. Len(t)
  BY <1>1
<1>5. DOMAIN s = 1 .. Len(s) /\ DOMAIN t = 1 .. Len(t) /\ DOMAIN u = 1 .. Len(u)
  BY <1>1
<1> HIDE DEF u
<1>6. \A i \in 1 .. Len(u) : IF i \in 1 .. Len(s) THEN u[i] = s[i]
                             ELSE /\ i - Len(s) \in 1 .. Len(t)
                                  /\ u[i] = t[i - Len(s)]
  <2> TAKE i \in 1 .. Len(u)
  <2>1. CASE i \in 1 .. Len(s)
    BY <1>2, <2>1
  <2>2. CASE i \notin 1 .. Len(s)
    <3>1. i - Len(s) \in 1 .. Len(t) /\ Len(s) + (i - Len(s)) = i
      BY <1>1, <1>4, <2>2
    <3> QED BY <1>3, <2>2, <3>1
  <2> QED BY <2>1, <2>2
<1>7. Range(u) = Range(s) \cup Range(t)
  <2>1. ASSUME NEW i \in 1 .. Len(u) PROVE u[i] \in Range(s) \cup Range(t)
    BY <1>5, <1>6 DEF Range
  <2>2. ASSUME NEW i \in 1 .. Len(s) PROVE s[i] \in Range(u)
    BY <1>1, <1>2, <1>5 DEF Range
  <2>3. ASSUME NEW i \in 1 .. Len(t) PROVE t[i] \in Range(u)
    <3>1. Len(s) + i \in 1 .. Len(u)
      BY <1>1
    <3> QED BY <1>3, <1>5, <3>1 DEF Range
  <2> QED BY <1>5, <2>1, <2>2, <2>3 DEF Range
<1>8. ASSUME IsInjective(s), IsInjective(t), Range(s) \cap Range(t) = {}
      PROVE  IsInjective(u)
  <2>1. SUFFICES ASSUME NEW i \in 1 .. Len(u), NEW j \in 1 .. Len(u), u[i] = u[j]
                 PROVE  i = j
    BY <1>5 DEF IsInjective
  <2>2. \A k \in 1 .. Len(s) : s[k] \in Range(s)
    BY <1>5 DEF Range
  <2>3. \A k \in 1 .. Len(t) : t[k] \in Range(t)
    BY <1>5 DEF Range
  <2>4. CASE i \in 1 .. Len(s) /\ j \in 1 .. Len(s)
    BY <1>5, <1>6, <1>8, <2>1, <2>4 DEF IsInjective
  <2>5. CASE i \notin 1 .. Len(s) /\ j \notin 1 .. Len(s)
    <3>1. i - Len(s) = j - Len(s)
      BY <1>5, <1>6, <1>8, <2>1, <2>5 DEF IsInjective
    <3> QED BY <1>1, <3>1
  <2>6. CASE ~ (i \in 1 .. Len(s) <=> j \in 1 .. Len(s))
    BY <1>6, <1>8, <2>1, <2>2, <2>3, <2>6
  <2> QED BY <2>4, <2>5, <2>6
<1> QED BY <1>1, <1>7, <1>8 DEF u

\* The order of two lists one after the other (session.go:180-193).
LEMMA ConcatAhead ==
  ASSUME NEW X, NEW s \in Seq(X), NEW t \in Seq(X), NEW a, NEW b
  PROVE  Ahead(s \o t, a, b) <=>
           \/ Ahead(s, a, b)
           \/ a \in Range(s) /\ b \in Range(t)
           \/ Ahead(t, a, b)
<1> DEFINE u == s \o t
<1>1. u \in Seq(X) /\ Len(u) = Len(s) + Len(t) /\ Len(s) \in Nat /\ Len(t) \in Nat
  OBVIOUS
<1>2. \A i \in 1 .. Len(s) : u[i] = s[i]
  OBVIOUS
<1>3. \A i \in 1 .. Len(t) : u[Len(s) + i] = t[i]
  OBVIOUS
<1>5. DOMAIN s = 1 .. Len(s) /\ DOMAIN t = 1 .. Len(t) /\ DOMAIN u = 1 .. Len(u)
  BY <1>1
<1> HIDE DEF u
<1>6. \A i \in 1 .. Len(u) : i \notin 1 .. Len(s) =>
         i - Len(s) \in 1 .. Len(t) /\ u[i] = t[i - Len(s)]
  <2> TAKE i \in 1 .. Len(u)
  <2> HAVE i \notin 1 .. Len(s)
  <2>1. i - Len(s) \in 1 .. Len(t) /\ Len(s) + (i - Len(s)) = i
    BY <1>1
  <2> QED BY <1>3, <2>1
<1>7. ASSUME Ahead(u, a, b)
      PROVE  Ahead(s, a, b) \/ (a \in Range(s) /\ b \in Range(t)) \/ Ahead(t, a, b)
  <2>1. PICK i \in 1 .. Len(u), j \in 1 .. Len(u) : i < j /\ u[i] = a /\ u[j] = b
    BY <1>5, <1>7 DEF Ahead
  <2>2. CASE j \in 1 .. Len(s)
    <3>1. i \in 1 .. Len(s)
      BY <1>1, <2>1, <2>2
    <3> QED BY <1>2, <1>5, <2>1, <2>2, <3>1 DEF Ahead
  <2>3. CASE i \in 1 .. Len(s) /\ j \notin 1 .. Len(s)
    BY <1>2, <1>5, <1>6, <2>1, <2>3 DEF Range
  <2>4. CASE i \notin 1 .. Len(s) /\ j \notin 1 .. Len(s)
    <3>1. i - Len(s) < j - Len(s)
      BY <1>1, <2>1
    <3> QED BY <1>5, <1>6, <2>1, <2>4, <3>1 DEF Ahead
  <2> QED BY <2>2, <2>3, <2>4
<1>8. ASSUME Ahead(s, a, b) PROVE Ahead(u, a, b)
  <2>1. PICK i \in 1 .. Len(s), j \in 1 .. Len(s) : i < j /\ s[i] = a /\ s[j] = b
    BY <1>5, <1>8 DEF Ahead
  <2>2. i \in 1 .. Len(u) /\ j \in 1 .. Len(u)
    BY <1>1
  <2> QED BY <1>2, <1>5, <2>1, <2>2 DEF Ahead
<1>9. ASSUME a \in Range(s), b \in Range(t) PROVE Ahead(u, a, b)
  <2>1. PICK i \in 1 .. Len(s), j \in 1 .. Len(t) : s[i] = a /\ t[j] = b
    BY <1>5, <1>9 DEF Range
  <2>2. i \in 1 .. Len(u) /\ Len(s) + j \in 1 .. Len(u) /\ i < Len(s) + j
    BY <1>1
  <2> QED BY <1>2, <1>3, <1>5, <2>1, <2>2 DEF Ahead
<1>10. ASSUME Ahead(t, a, b) PROVE Ahead(u, a, b)
  <2>1. PICK i \in 1 .. Len(t), j \in 1 .. Len(t) : i < j /\ t[i] = a /\ t[j] = b
    BY <1>5, <1>10 DEF Ahead
  <2>2. /\ Len(s) + i \in 1 .. Len(u) /\ Len(s) + j \in 1 .. Len(u)
        /\ Len(s) + i < Len(s) + j
    BY <1>1, <2>1
  <2> QED BY <1>3, <1>5, <2>1, <2>2 DEF Ahead
<1> QED BY <1>7, <1>8, <1>9, <1>10 DEF u

\* Cutting a slice off keeps what is in front of what goes (store.go:195-226).
LEMMA FrontStays ==
  ASSUME NEW X, NEW s \in Seq(X), NEW places,
         \A i \in places, j \in 1 .. Len(s) : j <= i => j \in places,
         NEW a \in Range(Selection(s, places)),
         NEW b \in Range(s) \ Range(Selection(s, places))
  PROVE  Ahead(s, a, b)
<1>1. Range(Selection(s, places)) = {s[i] : i \in places \cap (1 .. Len(s))}
  BY SelectionFacts
<1>2. PICK i \in places \cap (1 .. Len(s)) : s[i] = a
  BY <1>1
<1>3. PICK j \in 1 .. Len(s) : s[j] = b
  BY DEF Range
<1>4. j \notin places
  BY <1>1, <1>3
<1>5. i < j
  BY <1>2, <1>3, <1>4
<1> QED BY <1>2, <1>3, <1>5 DEF Ahead

=============================================================================
