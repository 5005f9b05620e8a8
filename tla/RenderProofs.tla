---------------------------- MODULE RenderProofs ----------------------------
(***************************************************************************)
(* That rendering a body in two passes (RenderBody) does what README.md    *)
(* 104-106 says of one, for bodies and values of any size.                 *)
(***************************************************************************)
EXTENDS RenderBody, SelectionProofs, SequenceTheorems

----------------------------------------------------------------------------
(* Parts *)

\* Braces are neither of what placeholders are made of (artifact.go:11, 94).
LEMMA BracesDiffer ==
  /\ Opening # Closing /\ Opening # "$" /\ Closing # "$"
  /\ Opening # "\\" /\ Closing # "\\"
  /\ Opening \notin Blanks /\ Closing \notin Blanks
  /\ Opening \notin Letters \cup Digits /\ Closing \notin Letters \cup Digits
  /\ "$" \notin Letters \cup Digits /\ "\\" \notin Letters \cup Digits
  /\ "$" \notin Blanks /\ "\\" \notin Blanks
  /\ (Letters \cup Digits) \cap Blanks = {}
<1>1. /\ Opening # Closing /\ Opening # "$" /\ Closing # "$"
      /\ Opening # "\\" /\ Closing # "\\"
  BY Zenon DEF Opening, Closing
<1>2. /\ Opening \notin Blanks /\ Closing \notin Blanks
      /\ "$" \notin Blanks /\ "\\" \notin Blanks
  BY Zenon DEF Opening, Closing, Blanks
<1>3. /\ Opening \notin Letters \cup Digits /\ Closing \notin Letters \cup Digits
      /\ "$" \notin Letters \cup Digits /\ "\\" \notin Letters \cup Digits
      /\ (Letters \cup Digits) \cap Blanks = {}
  BY AlphabetAssumption, Zenon
<1> QED BY <1>1, <1>2, <1>3

----------------------------------------------------------------------------
(* The least and the greatest *)

\* Of some places there is a first one: the first heading (document.go:855),
\* the first value of a field, the first declaration of a name.
LEMMA MinFacts ==
  ASSUME NEW S \in SUBSET Nat, S # {}
  PROVE  Min(S) \in S /\ \A k \in S : Min(S) <= k
<1>1. \E n \in S : \A k \in S : n <= k
  BY LeastNatural
<1> QED BY <1>1 DEF Min

\* And a last one: the longest identifier a text begins with (artifact.go:148),
\* the part up to which strings.TrimSpace keeps a text.
LEMMA MaxFacts ==
  ASSUME NEW n \in Nat, NEW S \in SUBSET (1 .. n), S # {}
  PROVE  Max(S) \in S /\ \A k \in S : k <= Max(S)
<1> DEFINE T == {n - k : k \in S}
<1>1. T \in SUBSET Nat /\ T # {}
  <2>1. \A k \in S : n - k \in Nat
    <3>1. \A k \in 1 .. n : n - k \in Nat
      OBVIOUS
    <3>2. S \subseteq 1 .. n
      OBVIOUS
    <3> QED BY <3>1, <3>2
  <2> QED BY <2>1
<1>2. PICK t \in T : \A k \in T : t <= k
  <2> HIDE DEF T
  <2> QED BY <1>1, LeastNatural
<1>3. PICK m \in S : t = n - m
  OBVIOUS
<1>4. \A k \in S : m >= k
  <2> TAKE k \in S
  <2>1. n - m <= n - k
    BY <1>2, <1>3
  <2> QED BY <2>1
<1>5. Max(S) \in S /\ \A k \in S : Max(S) >= k
  BY <1>4 DEF Max
<1> QED BY <1>5
----------------------------------------------------------------------------
(* Parts of texts *)

\* The rest of a text from some place on, which the passes go through
\* (artifact.go:92, 133).
LEMMA RestFacts ==
  ASSUME NEW P, NEW s \in Seq(P), NEW i \in 1 .. Len(s) + 1
  PROVE  /\ Rest(s, i) \in Seq(P)
         /\ Len(Rest(s, i)) = Len(s) - i + 1
         /\ DOMAIN Rest(s, i) = 1 .. Len(s) - i + 1
         /\ \A j \in 1 .. Len(s) - i + 1 : Rest(s, i)[j] = s[i + j - 1]
<1>1. Len(s) \in Nat /\ \A j \in i .. Len(s) : s[j] \in P
  OBVIOUS
<1>2. /\ Rest(s, i) \in Seq(P)
      /\ Len(Rest(s, i)) = IF i <= Len(s) THEN Len(s) - i + 1 ELSE 0
      /\ \A j \in 1 .. Len(s) - i + 1 : Rest(s, i)[j] = s[i + j - 1]
  BY <1>1, SubSeqProperties DEF Rest
<1>3. (IF i <= Len(s) THEN Len(s) - i + 1 ELSE 0) = Len(s) - i + 1
  BY <1>1
<1>4. DOMAIN Rest(s, i) = 1 .. Len(Rest(s, i))
  BY <1>2, LenProperties
<1> QED BY <1>2, <1>3, <1>4

\* The rest of a rest.
LEMMA RestOfRest ==
  ASSUME NEW P, NEW s \in Seq(P), NEW i \in 1 .. Len(s) + 1,
         NEW j \in 1 .. Len(s) - i + 2
  PROVE  Rest(Rest(s, i), j) = Rest(s, i + j - 1)
<1> DEFINE r == Rest(s, i)
           t == Rest(r, j)
           u == Rest(s, i + j - 1)
<1>1. /\ r \in Seq(P) /\ Len(r) = Len(s) - i + 1 /\ Len(s) \in Nat
      /\ \A k \in 1 .. Len(s) - i + 1 : r[k] = s[i + k - 1]
  <2>1. Len(s) \in Nat
    OBVIOUS
  <2> HIDE DEF r
  <2>2. /\ r \in Seq(P) /\ Len(r) = Len(s) - i + 1
        /\ \A k \in 1 .. Len(s) - i + 1 : r[k] = s[i + k - 1]
    BY RestFacts DEF r
  <2> QED BY <2>1, <2>2
<1> HIDE DEF r
<1>2. j \in 1 .. Len(r) + 1 /\ i + j - 1 \in 1 .. Len(s) + 1
  BY <1>1
<1>3. /\ t \in Seq(P) /\ Len(t) = Len(r) - j + 1
      /\ \A k \in 1 .. Len(r) - j + 1 : t[k] = r[j + k - 1]
  BY <1>1, <1>2, RestFacts
<1>4. /\ u \in Seq(P) /\ Len(u) = Len(s) - (i + j - 1) + 1
      /\ \A k \in 1 .. Len(s) - (i + j - 1) + 1 : u[k] = s[(i + j - 1) + k - 1]
  BY <1>2, RestFacts
<1> HIDE DEF t, u
<1>5. Len(t) = Len(u)
  BY <1>1, <1>3, <1>4
<1>6. ASSUME NEW k \in 1 .. Len(t) PROVE t[k] = u[k]
  <2>1. /\ k \in 1 .. Len(r) - j + 1 /\ j + k - 1 \in 1 .. Len(s) - i + 1
        /\ k \in 1 .. Len(s) - (i + j - 1) + 1
        /\ i + (j + k - 1) - 1 = (i + j - 1) + k - 1
    BY <1>1, <1>2, <1>3
  <2> QED BY <1>1, <1>3, <1>4, <2>1
<1>7. t = u
  BY <1>3, <1>4, <1>5, <1>6, SeqEqual
<1> QED BY <1>7 DEF r, t, u

\* A text is its first part and the rest.
LEMMA FirstAndRest ==
  ASSUME NEW P, NEW s \in Seq(P), s # <<>>
  PROVE  /\ Len(s) \in Nat \ {0} /\ s[1] \in P /\ 2 \in 1 .. Len(s) + 1
         /\ s = <<s[1]>> \o Rest(s, 2)
         /\ Rest(s, 1) = s /\ Tail(s) = Rest(s, 2)
<1>1. Len(s) \in Nat \ {0} /\ 1 \in 1 .. Len(s) /\ Len(s) \in 1 .. Len(s)
  BY EmptySeq
<1>2. s[1] \in P /\ 2 \in 1 .. Len(s) + 1
  BY <1>1
<1>3. SubSeq(s, 1, Len(s)) = s
  BY SubSeqFull
<1>4. SubSeq(s, 1, Len(s)) = <<s[1]>> \o SubSeq(s, 1 + 1, Len(s))
  BY <1>1, SubSeqRecursiveFirst
<1>5. Tail(s) = SubSeq(s, 2, Len(s))
  BY TailIsSubSeq
<1> QED BY <1>1, <1>2, <1>3, <1>4, <1>5 DEF Rest

\* Texts put in front of each other.
LEMMA InFront ==
  ASSUME NEW P, NEW u \in Seq(P), NEW v \in Seq(P), NEW w \in Seq(P)
  PROVE  u \o (v \o w) = (u \o v) \o w
BY ConcatAssociative

\* What follows a text put in front.
LEMMA AfterConcat ==
  ASSUME NEW P, NEW v \in Seq(P), NEW y \in Seq(P)
  PROVE  /\ v \o y \in Seq(P) /\ Len(v \o y) = Len(v) + Len(y)
         /\ Rest(v \o y, Len(v) + 1) = y
         /\ v # <<>> => v \o y # <<>> /\ (v \o y)[1] = v[1]
         /\ \A i \in 1 .. Len(v) : (v \o y)[i] = v[i]
<1> DEFINE z == v \o y
<1>1. Len(v) \in Nat /\ Len(y) \in Nat
  OBVIOUS
<1>2. /\ z \in Seq(P) /\ Len(z) = Len(v) + Len(y)
      /\ \A i \in 1 .. Len(v) + Len(y) :
           z[i] = IF i <= Len(v) THEN v[i] ELSE y[i - Len(v)]
  BY ConcatProperties
<1> HIDE DEF z
<1>3. \A i \in 1 .. Len(v) : z[i] = v[i]
  <2>1. \A i \in 1 .. Len(v) : i \in 1 .. Len(v) + Len(y) /\ i <= Len(v)
    BY <1>1
  <2> QED BY <1>2, <2>1
<1>4. v # <<>> => z # <<>> /\ z[1] = v[1]
  <2>1. ASSUME v # <<>> PROVE z # <<>> /\ z[1] = v[1]
    <3>1. Len(v) \in Nat \ {0}
      BY <2>1, EmptySeq
    <3>2. 1 \in 1 .. Len(v) /\ Len(z) # 0
      BY <1>1, <1>2, <3>1
    <3> QED BY <1>3, <3>2
  <2> QED BY <2>1
<1>5. Rest(z, Len(v) + 1) = y
  <2> DEFINE r == Rest(z, Len(v) + 1)
  <2>1. Len(v) + 1 \in 1 .. Len(z) + 1
    BY <1>1, <1>2
  <2>2. /\ r \in Seq(P) /\ Len(r) = Len(z) - (Len(v) + 1) + 1
        /\ \A j \in 1 .. Len(z) - (Len(v) + 1) + 1 : r[j] = z[(Len(v) + 1) + j - 1]
    BY <1>2, <2>1, RestFacts
  <2> HIDE DEF r
  <2>3. Len(r) = Len(y)
    BY <1>1, <1>2, <2>2
  <2>4. ASSUME NEW j \in 1 .. Len(r) PROVE r[j] = y[j]
    <3>1. /\ j \in 1 .. Len(z) - (Len(v) + 1) + 1
          /\ (Len(v) + 1) + j - 1 \in 1 .. Len(v) + Len(y)
          /\ ~ ((Len(v) + 1) + j - 1 <= Len(v))
          /\ (Len(v) + 1) + j - 1 - Len(v) = j
      BY <1>1, <1>2, <2>3
    <3> QED BY <1>2, <2>2, <3>1
  <2>5. r = y
    BY <2>2, <2>3, <2>4, SeqEqual
  <2> QED BY <2>5 DEF r
<1> QED BY <1>2, <1>3, <1>4, <1>5 DEF z

\* Texts that agree in some places agree in the part there.
LEMMA SameParts ==
  ASSUME NEW P, NEW x \in Seq(P), NEW y \in Seq(P), NEW a \in Nat \ {0}, NEW b \in Nat,
         b <= Len(x), b <= Len(y), \A i \in a .. b : x[i] = y[i]
  PROVE  SubSeq(x, a, b) = SubSeq(y, a, b)
<1> DEFINE u == SubSeq(x, a, b)
           v == SubSeq(y, a, b)
<1>1. Len(x) \in Nat /\ Len(y) \in Nat
  OBVIOUS
<1>2. (\A i \in a .. b : x[i] \in P) /\ (\A i \in a .. b : y[i] \in P)
  BY <1>1
<1>3. /\ u \in Seq(P) /\ Len(u) = IF a <= b THEN b - a + 1 ELSE 0
      /\ \A i \in 1 .. b - a + 1 : u[i] = x[a + i - 1]
  BY <1>2, SubSeqProperties
<1>4. /\ v \in Seq(P) /\ Len(v) = IF a <= b THEN b - a + 1 ELSE 0
      /\ \A i \in 1 .. b - a + 1 : v[i] = y[a + i - 1]
  BY <1>2, SubSeqProperties
<1> HIDE DEF u, v
<1>5. ASSUME NEW i \in 1 .. Len(u) PROVE u[i] = v[i]
  <2>1. i \in 1 .. b - a + 1 /\ a + i - 1 \in a .. b
    <3>1. CASE a <= b
      BY <1>3, <3>1
    <3>2. CASE ~ (a <= b)
      BY <1>3, <3>2
    <3> QED BY <3>1, <3>2
  <2> QED BY <1>3, <1>4, <2>1
<1>6. u = v
  BY <1>3, <1>4, <1>5, SeqEqual
<1> QED BY <1>6 DEF u, v

\* The beginning of a text is its first part and the beginning of the rest.
LEMMA FrontOfRest ==
  ASSUME NEW P, NEW x \in Seq(P), NEW k \in 1 .. Len(x)
  PROVE  SubSeq(x, 1, k) = <<x[1]>> \o SubSeq(Rest(x, 2), 1, k - 1)
<1>1. Len(x) \in Nat /\ 1 \in 1 .. Len(x) /\ k \in Nat /\ k >= 1
  OBVIOUS
<1>2. SubSeq(x, 1, k) = <<x[1]>> \o SubSeq(x, 1 + 1, k)
  BY <1>1, SubSeqRecursiveFirst
<1>3. CASE k = 1
  <2>1. SubSeq(x, 2, 1) = <<>> /\ SubSeq(Rest(x, 2), 1, 0) = <<>>
    BY SubSeqEmpty
  <2> QED BY <1>2, <1>3, <2>1
<1>4. CASE k # 1
  <2>1. /\ 2 \in 1 .. Len(x) /\ Len(x) \in 1 .. Len(x)
        /\ 1 \in 1 .. Len(x) - 2 + 1 /\ k - 1 \in 1 .. Len(x) - 2 + 1
        /\ 2 + 1 - 1 = 2 /\ 2 + (k - 1) - 1 = k
    BY <1>1, <1>4
  <2>2. SubSeq(SubSeq(x, 2, Len(x)), 1, k - 1) = SubSeq(x, 2 + 1 - 1, 2 + (k - 1) - 1)
    BY <2>1, SubSeqOfSubSeq
  <2> QED BY <1>2, <2>1, <2>2 DEF Rest
<1> QED BY <1>3, <1>4

\* What is in the rest of a text is in the text.
LEMMA RangeOfRest ==
  ASSUME NEW P, NEW s \in Seq(P), NEW i \in 1 .. Len(s) + 1
  PROVE  Range(Rest(s, i)) \subseteq Range(s)
<1>1. /\ DOMAIN Rest(s, i) = 1 .. Len(s) - i + 1
      /\ \A j \in 1 .. Len(s) - i + 1 : Rest(s, i)[j] = s[i + j - 1]
  BY RestFacts
<1>2. \A j \in 1 .. Len(s) - i + 1 : i + j - 1 \in DOMAIN s
  <2>1. Len(s) \in Nat /\ DOMAIN s = 1 .. Len(s)
    OBVIOUS
  <2>2. \A j \in 1 .. Len(s) - i + 1 : i + j - 1 \in 1 .. Len(s)
    BY <2>1
  <2> QED BY <2>1, <2>2
<1> QED BY <1>1, <1>2 DEF Range

----------------------------------------------------------------------------
(* A pass *)

EmptyResult == [text |-> <<>>, unknown |-> {}]

\* What a step writes in front of the rest.
Joined(step, rest) ==
  [text |-> step.text \o rest.text, unknown |-> step.unknown \cup rest.unknown]

\* The text and the names of what is joined (artifact.go:114, 133).
LEMMA JoinedFacts ==
  /\ EmptyResult.text = <<>> /\ EmptyResult.unknown = {}
  /\ \A step, rest : /\ Joined(step, rest).text = step.text \o rest.text
                     /\ Joined(step, rest).unknown = step.unknown \cup rest.unknown
BY DEF EmptyResult, Joined

\* Every step goes on, and no further than the end.
Fitting(steps) ==
  \A i \in 1 .. Len(steps) :
    /\ steps[i].size \in Nat \ {0}
    /\ i + steps[i].size <= Len(steps) + 1

\* from has what is made of the text from each place on.
PassLoop(from, steps, low) ==
  /\ from[Len(steps) + 1] = EmptyResult
  /\ \A i \in low .. Len(steps) :
       from[i] = Joined(steps[i], from[i + steps[i].size])

\* The loops of the two passes (artifact.go:92, 133) end: there is a result
\* from every place on.
LEMMA PassLoops ==
  ASSUME NEW steps, Len(steps) \in Nat, Fitting(steps)
  PROVE  \E from : PassLoop(from, steps, 1) /\ Pass(steps) = from[1]
<1> DEFINE n == Len(steps)
           Rule(f, i) == IF i > n THEN EmptyResult
                         ELSE Joined(steps[i], f[i + steps[i].size])
           Rec(f) == [i \in 1 .. n + 1 |-> Rule(f, i)]
           sel == CHOOSE f : f = Rec(f)
           S == {k \in Nat : k <= n =>
                   \E f : f = [i \in 1 .. n + 1 |-> f[i]] /\ PassLoop(f, steps, n + 1 - k)}
<1>1. Pass(steps) = sel[1]
  BY DEF Pass, EmptyResult, Joined
<1>2. 0 \in S
  <2> DEFINE g == [i \in 1 .. n + 1 |-> EmptyResult]
  <2>1. g = [i \in 1 .. n + 1 |-> g[i]] /\ g[n + 1] = EmptyResult
    OBVIOUS
  <2>2. n + 1 - 0 = n + 1 /\ (n + 1) .. n = {}
    OBVIOUS
  <2>3. PassLoop(g, steps, n + 1 - 0)
    BY <2>1, <2>2 DEF PassLoop
  <2> QED BY <2>1, <2>3
<1>3. ASSUME NEW k \in S PROVE k + 1 \in S
  <2>1. SUFFICES ASSUME k + 1 <= n
                 PROVE  \E f : /\ f = [i \in 1 .. n + 1 |-> f[i]]
                               /\ PassLoop(f, steps, n + 1 - (k + 1))
    OBVIOUS
  <2>2. k \in Nat /\ k <= n
    BY <2>1
  <2>3. PICK f : f = [i \in 1 .. n + 1 |-> f[i]] /\ PassLoop(f, steps, n + 1 - k)
    BY <2>2
  <2> DEFINE at == n - k
             new == Joined(steps[at], f[at + steps[at].size])
             g == [i \in 1 .. n + 1 |-> IF i = at THEN new ELSE f[i]]
  <2>4. at \in 1 .. n /\ n + 1 - (k + 1) = at /\ n + 1 - k = at + 1
    BY <2>1, <2>2
  <2> HIDE DEF new
  <2>5. g = [i \in 1 .. n + 1 |-> g[i]]
    OBVIOUS
  <2>6. g[n + 1] = EmptyResult
    BY <2>3, <2>4 DEF PassLoop
  <2>7. ASSUME NEW i \in at .. n PROVE g[i] = Joined(steps[i], g[i + steps[i].size])
    <3> DEFINE next == i + steps[i].size
    <3>1. next \in 1 .. n + 1 /\ next > i
      BY <2>4 DEF Fitting
    <3> HIDE DEF next
    <3>2. g[next] = f[next]
      BY <2>4, <3>1
    <3>3. CASE i = at
      <4>1. g[i] = new
        BY <2>4, <3>3
      <4> QED BY <3>2, <3>3, <4>1 DEF new, next
    <3>4. CASE i # at
      <4>1. g[i] = f[i] /\ i \in at + 1 .. n
        BY <2>4, <3>4
      <4>2. f[i] = Joined(steps[i], f[next])
        BY <2>3, <2>4, <4>1 DEF PassLoop, next
      <4> QED BY <3>2, <4>1, <4>2 DEF next
    <3> QED BY <3>3, <3>4
  <2> HIDE DEF g
  <2>8. PassLoop(g, steps, n + 1 - (k + 1))
    BY <2>4, <2>6, <2>7 DEF PassLoop
  <2> QED BY <2>5, <2>8
<1>4. S = Nat
  <2> HIDE DEF S
  <2>1. S \in SUBSET Nat
    BY DEF S
  <2> QED BY <1>2, <1>3, <2>1, SetInduction
<1>5. PICK f : f = [i \in 1 .. n + 1 |-> f[i]] /\ PassLoop(f, steps, 1)
  <2>1. n \in S
    BY <1>4
  <2>2. n <= n /\ n + 1 - n = 1
    OBVIOUS
  <2> QED BY <2>1, <2>2
<1>6. f = Rec(f)
  <2>1. ASSUME NEW i \in 1 .. n + 1 PROVE f[i] = Rule(f, i)
    <3>1. CASE i > n
      <4>1. i = n + 1
        BY <3>1
      <4> QED BY <1>5, <3>1, <4>1 DEF PassLoop
    <3>2. CASE ~ (i > n)
      <4>1. i \in 1 .. n
        BY <3>2
      <4> QED BY <1>5, <3>2, <4>1 DEF PassLoop
    <3> QED BY <3>1, <3>2
  <2> HIDE DEF Rule
  <2> QED BY <1>5, <2>1
<1>7. sel = Rec(sel)
  <2> HIDE DEF Rec
  <2> QED BY <1>6
<1> HIDE DEF sel
<1>8. \A i \in 1 .. n + 1 : sel[i] = Rule(sel, i)
  <2> HIDE DEF Rule
  <2> QED BY <1>7
<1>9. sel[n + 1] = EmptyResult
  <2>1. n + 1 \in 1 .. n + 1 /\ n + 1 > n
    OBVIOUS
  <2> QED BY <1>8, <2>1
<1>10. ASSUME NEW i \in 1 .. n PROVE sel[i] = Joined(steps[i], sel[i + steps[i].size])
  <2>1. i \in 1 .. n + 1 /\ ~ (i > n)
    OBVIOUS
  <2> QED BY <1>8, <2>1
<1> QED BY <1>1, <1>9, <1>10 DEF PassLoop

\* The loop of a pass is the same for what is left of the text, wherever it
\* is: no round looks back (artifact.go:92, 133).
LEMMA PassLater ==
  ASSUME NEW steps, Len(steps) \in Nat, NEW later, Len(later) \in Nat,
         Fitting(later), NEW d \in Nat, Len(steps) = Len(later) + d,
         \A i \in 1 .. Len(later) : later[i] = steps[i + d],
         NEW f, PassLoop(f, steps, 1), NEW g, PassLoop(g, later, 1)
  PROVE  \A i \in 1 .. Len(later) + 1 : f[i + d] = g[i]
<1> DEFINE n == Len(later)
           S == {k \in Nat : \A i \in 1 .. n + 1 : n + 1 - i <= k => f[i + d] = g[i]}
<1>1. 0 \in S
  <2>1. \A i \in 1 .. n + 1 : n + 1 - i <= 0 => i = n + 1
    OBVIOUS
  <2>2. f[n + 1 + d] = g[n + 1]
    <3>1. n + 1 + d = Len(steps) + 1
      OBVIOUS
    <3> QED BY <3>1 DEF PassLoop
  <2> QED BY <2>1, <2>2
<1>2. ASSUME NEW k \in S PROVE k + 1 \in S
  <2>1. k \in Nat /\ \A i \in 1 .. n + 1 : n + 1 - i <= k => f[i + d] = g[i]
    OBVIOUS
  <2>2. ASSUME NEW i \in 1 .. n + 1, n + 1 - i = k + 1 PROVE f[i + d] = g[i]
    <3> DEFINE size == later[i].size
    <3>1. i \in 1 .. n
      BY <2>1, <2>2
    <3>2. size \in Nat \ {0} /\ i + size <= n + 1
      BY <3>1 DEF Fitting
    <3>3. later[i] = steps[i + d] /\ i + d \in 1 .. Len(steps)
      BY <3>1
    <3>4. f[i + d] = Joined(later[i], f[i + d + size])
      BY <3>3 DEF PassLoop
    <3>5. g[i] = Joined(later[i], g[i + size])
      BY <3>1 DEF PassLoop
    <3> HIDE DEF size
    <3>6. i + size \in 1 .. n + 1 /\ n + 1 - (i + size) <= k /\ i + size + d = i + d + size
      BY <2>1, <2>2, <3>1, <3>2
    <3>7. f[i + d + size] = g[i + size]
      BY <2>1, <3>6
    <3> QED BY <3>4, <3>5, <3>7
  <2>3. ASSUME NEW i \in 1 .. n + 1, n + 1 - i <= k + 1 PROVE f[i + d] = g[i]
    <3>1. n + 1 - i <= k \/ n + 1 - i = k + 1
      BY <2>1, <2>3
    <3> QED BY <2>1, <2>2, <3>1
  <2> QED BY <2>1, <2>3
<1>3. S = Nat
  <2> HIDE DEF S
  <2>1. S \in SUBSET Nat
    BY DEF S
  <2> QED BY <1>1, <1>2, <2>1, SetInduction
<1>4. ASSUME NEW i \in 1 .. n + 1 PROVE f[i + d] = g[i]
  <2>1. n + 1 - i \in Nat
    OBVIOUS
  <2> HIDE DEF n
  <2>2. n + 1 - i \in S
    BY <1>3, <2>1
  <2> QED BY <2>1, <2>2
<1> QED BY <1>4

\* A pass is its first step and a pass over what that leaves.
LEMMA PassUnfolds ==
  ASSUME NEW steps, Len(steps) \in Nat \ {0}, Fitting(steps),
         NEW later, Len(later) = Len(steps) - steps[1].size,
         \A i \in 1 .. Len(later) : later[i] = steps[i + steps[1].size]
  PROVE  Pass(steps) = Joined(steps[1], Pass(later))
<1> DEFINE d == steps[1].size
<1>1. d \in Nat \ {0} /\ 1 + d <= Len(steps) + 1 /\ 1 \in 1 .. Len(steps)
  BY DEF Fitting
<1> HIDE DEF d
<1>2. Len(later) = Len(steps) - d /\ \A i \in 1 .. Len(later) : later[i] = steps[i + d]
  BY DEF d
<1>3. Len(later) \in Nat /\ Len(steps) = Len(later) + d
  BY <1>1, <1>2
<1>4. Fitting(later)
  <2>1. ASSUME NEW i \in 1 .. Len(later)
        PROVE  later[i].size \in Nat \ {0} /\ i + later[i].size <= Len(later) + 1
    <3>1. i + d \in 1 .. Len(steps) /\ later[i] = steps[i + d]
      BY <1>1, <1>2, <1>3
    <3> DEFINE size == later[i].size
    <3>2. size \in Nat \ {0} /\ i + d + size <= Len(steps) + 1
      BY <3>1 DEF Fitting
    <3> HIDE DEF size
    <3>3. i + size <= Len(later) + 1
      BY <1>1, <1>3, <3>2
    <3> QED BY <3>2, <3>3 DEF size
  <2> QED BY <2>1 DEF Fitting
<1>5. PICK f : PassLoop(f, steps, 1) /\ Pass(steps) = f[1]
  BY PassLoops
<1>6. PICK g : PassLoop(g, later, 1) /\ Pass(later) = g[1]
  BY <1>3, <1>4, PassLoops
<1>7. f[1 + d] = g[1]
  <2>1. 1 \in 1 .. Len(later) + 1 /\ d \in Nat /\ Len(steps) \in Nat
    BY <1>1, <1>3
  <2> QED BY <1>2, <1>3, <1>4, <1>5, <1>6, <2>1, PassLater, SMTT(20)
<1>8. f[1] = Joined(steps[1], f[1 + d])
  BY <1>1, <1>5 DEF PassLoop, d
<1> QED BY <1>5, <1>6, <1>7, <1>8

\* Of an empty text a pass makes nothing.
LEMMA PassOfNothing ==
  ASSUME NEW steps, Len(steps) = 0
  PROVE  Pass(steps) = EmptyResult
<1>1. Len(steps) \in Nat /\ Fitting(steps)
  BY DEF Fitting
<1>2. PICK f : PassLoop(f, steps, 1) /\ Pass(steps) = f[1]
  BY <1>1, PassLoops
<1>3. f[0 + 1] = EmptyResult
  BY <1>2 DEF PassLoop
<1> QED BY <1>2, <1>3

----------------------------------------------------------------------------
(* Steps *)

Steps(P) == [text : Seq(P), size : Nat \ {0}, unknown : SUBSET Seq(P)]

Results(P) == [text : Seq(P), unknown : SUBSET Seq(P)]

\* What placeholders are replaced by are texts.
Filling(declared, P) == \A n \in DOMAIN declared : declared[n] \in Seq(P)

\* scanIdentifier (artifact.go:148) finds a beginning of the text that is made
\* of letters and digits.
LEMMA IdentifierFacts ==
  ASSUME NEW P, NEW s \in Seq(P), Identifier(s) # <<>>
  PROVE  \E n \in 1 .. Len(s) :
           /\ Identifier(s) = SubSeq(s, 1, n) /\ Len(Identifier(s)) = n
           /\ \A i \in 1 .. n : s[i] \in Letters \cup Digits
<1> DEFINE runs == {n \in DOMAIN s : IsValidSkillArgumentName(SubSeq(s, 1, n))}
<1>1. runs # {} /\ Identifier(s) = SubSeq(s, 1, Max(runs))
  BY DEF Identifier
<1>2. Len(s) \in Nat /\ runs \in SUBSET (1 .. Len(s))
  OBVIOUS
<1>3. \A n \in runs : IsValidSkillArgumentName(SubSeq(s, 1, n))
  OBVIOUS
<1> HIDE DEF runs
<1>4. Max(runs) \in runs
  BY <1>1, <1>2, MaxFacts
<1> DEFINE n == Max(runs)
           t == SubSeq(s, 1, n)
<1>5. n \in 1 .. Len(s) /\ IsValidSkillArgumentName(t)
  BY <1>2, <1>3, <1>4
<1> HIDE DEF n
<1>6. /\ t \in Seq(P) /\ Len(t) = IF 1 <= n THEN n - 1 + 1 ELSE 0
      /\ \A i \in 1 .. n - 1 + 1 : t[i] = s[1 + i - 1]
  <2>1. \A i \in 1 .. n : s[i] \in P
    BY <1>2, <1>5
  <2> QED BY <1>2, <1>5, <2>1, SubSeqProperties
<1> HIDE DEF t
<1>7. Len(t) = n /\ DOMAIN t = 1 .. n /\ \A i \in 1 .. n : t[i] = s[i]
  BY <1>2, <1>5, <1>6
<1>8. \A i \in 1 .. n : s[i] \in Letters \cup Digits
  <2>1. \A i \in DOMAIN t : t[i] \in Letters \cup Digits
    BY <1>5 DEF IsValidSkillArgumentName, Range
  <2> QED BY <1>7, <2>1
<1> QED BY <1>1, <1>5, <1>7, <1>8 DEF n, t

\* What is written where a placeholder was (artifact.go:113-120, 139-144).
LEMMA FilledFacts ==
  ASSUME NEW P, NEW s \in Seq(P), NEW declared, Filling(declared, P),
         NEW name \in Seq(P), NEW size \in 1 .. Len(s)
  PROVE  /\ Filled(s, name, size, declared) \in Steps(P)
         /\ Filled(s, name, size, declared).size = size
         /\ Filled(s, name, size, declared).text
              = IF name \in DOMAIN declared THEN declared[name] ELSE SubSeq(s, 1, size)
<1>1. SubSeq(s, 1, size) \in Seq(P)
  <2>1. Len(s) \in Nat /\ \A i \in 1 .. size : s[i] \in P
    OBVIOUS
  <2> QED BY <2>1, SubSeqProperties
<1>2. size \in Nat \ {0}
  OBVIOUS
<1>3. CASE name \in DOMAIN declared
  <2>1. declared[name] \in Seq(P)
    BY <1>3 DEF Filling
  <2> QED BY <1>2, <1>3, <2>1 DEF Filled, Steps
<1>4. CASE name \notin DOMAIN declared
  BY <1>1, <1>2, <1>4 DEF Filled, Steps
<1> QED BY <1>3, <1>4

\* What is kept of a text that begins with no placeholder.
LEMMA KeptFacts ==
  ASSUME NEW P, NEW s \in Seq(P), s # <<>>
  PROVE  /\ Kept(s) \in Steps(P)
         /\ Kept(s).size = 1 /\ Kept(s).text = <<s[1]>> /\ Kept(s).unknown = {}
         /\ Len(s) \in Nat \ {0}
<1>1. s[1] \in P /\ Len(s) \in Nat \ {0}
  BY FirstAndRest
<1>2. <<s[1]>> \in Seq(P)
  BY <1>1
<1> DEFINE t == <<s[1]>>
<1> HIDE DEF t
<1> QED BY <1>1, <1>2 DEF Kept, Steps, t

\* The round of the dollar pass (artifact.go:93-121): where there is neither a
\* dollar nor a backslash the text is kept, and braces come from braces only.
LEMMA DollarFacts ==
  ASSUME NEW P, NEW s \in Seq(P), s # <<>>, NEW declared, Filling(declared, P)
  PROVE  /\ DollarStep(s, declared) \in Steps(P)
         /\ DollarStep(s, declared).size <= Len(s)
         /\ s[1] # "$" /\ ~ (s[1] = "\\" /\ Len(s) > 1 /\ s[2] = "$")
              => DollarStep(s, declared) = Kept(s)
         /\ \A c \in {Opening, Closing} :
              /\ c \in Range(DollarStep(s, declared).text)
              /\ \A n \in DOMAIN declared : c \notin Range(declared[n])
              => s[1] = c
<1> DEFINE p == DollarStep(s, declared)
           name == Identifier(Tail(s))
           escaped == s[1] = "\\" /\ Len(s) > 1 /\ s[2] = "$"
           Good == /\ p \in Steps(P)
                   /\ p.size <= Len(s)
                   /\ s[1] # "$" /\ ~ escaped => p = Kept(s)
                   /\ \A c \in {Opening, Closing} :
                        /\ c \in Range(p.text)
                        /\ \A n \in DOMAIN declared : c \notin Range(declared[n])
                        => s[1] = c
<1>1. /\ Len(s) \in Nat \ {0} /\ s[1] \in P /\ 2 \in 1 .. Len(s) + 1
      /\ Tail(s) = Rest(s, 2)
  BY FirstAndRest
<1>2. /\ Rest(s, 2) \in Seq(P) /\ Len(Rest(s, 2)) = Len(s) - 2 + 1
      /\ \A j \in 1 .. Len(s) - 2 + 1 : Rest(s, 2)[j] = s[2 + j - 1]
  BY <1>1, RestFacts
<1>3. p = IF escaped THEN Unescaped
          ELSE IF s[1] = "$" /\ name # <<>>
          THEN Filled(s, name, 1 + Len(name), declared)
          ELSE Kept(s)
  BY DEF DollarStep
<1>4. \A c : Range(<<c>>) = {c}
  BY DEF Range
<1>q. SUFFICES Good
  OBVIOUS
<1> HIDE DEF p, name
<1>5. CASE escaped
  <2>1. "$" \in P
    <3>1. 2 \in 1 .. Len(s)
      BY <1>1, <1>5
    <3>2. s[2] \in P
      BY <3>1
    <3> QED BY <1>5, <3>2
  <2> DEFINE t == <<"$">>
  <2>2. t \in Seq(P)
    BY <2>1
  <2>3. Range(t) = {"$"}
    BY <1>4
  <2> HIDE DEF t
  <2>4. p = [text |-> t, size |-> 2, unknown |-> {}]
    BY <1>3, <1>5 DEF Unescaped, t
  <2>5. p \in Steps(P) /\ p.size <= Len(s)
    BY <1>1, <1>5, <2>2, <2>4 DEF Steps
  <2>6. Range(p.text) = {"$"}
    BY <2>3, <2>4
  <2>7. \A c \in {Opening, Closing} : c \notin Range(p.text)
    BY <2>6, BracesDiffer
  <2> QED BY <1>5, <2>5, <2>7
<1>6. CASE ~ escaped /\ s[1] = "$" /\ name # <<>>
  <2>1. PICK n \in 1 .. Len(Rest(s, 2)) :
          /\ name = SubSeq(Rest(s, 2), 1, n) /\ Len(name) = n
          /\ \A i \in 1 .. n : Rest(s, 2)[i] \in Letters \cup Digits
    BY <1>1, <1>2, <1>6, IdentifierFacts DEF name
  <2>2. n \in Nat \ {0} /\ n <= Len(s) - 1 /\ 1 + n \in 1 .. Len(s)
    BY <1>1, <1>2, <2>1
  <2>3. name \in Seq(P)
    <3>1. \A i \in 1 .. n : Rest(s, 2)[i] \in P
      BY <1>2, <2>1
    <3> QED BY <2>1, <2>2, <3>1, SubSeqProperties
  <2>4. p = Filled(s, name, 1 + n, declared)
    BY <1>3, <1>6, <2>1
  <2>5. /\ p \in Steps(P) /\ p.size = 1 + n
        /\ p.text = IF name \in DOMAIN declared THEN declared[name]
                    ELSE SubSeq(s, 1, 1 + n)
    BY <2>2, <2>3, <2>4, FilledFacts
  <2>6. \A i \in 1 .. 1 + n : s[i] \notin {Opening, Closing}
    <3>1. \A i \in 2 .. 1 + n : s[i] \in Letters \cup Digits
      <4>1. ASSUME NEW i \in 2 .. 1 + n PROVE s[i] \in Letters \cup Digits
        <5>1. i - 1 \in 1 .. n /\ i - 1 \in 1 .. Len(s) - 2 + 1 /\ 2 + (i - 1) - 1 = i
          BY <1>1, <2>2
        <5> QED BY <1>2, <2>1, <5>1
      <4> QED BY <4>1
    <3>2. \A i \in 1 .. 1 + n : i = 1 \/ i \in 2 .. 1 + n
      BY <2>2
    <3> QED BY <1>6, <3>1, <3>2, BracesDiffer
  <2>7. Range(SubSeq(s, 1, 1 + n)) \cap {Opening, Closing} = {}
    <3> DEFINE t == SubSeq(s, 1, 1 + n)
    <3>1. \A i \in 1 .. 1 + n : s[i] \in P
      BY <1>1, <2>2
    <3>2. /\ t \in Seq(P)
          /\ Len(t) = IF 1 <= 1 + n THEN 1 + n - 1 + 1 ELSE 0
          /\ \A i \in 1 .. 1 + n - 1 + 1 : t[i] = s[1 + i - 1]
      BY <2>2, <3>1, SubSeqProperties
    <3> HIDE DEF t
    <3>3. DOMAIN t = 1 .. 1 + n /\ \A i \in 1 .. 1 + n : t[i] = s[i]
      BY <2>2, <3>2
    <3>4. Range(t) \cap {Opening, Closing} = {}
      BY <2>6, <3>3 DEF Range
    <3> QED BY <3>4 DEF t
  <2>8. p.size <= Len(s)
    BY <2>2, <2>5
  <2>9. ASSUME NEW c \in {Opening, Closing}, c \in Range(p.text),
               \A m \in DOMAIN declared : c \notin Range(declared[m])
        PROVE  FALSE
    <3>1. CASE name \in DOMAIN declared
      BY <2>5, <2>9, <3>1
    <3>2. CASE name \notin DOMAIN declared
      BY <2>5, <2>7, <2>9, <3>2
    <3> QED BY <3>1, <3>2
  <2> QED BY <1>6, <2>5, <2>8, <2>9
<1>7. CASE ~ escaped /\ ~ (s[1] = "$" /\ name # <<>>)
  <2>1. p = Kept(s)
    BY <1>3, <1>7
  <2>2. p \in Steps(P) /\ p.size = 1 /\ p.text = <<s[1]>>
    BY <2>1, KeptFacts
  <2>3. Range(p.text) = {s[1]}
    BY <1>4, <2>2
  <2>4. p.size <= Len(s)
    BY <1>1, <2>2
  <2>5. ASSUME NEW c \in {Opening, Closing}, c \in Range(p.text) PROVE s[1] = c
    BY <2>3, <2>5
  <2> QED BY <2>1, <2>2, <2>4, <2>5
<1> QED BY <1>5, <1>6, <1>7

\* Where braces begin there is one placeholder at most: the regular expression
\* (artifact.go:11) matches in one way.
LEMMA BracedOnce ==
  ASSUME NEW P, NEW s \in Seq(P), NEW a \in 2 .. Len(s), NEW b \in 2 .. Len(s),
         NEW e \in 2 .. Len(s), Braced(s, a, b, e)
  PROVE  /\ a <= b
         /\ \A i \in 2 .. a - 1 : s[i] \in Blanks
         /\ \A i \in a .. b : s[i] \in Letters \cup Digits
         /\ \A i \in b + 1 .. e - 1 : s[i] \in Blanks
         /\ SubSeq(s, a, b) \in Seq(P)
         /\ Len(SubSeq(s, a, b)) = b - a + 1
         /\ \A k \in 1 .. b - a + 1 : SubSeq(s, a, b)[k] = s[a + k - 1]
<1> DEFINE t == SubSeq(s, a, b)
<1>1. /\ IsValidSkillArgumentName(t)
      /\ \A i \in 2 .. a - 1 : s[i] \in Blanks
      /\ \A i \in b + 1 .. e - 1 : s[i] \in Blanks
  BY DEF Braced
<1>2. Len(s) \in Nat /\ a \in Nat /\ b \in Nat /\ \A i \in a .. b : s[i] \in P
  OBVIOUS
<1>3. /\ t \in Seq(P) /\ Len(t) = IF a <= b THEN b - a + 1 ELSE 0
      /\ \A k \in 1 .. b - a + 1 : t[k] = s[a + k - 1]
  BY <1>2, SubSeqProperties
<1> HIDE DEF t
<1>4. t # <<>>
  BY <1>1 DEF IsValidSkillArgumentName
<1>5. Len(t) \in Nat \ {0}
  BY <1>3, <1>4, EmptySeq
<1>6. a <= b
  BY <1>2, <1>3, <1>5
<1>7. DOMAIN t = 1 .. b - a + 1
  BY <1>2, <1>3, <1>6
<1>8. ASSUME NEW i \in a .. b PROVE s[i] \in Letters \cup Digits
  <2>1. i - a + 1 \in DOMAIN t /\ a + (i - a + 1) - 1 = i
    BY <1>2, <1>7
  <2>2. t[i - a + 1] = s[i]
    BY <1>3, <1>7, <2>1
  <2> QED BY <1>1, <2>1, <2>2 DEF IsValidSkillArgumentName, Range
<1> QED BY <1>1, <1>3, <1>6, <1>8 DEF t

\* Two placeholders that begin at the same braces are one.
LEMMA BracedUniquely ==
  ASSUME NEW P, NEW s \in Seq(P),
         NEW a \in 2 .. Len(s), NEW b \in 2 .. Len(s), NEW e \in 2 .. Len(s),
         NEW c \in 2 .. Len(s), NEW d \in 2 .. Len(s), NEW f \in 2 .. Len(s),
         Braced(s, a, b, e), Braced(s, c, d, f)
  PROVE  a = c /\ b = d /\ e = f
<1>1. /\ a <= b /\ b < e /\ s[e] = Closing
      /\ \A i \in 2 .. a - 1 : s[i] \in Blanks
      /\ \A i \in a .. b : s[i] \in Letters \cup Digits
      /\ \A i \in b + 1 .. e - 1 : s[i] \in Blanks
  BY BracedOnce DEF Braced
<1>2. /\ c <= d /\ d < f /\ s[f] = Closing
      /\ \A i \in 2 .. c - 1 : s[i] \in Blanks
      /\ \A i \in c .. d : s[i] \in Letters \cup Digits
      /\ \A i \in d + 1 .. f - 1 : s[i] \in Blanks
  BY BracedOnce DEF Braced
<1>3. /\ \A i : s[i] \in Letters \cup Digits => s[i] \notin Blanks /\ s[i] # Closing
      /\ Closing \notin Blanks
  BY BracesDiffer
<1>4. /\ a \in Nat /\ b \in Nat /\ c \in Nat /\ d \in Nat /\ e \in Nat /\ f \in Nat
      /\ 2 <= a /\ a <= b /\ b < e /\ 2 <= c /\ c <= d /\ d < f
  <2>1. \A i \in 2 .. Len(s) : i \in Nat /\ 2 <= i
    <3>1. Len(s) \in Nat
      OBVIOUS
    <3> QED BY <3>1
  <2>2. a <= b /\ b < e /\ c <= d /\ d < f
    BY <1>1, <1>2
  <2> QED BY <2>1, <2>2
<1>5. a = c
  <2>1. ~ (a < c)
    <3>1. a < c => a \in 2 .. c - 1 /\ a \in a .. b
      BY <1>4
    <3> QED BY <1>1, <1>2, <1>3, <3>1
  <2>2. ~ (c < a)
    <3>1. c < a => c \in 2 .. a - 1 /\ c \in c .. d
      BY <1>4
    <3> QED BY <1>1, <1>2, <1>3, <3>1
  <2> QED BY <1>4, <2>1, <2>2
<1>6. b = d
  <2>1. ~ (b < d)
    <3>1. b < d => /\ b + 1 \in c .. d
                   /\ b + 1 = e \/ b + 1 \in b + 1 .. e - 1
      BY <1>4, <1>5
    <3> QED BY <1>1, <1>2, <1>3, <3>1
  <2>2. ~ (d < b)
    <3>1. d < b => /\ d + 1 \in a .. b
                   /\ d + 1 = f \/ d + 1 \in d + 1 .. f - 1
      BY <1>4, <1>5
    <3> QED BY <1>1, <1>2, <1>3, <3>1
  <2> QED BY <1>4, <2>1, <2>2
<1>7. e = f
  <2>1. ~ (e < f)
    <3>1. e < f => e \in d + 1 .. f - 1
      BY <1>4, <1>6
    <3> QED BY <1>1, <1>2, <1>3, <3>1
  <2>2. ~ (f < e)
    <3>1. f < e => f \in b + 1 .. e - 1
      BY <1>4, <1>6
    <3> QED BY <1>1, <1>2, <1>3, <3>1
  <2> QED BY <1>4, <2>1, <2>2
<1> QED BY <1>5, <1>6, <1>7

\* The step of the braces pass (artifact.go:133-145).
LEMMA BracesFacts ==
  ASSUME NEW P, NEW s \in Seq(P), s # <<>>, NEW declared, Filling(declared, P)
  PROVE  /\ BracesStep(s, declared) \in Steps(P)
         /\ BracesStep(s, declared).size <= Len(s)
         /\ \/ s[1] # Opening
            \/ \A a, b, e \in 2 .. Len(s) : ~ Braced(s, a, b, e)
            => BracesStep(s, declared) = Kept(s)
         /\ s[1] = Opening =>
              \A a, b, e \in 2 .. Len(s) :
                Braced(s, a, b, e) =>
                  BracesStep(s, declared) = Filled(s, SubSeq(s, a, b), e, declared)
<1> DEFINE p == BracesStep(s, declared)
           places == 2 .. Len(s)
           found == {q \in places \X places \X places : Braced(s, q[1], q[2], q[3])}
           q == CHOOSE q \in found : TRUE
<1>1. Len(s) \in Nat \ {0}
  BY EmptySeq
<1>2. p = IF s[1] # Opening \/ found = {} THEN Kept(s)
          ELSE Filled(s, SubSeq(s, q[1], q[2]), q[3], declared)
  BY DEF BracesStep
<1>3. \A a, b, e \in places : Braced(s, a, b, e) => <<a, b, e>> \in found
  OBVIOUS
<1>4. \A r \in found : /\ r[1] \in places /\ r[2] \in places /\ r[3] \in places
                       /\ Braced(s, r[1], r[2], r[3])
  OBVIOUS
<1> HIDE DEF p, found
<1>5. found # {} => q \in found
  OBVIOUS
<1> HIDE DEF q
<1>6. CASE s[1] # Opening \/ found = {}
  <2>1. p = Kept(s)
    BY <1>2, <1>6
  <2>2. p \in Steps(P) /\ p.size <= Len(s)
    BY <1>1, <2>1, KeptFacts
  <2>3. s[1] = Opening => \A a, b, e \in places : ~ Braced(s, a, b, e)
    BY <1>3, <1>6
  <2> QED BY <2>1, <2>2, <2>3 DEF p
<1>7. CASE s[1] = Opening /\ found # {}
  <2>1. /\ q[1] \in places /\ q[2] \in places /\ q[3] \in places
        /\ Braced(s, q[1], q[2], q[3])
    BY <1>4, <1>5, <1>7
  <2> DEFINE name == SubSeq(s, q[1], q[2])
  <2>2. p = Filled(s, name, q[3], declared)
    BY <1>2, <1>7
  <2>3. name \in Seq(P)
    BY <2>1, BracedOnce
  <2>4. q[3] \in 1 .. Len(s)
    BY <1>1, <2>1
  <2> HIDE DEF name
  <2>5. p \in Steps(P) /\ p.size = q[3]
    BY <2>2, <2>3, <2>4, FilledFacts
  <2>6. p.size <= Len(s)
    BY <1>1, <2>4, <2>5
  <2>7. ASSUME NEW a \in places, NEW b \in places, NEW e \in places, Braced(s, a, b, e)
        PROVE  p = Filled(s, SubSeq(s, a, b), e, declared)
    <3>1. a = q[1] /\ b = q[2] /\ e = q[3]
      BY <2>1, <2>7, BracedUniquely
    <3> QED BY <2>2, <3>1 DEF name
  <2>8. ~ \A a, b, e \in places : ~ Braced(s, a, b, e)
    BY <2>1
  <2> QED BY <1>7, <2>5, <2>6, <2>7, <2>8 DEF p
<1> QED BY <1>6, <1>7

----------------------------------------------------------------------------
(* Passes over texts *)

\* The pass with the given step for every text that is not empty.
Run(step, s) == Pass([i \in DOMAIN s |-> step[Rest(s, i)]])

\* A step for every text, that takes no more than there is.
Stepping(step, P) ==
  /\ step \in [Seq(P) \ {<<>>} -> Steps(P)]
  /\ \A t \in Seq(P) \ {<<>>} : step[t].size <= Len(t)

\* There is a step at every place of a text, and it ends within the text.
LEMMA StepsFit ==
  ASSUME NEW P, NEW s \in Seq(P), NEW step, Stepping(step, P),
         NEW steps, steps = [i \in DOMAIN s |-> step[Rest(s, i)]]
  PROVE  /\ Len(steps) = Len(s) /\ Len(s) \in Nat
         /\ Fitting(steps)
         /\ \A i \in 1 .. Len(s) : steps[i] = step[Rest(s, i)] /\ steps[i] \in Steps(P)
<1>1. Len(s) \in Nat /\ DOMAIN s = 1 .. Len(s)
  OBVIOUS
<1>2. ASSUME NEW i \in 1 .. Len(s)
      PROVE  /\ Rest(s, i) \in Seq(P) \ {<<>>}
             /\ Len(Rest(s, i)) = Len(s) - i + 1
  <2>1. i \in 1 .. Len(s) + 1
    BY <1>1
  <2>2. Rest(s, i) \in Seq(P) /\ Len(Rest(s, i)) = Len(s) - i + 1
    BY <2>1, RestFacts
  <2>3. Len(Rest(s, i)) # 0
    BY <1>1, <2>2
  <2>4. Rest(s, i) # <<>>
    BY <2>3
  <2> QED BY <2>2, <2>4
<1>3. ASSUME NEW i \in 1 .. Len(s)
      PROVE  /\ steps[i] = step[Rest(s, i)] /\ steps[i] \in Steps(P)
             /\ steps[i].size <= Len(s) - i + 1
  <2>1. steps[i] = step[Rest(s, i)]
    BY <1>1
  <2> QED BY <1>2, <2>1 DEF Stepping
<1>4. Len(steps) = Len(s)
  <2>1. steps \in [1 .. Len(s) -> Steps(P)]
    BY <1>1, <1>3
  <2>2. DOMAIN steps = 1 .. Len(s)
    BY <1>1
  <2> QED BY <1>1, <2>1, <2>2
<1>5. Fitting(steps)
  <2>1. ASSUME NEW i \in 1 .. Len(steps)
        PROVE  /\ steps[i].size \in Nat \ {0}
               /\ i + steps[i].size <= Len(steps) + 1
    <3>1. i \in 1 .. Len(s) /\ i \in Nat
      BY <1>4
    <3>2. steps[i].size \in Nat \ {0} /\ steps[i].size <= Len(s) - i + 1
      BY <1>3, <3>1 DEF Steps
    <3> DEFINE size == steps[i].size
    <3> HIDE DEF size
    <3>3. size \in Nat \ {0} /\ size <= Len(s) - i + 1
      BY <3>2 DEF size
    <3>4. i + size <= Len(steps) + 1
      BY <1>1, <1>4, <3>1, <3>3
    <3> QED BY <3>3, <3>4 DEF size
  <2> QED BY <2>1 DEF Fitting
<1> QED BY <1>1, <1>3, <1>4, <1>5

\* A pass of a text is a text, and what it reports are texts.
LEMMA RunType ==
  ASSUME NEW P, NEW s \in Seq(P), NEW step, Stepping(step, P)
  PROVE  Run(step, s) \in Results(P)
<1> DEFINE steps == [i \in DOMAIN s |-> step[Rest(s, i)]]
<1>1. Run(step, s) = Pass(steps)
  BY DEF Run
<1>2. /\ Len(steps) = Len(s) /\ Len(s) \in Nat /\ Fitting(steps)
      /\ \A i \in 1 .. Len(s) : steps[i] \in Steps(P)
  BY StepsFit
<1> HIDE DEF steps
<1>3. PICK f : PassLoop(f, steps, 1) /\ Pass(steps) = f[1]
  BY <1>2, PassLoops
<1> DEFINE n == Len(s)
           S == {k \in Nat : \A i \in 1 .. n + 1 : n + 1 - i <= k => f[i] \in Results(P)}
<1>4. 0 \in S
  <2>1. \A i \in 1 .. n + 1 : n + 1 - i <= 0 => i = n + 1
    BY <1>2
  <2>2. f[n + 1] = EmptyResult
    BY <1>2, <1>3 DEF PassLoop
  <2>3. EmptyResult \in Results(P)
    BY EmptySeq DEF EmptyResult, Results
  <2> QED BY <2>1, <2>2, <2>3
<1>5. ASSUME NEW k \in S PROVE k + 1 \in S
  <2>1. k \in Nat /\ \A i \in 1 .. n + 1 : n + 1 - i <= k => f[i] \in Results(P)
    OBVIOUS
  <2>2. ASSUME NEW i \in 1 .. n + 1, n + 1 - i = k + 1 PROVE f[i] \in Results(P)
    <3> DEFINE size == steps[i].size
    <3>1. i \in 1 .. n
      BY <1>2, <2>1, <2>2
    <3>2. size \in Nat \ {0} /\ i + size <= n + 1
      BY <1>2, <3>1 DEF Fitting
    <3>3. f[i] = Joined(steps[i], f[i + size])
      BY <1>2, <1>3, <3>1 DEF PassLoop
    <3> HIDE DEF size
    <3>4. i + size \in 1 .. n + 1 /\ n + 1 - (i + size) <= k
      BY <1>2, <2>1, <2>2, <3>1, <3>2
    <3>5. f[i + size] \in Results(P) /\ steps[i] \in Steps(P)
      BY <1>2, <2>1, <3>1, <3>4
    <3> DEFINE rest == f[i + size]
               head == steps[i]
    <3> HIDE DEF rest, head
    <3>6. head \in Steps(P) /\ rest \in Results(P)
      BY <3>5 DEF head, rest
    <3>7. head.text \o rest.text \in Seq(P)
      BY <3>6, ConcatProperties DEF Steps, Results
    <3>8. Joined(head, rest) \in Results(P)
      BY <3>6, <3>7 DEF Joined, Steps, Results
    <3> QED BY <3>3, <3>8 DEF head, rest
  <2>3. ASSUME NEW i \in 1 .. n + 1, n + 1 - i <= k + 1 PROVE f[i] \in Results(P)
    <3>1. n \in Nat /\ i \in Nat
      BY <1>2
    <3> HIDE DEF n
    <3>2. n + 1 - i <= k \/ n + 1 - i = k + 1
      BY <2>1, <2>3, <3>1
    <3> QED BY <2>1, <2>2, <3>2
  <2> QED BY <2>1, <2>3
<1>6. S = Nat
  <2> HIDE DEF S
  <2>1. S \in SUBSET Nat
    BY DEF S
  <2> QED BY <1>4, <1>5, <2>1, SetInduction
<1>7. f[1] \in Results(P)
  <2>1. n \in Nat
    BY <1>2
  <2> HIDE DEF n
  <2>2. 1 \in 1 .. n + 1 /\ n + 1 - 1 <= n
    BY <2>1
  <2>3. n \in S
    BY <1>6, <2>1
  <2> QED BY <2>2, <2>3
<1> QED BY <1>1, <1>3, <1>7

\* A pass writes what its first step makes of the text, and goes on with the
\* rest as with a text of its own.
LEMMA RunUnfolds ==
  ASSUME NEW P, NEW s \in Seq(P), NEW step, Stepping(step, P)
  PROVE  /\ s = <<>> => Run(step, s) = EmptyResult
         /\ s # <<>> =>
              /\ step[s] \in Steps(P) /\ step[s].size <= Len(s)
              /\ Run(step, s) = Joined(step[s], Run(step, Rest(s, 1 + step[s].size)))
<1> DEFINE steps == [i \in DOMAIN s |-> step[Rest(s, i)]]
<1>1. Run(step, s) = Pass(steps)
  BY DEF Run
<1>2. /\ Len(steps) = Len(s) /\ Len(s) \in Nat /\ Fitting(steps)
      /\ \A i \in 1 .. Len(s) : steps[i] = step[Rest(s, i)] /\ steps[i] \in Steps(P)
  BY StepsFit
<1> HIDE DEF steps
<1>3. CASE s = <<>>
  <2>1. Len(steps) = 0
    BY <1>2, <1>3
  <2> QED BY <1>1, <1>3, <2>1, PassOfNothing
<1>4. CASE s # <<>>
  <2> DEFINE size == step[s].size
             r == Rest(s, 1 + size)
             later == [i \in DOMAIN r |-> step[Rest(r, i)]]
  <2>1. Len(s) \in Nat \ {0} /\ Rest(s, 1) = s /\ 1 \in 1 .. Len(s)
    <3>1. Len(s) \in Nat \ {0} /\ Rest(s, 1) = s
      BY <1>4, FirstAndRest
    <3> QED BY <3>1
  <2>2. steps[1] = step[s] /\ step[s] \in Steps(P)
    BY <1>2, <2>1
  <2>3. size \in Nat \ {0} /\ size <= Len(s)
    BY <1>4, <2>2 DEF Steps, Stepping
  <2>4. steps[1].size = size
    BY <2>2
  <2> HIDE DEF size
  <2>5. 1 + size \in 1 .. Len(s) + 1
    BY <2>1, <2>3
  <2>6. r \in Seq(P) /\ Len(r) = Len(s) - (1 + size) + 1
    BY <2>5, RestFacts
  <2> HIDE DEF r
  <2>7. /\ Len(later) = Len(r) /\ Len(r) \in Nat
        /\ \A i \in 1 .. Len(r) : later[i] = step[Rest(r, i)]
    BY <2>6, StepsFit
  <2>8. Run(step, r) = Pass(later)
    BY DEF Run
  <2> HIDE DEF later
  <2>9. Len(later) = Len(steps) - size
    BY <1>2, <2>1, <2>3, <2>6, <2>7
  <2>10. ASSUME NEW i \in 1 .. Len(later) PROVE later[i] = steps[i + size]
    <3>1. i \in 1 .. Len(r) /\ i + size \in 1 .. Len(s)
      BY <2>1, <2>3, <2>6, <2>7
    <3>2. i \in 1 .. Len(s) - (1 + size) + 2 /\ (1 + size) + i - 1 = i + size
      BY <2>1, <2>3, <2>6, <3>1
    <3>3. Rest(r, i) = Rest(s, i + size)
      BY <2>5, <3>2, RestOfRest DEF r
    <3> QED BY <1>2, <2>7, <3>1, <3>3
  <2>11. Pass(steps) = Joined(steps[1], Pass(later))
    <3>1. Len(steps) \in Nat \ {0}
      BY <1>2, <2>1
    <3> QED BY <1>2, <2>4, <2>9, <2>10, <3>1, PassUnfolds
  <2> QED BY <1>1, <1>4, <2>2, <2>3, <2>8, <2>11 DEF size, r
<1> QED BY <1>3, <1>4

DollarSteps(P, declared) ==
  [t \in Seq(P) \ {<<>>} |-> DollarStep(t, declared)]

BracesSteps(P, declared) ==
  [t \in Seq(P) \ {<<>>} |-> BracesStep(t, declared)]

OneSteps(P, declared) == [t \in Seq(P) \ {<<>>} |-> OneStep(t, declared)]

\* The two passes of the code (artifact.go:69-70), and the one of README.md.
LEMMA PassesRun ==
  ASSUME NEW P, NEW s \in Seq(P), NEW declared, Filling(declared, P)
  PROVE  /\ Stepping(DollarSteps(P, declared), P)
         /\ Stepping(BracesSteps(P, declared), P)
         /\ Stepping(OneSteps(P, declared), P)
         /\ RenderDollarPlaceholders(s, declared) = Run(DollarSteps(P, declared), s)
         /\ RenderDoubleBracePlaceholders(s, declared) = Run(BracesSteps(P, declared), s)
         /\ OnePass(s, declared) = Run(OneSteps(P, declared), s)
<1>1. ASSUME NEW t \in Seq(P) \ {<<>>}
      PROVE  /\ DollarStep(t, declared) \in Steps(P)
             /\ DollarStep(t, declared).size <= Len(t)
             /\ BracesStep(t, declared) \in Steps(P)
             /\ BracesStep(t, declared).size <= Len(t)
             /\ OneStep(t, declared) \in Steps(P)
             /\ OneStep(t, declared).size <= Len(t)
  <2>1. /\ DollarStep(t, declared) \in Steps(P)
        /\ DollarStep(t, declared).size <= Len(t)
    BY DollarFacts
  <2>2. /\ BracesStep(t, declared) \in Steps(P)
        /\ BracesStep(t, declared).size <= Len(t)
    BY BracesFacts
  <2> QED BY <2>1, <2>2 DEF OneStep
<1>2. /\ Stepping(DollarSteps(P, declared), P)
      /\ Stepping(BracesSteps(P, declared), P)
      /\ Stepping(OneSteps(P, declared), P)
  BY <1>1 DEF Stepping, DollarSteps, BracesSteps, OneSteps
<1>3. \A i \in DOMAIN s : Rest(s, i) \in Seq(P) \ {<<>>}
  <2>1. ASSUME NEW i \in DOMAIN s PROVE Rest(s, i) \in Seq(P) \ {<<>>}
    <3>1. i \in 1 .. Len(s) /\ i \in 1 .. Len(s) + 1 /\ Len(s) \in Nat
      OBVIOUS
    <3>2. Rest(s, i) \in Seq(P) /\ Len(Rest(s, i)) = Len(s) - i + 1
      BY <3>1, RestFacts
    <3>3. Len(Rest(s, i)) # 0
      BY <3>1, <3>2
    <3> QED BY <3>2, <3>3
  <2> QED BY <2>1
<1>4. RenderDollarPlaceholders(s, declared) = Run(DollarSteps(P, declared), s)
  <2>1. [i \in DOMAIN s |-> DollarStep(Rest(s, i), declared)]
          = [i \in DOMAIN s |-> DollarSteps(P, declared)[Rest(s, i)]]
    BY <1>3 DEF DollarSteps
  <2> QED BY <2>1 DEF RenderDollarPlaceholders, Run
<1>5. RenderDoubleBracePlaceholders(s, declared) = Run(BracesSteps(P, declared), s)
  <2>1. [i \in DOMAIN s |-> BracesStep(Rest(s, i), declared)]
          = [i \in DOMAIN s |-> BracesSteps(P, declared)[Rest(s, i)]]
    BY <1>3 DEF BracesSteps
  <2> QED BY <2>1 DEF RenderDoubleBracePlaceholders, Run
<1>6. OnePass(s, declared) = Run(OneSteps(P, declared), s)
  <2>1. [i \in DOMAIN s |-> OneStep(Rest(s, i), declared)]
          = [i \in DOMAIN s |-> OneSteps(P, declared)[Rest(s, i)]]
    BY <1>3 DEF OneSteps
  <2> QED BY <2>1 DEF OnePass, Run
<1> QED BY <1>2, <1>4, <1>5, <1>6

\* The dollar pass (artifact.go:92), round after round.
LEMMA DollarsUnfold ==
  ASSUME NEW P, NEW s \in Seq(P), NEW declared, Filling(declared, P)
  PROVE  /\ RenderDollarPlaceholders(s, declared) \in Results(P)
         /\ s = <<>> => RenderDollarPlaceholders(s, declared) = EmptyResult
         /\ s # <<>> =>
              RenderDollarPlaceholders(s, declared)
                = Joined(DollarStep(s, declared),
                         RenderDollarPlaceholders(
                           Rest(s, 1 + DollarStep(s, declared).size), declared))
<1> DEFINE step == DollarSteps(P, declared)
<1>1. Stepping(step, P) /\ RenderDollarPlaceholders(s, declared) = Run(step, s)
  BY PassesRun
<1>2. s # <<>> => step[s] = DollarStep(s, declared)
  BY DEF DollarSteps
<1> HIDE DEF step
<1>3. Run(step, s) \in Results(P)
  BY <1>1, RunType
<1>4. /\ s = <<>> => Run(step, s) = EmptyResult
      /\ s # <<>> => /\ step[s] \in Steps(P) /\ step[s].size <= Len(s)
                     /\ Run(step, s) = Joined(step[s], Run(step, Rest(s, 1 + step[s].size)))
  BY <1>1, RunUnfolds
<1>5. ASSUME s # <<>>
      PROVE  RenderDollarPlaceholders(Rest(s, 1 + step[s].size), declared)
               = Run(step, Rest(s, 1 + step[s].size))
  <2>1. 1 + step[s].size \in 1 .. Len(s) + 1
    BY <1>4, <1>5, FirstAndRest DEF Steps
  <2>2. Rest(s, 1 + step[s].size) \in Seq(P)
    BY <2>1, RestFacts
  <2> QED BY <2>2, PassesRun DEF step
<1> QED BY <1>1, <1>2, <1>3, <1>4, <1>5

\* The braces pass (artifact.go:127), match after match.
LEMMA BracesUnfold ==
  ASSUME NEW P, NEW s \in Seq(P), NEW declared, Filling(declared, P)
  PROVE  /\ RenderDoubleBracePlaceholders(s, declared) \in Results(P)
         /\ s = <<>> => RenderDoubleBracePlaceholders(s, declared) = EmptyResult
         /\ s # <<>> =>
              RenderDoubleBracePlaceholders(s, declared)
                = Joined(BracesStep(s, declared),
                         RenderDoubleBracePlaceholders(
                           Rest(s, 1 + BracesStep(s, declared).size), declared))
<1> DEFINE step == BracesSteps(P, declared)
<1>1. Stepping(step, P) /\ RenderDoubleBracePlaceholders(s, declared) = Run(step, s)
  BY PassesRun
<1>2. s # <<>> => step[s] = BracesStep(s, declared)
  BY DEF BracesSteps
<1> HIDE DEF step
<1>3. Run(step, s) \in Results(P)
  BY <1>1, RunType
<1>4. /\ s = <<>> => Run(step, s) = EmptyResult
      /\ s # <<>> => /\ step[s] \in Steps(P) /\ step[s].size <= Len(s)
                     /\ Run(step, s) = Joined(step[s], Run(step, Rest(s, 1 + step[s].size)))
  BY <1>1, RunUnfolds
<1>5. ASSUME s # <<>>
      PROVE  RenderDoubleBracePlaceholders(Rest(s, 1 + step[s].size), declared)
               = Run(step, Rest(s, 1 + step[s].size))
  <2>1. 1 + step[s].size \in 1 .. Len(s) + 1
    BY <1>4, <1>5, FirstAndRest DEF Steps
  <2>2. Rest(s, 1 + step[s].size) \in Seq(P)
    BY <2>1, RestFacts
  <2> QED BY <2>2, PassesRun DEF step
<1> QED BY <1>1, <1>2, <1>3, <1>4, <1>5

\* One pass (README.md:104-106), place after place.
LEMMA OneUnfolds ==
  ASSUME NEW P, NEW s \in Seq(P), NEW declared, Filling(declared, P)
  PROVE  /\ s = <<>> => OnePass(s, declared) = EmptyResult
         /\ s # <<>> =>
              OnePass(s, declared)
                = Joined(OneStep(s, declared),
                         OnePass(Rest(s, 1 + OneStep(s, declared).size), declared))
<1> DEFINE step == OneSteps(P, declared)
<1>1. Stepping(step, P) /\ OnePass(s, declared) = Run(step, s)
  BY PassesRun
<1>2. s # <<>> => step[s] = OneStep(s, declared)
  BY DEF OneSteps
<1> HIDE DEF step
<1>3. /\ s = <<>> => Run(step, s) = EmptyResult
      /\ s # <<>> => /\ step[s] \in Steps(P) /\ step[s].size <= Len(s)
                     /\ Run(step, s) = Joined(step[s], Run(step, Rest(s, 1 + step[s].size)))
  BY <1>1, RunUnfolds
<1>4. ASSUME s # <<>>
      PROVE  OnePass(Rest(s, 1 + step[s].size), declared)
               = Run(step, Rest(s, 1 + step[s].size))
  <2>1. 1 + step[s].size \in 1 .. Len(s) + 1
    BY <1>3, <1>4, FirstAndRest DEF Steps
  <2>2. Rest(s, 1 + step[s].size) \in Seq(P)
    BY <2>1, RestFacts
  <2> QED BY <2>2, PassesRun DEF step
<1> QED BY <1>1, <1>2, <1>3, <1>4

----------------------------------------------------------------------------
(* What the dollar pass leaves behind *)

\* What holds of a text if it holds of all shorter ones, holds of every text:
\* how both loops (artifact.go:92, 133) are followed to the end.
LEMMA TextInduction ==
  ASSUME NEW P, NEW T,
         \A s \in Seq(P) : (\A r \in Seq(P) : Len(r) < Len(s) => r \in T) => s \in T
  PROVE  Seq(P) \subseteq T
<1> DEFINE S == {k \in Nat : \A s \in Seq(P) : Len(s) < k => s \in T}
<1>1. 0 \in S
  <2>1. \A s \in Seq(P) : Len(s) \in Nat
    OBVIOUS
  <2>2. \A n \in Nat : ~ (n < 0)
    OBVIOUS
  <2> QED BY <2>1, <2>2
<1>2. ASSUME NEW k \in S PROVE k + 1 \in S
  <2>1. k \in Nat /\ \A s \in Seq(P) : Len(s) < k => s \in T
    OBVIOUS
  <2>2. ASSUME NEW s \in Seq(P), Len(s) < k + 1 PROVE s \in T
    <3>1. \A r \in Seq(P) : Len(r) < Len(s) => Len(r) < k
      <4>1. Len(s) \in Nat /\ \A r \in Seq(P) : Len(r) \in Nat
        OBVIOUS
      <4>2. \A n \in Nat : n < Len(s) => n < k
        BY <2>1, <2>2, <4>1
      <4> QED BY <4>1, <4>2
    <3> QED BY <2>1, <3>1
  <2> QED BY <2>1, <2>2
<1>3. S = Nat
  <2> HIDE DEF S
  <2>1. S \in SUBSET Nat
    BY DEF S
  <2> QED BY <1>1, <1>2, <2>1, SetInduction
<1>4. ASSUME NEW s \in Seq(P) PROVE s \in T
  <2>1. Len(s) + 1 \in Nat /\ Len(s) < Len(s) + 1
    OBVIOUS
  <2>2. Len(s) + 1 \in S
    <3> HIDE DEF S
    <3> QED BY <1>3, <2>1
  <2> QED BY <2>1, <2>2
<1> QED BY <1>4

\* Text without braces passes through the braces pass as it is, whatever follows
\* (artifact.go:133).
LEMMA BracesOver ==
  ASSUME NEW P, NEW v \in Seq(P), NEW x \in Seq(P), NEW declared,
         Filling(declared, P), Opening \notin Range(v)
  PROVE  RenderDoubleBracePlaceholders(v \o x, declared)
           = [text |-> v \o RenderDoubleBracePlaceholders(x, declared).text,
              unknown |-> RenderDoubleBracePlaceholders(x, declared).unknown]
<1> DEFINE B(y) == RenderDoubleBracePlaceholders(y, declared)
           Over(w) == B(w \o x) = [text |-> w \o B(x).text, unknown |-> B(x).unknown]
           T == {w \in Seq(P) : Opening \notin Range(w) => Over(w)}
<1>1. \A y \in Seq(P) : B(y) \in Results(P)
  BY BracesUnfold
<1>2. ASSUME NEW w \in Seq(P), \A r \in Seq(P) : Len(r) < Len(w) => r \in T
      PROVE  w \in T
  <2>1. SUFFICES ASSUME Opening \notin Range(w) PROVE Over(w)
    OBVIOUS
  <2>2. CASE w = <<>>
    <3>1. w \o x = x /\ w \o B(x).text = B(x).text
      <4>1. B(x).text \in Seq(P)
        BY <1>1 DEF Results
      <4> HIDE DEF B
      <4> QED BY <2>2, <4>1, ConcatEmptySeq
    <3>2. B(x) = [text |-> B(x).text, unknown |-> B(x).unknown]
      BY <1>1 DEF Results
    <3> QED BY <3>1, <3>2
  <2>3. CASE w # <<>>
    <3> DEFINE c == w[1]
               one == <<c>>
               r == Rest(w, 2)
               y == r \o x
               z == one \o y
    <3>1. /\ Len(w) \in Nat \ {0} /\ c \in P /\ 2 \in 1 .. Len(w) + 1
          /\ w = one \o r
      BY <2>3, FirstAndRest
    <3>2. r \in Seq(P) /\ Len(r) < Len(w)
      <4>1. r \in Seq(P) /\ Len(r) = Len(w) - 2 + 1
        BY <3>1, RestFacts
      <4> QED BY <3>1, <4>1
    <3>3. c # Opening /\ Opening \notin Range(r)
      <4>1. 1 \in DOMAIN w
        BY <3>1
      <4>2. c # Opening
        BY <2>1, <4>1 DEF Range
      <4> QED BY <2>1, <3>1, <4>2, RangeOfRest
    <3>4. one \in Seq(P) /\ Len(one) = 1 /\ one # <<>> /\ one[1] = c
      BY <3>1
    <3> HIDE DEF c, one, r
    <3>5. Over(r)
      <4>1. r \in T
        BY <1>2, <3>2
      <4> QED BY <3>3, <4>1
    <3>6. y \in Seq(P)
      BY <3>2, AfterConcat
    <3>7. w \o x = z
      <4>1. one \in Seq(P) /\ r \in Seq(P) /\ x \in Seq(P)
        BY <3>2, <3>4
      <4>2. one \o (r \o x) = (one \o r) \o x
        BY <4>1, InFront, SMTT(20)
      <4> QED BY <3>1, <4>2
    <3>0. B(y) = [text |-> r \o B(x).text, unknown |-> B(x).unknown]
      BY <3>5
    <3> HIDE DEF y
    <3>8. z \in Seq(P) /\ z # <<>> /\ z[1] = c /\ Rest(z, 1 + 1) = y
      <4>1. /\ z \in Seq(P) /\ Rest(z, Len(one) + 1) = y
            /\ one # <<>> => z # <<>> /\ z[1] = one[1]
        BY <3>4, <3>6, AfterConcat
      <4> HIDE DEF z
      <4> QED BY <3>4, <4>1
    <3> HIDE DEF z
    <3>9. BracesStep(z, declared) = Kept(z)
      BY <3>3, <3>8, BracesFacts
    <3>10. Kept(z).size = 1 /\ Kept(z).text = one /\ Kept(z).unknown = {}
      BY <3>8, KeptFacts DEF one
    <3>11. B(z) = Joined(Kept(z), B(y))
      BY <3>8, <3>9, <3>10, BracesUnfold
    <3>12. B(z) = [text |-> one \o B(y).text, unknown |-> B(y).unknown]
      BY <3>10, <3>11 DEF Joined
    <3> HIDE DEF B
    <3>13. B(x).text \in Seq(P)
      BY <1>1 DEF Results
    <3> DEFINE u == B(x).text
    <3> HIDE DEF u
    <3>14. one \o (r \o u) = w \o u
      <4>1. u \in Seq(P)
        BY <3>13 DEF u
      <4>2. (one \o r) \o u = one \o (r \o u)
        <5>1. one \in Seq(P) /\ r \in Seq(P)
          BY <3>2, <3>4
        <5> QED BY <4>1, <5>1, InFront, SMTT(20)
      <4> QED BY <3>1, <4>2
    <3>15. B(y).text = r \o u /\ B(y).unknown = B(x).unknown
      BY <3>0 DEF u
    <3>16. B(z) = [text |-> w \o u, unknown |-> B(x).unknown]
      BY <3>12, <3>14, <3>15
    <3> QED BY <3>7, <3>16 DEF u
  <2> QED BY <2>2, <2>3
<1>3. Seq(P) \subseteq T
  <2> HIDE DEF T
  <2> QED BY <1>2, TextInduction
<1> QED BY <1>3

\* Closing braces are in what the dollar pass leaves behind only if they were in
\* the text: values have none (artifact.go:114).
LEMMA NoNewBraces ==
  ASSUME NEW P, NEW s \in Seq(P), NEW declared, Filling(declared, P),
         \A n \in DOMAIN declared : ~ HasBraces(declared[n]),
         Closing \in Range(RenderDollarPlaceholders(s, declared).text)
  PROVE  Closing \in Range(s)
<1> DEFINE D(y) == RenderDollarPlaceholders(y, declared)
           T == {x \in Seq(P) : Closing \in Range(D(x).text) => Closing \in Range(x)}
<1>1. \A n \in DOMAIN declared : Closing \notin Range(declared[n])
  BY DEF HasBraces
<1>2. ASSUME NEW x \in Seq(P), \A r \in Seq(P) : Len(r) < Len(x) => r \in T
      PROVE  x \in T
  <2>1. SUFFICES ASSUME Closing \in Range(D(x).text) PROVE Closing \in Range(x)
    OBVIOUS
  <2>2. x # <<>>
    <3>1. ASSUME x = <<>> PROVE FALSE
      <4>1. D(x).text = <<>>
        <5>1. D(x) = EmptyResult
          BY <3>1, DollarsUnfold
        <5> HIDE DEF D
        <5> QED BY <5>1, JoinedFacts
      <4>2. Range(<<>>) = {}
        BY DEF Range
      <4> QED BY <2>1, <4>1, <4>2
    <3> QED BY <3>1
  <2> DEFINE p == DollarStep(x, declared)
             r == Rest(x, 1 + p.size)
  <2>3. /\ p \in Steps(P) /\ p.size <= Len(x)
        /\ Closing \in Range(p.text) => x[1] = Closing
    BY <1>1, <2>2, DollarFacts
  <2>4. D(x) = Joined(p, D(r))
    BY <2>2, DollarsUnfold
  <2> HIDE DEF p
  <2>5. Len(x) \in Nat \ {0} /\ p.size \in Nat \ {0} /\ 1 + p.size \in 1 .. Len(x) + 1
    <3>1. Len(x) \in Nat \ {0}
      BY <2>2, EmptySeq
    <3>2. p.size \in Nat \ {0}
      BY <2>3 DEF Steps
    <3> QED BY <2>3, <3>1, <3>2
  <2>6. r \in Seq(P) /\ Len(r) = Len(x) - (1 + p.size) + 1 /\ Range(r) \subseteq Range(x)
    BY <2>5, RestFacts, RangeOfRest
  <2>7. Len(r) < Len(x)
    BY <2>5, <2>6
  <2> HIDE DEF r
  <2>8. p.text \in Seq(P) /\ D(r).text \in Seq(P)
    <3>1. D(r) \in Results(P)
      BY <2>6, DollarsUnfold
    <3> QED BY <2>3, <3>1 DEF Steps, Results
  <2>9. D(x).text = p.text \o D(r).text
    <3> HIDE DEF D
    <3> QED BY <2>4, JoinedFacts
  <2> DEFINE u == p.text
             v == D(r).text
             uv == u \o v
  <2>10. Range(uv) \subseteq Range(u) \cup Range(v)
    <3>1. u \in Seq(P) /\ v \in Seq(P)
      BY <2>8
    <3> HIDE DEF u, v
    <3>2. /\ Len(u) \in Nat /\ Len(v) \in Nat
          /\ DOMAIN u = 1 .. Len(u) /\ DOMAIN v = 1 .. Len(v)
      BY <3>1
    <3>3. /\ uv \in Seq(P) /\ Len(uv) = Len(u) + Len(v)
          /\ \A i \in 1 .. Len(u) + Len(v) :
               uv[i] = IF i <= Len(u) THEN u[i] ELSE v[i - Len(u)]
      BY <3>1, ConcatProperties
    <3> HIDE DEF uv
    <3>4. DOMAIN uv = 1 .. Len(u) + Len(v)
      BY <3>3
    <3>5. ASSUME NEW i \in DOMAIN uv PROVE uv[i] \in Range(u) \cup Range(v)
      <4>1. CASE i <= Len(u)
        <5>1. i \in DOMAIN u /\ uv[i] = u[i]
          BY <3>2, <3>3, <3>4, <4>1
        <5> QED BY <5>1 DEF Range
      <4>2. CASE ~ (i <= Len(u))
        <5>1. i - Len(u) \in DOMAIN v /\ uv[i] = v[i - Len(u)]
          BY <3>2, <3>3, <3>4, <4>2
        <5> QED BY <5>1 DEF Range
      <4> QED BY <4>1, <4>2
    <3> QED BY <3>5 DEF Range
  <2>11. CASE Closing \in Range(u)
    <3>1. x[1] = Closing /\ 1 \in DOMAIN x
      BY <2>3, <2>5, <2>11
    <3> QED BY <3>1 DEF Range
  <2>12. CASE Closing \in Range(v)
    <3>1. r \in T
      BY <1>2, <2>6, <2>7
    <3> QED BY <2>6, <2>12, <3>1
  <2> QED BY <2>1, <2>9, <2>10, <2>11, <2>12
<1>3. Seq(P) \subseteq T
  <2> HIDE DEF T
  <2> QED BY <1>2, TextInduction
<1> QED BY <1>3

\* The first n parts of x have no dollar and escape none.
Plain(x, n) == (\A j \in 1 .. n : x[j] # "$") /\ (n > 0 => x[n] # "\\")

\* Where no dollar is, the dollar pass leaves everything as it is
\* (artifact.go:100-104).
LEMMA DollarsKeep ==
  ASSUME NEW P, NEW s \in Seq(P), NEW declared, Filling(declared, P),
         NEW k \in 0 .. Len(s), Plain(s, k)
  PROVE  RenderDollarPlaceholders(s, declared)
           = [text |-> SubSeq(s, 1, k)
                         \o RenderDollarPlaceholders(Rest(s, k + 1), declared).text,
              unknown |-> RenderDollarPlaceholders(Rest(s, k + 1), declared).unknown]
<1> DEFINE D(y) == RenderDollarPlaceholders(y, declared)
           Keeps(x, n) == D(x) = [text |-> SubSeq(x, 1, n) \o D(Rest(x, n + 1)).text,
                                  unknown |-> D(Rest(x, n + 1)).unknown]
           T == {x \in Seq(P) : \A n \in 0 .. Len(x) : Plain(x, n) => Keeps(x, n)}
<1>1. \A y \in Seq(P) : D(y) \in Results(P)
  BY DollarsUnfold
<1>2. ASSUME NEW x \in Seq(P), \A r \in Seq(P) : Len(r) < Len(x) => r \in T,
             NEW n \in 0 .. Len(x), Plain(x, n)
      PROVE  Keeps(x, n)
  <2>1. Len(x) \in Nat /\ n \in Nat /\ n <= Len(x)
    OBVIOUS
  <2>2. CASE n = 0
    <3>1. SubSeq(x, 1, 0) = <<>>
      BY SubSeqEmpty
    <3>2. Rest(x, 1) = x
      BY SubSeqFull DEF Rest
    <3>3. D(x) = [text |-> D(x).text, unknown |-> D(x).unknown] /\ D(x).text \in Seq(P)
      BY <1>1 DEF Results
    <3> DEFINE u == D(x).text
    <3> HIDE DEF u
    <3>4. <<>> \o u = u
      <4>1. u \in Seq(P)
        BY <3>3 DEF u
      <4> QED BY <4>1, ConcatEmptySeq
    <3>5. 0 + 1 = 1
      OBVIOUS
    <3> HIDE DEF D
    <3> QED BY <2>2, <3>1, <3>2, <3>3, <3>4, <3>5 DEF u
  <2>3. CASE n # 0
    <3> DEFINE one == <<x[1]>>
               r == Rest(x, 2)
               m == n - 1
               front == SubSeq(r, 1, m)
               after == Rest(x, n + 1)
    <3>1. /\ x # <<>> /\ 1 \in 1 .. n /\ n \in 1 .. Len(x) /\ 2 \in 1 .. Len(x) + 1
          /\ m \in Nat /\ m <= Len(x) - 1 /\ x[1] \in P
      BY <2>1, <2>3
    <3>2. /\ r \in Seq(P) /\ Len(r) = Len(x) - 2 + 1
          /\ \A j \in 1 .. Len(x) - 2 + 1 : r[j] = x[2 + j - 1]
      BY <3>1, RestFacts
    <3>3. x[1] # "$" /\ ~ (x[1] = "\\" /\ Len(x) > 1 /\ x[2] = "$")
      <4>1. x[1] # "$" /\ x[n] # "\\"
        BY <1>2, <2>1, <2>3, <3>1 DEF Plain
      <4>2. n = 1 \/ 2 \in 1 .. n
        BY <2>1, <2>3
      <4>3. 2 \in 1 .. n => x[2] # "$"
        BY <1>2 DEF Plain
      <4> QED BY <4>1, <4>2, <4>3
    <3>4. DollarStep(x, declared) = Kept(x)
      BY <3>1, <3>3, DollarFacts
    <3>5. Kept(x).size = 1 /\ Kept(x).text = one /\ Kept(x).unknown = {}
      BY <3>1, KeptFacts
    <3>6. D(x) = Joined(Kept(x), D(r))
      <4>1. D(x) = Joined(DollarStep(x, declared),
                          D(Rest(x, 1 + DollarStep(x, declared).size)))
        BY <3>1, DollarsUnfold
      <4>2. 1 + DollarStep(x, declared).size = 2
        BY <3>4, <3>5
      <4> HIDE DEF D
      <4> QED BY <3>4, <4>1, <4>2
    <3>7. D(x) = [text |-> one \o D(r).text, unknown |-> D(r).unknown]
      <4> HIDE DEF D
      <4> QED BY <3>5, <3>6 DEF Joined
    <3>8. Plain(r, m)
      <4>1. ASSUME NEW j \in 1 .. m PROVE r[j] # "$"
        <5>1. j \in 1 .. Len(x) - 2 + 1 /\ 2 + j - 1 \in 1 .. n
          BY <2>1, <3>1
        <5> QED BY <1>2, <3>2, <5>1 DEF Plain
      <4>2. ASSUME m > 0 PROVE r[m] # "\\"
        <5>1. m \in 1 .. Len(x) - 2 + 1 /\ 2 + m - 1 = n
          BY <2>1, <3>1, <4>2
        <5> QED BY <1>2, <2>1, <2>3, <3>2, <5>1 DEF Plain
      <4> QED BY <4>1, <4>2 DEF Plain
    <3>9. m \in 0 .. Len(r) /\ Len(r) < Len(x)
      BY <2>1, <3>1, <3>2
    <3>10. Keeps(r, m)
      <4>1. r \in T
        BY <1>2, <3>2, <3>9
      <4> QED BY <3>8, <3>9, <4>1
    <3>11. Rest(r, m + 1) = after
      <4>1. /\ m + 1 \in 1 .. Len(x) - 2 + 2 /\ 2 + (m + 1) - 1 = n + 1
        BY <2>1, <3>1
      <4> QED BY <3>1, <4>1, RestOfRest
    <3>12. SubSeq(x, 1, n) = one \o front
      BY <3>1, FrontOfRest
    <3>13. one \in Seq(P) /\ front \in Seq(P)
      <4>1. one \in Seq(P)
        BY <3>1
      <4>2. \A j \in 1 .. m : r[j] \in P
        BY <3>2, <3>9
      <4>3. front \in Seq(P)
        BY <3>1, <4>2, SubSeqProperties
      <4> QED BY <4>1, <4>3
    <3>14. after \in Seq(P)
      <4>1. n + 1 \in 1 .. Len(x) + 1
        BY <2>1
      <4> QED BY <4>1, RestFacts
    <3> DEFINE u == D(after).text
    <3>15. u \in Seq(P)
      BY <1>1, <3>14 DEF Results
    <3>16. D(r) = [text |-> front \o u, unknown |-> D(after).unknown]
      BY <3>10, <3>11
    <3> HIDE DEF one, front, after, u, D, r, m
    <3>17. one \o (front \o u) = (one \o front) \o u
      <4>1. one \in Seq(P) /\ front \in Seq(P) /\ u \in Seq(P)
        BY <3>13, <3>15
      <4> QED BY <4>1, InFront, SMTT(20)
    <3>18. D(r).text = front \o u /\ D(r).unknown = D(after).unknown
      BY <3>16
    <3>19. D(x) = [text |-> (one \o front) \o u, unknown |-> D(after).unknown]
      BY <3>7, <3>17, <3>18
    <3> QED BY <3>12, <3>19 DEF u, after
  <2> QED BY <2>2, <2>3
<1>3. Seq(P) \subseteq T
  <2>1. ASSUME NEW x \in Seq(P), \A r \in Seq(P) : Len(r) < Len(x) => r \in T
        PROVE  x \in T
    <3> HIDE DEF Keeps
    <3>1. \A n \in 0 .. Len(x) : Plain(x, n) => Keeps(x, n)
      BY <1>2, <2>1
    <3> QED BY <3>1
  <2> HIDE DEF T
  <2> QED BY <2>1, TextInduction
<1>4. s \in T
  <2> HIDE DEF T
  <2> QED BY <1>3
<1>5. Plain(s, k) => Keeps(s, k)
  <2> HIDE DEF Keeps
  <2> QED BY <1>4
<1> QED BY <1>5

----------------------------------------------------------------------------
(* Two passes and one *)

\* The texts of a result, where it is one of TwoPasses.
LEMMA TwoPassesFacts ==
  ASSUME NEW s, NEW declared, NEW t, t = RenderDollarPlaceholders(s, declared).text
  PROVE  TwoPasses(s, declared)
           = [text |-> RenderDoubleBracePlaceholders(t, declared).text,
              unknown |-> RenderDollarPlaceholders(s, declared).unknown
                            \cup RenderDoubleBracePlaceholders(t, declared).unknown]
BY DEF TwoPasses

\* Where braces begin the dollar pass keeps them.
LEMMA DollarsAtBraces ==
  ASSUME NEW P, NEW s \in Seq(P), s # <<>>, s[1] = Opening,
         NEW declared, Filling(declared, P)
  PROVE  LET d == RenderDollarPlaceholders(Rest(s, 2), declared)
         IN  RenderDollarPlaceholders(s, declared)
               = [text |-> <<s[1]>> \o d.text, unknown |-> d.unknown]
<1> DEFINE D(y) == RenderDollarPlaceholders(y, declared)
<1>1. s[1] # "$" /\ s[1] # "\\"
  BY BracesDiffer
<1>2. DollarStep(s, declared) = Kept(s)
  BY <1>1, DollarFacts
<1>3. Kept(s).size = 1 /\ Kept(s).text = <<s[1]>> /\ Kept(s).unknown = {}
  BY KeptFacts
<1>4. D(s) = Joined(DollarStep(s, declared), D(Rest(s, 1 + DollarStep(s, declared).size)))
  BY DollarsUnfold
<1>5. 1 + DollarStep(s, declared).size = 2
  BY <1>2, <1>3
<1>6. D(s) = Joined(Kept(s), D(Rest(s, 2)))
  <2> HIDE DEF D
  <2> QED BY <1>2, <1>4, <1>5
<1>7. D(s) = [text |-> <<s[1]>> \o D(Rest(s, 2)).text, unknown |-> D(Rest(s, 2)).unknown]
  <2> HIDE DEF D
  <2> QED BY <1>3, <1>6 DEF Joined
<1> QED BY <1>7

\* Away from braces: what the dollar pass writes, the braces pass passes over.
LEMMA AsideOfBraces ==
  ASSUME NEW P, NEW x \in Seq(P), x # <<>>, x[1] # Opening,
         NEW declared, Filling(declared, P),
         \A n \in DOMAIN declared : ~ HasBraces(declared[n]),
         NEW y, y = Rest(x, 1 + DollarStep(x, declared).size),
         OnePass(y, declared) = TwoPasses(y, declared)
  PROVE  OnePass(x, declared) = TwoPasses(x, declared)
<1> DEFINE D(z) == RenderDollarPlaceholders(z, declared)
           B(z) == RenderDoubleBracePlaceholders(z, declared)
           p == DollarStep(x, declared)
           u == D(y).text
<1>1. /\ p \in Steps(P) /\ p.size <= Len(x)
      /\ Opening \in Range(p.text) => x[1] = Opening
  <2>1. \A n \in DOMAIN declared : Opening \notin Range(declared[n])
    BY DEF HasBraces
  <2> QED BY <2>1, DollarFacts
<1>2. OneStep(x, declared) = p
  BY DEF OneStep
<1>3. OnePass(x, declared) = Joined(p, OnePass(y, declared))
  BY <1>2, OneUnfolds
<1>4. D(x) = Joined(p, D(y))
  BY DollarsUnfold
<1>5. y \in Seq(P)
  <2>1. 1 + p.size \in 1 .. Len(x) + 1
    <3>1. p.size \in Nat \ {0}
      BY <1>1 DEF Steps
    <3> HIDE DEF p
    <3>2. Len(x) \in Nat
      OBVIOUS
    <3> QED BY <1>1, <3>1, <3>2
  <2> QED BY <2>1, RestFacts
<1>6. D(y) \in Results(P)
  BY <1>5, DollarsUnfold
<1>7. u \in Seq(P) /\ p.text \in Seq(P) /\ Opening \notin Range(p.text)
  BY <1>1, <1>6 DEF Results, Steps
<1> HIDE DEF p
<1> DEFINE q == p.text
           w == q \o u
<1>8. B(w) = [text |-> q \o B(u).text, unknown |-> B(u).unknown]
  <2> HIDE DEF u, q
  <2>1. u \in Seq(P) /\ q \in Seq(P) /\ Opening \notin Range(q)
    BY <1>7 DEF q
  <2> QED BY <2>1, BracesOver
<1>9. D(x).text = w /\ D(x).unknown = p.unknown \cup D(y).unknown
  <2> HIDE DEF D
  <2> QED BY <1>4, JoinedFacts
<1> HIDE DEF q, w
<1>10. TwoPasses(y, declared)
         = [text |-> B(u).text, unknown |-> D(y).unknown \cup B(u).unknown]
  BY TwoPassesFacts
<1>11. TwoPasses(x, declared) = [text |-> B(w).text, unknown |-> D(x).unknown \cup B(w).unknown]
  BY <1>9, TwoPassesFacts
<1> HIDE DEF D, B, u
<1>12. B(w).text = q \o B(u).text /\ B(w).unknown = B(u).unknown
  BY <1>8
<1>13. (p.unknown \cup D(y).unknown) \cup B(u).unknown
         = p.unknown \cup (D(y).unknown \cup B(u).unknown)
  OBVIOUS
<1> DEFINE two == TwoPasses(y, declared)
<1>14. two.text = B(u).text /\ two.unknown = D(y).unknown \cup B(u).unknown
  BY <1>10
<1> HIDE DEF two
<1>15. Joined(p, two) = [text |-> q \o two.text, unknown |-> p.unknown \cup two.unknown]
  BY DEF Joined, q
<1>16. TwoPasses(x, declared) = Joined(p, two)
  BY <1>9, <1>11, <1>12, <1>13, <1>14, <1>15
<1> QED BY <1>3, <1>16 DEF two

\* A placeholder depends on the text up to its end only.
LEMMA BracedAlike ==
  ASSUME NEW P, NEW x \in Seq(P), NEW y \in Seq(P), NEW declared,
         NEW a \in 2 .. Len(x), NEW b \in 2 .. Len(x), NEW e \in 2 .. Len(x),
         e <= Len(y), \A i \in 1 .. e : x[i] = y[i], Braced(x, a, b, e)
  PROVE  /\ Braced(y, a, b, e) /\ a <= b /\ b < e
         /\ Filled(x, SubSeq(x, a, b), e, declared)
              = Filled(y, SubSeq(y, a, b), e, declared)
<1>1. /\ Len(x) \in Nat /\ Len(y) \in Nat /\ a \in Nat /\ b \in Nat /\ e \in Nat
      /\ 2 <= a /\ 2 <= b /\ e <= Len(x)
  OBVIOUS
<1>2. a <= b /\ b < e
  BY BracedOnce DEF Braced
<1>3. SubSeq(x, a, b) = SubSeq(y, a, b)
  <2>1. a \in Nat \ {0} /\ b <= Len(x) /\ b <= Len(y)
    BY <1>1, <1>2
  <2>2. \A i \in a .. b : i \in 1 .. e
    BY <1>1, <1>2
  <2>3. \A i \in a .. b : x[i] = y[i]
    BY <2>2
  <2> QED BY <1>1, <2>1, <2>3, SameParts
<1>4. SubSeq(x, 1, e) = SubSeq(y, 1, e)
  <2>1. 1 \in Nat \ {0}
    OBVIOUS
  <2> QED BY <1>1, <2>1, SameParts
<1>5. Braced(y, a, b, e)
  <2>1. e \in 1 .. e /\ (\A i \in 2 .. a - 1 : i \in 1 .. e)
        /\ \A i \in b + 1 .. e - 1 : i \in 1 .. e
    BY <1>1, <1>2
  <2>2. y[e] = Closing
    BY <2>1 DEF Braced
  <2>3. \A i \in 2 .. a - 1 : y[i] \in Blanks
    BY <2>1 DEF Braced
  <2>4. \A i \in b + 1 .. e - 1 : y[i] \in Blanks
    BY <2>1 DEF Braced
  <2>5. IsValidSkillArgumentName(SubSeq(y, a, b))
    BY <1>3 DEF Braced
  <2> QED BY <1>2, <2>2, <2>3, <2>4, <2>5 DEF Braced
<1> QED BY <1>2, <1>3, <1>4, <1>5 DEF Filled

\* A placeholder in braces has no dollar in it.
LEMMA BracedIsPlain ==
  ASSUME NEW P, NEW s \in Seq(P), s[1] = Opening,
         NEW a \in 2 .. Len(s), NEW b \in 2 .. Len(s), NEW e \in 2 .. Len(s),
         Braced(s, a, b, e)
  PROVE  Plain(s, e)
<1>1. /\ a <= b /\ b < e /\ s[e] = Closing
      /\ \A i \in 2 .. a - 1 : s[i] \in Blanks
      /\ \A i \in a .. b : s[i] \in Letters \cup Digits
      /\ \A i \in b + 1 .. e - 1 : s[i] \in Blanks
  BY BracedOnce DEF Braced
<1>2. Len(s) \in Nat /\ a \in Nat /\ b \in Nat /\ e \in Nat /\ 2 <= a /\ a <= b /\ b < e
  BY <1>1
<1>3. \A i \in 1 .. e : \/ i = 1 \/ i \in 2 .. a - 1 \/ i \in a .. b
                       \/ i \in b + 1 .. e - 1 \/ i = e
  BY <1>2
<1>4. ASSUME NEW i \in 1 .. e PROVE s[i] # "$"
  <2>1. s[i] \in Blanks \cup Letters \cup Digits \cup {Opening, Closing}
    BY <1>1, <1>3
  <2> QED BY <2>1, BracesDiffer
<1> QED BY <1>1, <1>4, BracesDiffer DEF Plain

\* Where a placeholder in braces begins (artifact.go:133-145).
LEMMA AtPlaceholder ==
  ASSUME NEW P, NEW x \in Seq(P), x # <<>>, x[1] = Opening,
         NEW declared, Filling(declared, P),
         NEW a \in 2 .. Len(x), NEW b \in 2 .. Len(x), NEW e \in 2 .. Len(x),
         Braced(x, a, b, e),
         NEW y, y = Rest(x, 1 + e), OnePass(y, declared) = TwoPasses(y, declared)
  PROVE  OnePass(x, declared) = TwoPasses(x, declared)
<1> DEFINE D(z) == RenderDollarPlaceholders(z, declared)
           B(z) == RenderDoubleBracePlaceholders(z, declared)
           p == Filled(x, SubSeq(x, a, b), e, declared)
           u == D(y).text
           v == SubSeq(x, 1, e)
           t == v \o u
           two == TwoPasses(y, declared)
<1>1. Len(x) \in Nat /\ e \in Nat /\ 2 <= e /\ e <= Len(x)
  OBVIOUS
<1>2. p \in Steps(P) /\ p.size = e
  <2>1. SubSeq(x, a, b) \in Seq(P)
    BY BracedOnce
  <2>2. e \in 1 .. Len(x)
    BY <1>1
  <2> DEFINE name == SubSeq(x, a, b)
  <2> HIDE DEF name
  <2>3. name \in Seq(P)
    BY <2>1 DEF name
  <2>4. /\ Filled(x, name, e, declared) \in Steps(P)
        /\ Filled(x, name, e, declared).size = e
    BY <2>2, <2>3, FilledFacts
  <2> QED BY <2>4 DEF name
<1>3. OneStep(x, declared) = p
  BY BracesFacts DEF OneStep
<1>4. OnePass(x, declared) = Joined(p, OnePass(y, declared))
  BY <1>2, <1>3, OneUnfolds
<1>5. y \in Seq(P)
  <2>1. 1 + e \in 1 .. Len(x) + 1
    BY <1>1
  <2> QED BY <2>1, RestFacts
<1>6. D(x) = [text |-> t, unknown |-> D(y).unknown]
  <2>1. e \in 0 .. Len(x) /\ e + 1 = 1 + e
    BY <1>1
  <2>2. Plain(x, e)
    BY BracedIsPlain
  <2>3. D(x) = [text |-> SubSeq(x, 1, e) \o D(Rest(x, e + 1)).text,
                unknown |-> D(Rest(x, e + 1)).unknown]
    BY <2>1, <2>2, DollarsKeep
  <2> HIDE DEF D
  <2> QED BY <2>1, <2>3
<1>7. u \in Seq(P)
  <2>1. D(y) \in Results(P)
    BY <1>5, DollarsUnfold
  <2> QED BY <2>1 DEF Results
<1>8. v \in Seq(P) /\ Len(v) = e /\ \A i \in 1 .. e : v[i] = x[i]
  <2>1. \A i \in 1 .. e : x[i] \in P
    BY <1>1
  <2>2. /\ v \in Seq(P) /\ Len(v) = IF 1 <= e THEN e - 1 + 1 ELSE 0
        /\ \A i \in 1 .. e - 1 + 1 : v[i] = x[1 + i - 1]
    BY <1>1, <2>1, SubSeqProperties
  <2> HIDE DEF v
  <2> QED BY <1>1, <2>2
<1> HIDE DEF u, v
<1>9. /\ t \in Seq(P) /\ Len(t) = e + Len(u) /\ Rest(t, e + 1) = u
      /\ \A i \in 1 .. e : t[i] = x[i]
  BY <1>7, <1>8, AfterConcat
<1> HIDE DEF t
<1>10. /\ Len(u) \in Nat /\ e <= Len(t) /\ 1 \in 1 .. e /\ t # <<>>
       /\ e \in 2 .. Len(t) /\ Len(t) \in Nat
  <2>1. Len(u) \in Nat
    BY <1>7
  <2>2. /\ e <= Len(t) /\ 1 \in 1 .. e /\ Len(t) # 0 /\ e \in 2 .. Len(t)
        /\ Len(t) \in Nat
    BY <1>1, <1>9, <2>1
  <2> QED BY <1>9, <2>1, <2>2
<1>11. t[1] = Opening
  BY <1>9, <1>10
<1>12. /\ Braced(t, a, b, e) /\ a <= b /\ b < e
       /\ p = Filled(t, SubSeq(t, a, b), e, declared)
  <2>1. \A i \in 1 .. e : x[i] = t[i]
    BY <1>9
  <2>2. t \in Seq(P) /\ e <= Len(t)
    BY <1>9, <1>10
  <2> QED BY <2>1, <2>2, BracedAlike
<1>13. BracesStep(t, declared) = p
  <2>1. a \in 2 .. Len(t) /\ b \in 2 .. Len(t)
    BY <1>1, <1>10, <1>12
  <2> QED BY <1>9, <1>10, <1>11, <1>12, <2>1, BracesFacts
<1> HIDE DEF p
<1>14. B(t) = Joined(p, B(u))
  <2>1. 1 + p.size = e + 1
    BY <1>1, <1>2
  <2>2. B(t) = Joined(p, B(Rest(t, 1 + p.size)))
    BY <1>9, <1>10, <1>13, BracesUnfold
  <2> HIDE DEF B
  <2> QED BY <1>9, <2>1, <2>2
<1>15. D(x).text = t /\ D(x).unknown = D(y).unknown
  <2> HIDE DEF D
  <2> QED BY <1>6
<1>16. TwoPasses(x, declared) = [text |-> B(t).text, unknown |-> D(x).unknown \cup B(t).unknown]
  BY <1>15, TwoPassesFacts
<1>17. two = [text |-> B(u).text, unknown |-> D(y).unknown \cup B(u).unknown]
  BY TwoPassesFacts DEF u
<1> HIDE DEF D, B, two
<1>18. /\ B(t).text = p.text \o B(u).text
       /\ B(t).unknown = p.unknown \cup B(u).unknown
  BY <1>14, JoinedFacts
<1>19. two.text = B(u).text /\ two.unknown = D(y).unknown \cup B(u).unknown
  BY <1>17
<1>20. Joined(p, two) = [text |-> p.text \o two.text, unknown |-> p.unknown \cup two.unknown]
  BY DEF Joined
<1>21. D(y).unknown \cup (p.unknown \cup B(u).unknown)
         = p.unknown \cup (D(y).unknown \cup B(u).unknown)
  OBVIOUS
<1>22. TwoPasses(x, declared) = Joined(p, two)
  BY <1>15, <1>16, <1>18, <1>19, <1>20, <1>21
<1> QED BY <1>4, <1>22 DEF two

\* Where braces begin that no placeholder has, and no value can make one.
LEMMA AtBraces ==
  ASSUME NEW P, NEW x \in Seq(P), x # <<>>, x[1] = Opening, ~ Nested(x),
         NEW declared, Filling(declared, P),
         \A n \in DOMAIN declared : ~ HasBraces(declared[n]),
         \A a, b, e \in 2 .. Len(x) : ~ Braced(x, a, b, e),
         NEW y, y = Rest(x, 2), OnePass(y, declared) = TwoPasses(y, declared)
  PROVE  OnePass(x, declared) = TwoPasses(x, declared)
<1> DEFINE D(z) == RenderDollarPlaceholders(z, declared)
           B(z) == RenderDoubleBracePlaceholders(z, declared)
           u == D(y).text
           one == <<x[1]>>
           t == one \o u
           two == TwoPasses(y, declared)
<1>1. Len(x) \in Nat \ {0} /\ x[1] \in P /\ 2 \in 1 .. Len(x) + 1
  BY FirstAndRest
<1>2. OneStep(x, declared) = Kept(x)
  BY BracesFacts DEF OneStep
<1>3. Kept(x).size = 1 /\ Kept(x).text = one /\ Kept(x).unknown = {}
  BY KeptFacts
<1>4. OnePass(x, declared) = Joined(Kept(x), OnePass(y, declared))
  <2>1. 1 + Kept(x).size = 2
    BY <1>3
  <2> QED BY <1>2, <2>1, OneUnfolds
<1>5. y \in Seq(P)
  BY <1>1, RestFacts
<1>6. D(x) = [text |-> t, unknown |-> D(y).unknown]
  BY DollarsAtBraces
<1>7. u \in Seq(P)
  <2>1. D(y) \in Results(P)
    BY <1>5, DollarsUnfold
  <2> QED BY <2>1 DEF Results
<1>8. one \in Seq(P) /\ Len(one) = 1 /\ one # <<>> /\ one[1] = x[1]
  BY <1>1
<1>9. D(x).text = t /\ D(x).unknown = D(y).unknown
  <2> HIDE DEF D, t
  <2> QED BY <1>6
<1> HIDE DEF u, one
<1>10. t \in Seq(P) /\ t # <<>> /\ t[1] = x[1] /\ Rest(t, 1 + 1) = u
  <2>1. /\ t \in Seq(P) /\ Rest(t, Len(one) + 1) = u
        /\ one # <<>> => t # <<>> /\ t[1] = one[1]
    BY <1>7, <1>8, AfterConcat
  <2> HIDE DEF t
  <2> QED BY <1>8, <2>1
<1> HIDE DEF t
<1>11. ASSUME NEW a \in 2 .. Len(t), NEW b \in 2 .. Len(t), NEW e \in 2 .. Len(t),
              Braced(t, a, b, e)
       PROVE  FALSE
  <2>1. /\ a <= b /\ b < e /\ t[e] = Closing
        /\ \A i \in 2 .. a - 1 : t[i] \in Blanks
        /\ \A i \in a .. b : t[i] \in Letters \cup Digits
        /\ \A i \in b + 1 .. e - 1 : t[i] \in Blanks
    BY <1>10, <1>11, BracedOnce DEF Braced
  <2>2. Len(t) \in Nat /\ a \in Nat /\ b \in Nat /\ e \in Nat /\ 2 <= a /\ e <= Len(t)
    BY <1>10
  <2>3. Closing \in Range(t)
    <3>1. e \in DOMAIN t
      BY <1>10, <2>2
    <3> QED BY <2>1, <3>1 DEF Range
  <2>4. PICK k \in DOMAIN x : x[k] = Closing
    <3>1. Closing \in Range(D(x).text)
      BY <1>9, <2>3
    <3>2. Closing \in Range(x)
      BY <3>1, NoNewBraces
    <3> QED BY <3>2 DEF Range
  <2>5. k \in 2 .. Len(x) /\ k \in Nat /\ k <= Len(x)
    <3>1. k # 1
      BY <2>4, BracesDiffer
    <3> QED BY <1>1, <3>1
  <2>6. Plain(x, k)
    <3>1. ASSUME NEW j \in 1 .. k, x[j] = "$" PROVE FALSE
      <4>1. j # 1 /\ j # k
        BY <2>4, <3>1, BracesDiffer
      <4>2. 1 \in DOMAIN x /\ j \in DOMAIN x /\ 1 < j /\ j < k
        BY <1>1, <2>5, <4>1
      <4> QED BY <2>4, <3>1, <4>2 DEF Nested
    <3> QED BY <2>4, <3>1, BracesDiffer DEF Plain
  <2> DEFINE v == SubSeq(x, 1, k)
             w == D(Rest(x, k + 1)).text
  <2>7. t = v \o w
    <3>1. k \in 0 .. Len(x)
      BY <2>5
    <3>2. D(x) = [text |-> v \o w, unknown |-> D(Rest(x, k + 1)).unknown]
      BY <2>6, <3>1, DollarsKeep
    <3> HIDE DEF D, v, w
    <3>3. D(x).text = v \o w
      BY <3>2
    <3> QED BY <1>9, <3>3
  <2>8. v \in Seq(P) /\ Len(v) = k /\ \A i \in 1 .. k : v[i] = x[i]
    <3>1. \A i \in 1 .. k : x[i] \in P
      BY <2>5
    <3>2. /\ v \in Seq(P) /\ Len(v) = IF 1 <= k THEN k - 1 + 1 ELSE 0
          /\ \A i \in 1 .. k - 1 + 1 : v[i] = x[1 + i - 1]
      BY <2>5, <3>1, SubSeqProperties
    <3> HIDE DEF v
    <3> QED BY <2>5, <3>2
  <2>9. w \in Seq(P)
    <3>1. k + 1 \in 1 .. Len(x) + 1
      BY <2>5
    <3>2. Rest(x, k + 1) \in Seq(P)
      BY <3>1, RestFacts
    <3>3. D(Rest(x, k + 1)) \in Results(P)
      BY <3>2, DollarsUnfold
    <3> QED BY <3>3 DEF Results
  <2> HIDE DEF v, w
  <2>10. \A i \in 1 .. k : t[i] = x[i]
    BY <2>7, <2>8, <2>9, AfterConcat
  <2>11. e <= k
    <3>1. SUFFICES ASSUME k < e PROVE FALSE
      BY <2>2, <2>5
    <3>2. t[k] = Closing
      BY <2>4, <2>5, <2>10
    <3>3. k \in 2 .. a - 1 \/ k \in a .. b \/ k \in b + 1 .. e - 1
      BY <2>1, <2>2, <2>5, <3>1
    <3> QED BY <2>1, <3>2, <3>3, BracesDiffer
  <2>12. Braced(x, a, b, e)
    <3>1. e <= Len(x) /\ \A i \in 1 .. e : t[i] = x[i]
      BY <2>2, <2>5, <2>10, <2>11
    <3> QED BY <1>10, <1>11, <3>1, BracedAlike
  <2>13. a \in 2 .. Len(x) /\ b \in 2 .. Len(x) /\ e \in 2 .. Len(x)
    BY <2>1, <2>2, <2>5, <2>11
  <2> QED BY <2>12, <2>13
<1>12. BracesStep(t, declared) = Kept(t)
  BY <1>10, <1>11, BracesFacts
<1>13. Kept(t) = Kept(x)
  BY <1>10 DEF Kept
<1>14. B(t) = Joined(Kept(x), B(u))
  <2>1. B(t) = Joined(Kept(x), B(Rest(t, 1 + Kept(x).size)))
    BY <1>10, <1>12, <1>13, BracesUnfold
  <2>2. Rest(t, 1 + Kept(x).size) = u
    BY <1>3, <1>10
  <2> HIDE DEF B
  <2> QED BY <2>1, <2>2
<1>15. TwoPasses(x, declared) = [text |-> B(t).text, unknown |-> D(x).unknown \cup B(t).unknown]
  BY <1>9, TwoPassesFacts
<1>16. two = [text |-> B(u).text, unknown |-> D(y).unknown \cup B(u).unknown]
  BY TwoPassesFacts DEF u
<1> HIDE DEF D, B, two
<1>17. B(t).text = one \o B(u).text /\ B(t).unknown = B(u).unknown
  <2>1. /\ B(t).text = Kept(x).text \o B(u).text
        /\ B(t).unknown = Kept(x).unknown \cup B(u).unknown
    BY <1>14, JoinedFacts
  <2>2. Kept(x).text = one /\ Kept(x).unknown = {}
    BY <1>3
  <2> QED BY <2>1, <2>2
<1>18. two.text = B(u).text /\ two.unknown = D(y).unknown \cup B(u).unknown
  BY <1>16
<1>19. Joined(Kept(x), two) = [text |-> one \o two.text, unknown |-> two.unknown]
  BY <1>3 DEF Joined
<1>20. TwoPasses(x, declared) = Joined(Kept(x), two)
  BY <1>9, <1>15, <1>17, <1>18, <1>19
<1> QED BY <1>4, <1>20 DEF two

\* The rest of a text nests no dollar in braces if the text does not.
LEMMA RestIsNotNested ==
  ASSUME NEW P, NEW s \in Seq(P), NEW i \in 1 .. Len(s) + 1, ~ Nested(s)
  PROVE  ~ Nested(Rest(s, i))
<1> DEFINE r == Rest(s, i)
<1>1. /\ Len(s) \in Nat /\ DOMAIN s = 1 .. Len(s)
      /\ DOMAIN r = 1 .. Len(s) - i + 1
      /\ \A j \in 1 .. Len(s) - i + 1 : r[j] = s[i + j - 1]
  <2>1. Len(s) \in Nat /\ DOMAIN s = 1 .. Len(s)
    OBVIOUS
  <2> HIDE DEF r
  <2>2. /\ DOMAIN r = 1 .. Len(s) - i + 1
        /\ \A j \in 1 .. Len(s) - i + 1 : r[j] = s[i + j - 1]
    BY RestFacts, Zenon DEF r
  <2> QED BY <2>1, <2>2
<1> HIDE DEF r
<1>2. ASSUME Nested(r) PROVE FALSE
  <2>1. PICK j, k, l \in 1 .. Len(s) - i + 1 :
          j < k /\ k < l /\ r[j] = Opening /\ r[k] = "$" /\ r[l] = Closing
    BY <1>1, <1>2 DEF Nested
  <2>2. /\ i + j - 1 \in 1 .. Len(s) /\ i + k - 1 \in 1 .. Len(s)
        /\ i + l - 1 \in 1 .. Len(s)
        /\ i + j - 1 < i + k - 1 /\ i + k - 1 < i + l - 1
    BY <1>1, <2>1
  <2>3. /\ s[i + j - 1] = Opening /\ s[i + k - 1] = "$" /\ s[i + l - 1] = Closing
    BY <1>1, <2>1
  <2> QED BY <1>1, <2>2, <2>3 DEF Nested
<1> QED BY <1>2 DEF r

(***************************************************************************)
(* renderDollarPlaceholders and then renderDoubleBracePlaceholders         *)
(* (artifact.go:66-80) do what README.md:104-106 says of one pass, for all *)
(* bodies that nest no dollar in braces and all values without braces.     *)
(***************************************************************************)
THEOREM TwoPassesAreOne ==
  ASSUME NEW P, NEW s \in Seq(P), NEW declared, Filling(declared, P),
         ~ Nested(s), \A n \in DOMAIN declared : ~ HasBraces(declared[n])
  PROVE  TwoPasses(s, declared) = OnePass(s, declared)
<1> DEFINE T == {x \in Seq(P) :
                   ~ Nested(x) => OnePass(x, declared) = TwoPasses(x, declared)}
<1>1. ASSUME NEW x \in Seq(P), \A r \in Seq(P) : Len(r) < Len(x) => r \in T
      PROVE  x \in T
  <2>1. SUFFICES ASSUME ~ Nested(x)
                 PROVE  OnePass(x, declared) = TwoPasses(x, declared)
    OBVIOUS
  <2>2. CASE x = <<>>
    <3>1. /\ OnePass(x, declared) = EmptyResult
          /\ RenderDollarPlaceholders(x, declared) = EmptyResult
          /\ RenderDoubleBracePlaceholders(x, declared) = EmptyResult
      BY <2>2, OneUnfolds, DollarsUnfold, BracesUnfold
    <3>2. x = RenderDollarPlaceholders(x, declared).text
      BY <2>2, <3>1, JoinedFacts
    <3>3. TwoPasses(x, declared) = [text |-> EmptyResult.text,
                                    unknown |-> EmptyResult.unknown \cup EmptyResult.unknown]
      BY <3>1, <3>2, TwoPassesFacts
    <3> QED BY <3>1, <3>3 DEF EmptyResult
  <2>3. ASSUME x # <<>>, NEW i \in 2 .. Len(x) + 1
        PROVE  OnePass(Rest(x, i), declared) = TwoPasses(Rest(x, i), declared)
    <3>1. Len(x) \in Nat /\ i \in 1 .. Len(x) + 1
      OBVIOUS
    <3>2. Rest(x, i) \in Seq(P) /\ Len(Rest(x, i)) = Len(x) - i + 1
      BY <3>1, RestFacts
    <3>3. Len(Rest(x, i)) < Len(x)
      BY <3>1, <3>2
    <3>4. ~ Nested(Rest(x, i))
      BY <2>1, <3>1, RestIsNotNested
    <3> QED BY <1>1, <3>2, <3>3, <3>4
  <2> HIDE DEF T
  <2>4. CASE x # <<>> /\ x[1] # Opening
    <3> DEFINE p == DollarStep(x, declared)
    <3>1. p.size \in Nat \ {0} /\ p.size <= Len(x)
      BY <2>4, DollarFacts DEF Steps
    <3> HIDE DEF p
    <3>2. 1 + p.size \in 2 .. Len(x) + 1
      <4>1. Len(x) \in Nat
        OBVIOUS
      <4> QED BY <3>1, <4>1
    <3>3. OnePass(Rest(x, 1 + p.size), declared) = TwoPasses(Rest(x, 1 + p.size), declared)
      BY <2>3, <2>4, <3>2
    <3> QED BY <2>4, <3>3, AsideOfBraces DEF p
  <2>5. CASE x # <<>> /\ x[1] = Opening
    <3>1. CASE \E a, b, e \in 2 .. Len(x) : Braced(x, a, b, e)
      <4>1. PICK a, b, e \in 2 .. Len(x) : Braced(x, a, b, e)
        BY <3>1
      <4>2. 1 + e \in 2 .. Len(x) + 1
        <5>1. Len(x) \in Nat
          OBVIOUS
        <5> QED BY <5>1
      <4>3. OnePass(Rest(x, 1 + e), declared) = TwoPasses(Rest(x, 1 + e), declared)
        BY <2>3, <2>5, <4>2
      <4> QED BY <2>5, <4>1, <4>3, AtPlaceholder
    <3>2. CASE \A a, b, e \in 2 .. Len(x) : ~ Braced(x, a, b, e)
      <4>1. 2 \in 2 .. Len(x) + 1
        <5>1. Len(x) \in Nat \ {0}
          BY <2>5, FirstAndRest
        <5> QED BY <5>1
      <4>2. OnePass(Rest(x, 2), declared) = TwoPasses(Rest(x, 2), declared)
        BY <2>3, <2>5, <4>1
      <4> QED BY <2>1, <2>5, <3>2, <4>2, AtBraces
    <3> QED BY <3>1, <3>2
  <2> QED BY <2>2, <2>4, <2>5
<1>2. Seq(P) \subseteq T
  <2> HIDE DEF T
  <2> QED BY <1>1, TextInduction
<1> QED BY <1>2

----------------------------------------------------------------------------
(* What names stand for *)

\* Of the declarations of a name the first one counts (artifact.go:50-54).
LEMMA DeclaredIsFirst ==
  ASSUME NEW A, NEW args \in Seq(A), NEW vals
  PROVE  Declared(args, vals) = FirstDeclared(args, vals)
<1> DEFINE name(i) == NameOf(args[i])
           counting == {i \in DOMAIN args : Counts(args, i)}
           at(n) == CHOOSE i \in counting : name(i) = n
           all(n) == {i \in DOMAIN args : name(i) = n}
           names == {m \in {name(i) : i \in DOMAIN args} : IsValidSkillArgumentName(m)}
<1>1. DOMAIN args \in SUBSET Nat /\ DOMAIN args = 1 .. Len(args) /\ Len(args) \in Nat
  OBVIOUS
<1>2. \A i \in DOMAIN args :
        i \in counting <=> /\ IsValidSkillArgumentName(name(i))
                           /\ \A j \in 1 .. i - 1 : name(j) # name(i)
  BY DEF Counts
<1>3. ASSUME NEW n \in names
      PROVE  /\ Min(all(n)) \in counting /\ name(Min(all(n))) = n
             /\ \A i \in counting : name(i) = n => i = Min(all(n))
  <2> DEFINE first == Min(all(n))
  <2>1. all(n) \in SUBSET Nat /\ all(n) # {} /\ IsValidSkillArgumentName(n)
    BY <1>1
  <2>2. first \in all(n) /\ \A k \in all(n) : first <= k
    BY <2>1, MinFacts
  <2> HIDE DEF first
  <2>3. first \in DOMAIN args /\ name(first) = n
    BY <2>2
  <2>4. ASSUME NEW j \in 1 .. first - 1 PROVE name(j) # name(first)
    <3>1. j \in DOMAIN args /\ ~ (first <= j)
      BY <1>1, <2>3
    <3> QED BY <2>2, <2>3, <3>1
  <2>5. first \in counting
    BY <1>2, <2>1, <2>3, <2>4
  <2>6. ASSUME NEW i \in counting, name(i) = n PROVE i = first
    <3>1. i \in DOMAIN args /\ \A j \in 1 .. i - 1 : name(j) # name(i)
      BY <1>2
    <3>2. first <= i
      BY <2>2, <2>6, <3>1
    <3>3. first \notin 1 .. i - 1
      BY <2>3, <2>6, <3>1
    <3> QED BY <1>1, <2>3, <3>1, <3>2, <3>3
  <2> QED BY <2>3, <2>5, <2>6 DEF first
<1>4. {name(i) : i \in counting} = names
  <2>1. \A i \in counting : name(i) \in names
    BY <1>2
  <2>2. \A n \in names : \E i \in counting : name(i) = n
    BY <1>3
  <2> HIDE DEF names, counting
  <2> QED BY <2>1, <2>2
<1>5. ASSUME NEW n \in names PROVE at(n) = Min(all(n))
  <2> HIDE DEF counting, names, all
  <2> QED BY <1>3
<1>6. Declared(args, vals)
        = [n \in names |-> IF n \in DOMAIN vals THEN vals[n]
                           ELSE args[Min(all(n))].default]
  <2>1. Declared(args, vals)
          = [n \in {name(i) : i \in counting} |->
               IF n \in DOMAIN vals THEN vals[n] ELSE args[at(n)].default]
    BY DEF Declared
  <2> HIDE DEF counting, names, all, at
  <2> QED BY <1>4, <1>5, <2>1
<1> QED BY <1>6 DEF FirstDeclared

\* Names stand for texts if all values and defaults are texts.
LEMMA DeclaredFills ==
  ASSUME NEW A, NEW args \in Seq(A), NEW vals, NEW P,
         \A i \in DOMAIN args : args[i].default \in Seq(P),
         \A n \in DOMAIN vals : vals[n] \in Seq(P)
  PROVE  Filling(FirstDeclared(args, vals), P)
<1> DEFINE names == {NameOf(args[i]) : i \in DOMAIN args}
           all(n) == {i \in DOMAIN args : NameOf(args[i]) = n}
           declared == FirstDeclared(args, vals)
<1>1. DOMAIN args \in SUBSET Nat
  OBVIOUS
<1>2. /\ DOMAIN declared \subseteq names
      /\ \A n \in DOMAIN declared :
           declared[n] = IF n \in DOMAIN vals THEN vals[n]
                         ELSE args[Min(all(n))].default
  BY DEF FirstDeclared
<1> HIDE DEF declared
<1>3. ASSUME NEW n \in DOMAIN declared PROVE declared[n] \in Seq(P)
  <2>1. all(n) \in SUBSET Nat /\ all(n) # {}
    BY <1>1, <1>2
  <2>2. Min(all(n)) \in all(n)
    BY <2>1, MinFacts
  <2>3. args[Min(all(n))].default \in Seq(P)
    BY <2>2
  <2> QED BY <1>2, <2>3
<1> QED BY <1>3 DEF Filling, declared

(***************************************************************************)
(* RenderSkillBody (artifact.go:35-80) does what README.md:104-106 says,   *)
(* with the first declaration of each name.                                *)
(***************************************************************************)
THEOREM BodyRenderedInOnePass ==
  ASSUME NEW P, NEW s \in Seq(P), NEW A, NEW args \in Seq(A), NEW vals,
         \A i \in DOMAIN args : args[i].default \in Seq(P),
         \A n \in DOMAIN vals : vals[n] \in Seq(P),
         ~ Nested(s),
         \A n \in DOMAIN FirstDeclared(args, vals) :
           ~ HasBraces(FirstDeclared(args, vals)[n])
  PROVE  RenderSkillBody(s, args, vals) = OnePass(s, FirstDeclared(args, vals))
<1> DEFINE declared == FirstDeclared(args, vals)
<1>1. Declared(args, vals) = declared
  BY DeclaredIsFirst
<1>2. Filling(declared, P)
  BY DeclaredFills
<1>3. \A n \in DOMAIN declared : ~ HasBraces(declared[n])
  OBVIOUS
<1> HIDE DEF declared
<1>4. TwoPasses(s, declared) = OnePass(s, declared)
  BY <1>2, <1>3, TwoPassesAreOne
<1> QED BY <1>1, <1>4 DEF RenderSkillBody, declared

=============================================================================
