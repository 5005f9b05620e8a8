--------------------------- MODULE DocumentProofs ---------------------------
(***************************************************************************)
(* What parsing, writing and rendering a SKILL.md document promise         *)
(* (Document), for contents and limits of any size.                        *)
(***************************************************************************)
EXTENDS Document, RenderProofs

----------------------------------------------------------------------------
(* Texts *)

\* A part of a text is a text.
LEMMA SubText ==
  ASSUME NEW s \in Text, NEW i \in Nat \ {0}, NEW j \in Int, j <= Len(s)
  PROVE  /\ SubSeq(s, i, j) \in Text
         /\ Len(SubSeq(s, i, j)) = IF i <= j THEN j - i + 1 ELSE 0
         /\ \A k \in 1 .. j - i + 1 : SubSeq(s, i, j)[k] = s[k + i - 1]
<1>1. \A k \in i .. j : s[k] \in Parts
  BY DEF Text
<1>2. /\ SubSeq(s, i, j) \in Seq(Parts)
      /\ Len(SubSeq(s, i, j)) = IF i <= j THEN j - i + 1 ELSE 0
      /\ \A k \in 1 .. j - i + 1 : SubSeq(s, i, j)[k] = s[i + k - 1]
  BY <1>1, SubSeqProperties
<1>3. \A k \in 1 .. j - i + 1 : i + k - 1 = k + i - 1
  OBVIOUS
<1> QED BY <1>2, <1>3 DEF Text

\* Neither end is a blank.
SolidEnds(s) == s = <<>> \/ (s[1] \notin Blanks /\ s[Len(s)] \notin Blanks)

\* strings.TrimSpace leaves a text as it is that has no blank at its ends.
LEMMA SolidIsTrimmed ==
  ASSUME NEW s \in Text, SolidEnds(s)
  PROVE  Trimmed(s)
<1> DEFINE solid == {i \in DOMAIN s : s[i] \notin Blanks}
<1>1. DOMAIN s = 1 .. Len(s) /\ Len(s) \in Nat
  BY DEF Text
<1>2. TrimSpace(s) = IF solid = {} THEN <<>> ELSE SubSeq(s, Min(solid), Max(solid))
  BY DEF TrimSpace
<1>3. CASE s = <<>>
  BY <1>1, <1>2, <1>3 DEF Trimmed
<1>4. CASE s # <<>>
  <2>1. Len(s) >= 1
    BY <1>4, <1>1, EmptySeq DEF Text
  <2>2. 1 \in solid /\ Len(s) \in solid
    BY <1>1, <1>4, <2>1 DEF SolidEnds
  <2>3. /\ solid \in SUBSET Nat /\ solid \in SUBSET (1 .. Len(s))
        /\ \A i \in solid : i \in Nat /\ 1 <= i /\ i <= Len(s)
    BY <1>1
  <2> HIDE DEF solid
  <2>4. Min(solid) = 1
    <3>1. Min(solid) \in solid /\ Min(solid) <= 1
      BY <2>2, <2>3, MinFacts
    <3>2. Min(solid) \in Nat /\ 1 <= Min(solid)
      BY <2>3, <3>1
    <3> QED BY <3>1, <3>2
  <2>5. Max(solid) = Len(s)
    <3>1. Max(solid) \in solid /\ Len(s) <= Max(solid)
      BY <1>1, <2>2, <2>3, MaxFacts
    <3>2. Max(solid) \in Nat /\ Max(solid) <= Len(s)
      BY <2>3, <3>1
    <3> QED BY <1>1, <3>1, <3>2
  <2>6. SubSeq(s, 1, Len(s)) = s
    BY SubSeqFull DEF Text
  <2> QED BY <1>2, <2>2, <2>4, <2>5, <2>6 DEF Trimmed
<1> QED BY <1>3, <1>4

\* What strings.TrimSpace makes is a text without blanks at its ends, so
\* that trimming it again changes nothing.
LEMMA TrimFacts ==
  ASSUME NEW s \in Text
  PROVE  /\ TrimSpace(s) \in Text /\ Trimmed(TrimSpace(s))
         /\ SolidEnds(TrimSpace(s))
         /\ Len(TrimSpace(s)) <= Len(s)
<1> DEFINE solid == {i \in DOMAIN s : s[i] \notin Blanks}
           lo == Min(solid)
           hi == Max(solid)
<1>1. DOMAIN s = 1 .. Len(s) /\ Len(s) \in Nat
  BY DEF Text
<1>2. TrimSpace(s) = IF solid = {} THEN <<>> ELSE SubSeq(s, lo, hi)
  BY DEF TrimSpace
<1>3. <<>> \in Text /\ SolidEnds(<<>>)
  BY DEF Text, SolidEnds
<1>4. CASE solid = {}
  <2>1. Len(<<>>) <= Len(s)
    BY <1>1
  <2> QED BY <1>2, <1>3, <1>4, <2>1, SolidIsTrimmed
<1>5. CASE solid # {}
  <2>1. solid \in SUBSET Nat /\ solid \in SUBSET (1 .. Len(s))
    BY <1>1
  <2>2. \A i \in solid : s[i] \notin Blanks /\ i \in Nat /\ 1 <= i /\ i <= Len(s)
    BY <1>1
  <2> HIDE DEF solid
  <2>3. lo \in solid /\ hi \in solid /\ lo <= hi
    BY <1>1, <1>5, <2>1, MinFacts, MaxFacts
  <2>4. lo \in Nat \ {0} /\ hi \in Int /\ hi <= Len(s)
    BY <1>1, <2>2, <2>3
  <2>5. s[lo] \notin Blanks /\ s[hi] \notin Blanks
    BY <2>2, <2>3
  <2> HIDE DEF lo, hi
  <2> DEFINE t == SubSeq(s, lo, hi)
  <2>6. /\ t \in Text /\ Len(t) = hi - lo + 1
        /\ \A k \in 1 .. hi - lo + 1 : t[k] = s[k + lo - 1]
    BY <2>3, <2>4, SubText
  <2> HIDE DEF t
  <2>7. /\ 1 \in 1 .. hi - lo + 1 /\ 1 + lo - 1 = lo
        /\ hi - lo + 1 \in 1 .. hi - lo + 1 /\ hi - lo + 1 + lo - 1 = hi
    BY <2>3, <2>4
  <2>8. t[1] = s[lo] /\ t[Len(t)] = s[hi]
    BY <2>6, <2>7
  <2>9. SolidEnds(t)
    BY <2>5, <2>8 DEF SolidEnds
  <2>10. Trimmed(t)
    BY <2>6, <2>9, SolidIsTrimmed
  <2>11. Len(t) <= Len(s)
    BY <1>1, <2>3, <2>4, <2>6
  <2> QED BY <1>2, <1>5, <2>6, <2>9, <2>10, <2>11 DEF t
<1> QED BY <1>4, <1>5

\* A text that is cut at a limit (document.go:141, 538) keeps to it.
LEMMA CutFacts ==
  ASSUME NEW X, NEW s \in Seq(X), NEW max \in Nat
  PROVE  /\ Cut(s, max) \in Seq(X)
         /\ Len(Cut(s, max)) = IF Len(s) > max THEN max ELSE Len(s)
         /\ Len(s) <= max => Cut(s, max) = s
         /\ \A i \in 1 .. Len(Cut(s, max)) : Cut(s, max)[i] = s[i]
<1>1. Len(s) \in Nat
  OBVIOUS
<1>2. CASE Len(s) > max
  <2>1. \A k \in 1 .. max : s[k] \in X
    BY <1>1, <1>2
  <2>2. /\ SubSeq(s, 1, max) \in Seq(X)
        /\ Len(SubSeq(s, 1, max)) = IF 1 <= max THEN max - 1 + 1 ELSE 0
        /\ \A i \in 1 .. max - 1 + 1 : SubSeq(s, 1, max)[i] = s[1 + i - 1]
    BY <2>1, SubSeqProperties
  <2>3. max - 1 + 1 = max /\ \A i \in 1 .. max : 1 + i - 1 = i
    OBVIOUS
  <2>4. (IF 1 <= max THEN max - 1 + 1 ELSE 0) = max
    OBVIOUS
  <2> QED BY <1>1, <1>2, <2>2, <2>3, <2>4 DEF Cut
<1>3. CASE ~ (Len(s) > max)
  BY <1>1, <1>3 DEF Cut
<1> QED BY <1>2, <1>3

\* One more at the end matters to what is cut only below the limit.
LEMMA CutAppend ==
  ASSUME NEW X, NEW s \in Seq(X), NEW x \in X, NEW max \in Nat
  PROVE  Cut(Append(s, x), max) =
           IF Len(s) < max THEN Append(s, x) ELSE Cut(s, max)
<1> DEFINE t == Append(s, x)
<1>1. /\ t \in Seq(X) /\ Len(t) = Len(s) + 1 /\ Len(s) \in Nat
      /\ \A i \in 1 .. Len(s) : t[i] = s[i]
  BY AppendProperties
<1>2. CASE Len(s) < max
  <2> HIDE DEF t
  <2>1. Len(t) <= max
    BY <1>1, <1>2
  <2>2. Cut(t, max) = t
    BY <1>1, <2>1, CutFacts
  <2> QED BY <1>2, <2>2 DEF t
<1>3. CASE ~ (Len(s) < max)
  <2> HIDE DEF t
  <2>1. /\ Cut(t, max) \in Seq(X) /\ Len(Cut(t, max)) = max
        /\ \A i \in 1 .. Len(Cut(t, max)) : Cut(t, max)[i] = t[i]
    <3>1. Len(t) > max
      BY <1>1, <1>3
    <3> QED BY <1>1, <3>1, CutFacts
  <2>2. /\ Cut(s, max) \in Seq(X) /\ Len(Cut(s, max)) = max
        /\ \A i \in 1 .. Len(Cut(s, max)) : Cut(s, max)[i] = s[i]
    <3>1. (IF Len(s) > max THEN max ELSE Len(s)) = max
      BY <1>1, <1>3
    <3> QED BY <1>1, <3>1, CutFacts
  <2>3. \A i \in 1 .. max : Cut(t, max)[i] = Cut(s, max)[i]
    BY <1>1, <1>3, <2>1, <2>2
  <2>4. Cut(t, max) = Cut(s, max)
    <3> DEFINE u == Cut(t, max)
               v == Cut(s, max)
    <3>1. /\ u = [i \in 1 .. max |-> u[i]]
          /\ v = [i \in 1 .. max |-> v[i]]
      BY <2>1, <2>2
    <3> HIDE DEF u, v
    <3>2. \A i \in 1 .. max : u[i] = v[i]
      BY <2>3 DEF u, v
    <3>3. u = v
      BY <3>1, <3>2
    <3> QED BY <3>3 DEF u, v
  <2> QED BY <1>3, <2>4 DEF t
<1> QED BY <1>2, <1>3

\* What appending an element does to the elements and their repetitions.
LEMMA RangeOfAppend ==
  ASSUME NEW X, NEW s \in Seq(X), NEW x \in X
  PROVE  /\ Range(Append(s, x)) = Range(s) \cup {x}
         /\ IsInjective(s) /\ x \notin Range(s) => IsInjective(Append(s, x))
<1> DEFINE t == Append(s, x)
<1>1. /\ t \in Seq(X) /\ Len(t) = Len(s) + 1 /\ Len(s) \in Nat
      /\ \A i \in 1 .. Len(s) : t[i] = s[i]
      /\ t[Len(s) + 1] = x
  BY AppendProperties
<1>2. /\ DOMAIN s = 1 .. Len(s) /\ DOMAIN t = 1 .. Len(t)
      /\ 1 .. Len(t) = (1 .. Len(s)) \cup {Len(s) + 1}
  BY <1>1
<1> HIDE DEF t
<1>3. Range(t) = Range(s) \cup {x}
  BY <1>1, <1>2 DEF Range
<1>4. ASSUME IsInjective(s), x \notin Range(s) PROVE IsInjective(t)
  <2>1. \A i \in 1 .. Len(s) : s[i] # x
    BY <1>2, <1>4 DEF Range
  <2> QED BY <1>1, <1>2, <1>4, <2>1 DEF IsInjective
<1> QED BY <1>3, <1>4 DEF t

\* An element more of what a loop has gone through.
LEMMA FrontAppend ==
  ASSUME NEW X, NEW s \in Seq(X), NEW n \in Nat, n + 1 <= Len(s)
  PROVE  /\ SubSeq(s, 1, n) \in Seq(X) /\ Len(SubSeq(s, 1, n)) = n
         /\ \A i \in 1 .. n : SubSeq(s, 1, n)[i] = s[i]
         /\ Append(SubSeq(s, 1, n), s[n + 1]) = SubSeq(s, 1, n + 1)
<1>1. Len(s) \in Nat /\ s[n + 1] \in X
  OBVIOUS
<1>2. ASSUME NEW k \in Nat, k <= Len(s)
      PROVE  /\ SubSeq(s, 1, k) \in Seq(X) /\ Len(SubSeq(s, 1, k)) = k
             /\ \A i \in 1 .. k : SubSeq(s, 1, k)[i] = s[i]
  <2>1. \A i \in 1 .. k : s[i] \in X
    BY <1>1, <1>2
  <2>2. /\ SubSeq(s, 1, k) \in Seq(X)
        /\ Len(SubSeq(s, 1, k)) = IF 1 <= k THEN k - 1 + 1 ELSE 0
        /\ \A i \in 1 .. k - 1 + 1 : SubSeq(s, 1, k)[i] = s[1 + i - 1]
    BY <2>1, SubSeqProperties
  <2>3. /\ k - 1 + 1 = k /\ (IF 1 <= k THEN k - 1 + 1 ELSE 0) = k
        /\ \A i \in 1 .. k : 1 + i - 1 = i
    OBVIOUS
  <2> QED BY <2>2, <2>3
<1> DEFINE a == SubSeq(s, 1, n)
           b == SubSeq(s, 1, n + 1)
           t == Append(a, s[n + 1])
<1>3. /\ a \in Seq(X) /\ Len(a) = n /\ \A i \in 1 .. n : a[i] = s[i]
      /\ b \in Seq(X) /\ Len(b) = n + 1 /\ \A i \in 1 .. n + 1 : b[i] = s[i]
  BY <1>1, <1>2
<1> HIDE DEF a, b
<1>4. /\ t \in Seq(X) /\ Len(t) = n + 1
      /\ \A i \in 1 .. n : t[i] = a[i]
      /\ t[n + 1] = s[n + 1]
  BY <1>1, <1>3, AppendProperties
<1> HIDE DEF t
<1>5. \A i \in 1 .. n + 1 : t[i] = b[i]
  BY <1>3, <1>4
<1>6. t = [i \in 1 .. n + 1 |-> t[i]] /\ b = [i \in 1 .. n + 1 |-> b[i]]
  BY <1>3, <1>4
<1>7. t = b
  BY <1>5, <1>6
<1> QED BY <1>3, <1>7 DEF a, b, t

----------------------------------------------------------------------------
(* Loops *)

\* f goes from a through the m steps.
Iterates(f, a, step, m) ==
  f[0] = a /\ \A n \in 1 .. m : f[n] = step[<<f[n - 1], n>>]

\* A loop with a result so far, as those over arguments and tags
\* (document.go:437, 586), has one after every step.
LEMMA Iteration ==
  ASSUME NEW A, NEW m \in Nat, NEW a \in A, NEW step \in [A \X (1 .. m) -> A]
  PROVE  \E f \in [0 .. m -> A] : Iterates(f, a, step, m)
<1> DEFINE S == {k \in Nat : k <= m =>
                    \E f \in [0 .. k -> A] : Iterates(f, a, step, k)}
<1>1. 0 \in S
  <2> DEFINE g == [i \in 0 .. 0 |-> a]
  <2>1. g \in [0 .. 0 -> A] /\ Iterates(g, a, step, 0)
    BY DEF Iterates
  <2> QED BY <2>1
<1>2. ASSUME NEW k \in S PROVE k + 1 \in S
  <2>1. SUFFICES ASSUME k + 1 <= m
                 PROVE  \E f \in [0 .. k + 1 -> A] : Iterates(f, a, step, k + 1)
    OBVIOUS
  <2>2. PICK f \in [0 .. k -> A] : Iterates(f, a, step, k)
    BY <2>1
  <2> DEFINE last == step[<<f[k], k + 1>>]
             g == [i \in 0 .. k + 1 |-> IF i <= k THEN f[i] ELSE last]
  <2>3. last \in A
    <3>1. f[k] \in A /\ k + 1 \in 1 .. m
      BY <2>1
    <3> QED BY <3>1
  <2> HIDE DEF last
  <2>4. g \in [0 .. k + 1 -> A]
    BY <2>3
  <2>5. ASSUME NEW n \in 1 .. k + 1 PROVE g[n] = step[<<g[n - 1], n>>]
    <3>1. CASE n <= k
      <4>1. g[n] = f[n] /\ g[n - 1] = f[n - 1] /\ n \in 1 .. k
        BY <3>1
      <4> QED BY <2>2, <4>1 DEF Iterates
    <3>2. CASE n = k + 1
      <4>1. g[n] = last /\ g[n - 1] = f[k]
        BY <3>2
      <4> QED BY <3>2, <4>1 DEF last
    <3> QED BY <3>1, <3>2
  <2>6. g[0] = a
    BY <2>2 DEF Iterates
  <2> HIDE DEF g
  <2> QED BY <2>4, <2>5, <2>6 DEF Iterates
<1>3. S = Nat
  <2> HIDE DEF S
  <2>1. S \in SUBSET Nat
    BY DEF S
  <2> QED BY <1>1, <1>2, <2>1, SetInduction
<1>4. m \in S
  <2> HIDE DEF S
  <2> QED BY <1>3
<1> QED BY <1>4

\* What every step keeps, the whole loop keeps.
LEMMA Invariance ==
  ASSUME NEW A, NEW m \in Nat, NEW f, f = [n \in 0 .. m |-> f[n]],
         f[0] \in A, \A n \in 1 .. m : f[n - 1] \in A => f[n] \in A
  PROVE  f \in [0 .. m -> A]
<1> DEFINE S == {k \in Nat : k <= m => f[k] \in A}
<1>1. 0 \in S
  OBVIOUS
<1>2. ASSUME NEW k \in S PROVE k + 1 \in S
  <2>1. k + 1 <= m => k + 1 \in 1 .. m /\ k + 1 - 1 = k /\ k <= m
    OBVIOUS
  <2> QED BY <2>1
<1>3. S = Nat
  <2> HIDE DEF S
  <2>1. S \in SUBSET Nat
    BY DEF S
  <2> QED BY <1>1, <1>2, <2>1, SetInduction
<1>4. \A n \in 0 .. m : f[n] \in A
  BY <1>3
<1> QED BY <1>4

----------------------------------------------------------------------------
(* Keeping the first ones *)

\* f is a loop over s that appends what is good and not there yet, up to max.
Keeps(f, s, good, max) ==
  /\ f[0] = <<>>
  /\ \A n \in 1 .. Len(s) :
       f[n] = IF s[n] \in good /\ s[n] \notin Range(f[n - 1]) /\ Len(f[n - 1]) < max
              THEN Append(f[n - 1], s[n])
              ELSE f[n - 1]

\* The places of the first good ones of s.
Firsts(s, good) ==
  {i \in {k \in DOMAIN s : s[k] \in good} : \A j \in 1 .. i - 1 : s[j] # s[i]}

\* a has what is good among the first n of s.
HoldsGood(a, s, good, n) == Range(a) = good \cap {s[i] : i \in 1 .. n}

\* What a place has to be to be a first one.
LEMMA FirstsAt ==
  ASSUME NEW s, NEW good, NEW i
  PROVE  i \in Firsts(s, good) <=>
           /\ i \in DOMAIN s /\ s[i] \in good
           /\ \A j \in 1 .. i - 1 : s[j] # s[i]
BY DEF Firsts

\* A step more of the loop that deduplicates without a limit.
LEMMA FirstsSoFar ==
  ASSUME NEW X, NEW s \in Seq(X), NEW good,
         NEW f \in [0 .. Len(s) -> Seq(X)],
         Loops(f, s, Firsts(s, good), Len(s)),
         NEW n \in 0 .. Len(s)
  PROVE  HoldsGood(f[n], s, good, n)
<1> DEFINE P == Firsts(s, good)
           S == {k \in Nat : k <= Len(s) =>
                    Range(f[k]) = good \cap {s[i] : i \in 1 .. k}}
<1>0. DOMAIN s = 1 .. Len(s) /\ Len(s) \in Nat
  OBVIOUS
<1>1. 0 \in S
  <2>1. f[0] = <<>>
    BY DEF Loops
  <2>2. Range(<<>>) = {}
    BY DEF Range
  <2> QED BY <2>1, <2>2
<1>2. ASSUME NEW k \in S PROVE k + 1 \in S
  <2>1. SUFFICES ASSUME k + 1 <= Len(s)
                 PROVE  Range(f[k + 1]) = good \cap {s[i] : i \in 1 .. k + 1}
    OBVIOUS
  <2>2. Range(f[k]) = good \cap {s[i] : i \in 1 .. k} /\ k + 1 \in 1 .. Len(s)
    BY <1>0, <2>1
  <2>3. f[k + 1] = IF k + 1 \in P THEN Append(f[k], s[k + 1]) ELSE f[k]
    BY <1>0, <2>2 DEF Loops
  <2>4. {s[i] : i \in 1 .. k + 1} = {s[i] : i \in 1 .. k} \cup {s[k + 1]}
    <3>1. 1 .. k + 1 = (1 .. k) \cup {k + 1}
      OBVIOUS
    <3> QED BY <3>1
  <2>5. k + 1 \in P <=> s[k + 1] \in good /\ s[k + 1] \notin {s[i] : i \in 1 .. k}
    <3>1. k + 1 - 1 = k
      OBVIOUS
    <3>2. k + 1 \in P <=>
            /\ k + 1 \in DOMAIN s /\ s[k + 1] \in good
            /\ \A j \in 1 .. k + 1 - 1 : s[j] # s[k + 1]
      BY FirstsAt
    <3>3. (\A j \in 1 .. k : s[j] # s[k + 1]) <=>
            s[k + 1] \notin {s[i] : i \in 1 .. k}
      OBVIOUS
    <3> HIDE DEF P
    <3> QED BY <1>0, <2>2, <3>1, <3>2, <3>3
  <2> HIDE DEF P
  <2>6. CASE k + 1 \in P
    <3>1. f[k] \in Seq(X) /\ s[k + 1] \in X
      BY <1>0, <2>2
    <3>2. Range(Append(f[k], s[k + 1])) = Range(f[k]) \cup {s[k + 1]}
      BY <3>1, RangeOfAppend
    <3> QED BY <2>2, <2>3, <2>4, <2>5, <2>6, <3>2
  <2>7. CASE k + 1 \notin P
    BY <2>2, <2>3, <2>4, <2>5, <2>7
  <2> QED BY <2>6, <2>7
<1>3. S = Nat
  <2> HIDE DEF S
  <2>1. S \in SUBSET Nat
    BY DEF S
  <2> QED BY <1>1, <1>2, <2>1, SetInduction
<1>4. n \in S
  <2> HIDE DEF S
  <2> QED BY <1>0, <1>3
<1> QED BY <1>0, <1>4 DEF HoldsGood

\* After every step the loops over arguments and tags (document.go:437, 586)
\* hold the first max of the different good ones so far.
LEMMA KeepsSoFar ==
  ASSUME NEW X, NEW s \in Seq(X), NEW good, NEW max \in Nat,
         NEW f, Keeps(f, s, good, max),
         NEW g \in [0 .. Len(s) -> Seq(X)],
         Loops(g, s, Firsts(s, good), Len(s)),
         NEW n \in 0 .. Len(s)
  PROVE  f[n] = Cut(g[n], max) /\ IsInjective(f[n])
<1> DEFINE P == Firsts(s, good)
           S == {k \in Nat : k <= Len(s) =>
                    f[k] = Cut(g[k], max) /\ IsInjective(f[k])}
<1>0. DOMAIN s = 1 .. Len(s) /\ Len(s) \in Nat
  OBVIOUS
<1>f. \A k \in 0 .. Len(s) : HoldsGood(g[k], s, good, k)
  BY FirstsSoFar
<1>1. 0 \in S
  <2>1. f[0] = <<>> /\ g[0] = <<>>
    BY DEF Loops, Keeps
  <2>2. Cut(<<>>, max) = <<>>
    BY DEF Cut
  <2>3. IsInjective(<<>>)
    BY DEF IsInjective
  <2> QED BY <2>1, <2>2, <2>3
<1>2. ASSUME NEW k \in S PROVE k + 1 \in S
  <2>1. SUFFICES ASSUME k + 1 <= Len(s)
                 PROVE  f[k + 1] = Cut(g[k + 1], max) /\ IsInjective(f[k + 1])
    OBVIOUS
  <2> DEFINE x == s[k + 1]
             a == g[k]
             b == f[k]
  <2>2. k \in 0 .. Len(s) /\ k + 1 \in 1 .. Len(s) /\ k + 1 - 1 = k
    BY <1>0, <2>1
  <2>3. /\ a \in Seq(X) /\ x \in X /\ b = Cut(a, max) /\ IsInjective(b)
        /\ Len(a) \in Nat
    BY <1>0, <2>1, <2>2
  <2>4. g[k + 1] = IF k + 1 \in P THEN Append(a, x) ELSE a
    BY <1>0, <2>2 DEF Loops
  <2>5. f[k + 1] = IF x \in good /\ x \notin Range(b) /\ Len(b) < max
                   THEN Append(b, x) ELSE b
    BY <1>0, <2>2 DEF Keeps
  <2>6. Range(a) = good \cap {s[i] : i \in 1 .. k}
    BY <1>f, <2>2 DEF HoldsGood
  <2>7. k + 1 \in P <=> x \in good /\ x \notin {s[i] : i \in 1 .. k}
    <3>1. k + 1 \in P <=>
            /\ k + 1 \in DOMAIN s /\ x \in good
            /\ \A j \in 1 .. k + 1 - 1 : s[j] # x
      BY DEF Firsts
    <3>2. (\A j \in 1 .. k : s[j] # x) <=> x \notin {s[i] : i \in 1 .. k}
      OBVIOUS
    <3> HIDE DEF P, x
    <3> QED BY <1>0, <2>2, <3>1, <3>2
  <2>8. k + 1 \in P <=> x \in good /\ x \notin Range(a)
    <3> HIDE DEF P, x, a
    <3> QED BY <2>6, <2>7
  <2> HIDE DEF P, x, a, b
  <2>9. /\ b \in Seq(X) /\ Len(b) = IF Len(a) > max THEN max ELSE Len(a)
        /\ Len(a) <= max => b = a
    BY <2>3, CutFacts
  <2>10. f[k + 1] = Cut(g[k + 1], max)
    <3>1. CASE k + 1 \in P /\ Len(a) < max
      <4>1. Len(b) < max /\ b = a
        BY <2>3, <2>9, <3>1
      <4>2. f[k + 1] = Append(a, x) /\ g[k + 1] = Append(a, x)
        BY <2>4, <2>5, <2>8, <3>1, <4>1
      <4> QED BY <2>3, <3>1, <4>2, CutAppend
    <3>2. CASE k + 1 \in P /\ ~ (Len(a) < max)
      <4>1. ~ (Len(b) < max)
        BY <2>3, <2>9, <3>2
      <4>2. f[k + 1] = b /\ g[k + 1] = Append(a, x)
        BY <2>4, <2>5, <3>2, <4>1
      <4> QED BY <2>3, <3>2, <4>2, CutAppend
    <3>3. CASE k + 1 \notin P
      <4>1. ~ (x \in good /\ x \notin Range(b) /\ Len(b) < max)
        <5>1. CASE Len(a) < max
          BY <2>3, <2>8, <2>9, <3>3, <5>1
        <5>2. CASE ~ (Len(a) < max)
          BY <2>3, <2>9, <5>2
        <5> QED BY <5>1, <5>2
      <4>2. f[k + 1] = b
        BY <2>5, <4>1
      <4>3. g[k + 1] = a
        BY <2>4, <3>3
      <4> QED BY <2>3, <4>2, <4>3
    <3> QED BY <3>1, <3>2, <3>3
  <2>11. IsInjective(f[k + 1])
    <3>1. CASE f[k + 1] = b
      BY <2>3, <3>1
    <3>2. CASE f[k + 1] # b
      <4>1. f[k + 1] = Append(b, x) /\ x \notin Range(b)
        BY <2>5, <3>2
      <4> QED BY <2>3, <2>9, <4>1, RangeOfAppend
    <3> QED BY <3>1, <3>2
  <2> QED BY <2>10, <2>11
<1>3. S = Nat
  <2> HIDE DEF S
  <2>1. S \in SUBSET Nat
    BY DEF S
  <2> QED BY <1>1, <1>2, <2>1, SetInduction
<1>4. n \in S
  <2> HIDE DEF S
  <2> QED BY <1>0, <1>3
<1> QED BY <1>0, <1>4

\* What such a loop ends with, and that it never holds more than it may.
LEMMA KeepsFirst ==
  ASSUME NEW X, NEW s \in Seq(X), NEW good, NEW max \in Nat,
         NEW f, Keeps(f, s, good, max)
  PROVE  /\ f[Len(s)] = Cut(Selection(s, Firsts(s, good)), max)
         /\ \A n \in 0 .. Len(s) :
              /\ f[n] \in Seq(X) /\ Len(f[n]) <= max /\ IsInjective(f[n])
              /\ Range(f[n]) \subseteq good
<1>1. PICK g \in [0 .. Len(s) -> Seq(X)] :
        /\ Loops(g, s, Firsts(s, good), Len(s))
        /\ Selection(s, Firsts(s, good)) = g[Len(s)]
  BY SelectionLoops
<1>2. \A n \in 0 .. Len(s) : f[n] = Cut(g[n], max) /\ IsInjective(f[n])
  BY <1>1, KeepsSoFar
<1>3. ASSUME NEW n \in 0 .. Len(s)
      PROVE  /\ f[n] \in Seq(X) /\ Len(f[n]) <= max
             /\ Range(f[n]) \subseteq good
  <2> DEFINE a == g[n]
  <2>1. a \in Seq(X)
    OBVIOUS
  <2> HIDE DEF a
  <2>2. /\ Cut(a, max) \in Seq(X)
        /\ Len(Cut(a, max)) = IF Len(a) > max THEN max ELSE Len(a)
        /\ \A i \in 1 .. Len(Cut(a, max)) : Cut(a, max)[i] = a[i]
    BY <2>1, CutFacts
  <2>3. Len(Cut(a, max)) <= max /\ Len(Cut(a, max)) <= Len(a)
    BY <2>1, <2>2
  <2>4. f[n] = Cut(a, max)
    BY <1>2 DEF a
  <2>5. Range(a) \subseteq good
    <3>1. HoldsGood(g[n], s, good, n)
      BY <1>1, FirstsSoFar
    <3> QED BY <3>1 DEF HoldsGood, a
  <2>6. Range(Cut(a, max)) \subseteq Range(a)
    <3> DEFINE c == Cut(a, max)
    <3>1. DOMAIN c = 1 .. Len(c) /\ DOMAIN a = 1 .. Len(a) /\ Len(c) \in Nat
      BY <2>1, <2>2
    <3>2. \A i \in 1 .. Len(c) : i \in 1 .. Len(a) /\ c[i] = a[i]
      BY <2>1, <2>2, <2>3, <3>1
    <3> HIDE DEF c
    <3>3. Range(c) \subseteq Range(a)
      BY <3>1, <3>2 DEF Range
    <3> QED BY <3>3 DEF c
  <2> QED BY <2>2, <2>3, <2>4, <2>5, <2>6
<1>4. Len(s) \in 0 .. Len(s)
  OBVIOUS
<1> QED BY <1>1, <1>2, <1>3, <1>4

----------------------------------------------------------------------------
(* Values of fields *)

\* What the YAML library makes of a scalar, an item or a field.
LEMMA ScalarText ==
  ASSUME NEW v \in Scalars, v.kind = "string"
  PROVE  v.text \in Text
BY DEF Scalars, Null, Junk

\* What an item of a list is made of (document.go:455-496).
LEMMA ItemParts ==
  ASSUME NEW v \in ListItems
  PROVE  /\ v.kind = "string" => v.text \in Text
         /\ v.kind = "object" => /\ v.name \in Scalars
                                 /\ v.description \in Scalars
                                 /\ v.default \in Scalars
         /\ v.kind \in {"string", "object", "null", "junk"}
         /\ v.kind = "null" => v = Null
<1>1. CASE v \in Scalars
  BY <1>1 DEF Scalars, Null, Junk
<1>2. CASE v \in [kind : {"object"}, name : Scalars, description : Scalars,
                  default : Scalars]
  BY <1>2
<1> QED BY <1>1, <1>2 DEF ListItems

\* What a value of a field is made of (document.go:420-438).
LEMMA ValueParts ==
  ASSUME NEW v \in Values
  PROVE  /\ v.kind = "string" => v.text \in Text /\ v \in ListItems
         /\ v.kind = "list" => v.items \in Seq(ListItems)
         /\ Items(v) \in Seq(ListItems)
         /\ v.kind = "null" => v = Null
<1>1. CASE v \in [kind : {"list"}, items : Seq(ListItems)]
  BY <1>1 DEF Items
<1>2. CASE v \in ListItems
  <2>1. /\ v.kind = "string" => v.text \in Text
        /\ v.kind \in {"string", "object", "null", "junk"}
        /\ v.kind = "null" => v = Null
    BY <1>2, ItemParts
  <2>2. <<v>> \in Seq(ListItems) /\ <<>> \in Seq(ListItems)
    BY <1>2
  <2> QED BY <1>2, <2>1, <2>2 DEF Items
<1> QED BY <1>1, <1>2 DEF Values

\* optionalSkillArgumentText (document.go:522) gives a text within the limit.
LEMMA OptionalFacts ==
  ASSUME NEW v \in Scalars
  PROVE  /\ OptionalText(v) \in Text
         /\ Len(OptionalText(v)) <= MaxArgumentText
         /\ ~ TextIgnored(v) =>
              OptionalText(v) = IF v.kind = "null" THEN <<>> ELSE v.text
<1>0. MaxArgumentText \in Nat
  BY LimitsAssumption
<1>1. CASE v.kind = "string"
  <2> DEFINE s == v.text
  <2>1. s \in Seq(Parts)
    BY <1>1, ScalarText DEF Text
  <2> HIDE DEF s
  <2>2. /\ Cut(s, MaxArgumentText) \in Seq(Parts)
        /\ Len(Cut(s, MaxArgumentText)) =
             IF Len(s) > MaxArgumentText THEN MaxArgumentText ELSE Len(s)
        /\ Len(s) <= MaxArgumentText => Cut(s, MaxArgumentText) = s
    BY <1>0, <2>1, CutFacts
  <2>3. Len(s) \in Nat
    BY <2>1
  <2>4. OptionalText(v) = Cut(s, MaxArgumentText)
    BY <1>1 DEF OptionalText, s
  <2>5. ~ TextIgnored(v) => Len(s) <= MaxArgumentText
    BY <1>0, <1>1, <2>3 DEF TextIgnored, s
  <2>6. v.kind # "null" /\ v.text = s
    BY <1>1 DEF s
  <2> QED BY <1>0, <2>2, <2>3, <2>4, <2>5, <2>6 DEF Text
<1>2. CASE v.kind # "string"
  <2>1. OptionalText(v) = <<>>
    BY <1>2 DEF OptionalText
  <2>2. <<>> \in Text /\ Len(<<>>) = 0
    BY DEF Text
  <2>3. ~ TextIgnored(v) => v.kind = "null"
    BY <1>2 DEF TextIgnored
  <2> QED BY <1>0, <2>1, <2>2, <2>3
<1> QED BY <1>1, <1>2

\* The argument that an item declares is one, and its texts are not too long.
LEMMA ArgumentFacts ==
  ASSUME NEW item \in ListItems
  PROVE  /\ ArgumentOf(item) \in Arguments
         /\ Len(ArgumentOf(item).description) <= MaxArgumentText
         /\ Len(ArgumentOf(item).default) <= MaxArgumentText
<1>0. MaxArgumentText \in Nat /\ <<>> \in Text /\ Len(<<>>) = 0
  BY LimitsAssumption DEF Text
<1>1. CASE item.kind = "string"
  <2>1. TrimSpace(item.text) \in Text
    BY <1>1, ItemParts, TrimFacts
  <2>2. ArgumentOf(item) =
          [name |-> TrimSpace(item.text), description |-> <<>>, default |-> <<>>]
    BY <1>1 DEF ArgumentOf
  <2> QED BY <1>0, <2>1, <2>2 DEF Arguments
<1>2. CASE item.kind = "object"
  <2> DEFINE n == IF item.name.kind = "string" THEN TrimSpace(item.name.text)
                  ELSE <<>>
             d == OptionalText(item.description)
             e == OptionalText(item.default)
  <2>1. n \in Text
    <3>1. item.name \in Scalars
      BY <1>2, ItemParts
    <3>2. item.name.kind = "string" => TrimSpace(item.name.text) \in Text
      BY <3>1, ScalarText, TrimFacts
    <3> QED BY <1>0, <3>2
  <2>2. /\ d \in Text /\ Len(d) <= MaxArgumentText
        /\ e \in Text /\ Len(e) <= MaxArgumentText
    BY <1>2, ItemParts, OptionalFacts
  <2>3. ArgumentOf(item) = [name |-> n, description |-> d, default |-> e]
    BY <1>2 DEF ArgumentOf
  <2> HIDE DEF n, d, e
  <2> QED BY <2>1, <2>2, <2>3 DEF Arguments
<1>3. CASE item.kind \notin {"string", "object"}
  <2>1. ArgumentOf(item) =
          [name |-> <<>>, description |-> <<>>, default |-> <<>>]
    BY <1>3 DEF ArgumentOf
  <2> QED BY <1>0, <2>1 DEF Arguments
<1> QED BY <1>1, <1>2, <1>3

----------------------------------------------------------------------------
(* The loop over the arguments *)

ArgumentStates == [output : Seq(Arguments), warnings : SUBSET {"arguments"}]

\* acc is what parseSkillDocumentArguments (document.go:411) has after each
\* of the items.
ArgumentLoop(acc, value) ==
  /\ acc \in [0 .. Len(Items(value)) -> ArgumentStates]
  /\ acc[0] = [output |-> <<>>, warnings |-> ShapeWarnings(value, "arguments")]
  /\ \A n \in 1 .. Len(Items(value)) :
       acc[n] = AddArgument(acc[n - 1], Items(value)[n])
  /\ ParseArguments(value) = acc[Len(Items(value))]

\* A step of that loop keeps the types.
LEMMA AddArgumentType ==
  ASSUME NEW acc \in ArgumentStates, NEW item \in ListItems
  PROVE  AddArgument(acc, item) \in ArgumentStates
<1> DEFINE arg == ArgumentOf(item)
           more == Append(acc.output, arg)
           object == item.kind = "object" /\ item.name.kind = "string"
           texts == IF object /\ (TextIgnored(item.description)
                                    \/ TextIgnored(item.default))
                    THEN {"arguments"} ELSE {}
<1>1. arg \in Arguments
  BY ArgumentFacts
<1>2. texts \in SUBSET {"arguments"}
  OBVIOUS
<1>3. AddArgument(acc, item) =
        IF Len(acc.output) < MaxArguments
             /\ IsValidSkillArgumentName(arg.name)
             /\ ~ IsDeclared(acc.output, arg.name)
        THEN [output |-> more, warnings |-> acc.warnings \cup texts]
        ELSE [acc EXCEPT !.warnings = @ \cup {"arguments"}]
  BY DEF AddArgument
<1> HIDE DEF arg, texts
<1>4. more \in Seq(Arguments)
  BY <1>1 DEF ArgumentStates
<1> HIDE DEF more
<1>5. [output |-> more, warnings |-> acc.warnings \cup texts] \in ArgumentStates
  BY <1>2, <1>4 DEF ArgumentStates
<1>6. [acc EXCEPT !.warnings = @ \cup {"arguments"}] \in ArgumentStates
  BY DEF ArgumentStates
<1> QED BY <1>3, <1>5, <1>6

\* The recursion of ParseArguments, one loop over the items
\* (document.go:437-516), has a solution.
LEMMA ArgumentLoops ==
  ASSUME NEW value \in Values
  PROVE  \E acc : ArgumentLoop(acc, value)
<1> DEFINE items == Items(value)
           m == Len(items)
           a == [output |-> <<>>, warnings |-> ShapeWarnings(value, "arguments")]
           Rec(f) == [n \in 0 .. m |->
                        IF n = 0 THEN a ELSE AddArgument(f[n - 1], items[n])]
           sel == CHOOSE f : f = Rec(f)
           step == [p \in ArgumentStates \X (1 .. m) |->
                      AddArgument(p[1], items[p[2]])]
<1>1. ParseArguments(value) = sel[m]
  BY DEF ParseArguments
<1>2. /\ items \in Seq(ListItems)
      /\ m \in Nat
      /\ \A n \in 1 .. m : items[n] \in ListItems
  <2>1. items \in Seq(ListItems)
    BY ValueParts
  <2> HIDE DEF items
  <2> QED BY <2>1
<1> HIDE DEF items
<1>3. a \in ArgumentStates
  <2>1. ShapeWarnings(value, "arguments") \in SUBSET {"arguments"}
    BY DEF ShapeWarnings
  <2>2. <<>> \in Seq(Arguments)
    OBVIOUS
  <2> QED BY <2>1, <2>2 DEF ArgumentStates
<1> HIDE DEF m, a
<1>4. step \in [ArgumentStates \X (1 .. m) -> ArgumentStates]
  <2>1. ASSUME NEW p \in ArgumentStates \X (1 .. m)
        PROVE  AddArgument(p[1], items[p[2]]) \in ArgumentStates
    BY <1>2, AddArgumentType
  <2> QED BY <2>1
<1>5. \A x \in ArgumentStates, n \in 1 .. m :
        step[<<x, n>>] = AddArgument(x, items[n])
  OBVIOUS
<1> HIDE DEF step
<1>6. PICK f \in [0 .. m -> ArgumentStates] : Iterates(f, a, step, m)
  BY <1>2, <1>3, <1>4, Iteration
<1>r. ASSUME NEW g
      PROVE  /\ Rec(g)[0] = a
             /\ \A n \in 1 .. m : Rec(g)[n] = AddArgument(g[n - 1], items[n])
             /\ Rec(g) = [n \in 0 .. m |-> Rec(g)[n]]
  BY <1>2
<1> HIDE DEF Rec
<1>7. f = Rec(f)
  <2>1. ASSUME NEW n \in 0 .. m PROVE f[n] = Rec(f)[n]
    <3>1. CASE n = 0
      BY <1>6, <1>r, <3>1 DEF Iterates
    <3>2. CASE n # 0
      <4>1. n \in 1 .. m /\ n - 1 \in 0 .. m
        BY <1>2, <3>2
      <4>2. f[n] = step[<<f[n - 1], n>>] /\ f[n - 1] \in ArgumentStates
        BY <1>6, <4>1 DEF Iterates
      <4> QED BY <1>5, <1>r, <4>1, <4>2
    <3> QED BY <3>1, <3>2
  <2>2. f = [n \in 0 .. m |-> f[n]]
    OBVIOUS
  <2>3. Rec(f) = [n \in 0 .. m |-> Rec(f)[n]]
    BY <1>r
  <2> QED BY <2>1, <2>2, <2>3
<1>8. sel = Rec(sel)
  BY <1>7
<1> HIDE DEF sel
<1>9. /\ sel[0] = a
      /\ \A n \in 1 .. m : sel[n] = AddArgument(sel[n - 1], items[n])
      /\ sel = [n \in 0 .. m |-> sel[n]]
  BY <1>8, <1>r
<1>10. sel \in [0 .. m -> ArgumentStates]
  <2>1. \A n \in 1 .. m : sel[n - 1] \in ArgumentStates => sel[n] \in ArgumentStates
    BY <1>2, <1>9, AddArgumentType
  <2> QED BY <1>2, <1>3, <1>9, <2>1, Invariance
<1> QED BY <1>1, <1>9, <1>10 DEF ArgumentLoop, items, m, a

\* The names of declarations, and of one declaration more.
LEMMA NamesFacts ==
  ASSUME NEW args \in Seq(Arguments)
  PROVE  /\ NamesIn(args) \in Seq(Text)
         /\ Len(NamesIn(args)) = Len(args)
         /\ \A n : IsDeclared(args, n) <=> n \in Range(NamesIn(args))
         /\ \A arg \in Arguments :
              NamesIn(Append(args, arg)) = Append(NamesIn(args), arg.name)
<1>1. ASSUME NEW s \in Seq(Arguments)
      PROVE  /\ NamesIn(s) \in Seq(Text) /\ Len(NamesIn(s)) = Len(s)
             /\ NamesIn(s) = [i \in 1 .. Len(s) |-> s[i].name]
             /\ DOMAIN s = 1 .. Len(s) /\ Len(s) \in Nat
  <2>1. DOMAIN s = 1 .. Len(s) /\ Len(s) \in Nat
    OBVIOUS
  <2>2. \A i \in 1 .. Len(s) : s[i].name \in Text
    <3>1. \A i \in 1 .. Len(s) : s[i] \in Arguments
      OBVIOUS
    <3>2. \A a \in Arguments : a.name \in Text
      BY DEF Arguments
    <3> QED BY <3>1, <3>2
  <2> QED BY <2>1, <2>2 DEF NamesIn
<1>2. ASSUME NEW n
      PROVE  IsDeclared(args, n) <=> n \in Range(NamesIn(args))
  BY <1>1 DEF IsDeclared, Range
<1>3. ASSUME NEW arg \in Arguments
      PROVE  NamesIn(Append(args, arg)) = Append(NamesIn(args), arg.name)
  <2> DEFINE s == Append(args, arg)
             n == NamesIn(args)
             x == arg.name
             t == Append(n, x)
  <2>1. /\ s \in Seq(Arguments) /\ Len(s) = Len(args) + 1 /\ Len(args) \in Nat
        /\ \A i \in 1 .. Len(args) : s[i] = args[i]
        /\ s[Len(args) + 1] = arg
    BY AppendProperties
  <2>2. x \in Text /\ n \in Seq(Text) /\ Len(n) = Len(args)
        /\ n = [i \in 1 .. Len(args) |-> args[i].name]
    BY <1>1 DEF Arguments
  <2> HIDE DEF s, n, x
  <2>3. /\ t \in Seq(Text) /\ Len(t) = Len(n) + 1
        /\ \A i \in 1 .. Len(n) : t[i] = n[i]
        /\ t[Len(n) + 1] = x
    BY <2>2, AppendProperties
  <2> HIDE DEF t
  <2>4. t = [i \in 1 .. Len(s) |-> t[i]]
    BY <2>1, <2>2, <2>3
  <2>5. NamesIn(s) = [i \in 1 .. Len(s) |-> s[i].name]
    BY <1>1, <2>1
  <2>6. ASSUME NEW i \in 1 .. Len(s) PROVE t[i] = s[i].name
    <3>1. CASE i \in 1 .. Len(args)
      BY <2>1, <2>2, <2>3, <3>1
    <3>2. CASE i = Len(args) + 1
      BY <2>1, <2>2, <2>3, <3>2 DEF x
    <3> QED BY <2>1, <3>1, <3>2
  <2>7. NamesIn(s) = t
    BY <2>4, <2>5, <2>6
  <2> QED BY <2>7 DEF s, n, x, t
<1> QED BY <1>1, <1>2, <1>3

\* What a step of the loop does (document.go:437-516): it appends what fits
\* and is new, and is silent only if it declares the item as it stands.
LEMMA AddedArgument ==
  ASSUME NEW acc \in ArgumentStates, NEW item \in ListItems
  PROVE  LET arg == ArgumentOf(item)
             fits == /\ IsValidSkillArgumentName(arg.name)
                     /\ arg.name \notin Range(NamesIn(acc.output))
                     /\ Len(acc.output) < MaxArguments
             r == AddArgument(acc, item)
         IN  /\ r.output = IF fits THEN Append(acc.output, arg) ELSE acc.output
             /\ "arguments" \notin r.warnings =>
                  /\ fits /\ "arguments" \notin acc.warnings
                  /\ DeclaredBy(arg, item)
<1> DEFINE arg == ArgumentOf(item)
           fits == /\ IsValidSkillArgumentName(arg.name)
                   /\ arg.name \notin Range(NamesIn(acc.output))
                   /\ Len(acc.output) < MaxArguments
           more == Append(acc.output, arg)
           object == item.kind = "object" /\ item.name.kind = "string"
           ignored == \/ TextIgnored(item.description)
                      \/ TextIgnored(item.default)
           texts == IF object /\ ignored THEN {"arguments"} ELSE {}
           r == AddArgument(acc, item)
<1>1. IsDeclared(acc.output, arg.name) <=> arg.name \in Range(NamesIn(acc.output))
  BY NamesFacts DEF ArgumentStates
<1>2. r = IF fits THEN [output |-> more, warnings |-> acc.warnings \cup texts]
          ELSE [acc EXCEPT !.warnings = @ \cup {"arguments"}]
  BY <1>1 DEF AddArgument
<1>3. ASSUME fits, ~ (object /\ ignored) PROVE DeclaredBy(arg, item)
  <2>1. arg.name # <<>>
    BY <1>3 DEF IsValidSkillArgumentName
  <2>2. CASE item.kind = "string"
    BY <2>2 DEF ArgumentOf, DeclaredBy
  <2>3. CASE item.kind = "object"
    <3>1. item.name.kind = "string" /\ arg.name = TrimSpace(item.name.text)
      BY <2>1, <2>3 DEF ArgumentOf
    <3>2. ~ TextIgnored(item.description) /\ ~ TextIgnored(item.default)
      BY <1>3, <2>3, <3>1
    <3>3. /\ arg.description = OptionalText(item.description)
          /\ arg.default = OptionalText(item.default)
      BY <2>3 DEF ArgumentOf
    <3>4. item.description \in Scalars /\ item.default \in Scalars
      BY <2>3, ItemParts
    <3>5. /\ arg.description = IF item.description.kind = "null" THEN <<>>
                               ELSE item.description.text
          /\ arg.default = IF item.default.kind = "null" THEN <<>>
                           ELSE item.default.text
      BY <3>2, <3>3, <3>4, OptionalFacts
    <3> HIDE DEF arg
    <3> QED BY <2>3, <3>1, <3>5 DEF DeclaredBy
  <2>4. CASE item.kind \notin {"string", "object"}
    BY <2>1, <2>4 DEF ArgumentOf
  <2> QED BY <2>2, <2>3, <2>4
<1> HIDE DEF arg, fits, more, object, ignored
<1>4. r.output = IF fits THEN more ELSE acc.output
  BY <1>2 DEF ArgumentStates
<1>5. ASSUME "arguments" \notin r.warnings
      PROVE  fits /\ "arguments" \notin acc.warnings /\ DeclaredBy(arg, item)
  <2>1. fits
    BY <1>2, <1>5 DEF ArgumentStates
  <2>2. "arguments" \notin acc.warnings /\ "arguments" \notin texts
    BY <1>2, <1>5, <2>1
  <2> QED BY <1>3, <2>1, <2>2
<1> QED BY <1>4, <1>5 DEF arg, fits, more

\* The names that items declare, valid or not.
ItemNames(items) == [i \in DOMAIN items |-> ArgumentOf(items[i]).name]

ValidNames == {t \in Text : IsValidSkillArgumentName(t)}

\* The names the items declare are texts, one for each.
LEMMA ItemNamesType ==
  ASSUME NEW items \in Seq(ListItems)
  PROVE  /\ ItemNames(items) \in Seq(Text)
         /\ Len(ItemNames(items)) = Len(items)
         /\ \A n \in 1 .. Len(items) :
              ItemNames(items)[n] = ArgumentOf(items[n]).name
<1>1. DOMAIN items = 1 .. Len(items) /\ Len(items) \in Nat
  OBVIOUS
<1>2. \A i \in 1 .. Len(items) : items[i] \in ListItems
  OBVIOUS
<1>3. \A a \in Arguments : a.name \in Text
  BY DEF Arguments
<1>4. \A i \in 1 .. Len(items) : ArgumentOf(items[i]).name \in Text
  BY <1>2, <1>3, ArgumentFacts
<1> QED BY <1>1, <1>4 DEF ItemNames

\* Of the names declared that loop keeps the first different ones that are
\* valid (document.go:444, 503).
LEMMA ArgumentsKeep ==
  ASSUME NEW value \in Values, NEW acc, ArgumentLoop(acc, value)
  PROVE  Keeps([n \in 0 .. Len(Items(value)) |-> NamesIn(acc[n].output)],
               ItemNames(Items(value)), ValidNames, MaxArguments)
<1> DEFINE items == Items(value)
           m == Len(items)
           names == ItemNames(items)
           f == [n \in 0 .. m |-> NamesIn(acc[n].output)]
<1>1. items \in Seq(ListItems)
  BY ValueParts
<1>2. /\ acc \in [0 .. m -> ArgumentStates]
      /\ acc[0] = [output |-> <<>>, warnings |-> ShapeWarnings(value, "arguments")]
      /\ \A n \in 1 .. m : acc[n] = AddArgument(acc[n - 1], items[n])
  BY DEF ArgumentLoop
<1> HIDE DEF items
<1>3. /\ m \in Nat /\ names \in Seq(Text) /\ Len(names) = m
      /\ \A n \in 1 .. m : names[n] = ArgumentOf(items[n]).name
  BY <1>1, ItemNamesType
<1>4. f[0] = <<>>
  BY <1>2, <1>3 DEF NamesIn
<1>5. ASSUME NEW n \in 1 .. m
      PROVE  f[n] = IF /\ names[n] \in ValidNames
                       /\ names[n] \notin Range(f[n - 1])
                       /\ Len(f[n - 1]) < MaxArguments
                    THEN Append(f[n - 1], names[n])
                    ELSE f[n - 1]
  <2> DEFINE x == acc[n - 1]
             arg == ArgumentOf(items[n])
             o == x.output
  <2>1. n \in 0 .. m /\ n - 1 \in 0 .. m
    BY <1>3
  <2>2. x \in ArgumentStates /\ items[n] \in ListItems /\ names[n] = arg.name
    BY <1>1, <1>2, <1>3, <2>1
  <2>3. f[n] = NamesIn(acc[n].output) /\ f[n - 1] = NamesIn(o)
    BY <2>1
  <2>4. acc[n] = AddArgument(x, items[n])
    BY <1>2
  <2>5. arg \in Arguments
    BY <2>2, ArgumentFacts
  <2> HIDE DEF x, f
  <2>6. acc[n].output = IF /\ IsValidSkillArgumentName(arg.name)
                           /\ arg.name \notin Range(NamesIn(o))
                           /\ Len(o) < MaxArguments
                        THEN Append(o, arg) ELSE o
    BY <2>2, <2>4, AddedArgument
  <2>7. o \in Seq(Arguments)
    BY <2>2 DEF ArgumentStates
  <2> HIDE DEF arg, o
  <2>8. Len(NamesIn(o)) = Len(o) /\ NamesIn(Append(o, arg)) = Append(NamesIn(o), arg.name)
    BY <2>5, <2>7, NamesFacts
  <2>9. names[n] \in ValidNames <=> IsValidSkillArgumentName(arg.name)
    BY <2>2, <2>5 DEF ValidNames, Arguments
  <2> HIDE DEF names
  <2> QED BY <2>2, <2>3, <2>6, <2>8, <2>9
<1> HIDE DEF f
<1>6. Keeps(f, names, ValidNames, MaxArguments)
  BY <1>3, <1>4, <1>5 DEF Keeps
<1> QED BY <1>6 DEF f, names, items

\* Every argument it puts out is valid (document.go:689).
LEMMA ArgumentsValid ==
  ASSUME NEW value \in Values, NEW acc, ArgumentLoop(acc, value),
         NEW n \in 0 .. Len(Items(value))
  PROVE  \A i \in DOMAIN acc[n].output : ValidArgument(acc[n].output[i])
<1> DEFINE items == Items(value)
           m == Len(items)
           A == {x \in ArgumentStates :
                   \A i \in 1 .. Len(x.output) : ValidArgument(x.output[i])}
<1>1. items \in Seq(ListItems)
  BY ValueParts
<1>2. /\ acc \in [0 .. m -> ArgumentStates]
      /\ acc[0] = [output |-> <<>>, warnings |-> ShapeWarnings(value, "arguments")]
      /\ \A k \in 1 .. m : acc[k] = AddArgument(acc[k - 1], items[k])
  BY DEF ArgumentLoop
<1>3. n \in 0 .. m
  OBVIOUS
<1> HIDE DEF items
<1>4. m \in Nat /\ acc = [k \in 0 .. m |-> acc[k]]
  BY <1>1, <1>2
<1>5. acc[0] \in A
  <2>1. acc[0] \in ArgumentStates /\ acc[0].output = <<>>
    BY <1>2, <1>4
  <2> QED BY <2>1
<1>6. ASSUME NEW k \in 1 .. m, acc[k - 1] \in A PROVE acc[k] \in A
  <2> DEFINE x == acc[k - 1]
             arg == ArgumentOf(items[k])
             o == x.output
             fits == /\ IsValidSkillArgumentName(arg.name)
                     /\ arg.name \notin Range(NamesIn(o))
                     /\ Len(o) < MaxArguments
  <2>1. k \in 0 .. m /\ items[k] \in ListItems /\ acc[k] \in ArgumentStates
    BY <1>1, <1>2, <1>4
  <2>2. x \in ArgumentStates /\ \A i \in 1 .. Len(o) : ValidArgument(o[i])
    BY <1>6
  <2>3. acc[k].output = IF fits THEN Append(o, arg) ELSE o
    <3>1. acc[k] = AddArgument(x, items[k])
      BY <1>2
    <3> HIDE DEF x
    <3> QED BY <2>1, <2>2, <3>1, AddedArgument
  <2>4. /\ arg \in Arguments
        /\ IsValidSkillArgumentName(arg.name) => ValidArgument(arg)
    BY <2>1, ArgumentFacts DEF ValidArgument
  <2>5. o \in Seq(Arguments)
    BY <2>2 DEF ArgumentStates
  <2>6. fits => ValidArgument(arg)
    BY <2>4
  <2> HIDE DEF x, o, arg, fits
  <2> DEFINE t == Append(o, arg)
  <2>7. /\ t \in Seq(Arguments) /\ Len(t) = Len(o) + 1 /\ Len(o) \in Nat
        /\ \A i \in 1 .. Len(o) : t[i] = o[i]
        /\ t[Len(o) + 1] = arg
    BY <2>4, <2>5, AppendProperties
  <2> HIDE DEF t
  <2>8. \A i \in 1 .. Len(t) : i \in 1 .. Len(o) \/ i = Len(o) + 1
    BY <2>7
  <2>9. fits => \A i \in 1 .. Len(t) : ValidArgument(t[i])
    BY <2>2, <2>6, <2>7, <2>8
  <2>10. acc[k].output = IF fits THEN t ELSE o
    BY <2>3 DEF t
  <2>11. \A i \in 1 .. Len(acc[k].output) : ValidArgument(acc[k].output[i])
    BY <2>2, <2>9, <2>10
  <2> QED BY <2>1, <2>11
<1>7. acc \in [0 .. m -> A]
  <2> HIDE DEF A, m
  <2> QED BY <1>4, <1>5, <1>6, Invariance
<1>8. acc[n].output \in Seq(Arguments)
  BY <1>2, <1>3 DEF ArgumentStates
<1> QED BY <1>3, <1>7, <1>8

\* As long as nothing is reported, every item so far is in the output as it
\* stands.
LEMMA ArgumentsSilent ==
  ASSUME NEW value \in Values, NEW acc, ArgumentLoop(acc, value),
         NEW n \in 0 .. Len(Items(value)), "arguments" \notin acc[n].warnings
  PROVE  /\ Len(acc[n].output) = n
         /\ \A i \in 1 .. n : DeclaredBy(acc[n].output[i], Items(value)[i])
<1> DEFINE items == Items(value)
           m == Len(items)
           Says(k) == "arguments" \notin acc[k].warnings =>
                        /\ Len(acc[k].output) = k
                        /\ \A i \in 1 .. k : DeclaredBy(acc[k].output[i], items[i])
           S == {k \in Nat : k <= m => Says(k)}
<1>1. items \in Seq(ListItems)
  BY ValueParts
<1>2. /\ acc \in [0 .. m -> ArgumentStates]
      /\ acc[0] = [output |-> <<>>, warnings |-> ShapeWarnings(value, "arguments")]
      /\ \A k \in 1 .. m : acc[k] = AddArgument(acc[k - 1], items[k])
  BY DEF ArgumentLoop
<1>3. n \in 0 .. m
  OBVIOUS
<1> HIDE DEF items
<1>4. m \in Nat
  BY <1>1
<1>5. Says(0)
  <2>1. acc[0].output = <<>>
    BY <1>2, <1>4
  <2> QED BY <2>1
<1>6. ASSUME NEW k \in Nat, k + 1 <= m, Says(k) PROVE Says(k + 1)
  <2> DEFINE x == acc[k]
             item == items[k + 1]
             arg == ArgumentOf(item)
             o == x.output
             t == Append(o, arg)
             fits == /\ IsValidSkillArgumentName(arg.name)
                     /\ arg.name \notin Range(NamesIn(o))
                     /\ Len(o) < MaxArguments
  <2>1. SUFFICES ASSUME "arguments" \notin acc[k + 1].warnings
                 PROVE  /\ Len(acc[k + 1].output) = k + 1
                        /\ \A i \in 1 .. k + 1 :
                             DeclaredBy(acc[k + 1].output[i], items[i])
    OBVIOUS
  <2>2. k + 1 \in 1 .. m /\ k \in 0 .. m /\ k + 1 - 1 = k
    BY <1>4, <1>6
  <2>3. x \in ArgumentStates /\ item \in ListItems
    BY <1>1, <1>2, <2>2
  <2>4. acc[k + 1] = AddArgument(x, item)
    BY <1>2, <2>2
  <2> HIDE DEF x, item
  <2>5. arg \in Arguments
    BY <2>3, ArgumentFacts
  <2>6. /\ acc[k + 1].output = IF fits THEN t ELSE o
        /\ fits /\ "arguments" \notin x.warnings /\ DeclaredBy(arg, item)
    BY <2>1, <2>3, <2>4, AddedArgument
  <2>7. o \in Seq(Arguments)
    BY <2>3 DEF ArgumentStates
  <2>8. /\ Len(o) = k
        /\ \A i \in 1 .. k : DeclaredBy(o[i], items[i])
    BY <1>6, <2>6 DEF x
  <2> HIDE DEF o, arg, fits
  <2>9. /\ Len(t) = Len(o) + 1
        /\ \A i \in 1 .. Len(o) : t[i] = o[i]
        /\ t[Len(o) + 1] = arg
    BY <2>5, <2>7, AppendProperties
  <2> HIDE DEF t
  <2>10. acc[k + 1].output = t
    BY <2>6
  <2>11. ASSUME NEW i \in 1 .. k + 1 PROVE DeclaredBy(t[i], items[i])
    <3>1. CASE i \in 1 .. k
      BY <2>8, <2>9, <3>1
    <3>2. CASE i = k + 1
      BY <2>6, <2>8, <2>9, <3>2 DEF item
    <3> QED BY <3>1, <3>2
  <2> QED BY <2>8, <2>9, <2>10, <2>11
<1> HIDE DEF Says
<1>7. S = Nat
  <2>1. 0 \in S
    BY <1>5
  <2>2. ASSUME NEW k \in S PROVE k + 1 \in S
    <3>1. SUFFICES ASSUME k + 1 <= m PROVE Says(k + 1)
      OBVIOUS
    <3>2. k \in Nat /\ k <= m
      BY <1>4, <3>1
    <3>3. Says(k)
      BY <3>2
    <3> QED BY <1>6, <3>1, <3>2, <3>3
  <2>3. S \in SUBSET Nat
    OBVIOUS
  <2> HIDE DEF S
  <2> QED BY <2>1, <2>2, <2>3, SetInduction
<1>8. Says(n)
  BY <1>3, <1>4, <1>7
<1> QED BY <1>8 DEF Says, items

\* What parseSkillDocumentArguments (document.go:411) makes of a field.
THEOREM ArgumentsParsed ==
  ASSUME NEW value \in Values
  PROVE  LET items == Items(value)
             names == ItemNames(items)
             parsed == ParseArguments(value)
         IN  /\ parsed.output \in Seq(Arguments)
             /\ Len(parsed.output) <= MaxArguments
             /\ \A i \in DOMAIN parsed.output : ValidArgument(parsed.output[i])
             /\ IsInjective(NamesIn(parsed.output))
             /\ NamesIn(parsed.output) =
                  FirstOf(names,
                          {i \in DOMAIN names : IsValidSkillArgumentName(names[i])},
                          MaxArguments)
             /\ "arguments" \notin parsed.warnings =>
                  /\ Len(parsed.output) = Len(items)
                  /\ \A i \in DOMAIN items : DeclaredBy(parsed.output[i], items[i])
<1> DEFINE items == Items(value)
           m == Len(items)
           names == ItemNames(items)
           parsed == ParseArguments(value)
<1>1. items \in Seq(ListItems)
  BY ValueParts
<1>2. PICK acc : ArgumentLoop(acc, value)
  BY ArgumentLoops
<1>3. m \in 0 .. m /\ DOMAIN items = 1 .. m /\ m \in Nat
  <2> HIDE DEF items
  <2> QED BY <1>1
<1>4. parsed = acc[m] /\ acc[m] \in ArgumentStates
  BY <1>2, <1>3 DEF ArgumentLoop
<1>5. \A i \in DOMAIN acc[m].output : ValidArgument(acc[m].output[i])
  BY <1>2, <1>3, ArgumentsValid
<1>6. "arguments" \notin acc[m].warnings =>
        /\ Len(acc[m].output) = m
        /\ \A i \in 1 .. m : DeclaredBy(acc[m].output[i], items[i])
  BY <1>2, <1>3, ArgumentsSilent
<1> DEFINE f == [n \in 0 .. m |-> NamesIn(acc[n].output)]
<1>7. Keeps(f, names, ValidNames, MaxArguments)
  BY <1>2, ArgumentsKeep
<1>8. f[m] = NamesIn(acc[m].output)
  BY <1>3
<1> HIDE DEF f, items, parsed
<1>9. /\ names \in Seq(Text) /\ Len(names) = m
  BY <1>1, ItemNamesType
<1>10. Firsts(names, ValidNames) =
         {i \in {k \in DOMAIN names : IsValidSkillArgumentName(names[k])} :
            \A j \in 1 .. i - 1 : names[j] # names[i]}
  <2>1. \A k \in DOMAIN names :
          names[k] \in ValidNames <=> IsValidSkillArgumentName(names[k])
    BY <1>9 DEF ValidNames
  <2> HIDE DEF names
  <2> QED BY <2>1 DEF Firsts
<1> HIDE DEF names, m
<1>11. /\ f[Len(names)] =
            Cut(Selection(names, Firsts(names, ValidNames)), MaxArguments)
       /\ \A n \in 0 .. Len(names) :
            f[n] \in Seq(Text) /\ Len(f[n]) <= MaxArguments /\ IsInjective(f[n])
  <2>1. MaxArguments \in Nat
    BY LimitsAssumption
  <2> QED BY <1>7, <1>9, <2>1, KeepsFirst
<1>12. NamesIn(acc[m].output) =
         FirstOf(names, {i \in DOMAIN names : IsValidSkillArgumentName(names[i])},
                 MaxArguments)
  BY <1>8, <1>9, <1>10, <1>11 DEF FirstOf
<1>13. Len(NamesIn(acc[m].output)) <= MaxArguments /\ IsInjective(NamesIn(acc[m].output))
  BY <1>3, <1>8, <1>9, <1>11
<1>14. acc[m].output \in Seq(Arguments)
  BY <1>4 DEF ArgumentStates
<1>15. Len(acc[m].output) <= MaxArguments
  BY <1>13, <1>14, NamesFacts
<1> QED BY <1>3, <1>4, <1>5, <1>6, <1>12, <1>13, <1>14, <1>15
        DEF parsed, items, names, m

----------------------------------------------------------------------------
(* The loop over the tags *)

TagStates == [output : Seq(Text), warnings : SUBSET {"tags"}]

\* acc is what parseSkillDocumentTags (document.go:562) has after each item.
TagLoop(acc, value) ==
  /\ acc \in [0 .. Len(Items(value)) -> TagStates]
  /\ acc[0] = [output |-> <<>>, warnings |-> ShapeWarnings(value, "tags")]
  /\ \A n \in 1 .. Len(Items(value)) :
       acc[n] = AddTag(acc[n - 1], Items(value)[n])
  /\ ParseTags(value) = acc[Len(Items(value))]

ValidTags == {t \in Text : ValidTag(t)}

\* What an item says as a tag is a text.
LEMMA TagOfType ==
  ASSUME NEW item \in ListItems
  PROVE  TagOf(item) \in Text
<1>1. <<>> \in Text
  BY DEF Text
<1>2. item.kind = "string" => TrimSpace(item.text) \in Text
  BY ItemParts, TrimFacts
<1> QED BY <1>1, <1>2 DEF TagOf

\* What a step of the loop does (document.go:586-637): it appends a valid tag
\* that is new, and is silent if it has that tag already.
LEMMA AddedTag ==
  ASSUME NEW acc \in TagStates, NEW item \in ListItems
  PROVE  LET tag == TagOf(item)
             fits == /\ tag \in ValidTags /\ tag \notin Range(acc.output)
                     /\ Len(acc.output) < MaxTags
             r == AddTag(acc, item)
         IN  /\ r \in TagStates
             /\ r.output = IF fits THEN Append(acc.output, tag) ELSE acc.output
             /\ "tags" \notin r.warnings =>
                  "tags" \notin acc.warnings /\ tag \in Range(r.output)
<1> DEFINE tag == TagOf(item)
           fits == /\ tag \in ValidTags /\ tag \notin Range(acc.output)
                   /\ Len(acc.output) < MaxTags
           more == Append(acc.output, tag)
           r == AddTag(acc, item)
           good == item.kind = "string" /\ ValidTag(TrimSpace(item.text))
<1>0. MaxTags \in Nat /\ acc.output \in Seq(Text) /\ Len(acc.output) \in Nat
  BY LimitsAssumption DEF TagStates
<1>1. tag \in Text
  BY TagOfType
<1>2. good <=> tag \in ValidTags
  <2>1. ~ ValidTag(<<>>)
    BY DEF ValidTag
  <2> QED BY <1>1, <2>1 DEF TagOf, ValidTags
<1>3. good => tag = TrimSpace(item.text)
  BY DEF TagOf
<1>4. Range(more) = Range(acc.output) \cup {tag} /\ more \in Seq(Text)
  <2> HIDE DEF tag
  <2> QED BY <1>0, <1>1, RangeOfAppend
<1>5. good => (SeenTag(acc.output, item) <=> tag \in Range(acc.output))
  <2>1. ASSUME good
        PROVE  SeenTag(acc.output, item) <=>
                 \E i \in 1 .. Len(acc.output) : acc.output[i] = tag
    BY <1>3, <2>1 DEF SeenTag, Contains
  <2>2. DOMAIN acc.output = 1 .. Len(acc.output)
    BY <1>0
  <2> QED BY <2>1, <2>2 DEF Range
<1>6. r = IF Len(acc.output) >= MaxTags \/ ~ good
          THEN [acc EXCEPT !.warnings = @ \cup {"tags"}]
          ELSE IF SeenTag(acc.output, item) THEN acc
          ELSE [acc EXCEPT !.output = Append(@, TrimSpace(item.text))]
  BY DEF AddTag
<1> HIDE DEF tag, good, r
<1>7. CASE Len(acc.output) >= MaxTags \/ ~ good
  <2>1. ~ fits
    BY <1>0, <1>2, <1>7
  <2>2. r = [acc EXCEPT !.warnings = @ \cup {"tags"}]
    BY <1>6, <1>7
  <2>3. r \in TagStates /\ r.output = acc.output /\ "tags" \in r.warnings
    BY <2>2 DEF TagStates
  <2> QED BY <2>1, <2>3 DEF tag, r
<1>8. CASE good /\ Len(acc.output) < MaxTags /\ SeenTag(acc.output, item)
  <2>1. r = acc /\ tag \in Range(acc.output)
    BY <1>0, <1>5, <1>6, <1>8
  <2> QED BY <1>3, <1>8, <2>1 DEF tag, r
<1>9. CASE good /\ Len(acc.output) < MaxTags /\ ~ SeenTag(acc.output, item)
  <2>1. fits
    BY <1>2, <1>5, <1>9
  <2>2. r = [acc EXCEPT !.output = more]
    BY <1>0, <1>3, <1>6, <1>9
  <2> HIDE DEF more
  <2>3. r \in TagStates /\ r.output = more /\ r.warnings = acc.warnings
    BY <1>4, <2>2 DEF TagStates
  <2> QED BY <1>3, <1>4, <1>9, <2>1, <2>3 DEF tag, r, more
<1> QED BY <1>0, <1>7, <1>8, <1>9

\* The recursion of ParseTags, one loop over the items (document.go:586-637),
\* has a solution.
LEMMA TagLoops ==
  ASSUME NEW value \in Values
  PROVE  \E acc : TagLoop(acc, value)
<1> DEFINE items == Items(value)
           m == Len(items)
           a == [output |-> <<>>, warnings |-> ShapeWarnings(value, "tags")]
           Rec(f) == [n \in 0 .. m |->
                        IF n = 0 THEN a ELSE AddTag(f[n - 1], items[n])]
           sel == CHOOSE f : f = Rec(f)
           step == [p \in TagStates \X (1 .. m) |-> AddTag(p[1], items[p[2]])]
<1>1. ParseTags(value) = sel[m]
  BY DEF ParseTags
<1>2. /\ items \in Seq(ListItems)
      /\ m \in Nat
      /\ \A n \in 1 .. m : items[n] \in ListItems
  <2>1. items \in Seq(ListItems)
    BY ValueParts
  <2> HIDE DEF items
  <2> QED BY <2>1
<1> HIDE DEF items
<1>3. a \in TagStates
  <2>1. ShapeWarnings(value, "tags") \in SUBSET {"tags"}
    BY DEF ShapeWarnings
  <2>2. <<>> \in Seq(Text)
    OBVIOUS
  <2> QED BY <2>1, <2>2 DEF TagStates
<1> HIDE DEF m, a
<1>4. step \in [TagStates \X (1 .. m) -> TagStates]
  <2>1. ASSUME NEW p \in TagStates \X (1 .. m)
        PROVE  AddTag(p[1], items[p[2]]) \in TagStates
    BY <1>2, AddedTag
  <2> QED BY <2>1
<1>5. \A x \in TagStates, n \in 1 .. m : step[<<x, n>>] = AddTag(x, items[n])
  OBVIOUS
<1> HIDE DEF step
<1>6. PICK f \in [0 .. m -> TagStates] : Iterates(f, a, step, m)
  BY <1>2, <1>3, <1>4, Iteration
<1>r. ASSUME NEW g
      PROVE  /\ Rec(g)[0] = a
             /\ \A n \in 1 .. m : Rec(g)[n] = AddTag(g[n - 1], items[n])
             /\ Rec(g) = [n \in 0 .. m |-> Rec(g)[n]]
  BY <1>2
<1> HIDE DEF Rec
<1>7. f = Rec(f)
  <2>1. ASSUME NEW n \in 0 .. m PROVE f[n] = Rec(f)[n]
    <3>1. CASE n = 0
      BY <1>6, <1>r, <3>1 DEF Iterates
    <3>2. CASE n # 0
      <4>1. n \in 1 .. m /\ n - 1 \in 0 .. m
        BY <1>2, <3>2
      <4>2. f[n] = step[<<f[n - 1], n>>] /\ f[n - 1] \in TagStates
        BY <1>6, <4>1 DEF Iterates
      <4> QED BY <1>5, <1>r, <4>1, <4>2
    <3> QED BY <3>1, <3>2
  <2>2. f = [n \in 0 .. m |-> f[n]]
    OBVIOUS
  <2>3. Rec(f) = [n \in 0 .. m |-> Rec(f)[n]]
    BY <1>r
  <2> QED BY <2>1, <2>2, <2>3
<1>8. sel = Rec(sel)
  BY <1>7
<1> HIDE DEF sel
<1>9. /\ sel[0] = a
      /\ \A n \in 1 .. m : sel[n] = AddTag(sel[n - 1], items[n])
      /\ sel = [n \in 0 .. m |-> sel[n]]
  BY <1>8, <1>r
<1>10. sel \in [0 .. m -> TagStates]
  <2>1. ASSUME NEW n \in 1 .. m, sel[n - 1] \in TagStates
        PROVE  sel[n] \in TagStates
    <3> DEFINE x == sel[n - 1]
    <3>1. sel[n] = AddTag(x, items[n]) /\ items[n] \in ListItems /\ x \in TagStates
      BY <1>2, <1>9, <2>1
    <3> HIDE DEF x
    <3> QED BY <3>1, AddedTag
  <2> QED BY <1>2, <1>3, <1>9, <2>1, Invariance
<1> QED BY <1>1, <1>9, <1>10 DEF TagLoop, items, m, a

\* What the items say is texts, one for each.
LEMMA TagsInType ==
  ASSUME NEW items \in Seq(ListItems)
  PROVE  /\ TagsIn(items) \in Seq(Text)
         /\ Len(TagsIn(items)) = Len(items)
         /\ \A n \in 1 .. Len(items) : TagsIn(items)[n] = TagOf(items[n])
<1>1. DOMAIN items = 1 .. Len(items) /\ Len(items) \in Nat
  OBVIOUS
<1>2. \A i \in 1 .. Len(items) : items[i] \in ListItems
  OBVIOUS
<1>3. \A i \in 1 .. Len(items) : TagOf(items[i]) \in Text
  BY <1>2, TagOfType
<1> QED BY <1>1, <1>3 DEF TagsIn

\* Of the tags said the loop keeps the first different ones that are valid
\* (document.go:593, 632).
LEMMA TagsKeep ==
  ASSUME NEW value \in Values, NEW acc, TagLoop(acc, value)
  PROVE  Keeps([n \in 0 .. Len(Items(value)) |-> acc[n].output],
               TagsIn(Items(value)), ValidTags, MaxTags)
<1> DEFINE items == Items(value)
           m == Len(items)
           tags == TagsIn(items)
           f == [n \in 0 .. m |-> acc[n].output]
<1>1. items \in Seq(ListItems)
  BY ValueParts
<1>2. /\ acc \in [0 .. m -> TagStates]
      /\ acc[0] = [output |-> <<>>, warnings |-> ShapeWarnings(value, "tags")]
      /\ \A n \in 1 .. m : acc[n] = AddTag(acc[n - 1], items[n])
  BY DEF TagLoop
<1> HIDE DEF items
<1>3. /\ m \in Nat /\ tags \in Seq(Text) /\ Len(tags) = m
      /\ \A n \in 1 .. m : tags[n] = TagOf(items[n])
  BY <1>1, TagsInType
<1>4. f[0] = <<>>
  BY <1>2, <1>3
<1>5. ASSUME NEW n \in 1 .. m
      PROVE  f[n] = IF /\ tags[n] \in ValidTags
                       /\ tags[n] \notin Range(f[n - 1])
                       /\ Len(f[n - 1]) < MaxTags
                    THEN Append(f[n - 1], tags[n])
                    ELSE f[n - 1]
  <2> DEFINE x == acc[n - 1]
             item == items[n]
  <2>1. n \in 0 .. m /\ n - 1 \in 0 .. m
    BY <1>3
  <2>2. x \in TagStates /\ item \in ListItems /\ tags[n] = TagOf(item)
    BY <1>1, <1>2, <1>3, <2>1
  <2>3. f[n] = acc[n].output /\ f[n - 1] = x.output
    BY <2>1
  <2>4. acc[n] = AddTag(x, item)
    BY <1>2
  <2> HIDE DEF x, f, item, tags
  <2>5. acc[n].output = IF /\ TagOf(item) \in ValidTags
                           /\ TagOf(item) \notin Range(x.output)
                           /\ Len(x.output) < MaxTags
                        THEN Append(x.output, TagOf(item)) ELSE x.output
    BY <2>2, <2>4, AddedTag
  <2> QED BY <2>2, <2>3, <2>5
<1> HIDE DEF f
<1>6. Keeps(f, tags, ValidTags, MaxTags)
  BY <1>3, <1>4, <1>5 DEF Keeps
<1> QED BY <1>6 DEF f, tags, items

\* All of the first n tags are put out, and in their order if none is repeated.
SaysAll(output, tags, n) ==
  /\ Range(output) = {tags[i] : i \in 1 .. n}
  /\ IsInjective(tags) => output = SubSeq(tags, 1, n)

\* Putting out one more.
LEMMA OneMoreSaid ==
  ASSUME NEW tags \in Seq(Text), NEW n \in Nat, n + 1 <= Len(tags),
         NEW o \in Seq(Text), SaysAll(o, tags, n), NEW r,
         r = o \/ r = Append(o, tags[n + 1]), tags[n + 1] \in Range(r)
  PROVE  SaysAll(r, tags, n + 1)
<1> DEFINE tag == tags[n + 1]
           before == {tags[i] : i \in 1 .. n}
<1>1. tag \in Text /\ DOMAIN tags = 1 .. Len(tags) /\ Len(tags) \in Nat
  OBVIOUS
<1>2. 1 .. n + 1 = (1 .. n) \cup {n + 1}
  OBVIOUS
<1>3. {tags[i] : i \in 1 .. n + 1} = before \cup {tag}
  BY <1>2
<1>4. Append(SubSeq(tags, 1, n), tag) = SubSeq(tags, 1, n + 1)
  BY FrontAppend
<1>5. IsInjective(tags) => tag \notin before
  <2>1. \A i \in 1 .. n : i \in DOMAIN tags /\ n + 1 \in DOMAIN tags /\ i # n + 1
    BY <1>1
  <2> QED BY <2>1 DEF IsInjective
<1>6. Range(o) = before /\ (IsInjective(tags) => o = SubSeq(tags, 1, n))
  BY DEF SaysAll
<1> HIDE DEF tag, before
<1>7. CASE r = Append(o, tag)
  <2>1. Range(r) = Range(o) \cup {tag}
    BY <1>1, <1>7, RangeOfAppend
  <2> QED BY <1>3, <1>4, <1>6, <1>7, <2>1 DEF SaysAll
<1>8. CASE r = o
  <2>1. tag \in before
    BY <1>6, <1>8 DEF tag
  <2>2. Range(r) = before \cup {tag}
    BY <1>6, <1>8, <2>1
  <2> QED BY <1>3, <1>5, <2>1, <2>2 DEF SaysAll
<1> QED BY <1>7, <1>8 DEF tag

\* As long as nothing is reported, all that was said so far is put out.
LEMMA TagsSilent ==
  ASSUME NEW value \in Values, NEW acc, TagLoop(acc, value),
         NEW n \in 0 .. Len(Items(value)), "tags" \notin acc[n].warnings
  PROVE  SaysAll(acc[n].output, TagsIn(Items(value)), n)
<1> DEFINE items == Items(value)
           m == Len(items)
           tags == TagsIn(items)
           Says(k) == "tags" \notin acc[k].warnings =>
                        SaysAll(acc[k].output, tags, k)
           S == {k \in Nat : k <= m => Says(k)}
<1>1. items \in Seq(ListItems)
  BY ValueParts
<1>2. /\ acc \in [0 .. m -> TagStates]
      /\ acc[0] = [output |-> <<>>, warnings |-> ShapeWarnings(value, "tags")]
      /\ \A k \in 1 .. m : acc[k] = AddTag(acc[k - 1], items[k])
  BY DEF TagLoop
<1>3. n \in 0 .. m
  OBVIOUS
<1> HIDE DEF items
<1>4. /\ m \in Nat /\ tags \in Seq(Text) /\ Len(tags) = m
      /\ \A k \in 1 .. m : tags[k] = TagOf(items[k])
  BY <1>1, TagsInType
<1> HIDE DEF tags
<1>5. Says(0)
  <2>1. acc[0].output = <<>>
    BY <1>2, <1>4
  <2>2. Range(<<>>) = {} /\ {tags[i] : i \in 1 .. 0} = {}
    BY DEF Range
  <2>3. SubSeq(tags, 1, 0) = <<>>
    BY <1>4, SubSeqEmpty
  <2> QED BY <2>1, <2>2, <2>3 DEF SaysAll
<1>6. ASSUME NEW k \in Nat, k + 1 <= m, Says(k) PROVE Says(k + 1)
  <2> DEFINE x == acc[k]
             item == items[k + 1]
             tag == TagOf(item)
             o == x.output
             r == acc[k + 1]
  <2>1. SUFFICES ASSUME "tags" \notin r.warnings
                 PROVE  SaysAll(r.output, tags, k + 1)
    OBVIOUS
  <2>2. k + 1 \in 1 .. m /\ k \in 0 .. m /\ k + 1 - 1 = k
    BY <1>4, <1>6
  <2>3. x \in TagStates /\ item \in ListItems
    <3>1. x \in TagStates
      BY <1>2, <2>2
    <3>2. item \in ListItems
      BY <1>1, <2>2
    <3> QED BY <3>1, <3>2
  <2>4. r = AddTag(x, item)
    BY <1>2, <2>2
  <2>5. tags[k + 1] = tag
    BY <1>4, <2>2
  <2>6. "tags" \notin x.warnings => SaysAll(o, tags, k)
    BY <1>6
  <2> HIDE DEF x, item, r
  <2>7. /\ r.output = IF /\ tag \in ValidTags /\ tag \notin Range(o)
                         /\ Len(o) < MaxTags
                      THEN Append(o, tag) ELSE o
        /\ "tags" \notin x.warnings
        /\ tag \in Range(r.output)
    BY <2>1, <2>3, <2>4, AddedTag
  <2>8. o \in Seq(Text)
    BY <2>3 DEF TagStates
  <2> HIDE DEF o, tag
  <2>9. r.output = o \/ r.output = Append(o, tags[k + 1])
    BY <2>5, <2>7
  <2> QED BY <1>4, <1>6, <2>5, <2>6, <2>7, <2>8, <2>9, OneMoreSaid
<1> HIDE DEF Says
<1>7. S = Nat
  <2>1. 0 \in S
    BY <1>5
  <2>2. ASSUME NEW k \in S PROVE k + 1 \in S
    <3>1. SUFFICES ASSUME k + 1 <= m PROVE Says(k + 1)
      OBVIOUS
    <3>2. k \in Nat /\ k <= m
      BY <1>4, <3>1
    <3>3. Says(k)
      BY <3>2
    <3> QED BY <1>6, <3>1, <3>2, <3>3
  <2>3. S \in SUBSET Nat
    OBVIOUS
  <2> HIDE DEF S
  <2> QED BY <2>1, <2>2, <2>3, SetInduction
<1>8. Says(n)
  BY <1>3, <1>4, <1>7
<1> QED BY <1>8 DEF Says, tags, items

\* What parseSkillDocumentTags (document.go:562) makes of a field.
THEOREM TagsParsed ==
  ASSUME NEW value \in Values
  PROVE  LET items == Items(value)
             tags == TagsIn(items)
             parsed == ParseTags(value)
         IN  /\ parsed.output \in Seq(Text)
             /\ Len(parsed.output) <= MaxTags
             /\ \A i \in DOMAIN parsed.output : ValidTag(parsed.output[i])
             /\ IsInjective(parsed.output)
             /\ parsed.output =
                  FirstOf(tags, {i \in DOMAIN tags : ValidTag(tags[i])}, MaxTags)
             /\ "tags" \notin parsed.warnings =>
                  /\ Range(parsed.output) = Range(tags)
                  /\ IsInjective(tags) => parsed.output = tags
<1> DEFINE items == Items(value)
           m == Len(items)
           tags == TagsIn(items)
           parsed == ParseTags(value)
<1>1. items \in Seq(ListItems)
  BY ValueParts
<1>2. PICK acc : TagLoop(acc, value)
  BY TagLoops
<1>3. m \in 0 .. m /\ DOMAIN items = 1 .. m /\ m \in Nat
  <2> HIDE DEF items
  <2> QED BY <1>1
<1>4. parsed = acc[m] /\ acc[m] \in TagStates
  BY <1>2, <1>3 DEF TagLoop
<1>6. "tags" \notin acc[m].warnings => SaysAll(acc[m].output, tags, m)
  BY <1>2, <1>3, TagsSilent
<1> DEFINE f == [n \in 0 .. m |-> acc[n].output]
<1>7. Keeps(f, tags, ValidTags, MaxTags)
  BY <1>2, TagsKeep
<1>8. f[m] = acc[m].output
  BY <1>3
<1> HIDE DEF f, items, parsed
<1>9. /\ tags \in Seq(Text) /\ Len(tags) = m
  BY <1>1, TagsInType
<1>10. Firsts(tags, ValidTags) =
         {i \in {k \in DOMAIN tags : ValidTag(tags[k])} :
            \A j \in 1 .. i - 1 : tags[j] # tags[i]}
  <2>1. \A k \in DOMAIN tags : tags[k] \in ValidTags <=> ValidTag(tags[k])
    BY <1>9 DEF ValidTags
  <2> HIDE DEF tags
  <2> QED BY <2>1 DEF Firsts
<1>15. SaysAll(acc[m].output, tags, m) =>
         /\ Range(acc[m].output) = Range(tags)
         /\ IsInjective(tags) => acc[m].output = tags
  <2> HIDE DEF m, tags
  <2>1. SubSeq(tags, 1, m) = tags
    BY <1>9, SubSeqFull
  <2>2. Range(tags) = {tags[i] : i \in 1 .. m}
    BY <1>9 DEF Range
  <2> QED BY <2>1, <2>2 DEF SaysAll
<1> HIDE DEF tags, m
<1>11. /\ f[Len(tags)] = Cut(Selection(tags, Firsts(tags, ValidTags)), MaxTags)
       /\ \A n \in 0 .. Len(tags) :
            /\ f[n] \in Seq(Text) /\ Len(f[n]) <= MaxTags /\ IsInjective(f[n])
            /\ Range(f[n]) \subseteq ValidTags
  <2>1. MaxTags \in Nat
    BY LimitsAssumption
  <2> QED BY <1>7, <1>9, <2>1, KeepsFirst
<1>12. acc[m].output =
         FirstOf(tags, {i \in DOMAIN tags : ValidTag(tags[i])}, MaxTags)
  BY <1>8, <1>9, <1>10, <1>11 DEF FirstOf
<1>13. /\ acc[m].output \in Seq(Text) /\ Len(acc[m].output) <= MaxTags
       /\ IsInjective(acc[m].output) /\ Range(acc[m].output) \subseteq ValidTags
  BY <1>3, <1>8, <1>9, <1>11
<1>14. \A i \in DOMAIN acc[m].output : ValidTag(acc[m].output[i])
  BY <1>13 DEF Range, ValidTags
<1> QED BY <1>3, <1>4, <1>6, <1>12, <1>13, <1>14, <1>15 DEF parsed, items, tags, m

----------------------------------------------------------------------------
(* Bodies and headings *)

\* One more character of a body whose line ends are normalized.
NextEnding(acc, s, n) ==
  IF s[n] # "\r" THEN Append(acc, s[n])
  ELSE IF n < Len(s) /\ s[n + 1] = "\n" THEN acc
  ELSE Append(acc, "\n")

\* acc is the body with the line ends normalized so far (document.go:127).
EndingLoop(acc, s) ==
  /\ acc \in [0 .. Len(s) -> Text]
  /\ acc[0] = <<>>
  /\ \A n \in 1 .. Len(s) : acc[n] = NextEnding(acc[n - 1], s, n)
  /\ NormalizeEndings(s) = acc[Len(s)]

\* Normalizing the line ends (document.go:127) goes through the text once.
LEMMA EndingLoops ==
  ASSUME NEW s \in Text
  PROVE  \E acc : EndingLoop(acc, s)
<1> DEFINE m == Len(s)
           Rec(f) == [n \in 0 .. m |->
                        CASE n = 0 -> <<>>
                          [] n > 0 /\ s[n] # "\r" -> Append(f[n - 1], s[n])
                          [] OTHER -> IF n < Len(s) /\ s[n + 1] = "\n" THEN f[n - 1]
                                      ELSE Append(f[n - 1], "\n")]
           sel == CHOOSE f : f = Rec(f)
           step == [p \in Text \X (1 .. m) |-> NextEnding(p[1], s, p[2])]
<1>1. NormalizeEndings(s) = sel[m]
  BY DEF NormalizeEndings
<1>2. m \in Nat /\ <<>> \in Text /\ \A n \in 1 .. m : s[n] \in Parts
  BY DEF Text
<1>3. ASSUME NEW x \in Text, NEW n \in 1 .. m PROVE NextEnding(x, s, n) \in Text
  <2>1. s[n] \in Parts /\ "\n" \in Parts
    BY <1>2 DEF Parts, Blanks
  <2>2. \A c \in Parts : Append(x, c) \in Text
    BY <1>3, AppendProperties DEF Text
  <2> QED BY <1>3, <2>1, <2>2 DEF NextEnding
<1>r. ASSUME NEW g
      PROVE  /\ Rec(g)[0] = <<>>
             /\ \A n \in 1 .. m : Rec(g)[n] = NextEnding(g[n - 1], s, n)
             /\ Rec(g) = [n \in 0 .. m |-> Rec(g)[n]]
  <2>1. Rec(g)[0] = <<>> /\ Rec(g) = [n \in 0 .. m |-> Rec(g)[n]]
    BY <1>2
  <2>2. ASSUME NEW n \in 1 .. m PROVE Rec(g)[n] = NextEnding(g[n - 1], s, n)
    <3>1. n > 0 /\ n # 0 /\ n \in 0 .. m
      BY <1>2
    <3>2. CASE s[n] # "\r"
      BY <3>1, <3>2 DEF NextEnding
    <3>3. CASE s[n] = "\r"
      BY <3>1, <3>3 DEF NextEnding
    <3> QED BY <3>2, <3>3
  <2> QED BY <2>1, <2>2
<1> HIDE DEF m
<1>4. step \in [Text \X (1 .. m) -> Text]
  <2>1. ASSUME NEW p \in Text \X (1 .. m)
        PROVE  NextEnding(p[1], s, p[2]) \in Text
    BY <1>3
  <2> QED BY <2>1
<1>5. \A x \in Text, n \in 1 .. m : step[<<x, n>>] = NextEnding(x, s, n)
  OBVIOUS
<1> HIDE DEF step, Rec
<1>6. PICK f \in [0 .. m -> Text] : Iterates(f, <<>>, step, m)
  BY <1>2, <1>4, Iteration
<1>7. f = Rec(f)
  <2>1. ASSUME NEW n \in 0 .. m PROVE f[n] = Rec(f)[n]
    <3>1. CASE n = 0
      BY <1>6, <1>r, <3>1 DEF Iterates
    <3>2. CASE n # 0
      <4>1. n \in 1 .. m /\ n - 1 \in 0 .. m
        BY <1>2, <3>2
      <4>2. f[n] = step[<<f[n - 1], n>>] /\ f[n - 1] \in Text
        BY <1>6, <4>1 DEF Iterates
      <4> QED BY <1>5, <1>r, <4>1, <4>2
    <3> QED BY <3>1, <3>2
  <2>2. f = [n \in 0 .. m |-> f[n]]
    OBVIOUS
  <2>3. Rec(f) = [n \in 0 .. m |-> Rec(f)[n]]
    BY <1>r
  <2> QED BY <2>1, <2>2, <2>3
<1>8. sel = Rec(sel)
  BY <1>7
<1> HIDE DEF sel
<1>9. /\ sel[0] = <<>>
      /\ \A n \in 1 .. m : sel[n] = NextEnding(sel[n - 1], s, n)
      /\ sel = [n \in 0 .. m |-> sel[n]]
  BY <1>8, <1>r
<1>10. sel \in [0 .. m -> Text]
  <2>1. \A n \in 1 .. m : sel[n - 1] \in Text => sel[n] \in Text
    BY <1>3, <1>9
  <2> QED BY <1>2, <1>9, <2>1, Invariance
<1> QED BY <1>1, <1>2, <1>9, <1>10 DEF EndingLoop, m

\* It makes a text of a text.
LEMMA NormalizeType ==
  ASSUME NEW s \in Text
  PROVE  NormalizeEndings(s) \in Text
<1>1. PICK acc : EndingLoop(acc, s)
  BY EndingLoops
<1>2. Len(s) \in 0 .. Len(s)
  BY DEF Text
<1> QED BY <1>1, <1>2 DEF EndingLoop

\* A body without the empty lines in front of it is a text.
LEMMA CleanBodyType ==
  ASSUME NEW s \in Text
  PROVE  CleanBody(s) \in Text
<1> DEFINE clean == NormalizeEndings(s)
           other == {i \in DOMAIN clean : clean[i] # "\n"} \cup {Len(clean) + 1}
<1>1. clean \in Text
  BY NormalizeType
<1>2. CleanBody(s) = SubSeq(clean, Min(other), Len(clean))
  BY DEF CleanBody
<1> HIDE DEF clean
<1>3. /\ DOMAIN clean = 1 .. Len(clean) /\ Len(clean) \in Nat
  BY <1>1 DEF Text
<1>4. /\ other \in SUBSET Nat /\ other # {}
      /\ \A i \in other : i \in Nat \ {0}
  BY <1>3
<1> HIDE DEF other
<1>5. Min(other) \in Nat \ {0}
  BY <1>4, MinFacts
<1> QED BY <1>1, <1>2, <1>3, <1>5, SubText

\* A line of a text, trimmed, is a text.
LEMMA LineType ==
  ASSUME NEW s \in Text, NEW i \in LineStarts(s)
  PROVE  i \in 1 .. Len(s) + 1 /\ LineAt(s, i) \in Text
<1> DEFINE ends == {j \in i .. Len(s) : s[j] = "\n"} \cup {Len(s) + 1}
<1>1. DOMAIN s = 1 .. Len(s) /\ Len(s) \in Nat
  BY DEF Text
<1>2. i \in 1 .. Len(s) + 1
  BY <1>1 DEF LineStarts
<1>3. LineAt(s, i) = TrimSpace(SubSeq(s, i, Min(ends) - 1))
  BY DEF LineAt
<1>4. /\ ends \in SUBSET Nat /\ ends # {}
      /\ \A j \in ends : j \in Nat /\ j <= Len(s) + 1
  BY <1>1, <1>2
<1> HIDE DEF ends
<1>5. Min(ends) \in Nat /\ Min(ends) <= Len(s) + 1
  BY <1>4, MinFacts
<1> DEFINE k == Min(ends) - 1
<1>6. k \in Int /\ k <= Len(s)
  BY <1>1, <1>5
<1> HIDE DEF k
<1>7. SubSeq(s, i, k) \in Text
  <2>1. i \in Nat \ {0}
    BY <1>1, <1>2
  <2> QED BY <1>6, <2>1, SubText
<1>8. TrimSpace(SubSeq(s, i, k)) \in Text
  BY <1>7, TrimFacts
<1> QED BY <1>2, <1>3, <1>8 DEF k

\* The first heading (document.go:855) is a text without blanks at its ends.
LEMMA HeadingFacts ==
  ASSUME NEW s \in Text
  PROVE  FirstHeading(s) \in Text /\ Trimmed(FirstHeading(s))
<1> DEFINE at == {i \in LineStarts(s) : IsHeading(LineAt(s, i))}
           line == LineAt(s, Min(at))
<1>1. FirstHeading(s) = IF at = {} THEN <<>>
                        ELSE TrimSpace(SubSeq(line, 3, Len(line)))
  BY DEF FirstHeading
<1>2. CASE at = {}
  <2>1. <<>> \in Text /\ SolidEnds(<<>>)
    BY DEF Text, SolidEnds
  <2> QED BY <1>1, <1>2, <2>1, SolidIsTrimmed
<1>3. CASE at # {}
  <2>1. \A i \in at : i \in LineStarts(s) /\ i \in Nat
    BY LineType DEF Text
  <2> HIDE DEF at
  <2>2. Min(at) \in LineStarts(s)
    BY <1>3, <2>1, MinFacts
  <2>3. line \in Text
    BY <2>2, LineType
  <2> HIDE DEF line
  <2> DEFINE rest == SubSeq(line, 3, Len(line))
  <2>4. rest \in Text
    <3>1. Len(line) \in Int /\ 3 \in Nat \ {0} /\ Len(line) <= Len(line)
      BY <2>3 DEF Text
    <3> QED BY <2>3, <3>1, SubText
  <2> HIDE DEF rest
  <2>5. TrimSpace(rest) \in Text /\ Trimmed(TrimSpace(rest))
    BY <2>4, TrimFacts
  <2> QED BY <1>1, <1>3, <2>5 DEF rest
<1> QED BY <1>2, <1>3

\* A name has no blanks, so that it can be shown as it is.
LEMMA NameIsTrimmed ==
  ASSUME NEW s \in Text, ValidName(s)
  PROVE  Trimmed(s)
<1>1. DOMAIN s = 1 .. Len(s) /\ Len(s) \in Nat
  BY DEF Text
<1>2. s # <<>> /\ Range(s) \subseteq Letters \cup Digits \cup {"-"}
  BY DEF ValidName
<1>3. Len(s) >= 1
  BY <1>1, <1>2, EmptySeq DEF Text
<1>4. s[1] \in Range(s) /\ s[Len(s)] \in Range(s)
  BY <1>1, <1>3 DEF Range
<1>5. \A x \in Letters \cup Digits \cup {"-"} : x \notin Blanks
  <2>1. \A x \in Letters \cup Digits : x \notin Blanks
    BY BracesDiffer
  <2>2. "-" \notin Blanks
    BY DEF Blanks
  <2> QED BY <2>1, <2>2
<1>6. SolidEnds(s)
  BY <1>2, <1>4, <1>5 DEF SolidEnds
<1> QED BY <1>6, SolidIsTrimmed

----------------------------------------------------------------------------
(* The fields of a content *)

Fields == Seq(Entries)

\* The value of a field, or null for one that is missing, is a value.
LEMMA FieldType ==
  ASSUME NEW fields \in Fields, NEW key
  PROVE  Field(fields, key) \in Values
<1> DEFINE at == {i \in DOMAIN fields : fields[i].key = key}
<1>1. \A i \in DOMAIN fields : i \in Nat /\ fields[i] \in Entries
  BY DEF Fields
<1>5. \A e \in Entries : e.value \in Values
  BY DEF Entries
<1>2. Field(fields, key) = IF at = {} THEN Null ELSE fields[Min(at)].value
  BY DEF Field
<1>3. Null \in Values
  BY DEF Values, ListItems, Scalars
<1>4. CASE at # {}
  <2>1. \A i \in at : i \in Nat /\ i \in DOMAIN fields
    BY <1>1
  <2> HIDE DEF at
  <2>2. Min(at) \in DOMAIN fields
    BY <1>4, <2>1, MinFacts
  <2> QED BY <1>1, <1>2, <1>4, <1>5, <2>2
<1> QED BY <1>2, <1>3, <1>4

\* A required field (document.go:75, 93) without the blanks at its ends.
LEMMA RequiredFacts ==
  ASSUME NEW fields \in Fields, NEW key
  PROVE  Required(fields, key) \in Text /\ Trimmed(Required(fields, key))
<1> DEFINE value == Field(fields, key)
<1>1. value \in Values
  BY FieldType
<1>2. Required(fields, key) =
        IF value.kind = "string" THEN TrimSpace(value.text) ELSE <<>>
  BY DEF Required
<1> HIDE DEF value
<1>3. <<>> \in Text /\ Trimmed(<<>>)
  <2>1. <<>> \in Text /\ SolidEnds(<<>>)
    BY DEF Text, SolidEnds
  <2> QED BY <2>1, SolidIsTrimmed
<1>4. value.kind = "string" =>
        TrimSpace(value.text) \in Text /\ Trimmed(TrimSpace(value.text))
  BY <1>1, ValueParts, TrimFacts
<1> QED BY <1>2, <1>3, <1>4

\* A text with a rule (document.go:332) is cut into two texts.
LEMMA RuledText ==
  ASSUME NEW text \in Scalars, Rules(text) # {}
  PROVE  Before(text) \in Scalars /\ After(text) \in Text
<1> DEFINE s == text.text
           rule == Min(Rules(text))
<1>1. text.kind = "string" /\ Rules(text) \subseteq LineStarts(s)
  BY DEF Rules
<1>2. s \in Text
  BY <1>1, ScalarText
<1>3. Before(text) = Str(SubSeq(s, 1, rule - 2))
      /\ After(text) = SubSeq(s, rule + 1, Len(s))
  BY DEF Before, After
<1> HIDE DEF s
<1>4. DOMAIN s = 1 .. Len(s) /\ Len(s) \in Nat
  BY <1>2 DEF Text
<1>5. \A i \in Rules(text) : i \in Nat /\ i \in 1 .. Len(s) + 1
  BY <1>1, <1>2, <1>4, LineType
<1>6. rule \in 1 .. Len(s) + 1
  BY <1>5, MinFacts
<1> HIDE DEF rule
<1>7. Str(SubSeq(s, 1, rule - 2)) \in Scalars
  <2> DEFINE j == rule - 2
             front == SubSeq(s, 1, j)
  <2>1. 1 \in Nat \ {0} /\ j \in Int /\ j <= Len(s)
    BY <1>4, <1>6
  <2> HIDE DEF j
  <2>2. front \in Text
    BY <1>2, <2>1, SubText
  <2> HIDE DEF front
  <2>3. Str(front) \in Scalars
    BY <2>2 DEF Str, Scalars
  <2> QED BY <2>3 DEF front, j
<1>8. SubSeq(s, rule + 1, Len(s)) \in Text
  <2> DEFINE i == rule + 1
  <2>1. i \in Nat \ {0} /\ Len(s) \in Int /\ Len(s) <= Len(s)
    BY <1>4, <1>6
  <2> HIDE DEF i
  <2>2. SubSeq(s, i, Len(s)) \in Text
    BY <1>2, <2>1, SubText
  <2> QED BY <2>2 DEF i
<1> QED BY <1>3, <1>7, <1>8

\* The first of the texts with a rule in a value that is no list.
LEMMA FirstRuledText ==
  ASSUME NEW value \in ListItems, RuledTexts(value) # {}
  PROVE  LET first == Min(RuledTexts(value))
         IN  /\ first \in DOMAIN TextsOf(value)
             /\ TextsOf(value)[first] \in Scalars
             /\ Rules(TextsOf(value)[first]) # {}
<1>1. \A i \in DOMAIN TextsOf(value) : i \in Nat /\ TextsOf(value)[i] \in Scalars
  <2>1. CASE value.kind = "object"
    <3> DEFINE texts == <<value.default, value.description, value.name>>
    <3>1. /\ value.default \in Scalars /\ value.description \in Scalars
          /\ value.name \in Scalars
      BY <2>1, ItemParts
    <3>2. \A i \in DOMAIN texts : i \in Nat /\ texts[i] \in Scalars
      BY <3>1
    <3> QED BY <2>1, <3>2 DEF TextsOf
  <2>2. CASE value.kind # "object"
    <3>1. value \in Scalars
      BY <2>2 DEF ListItems
    <3>2. \A i \in DOMAIN <<value>> : i \in Nat /\ <<value>>[i] \in Scalars
      BY <3>1
    <3> QED BY <2>2, <3>2 DEF TextsOf
  <2> QED BY <2>1, <2>2
<1> DEFINE first == Min(RuledTexts(value))
<1>2. \A i \in RuledTexts(value) :
        /\ i \in Nat /\ i \in DOMAIN TextsOf(value)
        /\ Rules(TextsOf(value)[i]) # {}
  BY <1>1 DEF RuledTexts
<1>3. first \in RuledTexts(value)
  BY <1>2, MinFacts
<1> HIDE DEF first
<1>4. /\ first \in DOMAIN TextsOf(value) /\ Rules(TextsOf(value)[first]) # {}
      /\ TextsOf(value)[first] \in Scalars
  BY <1>1, <1>2, <1>3
<1> QED BY <1>4 DEF first

\* An item that is cut is an item.
LEMMA CutItemType ==
  ASSUME NEW value \in ListItems, RuledTexts(value) # {}
  PROVE  /\ CutItem(value) \in ListItems
         /\ After(TextsOf(value)[Min(RuledTexts(value))]) \in Text
<1> DEFINE first == Min(RuledTexts(value))
           text == TextsOf(value)[first]
           kept == Before(text)
<1>1. text \in Scalars /\ Rules(text) # {}
  BY FirstRuledText
<1>2. CutItem(value) =
        CASE value.kind # "object" -> kept
          [] value.kind = "object" /\ first = 1 -> Object(Null, Null, kept)
          [] value.kind = "object" /\ first = 2 ->
               Object(Null, kept, value.default)
          [] OTHER -> Object(kept, value.description, value.default)
  BY DEF CutItem
<1> HIDE DEF text
<1>3. kept \in Scalars /\ After(text) \in Text
  BY <1>1, RuledText
<1> HIDE DEF kept, first
<1>4. ASSUME NEW name \in Scalars, NEW description \in Scalars,
             NEW default \in Scalars
      PROVE  Object(name, description, default) \in ListItems
  BY DEF Object, ListItems
<1>5. Null \in Scalars
  BY DEF Scalars
<1>6. value.kind = "object" => /\ value.description \in Scalars
                               /\ value.default \in Scalars
  BY ItemParts
<1>7. CASE value.kind # "object"
  BY <1>2, <1>3, <1>7 DEF text, first, ListItems
<1>8. CASE value.kind = "object"
  <2>1. /\ Object(Null, Null, kept) \in ListItems
        /\ Object(Null, kept, value.default) \in ListItems
        /\ Object(kept, value.description, value.default) \in ListItems
    BY <1>3, <1>4, <1>5, <1>6, <1>8
  <2>2. CutItem(value) \in ListItems
    BY <1>2, <1>8, <2>1
  <2> QED BY <1>3, <2>2 DEF text, first
<1> QED BY <1>7, <1>8

\* A value that is cut, in the text of an item too, is a value, and what comes
\* after the rule a text.
LEMMA CutValueType ==
  ASSUME NEW value \in Values, HasRule(value)
  PROVE  CutValue(value) \in Values /\ Remainder(value) \in Text
<1>1. CASE value.kind = "list"
  <2> DEFINE items == value.items
             first == Min(RuledItems(items))
             item == items[first]
             front == SubSeq(items, 1, first - 1)
  <2>1. items \in Seq(ListItems) /\ RuledItems(items) # {}
    BY <1>1, ValueParts DEF HasRule
  <2>2. /\ CutValue(value) = List(Append(front, CutItem(item)))
        /\ Remainder(value) = After(TextsOf(item)[Min(RuledTexts(item))])
    BY <1>1 DEF CutValue, Remainder
  <2> HIDE DEF items
  <2>3. DOMAIN items = 1 .. Len(items) /\ Len(items) \in Nat
    BY <2>1
  <2>4. \A i \in RuledItems(items) : /\ i \in Nat /\ i \in DOMAIN items
                                     /\ RuledTexts(items[i]) # {}
    BY <2>3 DEF RuledItems
  <2>5. first \in RuledItems(items)
    BY <2>1, <2>4, MinFacts
  <2> HIDE DEF first
  <2>6. first \in 1 .. Len(items) /\ RuledTexts(item) # {}
    BY <2>3, <2>4, <2>5
  <2>7. item \in ListItems
    BY <2>1, <2>6
  <2>8. front \in Seq(ListItems)
    <3>1. \A i \in 1 .. first - 1 : items[i] \in ListItems
      BY <2>1, <2>3, <2>6
    <3>2. 1 \in Int /\ first - 1 \in Int
      BY <2>6
    <3> QED BY <3>1, <3>2, SubSeqProperties
  <2> HIDE DEF item, front
  <2> DEFINE last == CutItem(item)
             rest == After(TextsOf(item)[Min(RuledTexts(item))])
  <2>9. last \in ListItems /\ rest \in Text
    BY <2>6, <2>7, CutItemType
  <2> HIDE DEF last, rest
  <2> DEFINE more == Append(front, last)
  <2>10. more \in Seq(ListItems)
    BY <2>8, <2>9
  <2> HIDE DEF more
  <2>11. List(more) \in Values
    BY <2>10 DEF List, Values
  <2> QED BY <2>2, <2>9, <2>11 DEF more, last, rest
<1>2. CASE value.kind # "list"
  <2>1. value \in ListItems /\ RuledTexts(value) # {}
    BY <1>2 DEF Values, HasRule
  <2>2. /\ CutValue(value) = CutItem(value)
        /\ Remainder(value) = After(TextsOf(value)[Min(RuledTexts(value))])
    BY <1>2 DEF CutValue, Remainder
  <2>3. CutItem(value) \in Values /\ Remainder(value) \in Text
    BY <2>1, <2>2, CutItemType DEF Values
  <2> QED BY <2>2, <2>3
<1> QED BY <1>1, <1>2

\* Splitting the frontmatter (document.go:332), even inside a field, leaves
\* fields and a body.
LEMMA SplitType ==
  ASSUME NEW c \in Contents
  PROVE  SplitFrontmatter(c).fields \in Fields /\ SplitFrontmatter(c).body \in Text
<1> DEFINE ruled == {i \in DOMAIN c.fields : HasRule(c.fields[i].value)}
           first == Min(ruled)
           value == c.fields[first].value
           head == SubSeq(c.fields, 1, first - 1)
           cut == [c.fields[first] EXCEPT !.value = CutValue(value)]
           rest == Remainder(value) \o <<"\n">> \o c.body
<1>1. /\ c.fields \in Fields /\ c.body \in Text
      /\ c = [fault |-> c.fault, bom |-> c.bom, body |-> c.body, fields |-> c.fields]
  BY DEF Contents, Fields, Entries
<1>2. SplitFrontmatter(c) =
        IF ruled = {} THEN c
        ELSE [c EXCEPT !.fields = Append(head, cut), !.body = rest]
  BY DEF SplitFrontmatter
<1>3. CASE ruled = {}
  BY <1>1, <1>2, <1>3
<1>4. CASE ruled # {}
  <2>1. /\ \A i \in ruled : /\ i \in Nat /\ i \in 1 .. Len(c.fields)
                            /\ HasRule(c.fields[i].value)
        /\ DOMAIN c.fields = 1 .. Len(c.fields) /\ Len(c.fields) \in Nat
    BY <1>1 DEF Fields
  <2> HIDE DEF ruled
  <2>2. first \in Nat /\ first \in 1 .. Len(c.fields) /\ HasRule(value)
    <3>1. first \in ruled
      BY <1>4, <2>1, MinFacts
    <3> QED BY <2>1, <3>1
  <2> HIDE DEF first
  <2>3. c.fields[first] \in Entries
    BY <1>1, <2>2 DEF Fields
  <2>4. value \in Values
    BY <2>3 DEF Entries
  <2> HIDE DEF value
  <2>5. CutValue(value) \in Values /\ Remainder(value) \in Text
    BY <2>2, <2>4, CutValueType
  <2>6. cut \in Entries
    BY <2>3, <2>5 DEF Entries
  <2> HIDE DEF cut
  <2>7. head \in Fields
    <3>1. \A i \in 1 .. first - 1 : c.fields[i] \in Entries
      BY <1>1, <2>1, <2>2 DEF Fields
    <3>2. 1 \in Int /\ first - 1 \in Int
      BY <2>2
    <3> QED BY <3>1, <3>2, SubSeqProperties DEF Fields
  <2> HIDE DEF head
  <2>8. Append(head, cut) \in Fields
    BY <2>6, <2>7 DEF Fields
  <2>9. rest \in Text
    <3> DEFINE back == Remainder(value)
    <3>1. back \in Text
      BY <2>5
    <3>2. <<"\n">> \in Text
      BY DEF Text, Parts, Blanks
    <3> HIDE DEF back
    <3>3. back \o <<"\n">> \o c.body \in Text
      BY <1>1, <3>1, <3>2 DEF Text
    <3> QED BY <3>3 DEF back
  <2> HIDE DEF rest
  <2> DEFINE more == Append(head, cut)
  <2> HIDE DEF more
  <2>10. SplitFrontmatter(c) = [c EXCEPT !.fields = more, !.body = rest]
    BY <1>2, <1>4 DEF more
  <2>11. SplitFrontmatter(c).fields = more /\ SplitFrontmatter(c).body = rest
    BY <1>1, <2>10
  <2> QED BY <2>8, <2>9, <2>11 DEF more
<1> QED BY <1>3, <1>4

\* skills-insert is normalized to one of the two (document.go:383, 672).
LEMMA InsertFacts ==
  ASSUME NEW value
  PROVE  NormalizeSkillInsert(<<ParseInsert(value).output>>) # ""
<1>1. ParseInsert(value).output \in {"instructions", "user-message"}
  BY DEF ParseInsert, NormalizeSkillInsert
<1>2. ASSUME NEW x \in {"instructions", "user-message"}
      PROVE  TrimSpace(<<x>>) = <<x>>
  <2> DEFINE s == <<x>>
  <2>0. x \in Parts
    BY DEF Parts
  <2>1. s \in Text /\ Len(s) = 1 /\ s[1] = x
    BY <2>0 DEF Text
  <2>2. x \notin Blanks
    BY DEF Blanks
  <2> HIDE DEF s
  <2>3. SolidEnds(s)
    BY <2>1, <2>2 DEF SolidEnds
  <2>4. TrimSpace(s) = s
    BY <2>1, <2>3, SolidIsTrimmed DEF Trimmed
  <2> QED BY <2>4 DEF s
<1> DEFINE x == ParseInsert(value).output
<1> HIDE DEF x
<1>3. x \in {"instructions", "user-message"} /\ TrimSpace(<<x>>) = <<x>>
  BY <1>1, <1>2 DEF x
<1>4. NormalizeSkillInsert(<<x>>) # ""
  BY <1>3 DEF NormalizeSkillInsert
<1> QED BY <1>4 DEF x

----------------------------------------------------------------------------
(* What is parsed is valid *)

\* The document that a content and an expected name give, if any.
Accepted(c, expected) == ParseSkillDocument(c, expected) # None

\* Every part of a parsed document, and what it was made of.
LEMMA ParsedParts ==
  ASSUME NEW c \in Contents, NEW expected, Accepted(c, expected)
  PROVE  LET fields == SplitFrontmatter(c).fields
             body == CleanBody(SplitFrontmatter(c).body)
             insert == ParseInsert(Field(fields, "insert"))
             arguments == ParseArguments(Field(fields, "arguments"))
             tags == ParseTags(Field(fields, "tags"))
             parsed == ParseSkillDocument(c, expected)
             d == parsed.document
         IN  /\ d.name = Required(fields, "name") /\ ValidName(d.name)
             /\ d.description = Required(fields, "description")
             /\ ValidDescription(d.description)
             /\ d.displayName = DisplayName(d.name, body)
             /\ d.insert = <<insert.output>>
             /\ d.arguments = arguments.output
             /\ d.tags = tags.output
             /\ DOMAIN d = {"name", "displayName", "description", "insert",
                            "arguments", "tags", "body", "custom"}
             /\ \A w \in insert.warnings \cup arguments.warnings
                           \cup tags.warnings : w \in parsed.warnings
             /\ Len(Title(d.name, body)) > MaxDisplayName =>
                  "displayName" \in parsed.warnings
<1> DEFINE fields == SplitFrontmatter(c).fields
           body == CleanBody(SplitFrontmatter(c).body)
           name == Required(fields, "name")
           description == Required(fields, "description")
           insert == ParseInsert(Field(fields, "insert"))
           arguments == ParseArguments(Field(fields, "arguments"))
           tags == ParseTags(Field(fields, "tags"))
           parsed == ParseSkillDocument(c, expected)
           document ==
             [name |-> name, displayName |-> DisplayName(name, body),
              description |-> description,
              insert |-> <<insert.output>>, arguments |-> arguments.output,
              tags |-> tags.output, body |-> body,
              custom |-> Field(fields, "custom")]
           warnings ==
             insert.warnings \cup arguments.warnings \cup tags.warnings
               \cup PaddedRequired(fields)
               \cup (IF c.bom THEN {"bom"} ELSE {})
               \cup (IF Nothing(body) THEN {"body"} ELSE {})
               \cup (IF Len(Title(name, body)) > MaxDisplayName
                     THEN {"displayName"} ELSE {})
<1>1. parsed = IF \/ Bytes(c) > MaxSkillDocumentBytes
                  \/ c.fault
                  \/ ~ ValidName(name)
                  \/ ~ ValidDescription(description)
                  \/ TrimSpace(expected) \notin {<<>>, name}
               THEN None
               ELSE [ok |-> TRUE, document |-> document, warnings |-> warnings]
  BY DEF ParseSkillDocument
<1>2. /\ parsed = [ok |-> TRUE, document |-> document, warnings |-> warnings]
      /\ ValidName(name) /\ ValidDescription(description)
  <2> HIDE DEF document, warnings, name, description
  <2> QED BY <1>1 DEF Accepted
<1>3. parsed.document = document /\ parsed.warnings = warnings
  <2> HIDE DEF document, warnings
  <2> QED BY <1>2
<1>4. \A w \in insert.warnings \cup arguments.warnings \cup tags.warnings :
        w \in warnings
  <2> HIDE DEF insert, arguments, tags, body, fields, name
  <2> QED OBVIOUS
<1>5. Len(Title(name, body)) > MaxDisplayName => "displayName" \in warnings
  <2> HIDE DEF insert, arguments, tags, body, fields, name
  <2> QED OBVIOUS
<1> HIDE DEF warnings, parsed
<1>6. /\ document.name = name /\ document.description = description
      /\ document.displayName = DisplayName(name, body)
      /\ document.insert = <<insert.output>>
      /\ document.arguments = arguments.output /\ document.tags = tags.output
      /\ DOMAIN document = {"name", "displayName", "description", "insert",
                            "arguments", "tags", "body", "custom"}
  <2> HIDE DEF insert, arguments, tags, body, fields, name, description
  <2> QED OBVIOUS
<1> HIDE DEF document
<1> QED BY <1>2, <1>3, <1>4, <1>5, <1>6
        DEF parsed, fields, body, insert, arguments, tags, name, description

\* The title of a skill is without blanks at its ends, and so is the display
\* name (document.go:137-153) unless it was cut; trimmed then, it is valid.
LEMMA TitleFacts ==
  ASSUME NEW name \in Text, ValidName(name), NEW body \in Text
  PROVE  /\ Len(Title(name, body)) \in Nat
         /\ Len(Title(name, body)) <= MaxDisplayName =>
              /\ Trimmed(DisplayName(name, body))
              /\ Len(DisplayName(name, body)) <= MaxDisplayName
         /\ Trimmed(TrimSpace(DisplayName(name, body)))
         /\ Len(TrimSpace(DisplayName(name, body))) <= MaxDisplayName
<1> DEFINE title == Title(name, body)
           shown == Cut(title, MaxDisplayName)
<1>0. MaxDisplayName \in Nat
  BY LimitsAssumption
<1>1. title \in Text /\ Trimmed(title)
  <2>1. Trimmed(name)
    BY NameIsTrimmed
  <2>2. FirstHeading(body) \in Text /\ Trimmed(FirstHeading(body))
    BY HeadingFacts
  <2> QED BY <2>1, <2>2 DEF Title
<1>2. DisplayName(name, body) = shown
  BY DEF DisplayName
<1> HIDE DEF title
<1>3. Len(title) \in Nat
  BY <1>1 DEF Text
<1>4. /\ shown \in Seq(Parts)
      /\ Len(shown) = IF Len(title) > MaxDisplayName THEN MaxDisplayName
                      ELSE Len(title)
      /\ Len(title) <= MaxDisplayName => shown = title
  BY <1>0, <1>1, CutFacts DEF Text
<1> HIDE DEF shown
<1>5. shown \in Text /\ Len(shown) \in Nat /\ Len(shown) <= MaxDisplayName
  BY <1>0, <1>3, <1>4 DEF Text
<1>6. /\ TrimSpace(shown) \in Text /\ Trimmed(TrimSpace(shown))
      /\ Len(TrimSpace(shown)) <= Len(shown)
  BY <1>5, TrimFacts
<1>7. Len(TrimSpace(shown)) <= MaxDisplayName
  <2> DEFINE n == Len(TrimSpace(shown))
  <2>1. n \in Nat /\ n <= Len(shown)
    BY <1>6 DEF Text
  <2> HIDE DEF n
  <2>2. n <= MaxDisplayName
    BY <1>0, <1>5, <2>1
  <2> QED BY <2>2 DEF n
<1> QED BY <1>1, <1>2, <1>3, <1>4, <1>5, <1>6, <1>7 DEF title

\* What parsing makes passes ValidateSkillDocument (document.go:645), its
\* display name cut to a limit aside.
THEOREM ParsedIsValid ==
  ASSUME NEW c \in Contents, NEW expected, Accepted(c, expected)
  PROVE  LET parsed == ParseSkillDocument(c, expected)
         IN  /\ "displayName" \notin parsed.warnings =>
                  ValidateSkillDocument(parsed.document)
             /\ ValidateSkillDocument(Recut(parsed.document))
<1> DEFINE fields == SplitFrontmatter(c).fields
           body == CleanBody(SplitFrontmatter(c).body)
           value == Field(fields, "arguments")
           said == Field(fields, "tags")
           parsed == ParseSkillDocument(c, expected)
           d == parsed.document
           e == Recut(d)
<1>1. fields \in Fields /\ body \in Text
  BY SplitType, CleanBodyType
<1>2. value \in Values /\ said \in Values
  BY <1>1, FieldType
<1>3. /\ d.name = Required(fields, "name") /\ ValidName(d.name)
      /\ ValidDescription(d.description)
      /\ d.displayName = DisplayName(d.name, body)
      /\ d.insert = <<ParseInsert(Field(fields, "insert")).output>>
      /\ d.arguments = ParseArguments(value).output
      /\ d.tags = ParseTags(said).output
      /\ DOMAIN d = {"name", "displayName", "description", "insert",
                     "arguments", "tags", "body", "custom"}
      /\ Len(Title(d.name, body)) > MaxDisplayName =>
           "displayName" \in parsed.warnings
  BY ParsedParts
<1>4. d.name \in Text
  BY <1>1, <1>3, RequiredFacts
<1> HIDE DEF fields, body, value, said, parsed
<1> HIDE DEF d
<1>5. /\ Len(d.arguments) <= MaxArguments
      /\ \A i \in DOMAIN d.arguments : ValidArgument(d.arguments[i])
      /\ IsInjective(NamesIn(d.arguments))
  BY <1>2, <1>3, ArgumentsParsed
<1>6. /\ Len(d.tags) <= MaxTags
      /\ \A i \in DOMAIN d.tags : ValidTag(d.tags[i])
      /\ IsInjective(d.tags)
  BY <1>2, <1>3, TagsParsed
<1>7. NormalizeSkillInsert(d.insert) # ""
  BY <1>3, InsertFacts
<1>8. /\ Len(Title(d.name, body)) \in Nat
      /\ Len(Title(d.name, body)) <= MaxDisplayName =>
           Trimmed(d.displayName) /\ Len(d.displayName) <= MaxDisplayName
      /\ Trimmed(TrimSpace(d.displayName))
      /\ Len(TrimSpace(d.displayName)) <= MaxDisplayName
  BY <1>1, <1>3, <1>4, TitleFacts
<1>9. ASSUME "displayName" \notin parsed.warnings
      PROVE  ValidateSkillDocument(d)
  <2>1. Len(Title(d.name, body)) <= MaxDisplayName
    <3>1. MaxDisplayName \in Nat
      BY LimitsAssumption
    <3> QED BY <1>3, <1>8, <1>9, <3>1
  <2> QED BY <1>3, <1>5, <1>6, <1>7, <1>8, <2>1 DEF ValidateSkillDocument
<1>10. /\ e.name = d.name /\ e.description = d.description
       /\ e.insert = d.insert /\ e.arguments = d.arguments /\ e.tags = d.tags
       /\ e.displayName = TrimSpace(d.displayName)
  BY <1>3 DEF Recut
<1>11. ValidateSkillDocument(e)
  BY <1>3, <1>5, <1>6, <1>7, <1>8, <1>10 DEF ValidateSkillDocument
<1> QED BY <1>9, <1>11 DEF d, parsed

----------------------------------------------------------------------------
(* The calls *)

\* What Runtime.RenderSkill is answered.
RenderedBody(c) ==
  [ok |-> TRUE, rendered |-> RenderSkillBody(c.body, c.arguments, c.values)]

\* A document that was parsed is what parsing makes of what was given.
CallInv ==
  /\ call \in Calls
  /\ call.op = "parse" =>
       out \in {None, ParseSkillDocument(call.content, call.expected)}
  /\ call.op = "marshal" => out \in {None, MarshalSkillDocument(call.document)}
  /\ call.op = "document" =>
       out \in {None, RenderSkillDocument(call.document, call.values)}
  /\ call.op = "body" => out \in {None, RenderedBody(call)}

\* The answer of a call is what its function gives.
LEMMA CallInvariant == Spec => []CallInv
<1>1. Init => CallInv
  BY DEF Init, CallInv
<1>2. CallInv /\ [Next]_vars => CallInv'
  <2>1. SUFFICES ASSUME CallInv, [Next]_vars PROVE CallInv'
    OBVIOUS
  <2>2. CASE Parse
    <3>1. /\ call' = call /\ call.op = "parse"
          /\ out' = ParseSkillDocument(call.content, call.expected)
      BY <2>2 DEF Parse
    <3> QED BY <2>1, <3>1 DEF CallInv
  <2>3. CASE Marshal
    <3>1. call' = call /\ out' = MarshalSkillDocument(call.document)
          /\ call.op = "marshal"
      BY <2>3 DEF Marshal
    <3> QED BY <2>1, <3>1 DEF CallInv
  <2>4. CASE RenderDocument
    <3>1. /\ call' = call /\ call.op = "document"
          /\ out' = RenderSkillDocument(call.document, call.values)
      BY <2>4 DEF RenderDocument
    <3> QED BY <2>1, <3>1 DEF CallInv
  <2>5. CASE Render
    <3>1. call' = call /\ call.op = "body" /\ out' = RenderedBody(call)
      BY <2>5 DEF Render, RenderedBody
    <3> QED BY <2>1, <3>1 DEF CallInv
  <2>6. CASE UNCHANGED vars
    <3>1. call' = call /\ out' = out
      BY <2>6 DEF vars
    <3> QED BY <2>1, <3>1 DEF CallInv
  <2> QED BY <2>1, <2>2, <2>3, <2>4, <2>5, <2>6 DEF Next
<1> QED BY <1>1, <1>2, PTL DEF Spec

\* An answer to a parsing is what the content gave.
LEMMA ParseAnswered ==
  ASSUME CallInv, Answered("parse")
  PROVE  /\ call.content \in Contents
         /\ out = ParseSkillDocument(call.content, call.expected)
         /\ Accepted(call.content, call.expected)
BY InputsAssumption DEF CallInv, Answered, Accepted

\* What is valid can be rendered (document.go:181), and written if it is not
\* too large then (document.go:299).
LEMMA ValidIsUsable ==
  ASSUME NEW d, ValidateSkillDocument(d)
  PROVE  /\ RenderSkillDocument(d, <<>>) # None
         /\ TooLarge(d) \/ MarshalSkillDocument(d) # None
<1>1. RenderSkillDocument(d, <<>>).ok = TRUE
  BY DEF RenderSkillDocument
<1>2. ~ TooLarge(d) => MarshalSkillDocument(d).ok = TRUE
  BY DEF MarshalSkillDocument
<1>3. None.ok = FALSE
  BY DEF None
<1> QED BY <1>1, <1>2, <1>3

\* What ParseSkillDocument (document.go:45) accepts can be rendered, and
\* written unless it is encoded as a content over the size limit, for contents
\* and limits of any size.
THEOREM ParsedCanBeUsed == Spec => []ParsedIsUsable
<1>1. CallInv => ParsedIsUsable
  <2>1. SUFFICES ASSUME CallInv, Answered("parse")
                 PROVE  LET parsed == out.document
                            d == IF "displayName" \in out.warnings
                                 THEN Recut(parsed) ELSE parsed
                        IN  /\ RenderSkillDocument(d, <<>>) # None
                            /\ TooLarge(d) \/ MarshalSkillDocument(d) # None
    BY DEF ParsedIsUsable
  <2>2. /\ "displayName" \notin out.warnings => ValidateSkillDocument(out.document)
        /\ ValidateSkillDocument(Recut(out.document))
    BY <2>1, ParseAnswered, ParsedIsValid
  <2> QED BY <2>2, ValidIsUsable
<1> QED BY <1>1, CallInvariant, PTL

\* A frontmatter without a rule inside is split where it ends
\* (document.go:332), and what is put out is what its fields say.
LEMMA UnruledParts ==
  ASSUME CallInv, Answered("parse"), ~ Ruled(call.content)
  PROVE  LET fields == call.content.fields
             insert == ParseInsert(Field(fields, "insert"))
             arguments == ParseArguments(Field(fields, "arguments"))
             tags == ParseTags(Field(fields, "tags"))
         IN  /\ \A key : Field(fields, key) \in Values
             /\ out.document.insert = <<insert.output>>
             /\ out.document.arguments = arguments.output
             /\ out.document.tags = tags.output
             /\ \A w \in insert.warnings \cup arguments.warnings
                           \cup tags.warnings : w \in out.warnings
<1> DEFINE c == call.content
<1>1. /\ c \in Contents /\ out = ParseSkillDocument(c, call.expected)
      /\ Accepted(c, call.expected)
  BY ParseAnswered
<1>2. SplitFrontmatter(c) = c
  <2>1. {i \in DOMAIN c.fields : HasRule(c.fields[i].value)} = {}
    BY DEF Ruled
  <2> QED BY <2>1 DEF SplitFrontmatter
<1>3. \A key : Field(c.fields, key) \in Values
  BY <1>1, FieldType DEF Contents, Fields, Entries
<1> HIDE DEF c
<1>4. LET fields == SplitFrontmatter(c).fields
          insert == ParseInsert(Field(fields, "insert"))
          arguments == ParseArguments(Field(fields, "arguments"))
          tags == ParseTags(Field(fields, "tags"))
          parsed == ParseSkillDocument(c, call.expected)
          d == parsed.document
      IN  /\ d.insert = <<insert.output>> /\ d.arguments = arguments.output
          /\ d.tags = tags.output
          /\ \A w \in insert.warnings \cup arguments.warnings
                        \cup tags.warnings : w \in parsed.warnings
  BY <1>1, ParsedParts
<1> QED BY <1>1, <1>2, <1>3, <1>4 DEF c

\* An insert that nothing is reported of is the one given (document.go:383).
LEMMA InsertSilent ==
  ASSUME NEW value \in Values, value # Null,
         "insert" \notin ParseInsert(value).warnings
  PROVE  ParseInsert(value).output = NormalizeSkillInsert(value.text)
<1>1. value.kind # "null"
  BY ValueParts
<1>2. CASE value.kind = "string"
  BY <1>1, <1>2 DEF ParseInsert
<1>3. CASE value.kind # "string"
  BY <1>1, <1>3 DEF ParseInsert
<1> QED BY <1>2, <1>3

\* README.md:134-137: what is given in optional fields is in the document, or
\* something is reported; repeated tags aside, which are ignored without it.
THEOREM NothingLostSilently == Spec => []LosesNothingSilently
<1>1. CallInv => LosesNothingSilently
  <2> SUFFICES ASSUME CallInv, Answered("parse"), ~ Ruled(call.content)
               PROVE  LosesNothingSilently
    BY DEF LosesNothingSilently
  <2> DEFINE given(key) == Field(call.content.fields, key)
             insert == ParseInsert(given("insert"))
             arguments == ParseArguments(given("arguments"))
             tags == ParseTags(given("tags"))
             items == Items(given("arguments"))
             said == TagsIn(Items(given("tags")))
             d == out.document
  <2>1. /\ given("insert") \in Values /\ given("arguments") \in Values
        /\ given("tags") \in Values
        /\ d.insert = <<insert.output>> /\ d.arguments = arguments.output
        /\ d.tags = tags.output
        /\ \A w \in insert.warnings \cup arguments.warnings
                      \cup tags.warnings : w \in out.warnings
    BY UnruledParts
  <2>2. ASSUME "arguments" \notin out.warnings
        PROVE  /\ Len(d.arguments) = Len(items)
               /\ \A i \in DOMAIN items : DeclaredBy(d.arguments[i], items[i])
    <3>1. "arguments" \notin arguments.warnings
      BY <2>1, <2>2
    <3> QED BY <2>1, <3>1, ArgumentsParsed
  <2>3. ASSUME "tags" \notin out.warnings
        PROVE  /\ Range(d.tags) = Range(said)
               /\ IsInjective(said) => d.tags = said
    <3>1. "tags" \notin tags.warnings
      BY <2>1, <2>3
    <3> QED BY <2>1, <3>1, TagsParsed
  <2>4. ASSUME "insert" \notin out.warnings, given("insert") # Null
        PROVE  d.insert[1] = NormalizeSkillInsert(given("insert").text)
    <3>1. "insert" \notin insert.warnings
      BY <2>1, <2>4
    <3>2. insert.output = NormalizeSkillInsert(given("insert").text)
      BY <2>1, <2>4, <3>1, InsertSilent
    <3> QED BY <2>1, <3>2
  <2> QED BY <2>2, <2>3, <2>4 DEF LosesNothingSilently
<1> QED BY <1>1, CallInvariant, PTL

\* document.go:444, 503, 593, 632: what is kept of declared arguments and
\* tags are the first different valid ones, up to the limits.
THEOREM FirstOnesKept == Spec => []KeepsTheFirst
<1>1. CallInv => KeepsTheFirst
  <2> SUFFICES ASSUME CallInv, Answered("parse"), ~ Ruled(call.content)
               PROVE  KeepsTheFirst
    BY DEF KeepsTheFirst
  <2> DEFINE items(key) == Items(Field(call.content.fields, key))
             names == ItemNames(items("arguments"))
             tags == TagsIn(items("tags"))
             arguments == ParseArguments(Field(call.content.fields, "arguments"))
             said == ParseTags(Field(call.content.fields, "tags"))
  <2>1. /\ Field(call.content.fields, "arguments") \in Values
        /\ Field(call.content.fields, "tags") \in Values
        /\ out.document.arguments = arguments.output
        /\ out.document.tags = said.output
    BY UnruledParts
  <2>2. NamesIn(out.document.arguments) =
          FirstOf(names, {i \in DOMAIN names : IsValidSkillArgumentName(names[i])},
                  MaxArguments)
    BY <2>1, ArgumentsParsed
  <2>3. out.document.tags =
          FirstOf(tags, {i \in DOMAIN tags : ValidTag(tags[i])}, MaxTags)
    BY <2>1, TagsParsed
  <2> QED BY <2>2, <2>3 DEF KeepsTheFirst, ItemNames
<1> QED BY <1>1, CallInvariant, PTL

----------------------------------------------------------------------------
(* The fields of a document that was written *)

\* Of entries with different keys, those that are not null are found by them
\* in what is written, and the others are missing.
LEMMA FieldOfSelection ==
  ASSUME NEW E \in Seq(Entries), NEW n \in 1 .. Len(E),
         \A i, j \in 1 .. Len(E) : E[i].key = E[j].key => i = j
  PROVE  Field(Selection(E, {i \in 1 .. Len(E) : E[i].value # Null}), E[n].key)
           = E[n].value
<1> DEFINE P == {i \in 1 .. Len(E) : E[i].value # Null}
           t == Selection(E, P)
           key == E[n].key
           at == {k \in DOMAIN t : t[k].key = key}
<1>1. t \in Seq(Entries) /\ \E e : Picks(e, t, E, P, Len(E))
  <2> HIDE DEF P
  <2> QED BY SelectionPicks
<1>2. Field(t, key) = IF at = {} THEN Null ELSE t[Min(at)].value
  BY DEF Field
<1> HIDE DEF t
<1>3. PICK e : Picks(e, t, E, P, Len(E))
  BY <1>1
<1>4. DOMAIN t = 1 .. Len(t) /\ Len(t) \in Nat
  BY <1>1
<1>5. \A k \in 1 .. Len(t) : e[k] \in P \cap (1 .. Len(E)) /\ t[k] = E[e[k]]
  BY <1>3 DEF Picks
<1>6. \A i \in P \cap (1 .. Len(E)) : \E k \in 1 .. Len(t) : e[k] = i
  BY <1>3 DEF Picks
<1>7. \A k \in at : k \in 1 .. Len(t) /\ k \in Nat /\ e[k] = n
  BY <1>4, <1>5
<1>8. CASE E[n].value = Null
  <2>1. n \notin P
    BY <1>8
  <2>2. at = {}
    <3> HIDE DEF P, at
    <3> QED BY <1>5, <1>7, <2>1
  <2> QED BY <1>2, <1>8, <2>2 DEF t
<1>9. CASE E[n].value # Null
  <2>1. n \in P \cap (1 .. Len(E))
    BY <1>9
  <2>2. PICK k \in 1 .. Len(t) : e[k] = n
    BY <1>6, <2>1
  <2>3. k \in at
    BY <1>4, <1>5, <2>2
  <2> HIDE DEF at
  <2>4. Min(at) \in at
    BY <1>7, <2>3, MinFacts
  <2>5. t[Min(at)] = E[n]
    BY <1>5, <1>7, <2>4
  <2> QED BY <1>2, <2>3, <2>5 DEF t, key
<1> QED BY <1>8, <1>9

\* What stands for a list of arguments or tags in a frontmatter.
ArgumentsValue(args) == IF args = <<>> THEN Null ELSE ArgumentField(args)

TagsValue(tags) ==
  IF tags = <<>> THEN Null ELSE List([i \in DOMAIN tags |-> Str(tags[i])])

\* skills-insert, written and read, is what it was normalized to
\* (artifact.go:13).
LEMMA InsertAgain ==
  ASSUME NEW x \in {"instructions", "user-message"}
  PROVE  /\ <<x>> \in Text /\ TrimSpace(<<x>>) = <<x>>
         /\ NormalizeSkillInsert(<<x>>) = x
         /\ ParseInsert(Str(<<x>>)) = [output |-> x, warnings |-> {}]
<1> DEFINE s == <<x>>
<1>1. x \in Parts /\ x \notin Blanks
  BY DEF Parts, Blanks
<1>2. s \in Text /\ Len(s) = 1 /\ s[1] = x
  BY <1>1 DEF Text
<1>3. SolidEnds(s)
  <2> HIDE DEF s
  <2> QED BY <1>1, <1>2 DEF SolidEnds
<1>4. TrimSpace(s) = s
  <2> HIDE DEF s
  <2> QED BY <1>2, <1>3, SolidIsTrimmed DEF Trimmed
<1>5. NormalizeSkillInsert(s) = x
  <2>1. CASE x = "instructions"
    BY <1>4, <2>1 DEF NormalizeSkillInsert
  <2>2. CASE x = "user-message"
    <3>1. s # <<>> /\ s # <<"instructions">> /\ s # <<"INSTRUCTIONS">>
      BY <2>2
    <3>2. s = <<"user-message">>
      BY <2>2
    <3> HIDE DEF s
    <3> QED BY <1>4, <2>2, <3>1, <3>2 DEF NormalizeSkillInsert
  <2> QED BY <2>1, <2>2
<1>6. ParseInsert(Str(s)) = [output |-> x, warnings |-> {}]
  <2> HIDE DEF s
  <2>1. Str(s).kind = "string" /\ Str(s).text = s
    BY DEF Str
  <2>2. x # ""
    OBVIOUS
  <2> QED BY <1>5, <2>1, <2>2 DEF ParseInsert
<1> QED BY <1>2, <1>4, <1>5, <1>6 DEF s

\* The entries of a valid document are entries with different keys.
LEMMA EntriesFacts ==
  ASSUME NEW d \in Documents, ValidateSkillDocument(d)
  PROVE  /\ NormalizeSkillInsert(d.insert) \in {"instructions", "user-message"}
         /\ ArgumentsValue(d.arguments) \in Values /\ TagsValue(d.tags) \in Values
         /\ EntriesOf(d) \in Seq(Entries) /\ Len(EntriesOf(d)) = 6
         /\ \A i, j \in 1 .. 6 : EntriesOf(d)[i].key = EntriesOf(d)[j].key => i = j
<1> DEFINE a == ArgumentsValue(d.arguments)
           g == TagsValue(d.tags)
           x == NormalizeSkillInsert(d.insert)
<1>1. x \in {"instructions", "user-message"}
  BY DEF ValidateSkillDocument, NormalizeSkillInsert
<1>2. /\ d.name \in Text /\ d.description \in Text /\ d.custom \in Values
      /\ d.arguments \in Seq(Arguments) /\ d.tags \in Seq(Text)
  BY DEF Documents
<1>3. Null \in Values
  BY DEF Values, ListItems, Scalars
<1>4. \A s \in Text : Str(s) \in Scalars /\ Str(s) \in ListItems /\ Str(s) \in Values
  BY DEF Str, Values, ListItems, Scalars
<1>5. \A s \in Seq(ListItems) : List(s) \in Values
  BY DEF List, Values
<1>6. a \in Values
  <2>1. CASE d.arguments = <<>>
    BY <1>3, <2>1 DEF ArgumentsValue
  <2>2. CASE d.arguments # <<>>
    <3> DEFINE args == d.arguments
               item(i) == Object(Str(args[i].name), TextField(args[i].description),
                                 TextField(args[i].default))
    <3>1. DOMAIN args = 1 .. Len(args) /\ Len(args) \in Nat
      BY <1>2
    <3>2. ASSUME NEW i \in 1 .. Len(args) PROVE item(i) \in ListItems
      <4>1. args[i] \in Arguments
        BY <1>2
      <4>2. /\ args[i].name \in Text /\ args[i].description \in Text
            /\ args[i].default \in Text
        BY <4>1 DEF Arguments
      <4>3. \A s \in Text : TextField(s) \in Scalars
        <5>1. Null \in Scalars
          BY DEF Scalars
        <5> QED BY <1>4, <5>1 DEF TextField
      <4>4. \A u, v, w \in Scalars : Object(u, v, w) \in ListItems
        BY DEF Object, ListItems
      <4> QED BY <1>4, <4>2, <4>3, <4>4
    <3>3. ArgumentField(args) = List([i \in 1 .. Len(args) |-> item(i)])
      BY <3>1 DEF ArgumentField
    <3> HIDE DEF item, args
    <3>4. [i \in 1 .. Len(args) |-> item(i)] \in Seq(ListItems)
      BY <3>1, <3>2
    <3> QED BY <1>5, <2>2, <3>3, <3>4 DEF ArgumentsValue, args
  <2> QED BY <2>1, <2>2
<1>7. g \in Values
  <2>1. CASE d.tags = <<>>
    BY <1>3, <2>1 DEF TagsValue
  <2>2. CASE d.tags # <<>>
    <3> DEFINE tags == d.tags
               item(i) == Str(tags[i])
    <3>1. DOMAIN tags = 1 .. Len(tags) /\ Len(tags) \in Nat
      BY <1>2
    <3>2. ASSUME NEW i \in 1 .. Len(tags) PROVE item(i) \in ListItems
      BY <1>2, <1>4
    <3>3. g = List([i \in 1 .. Len(tags) |-> item(i)])
      BY <2>2, <3>1 DEF TagsValue
    <3> HIDE DEF item, tags
    <3>4. [i \in 1 .. Len(tags) |-> item(i)] \in Seq(ListItems)
      BY <3>1, <3>2
    <3> QED BY <1>5, <3>3, <3>4
  <2> QED BY <2>1, <2>2
<1>8. <<x>> \in Text
  <2> HIDE DEF x
  <2> QED BY <1>1, InsertAgain
<1> DEFINE u == Str(d.description)
           v == Str(<<x>>)
           w == Str(d.name)
<1>9. u \in Values /\ v \in Values /\ w \in Values
  BY <1>2, <1>4, <1>8
<1>10. EntriesOf(d) = <<Entry("arguments", a), Entry("custom", d.custom),
                        Entry("description", u), Entry("insert", v),
                        Entry("name", w), Entry("tags", g)>>
  BY DEF EntriesOf, ArgumentsValue, TagsValue
<1> HIDE DEF a, g, x, u, v, w
<1>11. \A key \in Keys, value \in Values : Entry(key, value) \in Entries
  BY DEF Entry, Entries
<1>12. EntriesOf(d) \in Seq(Entries) /\ Len(EntriesOf(d)) = 6
  <2>1. /\ Entry("arguments", a) \in Entries /\ Entry("custom", d.custom) \in Entries
        /\ Entry("description", u) \in Entries /\ Entry("insert", v) \in Entries
        /\ Entry("name", w) \in Entries /\ Entry("tags", g) \in Entries
    BY <1>2, <1>6, <1>7, <1>9, <1>11 DEF Keys
  <2> QED BY <1>10, <2>1
<1>13. \A i, j \in 1 .. 6 : EntriesOf(d)[i].key = EntriesOf(d)[j].key => i = j
  BY <1>10 DEF Entry
<1> QED BY <1>1, <1>6, <1>7, <1>12, <1>13 DEF a, g, x

\* What is found in what is written, by each key (document.go:237-264).
LEMMA WrittenFields ==
  ASSUME NEW d \in Documents, ValidateSkillDocument(d)
  PROVE  LET f == FieldsOf(d)
             x == NormalizeSkillInsert(d.insert)
         IN  /\ f \in Fields
             /\ Field(f, "arguments") = ArgumentsValue(d.arguments)
             /\ Field(f, "custom") = d.custom
             /\ Field(f, "description") = Str(d.description)
             /\ Field(f, "insert") = Str(<<x>>)
             /\ Field(f, "name") = Str(d.name)
             /\ Field(f, "tags") = TagsValue(d.tags)
             /\ \A i \in DOMAIN f : \E key \in Keys : f[i].value = Field(f, key)
<1> DEFINE E == EntriesOf(d)
           f == FieldsOf(d)
           P == {i \in 1 .. Len(E) : E[i].value # Null}
<1>1. /\ E \in Seq(Entries) /\ Len(E) = 6
      /\ \A i, j \in 1 .. Len(E) : E[i].key = E[j].key => i = j
  BY EntriesFacts
<1>2. f = Selection(E, P)
  BY <1>1 DEF FieldsOf
<1>3. \A n \in 1 .. 6 : Field(f, E[n].key) = E[n].value
  <2> HIDE DEF E, f
  <2> QED BY <1>1, <1>2, FieldOfSelection
<1>4. /\ E[1].key = "arguments" /\ E[1].value = ArgumentsValue(d.arguments)
      /\ E[2].key = "custom" /\ E[2].value = d.custom
      /\ E[3].key = "description" /\ E[3].value = Str(d.description)
      /\ E[4].key = "insert" /\ E[4].value = Str(<<NormalizeSkillInsert(d.insert)>>)
      /\ E[5].key = "name" /\ E[5].value = Str(d.name)
      /\ E[6].key = "tags" /\ E[6].value = TagsValue(d.tags)
  BY DEF EntriesOf, Entry, ArgumentsValue, TagsValue
<1>5. f \in Seq(Entries) /\ \E e : Picks(e, f, E, P, Len(E))
  <2> HIDE DEF E, P, f
  <2> QED BY <1>1, <1>2, SelectionPicks
<1> HIDE DEF f, E
<1>6. PICK e : Picks(e, f, E, P, Len(E))
  BY <1>5
<1>7. ASSUME NEW i \in DOMAIN f PROVE \E key \in Keys : f[i].value = Field(f, key)
  <2>1. i \in 1 .. Len(f)
    BY <1>5
  <2>2. e[i] \in 1 .. 6 /\ f[i] = E[e[i]]
    BY <1>1, <1>6, <2>1 DEF Picks
  <2>3. E[e[i]].key \in Keys
    <3>1. \A n \in 1 .. 6 : E[n] \in Entries
      <4>1. \A n \in 1 .. Len(E) : E[n] \in Entries
        BY <1>1, ElementOfSeq
      <4> QED BY <1>1, <4>1
    <3> QED BY <2>2, <3>1 DEF Entries
  <2> QED BY <1>3, <2>2, <2>3
<1> QED BY <1>3, <1>4, <1>5, <1>7 DEF f, Fields

----------------------------------------------------------------------------
(* Arguments and tags that were written *)

\* An identifier has no blanks.
LEMMA ArgumentNameIsTrimmed ==
  ASSUME NEW s \in Text, IsValidSkillArgumentName(s)
  PROVE  TrimSpace(s) = s
<1>1. DOMAIN s = 1 .. Len(s) /\ Len(s) \in Nat
  BY DEF Text
<1>2. s # <<>> /\ Range(s) \subseteq Letters \cup Digits
  BY DEF IsValidSkillArgumentName
<1>3. Len(s) >= 1
  BY <1>1, <1>2, EmptySeq DEF Text
<1>4. s[1] \in Range(s) /\ s[Len(s)] \in Range(s)
  BY <1>1, <1>3 DEF Range
<1>5. \A x \in Letters \cup Digits : x \notin Blanks
  BY BracesDiffer
<1>6. SolidEnds(s)
  BY <1>2, <1>4, <1>5 DEF SolidEnds
<1> QED BY <1>6, SolidIsTrimmed DEF Trimmed

\* A text within the limit is read as it was written, an empty one too.
LEMMA TextFieldAgain ==
  ASSUME NEW s \in Text, Len(s) <= MaxArgumentText
  PROVE  OptionalText(TextField(s)) = s /\ ~ TextIgnored(TextField(s))
<1>0. MaxArgumentText \in Nat /\ Len(s) \in Nat
  BY LimitsAssumption DEF Text
<1>1. CASE s = <<>>
  BY <1>1 DEF TextField, OptionalText, TextIgnored, Null
<1>2. CASE s # <<>>
  <2>1. TextField(s) = Str(s)
    BY <1>2 DEF TextField
  <2>2. Str(s).kind = "string" /\ Str(s).text = s
    BY DEF Str
  <2>3. Cut(s, MaxArgumentText) = s
    BY <1>0 DEF Cut
  <2>4. ~ (Len(s) > MaxArgumentText)
    BY <1>0
  <2> QED BY <2>1, <2>2, <2>3, <2>4 DEF OptionalText, TextIgnored
<1> QED BY <1>1, <1>2

\* A valid argument that was written is declared by its object as it was.
LEMMA ArgumentAgain ==
  ASSUME NEW a \in Arguments, ValidArgument(a)
  PROVE  LET item == Object(Str(a.name), TextField(a.description),
                            TextField(a.default))
         IN  /\ ArgumentOf(item) = a
             /\ item.kind = "object" /\ item.name.kind = "string"
             /\ ~ TextIgnored(item.description) /\ ~ TextIgnored(item.default)
<1> DEFINE u == TextField(a.description)
           v == TextField(a.default)
           w == Str(a.name)
           item == Object(w, u, v)
<1>1. /\ a = [name |-> a.name, description |-> a.description, default |-> a.default]
      /\ a.name \in Text /\ a.description \in Text /\ a.default \in Text
  BY DEF Arguments
<1>2. /\ IsValidSkillArgumentName(a.name)
      /\ Len(a.description) <= MaxArgumentText /\ Len(a.default) <= MaxArgumentText
  BY DEF ValidArgument
<1>3. /\ OptionalText(u) = a.description /\ ~ TextIgnored(u)
      /\ OptionalText(v) = a.default /\ ~ TextIgnored(v)
  BY <1>1, <1>2, TextFieldAgain
<1>4. w.kind = "string" /\ w.text = a.name
  BY DEF Str
<1>5. TrimSpace(a.name) = a.name
  BY <1>1, <1>2, ArgumentNameIsTrimmed
<1> HIDE DEF u, v, w
<1>6. /\ item.kind = "object" /\ item.name = w
      /\ item.description = u /\ item.default = v
  BY DEF Object
<1> HIDE DEF item
<1>7. ArgumentOf(item) = [name |-> a.name, description |-> a.description,
                          default |-> a.default]
  BY <1>3, <1>4, <1>5, <1>6 DEF ArgumentOf
<1> QED BY <1>1, <1>3, <1>4, <1>6, <1>7 DEF item, u, v, w

\* Valid arguments (document.go:243-258, 411) that were written are read as
\* they were, and nothing is reported.
LEMMA ArgumentsAgain ==
  ASSUME NEW args \in Seq(Arguments), Len(args) <= MaxArguments,
         \A i \in DOMAIN args : ValidArgument(args[i]),
         IsInjective(NamesIn(args))
  PROVE  ParseArguments(ArgumentsValue(args)) = [output |-> args, warnings |-> {}]
<1> DEFINE value == ArgumentsValue(args)
           items == Items(value)
           m == Len(args)
           item(i) == Object(Str(args[i].name), TextField(args[i].description),
                             TextField(args[i].default))
           So(k) == [output |-> SubSeq(args, 1, k), warnings |-> {}]
<1>0. /\ MaxArguments \in Nat /\ m \in Nat /\ DOMAIN args = 1 .. m
      /\ \A i \in 1 .. m : args[i] \in Arguments /\ ValidArgument(args[i])
  BY LimitsAssumption
<1>1. /\ Len(items) = m /\ ShapeWarnings(value, "arguments") = {}
      /\ \A i \in 1 .. m : items[i] = item(i)
      /\ value \in Values
  <2>1. CASE args = <<>>
    <3>1. value = Null /\ m = 0
      BY <2>1 DEF ArgumentsValue
    <3>2. Null \in Values
      BY DEF Values, ListItems, Scalars
    <3>3. Items(Null) = <<>> /\ ShapeWarnings(Null, "arguments") = {}
      BY DEF Items, ShapeWarnings, Null
    <3> QED BY <3>1, <3>2, <3>3
  <2>2. CASE args # <<>>
    <3> DEFINE f == [i \in 1 .. m |-> item(i)]
    <3>1. value = List(f)
      BY <1>0, <2>2 DEF ArgumentsValue, ArgumentField
    <3>2. ASSUME NEW i \in 1 .. m PROVE item(i) \in ListItems
      <4>1. \A s \in Text : TextField(s) \in Scalars /\ Str(s) \in Scalars
        BY DEF Scalars, TextField, Str
      <4>2. \A u, v, w \in Scalars : Object(u, v, w) \in ListItems
        BY DEF Object, ListItems
      <4>3. /\ args[i].name \in Text /\ args[i].description \in Text
            /\ args[i].default \in Text
        BY <1>0 DEF Arguments
      <4> QED BY <4>1, <4>2, <4>3
    <3> HIDE DEF item
    <3>3. f \in Seq(ListItems) /\ Len(f) = m /\ \A i \in 1 .. m : f[i] = item(i)
      BY <1>0, <3>2
    <3> HIDE DEF f
    <3>4. List(f) \in Values /\ List(f).kind = "list" /\ List(f).items = f
      BY <3>3 DEF List, Values
    <3>5. items = f /\ ShapeWarnings(value, "arguments") = {}
      BY <3>1, <3>4 DEF Items, ShapeWarnings
    <3> QED BY <3>1, <3>3, <3>4, <3>5
  <2> QED BY <2>1, <2>2
<1> HIDE DEF items
<1>2. PICK acc : ArgumentLoop(acc, value)
  BY <1>1, ArgumentLoops
<1>3. /\ acc[0] = [output |-> <<>>, warnings |-> {}]
      /\ \A n \in 1 .. m : acc[n] = AddArgument(acc[n - 1], item(n))
      /\ ParseArguments(value) = acc[m]
  BY <1>1, <1>2 DEF ArgumentLoop, items
<1> HIDE DEF item, So, value
<1>4. acc[0] = So(0)
  <2>1. SubSeq(args, 1, 0) = <<>>
    BY SubSeqEmpty
  <2> QED BY <1>3, <2>1 DEF So
<1>5. ASSUME NEW k \in Nat, k + 1 <= m, acc[k] = So(k)
      PROVE  acc[k + 1] = So(k + 1)
  <2> DEFINE o == SubSeq(args, 1, k)
             a == args[k + 1]
             x == item(k + 1)
  <2>1. k + 1 \in 1 .. m /\ k + 1 - 1 = k
    BY <1>0, <1>5
  <2>2. /\ o \in Seq(Arguments) /\ Len(o) = k
        /\ \A i \in 1 .. k : o[i] = args[i]
        /\ Append(o, a) = SubSeq(args, 1, k + 1)
    BY <1>5, FrontAppend
  <2>3. /\ ArgumentOf(x) = a /\ x.kind = "object" /\ x.name.kind = "string"
        /\ ~ TextIgnored(x.description) /\ ~ TextIgnored(x.default)
    BY <1>0, <2>1, ArgumentAgain DEF item
  <2>4. acc[k + 1] = AddArgument(So(k), x)
    BY <1>3, <1>5, <2>1
  <2>5. Len(o) < MaxArguments
    BY <1>0, <1>5, <2>2
  <2>6. IsValidSkillArgumentName(a.name)
    BY <1>0, <2>1 DEF ValidArgument
  <2>7. ~ IsDeclared(o, a.name)
    <3>1. ASSUME NEW i \in DOMAIN o, o[i].name = a.name PROVE FALSE
      <4>1. i \in 1 .. k /\ i \in 1 .. m /\ i # k + 1
        BY <1>0, <1>5, <2>2, <3>1
      <4>2. NamesIn(args)[i] = NamesIn(args)[k + 1]
        BY <1>0, <2>1, <2>2, <3>1, <4>1 DEF NamesIn
      <4>3. DOMAIN NamesIn(args) = 1 .. m
        BY <1>0 DEF NamesIn
      <4> QED BY <2>1, <4>1, <4>2, <4>3 DEF IsInjective
    <3> QED BY <3>1 DEF IsDeclared
  <2> HIDE DEF o, a, x
  <2>8. So(k).output = o /\ So(k).warnings = {}
    BY DEF So, o
  <2>9. AddArgument(So(k), x) = [output |-> Append(o, a), warnings |-> {} \cup {}]
    BY <2>3, <2>5, <2>6, <2>7, <2>8 DEF AddArgument
  <2>10. So(k + 1) = [output |-> Append(o, a), warnings |-> {}]
    BY <2>2 DEF So
  <2> QED BY <2>4, <2>9, <2>10
<1> DEFINE S == {k \in Nat : k <= m => acc[k] = So(k)}
<1>6. S = Nat
  <2>1. 0 \in S
    BY <1>4
  <2>2. ASSUME NEW k \in S PROVE k + 1 \in S
    <3>1. SUFFICES ASSUME k + 1 <= m PROVE acc[k + 1] = So(k + 1)
      OBVIOUS
    <3>2. k \in Nat /\ k <= m
      BY <1>0, <3>1
    <3>3. acc[k] = So(k)
      BY <3>2
    <3> QED BY <1>5, <3>1, <3>2, <3>3
  <2>3. S \in SUBSET Nat
    OBVIOUS
  <2> HIDE DEF S
  <2> QED BY <2>1, <2>2, <2>3, SetInduction
<1>7. acc[m] = So(m)
  BY <1>0, <1>6
<1>8. SubSeq(args, 1, m) = args
  BY SubSeqFull
<1> QED BY <1>3, <1>7, <1>8 DEF So, value

\* Valid tags (document.go:260-264, 562) that were written are read as they
\* were, and nothing is reported.
LEMMA TagsAgain ==
  ASSUME NEW tags \in Seq(Text), Len(tags) <= MaxTags,
         \A i \in DOMAIN tags : ValidTag(tags[i]), IsInjective(tags)
  PROVE  ParseTags(TagsValue(tags)) = [output |-> tags, warnings |-> {}]
<1> DEFINE value == TagsValue(tags)
           items == Items(value)
           m == Len(tags)
           So(k) == [output |-> SubSeq(tags, 1, k), warnings |-> {}]
<1>0. /\ MaxTags \in Nat /\ m \in Nat /\ DOMAIN tags = 1 .. m
      /\ \A i \in 1 .. m : tags[i] \in Text /\ ValidTag(tags[i])
  BY LimitsAssumption
<1>1. /\ Len(items) = m /\ ShapeWarnings(value, "tags") = {}
      /\ \A i \in 1 .. m : items[i] = Str(tags[i])
      /\ value \in Values
  <2>1. CASE tags = <<>>
    <3>1. value = Null /\ m = 0
      BY <2>1 DEF TagsValue
    <3>2. Null \in Values
      BY DEF Values, ListItems, Scalars
    <3>3. Items(Null) = <<>> /\ ShapeWarnings(Null, "tags") = {}
      BY DEF Items, ShapeWarnings, Null
    <3> QED BY <3>1, <3>2, <3>3
  <2>2. CASE tags # <<>>
    <3> DEFINE f == [i \in 1 .. m |-> Str(tags[i])]
    <3>1. value = List(f)
      BY <1>0, <2>2 DEF TagsValue
    <3>2. \A s \in Text : Str(s) \in ListItems
      BY DEF Scalars, ListItems, Str
    <3>3. f \in Seq(ListItems) /\ Len(f) = m /\ \A i \in 1 .. m : f[i] = Str(tags[i])
      BY <1>0, <3>2
    <3> HIDE DEF f
    <3>4. List(f) \in Values /\ List(f).kind = "list" /\ List(f).items = f
      BY <3>3 DEF List, Values
    <3>5. items = f /\ ShapeWarnings(value, "tags") = {}
      BY <3>1, <3>4 DEF Items, ShapeWarnings
    <3> QED BY <3>1, <3>3, <3>4, <3>5
  <2> QED BY <2>1, <2>2
<1> HIDE DEF items
<1>2. PICK acc : TagLoop(acc, value)
  BY <1>1, TagLoops
<1>3. /\ acc[0] = [output |-> <<>>, warnings |-> {}]
      /\ \A n \in 1 .. m : acc[n] = AddTag(acc[n - 1], Str(tags[n]))
      /\ ParseTags(value) = acc[m]
  BY <1>1, <1>2 DEF TagLoop, items
<1> HIDE DEF So, value
<1>4. acc[0] = So(0)
  <2>1. SubSeq(tags, 1, 0) = <<>>
    BY SubSeqEmpty
  <2> QED BY <1>3, <2>1 DEF So
<1>5. ASSUME NEW k \in Nat, k + 1 <= m, acc[k] = So(k)
      PROVE  acc[k + 1] = So(k + 1)
  <2> DEFINE o == SubSeq(tags, 1, k)
             g == tags[k + 1]
             x == Str(g)
  <2>1. k + 1 \in 1 .. m /\ k + 1 - 1 = k
    BY <1>0, <1>5
  <2>2. /\ o \in Seq(Text) /\ Len(o) = k
        /\ \A i \in 1 .. k : o[i] = tags[i]
        /\ Append(o, g) = SubSeq(tags, 1, k + 1)
    BY <1>5, FrontAppend
  <2>3. ValidTag(g) /\ TrimSpace(g) = g
    BY <1>0, <2>1 DEF ValidTag, Trimmed
  <2>4. acc[k + 1] = AddTag(So(k), x)
    BY <1>3, <1>5, <2>1
  <2>5. ~ (Len(o) >= MaxTags)
    BY <1>0, <1>5, <2>2
  <2>6. \A i \in 1 .. Len(o) : o[i] # g
    <3>1. ASSUME NEW i \in 1 .. Len(o), o[i] = g PROVE FALSE
      <4>1. i \in 1 .. m /\ i # k + 1 /\ tags[i] = tags[k + 1]
        BY <1>0, <1>5, <2>2, <3>1
      <4> QED BY <1>0, <2>1, <4>1 DEF IsInjective
    <3> QED BY <3>1
  <2> HIDE DEF o, g
  <2>7. x.kind = "string" /\ x.text = g
    BY DEF Str
  <2> HIDE DEF x
  <2>8. ~ SeenTag(o, x)
    BY <2>3, <2>6, <2>7 DEF SeenTag, Contains
  <2>9. So(k) = [output |-> o, warnings |-> {}]
    BY DEF So, o
  <2> DEFINE y == So(k)
             t == Append(o, g)
  <2> HIDE DEF y, t
  <2>10. y.output = o /\ y = [output |-> o, warnings |-> {}]
    BY <2>9 DEF y
  <2>11. y \in TagStates /\ t \in Seq(Text) /\ y.warnings = {}
    BY <2>1, <2>2, <2>10 DEF TagStates, t, g
  <2>12. AddTag(y, x) = [y EXCEPT !.output = t]
    BY <2>3, <2>5, <2>7, <2>8, <2>10 DEF AddTag, t
  <2> DEFINE z == AddTag(y, x)
  <2>13. z \in TagStates /\ z.output = t /\ z.warnings = {}
    BY <2>11, <2>12 DEF TagStates
  <2> HIDE DEF z
  <2>14. z = [output |-> t, warnings |-> {}]
    BY <2>13 DEF TagStates
  <2>15. So(k + 1) = [output |-> t, warnings |-> {}]
    BY <2>2 DEF So, t
  <2> QED BY <2>4, <2>14, <2>15 DEF y, z
<1> DEFINE S == {k \in Nat : k <= m => acc[k] = So(k)}
<1>6. S = Nat
  <2>1. 0 \in S
    BY <1>4
  <2>2. ASSUME NEW k \in S PROVE k + 1 \in S
    <3>1. SUFFICES ASSUME k + 1 <= m PROVE acc[k + 1] = So(k + 1)
      OBVIOUS
    <3>2. k \in Nat /\ k <= m
      BY <1>0, <3>1
    <3>3. acc[k] = So(k)
      BY <3>2
    <3> QED BY <1>5, <3>1, <3>2, <3>3
  <2>3. S \in SUBSET Nat
    OBVIOUS
  <2> HIDE DEF S
  <2> QED BY <2>1, <2>2, <2>3, SetInduction
<1>7. acc[m] = So(m)
  BY <1>0, <1>6
<1>8. SubSeq(tags, 1, m) = tags
  BY SubSeqFull
<1> QED BY <1>3, <1>7, <1>8 DEF So, value

----------------------------------------------------------------------------
(* The body is written and read back *)

\* What is without returns stays as it is (document.go:127, 272).
LEMMA NormalizeAgain ==
  ASSUME NEW s \in Text, "\r" \notin Range(s)
  PROVE  NormalizeEndings(s) = s
<1> DEFINE m == Len(s)
<1>1. m \in Nat /\ s \in Seq(Parts) /\ DOMAIN s = 1 .. m
  BY DEF Text
<1>2. PICK acc : EndingLoop(acc, s)
  BY EndingLoops
<1>3. /\ acc[0] = <<>>
      /\ \A n \in 1 .. m : acc[n] = NextEnding(acc[n - 1], s, n)
      /\ NormalizeEndings(s) = acc[m]
  BY <1>2 DEF EndingLoop
<1>4. \A n \in 1 .. m : s[n] # "\r"
  BY <1>1 DEF Range
<1> HIDE DEF m
<1> DEFINE S == {k \in Nat : k <= m => acc[k] = SubSeq(s, 1, k)}
<1>5. S = Nat
  <2>1. 0 \in S
    <3>1. SubSeq(s, 1, 0) = <<>>
      BY SubSeqEmpty
    <3> QED BY <1>3, <3>1
  <2>2. ASSUME NEW k \in S PROVE k + 1 \in S
    <3>1. SUFFICES ASSUME k + 1 <= m PROVE acc[k + 1] = SubSeq(s, 1, k + 1)
      OBVIOUS
    <3>2. k \in Nat /\ k <= m /\ k + 1 \in 1 .. m /\ k + 1 - 1 = k
      BY <1>1, <3>1
    <3>3. acc[k] = SubSeq(s, 1, k)
      BY <3>2
    <3>4. acc[k + 1] = NextEnding(acc[k], s, k + 1) /\ s[k + 1] # "\r"
      BY <1>3, <1>4, <3>2
    <3>5. acc[k + 1] = Append(SubSeq(s, 1, k), s[k + 1])
      BY <3>3, <3>4 DEF NextEnding
    <3>6. Append(SubSeq(s, 1, k), s[k + 1]) = SubSeq(s, 1, k + 1)
      BY <1>1, <3>1, <3>2, FrontAppend DEF m
    <3> QED BY <3>5, <3>6
  <2>3. S \in SUBSET Nat
    OBVIOUS
  <2> HIDE DEF S
  <2> QED BY <2>1, <2>2, <2>3, SetInduction
<1>6. acc[m] = SubSeq(s, 1, m)
  BY <1>1, <1>5
<1>7. SubSeq(s, 1, m) = s
  BY <1>1, SubSeqFull DEF m
<1> QED BY <1>3, <1>6, <1>7

\* No returns are left of a body.
LEMMA NormalizeClean ==
  ASSUME NEW s \in Text
  PROVE  "\r" \notin Range(NormalizeEndings(s))
<1> DEFINE m == Len(s)
           A == Seq(Parts \ {"\r"})
<1>1. m \in Nat /\ \A n \in 1 .. m : s[n] \in Parts
  BY DEF Text
<1>2. PICK acc : EndingLoop(acc, s)
  BY EndingLoops
<1>3. /\ acc = [n \in 0 .. m |-> acc[n]]
      /\ acc[0] = <<>>
      /\ \A n \in 1 .. m : acc[n] = NextEnding(acc[n - 1], s, n)
      /\ NormalizeEndings(s) = acc[m]
  BY <1>2 DEF EndingLoop
<1> HIDE DEF m
<1>4. <<>> \in A
  OBVIOUS
<1>5. ASSUME NEW x \in A, NEW n \in 1 .. m PROVE NextEnding(x, s, n) \in A
  <2>1. "\n" \in Parts \ {"\r"}
    BY DEF Parts, Blanks
  <2>2. \A c \in Parts \ {"\r"} : Append(x, c) \in A
    BY <1>5, AppendProperties
  <2>3. s[n] # "\r" => s[n] \in Parts \ {"\r"}
    BY <1>1
  <2> HIDE DEF A
  <2> QED BY <2>1, <2>2, <2>3 DEF NextEnding
<1> HIDE DEF A
<1>6. \A n \in 1 .. m : acc[n - 1] \in A => acc[n] \in A
  BY <1>3, <1>5
<1>7. acc \in [0 .. m -> A]
  BY <1>1, <1>3, <1>4, <1>6, Invariance
<1>8. acc[m] \in A
  BY <1>1, <1>7
<1>9. ASSUME NEW t \in A PROVE "\r" \notin Range(t)
  BY <1>9 DEF A, Range
<1> QED BY <1>3, <1>8, <1>9

\* A body as parsing and writing leave it (document.go:127, 272): without
\* returns, and without empty lines in front.
CleanText(s) ==
  /\ s \in Text
  /\ "\r" \notin Range(s)
  /\ s # <<>> => s[1] # "\n"

\* CleanBody makes it so of any text.
LEMMA CleanBodyFacts ==
  ASSUME NEW s \in Text
  PROVE  CleanText(CleanBody(s))
<1> DEFINE clean == NormalizeEndings(s)
           m == Len(clean)
           other == {i \in DOMAIN clean : clean[i] # "\n"} \cup {m + 1}
           lo == Min(other)
           t == SubSeq(clean, lo, m)
<1>1. clean \in Text /\ "\r" \notin Range(clean)
  BY NormalizeType, NormalizeClean
<1>2. CleanBody(s) = t
  BY DEF CleanBody
<1> HIDE DEF clean
<1>3. DOMAIN clean = 1 .. m /\ m \in Nat
  BY <1>1 DEF Text
<1>4. /\ other \in SUBSET Nat /\ other # {}
      /\ \A i \in other : /\ i \in Nat \ {0} /\ i <= m + 1
                          /\ i <= m => clean[i] # "\n"
  BY <1>3
<1> HIDE DEF other, m
<1>5. lo \in Nat \ {0} /\ lo <= m + 1 /\ (lo <= m => clean[lo] # "\n")
  BY <1>4, MinFacts
<1> HIDE DEF lo
<1>6. /\ t \in Text /\ Len(t) = IF lo <= m THEN m - lo + 1 ELSE 0
      /\ \A k \in 1 .. m - lo + 1 : t[k] = clean[k + lo - 1]
  <2>1. m \in Int /\ m <= Len(clean)
    BY <1>3 DEF m
  <2> QED BY <1>1, <1>5, <2>1, SubText
<1> HIDE DEF t
<1>7. Len(t) = m - lo + 1 /\ Len(t) \in Nat
  BY <1>3, <1>5, <1>6
<1>8. ASSUME NEW k \in 1 .. Len(t) PROVE t[k] \in Range(clean)
  <2>1. k \in 1 .. m - lo + 1 /\ k + lo - 1 \in 1 .. m
    BY <1>3, <1>5, <1>7
  <2> QED BY <1>3, <1>6, <2>1 DEF Range
<1>9. DOMAIN t = 1 .. Len(t)
  BY <1>6 DEF Text
<1>10. "\r" \notin Range(t)
  BY <1>1, <1>8, <1>9 DEF Range
<1>11. ASSUME t # <<>> PROVE t[1] # "\n"
  <2>1. Len(t) # 0
    BY <1>6, <1>11 DEF Text
  <2>2. lo <= m /\ 1 \in 1 .. m - lo + 1 /\ 1 + lo - 1 = lo
    BY <1>3, <1>5, <1>7, <2>1
  <2> QED BY <1>5, <1>6, <2>2
<1> QED BY <1>2, <1>6, <1>10, <1>11 DEF CleanText

\* What is clean stays as it is, and so it does behind the empty line that
\* MarshalSkillDocument (document.go:292) puts in front.
LEMMA CleanAgain ==
  ASSUME NEW t, CleanText(t)
  PROVE  CleanBody(t) = t /\ CleanBody(<<"\n">> \o t) = t
<1> DEFINE m == Len(t)
           u == <<"\n">> \o t
<1>1. /\ t \in Seq(Parts) /\ t \in Text /\ m \in Nat /\ DOMAIN t = 1 .. m
      /\ "\r" \notin Range(t) /\ (m > 0 => t[1] # "\n")
  BY DEF CleanText, Text
<1>2. <<"\n">> \in Seq(Parts) /\ Len(<<"\n">>) = 1 /\ <<"\n">>[1] = "\n"
  <2>1. "\n" \in Parts
    BY DEF Parts, Blanks
  <2> QED BY <2>1
<1>3. /\ u \in Text /\ Len(u) = m + 1 /\ u[1] = "\n" /\ DOMAIN u = 1 .. m + 1
      /\ \A k \in 1 .. m : u[k + 1] = t[k]
  <2> DEFINE nl == <<"\n">>
  <2>1. nl \in Seq(Parts) /\ Len(nl) = 1 /\ nl[1] = "\n"
    BY <1>2
  <2> HIDE DEF nl, m
  <2>2. /\ nl \o t \in Seq(Parts) /\ Len(nl \o t) = Len(nl) + Len(t)
        /\ \A i \in 1 .. Len(nl) + Len(t) :
             (nl \o t)[i] = IF i <= Len(nl) THEN nl[i] ELSE t[i - Len(nl)]
    BY <1>1, <2>1, ConcatProperties
  <2>3. Len(nl \o t) = m + 1
    BY <1>1, <2>1, <2>2 DEF m
  <2>4. (nl \o t)[1] = "\n"
    BY <1>1, <2>1, <2>2 DEF m
  <2>5. ASSUME NEW k \in 1 .. m PROVE (nl \o t)[k + 1] = t[k]
    <3>1. k + 1 \in 1 .. Len(nl) + Len(t) /\ ~ (k + 1 <= Len(nl)) /\ k + 1 - Len(nl) = k
      BY <1>1, <2>1 DEF m
    <3> QED BY <2>2, <3>1
  <2> QED BY <1>1, <2>2, <2>3, <2>4, <2>5 DEF nl, Text
<1> HIDE DEF m, u
<1>4. "\r" \notin Range(u)
  <2>1. ASSUME NEW k \in 1 .. m + 1 PROVE u[k] # "\r"
    <3>1. CASE k = 1
      BY <1>3, <3>1
    <3>2. CASE k # 1
      <4>1. k - 1 \in 1 .. m /\ k - 1 + 1 = k
        BY <1>1, <3>2
      <4> QED BY <1>1, <1>3, <4>1 DEF Range
    <3> QED BY <3>1, <3>2
  <2> QED BY <1>3, <2>1 DEF Range
<1>5. NormalizeEndings(t) = t /\ NormalizeEndings(u) = u
  BY <1>1, <1>3, <1>4, NormalizeAgain
<1>6. CleanBody(t) = t
  <2> DEFINE other == {i \in DOMAIN t : t[i] # "\n"} \cup {m + 1}
  <2>1. CleanBody(t) = SubSeq(t, Min(other), m)
    BY <1>5 DEF CleanBody, m
  <2>2. 1 \in other
    BY <1>1
  <2>3. other \in SUBSET Nat /\ \A i \in other : i \in Nat /\ 1 <= i
    BY <1>1
  <2> HIDE DEF other
  <2>4. Min(other) \in other /\ Min(other) <= 1
    BY <2>2, <2>3, MinFacts
  <2>5. Min(other) = 1
    <3>1. Min(other) \in Nat /\ 1 <= Min(other)
      BY <2>3, <2>4
    <3> QED BY <2>4, <3>1
  <2> QED BY <1>1, <2>1, <2>5, SubSeqFull DEF m
<1>7. CleanBody(u) = t
  <2> DEFINE other == {i \in DOMAIN u : u[i] # "\n"} \cup {m + 2}
  <2>0. m + 1 + 1 = m + 2
    BY <1>1
  <2>1. CleanBody(u) = SubSeq(u, Min(other), m + 1)
    BY <1>3, <1>5, <2>0 DEF CleanBody
  <2>2. 2 \in other
    <3>1. CASE m = 0
      BY <3>1
    <3>2. CASE m # 0
      <4>1. 2 \in 1 .. m + 1 /\ 1 \in 1 .. m /\ 1 + 1 = 2
        BY <1>1, <3>2
      <4>2. u[2] # "\n"
        BY <1>1, <1>3, <4>1
      <4> QED BY <1>3, <4>1, <4>2
    <3> QED BY <3>1, <3>2
  <2>3. other \in SUBSET Nat /\ \A i \in other : i \in Nat /\ 2 <= i
    BY <1>1, <1>3
  <2> HIDE DEF other
  <2>4. Min(other) \in other /\ Min(other) <= 2
    BY <2>2, <2>3, MinFacts
  <2>5. Min(other) = 2
    <3>1. Min(other) \in Nat /\ 2 <= Min(other)
      BY <2>3, <2>4
    <3> QED BY <2>4, <3>1
  <2> DEFINE n == m + 1
             v == SubSeq(u, 2, n)
  <2>6. n \in Nat /\ n - 2 + 1 = m /\ n <= Len(u) /\ (2 <= n <=> m > 0)
    BY <1>1, <1>3
  <2> HIDE DEF n
  <2>7. /\ v \in Text /\ Len(v) = IF 2 <= n THEN n - 2 + 1 ELSE 0
        /\ \A k \in 1 .. n - 2 + 1 : v[k] = u[k + 2 - 1]
    <3>1. 2 \in Nat \ {0} /\ n \in Int
      BY <2>6
    <3> QED BY <1>3, <2>6, <3>1, SubText
  <2> HIDE DEF v
  <2>8. Len(v) = m /\ n - 2 + 1 = m
    BY <1>1, <2>6, <2>7
  <2>9. \A k \in 1 .. m : v[k] = t[k]
    <3>1. ASSUME NEW k \in 1 .. m PROVE v[k] = t[k]
      <4>1. k + 2 - 1 = k + 1
        BY <1>1
      <4> QED BY <1>3, <2>7, <2>8, <4>1
    <3> QED BY <3>1
  <2>10. v = [k \in 1 .. m |-> v[k]] /\ t = [k \in 1 .. m |-> t[k]]
    BY <1>1, <2>7, <2>8 DEF Text
  <2>11. v = t
    BY <2>9, <2>10
  <2> QED BY <2>1, <2>5, <2>11 DEF v, n
<1> QED BY <1>6, <1>7 DEF u

\* One line end more (document.go:294) spoils nothing.
LEMMA EndedFacts ==
  ASSUME NEW t, CleanText(t), t # <<>>
  PROVE  /\ CleanText(Ended(t)) /\ Ended(t) # <<>>
         /\ Ended(Ended(t)) = Ended(t)
<1> DEFINE m == Len(t)
           u == Append(t, "\n")
<1>1. t \in Seq(Parts) /\ t \in Text /\ "\r" \notin Range(t) /\ t[1] # "\n"
  BY DEF CleanText, Text
<1>2. m \in Nat /\ m > 0 /\ "\n" \in Parts
  <2>1. m \in Nat /\ m # 0
    BY <1>1
  <2> QED BY <2>1 DEF Parts, Blanks
<1>3. CASE Last(t) = "\n"
  BY <1>3 DEF Ended
<1>4. CASE Last(t) # "\n"
  <2>1. /\ u \in Seq(Parts) /\ Len(u) = m + 1 /\ u[m + 1] = "\n"
        /\ \A i \in 1 .. m : u[i] = t[i]
    BY <1>1, <1>2, AppendProperties
  <2>2. Range(u) = Range(t) \cup {"\n"}
    BY <1>1, <1>2, RangeOfAppend
  <2>3. Ended(t) = u
    BY <1>4 DEF Ended
  <2> HIDE DEF u, m
  <2>4. u[1] = t[1] /\ u # <<>> /\ u \in Text
    BY <1>2, <2>1 DEF Text
  <2>5. Last(u) = "\n"
    BY <2>1 DEF Last
  <2>6. Ended(u) = u
    BY <2>5 DEF Ended
  <2>7. "\r" \notin Range(u)
    BY <1>1, <2>2
  <2> QED BY <1>1, <2>3, <2>4, <2>6, <2>7 DEF CleanText
<1> QED BY <1>3, <1>4

\* Where the line of s ends that begins at i.
LineEnds(s, i, e) ==
  /\ e \in Nat /\ i <= e /\ e <= Len(s) + 1
  /\ \A j \in i .. e - 1 : s[j] # "\n"
  /\ e <= Len(s) => s[e] = "\n"

\* It ends at one place, and what stands in front of it is the line
\* (document.go:763).
LEMMA LineOf ==
  ASSUME NEW s \in Text, NEW i \in 1 .. Len(s) + 1
  PROVE  /\ \E e : LineEnds(s, i, e)
         /\ \A e : LineEnds(s, i, e) => LineAt(s, i) = TrimSpace(SubSeq(s, i, e - 1))
<1> DEFINE m == Len(s)
           ends == {j \in i .. m : s[j] = "\n"} \cup {m + 1}
           lo == Min(ends)
<1>1. m \in Nat /\ i \in Nat /\ 1 <= i /\ i <= m + 1
  BY DEF Text
<1>2. LineAt(s, i) = TrimSpace(SubSeq(s, i, lo - 1))
  BY DEF LineAt
<1>3. /\ ends \in SUBSET Nat /\ ends # {}
      /\ \A j \in ends : /\ j \in Nat /\ i <= j /\ j <= m + 1
                         /\ j <= m => s[j] = "\n"
      /\ \A j \in i .. m : s[j] = "\n" => j \in ends
      /\ m + 1 \in ends
  BY <1>1
<1> HIDE DEF m, ends
<1>4. /\ lo \in Nat /\ i <= lo /\ lo <= m + 1 /\ (lo <= m => s[lo] = "\n")
      /\ \A j \in ends : lo <= j
  BY <1>3, MinFacts
<1> HIDE DEF lo
<1>5. ASSUME NEW j \in i .. lo - 1 PROVE s[j] # "\n"
  <2>1. j \in Nat /\ j < lo /\ j \in i .. m
    BY <1>1, <1>4
  <2>2. j \notin ends
    BY <1>4, <2>1
  <2> QED BY <1>3, <2>1, <2>2
<1>6. LineEnds(s, i, lo)
  BY <1>4, <1>5 DEF LineEnds, m
<1>7. ASSUME NEW e, LineEnds(s, i, e) PROVE e = lo
  <2>1. /\ e \in Nat /\ i <= e /\ e <= m + 1 /\ (e <= m => s[e] = "\n")
        /\ \A j \in i .. e - 1 : s[j] # "\n"
    BY <1>7 DEF LineEnds, m
  <2>2. ~ (e < lo)
    <3>1. ASSUME e < lo PROVE FALSE
      <4>1. e <= m /\ e \in i .. lo - 1
        BY <1>1, <1>4, <2>1, <3>1
      <4> QED BY <1>5, <2>1, <4>1
    <3> QED BY <3>1
  <2>3. ~ (lo < e)
    <3>1. ASSUME lo < e PROVE FALSE
      <4>1. lo <= m /\ lo \in i .. e - 1
        BY <1>1, <1>4, <2>1, <3>1
      <4> QED BY <1>4, <2>1, <4>1
    <3> QED BY <3>1
  <2> QED BY <1>4, <2>1, <2>2, <2>3
<1> QED BY <1>2, <1>6, <1>7

\* A heading is three characters long at least, so that none is in nothing.
LEMMA NoHeading == TrimSpace(<<>>) = <<>> /\ ~ IsHeading(<<>>)
<1>1. <<>> \in Text /\ SolidEnds(<<>>)
  BY DEF Text, SolidEnds
<1>2. TrimSpace(<<>>) = <<>>
  BY <1>1, SolidIsTrimmed DEF Trimmed
<1>3. ~ IsHeading(<<>>)
  BY DEF IsHeading, IsPrefix
<1> QED BY <1>2, <1>3

\* A line end more at the end makes no heading and changes none.
LEMMA HeadingOfEnded ==
  ASSUME NEW t \in Text
  PROVE  FirstHeading(Ended(t)) = FirstHeading(t)
<1> DEFINE m == Len(t)
           u == Append(t, "\n")
<1>1. t \in Seq(Parts) /\ m \in Nat /\ DOMAIN t = 1 .. m /\ "\n" \in Parts
  <2>1. "\n" \in Parts
    BY DEF Parts, Blanks
  <2> QED BY <2>1 DEF Text
<1>2. /\ u \in Text /\ Len(u) = m + 1 /\ u[m + 1] = "\n"
      /\ \A i \in 1 .. m : u[i] = t[i]
  BY <1>1, AppendProperties DEF Text
<1>3. DOMAIN u = 1 .. m + 1
  BY <1>2 DEF Text
<1> HIDE DEF m, u
<1>4. /\ \A i \in LineStarts(t) : i \in 1 .. m + 1
      /\ LineStarts(u) = LineStarts(t) \cup {m + 2}
  <2>1. \A i \in LineStarts(t) : i \in 1 .. m + 1
    BY <1>1 DEF LineStarts
  <2>2. {j \in DOMAIN u : u[j] = "\n"} = {j \in DOMAIN t : t[j] = "\n"} \cup {m + 1}
    BY <1>1, <1>2, <1>3
  <2>3. m + 1 + 1 = m + 2
    BY <1>1
  <2> QED BY <2>1, <2>2, <2>3 DEF LineStarts
<1>5. ASSUME NEW i \in 1 .. m + 1 PROVE LineAt(u, i) = LineAt(t, i)
  <2>0. i \in Nat /\ 1 <= i /\ i <= m + 1
    BY <1>1
  <2>1. PICK e : LineEnds(t, i, e)
    BY LineOf DEF m
  <2>2. /\ e \in Nat /\ i <= e /\ e <= m + 1
        /\ \A j \in i .. e - 1 : t[j] # "\n"
        /\ e <= m => t[e] = "\n"
    BY <2>1 DEF LineEnds, m
  <2>3. \A j \in i .. e - 1 : u[j] # "\n"
    <3>1. ASSUME NEW j \in i .. e - 1 PROVE u[j] # "\n"
      <4>1. j \in 1 .. m
        BY <1>1, <2>0, <2>2
      <4> QED BY <1>2, <2>2, <4>1
    <3> QED BY <3>1
  <2>4. e <= m + 1 => u[e] = "\n"
    <3>1. CASE e <= m
      <4>1. e \in 1 .. m
        BY <1>1, <2>0, <2>2, <3>1
      <4> QED BY <1>2, <2>2, <4>1
    <3>2. CASE ~ (e <= m)
      <4>1. e = m + 1
        BY <1>1, <2>2, <3>2
      <4> QED BY <1>2, <4>1
    <3> QED BY <3>1, <3>2
  <2>5. LineEnds(u, i, e)
    <3>1. e <= Len(u) + 1
      BY <1>1, <1>2, <2>2
    <3> QED BY <1>2, <2>2, <2>3, <2>4, <3>1 DEF LineEnds
  <2>6. i \in 1 .. Len(u) + 1
    BY <1>1, <1>2, <2>0
  <2>7. LineAt(u, i) = TrimSpace(SubSeq(u, i, e - 1))
    BY <1>2, <2>5, <2>6, LineOf
  <2>8. LineAt(t, i) = TrimSpace(SubSeq(t, i, e - 1))
    BY <2>1, LineOf DEF m
  <2> DEFINE k == e - 1
             v == SubSeq(u, i, k)
             w == SubSeq(t, i, k)
  <2>9. k \in Int /\ k <= m /\ k <= Len(u) /\ i \in Nat \ {0}
    BY <1>1, <1>2, <2>0, <2>2
  <2> HIDE DEF k
  <2>10. /\ v \in Text /\ Len(v) = IF i <= k THEN k - i + 1 ELSE 0
         /\ \A n \in 1 .. k - i + 1 : v[n] = u[n + i - 1]
    BY <1>2, <2>9, SubText
  <2>11. /\ w \in Text /\ Len(w) = IF i <= k THEN k - i + 1 ELSE 0
         /\ \A n \in 1 .. k - i + 1 : w[n] = t[n + i - 1]
    BY <2>9, SubText DEF m
  <2> HIDE DEF v, w
  <2>12. Len(v) = Len(w) /\ Len(v) \in Nat
    BY <2>10, <2>11 DEF Text
  <2>13. ASSUME NEW n \in 1 .. Len(v) PROVE v[n] = w[n]
    <3>1. n \in 1 .. k - i + 1 /\ n + i - 1 \in 1 .. m
      BY <1>1, <2>9, <2>10
    <3> QED BY <1>2, <2>10, <2>11, <3>1
  <2>14. v = [n \in 1 .. Len(v) |-> v[n]] /\ w = [n \in 1 .. Len(v) |-> w[n]]
    BY <2>10, <2>11, <2>12 DEF Text
  <2>15. v = w
    BY <2>13, <2>14
  <2> QED BY <2>7, <2>8, <2>15 DEF v, w, k
<1>6. ~ IsHeading(LineAt(u, m + 2))
  <2> DEFINE e == m + 2
  <2>1. e \in Nat /\ e \in 1 .. Len(u) + 1 /\ e <= Len(u) + 1 /\ ~ (e <= Len(u))
        /\ e - 1 = m + 1
    BY <1>1, <1>2
  <2>2. \A j \in e .. e - 1 : FALSE
    BY <2>1
  <2>3. LineEnds(u, e, e)
    BY <2>1, <2>2 DEF LineEnds
  <2>4. LineAt(u, e) = TrimSpace(SubSeq(u, e, e - 1))
    BY <1>2, <2>1, <2>3, LineOf
  <2>5. SubSeq(u, e, e - 1) = <<>>
    <3> DEFINE n == e - 1
    <3>1. n \in Int /\ n <= Len(u) /\ e \in Nat \ {0} /\ ~ (e <= n)
      BY <1>1, <1>2, <2>1
    <3> HIDE DEF e, n
    <3>2. SubSeq(u, e, n) \in Text /\ Len(SubSeq(u, e, n)) = 0
      BY <1>2, <3>1, SubText
    <3>3. SubSeq(u, e, n) = <<>>
      BY <3>2 DEF Text
    <3> QED BY <3>3 DEF n
  <2> QED BY <2>4, <2>5, NoHeading
<1>7. {i \in LineStarts(u) : IsHeading(LineAt(u, i))}
        = {i \in LineStarts(t) : IsHeading(LineAt(t, i))}
  <2>1. \A i \in LineStarts(t) : LineAt(u, i) = LineAt(t, i)
    BY <1>4, <1>5
  <2> QED BY <1>4, <1>6, <2>1
<1>8. FirstHeading(u) = FirstHeading(t)
  <2> DEFINE at == {i \in LineStarts(t) : IsHeading(LineAt(t, i))}
  <2>1. CASE at = {}
    BY <1>7, <2>1 DEF FirstHeading
  <2>2. CASE at # {}
    <3>1. \A i \in at : i \in LineStarts(t) /\ i \in Nat
      BY <1>1, <1>4
    <3>2. at = {i \in LineStarts(u) : IsHeading(LineAt(u, i))}
      BY <1>7
    <3>3. FirstHeading(u) = LET line == LineAt(u, Min(at))
                            IN  TrimSpace(SubSeq(line, 3, Len(line)))
      BY <2>2, <3>2 DEF FirstHeading
    <3>4. FirstHeading(t) = LET line == LineAt(t, Min(at))
                            IN  TrimSpace(SubSeq(line, 3, Len(line)))
      BY <2>2 DEF FirstHeading
    <3> HIDE DEF at
    <3>5. Min(at) \in LineStarts(t)
      BY <2>2, <3>1, MinFacts
    <3>6. LineAt(u, Min(at)) = LineAt(t, Min(at))
      BY <1>4, <1>5, <3>5
    <3> QED BY <3>3, <3>4, <3>6
  <2> QED BY <2>1, <2>2
<1> QED BY <1>8 DEF Ended, u

\* Two characters side by side.
LEMMA PairFacts ==
  ASSUME NEW X, NEW a \in X, NEW b \in X
  PROVE  /\ <<a, b>> \in Seq(X) /\ Len(<<a, b>>) = 2
         /\ <<a, b>>[1] = a /\ <<a, b>>[2] = b
         /\ Range(<<a, b>>) = {a, b}
BY DEF Range

\* Behind a heading there is nothing or a line end (document.go:281-284).
BeginsLine(rest) == rest # <<>> => rest[1] = "\n"

\* What is written in front of a body as a heading (document.go:282) is read as
\* the display name (document.go:137).
LEMMA HeadingPut ==
  ASSUME NEW name \in Text, Trimmed(name), name # <<>>, "\n" \notin Range(name),
         NEW rest \in Text, BeginsLine(rest)
  PROVE  /\ <<"#", " ">> \o name \o rest \in Text
         /\ <<"#", " ">> \o name \o rest # <<>>
         /\ (<<"#", " ">> \o name \o rest)[1] # "\n"
         /\ Range(<<"#", " ">> \o name \o rest)
              \subseteq {"#", " "} \cup Range(name) \cup Range(rest)
         /\ FirstHeading(<<"#", " ">> \o name \o rest) = name
<1> DEFINE sharp == "#"
           blank == " "
           two == <<sharp, blank>>
           h == two \o name
           b == h \o rest
           p == Len(name)
           q == Len(rest)
<1>0. /\ sharp \in Parts /\ blank \in Parts /\ sharp \notin Blanks
      /\ sharp # "\n" /\ blank # "\n"
  BY DEF Parts, Blanks
<1> HIDE DEF sharp, blank
<1>1. /\ two \in Seq(Parts) /\ Len(two) = 2 /\ two[1] = sharp /\ two[2] = blank
      /\ Range(two) = {sharp, blank}
  BY <1>0, PairFacts
<1>2. /\ name \in Seq(Parts) /\ p \in Nat /\ p > 0 /\ DOMAIN name = 1 .. p
      /\ rest \in Seq(Parts) /\ q \in Nat /\ DOMAIN rest = 1 .. q
      /\ q > 0 => rest[1] = "\n"
  BY DEF Text, BeginsLine
<1>3. name[p] \notin Blanks
  <2>1. SolidEnds(name)
    BY TrimFacts DEF Trimmed
  <2> QED BY <2>1 DEF SolidEnds
<1> HIDE DEF two
<1>4. /\ h \in Seq(Parts) /\ Len(h) = p + 2 /\ h[1] = sharp /\ h[2] = blank
      /\ \A i \in 1 .. p : h[i + 2] = name[i]
      /\ Range(h) = {sharp, blank} \cup Range(name)
  <2>0. two \in Seq(Parts) /\ name \in Seq(Parts)
    BY <1>1, <1>2
  <2>1. /\ h \in Seq(Parts) /\ Len(h) = Len(two) + Len(name)
        /\ \A i \in 1 .. Len(two) + Len(name) :
             h[i] = IF i <= Len(two) THEN two[i] ELSE name[i - Len(two)]
    BY <2>0, ConcatProperties
  <2>2. Range(h) = {sharp, blank} \cup Range(name)
    <3>1. Range(h) = Range(two) \cup Range(name)
      BY <2>0, ConcatFacts
    <3> QED BY <1>1, <3>1
  <2> HIDE DEF h
  <2>3. Len(h) = p + 2 /\ 1 \in 1 .. p + 2 /\ 2 \in 1 .. p + 2
    BY <1>1, <1>2, <2>1
  <2>4. \A i \in 1 .. p + 2 : h[i] = IF i <= 2 THEN two[i] ELSE name[i - 2]
    BY <1>1, <1>2, <2>1
  <2>5. h[1] = sharp /\ h[2] = blank
    BY <1>1, <2>3, <2>4
  <2>6. ASSUME NEW i \in 1 .. p PROVE h[i + 2] = name[i]
    <3>1. i + 2 \in 1 .. p + 2 /\ ~ (i + 2 <= 2) /\ i + 2 - 2 = i
      BY <1>2
    <3> QED BY <2>4, <3>1
  <2> QED BY <2>1, <2>2, <2>3, <2>5, <2>6
<1> HIDE DEF h, p, q
<1>5. /\ b \in Seq(Parts) /\ Len(b) = p + 2 + q
      /\ \A i \in 1 .. p + 2 : b[i] = h[i]
      /\ q > 0 => b[p + 3] = "\n"
      /\ Range(b) = {sharp, blank} \cup Range(name) \cup Range(rest)
  <2>0. h \in Seq(Parts) /\ rest \in Seq(Parts)
    BY <1>2, <1>4
  <2>1. /\ b \in Seq(Parts) /\ Len(b) = Len(h) + Len(rest)
        /\ \A i \in 1 .. Len(h) + Len(rest) :
             b[i] = IF i <= Len(h) THEN h[i] ELSE rest[i - Len(h)]
    BY <2>0, ConcatProperties
  <2>2. Range(b) = {sharp, blank} \cup Range(name) \cup Range(rest)
    <3>1. Range(b) = Range(h) \cup Range(rest)
      BY <2>0, ConcatFacts
    <3> QED BY <1>4, <3>1
  <2> HIDE DEF b
  <2>3. /\ Len(b) = p + 2 + q
        /\ \A i \in 1 .. p + 2 + q : b[i] = IF i <= p + 2 THEN h[i] ELSE rest[i - (p + 2)]
    BY <1>4, <2>1 DEF q
  <2>4. \A i \in 1 .. p + 2 : b[i] = h[i]
    <3>1. \A i \in 1 .. p + 2 : i \in 1 .. p + 2 + q /\ i <= p + 2
      BY <1>2
    <3> QED BY <2>3, <3>1
  <2>5. q > 0 => b[p + 3] = "\n"
    <3>1. ASSUME q > 0 PROVE b[p + 3] = "\n"
      <4>1. p + 3 \in 1 .. p + 2 + q /\ ~ (p + 3 <= p + 2) /\ p + 3 - (p + 2) = 1
        BY <1>2, <3>1
      <4> QED BY <1>2, <2>3, <3>1, <4>1
    <3> QED BY <3>1
  <2> QED BY <2>1, <2>2, <2>3, <2>4, <2>5
<1> HIDE DEF b
<1>6. b \in Text /\ h \in Text
  BY <1>4, <1>5 DEF Text
<1>7. b # <<>> /\ b[1] = sharp
  <2>1. 1 \in 1 .. p + 2 /\ Len(b) # 0
    BY <1>2, <1>5
  <2> QED BY <1>4, <1>5, <2>1
<1>8. \A i \in 1 .. p + 2 : b[i] # "\n"
  <2>1. "\n" \notin Range(h)
    BY <1>0, <1>4
  <2>2. DOMAIN h = 1 .. p + 2
    BY <1>4
  <2> QED BY <1>5, <2>1, <2>2 DEF Range
<1>9. LineAt(b, 1) = h
  <2> DEFINE e == p + 3
  <2>1. /\ e \in Nat /\ 1 <= e /\ e <= Len(b) + 1 /\ e - 1 = p + 2
        /\ 1 \in 1 .. Len(b) + 1 /\ (e <= Len(b) => q > 0)
    BY <1>2, <1>5
  <2>2. LineEnds(b, 1, e)
    BY <1>5, <1>8, <2>1 DEF LineEnds
  <2>3. LineAt(b, 1) = TrimSpace(SubSeq(b, 1, e - 1))
    BY <1>6, <2>1, <2>2, LineOf
  <2> DEFINE v == SubSeq(b, 1, p + 2)
  <2>4. v \in Seq(Parts) /\ Len(v) = p + 2 /\ \A i \in 1 .. p + 2 : v[i] = b[i]
    <3> DEFINE k == p + 2
    <3>1. k \in Int /\ k <= Len(b) /\ 1 \in Nat \ {0} /\ 1 <= k /\ k - 1 + 1 = k
      BY <1>2, <1>5
    <3> HIDE DEF k
    <3>2. /\ SubSeq(b, 1, k) \in Text /\ Len(SubSeq(b, 1, k)) = k
          /\ \A n \in 1 .. k : SubSeq(b, 1, k)[n] = b[n + 1 - 1]
      BY <1>6, <3>1, SubText
    <3>3. \A n \in 1 .. k : n + 1 - 1 = n
      BY <3>1
    <3>4. \A n \in 1 .. k : SubSeq(b, 1, k)[n] = b[n]
      BY <3>2, <3>3
    <3> QED BY <3>2, <3>4 DEF Text, k
  <2> HIDE DEF v
  <2>5. v = [i \in 1 .. p + 2 |-> v[i]] /\ h = [i \in 1 .. p + 2 |-> h[i]]
    BY <1>4, <2>4
  <2>6. v = h
    BY <1>5, <2>4, <2>5
  <2>7. SolidEnds(h)
    <3>1. p \in 1 .. p
      BY <1>2
    <3>2. h[p + 2] = name[p]
      BY <1>4, <3>1
    <3> QED BY <1>0, <1>3, <1>4, <3>2 DEF SolidEnds
  <2>8. TrimSpace(h) = h
    BY <1>6, <2>7, SolidIsTrimmed DEF Trimmed
  <2> QED BY <2>1, <2>3, <2>6, <2>8 DEF v
<1>10. IsHeading(h)
  <2>1. Len(two) <= Len(h)
    BY <1>1, <1>2, <1>4
  <2>2. SubSeq(two, 1, 2) = two
    BY <1>1, SubSeqFull
  <2> DEFINE v == SubSeq(h, 1, 2)
  <2>3. v \in Seq(Parts) /\ Len(v) = 2 /\ \A i \in 1 .. 2 : v[i] = h[i]
    <3> DEFINE k == 2
    <3>1. k \in Int /\ k <= Len(h) /\ 1 \in Nat \ {0} /\ 1 <= k /\ k - 1 + 1 = k
          /\ k \in Nat
      BY <1>2, <1>4
    <3>0. k = 2
      OBVIOUS
    <3> HIDE DEF k
    <3>2. /\ SubSeq(h, 1, k) \in Text /\ Len(SubSeq(h, 1, k)) = k
          /\ \A n \in 1 .. k : SubSeq(h, 1, k)[n] = h[n + 1 - 1]
      BY <1>6, <3>1, SubText
    <3>3. \A n \in 1 .. k : n + 1 - 1 = n
      BY <3>1
    <3>4. \A n \in 1 .. k : SubSeq(h, 1, k)[n] = h[n]
      BY <3>2, <3>3
    <3> QED BY <3>2, <3>4, <3>0 DEF Text
  <2> HIDE DEF v
  <2>4. v = [i \in 1 .. 2 |-> v[i]] /\ two = [i \in 1 .. 2 |-> two[i]]
    BY <1>1, <2>3
  <2>5. \A i \in 1 .. 2 : v[i] = two[i]
    BY <1>1, <1>4, <2>3
  <2>6. v = two
    BY <2>4, <2>5
  <2>7. IsPrefix(two, h)
    BY <1>1, <2>1, <2>2, <2>6 DEF IsPrefix, v
  <2> QED BY <2>7 DEF IsHeading, two, sharp, blank
<1>11. SubSeq(h, 3, Len(h)) = name
  <2> DEFINE k == p + 2
             v == SubSeq(h, 3, k)
  <2>1. k \in Int /\ k <= Len(h) /\ 3 \in Nat \ {0} /\ 3 <= k /\ k - 3 + 1 = p
        /\ Len(h) = k
    BY <1>2, <1>4
  <2> HIDE DEF k
  <2>2. v \in Text /\ Len(v) = p /\ \A n \in 1 .. p : v[n] = h[n + 3 - 1]
    BY <1>6, <2>1, SubText
  <2>3. \A n \in 1 .. p : n + 3 - 1 = n + 2
    BY <1>2
  <2>4. \A n \in 1 .. p : v[n] = name[n]
    BY <1>4, <2>2, <2>3
  <2> HIDE DEF v
  <2>5. v = [n \in 1 .. p |-> v[n]] /\ name = [n \in 1 .. p |-> name[n]]
    BY <1>2, <2>2 DEF Text, p
  <2>6. v = name
    BY <2>4, <2>5
  <2> QED BY <2>1, <2>6 DEF v
<1>12. FirstHeading(b) = name
  <2> DEFINE at == {i \in LineStarts(b) : IsHeading(LineAt(b, i))}
  <2>1. 1 \in at
    BY <1>9, <1>10 DEF LineStarts
  <2>2. at \in SUBSET Nat /\ \A i \in at : i \in Nat /\ 1 <= i
    <3>1. \A i \in at : i \in 1 .. Len(b) + 1
      BY <1>6, LineType
    <3> QED BY <1>2, <1>5, <3>1
  <2>3. FirstHeading(b) = LET line == LineAt(b, Min(at))
                          IN  TrimSpace(SubSeq(line, 3, Len(line)))
    BY <2>1 DEF FirstHeading
  <2> HIDE DEF at
  <2>4. Min(at) = 1
    <3>1. Min(at) \in at /\ Min(at) <= 1
      BY <2>1, <2>2, MinFacts
    <3>2. Min(at) \in Nat /\ 1 <= Min(at)
      BY <2>2, <3>1
    <3> QED BY <3>1, <3>2
  <2>5. FirstHeading(b) = TrimSpace(SubSeq(h, 3, Len(h)))
    BY <1>9, <2>3, <2>4
  <2> QED BY <1>11, <2>5 DEF Trimmed
<1> QED BY <1>0, <1>5, <1>6, <1>7, <1>12 DEF b, h, two, sharp, blank

\* What is valid and can be written as it is.
Sound(d) == d \in Documents /\ ValidateSkillDocument(d) /\ Writable(d)

\* The heading of the body itself, and the one that MarshalSkillDocument
\* (document.go:276) puts in front if it has none.
LEMMA BodyFacts ==
  ASSUME NEW d, Sound(d)
  PROVE  LET own == FirstHeading(CleanBody(d.body))
         IN  /\ CleanText(BodyOf(d))
             /\ own # <<>> => FirstHeading(BodyOf(d)) = own
             /\ own = <<>> /\ d.displayName \in {<<>>, d.name} =>
                  FirstHeading(BodyOf(d)) = <<>>
             /\ own = <<>> /\ d.displayName \notin {<<>>, d.name} =>
                  FirstHeading(BodyOf(d)) = d.displayName
<1> DEFINE body == CleanBody(d.body)
           name == d.displayName
           own == FirstHeading(body)
           nl == "\n"
           two == <<nl, nl>>
           rest == IF body = <<>> THEN <<>> ELSE two \o body
<1>1. /\ d.body \in Text /\ name \in Text /\ Trimmed(name)
      /\ Range(name) \cap {"\n", "\r"} = {}
  BY DEF Sound, Documents, ValidateSkillDocument, Writable
<1>2. CleanText(body)
  BY <1>1, CleanBodyFacts
<1>3. BodyOf(d) = IF ~ NeedsHeading(d, body) THEN body
                  ELSE <<"#", " ">> \o name \o rest
  BY DEF BodyOf
<1>4. NeedsHeading(d, body) <=> own = <<>> /\ name \notin {<<>>, d.name}
  BY DEF NeedsHeading
<1>5. nl = "\n" /\ nl \in Parts /\ nl # "\r"
  BY DEF Parts, Blanks
<1> HIDE DEF body, name, own, nl
<1>6. /\ rest \in Text /\ BeginsLine(rest) /\ "\r" \notin Range(rest)
  <2>1. CASE body = <<>>
    BY <2>1 DEF Text, BeginsLine, Range
  <2>2. CASE body # <<>>
    <3>1. body \in Seq(Parts) /\ "\r" \notin Range(body)
      BY <1>2 DEF CleanText, Text
    <3>2. /\ two \in Seq(Parts) /\ Len(two) = 2 /\ two[1] = nl
          /\ Range(two) = {nl, nl}
      BY <1>5, PairFacts
    <3> HIDE DEF two
    <3>3. /\ two \o body \in Seq(Parts) /\ Len(two \o body) = Len(two) + Len(body)
          /\ \A i \in 1 .. Len(two) + Len(body) :
               (two \o body)[i] = IF i <= Len(two) THEN two[i]
                                  ELSE body[i - Len(two)]
      BY <3>1, <3>2, ConcatProperties
    <3>4. Range(two \o body) = Range(two) \cup Range(body)
      BY <3>1, <3>2, ConcatFacts
    <3>5. (two \o body)[1] = nl
      <4>1. Len(body) \in Nat /\ 1 \in 1 .. Len(two) + Len(body) /\ 1 <= Len(two)
        BY <3>1, <3>2
      <4> QED BY <3>2, <3>3, <4>1
    <3>6. "\r" \notin Range(two \o body)
      BY <1>5, <3>1, <3>2, <3>4
    <3>7. rest = two \o body
      BY <2>2
    <3> HIDE DEF rest
    <3> QED BY <1>5, <3>3, <3>5, <3>6, <3>7 DEF Text, BeginsLine
  <2> QED BY <2>1, <2>2
<1>7. CASE ~ NeedsHeading(d, body)
  BY <1>2, <1>3, <1>4, <1>7 DEF own, body, name
<1>8. CASE NeedsHeading(d, body)
  <2> HIDE DEF rest
  <2> DEFINE t == <<"#", " ">> \o name \o rest
  <2>1. /\ t \in Text /\ t # <<>> /\ t[1] # "\n"
        /\ Range(t) \subseteq {"#", " "} \cup Range(name) \cup Range(rest)
        /\ FirstHeading(t) = name
    BY <1>1, <1>4, <1>6, <1>8, HeadingPut
  <2> HIDE DEF t
  <2>2. "\r" \notin Range(t)
    BY <1>1, <1>6, <2>1
  <2>3. CleanText(t)
    BY <2>1, <2>2 DEF CleanText
  <2>4. BodyOf(d) = t
    BY <1>3, <1>8 DEF t
  <2> QED BY <1>4, <1>8, <2>1, <2>3, <2>4 DEF own, body, name
<1> QED BY <1>7, <1>8

\* The body that ParseSkillDocument finds in what was written.
BodyAgain(d) == IF BodyOf(d) = <<>> THEN <<>> ELSE Ended(BodyOf(d))

\* The body as it is written, behind an empty line.
Below(body) == IF body = <<>> THEN <<>> ELSE <<"\n">> \o Ended(body)

\* The empty line and the line end are taken off or kept, and the headings are
\* the same.
LEMMA BodyReadAgain ==
  ASSUME NEW d, Sound(d)
  PROVE  LET e == BodyAgain(d)
         IN  /\ Below(BodyOf(d)) \in Text /\ CleanBody(Below(BodyOf(d))) = e
             /\ e \in Text /\ CleanBody(e) = e /\ Below(e) = Below(BodyOf(d))
             /\ FirstHeading(e) = FirstHeading(BodyOf(d))
<1> DEFINE b == BodyOf(d)
           e == BodyAgain(d)
<1>1. CleanText(b)
  BY BodyFacts
<1>2. e = IF b = <<>> THEN <<>> ELSE Ended(b)
  BY DEF BodyAgain
<1> HIDE DEF b, e
<1>3. CASE b = <<>>
  <2>1. <<>> \in Text
    BY DEF Text
  <2> QED BY <1>1, <1>2, <1>3, <2>1, CleanAgain DEF Below, b, e
<1>4. CASE b # <<>>
  <2>1. e = Ended(b) /\ CleanText(e) /\ e # <<>> /\ Ended(e) = e
    BY <1>1, <1>2, <1>4, EndedFacts
  <2>2. CleanBody(e) = e /\ CleanBody(<<"\n">> \o e) = e
    BY <2>1, CleanAgain
  <2>3. FirstHeading(e) = FirstHeading(b)
    BY <1>1, <2>1, HeadingOfEnded DEF CleanText
  <2>4. Below(b) = <<"\n">> \o e /\ Below(e) = <<"\n">> \o e
    BY <1>4, <2>1 DEF Below
  <2>5. <<"\n">> \o e \in Text
    <3> DEFINE nl == "\n"
               one == <<nl>>
    <3>1. nl \in Parts
      BY DEF Parts, Blanks
    <3> HIDE DEF nl
    <3>2. one \in Seq(Parts)
      BY <3>1
    <3> HIDE DEF one
    <3>3. one \o e \in Seq(Parts)
      BY <2>1, <3>2, ConcatProperties DEF CleanText, Text
    <3> QED BY <3>3 DEF one, nl, Text
  <2> QED BY <2>1, <2>2, <2>3, <2>4, <2>5 DEF CleanText, b, e
<1> QED BY <1>3, <1>4

\* The display name that is read is the one the document is shown by.
LEMMA ShownAgain ==
  ASSUME NEW d, Sound(d)
  PROVE  /\ DisplayName(d.name, BodyAgain(d)) = Shown(d)
         /\ FirstHeading(BodyAgain(d)) = <<>> => TrimSpace(Shown(d)) = d.name
<1> DEFINE name == d.displayName
           own == FirstHeading(CleanBody(d.body))
           got == FirstHeading(BodyAgain(d))
<1>1. /\ d.name \in Text /\ name \in Text /\ ValidName(d.name)
      /\ Len(name) <= MaxDisplayName /\ Len(d.name) <= MaxDisplayName
  <2>1. d.name \in Text /\ name \in Text
    BY DEF Sound, Documents
  <2>2. ValidName(d.name) /\ Len(name) <= MaxDisplayName /\ Len(d.name) <= MaxName
    BY DEF Sound, ValidateSkillDocument, ValidName
  <2>3. Len(d.name) \in Nat /\ MaxName \in Nat /\ MaxDisplayName \in Nat
        /\ MaxName <= MaxDisplayName
    BY <2>1, LimitsAssumption DEF Text
  <2> QED BY <2>1, <2>2, <2>3
<1>2. /\ own # <<>> => got = own
      /\ own = <<>> /\ name \in {<<>>, d.name} => got = <<>>
      /\ own = <<>> /\ name \notin {<<>>, d.name} => got = name
  BY BodyFacts, BodyReadAgain
<1>3. DisplayName(d.name, BodyAgain(d))
        = Cut(IF got = <<>> THEN d.name ELSE got, MaxDisplayName)
  BY DEF DisplayName, Title
<1>4. Shown(d) = IF own # <<>> THEN Cut(own, MaxDisplayName)
                 ELSE IF name # <<>> THEN name ELSE d.name
  BY DEF Shown
<1>5. Cut(name, MaxDisplayName) = name /\ Cut(d.name, MaxDisplayName) = d.name
  BY <1>1, LimitsAssumption, CutFacts DEF Text
<1>6. TrimSpace(d.name) = d.name
  BY <1>1, NameIsTrimmed DEF Trimmed
<1> HIDE DEF name, own, got
<1>7. CASE own # <<>>
  BY <1>2, <1>3, <1>4, <1>7 DEF got
<1>8. CASE own = <<>> /\ name \in {<<>>, d.name}
  <2>1. got = <<>> /\ Shown(d) = d.name
    BY <1>2, <1>4, <1>8
  <2> QED BY <1>3, <1>5, <1>6, <2>1 DEF got
<1>9. CASE own = <<>> /\ name \notin {<<>>, d.name}
  <2>1. got = name /\ got # <<>> /\ Shown(d) = name
    BY <1>2, <1>4, <1>9
  <2> QED BY <1>3, <1>5, <2>1 DEF got
<1> QED BY <1>7, <1>8, <1>9

----------------------------------------------------------------------------
(* What was written is read back *)

\* None of the texts written is taken for the end of the frontmatter
\* (document.go:332).
LEMMA WrittenWithoutRules ==
  ASSUME NEW d, Sound(d), NEW i \in DOMAIN FieldsOf(d)
  PROVE  ~ HasRule(FieldsOf(d)[i].value)
<1>1. Encoded(d).fields = FieldsOf(d)
  BY DEF Encoded
<1> QED BY <1>1 DEF Sound, Writable, Ruled

\* What is valid and not too large is written (document.go:223-307).
LEMMA WrittenIs ==
  ASSUME NEW d, ValidateSkillDocument(d), ~ TooLarge(d)
  PROVE  MarshalSkillDocument(d) = [ok |-> TRUE, content |-> Encoded(d)]
BY DEF MarshalSkillDocument

\* What is written, with the body below an empty line.
LEMMA EncodedParts ==
  ASSUME NEW d
  PROVE  Encoded(d) = [fault |-> FALSE, bom |-> FALSE, fields |-> FieldsOf(d),
                       body |-> Below(BodyOf(d))]
BY DEF Encoded, Below

\* It is a content that can be parsed.
LEMMA WrittenType ==
  ASSUME NEW d, Sound(d)
  PROVE  Encoded(d) \in Contents
<1>1. FieldsOf(d) \in Fields
  BY WrittenFields DEF Sound
<1>2. Below(BodyOf(d)) \in Text
  BY BodyReadAgain
<1> QED BY <1>1, <1>2, EncodedParts DEF Contents, Fields

\* What ParseSkillDocument (document.go:45) makes of it.
DocumentAgain(d) ==
  [name |-> d.name, displayName |-> Shown(d), description |-> d.description,
   insert |-> <<NormalizeSkillInsert(d.insert)>>, arguments |-> d.arguments,
   tags |-> d.tags, body |-> BodyAgain(d), custom |-> d.custom]

\* It is accepted, and nothing is reported but of an empty body or a display
\* name that was cut.
LEMMA ReadAgain ==
  ASSUME NEW d, Sound(d), ~ TooLarge(d), NEW expected \in {<<>>, d.name}
  PROVE  LET again == ParseSkillDocument(Encoded(d), expected)
         IN  /\ Accepted(Encoded(d), expected)
             /\ again.document = DocumentAgain(d)
             /\ again.warnings \subseteq {"body", "displayName"}
<1> DEFINE c == Encoded(d)
           f == FieldsOf(d)
           w == Below(BodyOf(d))
           x == NormalizeSkillInsert(d.insert)
           e == BodyAgain(d)
<1>1. d \in Documents /\ ValidateSkillDocument(d)
  BY DEF Sound
<1>2. c.fault = FALSE /\ c.bom = FALSE /\ c.fields = f /\ c.body = w
  BY EncodedParts
<1>3. SplitFrontmatter(c) = c
  <2>1. {i \in DOMAIN f : HasRule(f[i].value)} = {}
    BY WrittenWithoutRules
  <2> HIDE DEF c, f
  <2> QED BY <1>2, <2>1 DEF SplitFrontmatter
<1>4. /\ Field(f, "arguments") = ArgumentsValue(d.arguments)
      /\ Field(f, "custom") = d.custom
      /\ Field(f, "description") = Str(d.description)
      /\ Field(f, "insert") = Str(<<x>>)
      /\ Field(f, "name") = Str(d.name)
      /\ Field(f, "tags") = TagsValue(d.tags)
  BY <1>1, WrittenFields
<1>5. /\ d.name \in Text /\ ValidName(d.name) /\ Trimmed(d.name)
      /\ d.description \in Text /\ ValidDescription(d.description)
      /\ Trimmed(d.description)
  <2>1. d.name \in Text /\ d.description \in Text
    BY <1>1 DEF Documents
  <2>2. ValidName(d.name) /\ ValidDescription(d.description)
    BY <1>1 DEF ValidateSkillDocument
  <2>3. Trimmed(d.name)
    BY <2>1, <2>2, NameIsTrimmed
  <2> QED BY <2>1, <2>2, <2>3 DEF ValidDescription
<1>6. ParseInsert(Field(f, "insert")) = [output |-> x, warnings |-> {}]
  <2>1. x \in {"instructions", "user-message"}
    BY <1>1, EntriesFacts
  <2> HIDE DEF x, f
  <2> QED BY <1>4, <2>1, InsertAgain
<1>7. ParseArguments(Field(f, "arguments"))
        = [output |-> d.arguments, warnings |-> {}]
  <2> DEFINE args == d.arguments
  <2>1. /\ args \in Seq(Arguments) /\ Len(args) <= MaxArguments
        /\ \A i \in DOMAIN args : ValidArgument(args[i])
        /\ IsInjective(NamesIn(args))
    BY <1>1 DEF Documents, ValidateSkillDocument
  <2> HIDE DEF args, f
  <2>2. ParseArguments(ArgumentsValue(args)) = [output |-> args, warnings |-> {}]
    BY <2>1, ArgumentsAgain
  <2> QED BY <1>4, <2>2 DEF args
<1>8. ParseTags(Field(f, "tags")) = [output |-> d.tags, warnings |-> {}]
  <2> DEFINE tags == d.tags
  <2>1. /\ tags \in Seq(Text) /\ Len(tags) <= MaxTags
        /\ \A i \in DOMAIN tags : ValidTag(tags[i])
        /\ IsInjective(tags)
    BY <1>1 DEF Documents, ValidateSkillDocument
  <2> HIDE DEF tags, f
  <2>2. ParseTags(TagsValue(tags)) = [output |-> tags, warnings |-> {}]
    BY <2>1, TagsAgain
  <2> QED BY <1>4, <2>2 DEF tags
<1> HIDE DEF c, f, w, x, e
<1>9. /\ Required(f, "name") = d.name
      /\ Required(f, "description") = d.description
      /\ PaddedRequired(f) = {}
  <2>1. \A s : Str(s).kind = "string" /\ Str(s).text = s
    BY DEF Str
  <2>2. Required(f, "name") = d.name /\ Required(f, "description") = d.description
    BY <1>4, <1>5, <2>1 DEF Required, Trimmed
  <2>3. PaddedRequired(f) = {}
    BY <1>4, <1>5, <2>1 DEF PaddedRequired
  <2> QED BY <2>2, <2>3
<1>10. CleanBody(w) = e
  BY BodyReadAgain DEF w, e
<1>11. DisplayName(d.name, e) = Shown(d)
  BY ShownAgain DEF e
<1>12. TrimSpace(expected) \in {<<>>, d.name}
  BY <1>5, NoHeading DEF Trimmed
<1> DEFINE doc == [name |-> d.name, displayName |-> DisplayName(d.name, e),
                   description |-> d.description,
                   insert |-> <<x>>, arguments |-> d.arguments,
                   tags |-> d.tags, body |-> e, custom |-> d.custom]
           again == ParseSkillDocument(c, expected)
<1>l. ~ (Bytes(c) > MaxSkillDocumentBytes)
  BY DEF TooLarge, c
<1>13. /\ again.ok = TRUE /\ again.document = doc
       /\ again.warnings =
            (IF Nothing(e) THEN {"body"} ELSE {})
              \cup (IF Len(Title(d.name, e)) > MaxDisplayName
                    THEN {"displayName"} ELSE {})
  BY <1>l, <1>2, <1>3, <1>4, <1>5, <1>6, <1>7, <1>8, <1>9, <1>10, <1>12
     DEF ParseSkillDocument
<1>14. again.warnings \subseteq {"body", "displayName"}
  BY <1>13
<1>15. again # None
  BY <1>13 DEF None
<1>16. again.document = DocumentAgain(d)
  BY <1>11, <1>13 DEF DocumentAgain, x, e
<1> QED BY <1>14, <1>15, <1>16 DEF Accepted, c

\* An answer to a writing is what the document gave.
LEMMA MarshalAnswered ==
  ASSUME CallInv, Answered("marshal"), Writable(call.document)
  PROVE  /\ Sound(call.document) /\ ~ TooLarge(call.document)
         /\ out = [ok |-> TRUE, content |-> Encoded(call.document)]
<1> DEFINE d == call.document
<1>1. d \in Documents
  BY InputsAssumption DEF CallInv, Answered
<1>2. out # None /\ out = MarshalSkillDocument(d)
  BY DEF CallInv, Answered
<1>3. ValidateSkillDocument(d) /\ ~ TooLarge(d)
  BY <1>2 DEF MarshalSkillDocument
<1>4. out = [ok |-> TRUE, content |-> Encoded(d)]
  BY <1>2, <1>3, WrittenIs
<1> QED BY <1>1, <1>3, <1>4 DEF Sound

\* What MarshalSkillDocument (document.go:223) writes is read back by
\* ParseSkillDocument, for documents and limits of any size.
THEOREM WrittenReadsBack == Spec => []ReadsBack
<1>1. CallInv => ReadsBack
  <2>1. SUFFICES ASSUME CallInv, Answered("marshal"), Writable(call.document)
                 PROVE  LET d == call.document
                            again == ParseSkillDocument(out.content, d.name)
                        IN  /\ again # None
                            /\ again.document =
                                 [d EXCEPT !.displayName = Shown(d),
                                           !.insert = <<NormalizeSkillInsert(@)>>,
                                           !.body = IF BodyOf(d) = <<>> THEN <<>>
                                                    ELSE Ended(BodyOf(d))]
                            /\ again.warnings \subseteq {"body", "displayName"}
    BY DEF ReadsBack
  <2> DEFINE d == call.document
             again == ParseSkillDocument(out.content, d.name)
  <2>2. Sound(d) /\ ~ TooLarge(d) /\ out.content = Encoded(d)
    BY <2>1, MarshalAnswered
  <2> HIDE DEF d
  <2>3. /\ again # None /\ again.document = DocumentAgain(d)
        /\ again.warnings \subseteq {"body", "displayName"}
    BY <2>2, ReadAgain DEF Accepted
  <2>4. DocumentAgain(d) =
          [d EXCEPT !.displayName = Shown(d),
                    !.insert = <<NormalizeSkillInsert(@)>>,
                    !.body = IF BodyOf(d) = <<>> THEN <<>> ELSE Ended(BodyOf(d))]
    <3> DEFINE shown == Shown(d)
               insert == <<NormalizeSkillInsert(d.insert)>>
               body == BodyAgain(d)
               s == [d EXCEPT !.displayName = shown, !.insert = insert,
                              !.body = body]
    <3>1. d \in [name : {d.name}, displayName : {d.displayName},
                description : {d.description}, insert : {d.insert},
                arguments : {d.arguments}, tags : {d.tags}, body : {d.body},
                custom : {d.custom}]
      BY <2>2 DEF Sound, Documents
    <3>2. DocumentAgain(d) =
            [name |-> d.name, displayName |-> shown,
             description |-> d.description, insert |-> insert,
             arguments |-> d.arguments, tags |-> d.tags, body |-> body,
             custom |-> d.custom]
      BY DEF DocumentAgain
    <3> HIDE DEF shown, insert, body
    <3>3. s \in [name : {d.name}, displayName : {shown},
                description : {d.description}, insert : {insert},
                arguments : {d.arguments}, tags : {d.tags}, body : {body},
                custom : {d.custom}]
      BY <3>1
    <3> HIDE DEF s
    <3>4. s = DocumentAgain(d)
      BY <3>2, <3>3
    <3> QED BY <3>4 DEF s, shown, insert, body, BodyAgain
  <2> QED BY <2>3, <2>4 DEF d
<1> QED BY <1>1, CallInvariant, PTL

\* The fields that are written again are the same (document.go:236-264).
LEMMA FieldsAgain ==
  ASSUME NEW d, Sound(d)
  PROVE  FieldsOf(Recut(DocumentAgain(d))) = FieldsOf(d)
<1> DEFINE g == Recut(DocumentAgain(d))
           x == NormalizeSkillInsert(d.insert)
<1>1. /\ g.name = d.name /\ g.description = d.description /\ g.insert = <<x>>
      /\ g.arguments = d.arguments /\ g.tags = d.tags /\ g.custom = d.custom
  BY DEF Recut, DocumentAgain
<1>2. NormalizeSkillInsert(<<x>>) = x
  <2>1. x \in {"instructions", "user-message"}
    BY EntriesFacts DEF Sound
  <2> HIDE DEF x
  <2> QED BY <2>1, InsertAgain
<1> HIDE DEF g, x
<1>3. EntriesOf(g) = EntriesOf(d)
  BY <1>1, <1>2 DEF EntriesOf, x
<1> QED BY <1>3 DEF FieldsOf, g

\* No heading is put in front once more.
LEMMA BodyOnceMore ==
  ASSUME NEW d, Sound(d)
  PROVE  BodyOf(Recut(DocumentAgain(d))) = BodyAgain(d)
<1> DEFINE g == Recut(DocumentAgain(d))
           e == BodyAgain(d)
<1>1. g.body = e /\ g.name = d.name /\ g.displayName = TrimSpace(Shown(d))
  BY DEF Recut, DocumentAgain
<1>2. CleanBody(e) = e
  BY BodyReadAgain
<1>3. FirstHeading(e) = <<>> => TrimSpace(Shown(d)) = d.name
  BY ShownAgain
<1> HIDE DEF g, e
<1>4. ~ NeedsHeading(g, e)
  BY <1>1, <1>3 DEF NeedsHeading
<1> QED BY <1>1, <1>2, <1>4 DEF BodyOf, g, e

\* `Canonical' (document.go:218): what was written and read is written the same
\* way again, for documents and limits of any size.
THEOREM WrittenIsCanonical == Spec => []IsCanonical
<1>1. CallInv => IsCanonical
  <2>1. SUFFICES ASSUME CallInv, Answered("marshal"), Writable(call.document)
                 PROVE  LET again == ParseSkillDocument(out.content, <<>>)
                        IN  MarshalSkillDocument(Recut(again.document)) = out
    BY DEF IsCanonical
  <2> DEFINE d == call.document
             c == Encoded(d)
             again == ParseSkillDocument(c, <<>>)
             g == Recut(DocumentAgain(d))
  <2>2. /\ Sound(d) /\ ~ TooLarge(d)
        /\ out.content = c /\ out = [ok |-> TRUE, content |-> c]
    BY <2>1, MarshalAnswered
  <2> HIDE DEF d
  <2>3. Accepted(c, <<>>) /\ again.document = DocumentAgain(d)
    BY <2>2, ReadAgain
  <2>4. ValidateSkillDocument(g)
    <3>1. c \in Contents
      BY <2>2, WrittenType
    <3> HIDE DEF c
    <3>2. ValidateSkillDocument(Recut(again.document))
      BY <2>3, <3>1, ParsedIsValid
    <3> QED BY <2>3, <3>2
  <2>5. Encoded(g) = c
    <3>1. FieldsOf(g) = FieldsOf(d)
      BY <2>2, FieldsAgain
    <3>2. BodyOf(g) = BodyAgain(d)
      BY <2>2, BodyOnceMore
    <3>3. Below(BodyAgain(d)) = Below(BodyOf(d))
      BY <2>2, BodyReadAgain
    <3> HIDE DEF g
    <3> QED BY <3>1, <3>2, <3>3, EncodedParts
  <2>6. MarshalSkillDocument(g) = [ok |-> TRUE, content |-> Encoded(g)]
    <3>1. ~ TooLarge(g)
      BY <2>2, <2>5 DEF TooLarge
    <3> QED BY <2>4, <3>1, WrittenIs
  <2> HIDE DEF c, g
  <2>7. MarshalSkillDocument(g) = out
    BY <2>2, <2>5, <2>6
  <2> QED BY <2>2, <2>3, <2>7 DEF c, g, d
<1> QED BY <1>1, CallInvariant, PTL

----------------------------------------------------------------------------
(* Rendering *)

\* RenderSkillBody (artifact.go:35), as RenderSkillDocument (document.go:172)
\* and Runtime.RenderSkill call it, does in two passes what README.md:104-106
\* says of one, for bodies and values of any size.
THEOREM RenderedInOnePass == Spec => []RendersInOnePass
<1>1. ASSUME NEW s \in Text, NEW args \in Seq(Arguments), NEW vals,
             \A n \in DOMAIN vals : vals[n] \in Text,
             ~ Nested(s),
             \A n \in DOMAIN FirstDeclared(args, vals) :
               ~ HasBraces(FirstDeclared(args, vals)[n])
      PROVE  RenderSkillBody(s, args, vals) = OnePass(s, FirstDeclared(args, vals))
  <2>1. \A i \in DOMAIN args : args[i].default \in Seq(Parts)
    <3>1. \A arg \in Arguments : arg.default \in Seq(Parts)
      BY DEF Arguments, Text
    <3>2. \A i \in DOMAIN args : args[i] \in Arguments
      OBVIOUS
    <3> QED BY <3>1, <3>2
  <2>2. s \in Seq(Parts) /\ \A n \in DOMAIN vals : vals[n] \in Seq(Parts)
    BY <1>1 DEF Text
  <2> QED BY <1>1, <2>1, <2>2, BodyRenderedInOnePass
<1>2. CallInv => RendersInOnePass
  <2> SUFFICES ASSUME CallInv PROVE RendersInOnePass
    OBVIOUS
  <2>1. ASSUME Answered("body")
        PROVE  LET declared == FirstDeclared(call.arguments, call.values)
               IN  \/ Nested(call.body)
                   \/ \E n \in DOMAIN declared : HasBraces(declared[n])
                   \/ out.rendered = OnePass(call.body, declared)
    <3>1. /\ call.body \in Text /\ call.arguments \in Seq(Arguments)
          /\ \A n \in DOMAIN call.values : call.values[n] \in Text
      BY <2>1, InputsAssumption DEF CallInv, Answered
    <3>2. out = RenderedBody(call)
      BY <2>1 DEF CallInv, Answered
    <3>3. out.rendered = RenderSkillBody(call.body, call.arguments, call.values)
      BY <3>2 DEF RenderedBody
    <3> QED BY <1>1, <3>1, <3>3
  <2>2. ASSUME Answered("document")
        PROVE  LET d == call.document
                   declared == FirstDeclared(d.arguments, call.values)
               IN  \/ Nested(d.body)
                   \/ \E n \in DOMAIN declared : HasBraces(declared[n])
                   \/ out.rendered = OnePass(d.body, declared)
    <3> DEFINE d == call.document
    <3>1. d \in Documents /\ \A n \in DOMAIN call.values : call.values[n] \in Text
      BY <2>2, InputsAssumption DEF CallInv, Answered
    <3>2. d.body \in Text /\ d.arguments \in Seq(Arguments)
      BY <3>1 DEF Documents
    <3>3. out = RenderSkillDocument(d, call.values) /\ out # None
      BY <2>2 DEF CallInv, Answered
    <3>4. out.rendered = RenderSkillBody(d.body, d.arguments, call.values)
      BY <3>3 DEF RenderSkillDocument
    <3> HIDE DEF d
    <3>5. \/ Nested(d.body)
          \/ \E n \in DOMAIN FirstDeclared(d.arguments, call.values) :
               HasBraces(FirstDeclared(d.arguments, call.values)[n])
          \/ out.rendered = OnePass(d.body, FirstDeclared(d.arguments, call.values))
      BY <1>1, <3>1, <3>2, <3>4
    <3> QED BY <3>5 DEF d
  <2> QED BY <2>1, <2>2 DEF RendersInOnePass
<1> QED BY <1>2, CallInvariant, PTL

=============================================================================
