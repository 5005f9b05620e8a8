------------------------------ MODULE RenderBody ------------------------------
(***************************************************************************)
(* internal/catalog/artifact.go: RenderSkillBody replaces $name and        *)
(* {{name}} in a body by the values of declared arguments, in two passes.  *)
(*                                                                         *)
(* A text is a sequence of letters, digits, blanks, dollars, backslashes   *)
(* and double braces; single braces, which no placeholder has, are left    *)
(* out.  A name is a text.                                                 *)
(***************************************************************************)
EXTENDS Naturals, SequencesExt

CONSTANTS
  Letters, Digits   \* what identifiers are made of (`_' is a letter)

Blanks == {" ", "\n", "\r"}

\* Double braces are one part of a text.
Opening == "{{"
Closing == "}}"

ASSUME AlphabetAssumption ==
  (Letters \cup Digits) \cap (Blanks \cup {"$", "\\", Opening, Closing}) = {}

----------------------------------------------------------------------------
(* Arguments *)

TrimSpace(s) ==
  LET solid == {i \in DOMAIN s : s[i] \notin Blanks}
  IN  IF solid = {} THEN <<>> ELSE SubSeq(s, Min(solid), Max(solid))

IsValidSkillArgumentName(name) ==
  /\ name # <<>>
  /\ name[1] \in Letters
  /\ Range(name) \subseteq Letters \cup Digits

NameOf(arg) == TrimSpace(arg.name)

\* Mutant: the last declaration of a name wins.
LastWins(args, i) ==
  /\ IsValidSkillArgumentName(NameOf(args[i]))
  /\ \A j \in i + 1 .. Len(args) : NameOf(args[j]) # NameOf(args[i])

\* A declaration counts if its name is an identifier not declared before.
Counts(args, i) ==
  /\ IsValidSkillArgumentName(NameOf(args[i]))
  /\ \A j \in 1 .. i - 1 : NameOf(args[j]) # NameOf(args[i])

\* What names stand for: the value supplied, or else the default.
Declared(args, vals) ==
  LET counting == {i \in DOMAIN args : Counts(args, i)}
      at(n) == CHOOSE i \in counting : NameOf(args[i]) = n
  IN  [n \in {NameOf(args[i]) : i \in counting} |->
         IF n \in DOMAIN vals THEN vals[n] ELSE args[at(n)].default]

----------------------------------------------------------------------------
(* Placeholders *)

\* scanIdentifier: the identifier that s begins with, or <<>>.
Identifier(s) ==
  LET runs == {n \in DOMAIN s : IsValidSkillArgumentName(SubSeq(s, 1, n))}
  IN  IF runs = {} THEN <<>> ELSE SubSeq(s, 1, Max(runs))

\* The regular expression \{\{\s*([A-Za-z_][A-Za-z0-9_]*)\s*\}\}: after
\* braces there is a name from a to b, and at e they end.
Braced(s, a, b, e) ==
  /\ b < e /\ s[e] = Closing
  /\ IsValidSkillArgumentName(SubSeq(s, a, b))
  /\ \A i \in 2 .. a - 1 : s[i] \in Blanks
  /\ \A i \in b + 1 .. e - 1 : s[i] \in Blanks

(***************************************************************************)
(* What is written for the beginning of a text that is not empty, how much *)
(* of the text it stands for, and the names that are reported: for a text  *)
(* that begins with a placeholder, an escaped dollar, or neither.          *)
(***************************************************************************)
Filled(s, name, size, declared) ==
  IF name \in DOMAIN declared
  THEN [text |-> declared[name], size |-> size, unknown |-> {}]
  ELSE [text |-> SubSeq(s, 1, size), size |-> size, unknown |-> {name}]

Unescaped == [text |-> <<"$">>, size |-> 2, unknown |-> {}]

Kept(s) == [text |-> <<s[1]>>, size |-> 1, unknown |-> {}]

\* One round of the loop of renderDollarPlaceholders.
DollarStep(s, declared) ==
  LET name == Identifier(Tail(s))
  IN  IF s[1] = "\\" /\ Len(s) > 1 /\ s[2] = "$" THEN Unescaped
      ELSE IF s[1] = "$" /\ name # <<>> THEN Filled(s, name, 1 + Len(name), declared)
      ELSE Kept(s)

\* One match of the regular expression, or none.
BracesStep(s, declared) ==
  LET places == 2 .. Len(s)
      found == {p \in places \X places \X places : Braced(s, p[1], p[2], p[3])}
  IN  IF s[1] # Opening \/ found = {} THEN Kept(s)
      ELSE LET p == CHOOSE p \in found : TRUE
           IN  Filled(s, SubSeq(s, p[1], p[2]), p[3], declared)

----------------------------------------------------------------------------
(* The two passes *)

Rest(s, i) == SubSeq(s, i, Len(s))

\* A pass through a text, with what it would do at every place of it.
Pass(steps) ==
  LET from[i \in 1 .. Len(steps) + 1] ==
        IF i > Len(steps) THEN [text |-> <<>>, unknown |-> {}]
        ELSE LET step == steps[i]
                 rest == from[i + step.size]
             IN  [text |-> step.text \o rest.text,
                  unknown |-> step.unknown \cup rest.unknown]
  IN  from[1]

RenderDollarPlaceholders(s, declared) ==
  Pass([i \in DOMAIN s |-> DollarStep(Rest(s, i), declared)])

RenderDoubleBracePlaceholders(s, declared) ==
  Pass([i \in DOMAIN s |-> BracesStep(Rest(s, i), declared)])

\* Mutant: the passes change places.
BracesFirst(s, declared) ==
  LET first == RenderDoubleBracePlaceholders(s, declared)
      second == RenderDollarPlaceholders(first.text, declared)
  IN  [text |-> second.text, unknown |-> first.unknown \cup second.unknown]

\* Braces are replaced in what the dollars have left behind.
TwoPasses(s, declared) ==
  LET first == RenderDollarPlaceholders(s, declared)
      second == RenderDoubleBracePlaceholders(first.text, declared)
  IN  [text |-> second.text, unknown |-> first.unknown \cup second.unknown]

RenderSkillBody(s, args, vals) == TwoPasses(s, Declared(args, vals))

----------------------------------------------------------------------------
(* The documentation *)

(***************************************************************************)
(* What README.md:104-106 says of a body, read literally: every place of   *)
(* the body is an escape, a placeholder of either form, or itself.         *)
(***************************************************************************)
OneStep(s, declared) ==
  IF s[1] = Opening THEN BracesStep(s, declared) ELSE DollarStep(s, declared)

OnePass(s, declared) ==
  Pass([i \in DOMAIN s |-> OneStep(Rest(s, i), declared)])

\* The value of a name by the documentation: of its first declaration.
FirstDeclared(args, vals) ==
  LET names == {NameOf(args[i]) : i \in DOMAIN args}
      default(n) == args[Min({i \in DOMAIN args : NameOf(args[i]) = n})].default
  IN  [n \in {m \in names : IsValidSkillArgumentName(m)} |->
         IF n \in DOMAIN vals THEN vals[n] ELSE default(n)]

\* A dollar between braces, with which a value could become a placeholder.
Nested(s) ==
  \E i, j, k \in DOMAIN s :
    i < j /\ j < k /\ s[i] = Opening /\ s[j] = "$" /\ s[k] = Closing

HasBraces(s) == Range(s) \cap {Opening, Closing} # {}

============================================================================
