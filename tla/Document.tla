------------------------------ MODULE Document ------------------------------
(***************************************************************************)
(* document.go: SKILL.md documents, parsed, validated, rendered and        *)
(* written.  These are pure functions: a behaviour is one call.            *)
(*                                                                         *)
(* A text is a sequence of parts as in RenderBody, and of hyphens, hashes, *)
(* line feeds, returns and rules (three hyphens); every part counts as one *)
(* byte.  What the YAML library makes of a frontmatter is a sequence of    *)
(* fields, each a key with a value: text, list, object, null or something  *)
(* else.  A text of several lines is written as a block, and the keys of   *)
(* an object are sorted, as the library writes them.                       *)
(***************************************************************************)
EXTENDS RenderBody, Selections

CONSTANTS
  Calls,            \* what is asked for
  MaxName, MaxDescription, MaxDisplayName,   \* limits of document.go:22-33
  MaxArguments, MaxArgumentText, MaxTags, MaxTag,
  MaxSkillDocumentBytes

Parts ==
  Letters \cup Digits \cup Blanks
    \cup {"-", "#", "---", "$", "\\", Opening, Closing,
          "instructions", "INSTRUCTIONS", "user-message"}

Text == Seq(Parts)

----------------------------------------------------------------------------
(* What the functions are called with *)

Str(s) == [kind |-> "string", text |-> s]
List(items) == [kind |-> "list", items |-> items]
Object(name, description, default) ==
  [kind |-> "object", name |-> name, description |-> description,
   default |-> default]
Null == [kind |-> "null"]
Junk == [kind |-> "junk"]

Scalars == [kind : {"string"}, text : Text] \cup {Null, Junk}

ListItems ==
  Scalars \cup [kind : {"object"}, name : Scalars, description : Scalars,
                default : Scalars]

Values == ListItems \cup [kind : {"list"}, items : Seq(ListItems)]

Keys == {"arguments", "custom", "description", "insert", "name", "tags"}

Entries == [key : Keys, value : Values]

Contents ==
  [fault : BOOLEAN, bom : BOOLEAN, body : Text, fields : Seq(Entries)]

Arguments == [name : Text, description : Text, default : Text]

Documents ==
  [name : Text, displayName : Text, description : Text, insert : Text,
   arguments : Seq(Arguments), tags : Seq(Text), body : Text, custom : Values]

ASSUME InputsAssumption ==
  \A c \in Calls :
    /\ c.op \in {"parse", "marshal", "document", "body"}
    /\ c.op = "parse" => c.content \in Contents /\ c.expected \in Text
    /\ c.op \in {"marshal", "document"} => c.document \in Documents
    /\ c.op = "body" => c.body \in Text /\ c.arguments \in Seq(Arguments)
    /\ c.op \in {"document", "body"} =>
         \A n \in DOMAIN c.values : c.values[n] \in Text

ASSUME LimitsAssumption ==
  /\ {MaxName, MaxDescription, MaxDisplayName, MaxArguments, MaxArgumentText,
      MaxTags, MaxTag, MaxSkillDocumentBytes} \subseteq Nat
  /\ MaxName <= MaxDisplayName

----------------------------------------------------------------------------

VARIABLES call, out

vars == <<call, out>>

\* An error; no answer yet.
None == [ok |-> FALSE]

Init == call \in Calls /\ out = None

----------------------------------------------------------------------------
(* Texts *)

Trimmed(s) == TrimSpace(s) = s

Cut(s, max) == IF Len(s) > max THEN SubSeq(s, 1, max) ELSE s

LineStarts(s) == {1} \cup {i + 1 : i \in {j \in DOMAIN s : s[j] = "\n"}}

\* The line of s that begins at i, trimmed.
LineAt(s, i) ==
  LET ends == {j \in i .. Len(s) : s[j] = "\n"} \cup {Len(s) + 1}
  IN  TrimSpace(SubSeq(s, i, Min(ends) - 1))

IsHeading(line) == IsPrefix(<<"#", " ">>, line)

FirstHeading(s) ==
  LET at == {i \in LineStarts(s) : IsHeading(LineAt(s, i))}
  IN  IF at = {} THEN <<>>
      ELSE LET line == LineAt(s, Min(at)) IN TrimSpace(SubSeq(line, 3, Len(line)))

\* Both ReplaceAll: a return goes if a line feed follows, or becomes one.
NormalizeEndings(s) ==
  LET acc[n \in 0 .. Len(s)] ==
        CASE n = 0 -> <<>>
          [] n > 0 /\ s[n] # "\r" -> Append(acc[n - 1], s[n])
          [] OTHER -> IF n < Len(s) /\ s[n + 1] = "\n" THEN acc[n - 1]
                      ELSE Append(acc[n - 1], "\n")
  IN  acc[Len(s)]

\* Mutant: empty lines in front of the body are kept.
BodyAsItIs(s) == NormalizeEndings(s)

CleanBody(s) ==
  LET clean == NormalizeEndings(s)
      other == {i \in DOMAIN clean : clean[i] # "\n"} \cup {Len(clean) + 1}
  IN  SubSeq(clean, Min(other), Len(clean))

----------------------------------------------------------------------------
(* Validation *)

ValidName(s) ==
  /\ s # <<>>
  /\ Len(s) <= MaxName
  /\ Range(s) \subseteq Letters \cup Digits \cup {"-"}
  /\ s[1] # "-" /\ s[Len(s)] # "-"
  /\ \A i \in 1 .. Len(s) - 1 : ~ (s[i] = "-" /\ s[i + 1] = "-")

ValidDescription(s) == s # <<>> /\ Trimmed(s) /\ Len(s) <= MaxDescription

\* Upper case is taken for lower case; "" for what is neither.
NormalizeSkillInsert(s) ==
  CASE TrimSpace(s) \in {<<>>, <<"instructions">>, <<"INSTRUCTIONS">>} ->
         "instructions"
    [] TrimSpace(s) = <<"user-message">> -> "user-message"
    [] OTHER -> ""

NamesIn(args) == [i \in DOMAIN args |-> args[i].name]

ValidArgument(a) ==
  /\ IsValidSkillArgumentName(a.name)
  /\ Len(a.description) <= MaxArgumentText
  /\ Len(a.default) <= MaxArgumentText

ValidTag(s) == s # <<>> /\ Trimmed(s) /\ Len(s) <= MaxTag

ValidateSkillDocument(d) ==
  /\ ValidName(d.name)
  /\ ValidDescription(d.description)
  /\ Trimmed(d.displayName) /\ Len(d.displayName) <= MaxDisplayName
  /\ NormalizeSkillInsert(d.insert) # ""
  /\ Len(d.arguments) <= MaxArguments
  /\ \A i \in DOMAIN d.arguments : ValidArgument(d.arguments[i])
  /\ IsInjective(NamesIn(d.arguments))
  /\ Len(d.tags) <= MaxTags
  /\ \A i \in DOMAIN d.tags : ValidTag(d.tags[i])
  /\ IsInjective(d.tags)

----------------------------------------------------------------------------
(* Fields of a frontmatter *)

\* The value of a field; one that is missing is as good as null.
Field(fields, key) ==
  LET at == {i \in DOMAIN fields : fields[i].key = key}
  IN  IF at = {} THEN Null ELSE fields[Min(at)].value

\* The texts of a value that is no list, in the order they are written in.
TextsOf(value) ==
  IF value.kind = "object" THEN <<value.default, value.description, value.name>>
  ELSE <<value>>

\* The places where a text of several lines has a line that the splitting
\* takes for the end of the frontmatter.  (Three dots end it as well; a rule
\* stands for both.)
Rules(text) ==
  IF text.kind # "string" THEN {}
  ELSE {i \in LineStarts(text.text) :
          /\ LineAt(text.text, i) = <<"---">>
          /\ LineStarts(text.text) # {1}}

\* The texts with a rule among those of a value that is no list.
RuledTexts(value) == {i \in DOMAIN TextsOf(value) : Rules(TextsOf(value)[i]) # {}}

RuledItems(items) == {i \in DOMAIN items : RuledTexts(items[i]) # {}}

HasRule(value) ==
  IF value.kind = "list" THEN RuledItems(value.items) # {}
  ELSE RuledTexts(value) # {}

\* A text as it is cut by its first rule, and what comes after.
Before(text) == Str(SubSeq(text.text, 1, Min(Rules(text)) - 2))
After(text) == SubSeq(text.text, Min(Rules(text)) + 1, Len(text.text))

\* An object that is cut keeps the keys in front of the rule.
CutItem(value) ==
  LET first == Min(RuledTexts(value))
      kept == Before(TextsOf(value)[first])
  IN  CASE value.kind # "object" -> kept
        [] value.kind = "object" /\ first = 1 -> Object(Null, Null, kept)
        [] value.kind = "object" /\ first = 2 -> Object(Null, kept, value.default)
        [] OTHER -> Object(kept, value.description, value.default)

\* A list that is cut keeps the items in front of the rule.
CutValue(value) ==
  LET first == Min(RuledItems(value.items))
  IN  IF value.kind # "list" THEN CutItem(value)
      ELSE List(Append(SubSeq(value.items, 1, first - 1),
                       CutItem(value.items[first])))

\* The text behind the first rule of a value.
Remainder(value) ==
  LET item == IF value.kind = "list" THEN value.items[Min(RuledItems(value.items))]
              ELSE value
  IN  After(TextsOf(item)[Min(RuledTexts(item))])

(***************************************************************************)
(* splitSkillDocumentFrontmatter: the fields up to the first line that is  *)
(* a rule once it is trimmed, and the rest.  If it stands inside a field,  *)
(* that field is cut there, and what comes after it is text of the body    *)
(* (of which only the rest of the text itself is kept here).               *)
(***************************************************************************)
SplitFrontmatter(c) ==
  LET ruled == {i \in DOMAIN c.fields : HasRule(c.fields[i].value)}
      first == Min(ruled)
      value == c.fields[first].value
  IN  IF ruled = {} THEN c
      ELSE [c EXCEPT
              !.fields = Append(SubSeq(@, 1, first - 1),
                                [@[first] EXCEPT !.value = CutValue(value)]),
              !.body = Remainder(value) \o <<"\n">> \o @]

(***************************************************************************)
(* How much a content takes, encoded: the mark, a byte for each key and    *)
(* each item, and the texts.  Delimiters, indentation and quotes are left  *)
(* out.                                                                    *)
(***************************************************************************)
TextBytes(text) == IF text.kind = "string" THEN Len(text.text) ELSE 0

ItemBytes(value) ==
  LET texts == TextsOf(value)
  IN  1 + MapThenSumSet(LAMBDA i : TextBytes(texts[i]), DOMAIN texts)

ValueBytes(value) ==
  IF value.kind # "list" THEN ItemBytes(value)
  ELSE 1 + MapThenSumSet(LAMBDA i : ItemBytes(value.items[i]), DOMAIN value.items)

Bytes(c) ==
  (IF c.bom THEN 1 ELSE 0) + Len(c.body)
    + MapThenSumSet(LAMBDA i : ValueBytes(c.fields[i].value), DOMAIN c.fields)

\* A list, or a string taken for a list of one; Junk for anything else.
Items(value) ==
  CASE value.kind = "list" -> value.items
    [] value.kind = "string" -> <<value>>
    [] OTHER -> <<>>

\* What is reported of a field that is not a list.
ShapeWarnings(value, what) ==
  IF value.kind \in {"list", "null"} THEN {} ELSE {what}

----------------------------------------------------------------------------
(* Arguments and tags *)

OptionalText(value) ==
  IF value.kind = "string" THEN Cut(value.text, MaxArgumentText) ELSE <<>>

\* Mutant: a text is cut without a warning.
CutSilently(value) == value.kind \notin {"string", "null"}

\* What optionalSkillArgumentText warns of.
TextIgnored(value) ==
  \/ value.kind \notin {"string", "null"}
  \/ value.kind = "string" /\ Len(value.text) > MaxArgumentText

\* The argument an item declares; one without a name cannot be valid.
ArgumentOf(item) ==
  CASE item.kind = "string" ->
         [name |-> TrimSpace(item.text), description |-> <<>>, default |-> <<>>]
    [] item.kind = "object" ->
         [name |-> IF item.name.kind = "string" THEN TrimSpace(item.name.text)
                   ELSE <<>>,
          description |-> OptionalText(item.description),
          default |-> OptionalText(item.default)]
    [] OTHER -> [name |-> <<>>, description |-> <<>>, default |-> <<>>]

\* Mutant: repetitions are looked for in the declaration before only.
DeclaredLast(output, name) == output # <<>> /\ Last(output).name = name

IsDeclared(output, name) == \E i \in DOMAIN output : output[i].name = name

\* The loop's body: acc is what it has put out and warned of so far.
AddArgument(acc, item) ==
  LET arg == ArgumentOf(item)
      object == item.kind = "object" /\ item.name.kind = "string"
      texts == IF object /\ (TextIgnored(item.description)
                               \/ TextIgnored(item.default))
               THEN {"arguments"} ELSE {}
  IN  IF Len(acc.output) < MaxArguments
           /\ IsValidSkillArgumentName(arg.name)
           /\ ~ IsDeclared(acc.output, arg.name)
      THEN [output |-> Append(acc.output, arg),
            warnings |-> acc.warnings \cup texts]
      ELSE [acc EXCEPT !.warnings = @ \cup {"arguments"}]

ParseArguments(value) ==
  LET items == Items(value)
      acc[n \in 0 .. Len(items)] ==
        IF n = 0
        THEN [output |-> <<>>, warnings |-> ShapeWarnings(value, "arguments")]
        ELSE AddArgument(acc[n - 1], items[n])
  IN  acc[Len(items)]

\* Mutant: tags are compared before they are trimmed.
SeenUntrimmed(output, item) == Contains(output, item.text)

SeenTag(output, item) == Contains(output, TrimSpace(item.text))

\* A tag that is there already is passed over without a warning, unless the
\* list is full.
AddTag(acc, item) ==
  LET good == item.kind = "string" /\ ValidTag(TrimSpace(item.text))
  IN  CASE Len(acc.output) >= MaxTags \/ ~ good ->
             [acc EXCEPT !.warnings = @ \cup {"tags"}]
        [] OTHER ->
             IF SeenTag(acc.output, item) THEN acc
             ELSE [acc EXCEPT !.output = Append(@, TrimSpace(item.text))]

ParseTags(value) ==
  LET items == Items(value)
      acc[n \in 0 .. Len(items)] ==
        IF n = 0
        THEN [output |-> <<>>, warnings |-> ShapeWarnings(value, "tags")]
        ELSE AddTag(acc[n - 1], items[n])
  IN  acc[Len(items)]

ParseInsert(value) ==
  LET insert == IF value.kind = "string" THEN NormalizeSkillInsert(value.text)
                ELSE ""
  IN  CASE value.kind = "null" -> [output |-> "instructions", warnings |-> {}]
        [] value.kind # "null" /\ insert = "" ->
             [output |-> "instructions", warnings |-> {"insert"}]
        [] OTHER -> [output |-> insert, warnings |-> {}]

----------------------------------------------------------------------------
(* Parsing *)

\* The text of a required field; no text if it has none.
Required(fields, key) ==
  LET value == Field(fields, key)
  IN  IF value.kind = "string" THEN TrimSpace(value.text) ELSE <<>>

PaddedRequired(fields) ==
  {key \in {"name", "description"} :
     LET value == Field(fields, key)
     IN  value.kind = "string" /\ ~ Trimmed(value.text)}

Title(name, body) ==
  IF FirstHeading(body) = <<>> THEN name ELSE FirstHeading(body)

\* Mutant: a heading is taken whatever its length.
DisplayNameUncut(name, body) == Title(name, body)

DisplayName(name, body) == Cut(Title(name, body), MaxDisplayName)

Nothing(body) == TrimSpace(body) = <<>>

(***************************************************************************)
(* The content c has a fault that makes it unreadable (UTF-8, NUL,         *)
(* delimiters, YAML) or it is an optional mark, fields and a body.         *)
(***************************************************************************)
ParseSkillDocument(c, expected) ==
  LET split == SplitFrontmatter(c)
      name == Required(split.fields, "name")
      description == Required(split.fields, "description")
      insert == ParseInsert(Field(split.fields, "insert"))
      arguments == ParseArguments(Field(split.fields, "arguments"))
      tags == ParseTags(Field(split.fields, "tags"))
      body == CleanBody(split.body)
  IN  IF \/ Bytes(c) > MaxSkillDocumentBytes
         \/ c.fault
         \/ ~ ValidName(name)
         \/ ~ ValidDescription(description)
         \/ TrimSpace(expected) \notin {<<>>, name}
      THEN None
      ELSE [ok |-> TRUE,
            document |->
              [name |-> name, displayName |-> DisplayName(name, body),
               description |-> description,
               insert |-> <<insert.output>>, arguments |-> arguments.output,
               tags |-> tags.output, body |-> body,
               custom |-> Field(split.fields, "custom")],
            warnings |->
              insert.warnings \cup arguments.warnings \cup tags.warnings
                \cup PaddedRequired(split.fields)
                \cup (IF c.bom THEN {"bom"} ELSE {})
                \cup (IF Nothing(body) THEN {"body"} ELSE {})
                \cup (IF Len(Title(name, body)) > MaxDisplayName
                      THEN {"displayName"} ELSE {})]

----------------------------------------------------------------------------
(* Writing and rendering *)

Entry(key, value) == [key |-> key, value |-> value]

\* Mutant: the display heading goes in front whatever the body has.
HeadingAlways(d, body) == d.displayName \notin {<<>>, d.name}

NeedsHeading(d, body) ==
  /\ FirstHeading(body) = <<>>
  /\ d.displayName \notin {<<>>, d.name}

BodyOf(d) ==
  LET body == CleanBody(d.body)
  IN  IF ~ NeedsHeading(d, body) THEN body
      ELSE <<"#", " ">> \o d.displayName
             \o (IF body = <<>> THEN <<>> ELSE <<"\n", "\n">> \o body)

\* One line end more, unless there is one.
Ended(s) == IF Last(s) = "\n" THEN s ELSE Append(s, "\n")

\* An empty text is left out of an argument's object.
TextField(s) == IF s = <<>> THEN Null ELSE Str(s)

ArgumentField(args) ==
  List([i \in DOMAIN args |->
          Object(Str(args[i].name), TextField(args[i].description),
                 TextField(args[i].default))])

\* The fields, sorted by their keys as the YAML library writes them.  One that
\* the runtime does not know is kept.
EntriesOf(d) ==
  << Entry("arguments", IF d.arguments = <<>> THEN Null
                        ELSE ArgumentField(d.arguments)),
     Entry("custom", d.custom),
     Entry("description", Str(d.description)),
     Entry("insert", Str(<<NormalizeSkillInsert(d.insert)>>)),
     Entry("name", Str(d.name)),
     Entry("tags", IF d.tags = <<>> THEN Null
                   ELSE List([i \in DOMAIN d.tags |-> Str(d.tags[i])])) >>

\* What is null is not written.
FieldsOf(d) ==
  Selection(EntriesOf(d), {i \in 1 .. 6 : EntriesOf(d)[i].value # Null})

\* The content a document is encoded as.
Encoded(d) ==
  LET body == BodyOf(d)
  IN  [fault |-> FALSE, bom |-> FALSE, fields |-> FieldsOf(d),
       body |-> IF body = <<>> THEN <<>> ELSE <<"\n">> \o Ended(body)]

TooLarge(d) == Bytes(Encoded(d)) > MaxSkillDocumentBytes

MarshalSkillDocument(d) ==
  IF ~ ValidateSkillDocument(d) \/ TooLarge(d) THEN None
  ELSE [ok |-> TRUE, content |-> Encoded(d)]

RenderSkillDocument(d, vals) ==
  IF ~ ValidateSkillDocument(d) THEN None
  ELSE [ok |-> TRUE,
        displayName |-> IF d.displayName = <<>> THEN d.name ELSE d.displayName,
        insert |-> NormalizeSkillInsert(d.insert),
        rendered |-> RenderSkillBody(d.body, d.arguments, vals)]

----------------------------------------------------------------------------

Parse ==
  /\ call.op = "parse"
  /\ out = None
  /\ out' = ParseSkillDocument(call.content, call.expected)
  /\ UNCHANGED call

Marshal ==
  /\ call.op = "marshal"
  /\ out = None
  /\ out' = MarshalSkillDocument(call.document)
  /\ UNCHANGED call

RenderDocument ==
  /\ call.op = "document"
  /\ out = None
  /\ out' = RenderSkillDocument(call.document, call.values)
  /\ UNCHANGED call

\* RenderSkillBody, as Runtime.RenderSkill calls it.
Render ==
  /\ call.op = "body"
  /\ out = None
  /\ out' = [ok |-> TRUE,
             rendered |-> RenderSkillBody(call.body, call.arguments, call.values)]
  /\ UNCHANGED call

Next == Parse \/ Marshal \/ RenderDocument \/ Render

Spec == Init /\ [][Next]_vars

----------------------------------------------------------------------------
(* Properties *)

Answered(op) == call.op = op /\ out # None

Ruled(c) == \E i \in DOMAIN c.fields : HasRule(c.fields[i].value)

\* d with a display name that can be valid.  One that was cut may end in a
\* blank, which ValidateSkillDocument does not take (document.go:141, 658).
Recut(d) == [d EXCEPT !.displayName = TrimSpace(@)]

(***************************************************************************)
(* What ParseSkillDocument (document.go:45) accepts, with whatever optional *)
(* fields, can be rendered, and written: parsing ends at the limits and    *)
(* rules that ValidateSkillDocument checks.  The exceptions are Recut, and *)
(* that a content near the size limit may be encoded as a larger one, for  *)
(* an insert mode and a line end are put in (document.go:238, 294, 299).   *)
(***************************************************************************)
ParsedIsUsable ==
  Answered("parse") =>
    LET parsed == out.document
        d == IF "displayName" \in out.warnings THEN Recut(parsed) ELSE parsed
    IN  /\ RenderSkillDocument(d, <<>>) # None
        /\ TooLarge(d) \/ MarshalSkillDocument(d) # None

\* Whether an argument was declared by the item as it stands.
DeclaredBy(arg, item) ==
  LET text(value) == IF value.kind = "null" THEN <<>> ELSE value.text
  IN  CASE item.kind = "string" -> arg.name = TrimSpace(item.text)
        [] item.kind = "object" ->
             /\ arg.name = TrimSpace(item.name.text)
             /\ arg.description = text(item.description)
             /\ arg.default = text(item.default)
        [] OTHER -> FALSE

\* What an item of a list of tags says, trimmed.
TagOf(item) == IF item.kind = "string" THEN TrimSpace(item.text) ELSE <<>>

TagsIn(items) == [i \in DOMAIN items |-> TagOf(items[i])]

(***************************************************************************)
(* README.md:134-137: the parser `returns warnings when it defaults an     *)
(* unsupported insert, ignores malformed or duplicate arguments/tags,      *)
(* truncates bounded optional text'.  So without one (document.go:411,     *)
(* 562, 383) everything that was given is in the document, in order.  The  *)
(* exceptions: a tag given twice is ignored without a warning              *)
(* (document.go:639), so that a list with repetitions only keeps its       *)
(* elements; and a rule in a text of several lines loses what follows it   *)
(* (document.go:332).                                                      *)
(***************************************************************************)
LosesNothingSilently ==
  Answered("parse") /\ ~ Ruled(call.content) =>
    LET given(key) == Field(call.content.fields, key)
        d == out.document
        items == Items(given("arguments"))
        tags == TagsIn(Items(given("tags")))
    IN  /\ "arguments" \notin out.warnings =>
             /\ Len(d.arguments) = Len(items)
             /\ \A i \in DOMAIN items : DeclaredBy(d.arguments[i], items[i])
        /\ "tags" \notin out.warnings =>
             /\ Range(d.tags) = Range(tags)
             /\ IsInjective(tags) => d.tags = tags
        /\ "insert" \notin out.warnings /\ given("insert") # Null =>
             d.insert[1] = NormalizeSkillInsert(given("insert").text)

\* The first max of the different elements of s at the good places.
FirstOf(s, good, max) ==
  Cut(Selection(s, {i \in good : \A j \in 1 .. i - 1 : s[j] # s[i]}), max)

(***************************************************************************)
(* The limits on arguments and tags (document.go:444, 593) count what is   *)
(* kept: the first valid ones, repetitions and bad items aside.            *)
(***************************************************************************)
KeepsTheFirst ==
  Answered("parse") /\ ~ Ruled(call.content) =>
    LET items(key) == Items(Field(call.content.fields, key))
        names == [i \in DOMAIN items("arguments") |->
                    ArgumentOf(items("arguments")[i]).name]
        tags == TagsIn(items("tags"))
    IN  /\ NamesIn(out.document.arguments) =
             FirstOf(names,
                     {i \in DOMAIN names : IsValidSkillArgumentName(names[i])},
                     MaxArguments)
        /\ out.document.tags =
             FirstOf(tags, {i \in DOMAIN tags : ValidTag(tags[i])}, MaxTags)

(***************************************************************************)
(* Documents that no rule cuts, in the description, in an argument's       *)
(* description or default, in a tag or in a field that is not known, and   *)
(* whose display name fits on a line: ValidateSkillDocument checks neither *)
(* (document.go:324-342, 656-720).                                         *)
(***************************************************************************)
Writable(d) ==
  /\ ~ Ruled(Encoded(d))
  /\ Range(d.displayName) \cap {"\n", "\r"} = {}

\* The name a document is shown by once it was written.
Shown(d) ==
  LET heading == FirstHeading(CleanBody(d.body))
  IN  CASE heading # <<>> -> Cut(heading, MaxDisplayName)
        [] heading = <<>> /\ d.displayName # <<>> -> d.displayName
        [] OTHER -> d.name

(***************************************************************************)
(* What MarshalSkillDocument (document.go:223) writes, ParseSkillDocument  *)
(* reads back: every field as it was, the body with one line end, and the  *)
(* display name, unless the body has a heading of its own.                 *)
(***************************************************************************)
ReadsBack ==
  Answered("marshal") /\ Writable(call.document) =>
    LET d == call.document
        again == ParseSkillDocument(out.content, d.name)
    IN  /\ again # None
        /\ again.document =
             [d EXCEPT !.displayName = Shown(d),
                       !.insert = <<NormalizeSkillInsert(@)>>,
                       !.body = IF BodyOf(d) = <<>> THEN <<>>
                                ELSE Ended(BodyOf(d))]
        /\ again.warnings \subseteq {"body", "displayName"}

(***************************************************************************)
(* `Canonical' (document.go:218): a document that was written and read is  *)
(* written the same way again, unless its display name had to be cut.      *)
(***************************************************************************)
IsCanonical ==
  Answered("marshal") /\ Writable(call.document) =>
    LET again == ParseSkillDocument(out.content, <<>>)
    IN  MarshalSkillDocument(Recut(again.document)) = out

(***************************************************************************)
(* RenderSkillBody (artifact.go:66-80) in two passes does what README.md   *)
(* 104-106 says of one, for bodies that nest no dollar in braces and       *)
(* values without braces: a value with {{name}} is expanded once more.     *)
(***************************************************************************)
RendersInOnePass ==
  /\ Answered("body") =>
       LET declared == FirstDeclared(call.arguments, call.values)
       IN  \/ Nested(call.body)
           \/ \E n \in DOMAIN declared : HasBraces(declared[n])
           \/ out.rendered = OnePass(call.body, declared)
  /\ Answered("document") =>
       LET d == call.document
           declared == FirstDeclared(d.arguments, call.values)
       IN  \/ Nested(d.body)
           \/ \E n \in DOMAIN declared : HasBraces(declared[n])
           \/ out.rendered = OnePass(d.body, declared)

============================================================================
