----------------------------- MODULE MCDocument -----------------------------
(* Document.tla called with all small inputs of each kind, by families. *)
EXTENDS Document

Texts(parts, n) == UNION {[1 .. m -> parts] : m \in 0 .. n}

Lists(items, n) == {List(s) : s \in UNION {[1 .. m -> items] : m \in 0 .. n}}

a == <<"a">>

Headings == {<<"#", " ">> \o s : s \in Texts({"a", " "}, 5)}

Content(fields, body) ==
  [fault |-> FALSE, bom |-> FALSE, body |-> body,
   fields |-> <<Entry("name", Str(a)), Entry("description", Str(a))>>
                \o fields]

Parsing(contents) ==
  {[op |-> "parse", content |-> c, expected |-> <<>>] : c \in contents}

----------------------------------------------------------------------------
(* Documents to parse *)

Required_ ==
  {[Content(<<>>, a) EXCEPT
      !.fields = <<Entry("name", n), Entry("description", d)>>] :
     n \in {Str(s) : s \in Texts({"a", "1", "-", " "}, 3)} \cup {Null, Junk},
     d \in {Str(s) : s \in {<<>>, a, <<" ", "a">>, <<"a", "a", "a", "a">>,
                            <<"a", "\n", "---">>}} \cup {Junk}}

Whole ==
  {[op |-> "parse", expected |-> e,
    content |-> [Content(<<>>, a) EXCEPT !.fault = f, !.bom = b]] :
     e \in {a, <<" ", "a">>, <<"b">>}, f \in BOOLEAN, b \in BOOLEAN}

\* A text with a rule at its end.
Ruled_ == <<"\n", "---">>

ArgumentItems ==
  {Str(a), Str(<<" ", "a">>), Str(<<"1">>), Junk,
   Object(Str(<<"b">>), Null, Str(Ruled_)),
   Object(Str(<<"b">>), Null, Str(a)), Object(Str(a), Junk, Null),
   Object(Str(<<"a", "1">>), Str(<<"a", "a", "a">>), Null),
   Object(Null, Null, Null)}

TagItems ==
  {Str(a), Str(<<"a", " ">>), Str(<<"b">>), Str(<<" ">>),
   Str(<<"a", "a", "a", "a">>), Str(<<"b">> \o Ruled_), Junk}

Shapes == {Null, Junk, Str(a), Str(<<"1">>)}

Inserts ==
  {Null, Junk, Str(a), Str(<<" ">>), Str(<<" ", "INSTRUCTIONS">>),
   Str(<<"user-message", " ">>)}

Custom == Str(<<"a", "\n", "---", "\n", "b">>)

Parsed ==
  Whole
    \cup Parsing(Required_)
    \cup Parsing({Content(<<Entry("arguments", v)>>, a) :
                    v \in Shapes \cup Lists(ArgumentItems, 4)})
    \cup Parsing({Content(<<Entry("tags", v)>>, a) :
                    v \in Shapes \cup Lists(TagItems, 4)})
    \cup Parsing({Content(<<Entry("insert", v)>>, a) : v \in Inserts})
    \cup Parsing({Content(<<Entry("custom", Custom), Entry("tags", v)>>, a) :
                    v \in Shapes})
    \cup Parsing({Content(<<>>, s) :
                    s \in Texts({"a", " ", "#", "\n", "\r"}, 5) \cup Headings
                           \cup Texts({"a"}, 2 * MaxSkillDocumentBytes)})

----------------------------------------------------------------------------
(* Documents to write *)

Arg(n, d) == [name |-> n, description |-> <<>>, default |-> d]

Doc(display, body, args, tags) ==
  [name |-> a, displayName |-> display, description |-> a,
   insert |-> <<"instructions">>, arguments |-> args, tags |-> tags,
   body |-> body, custom |-> Null]

Written ==
  {Doc(display, s, <<>>, <<>>) :
     display \in Texts({"b", " ", "#"}, 2)
                   \cup {<<"b", "\n", "b">>, <<"b", "\r", "b">>, a},
     s \in Texts({"a", " ", "#", "\n", "\r"}, 4) \cup Headings
            \cup Texts({"a"}, MaxSkillDocumentBytes)}
    \cup {[Doc(<<>>, a, args, tags) EXCEPT !.insert = i, !.custom = c,
                                            !.description = d] :
            args \in {<<>>, <<Arg(a, <<"a", "a">>)>>, <<Arg(a, a), Arg(a, a)>>,
                      <<Arg(<<"b">>, <<>>), Arg(a, <<>>)>>, <<Arg(a, Ruled_)>>},
            tags \in {<<>>, <<a>>, <<a, <<"b">>>>, <<a, a>>, <<<<" ">>>>,
                      <<<<"---", "\n", "a">>, a>>},
            i \in {<<"INSTRUCTIONS">>, <<"user-message">>, a}, c \in {Null, Str(a), Custom},
            d \in {<<>>, a, <<"a", "\n", "---">>}}

----------------------------------------------------------------------------
(* Bodies to render *)

ArgumentLists ==
  {<<Arg(a, <<"$", "b">>), Arg(<<"b">>, <<"1">>)>>,
   <<Arg(<<"1", "a">>, <<"b">>), Arg(<<"a", " ">>, <<"b">>), Arg(a, <<>>)>>}

ValueMaps == {<<>>, <<"b">> :> <<"\\", "$", "a">>}

Rendered ==
  [op : {"body"}, arguments : ArgumentLists, values : ValueMaps,
   body : Texts(Letters \cup Digits \cup {" ", "$", "\\", "{{", "}}"}, 5)]
  \cup
  [op : {"document"}, values : ValueMaps,
   document :
     {Doc(display, s, <<Arg(a, <<"$", "b">>), Arg(<<"b">>, <<"1">>)>>, <<>>) :
        display \in {<<>>, a, <<" ", "a">>},
        s \in Texts({"a", "$", "{{", "}}"}, 3)}]

MCCalls ==
  Parsed \cup Rendered
    \cup {[op |-> "marshal", document |-> d] : d \in Written}

============================================================================
