---------------------------- MODULE StatementText ----------------------------
(***************************************************************************)
(* The text of a statement: how a query with "?" placeholders and the      *)
(* caller's values become the one string that is sent (interpolate.go,     *)
(* encoder.go, helpers.go, types.go).                                      *)
(*                                                                         *)
(* A text is a sequence of tokens.  A token is one character where the     *)
(* scanner tells characters apart, and a whole word ("NULL", "17") where   *)
(* nothing looks inside.  Indexes count from 1.                            *)
(***************************************************************************)
EXTENDS Integers, FiniteSets, Sequences, SequencesExt

Quotes == {"'", "\"", "bquote"}
LineEnds == {"\n", "\f"}

(* The characters a stage location stops at, and those a backslash of a    *)
(* stage location takes with it; the other white space is like " ".        *)
StageStops == {" ", "\n", "\f", ",", "bquote", ";", "\"", "'", "(", ")"}
StageEscapes == {" ", "\n", "\f", "'", "\"", "\\"}

(* There is no character past the end: At is then none of them.            *)
At(text, i) == IF i \in DOMAIN text THEN text[i] ELSE "end"

-----------------------------------------------------------------------------
(* Finding the placeholders, by the index arithmetic of the code.          *)

(* Where the quoted region whose body starts at i ends: just after its     *)
(* closing quote.  A backslash takes the next character along, except in   *)
(* backquotes, and a doubled quote is a character of the region.           *)
RECURSIVE AfterQuoted(_, _, _)
AfterQuoted(query, i, quote) ==
    CASE i > Len(query) -> i
      [] query[i] = "\\" /\ quote # "bquote" -> AfterQuoted(query, i + 2, quote)
      [] query[i] = quote /\ At(query, i + 1) = quote -> AfterQuoted(query, i + 2, quote)
      [] query[i] = quote /\ At(query, i + 1) # quote -> i + 1
      [] OTHER -> AfterQuoted(query, i + 1, quote)

(* Just after the first occurrence of the pair a b from i on.              *)
AfterPair(query, i, a, b) ==
    LET found == {j \in i .. Len(query) - 1 : query[j] = a /\ query[j + 1] = b}
    IN  IF found = {} THEN Len(query) + 1
        ELSE 2 + CHOOSE j \in found : \A k \in found : j <= k

(* The end of a line comment, whose line end is read as an ordinary one.   *)
AfterLine(query, i) ==
    LET ends == {j \in i .. Len(query) : query[j] \in LineEnds}
    IN  IF ends = {} THEN Len(query) + 1
        ELSE CHOOSE j \in ends : \A k \in ends : j <= k

(* A stage location ends before the first stop that no backslash escapes.  *)
RECURSIVE AfterStage(_, _)
AfterStage(query, i) ==
    CASE i > Len(query) -> i
      [] query[i] = "\\" /\ At(query, i + 1) \in StageEscapes -> AfterStage(query, i + 2)
      [] query[i] \in StageStops -> i
      [] OTHER -> AfterStage(query, i + 1)

(* Not the code: a comment whose end may share the star of its start.      *)
AfterSharingStar(query, i) ==
    CASE query[i] \in Quotes -> AfterQuoted(query, i + 1, query[i])
      [] query[i] = "-" /\ At(query, i + 1) = "-" -> AfterLine(query, i + 2)
      [] query[i] = "/" /\ At(query, i + 1) = "*" -> AfterPair(query, i + 1, "*", "/")
      [] query[i] = "$" /\ At(query, i + 1) = "$" -> AfterPair(query, i + 2, "$", "$")
      [] query[i] = "@" -> AfterStage(query, i + 1)
      [] OTHER -> i + 1

(* Where the scan continues after what starts at i.                        *)
After(query, i) ==
    CASE query[i] \in Quotes -> AfterQuoted(query, i + 1, query[i])
      [] query[i] = "-" /\ At(query, i + 1) = "-" -> AfterLine(query, i + 2)
      [] query[i] = "/" /\ At(query, i + 1) = "*" -> AfterPair(query, i + 2, "*", "/")
      [] query[i] = "$" /\ At(query, i + 1) = "$" -> AfterPair(query, i + 2, "$", "$")
      [] query[i] = "@" -> AfterStage(query, i + 1)
      [] OTHER -> i + 1

RECURSIVE PlaceholdersFrom(_, _)
PlaceholdersFrom(query, i) ==
    IF i > Len(query) THEN <<>>
    ELSE (IF query[i] = "?" THEN <<i>> ELSE <<>>) \o PlaceholdersFrom(query, After(query, i))

placeholders(query) == PlaceholdersFrom(query, 1)

-----------------------------------------------------------------------------
(* Writing a value (encoder.go).  A value is a record with a kind:         *)
(*   nil, nilptr                  a nil, a nil pointer                     *)
(*   plain     text               a number or boolean, as its tokens       *)
(*   time      text               a time, as the tokens of its layout      *)
(*   string    text               a string                                 *)
(*   bytes     text               []byte, which is spliced in as it is     *)
(*   ptr       to                 a pointer                                *)
(*   array     elems              a slice or an array, in Array or not     *)
(*   struct    fields             a struct, in Tuple or not, each field    *)
(*                                embedded, unexported or named            *)
(*   tmap      pairs              a map in Map, as its keys are visited    *)
(*   map       pairs              a Go map that is not in Map              *)
(*   misfit                       what Array, Tuple or Map is not for      *)

(* Not the code: only quotes are escaped.                                  *)
escapeQuotes(text) ==
    FlattenSeq([i \in DOMAIN text |-> IF text[i] = "'" THEN <<"\\", "'">> ELSE <<text[i]>>])

escape(text) ==
    FlattenSeq([i \in DOMAIN text |->
        IF text[i] \in {"\\", "'"} THEN <<"\\", text[i]>> ELSE <<text[i]>>])

quote(text) == <<"'">> \o text \o <<"'">>

CommaList(parts) ==
    FlattenSeq([i \in DOMAIN parts |-> IF i = 1 THEN parts[i] ELSE <<",">> \o parts[i]])

Pairs(value, between, Text(_)) ==
    [i \in DOMAIN value.pairs |-> Text(value.pairs[i][1]) \o between \o Text(value.pairs[i][2])]

Spaced(parts) ==
    FlattenSeq([i \in DOMAIN parts |-> IF i = 1 THEN parts[i] ELSE <<" ">> \o parts[i]])

(* Go's own notation, where strings are as they are (fmt.Sprint).          *)
RECURSIVE Sprint(_)
Sprint(value) ==
    CASE value.kind \in {"nil", "nilptr"} -> <<"<nil>">>
      [] value.kind \in {"plain", "time", "string"} -> value.text
      [] value.kind \in {"bytes", "ptr", "misfit"} -> <<value.kind>>
      [] value.kind = "array"  -> <<"[">> \o Spaced([i \in DOMAIN value.elems |-> Sprint(value.elems[i])]) \o <<"]">>
      [] value.kind = "struct" -> <<"{">> \o Spaced([i \in DOMAIN value.fields |-> Sprint(value.fields[i].value)]) \o <<"}">>
      [] value.kind \in {"map", "tmap"} -> <<"map", "[">> \o Spaced(Pairs(value, <<":">>, Sprint)) \o <<"]">>

(* What is embedded in a struct, itself or by its pointer, and the fields  *)
(* of it; those of a time are all unexported.                              *)
Embedded(value) == IF value.kind = "ptr" THEN value.to ELSE value
EmbeddedFields(value) == IF Embedded(value).kind = "struct" THEN Embedded(value).fields ELSE <<>>

(* The fields of a struct between the parentheses of its tuple.  The comma *)
(* goes before every field but the first of the struct, whether or not     *)
(* anything was written before it; unexported fields are left out, and an  *)
(* embedded struct's fields are written in place.                          *)
RECURSIVE Encode(_), encodeTuplePart(_)

(* Not the code: no comma before the fields of an embedded struct.         *)
encodeTuplePartJoined(fields) ==
    FlattenSeq([i \in DOMAIN fields |->
        LET comma == IF i = 1 THEN <<>> ELSE <<",">>
            field == fields[i]
        IN  CASE field.way = "unexported" -> <<>>
              [] field.way = "embedded"   -> encodeTuplePart(EmbeddedFields(field.value))
              [] field.way = "named"      -> comma \o Encode(field.value)])

encodeTuplePart(fields) ==
    FlattenSeq([i \in DOMAIN fields |->
        LET comma == IF i = 1 THEN <<>> ELSE <<",">>
            field == fields[i]
        IN  CASE field.way = "unexported" -> <<>>
              [] field.way = "embedded"   -> comma \o encodeTuplePart(EmbeddedFields(field.value))
              [] field.way = "named"      -> comma \o Encode(field.value)])

(* A map is written as one only where it is in Map.                        *)
Encode(value) ==
    CASE value.kind \in {"nil", "nilptr"} -> <<"NULL">>
      [] value.kind = "plain"  -> value.text
      [] value.kind = "time"   -> quote(value.text)
      [] value.kind = "string" -> quote(escape(value.text))
      [] value.kind = "bytes"  -> value.text
      [] value.kind = "ptr"    -> Encode(value.to)
      [] value.kind = "array"  -> <<"[">> \o CommaList([i \in DOMAIN value.elems |-> Encode(value.elems[i])]) \o <<"]">>
      [] value.kind = "struct" -> <<"(">> \o encodeTuplePart(value.fields) \o <<")">>
      [] value.kind = "tmap"   -> <<"map", "(">> \o CommaList(Pairs(value, <<",">>, Encode)) \o <<")">>
      [] value.kind = "map"    -> Sprint(value)

(* A value that cannot be written: a misfit, or a struct that embeds what  *)
(* is neither a struct nor a pointer to one.                               *)
RECURSIVE EncodeFails(_)
EncodeFails(value) ==
    \/ value.kind = "misfit"
    \/ value.kind = "ptr" /\ EncodeFails(value.to)
    \/ value.kind = "array" /\ \E i \in DOMAIN value.elems : EncodeFails(value.elems[i])
    \/ value.kind = "tmap" /\ \E i \in DOMAIN value.pairs :
           EncodeFails(value.pairs[i][1]) \/ EncodeFails(value.pairs[i][2])
    \/ value.kind = "struct" /\ \E i \in DOMAIN value.fields :
           LET field == value.fields[i] IN
           \/ field.way = "embedded" /\ Embedded(field.value).kind \notin {"struct", "time"}
           \/ field.way = "embedded" /\ EncodeFails(Embedded(field.value))
           \/ field.way = "named" /\ EncodeFails(field.value)

-----------------------------------------------------------------------------
(* Putting the values into the text (interpolate.go).                      *)

(* An empty slice as the first value makes the code return the query as it *)
(* is, before the number of values is looked at.                           *)
EmptySlice(value) ==
    \/ value.kind = "bytes" /\ value.text = <<>>
    \/ value.kind = "array" /\ value.elems = <<>>

BindingFails(query, params, index) ==
    /\ params # <<>>
    /\ ~EmptySlice(params[1])
    /\ \/ Len(index) # Len(params)
       \/ \E j \in DOMAIN params : EncodeFails(params[j])

(* The text from the placeholder at index[j] on, with params[j], ...       *)
RECURSIVE Filled(_, _, _, _)
Filled(query, params, index, j) ==
    IF j > Len(index) THEN <<>>
    ELSE LET stop == IF j = Len(index) THEN Len(query) ELSE index[j + 1] - 1
         IN  Encode(params[j]) \o SubSeq(query, index[j] + 1, stop) \o Filled(query, params, index, j + 1)

interpolateParams2(query, params, index) ==
    IF params = <<>> \/ EmptySlice(params[1]) THEN query
    ELSE SubSeq(query, 1, index[1] - 1) \o Filled(query, params, index, 1)

(* buildQuery: a prepared statement brings the placeholders found when it  *)
(* was prepared, and their number must be that of the values.              *)
BuildFails(query, args, prepared) ==
    \/ prepared /\ Len(placeholders(query)) # Len(args)
    \/ BindingFails(query, args, placeholders(query))

buildQuery(query, args) == interpolateParams2(query, args, placeholders(query))

-----------------------------------------------------------------------------
(* The regions of a text as the lexer of Lake reads them, one character at *)
(* a time: the mode after a character follows from the mode before it.     *)

Start(c) ==
    CASE c \in Quotes -> <<"quoted", c>>
      [] c = "-" -> <<"minus">>
      [] c = "/" -> <<"slash">>
      [] c = "$" -> <<"dollar">>
      [] c = "@" -> <<"stage">>
      [] OTHER   -> <<"code">>

InStage(c) == IF c = "\\" THEN <<"stage escape">> ELSE IF c \in StageStops THEN Start(c) ELSE <<"stage">>

LexerStep(mode, c) ==
    CASE mode = <<"minus">> /\ c = "-"  -> <<"line">>
      [] mode = <<"slash">> /\ c = "*"  -> <<"block">>
      [] mode = <<"dollar">> /\ c = "$" -> <<"dollars">>
      [] mode[1] = "closed" /\ c = mode[2]  -> <<"quoted", c>>
      [] mode[1] = "escaped" -> <<"quoted", mode[2]>>
      [] mode[1] = "quoted"  ->
            IF c = mode[2] THEN <<"closed", c>>
            ELSE IF c = "\\" /\ mode[2] # "bquote" THEN <<"escaped", mode[2]>>
            ELSE mode
      [] mode = <<"line">>   -> IF c \in LineEnds THEN <<"code">> ELSE mode
      [] mode = <<"block">>  -> IF c = "*" THEN <<"block star">> ELSE mode
      [] mode = <<"block star">> ->
            IF c = "/" THEN <<"code">> ELSE IF c = "*" THEN mode ELSE <<"block">>
      [] mode = <<"dollars">> -> IF c = "$" THEN <<"dollars end">> ELSE mode
      [] mode = <<"dollars end">> -> IF c = "$" THEN <<"code">> ELSE <<"dollars">>
      [] mode = <<"stage">> -> InStage(c)
      [] mode = <<"stage escape">> -> IF c \in StageEscapes THEN <<"stage">> ELSE InStage(c)
      [] OTHER -> Start(c)

ModeAfter(text, i) == FoldLeft(LexerStep, <<"code">>, SubSeq(text, 1, i))

(* What a mode means for the next character: part of the statement itself, *)
(* or of a literal, a comment or a stage location.                         *)
Region(mode) ==
    IF mode[1] \in {"code", "closed", "minus", "slash", "dollar"} THEN <<"code">> ELSE mode

RegionBefore(text, i) == Region(ModeAfter(text, i - 1))

-----------------------------------------------------------------------------
(* The scan by indexes finds the placeholders the lexer would: a "?" of    *)
(* the statement itself, never one inside a literal, an identifier, a      *)
(* comment, a dollar quotation or a stage location (interpolate.go:36-37). *)
ScanFollowsLexer(query) ==
    ToSet(placeholders(query)) =
        {i \in DOMAIN query : query[i] = "?" /\ RegionBefore(query, i) = <<"code">>}

(* The offset of what follows placeholder j in the bound text.             *)
RECURSIVE Written(_, _)
Written(params, j) == IF j = 0 THEN 0 ELSE Written(params, j - 1) + Len(Encode(params[j])) - 1

(* A number below zero right after a minus makes the start of a comment.   *)
Glued(query, params, index) ==
    \E j \in DOMAIN index :
        /\ At(query, index[j] - 1) = "-"
        /\ Encode(params[j]) # <<>> /\ Encode(params[j])[1] = "-"

(* Binding changes nothing but the placeholders (interpolate.go:118-141,   *)
(* helpers.go:17-24): every other character is in the same kind of region  *)
(* as in the query, every value starts and ends outside the literals, and  *)
(* the inside of a string value is inside one.  Left out are an empty      *)
(* slice as the first value, and glued numbers.                            *)
BindingKeepsRegions(query, params) ==
    LET index == placeholders(query)
        bound == buildQuery(query, params)
        start == [j \in DOMAIN index |-> index[j] + Written(params, j - 1)]
        stop  == [j \in DOMAIN index |-> start[j] + Len(Encode(params[j])) - 1]
    IN  /\ ~BuildFails(query, params, TRUE)
        /\ ~EmptySlice(params[1])
        /\ ~Glued(query, params, index)
        => /\ \A i \in DOMAIN query \ ToSet(index) :
                LET before == Cardinality({j \in DOMAIN index : index[j] < i})
                IN  /\ bound[i + Written(params, before)] = query[i]
                    /\ RegionBefore(bound, i + Written(params, before)) = RegionBefore(query, i)
           /\ \A j \in DOMAIN index :
                /\ SubSeq(bound, start[j], stop[j]) = Encode(params[j])
                /\ RegionBefore(bound, start[j]) = <<"code">>
                /\ RegionBefore(bound, stop[j] + 1) = <<"code">>
                /\ params[j].kind = "string" =>
                     \A i \in start[j] + 1 .. stop[j] :
                        RegionBefore(bound, i) \in {<<"quoted", "'">>, <<"escaped", "'">>}

(* The values of a call are all written into the statement that is sent,   *)
(* or the call fails.  README.md:209, "every bind value is rendered as SQL *)
(* text before the statement is sent".                                     *)
ValuesAreWritten(query, params) ==
    \/ BuildFails(query, params, FALSE)
    \/ LET index == placeholders(query) IN
       /\ Len(index) = Len(params)
       /\ Len(buildQuery(query, params)) = Len(query) + Written(params, Len(params))
       /\ buildQuery(query, params) # query

-----------------------------------------------------------------------------
(* The parts of the text of an array, a tuple or a map: what lies between  *)
(* the commas outside the literals and the inner brackets.                 *)
Opening == {"[", "("}
Closing == {"]", ")"}

Parts(text) ==
    LET Step(acc, i) ==
            LET code == RegionBefore(text, i) = <<"code">>
                c == text[i]
            IN  IF code /\ c = "," /\ acc.depth = 0
                THEN [acc EXCEPT !.parts = Append(@, <<>>)]
                ELSE [parts |-> [acc.parts EXCEPT ![Len(acc.parts)] = Append(@, c)],
                      depth |-> IF code /\ c \in Opening THEN acc.depth + 1
                                ELSE IF code /\ c \in Closing THEN acc.depth - 1
                                ELSE acc.depth]
    IN  FoldLeft(Step, [parts |-> << <<>> >>, depth |-> 0], [i \in DOMAIN text |-> i]).parts

(* The values a struct shows: its exported fields and those of the structs *)
(* embedded in it.                                                         *)
RECURSIVE Shown(_)
Shown(fields) ==
    FlattenSeq([i \in DOMAIN fields |->
        CASE fields[i].way = "unexported" -> <<>>
          [] fields[i].way = "embedded"   -> Shown(EmbeddedFields(fields[i].value))
          [] fields[i].way = "named"      -> <<fields[i].value>>])

Members(value) ==
    CASE value.kind = "array"  -> value.elems
      [] value.kind = "struct" -> Shown(value.fields)
      [] value.kind = "tmap"   -> FlattenSeq(value.pairs)

(* A Go map that is not in Map is among the values that are written: Go's  *)
(* notation of it is no value of Lake SQL.                                 *)
RECURSIVE HoldsGoMap(_)
HoldsGoMap(value) ==
    \/ value.kind = "map"
    \/ value.kind = "ptr" /\ HoldsGoMap(value.to)
    \/ value.kind \in {"array", "struct", "tmap"} /\
          \E i \in DOMAIN Members(value) : HoldsGoMap(Members(value)[i])

Inner(value) == (* without the brackets, and the name of a map *)
    LET text == Encode(value) IN
    SubSeq(text, IF value.kind = "tmap" THEN 3 ELSE 2, Len(text) - 1)

(* A struct whose first field shows nothing while a later one shows some-  *)
(* thing, or an embedded struct with nothing to show: the comma before the *)
(* next field is written all the same and leaves an empty part.            *)
RECURSIVE LeavesGap(_)
LeavesGap(fields) ==
    \E i \in DOMAIN fields :
        \/ i = 1 /\ Shown(<<fields[1]>>) = <<>> /\ Shown(fields) # <<>>
        \/ fields[i].way = "embedded" /\ (Shown(<<fields[i]>>) = <<>> \/ LeavesGap(EmbeddedFields(fields[i].value)))

(* The text of an array, a tuple or a map has the texts of its members as  *)
(* its parts, in order: no member is lost, split or merged with the next   *)
(* (encoder.go:101-202).  Left out are values that hold a Go map.          *)
MembersAreParts(value) ==
    /\ value.kind \in {"array", "struct", "tmap"}
    /\ ~EncodeFails(value) /\ ~HoldsGoMap(value)
    /\ value.kind = "struct" => ~LeavesGap(value.fields)
    => Parts(Inner(value)) =
          IF Members(value) = <<>> THEN << <<>> >>
          ELSE [i \in DOMAIN Members(value) |-> Encode(Members(value)[i])]
=============================================================================
