---------------------------- MODULE MCConversions ---------------------------
(***************************************************************************)
(* The conversions between the driver's data and text, on every input up   *)
(* to a size.  A state is one input, grown step by step from a smallest    *)
(* one; "part" says which conversion it is for.                            *)
(***************************************************************************)
EXTENDS StatementText, DataSource, ColumnTypes, TLC

CONSTANTS MaxQuery,     \* characters of a query that is scanned
          MaxBound,     \* characters of a query whose placeholders are bound
          MaxNesting,   \* steps that build a nested value
          MaxParams,    \* parameters of a DSN
          MaxUserinfo,  \* characters of the user information of a DSN
          MaxFields     \* types within a type

VARIABLES part, input
vars == <<part, input>>

-----------------------------------------------------------------------------
(* Queries, and the values bound to at most two placeholders.              *)
Characters == {"'", "\"", "bquote", "\\", "-", "/", "*", "$", "@", "\n", " ", "?", "a"}

Str(text) == [kind |-> "string", text |-> text]
Plain(text) == [kind |-> "plain", text |-> text]
Bindable == {Str(<<"'">>), Str(<<"\\">>), Str(<<"?", "'", "-", "-">>), Str(<<>>),
             Plain(<<"1">>), Plain(<<"-", "1">>), [kind |-> "nil"],
             [kind |-> "bytes", text |-> <<>>]}

GrowQuery ==
    /\ part = "query" /\ input.params = <<>> /\ Len(input.query) < MaxQuery
    /\ \E c \in Characters : input' = [input EXCEPT !.query = Append(@, c)]
    /\ UNCHANGED part

Bind ==
    /\ part = "query" /\ input.params = <<>> /\ Len(input.query) <= MaxBound
    /\ LET index == placeholders(input.query) IN
       /\ Len(index) \in 1 .. 2
       /\ \E params \in [1 .. Len(index) -> Bindable] : input' = [input EXCEPT !.params = params]
    /\ UNCHANGED part

(* Values nested in arrays, structs, maps and pointers.                    *)
Atoms == {Str(<<"'", ",">>), Str(<<"\\">>), Str(<<")", "[">>), Plain(<<"-", "1">>),
          [kind |-> "nilptr"], [kind |-> "time", text |-> <<"date">>], [kind |-> "misfit"]}
Beside == {Str(<<"'", ",">>), Plain(<<"-", "1">>)}
Struct(fields) == [kind |-> "struct", fields |-> fields]
Ways == {"named", "unexported", "embedded"}

GrowValue ==
    /\ part = "value" /\ input.nesting < MaxNesting
    /\ \E atom \in Beside, way \in Ways, beside \in {"named", "unexported"},
          held \in {input.value, [kind |-> "ptr", to |-> input.value]} :
         LET inner == input.value
             a == [way |-> way, value |-> held]
             b == [way |-> beside, value |-> atom]
             entries == <<<<atom, inner>>, <<atom, atom>>>>
         IN  \E value \in {held,
                           [kind |-> "array", elems |-> <<>>],
                           [kind |-> "array", elems |-> <<inner, atom>>],
                           [kind |-> "array", elems |-> <<atom, inner>>],
                           [kind |-> "tmap", pairs |-> <<>>],
                           [kind |-> "tmap", pairs |-> entries],
                           [kind |-> "map", pairs |-> entries],
                           Struct(<<>>), Struct(<<a>>), Struct(<<a, b>>), Struct(<<b, a>>)} :
                input' = [value |-> value, nesting |-> input.nesting + 1]
    /\ UNCHANGED part

-----------------------------------------------------------------------------
(* Data source names.                                                      *)
ParamValues ==
    [timeout |-> {"1s", "bad"}, max_rows_per_page |-> {"0", "10", "bad"},
     location |-> {"", "UTC", "Asia", "bad"}, timezone |-> {"UTC", "Asia", "bad"},
     enable_http_compression |-> {"true", "false", "bad"}, debug |-> {"1", "false"},
     presign_allow_private |-> {"true", "bad"}, empty_field_as |-> {"", "null"},
     sslmode |-> {"", "disable", "require"}, login |-> {"", "disable", "bad"},
     query_result_format |-> {"json", "arrow"}, warehouse |-> {"wh"}, database |-> {"db"},
     sessionParam |-> {"v"}]

SomeDSN == [scheme |-> "lake", host |-> "host", port |-> "", path |-> <<>>,
            userinfo |-> <<>>, params |-> [k \in {} |-> ""]]
DSNs == {[SomeDSN EXCEPT !.scheme = scheme, !.port = port, !.path = path] :
            scheme \in {"lake", "http", "lake+https", "ftp"}, port \in {"", "8000"},
            path \in {<<>>, <<"/">>, <<"/", "db">>, <<"/", "/", "db">>}}

AddParameter ==
    /\ part = "dsn" /\ Cardinality(DOMAIN input.params) < MaxParams
    /\ input.userinfo = <<>> /\ input.path = <<>>
    /\ \E key \in DOMAIN ParamValues \ DOMAIN input.params : \E value \in ParamValues[key] :
          input' = [input EXCEPT !.params = Put(@, key, value)]
    /\ UNCHANGED part

GrowUserinfo ==
    /\ part = "dsn" /\ input.userinfo # <<>> /\ Len(input.userinfo[1]) < MaxUserinfo
    /\ \E c \in {"a", "@", ":", "%", "40", "25"} : input' = [input EXCEPT !.userinfo = <<Append(@[1], c)>>]
    /\ UNCHANGED part

-----------------------------------------------------------------------------
(* Types of columns, and cells.                                            *)
Field(type, nullable, inner) == [type |-> type, nullable |-> nullable, inner |-> inner]
Scalars == {Field(type, nullable, <<>>) :
              type \in {"Null", "Int64", "String", "Timestamp", "Date", "Decimal", "Vector", "Binary"},
              nullable \in BOOLEAN}
Siblings == {Field("Int64", FALSE, <<>>), Field("Decimal", TRUE, <<>>), Field("Null", FALSE, <<>>)}

RECURSIVE Size(_)
Size(field) == FoldLeft(LAMBDA sum, inner : sum + Size(inner), 1, field.inner)

GrowType ==
    /\ part = "type" /\ Size(input) < MaxFields
    /\ \E nullable \in BOOLEAN, sibling \in Siblings :
         \E inner \in {<<input>>, <<input, sibling>>, <<sibling, input>>} :
         \E type \in IF Len(inner) = 1 THEN {"Array", "Tuple"} ELSE {"Map", "Tuple"} :
            input' = Field(type, nullable, inner)
    /\ UNCHANGED part

(* A zone that keeps its offset, and one whose clock is put back by one.   *)
SmallMicros == -6 .. 6
SmallMin == -6
SmallMax == 6
Clocks == [UTC |-> [t \in SmallMicros |-> 0], East |-> [t \in SmallMicros |-> 3],
           Summer |-> [t \in SmallMicros |-> IF t \in -2 .. 2 THEN 2 ELSE 1]]

AllSettings == [timezone : {"", "UTC", "East", "Summer"}, mode : {"", "display", " Display"},
                format : {"", "BASE64", "base64 ", "utf8", "UTF-8-LOSSY", "HEX"}]
Cells(type) ==
    {<<>>} \union
    CASE type = "Timestamp" -> {<<t>> : t \in SmallMicros}
      [] type = "Date" -> {<<day>> : day \in -1 .. 1}
      [] type = "Timestamp_Tz" -> {<<[instant |-> t, offset |-> o]>> : t \in SmallMicros, o \in -3 .. 3}
      [] type = "Binary" ->
            {<<bytes>> : bytes \in {<<>>, <<"ascii">>, <<"invalid", "ascii">>, <<"NULL">>, <<"35 42 cb">>}}

-----------------------------------------------------------------------------
Init ==
    \/ part = "query" /\ input = [query |-> <<>>, params |-> <<>>]
    \/ part = "value" /\ \E atom \in Atoms : input = [value |-> atom, nesting |-> 0]
    \/ part = "dsn" /\ input \in DSNs \union {[SomeDSN EXCEPT !.userinfo = << <<>> >>]}
    \/ part = "type" /\ input \in Scalars
    \/ part = "cell" /\ \E type \in {"Timestamp", "Timestamp_Tz", "Date", "Binary"} :
          \E cell \in Cells(type), settings \in AllSettings :
             input = [type |-> type, cell |-> cell, settings |-> settings]

Next == GrowQuery \/ Bind \/ GrowValue \/ AddParameter \/ GrowUserinfo \/ GrowType

Spec == Init /\ [][Next]_vars

-----------------------------------------------------------------------------
(* The scanner finds the placeholders the lexer of Lake would find         *)
(* (interpolate.go:36-88).                                                 *)
PlaceholdersAreTheLexers == part = "query" => ScanFollowsLexer(input.query)

(* Binding puts every value where a value can be and changes nothing else  *)
(* of what the statement says (interpolate.go:90-142).                     *)
BoundStatementKeepsItsRegions ==
    part = "query" /\ input.params # <<>> => BindingKeepsRegions(input.query, input.params)

(* Every value of a call is rendered into the statement that is sent       *)
(* (README.md:209-210), also an empty []byte.                              *)
EveryValueIsBound ==
    part = "query" /\ input.params # <<>> => ValuesAreWritten(input.query, input.params)

(* No member of an array, tuple or Map is lost, split or merged on the way *)
(* into the statement (encoder.go:101-202); a Go map without Map is not    *)
(* written as one.                                                         *)
NestedValuesAreComplete == part = "value" => MembersAreParts(input.value)

(* A Config and its DSN say the same, and user information without a raw   *)
(* "@" is read as it is written, escaped or not (dsn.go:104-191, 311-412). *)
DSNRoundTrips == part = "dsn" => FormatRoundTrips(input) /\ CredentialsAreRead(input)

(* Whether a DSN is accepted does not depend on the order of a Go map,     *)
(* unless it mixes valid and invalid parameters (dsn.go:213-262).          *)
OrderOfParametersIsIrrelevant == part = "dsn" => OrderMattersOnlyWhenMixed(input)

(* A connection is in plain text exactly when its DSN asks for it          *)
(* (dsn.go:368-409, client.go:190-196).                                    *)
PlainTextIsAskedFor == part = "dsn" => PlainTextOnlyOnRequest(input)

(* Type names, derived or the server's, are read as the types they name,   *)
(* and a column reports a name that makes the same column                  *)
(* (typeparser.go:12-94, arrow.go:423-541, columntype.go:57-296).          *)
TypeNamesAreRead ==
    part = "type" =>
        /\ TypeNamesParse(input)
        /\ \A name \in {dataTypeStringFromArrowField(input), ServerName(input)} : ColumnNamesAreStable(name)

(* JSON and Arrow results are the same values, unless the JSON text leaves *)
(* open which (result_rows.go, columntype.go, arrow.go).                   *)
ResultsDoNotDependOnTransport == part = "cell" => TransportsAgree(input.type, input.cell, input.settings)
=============================================================================
