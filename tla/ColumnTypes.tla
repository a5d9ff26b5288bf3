----------------------------- MODULE ColumnTypes ----------------------------
(***************************************************************************)
(* The types and the values of result columns: type names and their parser *)
(* (typeparser.go), the column types (columntype.go, rows.go), the names   *)
(* the driver derives from an Arrow schema, and the driver value of a cell *)
(* that arrives as JSON text or in an Arrow record (arrow.go, binary.go,   *)
(* result_rows.go).                                                        *)
(*                                                                         *)
(* A type name is a sequence of tokens: the words, the numbers and the     *)
(* characters "(", ")", "," and " ".  A result that may be an error is     *)
(* << >> for the error and <<x>> for x.                                    *)
(***************************************************************************)
EXTENDS Integers, FiniteSets, Sequences, SequencesExt

Desc(name, nullable, args) == [Name |-> name, Nullable |-> nullable, Args |-> args]

-----------------------------------------------------------------------------
(* The parser (ParseTypeDesc): one scan that keeps the depth of the paren- *)
(* theses and the start of the name or argument being read.  The argument  *)
(* between two positions is parsed by the same function.                   *)
RECURSIVE ParseTypeDesc(_)
ParseTypeDesc(s) ==
    LET Cut(st, i) == SubSeq(s, st.start, i - 1)
        WithArg(st, i) ==
            [st EXCEPT !.args = IF Cut(st, i) = <<>> THEN @ ELSE Append(@, ParseTypeDesc(Cut(st, i))),
                       !.start = i + 1]
        Step(st, i) ==
            CASE s[i] = "(" /\ st.depth = 0 ->
                    [st EXCEPT !.name = Cut(st, i), !.start = i + 1, !.depth = 1]
              [] s[i] = "(" /\ st.depth # 0 -> [st EXCEPT !.depth = @ + 1]
              [] s[i] = ")" /\ st.depth = 1 -> [WithArg(st, i) EXCEPT !.depth = 0]
              [] s[i] = ")" /\ st.depth # 1 -> [st EXCEPT !.depth = @ - 1]
              [] s[i] = "," /\ st.depth = 1 -> WithArg(st, i)
              [] s[i] = " " /\ st.depth = 0 ->
                    [st EXCEPT !.name = IF Cut(st, i) = <<>> THEN @ ELSE Cut(st, i), !.start = i + 1]
              [] OTHER -> st
        end == FoldLeft(Step, [name |-> <<>>, args |-> <<>>, depth |-> 0, start |-> 1],
                        [i \in DOMAIN s |-> i])
        rest == SubSeq(s, end.start, Len(s))
    IN  IF \/ end.depth # 0
           \/ \E i \in DOMAIN end.args : end.args[i] = <<>>
           \/ rest # <<>> /\ end.name # <<>> /\ rest # <<"NULL">>
        THEN <<>>
        ELSE <<Desc(IF end.name = <<>> THEN rest ELSE end.name,
                    rest # <<>> /\ end.name # <<>>,
                    [i \in DOMAIN end.args |-> end.args[i][1]])>>

(* Normalize looks at the outermost type only.                             *)
RECURSIVE Normalize(_)
Normalize(desc) ==
    CASE desc.Name = <<"Nullable">> -> [Normalize(desc.Args[1]) EXCEPT !.Nullable = TRUE]
      [] desc.Name = <<"DateTime">> -> [desc EXCEPT !.Name = <<"Timestamp">>]
      [] OTHER -> desc

-----------------------------------------------------------------------------
(* The column types.                                                       *)
Simple == {<<t>> : t \in {"String", "Boolean", "Int64", "UInt64", "Float64"}}
Timed  == {<<t>> : t \in {"Timestamp", "Timestamp_Tz", "Date", "Binary"}}

Kind(desc) ==
    CASE desc.Name \in Simple -> "simple"
      [] desc.Name \in Timed  -> desc.Name[1]
      [] desc.Name = <<"Decimal">> -> "Decimal"
      [] OTHER -> "unknown"

wrapName(nullable, name) == IF nullable THEN name \o <<" ", "NULL">> ELSE name

(* NewColumnType: what the column type keeps of the name it is made from.  *)
NewColumnType(dbType) ==
    LET parsed == ParseTypeDesc(dbType)
        desc == Normalize(parsed[1])
    IN  IF parsed = <<>> THEN <<>>
        ELSE <<[kind |-> Kind(desc), desc |-> desc, dbType |-> dbType]>>

(* Nullable: the nullability, and whether it is known.                     *)
Nullable(col) == IF col.kind = "unknown" THEN <<FALSE, FALSE>> ELSE <<col.desc.Nullable, TRUE>>

DatabaseTypeName(col) ==
    CASE col.kind = "unknown" -> col.dbType
      [] col.kind = "Decimal" ->
            wrapName(col.desc.Nullable,
                <<"Decimal", "(">> \o col.desc.Args[1].Name \o <<",", " ">> \o col.desc.Args[2].Name \o <<")">>)
      [] OTHER -> wrapName(col.desc.Nullable, col.desc.Name)

-----------------------------------------------------------------------------
(* The names the driver gives the fields of an Arrow schema.  A field is   *)
(* its type, whether it is nullable and its inner fields.                  *)
RECURSIVE dataTypeStringFromArrowField(_)

(* Not the code: the fields of a type lose that they are nullable.         *)
baseDataTypeStringOfPlainFields(field) ==
    LET inner == [i \in DOMAIN field.inner |-> dataTypeStringFromArrowField([field.inner[i] EXCEPT !.nullable = FALSE])]
        listed == FlattenSeq([i \in DOMAIN inner |-> IF i = 1 THEN inner[i] ELSE <<",", " ">> \o inner[i]])
    IN  CASE field.type \in {"Array", "Map", "Tuple"} -> <<field.type, "(">> \o listed \o <<")">>
          [] field.type = "Decimal" -> <<"Decimal", "(", "10", ",", " ", "2", ")">>
          [] field.type = "Vector"  -> <<"Vector", "(", "3", ")">>
          [] OTHER -> <<field.type>>

baseDataTypeStringFromArrowField(field) ==
    LET inner == [i \in DOMAIN field.inner |-> dataTypeStringFromArrowField(field.inner[i])]
        listed == FlattenSeq([i \in DOMAIN inner |-> IF i = 1 THEN inner[i] ELSE <<",", " ">> \o inner[i]])
    IN  CASE field.type \in {"Array", "Map", "Tuple"} -> <<field.type, "(">> \o listed \o <<")">>
          [] field.type = "Decimal" -> <<"Decimal", "(", "10", ",", " ", "2", ")">>
          [] field.type = "Vector"  -> <<"Vector", "(", "3", ")">>
          [] OTHER -> <<field.type>>

dataTypeStringFromArrowField(field) ==
    LET base == baseDataTypeStringFromArrowField(field) IN
    IF field.nullable /\ base # <<"Null">> THEN <<"Nullable", "(">> \o base \o <<")">> ELSE base

(* The names the server gives, where a nullable type has NULL after it.    *)
RECURSIVE ServerName(_)
ServerName(field) ==
    LET inner == [i \in DOMAIN field.inner |-> ServerName(field.inner[i])]
        listed == FlattenSeq([i \in DOMAIN inner |-> IF i = 1 THEN inner[i] ELSE <<",", " ">> \o inner[i]])
        base == IF field.inner = <<>> THEN baseDataTypeStringFromArrowField(field)
                ELSE <<field.type, "(">> \o listed \o <<")">>
    IN  IF field.nullable THEN base \o <<" ", "NULL">> ELSE base

(* The trees the two kinds of names stand for.                             *)
BaseTree(field, inner) ==
    LET Leaf(word) == Desc(<<word>>, FALSE, <<>>) IN
    Desc(<<field.type>>, FALSE,
         CASE field.type = "Decimal" -> <<Leaf("10"), Leaf("2")>>
           [] field.type = "Vector" -> <<Leaf("3")>>
           [] OTHER -> inner)

RECURSIVE Tree(_), ServerTree(_)
Tree(field) ==
    LET base == BaseTree(field, [i \in DOMAIN field.inner |-> Tree(field.inner[i])]) IN
    IF field.nullable /\ field.type # "Null" THEN Desc(<<"Nullable">>, FALSE, <<base>>) ELSE base
ServerTree(field) ==
    [BaseTree(field, [i \in DOMAIN field.inner |-> ServerTree(field.inner[i])])
        EXCEPT !.Nullable = field.nullable]

(* The name of a field is parsed to the tree of that field, with nothing   *)
(* lost or moved between nested types, whether the driver derives the name *)
(* from an Arrow schema or the server spells it, and for the outermost     *)
(* type both mean the same (arrow.go:423-541, typeparser.go:12-94).         *)
TypeNamesParse(field) ==
    /\ ParseTypeDesc(dataTypeStringFromArrowField(field)) = <<Tree(field)>>
    /\ ParseTypeDesc(ServerName(field)) = <<ServerTree(field)>>
    /\ field.type # "Null" =>
          LET arrow == Normalize(Tree(field))
              json  == Normalize(ServerTree(field))
          IN  arrow.Name = json.Name /\ arrow.Nullable = json.Nullable

(* A column answers for itself with the type it was made from: the name it *)
(* reports is read as the same type and makes a column of the same kind    *)
(* and nullability (columntype.go:57-296).                                 *)
ColumnNamesAreStable(dbType) ==
    LET made == NewColumnType(dbType) IN
    made # <<>> =>
        LET again == NewColumnType(DatabaseTypeName(made[1])) IN
        /\ again # <<>>
        /\ again[1].kind = made[1].kind
        /\ again[1].desc = made[1].desc
        /\ Nullable(again[1]) = Nullable(made[1])

-----------------------------------------------------------------------------
(* Cells.  An instant is a number of microseconds, here small, and a wall  *)
(* clock an instant moved by the offset of a time zone.  Offsets may       *)
(* change, so that some readings of the clock occur twice.                 *)
CONSTANTS Offset,               \* of each time zone, at each instant
          Width,                \* the bits of either half of a decimal
          MicrosMin, MicrosMax  \* the instants a timestamp can have

Pow2 == 2 ^ Width
Signed(n) == IF n % Pow2 >= Pow2 \div 2 THEN (n % Pow2) - Pow2 ELSE n % Pow2

Instants == MicrosMin .. MicrosMax

(* How the settings of a response are read: an unknown format is hex, an   *)
(* unknown mode the driver's, and no time zone is UTC.                     *)
parseBinaryOutputFormat(s) ==
    CASE s \in {"BASE64", "base64 "} -> "base64"
      [] s \in {"UTF-8", "utf8"} -> "utf8"
      [] s \in {"UTF-8-LOSSY", "utf8-lossy"} -> "utf8lossy"
      [] OTHER -> "hex"
parseHTTPJSONResultMode(s) == IF s \in {"display", " Display"} THEN "display" ELSE "driver"

(* Not the code: the time zone of the response is not looked at.           *)
queryResponseColumnTypeOptionsInUTC(settings) ==
    [tz |-> "UTC",
     format |-> parseBinaryOutputFormat(settings.format),
     mode |-> parseHTTPJSONResultMode(settings.mode)]

queryResponseColumnTypeOptions(settings) ==
    [tz |-> IF settings.timezone = "" THEN "UTC" ELSE settings.timezone,
     format |-> parseBinaryOutputFormat(settings.format),
     mode |-> parseHTTPJSONResultMode(settings.mode)]

(* The instants at which the clock of a time zone shows wall: where there  *)
(* is more than one, ParseInLocation returns any of them.                  *)
ParseInLocation(wall, tz) == {t \in Instants : t + Offset[tz][t] = wall}

(* A text is what it was written as and the bytes it says; read as another *)
(* encoding it is an error or, as plain text, other bytes.                 *)
DecodeText(text, as) == IF text.enc = as THEN <<text.bytes>> ELSE <<>>

materializeBinaryFromString(text, opts) ==
    IF opts.mode # "display" THEN DecodeText(text, "hex")
    ELSE CASE opts.format = "base64" -> DecodeText(text, "base64")
           [] opts.format \in {"utf8", "utf8lossy"} ->
                  <<IF text.enc = "text" THEN text.bytes ELSE <<text.enc>> \o text.bytes>>
           [] OTHER -> DecodeText(text, "hex")

(* A driver value is <<value>>, an error <<>>, and nil neither.            *)
Nil == <<"no", "value">>

(* The texts that are the word NULL: bytes shown as text, or in base64.    *)
NullTexts == {[enc |-> "text", bytes |-> <<"NULL">>], [enc |-> "base64", bytes |-> <<"35 42 cb">>]}
checkNull(col, text) == col.desc.Nullable /\ text \in NullTexts

(* Parse of a column type: the driver values the text may become.          *)
Parse(col, text, opts) ==
    IF checkNull(col, text) THEN {Nil}
    ELSE CASE col.kind = "Timestamp" ->
                {<<[instant |-> t, zone |-> opts.tz]>> : t \in ParseInLocation(text.wall, opts.tz)}
           [] col.kind = "Timestamp_Tz" ->
                {<<[instant |-> text.wall - text.offset, offset |-> text.offset]>>}
           [] col.kind = "Date"   -> {<<[day |-> text.day, zone |-> "UTC"]>>}
           [] col.kind = "Binary" -> {materializeBinaryFromString(text, opts)}

(* materializeJSONQueryRows for one cell: null is nil whatever the type.   *)
JSONCell(dbType, cell, settings) ==
    IF cell = <<>> THEN {Nil}
    ELSE Parse(NewColumnType(dbType)[1], cell[1], queryResponseColumnTypeOptions(settings))

clampArrowTimestampMicros(value) ==
    IF value < MicrosMin THEN MicrosMin ELSE IF value > MicrosMax THEN MicrosMax ELSE value

arrowTimestampTZDecimalToTime(decimal) ==
    [instant |-> clampArrowTimestampMicros(Signed(decimal.low)), offset |-> Signed(decimal.high)]

(* materializeArrowDriverValue, by the type of the column.                 *)
materializeArrowDriverValue(desc, value, tz) ==
    CASE desc.Name = <<"Binary">>       -> <<value>>
      [] desc.Name = <<"Date">>         -> <<[day |-> value, zone |-> "UTC"]>>
      [] desc.Name = <<"Timestamp">>    -> <<[instant |-> value, zone |-> tz]>>
      [] desc.Name = <<"Timestamp_Tz">> -> <<arrowTimestampTZDecimalToTime(value)>>

(* arrowRecordToRows for one cell.                                         *)
ArrowCell(dbType, cell, settings) ==
    LET desc == Normalize(ParseTypeDesc(dbType)[1]) IN
    IF desc.Name = <<"Null">> \/ cell = <<>> THEN {Nil}
    ELSE {materializeArrowDriverValue(desc, cell[1],
              IF settings.timezone = "" THEN "UTC" ELSE settings.timezone)}

-----------------------------------------------------------------------------
(* The server: the same value as JSON text and as an Arrow cell.  It knows *)
(* the formats by the names it documents, in any case.                     *)
ServerFormat(settings) ==
    IF settings.mode \notin {"display", " Display"} THEN "hex"
    ELSE CASE settings.format \in {"BASE64", "base64 "} -> "base64"
           [] settings.format \in {"UTF-8", "utf8", "UTF-8-LOSSY", "utf8-lossy"} -> "text"
           [] OTHER -> "hex"

ServerText(type, value, settings) ==
    CASE type = "Timestamp" ->
            [wall |-> value + Offset[IF settings.timezone = "" THEN "UTC" ELSE settings.timezone][value]]
      [] type = "Timestamp_Tz" -> [wall |-> value.instant + value.offset, offset |-> value.offset]
      [] type = "Date" -> [day |-> value]
      [] type = "Binary" -> [enc |-> ServerFormat(settings), bytes |-> value]

ServerCell(type, value) ==
    IF type = "Timestamp_Tz" THEN [high |-> value.offset % Pow2, low |-> value.instant % Pow2] ELSE value

(* What JSON text cannot say: which of two instants a repeated reading of  *)
(* the clock is, bytes that are not text, shown as text, and, where the    *)
(* column is nullable, bytes whose text is the word NULL.                  *)
TextIsExact(type, value, settings, nullable) ==
    /\ type = "Timestamp" =>
          LET tz == IF settings.timezone = "" THEN "UTC" ELSE settings.timezone
          IN  \A t \in Instants : t + Offset[tz][t] = value + Offset[tz][value] => t = value
    /\ type = "Binary" /\ ServerFormat(settings) = "text" => "invalid" \notin ToSet(value)
    /\ type = "Binary" /\ nullable => ServerText(type, value, settings) \notin NullTexts

(* The spellings of a column's type: nullable in either way, or not.       *)
Spellings(type) == {<<"Nullable", "(", type, ")">>, <<type, " ", "NULL">>, <<type>>}

(* A result is the same values whether it arrives as JSON or as Arrow, in  *)
(* whatever time zone, binary format and spelling of the type the response *)
(* has, as far as the text is exact (result_rows.go:10-66,                 *)
(* columntype.go:57-235, binary.go:27-74, arrow.go:241-402, 608-669).      *)
TransportsAgree(type, cell, settings) ==
    \A json, arrow \in Spellings(type) :
        cell = <<>> \/ TextIsExact(type, cell[1], settings, json # <<type>>) =>
        LET text == IF cell = <<>> THEN <<>> ELSE <<ServerText(type, cell[1], settings)>>
            batch == IF cell = <<>> THEN <<>> ELSE <<ServerCell(type, cell[1])>>
        IN  JSONCell(json, text, settings) = ArrowCell(arrow, batch, settings)
=============================================================================
