----------------------------- MODULE DataSource -----------------------------
(***************************************************************************)
(* The data source name: how a DSN becomes a Config and a Config a DSN     *)
(* (dsn.go), and the endpoint a client of that Config talks to (client.go).*)
(*                                                                         *)
(* A DSN is a record of its URL parts: scheme, user information (none or   *)
(* one text), host, port ("" when absent), path and query parameters.      *)
(* User information and path are sequences of characters; a percent sign   *)
(* and the code after it are two of them.  A parameter value is one token, *)
(* "bad" being one its parameter cannot parse.  Parsing yields a SET of    *)
(* outcomes, as the order in which the parameters are visited is that of a *)
(* Go map: << >> for an error, <<cfg>> for a Config.                       *)
(***************************************************************************)
EXTENDS Integers, FiniteSets, Sequences, SequencesExt

HTTPSchemes == {"http", "lake+http", "db+http", "dd+http", "bend+http"}
HTTPSSchemes == {"https", "lake+https", "db+https", "dd+https", "bend+https"}
PlainSchemes == {"lake", "db", "dd", "bend"}

Durations == {"timeout"}
Counts    == {"wait_time_secs", "max_rows_in_buffer", "max_rows_per_page"}
Booleans  == {"debug", "enable_http_compression", "presign_allow_private",
              "presigned_url_disabled", "enable_otel"}
Texts     == {"empty_field_as", "tls_config", "tenant", "warehouse", "role",
              "access_token", "access_token_file", "sslmode"}
Fields    == Durations \union Counts \union Booleans \union Texts
                 \union {"location", "login", "query_result_format"}
Refused   == {"default_format", "query", "database"}
(* The keys whose case assigns the error of AddParams; login only does on  *)
(* a value it refuses.                                                     *)
Checked   == Durations \union Counts \union Booleans \union {"location", "query_result_format"}

-----------------------------------------------------------------------------
(* User information.                                                       *)

Codes == [c \in {"@", ":", "%"} |-> CASE c = "@" -> "40" [] c = ":" -> "3A" [] OTHER -> "25"]
CodeOf(char) == Codes[char]
CharOf(code) == CHOOSE c \in DOMAIN Codes : Codes[c] = code

(* url.PathUnescape: an error, and so no change, if any percent sign lacks *)
(* a code.                                                                 *)
WellEscaped(text) ==
    \A i \in DOMAIN text : text[i] = "%" =>
        i < Len(text) /\ text[i + 1] \in {Codes[c] : c \in DOMAIN Codes}

Decoded(text) ==
    IF ~WellEscaped(text) THEN text
    ELSE FlattenSeq([i \in DOMAIN text |->
            IF text[i] = "%" THEN <<CharOf(text[i + 1])>>
            ELSE IF i > 1 /\ text[i - 1] = "%" THEN <<>>
            ELSE <<text[i]>>])

Encoded(text) ==
    FlattenSeq([i \in DOMAIN text |->
        IF text[i] \in DOMAIN Codes THEN <<"%", CodeOf(text[i])>> ELSE <<text[i]>>])

ColonAt(text) ==
    IF \E i \in DOMAIN text : text[i] = ":"
    THEN CHOOSE i \in DOMAIN text : text[i] = ":" /\ \A j \in 1 .. i - 1 : text[j] # ":"
    ELSE Len(text) + 1

UserPart(text) == SubSeq(text, 1, ColonAt(text) - 1)
PasswordPart(text) == SubSeq(text, ColonAt(text) + 1, Len(text))

(* The user information is unescaped where it can be and escaped again, so *)
(* that url.Parse accepts one written without escapes.                     *)
autoEncodeUserPassInDSN(text) ==
    Encoded(Decoded(UserPart(text)))
        \o (IF Contains(text, ":") THEN <<":">> \o Encoded(Decoded(PasswordPart(text))) ELSE <<>>)

-----------------------------------------------------------------------------
(* The Config: its fields by the key of their parameter, "" being the zero *)
(* value ("false", 0), and what has no key.                                *)
NewConfig ==
    [host |-> "", port |-> "443", user |-> <<>>, password |-> <<>>, database |-> <<>>,
     field |-> [k \in Fields |->
                  CASE k = "location" -> "UTC"
                    [] k = "login" -> "enable"
                    [] k = "query_result_format" -> "json"
                    [] OTHER -> ""],
     Params |-> [k \in {} |-> ""]]

makeDefaultConfigValue(cfg) ==
    [cfg EXCEPT !.field["empty_field_as"] = IF @ = "" THEN "string" ELSE @,
                !.field["query_result_format"] = IF @ = "" THEN "json" ELSE @]

(* What the case of key makes of the value: the value its field then has.  *)
FieldValue(key, value) ==
    CASE key \in Texts -> value
      [] key \in Booleans -> IF value \in {"1", "true"} THEN "true" ELSE ""
      [] key \in Durations \union Counts -> IF value \in {"bad", "", "0"} THEN "" ELSE value
      [] key = "location" -> CASE value = "bad" -> "nil" [] value = "" -> "UTC" [] OTHER -> value
      [] key = "query_result_format" -> CASE value = "bad" -> "" [] value = "" -> "json" [] OTHER -> value
      [] key = "login" -> IF value = "disable" THEN "disable" ELSE "enable"

ParseFails(key, value) ==
    \/ value = "bad" /\ key \in Checked \union {"login"}
    \/ value = "" /\ key \in Durations \union Counts \union Booleans

Put(params, key, value) ==
    [k \in DOMAIN params \union {key} |-> IF k = key THEN value ELSE params[k]]

(* Not the code: the case of login clears the error of another parameter.  *)
AddParamLoginClears(st, key, value) ==
    [cfg |-> IF key \in Fields /\ ~(key = "login" /\ value = "bad")
             THEN [st.cfg EXCEPT !.field[key] = FieldValue(key, value)] ELSE st.cfg,
     err |-> IF key \in Checked \union {"login"} THEN ParseFails(key, value) ELSE st.err]

(* One turn of the loop.  Every case of a checked key overwrites the error *)
(* of the turns before it.                                                 *)
AddParam(st, key, value) ==
    [cfg |-> CASE key = "login" /\ value = "bad" -> st.cfg
               [] key = "enable_http_compression" ->
                    [st.cfg EXCEPT !.field[key] = FieldValue(key, value), !.Params = Put(@, key, value)]
               [] key \in Fields /\ key # "enable_http_compression" /\ ~(key = "login" /\ value = "bad") ->
                    [st.cfg EXCEPT !.field[key] = FieldValue(key, value)]
               [] OTHER -> [st.cfg EXCEPT !.Params = Put(@, key, value)],
     err |-> IF key \in Checked \/ (key = "login" /\ value = "bad")
             THEN ParseFails(key, value) ELSE st.err]

(* location and timezone are one parameter with two names.                 *)
WithAlias(params) ==
    CASE "location" \in DOMAIN params /\ "timezone" \notin DOMAIN params ->
            Put(params, "timezone", params["location"])
      [] "timezone" \in DOMAIN params /\ "location" \notin DOMAIN params ->
            Put(params, "location", params["timezone"])
      [] OTHER -> params

Conflicting(params) ==
    {"location", "timezone"} \subseteq DOMAIN params /\ params["location"] # params["timezone"]

(* The keys that neither read nor assign the error are visited first, in   *)
(* some order: it makes no difference, as each writes a place of its own.  *)
AddParams(cfg0, given) ==
    LET params == WithAlias(given)
        order == {k \in DOMAIN params : k \in Checked \/ k = "login"}
        Visit(st, k) == AddParam(st, k, params[k])
        First == FoldLeft(Visit, [cfg |-> makeDefaultConfigValue(cfg0), err |-> FALSE],
                          SetToSeq(DOMAIN params \ order))
    IN  IF Conflicting(given) \/ DOMAIN given \intersect Refused # {} THEN {<<>>}
        ELSE {LET st == FoldLeft(Visit, First, keys)
              IN  IF st.err THEN <<>> ELSE <<st.cfg>> : keys \in SetToSeqs(order)}

Userinfo(dsn) == IF dsn.userinfo = <<>> THEN <<>> ELSE autoEncodeUserPassInDSN(dsn.userinfo[1])

(* The Config of a DSN before its parameters: an HTTP scheme asks for a    *)
(* plain connection.                                                       *)
BaseConfig(dsn) ==
    [NewConfig EXCEPT
        !.field["sslmode"] = IF dsn.scheme \in HTTPSchemes THEN "disable" ELSE @,
        !.database = IF Len(dsn.path) > 1 THEN Tail(dsn.path) ELSE @,
        !.user = Decoded(UserPart(Userinfo(dsn))),
        !.password = Decoded(PasswordPart(Userinfo(dsn)))]

DefaultPort(cfg) == IF cfg.field["sslmode"] = "disable" THEN "80" ELSE "443"

(* Not the code: an HTTPS scheme does not refuse sslmode=disable.          *)
ParseDSNOfAnyMode(dsn) ==
    IF \/ ~WellEscaped(Userinfo(dsn))
       \/ dsn.scheme \notin HTTPSchemes \union HTTPSSchemes \union PlainSchemes
    THEN {<<>>}
    ELSE {IF outcome = <<>> THEN <<>>
          ELSE <<[outcome[1] EXCEPT !.host = dsn.host,
                                    !.port = IF dsn.port # "" THEN dsn.port ELSE DefaultPort(outcome[1])]>>
          : outcome \in AddParams(BaseConfig(dsn), dsn.params)}

(* The whole parse: the URL, the scheme, the parameters, and the port that *)
(* goes with the mode of TLS they leave.                                   *)
ParseDSN(dsn) ==
    IF \/ ~WellEscaped(Userinfo(dsn))
       \/ dsn.scheme \notin HTTPSchemes \union HTTPSSchemes \union PlainSchemes
    THEN {<<>>}
    ELSE {IF outcome = <<>> THEN <<>>
          ELSE IF dsn.scheme \in HTTPSSchemes /\ outcome[1].field["sslmode"] = "disable" THEN <<>>
          ELSE <<[outcome[1] EXCEPT !.host = dsn.host,
                                    !.port = IF dsn.port # "" THEN dsn.port ELSE DefaultPort(outcome[1])]>>
          : outcome \in AddParams(BaseConfig(dsn), dsn.params)}

(* Not the code: the mode of TLS is not written.                           *)
ShowsButMode(cfg, key) ==
    CASE key = "location" -> cfg.field[key] \notin {"UTC", "nil"}
      [] key = "login" -> cfg.field[key] = "disable"
      [] key = "query_result_format" -> cfg.field[key] \notin {"", "json"}
      [] key = "empty_field_as" -> TRUE
      [] key = "sslmode" -> FALSE
      [] OTHER -> cfg.field[key] # ""

(* The parameters FormatDSN writes for the fields: those that differ from  *)
(* their zero value, except that empty_field_as always has one.            *)
Shows(cfg, key) ==
    CASE key = "location" -> cfg.field[key] \notin {"UTC", "nil"}
      [] key = "login" -> cfg.field[key] = "disable"
      [] key = "query_result_format" -> cfg.field[key] \notin {"", "json"}
      [] key = "empty_field_as" -> TRUE
      [] OTHER -> cfg.field[key] # ""

FormatValue(cfg, key) ==
    CASE key \in {"enable_otel", "presign_allow_private"} -> "true"
      [] key \in {"debug", "enable_http_compression", "presigned_url_disabled"} -> "1"
      [] key = "empty_field_as" /\ cfg.field[key] = "" -> "string"
      [] OTHER -> cfg.field[key]

(* Params come last and replace what was written for the same key.         *)
FormatDSN(cfg) ==
    LET shown == {k \in Fields : Shows(cfg, k)}
        path == IF cfg.database = <<>> THEN <<"/">>
                ELSE IF Head(cfg.database) = "/" THEN cfg.database ELSE <<"/">> \o cfg.database
    IN  [scheme |-> "lake", host |-> cfg.host, port |-> cfg.port, path |-> path,
         userinfo |-> IF cfg.user = <<>> THEN <<>>
                      ELSE IF cfg.password = <<>> THEN <<Encoded(cfg.user)>>
                      ELSE <<Encoded(cfg.user) \o <<":">> \o Encoded(cfg.password)>>,
         params |-> [k \in shown \union DOMAIN cfg.Params |->
                        IF k \in DOMAIN cfg.Params THEN cfg.Params[k] ELSE FormatValue(cfg, k)]]

(* The endpoint of a client (NewAPIClientFromConfig).                      *)
apiEndpoint(cfg) ==
    [scheme |-> IF cfg.field["sslmode"] = "disable" THEN "http" ELSE "https",
     host |-> cfg.host, port |-> cfg.port]

-----------------------------------------------------------------------------
Configs(dsn) == {outcome[1] : outcome \in ParseDSN(dsn) \ {<<>>}}

Invalid(dsn) ==
    LET params == WithAlias(dsn.params) IN {k \in DOMAIN params : ParseFails(k, params[k])}

(* What a DSN cannot say: a password without a user, an empty text for     *)
(* empty_field_as, and a database whose name starts with a slash.          *)
Expressible(cfg) ==
    /\ cfg.user = <<>> => cfg.password = <<>>
    /\ cfg.field["empty_field_as"] # ""
    /\ cfg.database # <<>> => Head(cfg.database) # "/"

(* FormatDSN writes a DSN that is parsed back to the same Config, whatever *)
(* DSN that Config came from, in every order of the parameters             *)
(* (dsn.go:104-191, 344-412).                                              *)
FormatRoundTrips(dsn) ==
    Invalid(dsn) = {} =>
        \A cfg \in Configs(dsn) : Expressible(cfg) => ParseDSN(FormatDSN(cfg)) = {<<cfg>>}

(* The user and the password are those of the DSN, whether it escapes them *)
(* or not, also where a percent sign or a second colon is among them       *)
(* (dsn.go:311-362).  A raw "@" is left out: README.md:281-283 wants it    *)
(* escaped, though the code takes the last one for the end.                *)
CredentialsAreRead(dsn) ==
    dsn.userinfo # <<>> /\ ~Contains(dsn.userinfo[1], "@") /\ dsn.params = [k \in {} |-> ""] =>
        /\ Configs(dsn) # {}
        /\ \A cfg \in Configs(dsn) :
              /\ cfg.user = Decoded(UserPart(dsn.userinfo[1]))
              /\ cfg.password = Decoded(PasswordPart(dsn.userinfo[1]))

(* The order in which the parameters are visited, which differs from call  *)
(* to call, matters only for a DSN that has both an invalid value and a    *)
(* checked one that is valid: without the first it is accepted, or         *)
(* refused, in every order, and without the second always refused          *)
(* (dsn.go:213-262).                                                       *)
OrderMattersOnlyWhenMixed(dsn) ==
    LET params == WithAlias(dsn.params) IN
    /\ Invalid(dsn) = {} => Cardinality(ParseDSN(dsn)) = 1
    /\ (Invalid(dsn) # {} /\ \A k \in DOMAIN params \intersect Checked : ParseFails(k, params[k]))
       => ParseDSN(dsn) = {<<>>}

(* A client sends in plain text, and takes port 80 for a DSN without one,  *)
(* exactly when the DSN asks for it; an HTTPS scheme never does            *)
(* (dsn.go:368-409, client.go:190-196; README.md:226-228).                 *)
PlainTextOnlyOnRequest(dsn) ==
    LET asked == IF "sslmode" \in DOMAIN dsn.params
                 THEN dsn.params["sslmode"] = "disable"
                 ELSE dsn.scheme \in HTTPSchemes
    IN  \A cfg \in Configs(dsn) :
            LET endpoint == apiEndpoint(cfg) IN
            /\ endpoint.scheme = (IF asked THEN "http" ELSE "https")
            /\ endpoint.port = (IF dsn.port # "" THEN dsn.port ELSE IF asked THEN "80" ELSE "443")
            /\ dsn.scheme \in HTTPSSchemes => endpoint.scheme = "https"
=============================================================================
