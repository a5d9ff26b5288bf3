--------------------------- MODULE ApiRequestProofs ---------------------------
(***************************************************************************)
(* ApiRequest keeps its types and implements StatementService, for every   *)
(* workload, number of requests and number of token rotations.             *)
(***************************************************************************)
EXTENDS ApiRequest, TLAPS

\* The steps of the client and of its environment, by name.
LEMMA NextCases ==
  ASSUME [Next]_vars
  PROVE  \/ \E t \in Workload, cx \in ContextEnd \cup {"live"} : StartCall(t, cx)
         \/ BuildRequest \/ Send \/ TransportError \/ Unauthorized
         \/ ErrorStatus \/ Undecodable \/ Success \/ Retry \/ GiveUp
         \/ \E how \in ContextEnd : ContextEnds(how)
         \/ \E m \in sent : ServerRuns(m)
         \/ TokenExpires \/ TokenFileRewritten
         \/ UNCHANGED vars
  BY DEF Next, Client, Answer, Environment

LEMMA TemplateType ==
  ASSUME NEW t \in Workload
  PROVE  /\ t.kind \in Kinds /\ t.idFrom \in {"context", "session"}
         /\ t.transport \in {"json", "arrow"} /\ t.uri \in {"own", "foreign"}
  BY ConstantsAssumption DEF Templates

LEMMA InitTypeOK == Init => TypeOK
<1> SUFFICES ASSUME Init PROVE TypeOK
  OBVIOUS
<1> USE DEF Init, TypeOK, Calls, Attempts, AuthRetryLimit
<1>1. auth \in {"password", "file", "rotating"}
  BY ConstantsAssumption
<1>2. requests \in [Calls -> Requests]
  BY DEF Requests, NotStarted, Kinds
<1>3. header \in Headers /\ sent \subseteq Messages /\ known \subseteq QueryIDs
  BY DEF Headers, QueryIDs
<1>4. loaded \in 0..MaxToken /\ issued \in 0..MaxToken /\ call \in 0..MaxCalls
  BY ConstantsAssumption
<1>5. outcome \in [Calls -> Outcomes] /\ ran \in [Calls -> Nat]
  BY DEF Outcomes
<1>6. bodyError \in BOOLEAN
  OBVIOUS
<1>7. attempt \in 1..5 /\ authTry \in 1..2 /\ querySeq \in Nat
  OBVIOUS
<1>8. QED
  BY <1>1, <1>2, <1>3, <1>4, <1>5, <1>6, <1>7

LEMMA StepTypeOK ==
  ASSUME TypeOK, [Next]_vars
  PROVE  TypeOK'
<1> USE ConstantsAssumption DEF clientVars, attemptVars, serverVars, req
<1>1. ASSUME NEW t \in Workload, NEW cx \in ContextEnd \cup {"live"}, StartCall(t, cx)
      PROVE  TypeOK'
  <2>1. call + 1 \in Calls /\ call' = call + 1
    BY <1>1 DEF StartCall, TypeOK, Calls
  <2> DEFINE seq == IF t.kind = "Query" THEN querySeq + 1 ELSE querySeq
  <2>a. seq \in Nat
    BY DEF TypeOK
  <2>2. /\ querySeq' = seq
        /\ requests' = [requests EXCEPT ![call + 1] =
                          [kind |-> t.kind, idFrom |-> t.idFrom,
                           transport |-> t.transport, uri |-> t.uri, seq |-> seq]]
    BY <1>1 DEF StartCall, NextQuery
  <2> HIDE DEF seq
  <2>3. requests' \in [Calls -> Requests] /\ requests'[call'].kind \in Kinds
    BY <2>1, <2>a, <2>2, TemplateType DEF TypeOK, Requests
  <2>4. bodyError' \in BOOLEAN
    BY <1>1 DEF StartCall
  <2>5. attempt' \in 1..Attempts("Query") /\ attempt' <= Attempts(req'.kind)
    BY <1>1 DEF StartCall, Attempts
  <2>6. QED
    BY <1>1, <2>1, <2>a, <2>2, <2>3, <2>4, <2>5 DEF StartCall, TypeOK, AuthRetryLimit, Calls
<1>2. CASE BuildRequest
  <2>1. call \in Nat /\ querySeq \in Nat /\ loaded \in Nat
    BY DEF TypeOK
  <2>2. QueryIDHeader \in QueryIDs
    BY <2>1 DEF QueryIDs, QueryIDHeader
  <2>3. MakeHeaders \in Headers
    BY <2>1, <2>2 DEF MakeHeaders, Headers
  <2>4. header' \in Headers
    BY <1>2, <2>3 DEF BuildRequest, TypeOK
  <2>5. \/ pc' = "failed" /\ failure' \in {"rejected uri", "headers"}
        \/ pc' = "send" /\ failure' = failure
    BY <1>2 DEF BuildRequest, FailAttempt
  <2>6. QED
    BY <1>2, <2>4, <2>5 DEF BuildRequest, TypeOK, Failures
<1>3. CASE Send
  <2>1. sent' \subseteq Messages
    BY <1>3 DEF Send, TypeOK, Messages, Headers
  <2>2. QED
    BY <1>3, <2>1 DEF Send, FailAttempt, TypeOK, Failures, ContextEnd
<1>4. CASE TransportError
  BY <1>4 DEF TransportError, FailAttempt, TypeOK, Failures
<1>5. CASE Unauthorized
  <2>1. bodyError' \in BOOLEAN
    BY <1>5 DEF Unauthorized, DecodeErrorBody, TypeOK
  <2>2. /\ loaded' \in {loaded, issued}
        /\ \/ pc' = "failed" /\ failure' = "api"
           \/ pc' = "send" /\ failure' = failure
    BY <1>5 DEF Unauthorized, FailAttempt, ForceRotate
  <2>3. authTry' \in 1..AuthRetryLimit
    BY <1>5 DEF Unauthorized, TypeOK, AuthRetryLimit
  <2>4. QED
    BY <1>5, <2>1, <2>2, <2>3 DEF Unauthorized, TypeOK, Failures
<1>6. CASE ErrorStatus
  BY <1>6 DEF ErrorStatus, FailAttempt, DecodeErrorBody, TypeOK, Failures
<1>7. CASE Undecodable
  BY <1>7 DEF Undecodable, FailAttempt, TypeOK, Failures
<1>8. CASE Success
  BY <1>8 DEF Success, Return, TypeOK, Outcomes
<1>9. CASE Retry
  BY <1>9 DEF Retry, TypeOK, Attempts, AuthRetryLimit
<1>10. CASE GiveUp
  BY <1>10 DEF GiveUp, Return, TypeOK, Outcomes
<1>11. ASSUME NEW how \in ContextEnd, ContextEnds(how)
       PROVE  TypeOK'
  BY <1>11 DEF ContextEnds, TypeOK
<1>12. ASSUME NEW m \in sent, ServerRuns(m)
       PROVE  TypeOK'
  BY <1>12 DEF ServerRuns, TypeOK, Messages
<1>13. CASE TokenExpires
  BY <1>13 DEF TokenExpires, TypeOK
<1>14. CASE TokenFileRewritten
  BY <1>14 DEF TokenFileRewritten, TypeOK
<1>15. CASE UNCHANGED vars
  BY <1>15 DEF vars, TypeOK
<1>16. QED
  BY NextCases, <1>1, <1>2, <1>3, <1>4, <1>5, <1>6, <1>7, <1>8, <1>9, <1>10,
     <1>11, <1>12, <1>13, <1>14, <1>15

\* Every variable of a request keeps the type the Go code gives it; attempts
\* stay within doRetry's limit for the request's type.
THEOREM TypeCorrect == Spec => []TypeOK
BY InitTypeOK, StepTypeOK, PTL DEF Spec

-------------------------------------------------------------------------------
(* The query IDs.                                                          *)

LEMMA InitIdInvariant == Init => IdInvariant
<1> SUFFICES ASSUME Init PROVE IdInvariant
  OBVIOUS
<1> USE ConstantsAssumption DEF Init
<1>1. Started
  BY DEF Started
<1>2. SeqsGrow
  BY DEF SeqsGrow, IsStatement, NotStarted, Calls
<1>3. IdsOnTheWire /\ KnownMeansRan /\ OutcomesHonest
  BY DEF IdsOnTheWire, KnownMeansRan, OutcomesHonest
<1>4. QED
  BY <1>1, <1>2, <1>3 DEF IdInvariant

\* A step that starts nothing, sends nothing, runs nothing and returns nothing
\* keeps the invariant, unless it claims to hold a header.
LEMMA QuietStep ==
  ASSUME IdInvariant,
         requests' = requests, call' = call, querySeq' = querySeq,
         sent' = sent, known' = known, ran' = ran, outcome' = outcome,
         pc' \in {"send", "wait"} => (pc \in {"send", "wait"} /\ header' = header),
         pc' # "idle" => pc # "idle"
  PROVE  IdInvariant'
<1>1. Started' /\ SeqsGrow' /\ KnownMeansRan' /\ OutcomesHonest'
  BY DEF IdInvariant, Started, SeqsGrow, KnownMeansRan, OutcomesHonest, IdOf,
         IsStatement, req
<1>2. IdsOnTheWire'
  BY DEF IdInvariant, IdsOnTheWire, IdOf
<1>3. QED
  BY <1>1, <1>2 DEF IdInvariant

\* Two requests with one query ID, the second a statement, are one request.
LEMMA IdsDistinct ==
  ASSUME TypeOK, SeqsGrow,
         NEW c \in Calls, NEW d \in Calls, IdOf(c) = IdOf(d),
         c <= call, d <= call, IsStatement(c), IsStatement(d)
  PROVE  c = d
<1>1. c \in Nat /\ d \in Nat /\ requests[c].seq \in Nat /\ requests[d].seq \in Nat
  BY ConstantsAssumption DEF TypeOK, Calls, Requests
<1>2. CASE requests[c].idFrom = "context"
  BY <1>2 DEF IdOf
<1>3. CASE requests[c].idFrom # "context"
  <2>1. requests[c].seq = requests[d].seq
    BY <1>3 DEF IdOf
  <2>2. ~(c < d) /\ ~(d < c)
    BY <1>1, <2>1 DEF SeqsGrow
  <2>3. QED
    BY <1>1, <2>2
<1>4. QED
  BY <1>2, <1>3

\* If the server knows the query ID of a statement, it ran that statement.
LEMMA KnownIdRan ==
  ASSUME TypeOK, IdInvariant, NEW c \in Calls, c <= call, IsStatement(c),
         IdOf(c) \in known
  PROVE  ran[c] = 1
<1>1. PICK d \in Calls : IsStatement(d) /\ IdOf(c) = IdOf(d) /\ ran[d] = 1
  BY DEF IdInvariant, KnownMeansRan
<1>2. d <= call
  <2>1. d \in Nat /\ call \in Nat
    BY ConstantsAssumption DEF TypeOK, Calls
  <2>2. ~(d > call)
    BY <1>1 DEF IdInvariant, Started, IsStatement, NotStarted
  <2>3. QED
    BY <2>1, <2>2
<1>3. QED
  BY <1>1, <1>2, IdsDistinct DEF IdInvariant

\* A new request: its number is fresh, and so is its query ID if it is a
\* statement, because QuerySeq grows.
LEMMA StartCallIds ==
  ASSUME TypeOK, IdInvariant,
         NEW t \in Workload, NEW cx \in ContextEnd \cup {"live"}, StartCall(t, cx)
  PROVE  IdInvariant'
<1> USE ConstantsAssumption
<1> DEFINE seq == IF t.kind = "Query" THEN querySeq + 1 ELSE querySeq
           new == [kind |-> t.kind, idFrom |-> t.idFrom,
                   transport |-> t.transport, uri |-> t.uri, seq |-> seq]
<1>1. /\ call \in Nat /\ call' = call + 1 /\ call + 1 \in Calls /\ call' \in Calls
      /\ pc' = "build"
      /\ sent' = sent /\ known' = known /\ ran' = ran /\ outcome' = outcome
  BY DEF StartCall, TypeOK, Calls, serverVars
<1>2. seq \in Nat /\ querySeq \in Nat /\ querySeq' = seq /\ seq >= querySeq
  BY DEF StartCall, TypeOK, NextQuery
<1>3. requests' = [requests EXCEPT ![call'] = new]
  BY <1>1 DEF StartCall, NextQuery
<1> HIDE DEF seq
<1>4. /\ \A c \in Calls : c # call' => requests'[c] = requests[c]
      /\ requests'[call'] = new
  BY <1>1, <1>3 DEF TypeOK
<1>5. \A c \in Calls : c \in Nat /\ requests[c].seq \in Nat
  BY DEF TypeOK, Calls, Requests
<1>6. ~IsStatement(call') /\ outcome[call'] = "none"
  BY <1>1 DEF IdInvariant, Started, IsStatement, NotStarted
<1>7. \A c \in Calls : c # call' => IdOf(c)' = IdOf(c) /\ (IsStatement(c)' <=> IsStatement(c))
  BY <1>4 DEF IdOf, IsStatement
<1>8. Started'
  <2>1. ASSUME NEW c \in Calls, c > call'
        PROVE  requests'[c] = NotStarted /\ outcome'[c] = "none"
    <3>1. c > call /\ c # call'
      BY <1>1, <1>5, <2>1
    <3>2. requests'[c] = requests[c] /\ outcome' = outcome
      BY <1>1, <1>4, <3>1
    <3>3. QED
      BY <3>1, <3>2 DEF IdInvariant, Started
  <2>2. QED
    BY <2>1 DEF Started
<1>9. SeqsGrow'
  <2>1. \A c \in Calls : requests[c].seq <= querySeq
    BY DEF IdInvariant, SeqsGrow
  <2>2. ASSUME NEW c \in Calls
        PROVE  requests'[c].seq <= querySeq'
    <3>1. CASE c = call'
      BY <1>2, <1>4, <3>1
    <3>2. CASE c # call'
      <4>1. requests'[c].seq = requests[c].seq
        BY <1>4, <3>2
      <4>2. QED
        BY <1>2, <1>5, <2>1, <4>1
    <3>3. QED
      BY <3>1, <3>2
  <2>3. ASSUME NEW c \in Calls, NEW d \in Calls, c < d, d <= call', IsStatement(d)'
        PROVE  requests'[c].seq < requests'[d].seq
    <3>1. CASE d = call'
      <4>1. t.kind = "Query" /\ seq = querySeq + 1
        BY <1>4, <2>3, <3>1 DEF IsStatement, seq
      <4>2. requests'[c] = requests[c] /\ requests'[d].seq = seq
        BY <1>1, <1>4, <1>5, <2>3, <3>1
      <4>3. QED
        BY <1>2, <1>5, <2>1, <4>1, <4>2
    <3>2. CASE d # call'
      <4>1. d <= call /\ c # call'
        BY <1>1, <1>5, <2>3, <3>2
      <4>2. QED
        BY <1>4, <1>7, <2>3, <3>2, <4>1 DEF IdInvariant, SeqsGrow
    <3>3. QED
      BY <3>1, <3>2
  <2>4. (req.seq = querySeq)'
    BY <1>1, <1>2, <1>4 DEF req
  <2>5. QED
    BY <2>2, <2>3, <2>4 DEF SeqsGrow
<1>10. IdsOnTheWire'
  <2>1. ASSUME NEW m \in sent
        PROVE  m.call <= call' /\ m.id = IdOf(m.call)'
    <3>1. m.call \in Calls /\ m.call <= call /\ m.id = IdOf(m.call)
      BY DEF IdInvariant, IdsOnTheWire, TypeOK, Messages
    <3>a. m.call \in Nat
      BY <1>5, <3>1
    <3>2. m.call <= call' /\ m.call # call'
      BY <1>1, <3>1, <3>a
    <3>3. IdOf(m.call)' = IdOf(m.call)
      BY <1>7, <3>1, <3>2
    <3>4. QED
      BY <3>1, <3>2, <3>3
  <2>2. QED
    BY <1>1, <2>1 DEF IdsOnTheWire
<1>11. KnownMeansRan'
  <2>1. ASSUME NEW id \in known
        PROVE  \E c \in Calls : IsStatement(c)' /\ id = IdOf(c)' /\ ran'[c] = 1
    <3>1. PICK c \in Calls : IsStatement(c) /\ id = IdOf(c) /\ ran[c] = 1
      BY DEF IdInvariant, KnownMeansRan
    <3>2. c # call'
      BY <1>6, <3>1
    <3>3. QED
      BY <1>1, <1>7, <3>1, <3>2
  <2>2. ASSUME NEW c \in Calls
        PROVE  \/ ran'[c] = 0
               \/ ran'[c] = 1 /\ IsStatement(c)' /\ IdOf(c)' \in known'
    BY <1>1, <1>6, <1>7 DEF IdInvariant, KnownMeansRan
  <2>3. QED
    BY <1>1, <2>1, <2>2 DEF KnownMeansRan
<1>12. OutcomesHonest'
  BY <1>1, <1>6, <1>7 DEF IdInvariant, OutcomesHonest
<1>13. QED
  BY <1>8, <1>9, <1>10, <1>11, <1>12 DEF IdInvariant

\* The server runs a statement: its query ID was unknown, so the statement had
\* not run before.
LEMMA ServerRunsIds ==
  ASSUME TypeOK, IdInvariant, NEW m \in sent, ServerRuns(m)
  PROVE  /\ IdInvariant'
         /\ IsStatement(m.call) /\ m.call \in Calls /\ m.call <= call
         /\ ran[m.call] = 0 /\ ran' = [ran EXCEPT ![m.call] = 1]
<1> USE ConstantsAssumption
<1>1. /\ m.call \in Calls /\ m.call <= call /\ m.id = IdOf(m.call)
  BY DEF TypeOK, Messages, IdInvariant, IdsOnTheWire
<1>2. IsStatement(m.call) /\ m.id \notin known /\ known' = known \cup {m.id}
  BY DEF ServerRuns, IsStatement
<1>3. ran[m.call] = 0
  BY <1>1, <1>2 DEF IdInvariant, KnownMeansRan
<1>4. ran' = [ran EXCEPT ![m.call] = 1]
  BY <1>3 DEF ServerRuns
<1>5. /\ ran'[m.call] = 1
      /\ \A c \in Calls : c # m.call => ran'[c] = ran[c]
  BY <1>1, <1>4 DEF TypeOK
<1>6. /\ requests' = requests /\ call' = call /\ querySeq' = querySeq /\ pc' = pc
      /\ header' = header /\ sent' = sent /\ outcome' = outcome
  BY DEF ServerRuns, clientVars, attemptVars
<1>7. Started' /\ SeqsGrow' /\ IdsOnTheWire'
  BY <1>6 DEF IdInvariant, Started, SeqsGrow, IdsOnTheWire, IdOf, IsStatement, req
<1>8. \A c \in Calls : IdOf(c)' = IdOf(c) /\ (IsStatement(c)' <=> IsStatement(c))
  BY <1>6 DEF IdOf, IsStatement
<1>9. KnownMeansRan'
  <2>1. ASSUME NEW id \in known'
        PROVE  \E c \in Calls : IsStatement(c)' /\ id = IdOf(c)' /\ ran'[c] = 1
    <3>1. CASE id = m.id
      BY <1>1, <1>2, <1>5, <1>8, <3>1
    <3>2. CASE id \in known
      <4>1. PICK c \in Calls : IsStatement(c) /\ id = IdOf(c) /\ ran[c] = 1
        BY <3>2 DEF IdInvariant, KnownMeansRan
      <4>2. QED
        BY <1>3, <1>5, <1>8, <4>1
    <3>3. QED
      BY <1>2, <3>1, <3>2
  <2>2. ASSUME NEW c \in Calls
        PROVE  \/ ran'[c] = 0
               \/ ran'[c] = 1 /\ IsStatement(c)' /\ IdOf(c)' \in known'
    BY <1>1, <1>2, <1>5, <1>8 DEF IdInvariant, KnownMeansRan
  <2>3. QED
    BY <2>1, <2>2 DEF KnownMeansRan
<1>10. OutcomesHonest'
  BY <1>5, <1>6, <1>8, <1>3 DEF IdInvariant, OutcomesHonest
<1>11. QED
  BY <1>1, <1>2, <1>3, <1>4, <1>7, <1>9, <1>10 DEF IdInvariant

\* A statement the server answers with 200 has run.
LEMMA ServedStatementRan ==
  ASSUME TypeOK, IdInvariant, pc = "wait", Served, IsStatement(call)
  PROVE  ran[call] = 1
<1>1. call \in Calls /\ call \in Nat
  BY ConstantsAssumption DEF TypeOK, Calls
<1>2. call <= call
  BY <1>1
<1>3. IdOf(call) \in known
  BY <1>1 DEF Served, IsStatement, req, IdInvariant, IdsOnTheWire
<1>4. QED
  BY <1>1, <1>2, <1>3, KnownIdRan

LEMMA StepIdInvariant ==
  ASSUME TypeOK, IdInvariant, [Next]_vars
  PROVE  IdInvariant'
<1> USE DEF clientVars, attemptVars, serverVars
<1>1. ASSUME NEW t \in Workload, NEW cx \in ContextEnd \cup {"live"}, StartCall(t, cx)
      PROVE  IdInvariant'
  BY <1>1, StartCallIds
<1>2. CASE BuildRequest
  <2>1. call \in Calls /\ requests' = requests /\ call' = call /\ querySeq' = querySeq
        /\ sent' = sent /\ known' = known /\ ran' = ran /\ outcome' = outcome
    BY <1>2 DEF BuildRequest, TypeOK
  <2>2. MakeHeaders.id = IdOf(call)
    BY <2>1 DEF MakeHeaders, QueryIDHeader, IdOf, req, IdInvariant, SeqsGrow
  <2>3. pc = "build" /\ (pc' = "failed" \/ (pc' = "send" /\ header' = MakeHeaders))
    BY <1>2 DEF BuildRequest, FailAttempt
  <2>4. IdsOnTheWire'
    BY <2>1, <2>2, <2>3 DEF IdInvariant, IdsOnTheWire, IdOf
  <2>5. Started' /\ SeqsGrow' /\ KnownMeansRan' /\ OutcomesHonest'
    BY <2>1, <2>3 DEF IdInvariant, Started, SeqsGrow, KnownMeansRan, OutcomesHonest,
                      IdOf, IsStatement, req
  <2>6. QED
    BY <2>4, <2>5 DEF IdInvariant
<1>3. CASE Send
  <2>1. /\ requests' = requests /\ call' = call /\ querySeq' = querySeq
        /\ known' = known /\ ran' = ran /\ outcome' = outcome /\ header' = header
        /\ pc = "send" /\ pc' \in {"failed", "wait"}
    BY <1>3 DEF Send, FailAttempt
  <2>2. header.id = IdOf(call) /\ call \in Nat /\ call <= call
    BY <2>1, ConstantsAssumption DEF IdInvariant, IdsOnTheWire, TypeOK
  <2>3. ASSUME NEW m \in sent'
        PROVE  m.call <= call /\ m.id = IdOf(m.call)
    <3>1. CASE m \in sent
      BY <3>1 DEF IdInvariant, IdsOnTheWire
    <3>2. CASE m = [call |-> call, id |-> header.id, token |-> header.token]
      BY <2>2, <3>2
    <3>3. QED
      BY <1>3, <2>3, <3>1, <3>2 DEF Send
  <2>4. IdsOnTheWire'
    BY <2>1, <2>2, <2>3 DEF IdsOnTheWire, IdOf
  <2>5. Started' /\ SeqsGrow' /\ KnownMeansRan' /\ OutcomesHonest'
    BY <2>1 DEF IdInvariant, Started, SeqsGrow, KnownMeansRan, OutcomesHonest,
                IdOf, IsStatement, req
  <2>6. QED
    BY <2>4, <2>5 DEF IdInvariant
<1>4. CASE TransportError
  BY <1>4, QuietStep DEF TransportError, FailAttempt
<1>5. CASE Unauthorized
  <2>1. pc = "wait" /\ pc' \in {"send", "failed"} /\ header' = header
    BY <1>5 DEF Unauthorized, FailAttempt
  <2>2. QED
    BY <1>5, <2>1, QuietStep DEF Unauthorized
<1>6. CASE ErrorStatus
  BY <1>6, QuietStep DEF ErrorStatus, FailAttempt
<1>7. CASE Undecodable
  BY <1>7, QuietStep DEF Undecodable, FailAttempt
<1>8. CASE Success
  <2>1. /\ requests' = requests /\ call' = call /\ querySeq' = querySeq
        /\ known' = known /\ ran' = ran /\ sent' = sent /\ header' = header
        /\ pc = "wait" /\ Served /\ pc' = "idle"
    BY <1>8 DEF Success, Return
  <2>a. call \in Calls /\ call \in Nat
    BY <2>1, ConstantsAssumption DEF TypeOK, Calls
  <2>2. IsStatement(call) => ran[call] = 1
    BY <2>1, ServedStatementRan
  <2>3. \A c \in Calls : c # call => outcome'[c] = outcome[c]
    BY <1>8 DEF Success, Return, TypeOK
  <2>4. Started'
    BY <2>1, <2>a, <2>3, ConstantsAssumption DEF IdInvariant, Started, Calls
  <2>5. OutcomesHonest'
    BY <2>1, <2>a, <2>2, <2>3 DEF IdInvariant, OutcomesHonest, IsStatement
  <2>6. SeqsGrow' /\ KnownMeansRan' /\ IdsOnTheWire'
    BY <2>1 DEF IdInvariant, SeqsGrow, KnownMeansRan, IdsOnTheWire, IdOf, IsStatement, req
  <2>7. QED
    BY <2>4, <2>5, <2>6 DEF IdInvariant
<1>9. CASE Retry
  BY <1>9, QuietStep DEF Retry
<1>10. CASE GiveUp
  <2>1. /\ requests' = requests /\ call' = call /\ querySeq' = querySeq
        /\ known' = known /\ ran' = ran /\ sent' = sent /\ header' = header
        /\ pc = "failed" /\ pc' = "idle"
    BY <1>10 DEF GiveUp, Return
  <2>a. call \in Calls /\ call \in Nat
    BY <2>1, ConstantsAssumption DEF TypeOK, Calls
  <2>2. /\ \A c \in Calls : c # call => outcome'[c] = outcome[c]
        /\ outcome'[call] \in {"query error", failure}
    BY <1>10 DEF GiveUp, Return, TypeOK
  <2>3. failure # "ok"
    BY DEF TypeOK, Failures, ContextEnd
  <2>4. ASSUME NEW c \in Calls, c > call
        PROVE  requests[c] = NotStarted /\ outcome'[c] = "none"
    <3>1. c # call
      BY <2>a, <2>4
    <3>2. QED
      BY <2>2, <2>4, <3>1 DEF IdInvariant, Started
  <2>b. Started'
    BY <2>1, <2>4 DEF Started
  <2>5. OutcomesHonest'
    BY <2>1, <2>a, <2>2, <2>3 DEF IdInvariant, OutcomesHonest, IsStatement
  <2>6. SeqsGrow' /\ KnownMeansRan' /\ IdsOnTheWire'
    BY <2>1 DEF IdInvariant, SeqsGrow, KnownMeansRan, IdsOnTheWire, IdOf, IsStatement, req
  <2>7. QED
    BY <2>b, <2>5, <2>6 DEF IdInvariant
<1>11. ASSUME NEW how \in ContextEnd, ContextEnds(how)
       PROVE  IdInvariant'
  BY <1>11, QuietStep DEF ContextEnds
<1>12. ASSUME NEW m \in sent, ServerRuns(m)
       PROVE  IdInvariant'
  BY <1>12, ServerRunsIds
<1>13. CASE TokenExpires
  BY <1>13, QuietStep DEF TokenExpires
<1>14. CASE TokenFileRewritten
  BY <1>14, QuietStep DEF TokenFileRewritten
<1>15. CASE UNCHANGED vars
  BY <1>15, QuietStep DEF vars
<1>16. QED
  BY NextCases, <1>1, <1>2, <1>3, <1>4, <1>5, <1>6, <1>7, <1>8, <1>9, <1>10,
     <1>11, <1>12, <1>13, <1>14, <1>15

\* Every query ID in a header, on the wire or in the server's memory belongs to
\* one statement, and a statement is reported as done only if it ran.
THEOREM QueryIdsCorrect == Spec => []IdInvariant
BY InitIdInvariant, StepIdInvariant, TypeCorrect, PTL DEF Spec

-------------------------------------------------------------------------------
(* The refinement.                                                         *)

LEMMA InitRefines == Init => Service!Init
BY DEF Init, Service!Init, PhaseOf, IsStatement, NotStarted

\* A change to one statement's phase is the same change to the mapped function.
LEMMA PhaseStep ==
  ASSUME TypeOK, NEW s \in Calls, NEW p,
         PhaseOf(s)' = p,
         \A c \in Calls \ {s} : PhaseOf(c)' = PhaseOf(c)
  PROVE  [c \in Calls |-> PhaseOf(c)]' = [[c \in Calls |-> PhaseOf(c)] EXCEPT ![s] = p]
OBVIOUS

LEMMA StepRefines ==
  ASSUME TypeOK, IdInvariant, [Next]_vars
  PROVE  [Service!Next]_Service!vars
<1> USE ConstantsAssumption DEF clientVars, attemptVars, serverVars
<1>1. ASSUME requests' = requests, outcome' = outcome, ran' = ran
      PROVE  UNCHANGED Service!vars
  BY <1>1 DEF Service!vars, PhaseOf, IsStatement
<1>2. ASSUME NEW t \in Workload, NEW cx \in ContextEnd \cup {"live"}, StartCall(t, cx)
      PROVE  [Service!Next]_Service!vars
  <2>1. call' \in Calls /\ ran' = ran /\ outcome' = outcome
    BY <1>2 DEF StartCall, TypeOK, Calls
  <2>2. /\ \A c \in Calls \ {call'} : requests'[c] = requests[c]
        /\ requests'[call'].kind = t.kind
    BY <1>2, <2>1 DEF StartCall, TypeOK
  <2>3. PhaseOf(call') = "new" /\ outcome[call'] = "none"
    BY <1>2, <2>1 DEF StartCall, IdInvariant, Started, PhaseOf, IsStatement, NotStarted, TypeOK
  <2>4. \A c \in Calls \ {call'} : PhaseOf(c)' = PhaseOf(c)
    BY <2>1, <2>2 DEF PhaseOf, IsStatement
  <2>5. (PhaseOf(call))' = IF t.kind = "Query" THEN "open" ELSE "new"
    BY <2>1, <2>2, <2>3 DEF PhaseOf, IsStatement
  <2>6. CASE t.kind = "Query"
    <3>1. Service!Submit(call')
      BY <2>1, <2>3, <2>4, <2>5, <2>6 DEF Service!Submit
    <3>2. QED
      BY <2>1, <3>1 DEF Service!Next
  <2>7. CASE t.kind # "Query"
    BY <2>1, <2>3, <2>4, <2>5, <2>7 DEF Service!vars
  <2>8. QED
    BY <2>6, <2>7
<1>3. ASSUME NEW r \in Outcomes, r # "none", pc # "idle",
             requests' = requests, ran' = ran,
             outcome' = [outcome EXCEPT ![call] = r],
             IsStatement(call) /\ r = "ok" => ran[call] = 1
      PROVE  [Service!Next]_Service!vars
  <2>1. call \in Calls /\ outcome[call] = "none"
    BY <1>3 DEF TypeOK, IdInvariant, OutcomesHonest
  <2>2. outcome'[call] = r /\ \A c \in Calls \ {call} : outcome'[c] = outcome[c]
    BY <1>3, <2>1 DEF TypeOK
  <2>3. \A c \in Calls \ {call} : PhaseOf(c)' = PhaseOf(c)
    BY <1>3, <2>2 DEF PhaseOf, IsStatement
  <2>4. CASE ~IsStatement(call)
    <3>1. \A c \in Calls : PhaseOf(c)' = PhaseOf(c)
      BY <1>3, <2>2, <2>3, <2>4 DEF PhaseOf, IsStatement
    <3>2. QED
      BY <1>3, <3>1 DEF Service!vars
  <2>5. CASE IsStatement(call) /\ r = "ok"
    <3>1. PhaseOf(call) = "open"
      BY <1>3, <2>1, <2>2, <2>5 DEF PhaseOf, IsStatement
    <3>2. Service!Confirm(call)
      <4>1. PhaseOf(call) = "open" /\ requests'[call].kind = "Query" /\ outcome'[call] = "ok"
        BY <1>3, <2>2, <2>5, <3>1 DEF IsStatement
      <4>2. [c \in Calls |-> PhaseOf(c)]'
              = [[c \in Calls |-> PhaseOf(c)] EXCEPT ![call] = "confirmed"]
        <5>1. ASSUME NEW c \in Calls, c = call PROVE PhaseOf(c)' = "confirmed"
          BY <1>3, <2>1, <4>1, <5>1 DEF PhaseOf, IsStatement
        <5>2. QED
          BY <2>1, <2>3, <5>1
      <4>3. QED
        BY <1>3, <2>1, <2>5, <4>1, <4>2 DEF Service!Confirm
    <3>3. QED
      BY <2>1, <3>2 DEF Service!Next
  <2>6. CASE IsStatement(call) /\ r # "ok"
    <3>1. Service!Reject(call)
      <4>1. PhaseOf(call) = "open" /\ requests'[call].kind = "Query"
        BY <1>3, <2>1, <2>6 DEF PhaseOf, IsStatement
      <4>2. ASSUME NEW c \in Calls, c = call PROVE PhaseOf(c)' = "failed"
        BY <1>3, <2>2, <2>6, <4>1, <4>2 DEF PhaseOf, IsStatement
      <4>3. [c \in Calls |-> PhaseOf(c)]' = [[c \in Calls |-> PhaseOf(c)] EXCEPT ![call] = "failed"]
        BY <2>1, <2>3, <4>2
      <4>4. QED
        BY <1>3, <2>1, <4>1, <4>3 DEF Service!Reject
    <3>2. QED
      BY <2>1, <3>1 DEF Service!Next
  <2>7. QED
    BY <2>4, <2>5, <2>6
<1>4. CASE Success
  <2>1. PICK r \in {"ok", "query error"} : outcome' = [outcome EXCEPT ![call] = r]
    BY <1>4 DEF Success, Return
  <2>2. IsStatement(call) => ran[call] = 1
    BY <1>4, ServedStatementRan DEF Success
  <2>3. QED
    BY <1>3, <1>4, <2>1, <2>2 DEF Success, Outcomes
<1>5. CASE GiveUp
  <2>1. failure \in Failures
    BY <1>5 DEF GiveUp, TypeOK
  <2>2. PICK r \in {"query error", failure} : outcome' = [outcome EXCEPT ![call] = r]
    BY <1>5 DEF GiveUp, Return
  <2>3. r \in Outcomes /\ r # "none" /\ r # "ok"
    BY <2>1, <2>2 DEF Outcomes, Failures, ContextEnd
  <2>4. requests' = requests /\ ran' = ran /\ pc # "idle"
    BY <1>5 DEF GiveUp
  <2>5. QED
    BY <1>3, <2>2, <2>3, <2>4
<1>6. ASSUME NEW m \in sent, ServerRuns(m)
      PROVE  [Service!Next]_Service!vars
  <2>1. /\ IsStatement(m.call) /\ m.call \in Calls
        /\ ran[m.call] = 0 /\ ran' = [ran EXCEPT ![m.call] = 1]
        /\ requests' = requests /\ outcome' = outcome
    BY <1>6, ServerRunsIds DEF ServerRuns
  <2>2. PhaseOf(m.call) # "new" /\ \A c \in Calls : PhaseOf(c)' = PhaseOf(c)
    BY <2>1 DEF PhaseOf, IsStatement
  <2>3. Service!TakeEffect(m.call)
    BY <2>1, <2>2 DEF Service!TakeEffect
  <2>4. QED
    BY <2>1, <2>3 DEF Service!Next
<1>7. CASE \/ BuildRequest \/ Send \/ TransportError \/ Unauthorized
           \/ ErrorStatus \/ Undecodable \/ Retry
           \/ \E how \in ContextEnd : ContextEnds(how)
           \/ TokenExpires \/ TokenFileRewritten \/ UNCHANGED vars
  <2>1. requests' = requests /\ outcome' = outcome /\ ran' = ran
    BY <1>7 DEF BuildRequest, Send, TransportError, Unauthorized, ErrorStatus,
                Undecodable, Retry, ContextEnds, TokenExpires, TokenFileRewritten, vars
  <2>2. QED
    BY <1>1, <2>1
<1>8. QED
  BY NextCases, <1>2, <1>4, <1>5, <1>6, <1>7

\* The client implements the promise of StatementService, for any workload:
\* repeated requests run a statement at most once, and a statement reported as
\* done has run.
THEOREM AtMostOnce == Spec => RefinesStatementService
<1>1. Init => Service!Init
  BY InitRefines
<1>2. TypeOK /\ IdInvariant /\ [Next]_vars => [Service!Next]_Service!vars
  BY StepRefines
<1>3. QED
  BY <1>1, <1>2, TypeCorrect, QueryIdsCorrect, PTL
     DEF Spec, RefinesStatementService, Service!Spec

-------------------------------------------------------------------------------
(* What a call reports.                                                    *)

TransportFailures == {"do request", "read response", "proxy"}

\* doRetry reports what it retries only when no attempt is left.
TransportFailureIsLast ==
  pc = "idle" /\ call \in Calls /\ outcome[call] \in TransportFailures
  => attempt = Attempts(req.kind)

\* doRequestRaw decodes nothing before it succeeds.
ArrowKeepsNoError == pc # "idle" /\ req.transport = "arrow" => ~bodyError

\* The inductive invariant.
ReportInvariant ==
  TransportFailureIsLast /\ ArrowKeepsNoError /\ ArrowQueryErrorIsTheServers

LEMMA InitReports == Init => ReportInvariant
BY DEF Init, ReportInvariant, TransportFailureIsLast, ArrowKeepsNoError,
       ArrowQueryErrorIsTheServers, TransportFailures

\* A step that reports nothing: the call goes on, or none is in progress, and
\* the struct of an Arrow answer is left alone.
LEMMA NothingReported ==
  ASSUME TypeOK, ReportInvariant,
         requests' = requests, call' = call, outcome' = outcome,
         \A c \in Calls : ran[c] = 1 => ran'[c] = 1,
         pc # "idle" => pc' # "idle",
         pc = "idle" => pc' = "idle" /\ attempt' = attempt,
         bodyError' = bodyError \/ req.transport # "arrow"
  PROVE  ReportInvariant'
<1>1. TransportFailureIsLast' /\ ArrowKeepsNoError'
  BY DEF ReportInvariant, TransportFailureIsLast, ArrowKeepsNoError, req
<1>2. ArrowQueryErrorIsTheServers'
  BY DEF ReportInvariant, ArrowQueryErrorIsTheServers, IsStatement
<1>3. QED
  BY <1>1, <1>2 DEF ReportInvariant

\* A call returns.
LEMMA CallReported ==
  ASSUME TypeOK, ReportInvariant, NEW r \in Outcomes,
         pc # "idle", pc' = "idle", requests' = requests, call' = call, ran' = ran,
         outcome' = [outcome EXCEPT ![call] = r],
         r \in TransportFailures => attempt' = Attempts(req.kind),
         IsStatement(call) /\ req.transport = "arrow" /\ r = "query error" => ran[call] = 1
  PROVE  ReportInvariant'
<1>1. call \in Calls
  BY DEF TypeOK
<1>2. outcome'[call] = r /\ \A c \in Calls : c # call => outcome'[c] = outcome[c]
  BY <1>1 DEF TypeOK
<1>3. TransportFailureIsLast' /\ ArrowKeepsNoError'
  BY <1>2 DEF TransportFailureIsLast, ArrowKeepsNoError, req
<1>4. ArrowQueryErrorIsTheServers'
  BY <1>2 DEF ReportInvariant, ArrowQueryErrorIsTheServers, IsStatement, req
<1>5. QED
  BY <1>3, <1>4 DEF ReportInvariant

LEMMA StepReports ==
  ASSUME TypeOK, IdInvariant, ReportInvariant, [Next]_vars
  PROVE  ReportInvariant'
<1> USE DEF clientVars, attemptVars, serverVars
<1>1. ASSUME NEW t \in Workload, NEW cx \in ContextEnd \cup {"live"}, StartCall(t, cx)
      PROVE  ReportInvariant'
  <2>1. /\ pc' = "build" /\ bodyError' = FALSE /\ outcome' = outcome /\ ran' = ran
        /\ \E new : requests' = [requests EXCEPT ![call + 1] = new]
    BY <1>1 DEF StartCall
  <2>a. call + 1 \in Calls
    BY <1>1, ConstantsAssumption DEF StartCall, TypeOK, Calls
  <2>2. outcome[call + 1] = "none"
    <3>1. call + 1 > call
      BY ConstantsAssumption DEF TypeOK
    <3>2. QED
      BY <2>a, <3>1 DEF IdInvariant, Started
  <2>3. \A c \in Calls : c # call + 1 => requests'[c] = requests[c]
    BY <2>1 DEF TypeOK
  <2>4. ArrowQueryErrorIsTheServers'
    BY <2>1, <2>a, <2>2, <2>3 DEF ReportInvariant, ArrowQueryErrorIsTheServers, IsStatement
  <2>5. QED
    BY <2>1, <2>4 DEF ReportInvariant, TransportFailureIsLast, ArrowKeepsNoError
<1>2. CASE BuildRequest
  BY <1>2, NothingReported DEF BuildRequest, FailAttempt
<1>3. CASE Send
  BY <1>3, NothingReported DEF Send, FailAttempt
<1>4. CASE TransportError
  BY <1>4, NothingReported DEF TransportError, FailAttempt
<1>5. CASE Unauthorized
  BY <1>5, NothingReported DEF Unauthorized, FailAttempt, DecodeErrorBody
<1>6. CASE ErrorStatus
  BY <1>6, NothingReported DEF ErrorStatus, FailAttempt, DecodeErrorBody
<1>7. CASE Undecodable
  BY <1>7, NothingReported DEF Undecodable, FailAttempt
<1>8. CASE Success
  <2>1. PICK r \in {"ok", "query error"} : outcome' = [outcome EXCEPT ![call] = r]
    BY <1>8 DEF Success, Return
  <2>2. IsStatement(call) => ran[call] = 1
    BY <1>8, ServedStatementRan DEF Success
  <2>3. r \in Outcomes /\ r \notin TransportFailures
    BY DEF Outcomes, TransportFailures
  <2>4. pc # "idle" /\ pc' = "idle" /\ requests' = requests /\ call' = call /\ ran' = ran
    BY <1>8 DEF Success, Return
  <2>5. QED
    BY <2>1, <2>2, <2>3, <2>4, CallReported
<1>9. CASE Retry
  BY <1>9, NothingReported DEF Retry
<1>10. CASE GiveUp
  <2>1. /\ pc # "idle" /\ pc' = "idle" /\ requests' = requests /\ call' = call /\ ran' = ran
        /\ attempt' = attempt /\ bodyError' = bodyError
        /\ ~Retryable(req.kind, failure) \/ attempt = Attempts(req.kind)
        /\ outcome' = [outcome EXCEPT ![call] = IF bodyError THEN "query error" ELSE failure]
    BY <1>10 DEF GiveUp, Return
  <2>2. failure \in Failures /\ failure # "query error"
    BY <1>10 DEF GiveUp, TypeOK, Failures, ContextEnd
  <2>3. req.transport = "arrow" => ~bodyError
    BY <2>1 DEF ReportInvariant, ArrowKeepsNoError
  <2> DEFINE r == IF bodyError THEN "query error" ELSE failure
  <2>4. /\ r \in Outcomes
        /\ r \in TransportFailures => attempt = Attempts(req.kind)
        /\ req.transport = "arrow" => r # "query error"
    BY <2>1, <2>2, <2>3 DEF Outcomes, TransportFailures, Retryable
  <2>5. QED
    BY <2>1, <2>4, CallReported
<1>11. ASSUME NEW how \in ContextEnd, ContextEnds(how)
       PROVE  ReportInvariant'
  BY <1>11, NothingReported DEF ContextEnds
<1>12. ASSUME NEW m \in sent, ServerRuns(m)
       PROVE  ReportInvariant'
  <2>1. \A c \in Calls : ran[c] = 1 => ran'[c] = 1
    BY <1>12, ServerRunsIds DEF TypeOK
  <2>2. QED
    BY <1>12, <2>1, NothingReported DEF ServerRuns
<1>13. CASE TokenExpires
  BY <1>13, NothingReported DEF TokenExpires
<1>14. CASE TokenFileRewritten
  BY <1>14, NothingReported DEF TokenFileRewritten
<1>15. CASE UNCHANGED vars
  BY <1>15, NothingReported DEF vars
<1>16. QED
  BY NextCases, <1>1, <1>2, <1>3, <1>4, <1>5, <1>6, <1>7, <1>8, <1>9, <1>10,
     <1>11, <1>12, <1>13, <1>14, <1>15

LEMMA ReportsHonest == Spec => []ReportInvariant
BY InitReports, StepReports, TypeCorrect, QueryIdsCorrect, PTL DEF Spec

\* If the context of a call has ended, the call reports a transport failure only
\* of its last attempt: RetryIf (doRetry) accepts every such failure, so any
\* attempt but the last is followed by one that finds out about the context.
THEOREM EndedContextsAreReported == Spec => []ContextEndIsReported
<1>1. ReportInvariant => ContextEndIsReported
  BY DEF ReportInvariant, TransportFailureIsLast, TransportFailures, ContextEndIsReported
<1>2. QED
  BY <1>1, ReportsHonest, PTL

\* A statement on the Arrow transport is reported as a query error only if the
\* server ran it: doRequestRaw decodes the body of no failed attempt, and the
\* server answers 200 only to a query ID it knows.
THEOREM ArrowErrorsAreTheServers == Spec => []ArrowQueryErrorIsTheServers
BY ReportsHonest, PTL DEF ReportInvariant
===============================================================================
