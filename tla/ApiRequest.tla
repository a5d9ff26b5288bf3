------------------------------ MODULE ApiRequest ------------------------------
(***************************************************************************)
(* One API client sends logical requests to the warehouse, one after the   *)
(* other.  A logical request is doRetry (client.go) around doRequest       *)
(* (client.go) or doRequestRaw (arrow.go): up to Attempts attempts, each   *)
(* of them up to AuthRetryLimit HTTP exchanges.  The caller's context may  *)
(* end, messages may be lost or run late, the server may refuse or answer  *)
(* with an error, and access tokens may be rotated at any moment.          *)
(*                                                                         *)
(* The server side and the network are external: they are modelled from    *)
(* what the client relies on, in particular that the server treats a       *)
(* repeated query ID as a retry (transaction.go, txContext).               *)
(***************************************************************************)
EXTENDS Naturals

CONSTANTS Auths,     \* the clients' credentials: a password, or the kind of token loader
          Workload,  \* the requests the caller may make
          MaxCalls,  \* bound: logical requests the client makes
          MaxToken   \* bound: rotations of the access token

Calls == 1..MaxCalls
Kinds == {"Query", "Page", "Final", "Kill"}

\* What a caller asks for: the request type, where the query ID comes from (the
\* context, put there by the user or by checkQueryID, or the client's own
\* SessionID and QuerySeq), how the answer is decoded, and whether the URI
\* stays on the endpoint.
Templates == [kind : Kinds, idFrom : {"context", "session"},
              transport : {"json", "arrow"}, uri : {"own", "foreign"}]

\* The path of a statement is the constant "/v1/query"; the other URIs come
\* from a response of the server.
ASSUME ConstantsAssumption ==
  /\ Auths \subseteq {"password", "file", "rotating"}
  /\ Workload \subseteq {t \in Templates : t.kind = "Query" => t.uri = "own"}
  /\ MaxCalls \in Nat
  /\ MaxToken \in Nat

ContextEnd == {"canceled", "deadline"}

\* Attempts of doRetry, by RequestType.
Attempts(kind) == IF kind = "Query" THEN 5 ELSE 3

\* HTTP exchanges of one attempt: authRetryLimit.
AuthRetryLimit == 2

\* The error classes an attempt can end with, as RetryIf tells them apart.
Failures == ContextEnd \cup {"rejected uri", "do request", "read response",
                             "proxy", "provision", "api", "decode", "headers"}
Outcomes == Failures \cup {"none", "ok", "query error"}

\* A logical request, with the value QuerySeq had when it was started.
Requests == [kind : Kinds \cup {"none"}, idFrom : {"context", "session"},
             transport : {"json", "arrow"}, uri : {"own", "foreign"}, seq : Nat]
NotStarted == [kind |-> "none", idFrom |-> "context", transport |-> "json",
               uri |-> "own", seq |-> 0]

QueryIDs == {"context", "session"} \X Nat
Headers == [id : QueryIDs, token : Nat]
Messages == [call : Calls, id : QueryIDs, token : Nat]

VARIABLES
  auth,       \* authMethod and kind of loader; never changes
  loaded,     \* the token LoadAccessToken returns
  querySeq,   \* APIClient.QuerySeq
  requests,   \* the logical requests, by number
  call,       \* number of the current, or last, logical request
  ctx,        \* state of its context
  pc,         \* where the current request is
  attempt,    \* attempts of doRetry so far
  authTry,    \* exchanges of this attempt so far
  header,     \* the header makeHeaders built for this attempt
  failure,    \* how the last attempt ended
  bodyError,  \* the response struct's Error field is set
  outcome,    \* what each logical request returned
  issued,     \* the token the server accepts
  sent,       \* messages put on the wire
  known,      \* query IDs the server has seen
  ran         \* how often each request's statement ran

clientVars == <<auth, querySeq, requests, call>>
attemptVars == <<attempt, authTry, header>>
serverVars == <<sent, known, ran>>
vars == <<auth, loaded, querySeq, requests, call, ctx, pc, attempt, authTry,
          header, failure, bodyError, outcome, issued, sent, known, ran>>

req == requests[call]

TypeOK ==
  /\ auth \in {"password", "file", "rotating"}
  /\ loaded \in 0..MaxToken /\ issued \in 0..MaxToken
  /\ querySeq \in Nat
  /\ requests \in [Calls -> Requests]
  /\ call \in 0..MaxCalls
  /\ ctx \in ContextEnd \cup {"live"}
  /\ pc \in {"idle", "build", "send", "wait", "failed"}
  /\ attempt \in 1..Attempts("Query")
  /\ (pc # "idle" => call \in Calls /\ attempt <= Attempts(req.kind))
  /\ authTry \in 1..AuthRetryLimit
  /\ header \in Headers
  /\ failure \in Failures \cup {"none"} /\ (pc = "failed" => failure # "none")
  /\ bodyError \in BOOLEAN
  /\ outcome \in [Calls -> Outcomes]
  /\ sent \subseteq Messages
  /\ known \subseteq QueryIDs
  /\ ran \in [Calls -> Nat]

Init ==
  /\ auth \in Auths
  /\ loaded = 0 /\ issued = 0
  /\ querySeq = 0
  /\ requests = [c \in Calls |-> NotStarted]
  /\ call = 0
  /\ ctx = "live"
  /\ pc = "idle"
  /\ attempt = 1 /\ authTry = 1
  /\ header = [id |-> <<"session", 0>>, token |-> 0]
  /\ failure = "none"
  /\ bodyError = FALSE
  /\ outcome = [c \in Calls |-> "none"]
  /\ sent = {} /\ known = {}
  /\ ran = [c \in Calls |-> 0]

-------------------------------------------------------------------------------
(* The client.                                                             *)

\* Mutant: the sequence number is not advanced.
NextQueryReused(seq) == seq

\* NextQuery: only a new statement advances QuerySeq.
NextQuery(seq) == seq + 1

\* WHO: the caller (startQueryRequestWithTransport, pollQueryWithTransport,
\* CloseQuery, KillQuery).  The context may have ended already.
StartCall(t, cx) ==
  /\ pc = "idle" /\ call < MaxCalls
  /\ LET seq == IF t.kind = "Query" THEN NextQuery(querySeq) ELSE querySeq
     IN  /\ querySeq' = seq
         /\ requests' = [requests EXCEPT ![call + 1] =
                           [kind |-> t.kind, idFrom |-> t.idFrom,
                            transport |-> t.transport, uri |-> t.uri, seq |-> seq]]
  /\ call' = call + 1
  /\ ctx' = cx
  /\ pc' = "build"
  /\ attempt' = 1 /\ authTry' = 1
  /\ failure' = "none" /\ bodyError' = FALSE
  /\ UNCHANGED <<auth, loaded, header, outcome, issued, serverVars>>

\* An attempt ends with an error and doRetry looks at it.
FailAttempt(f) == pc' = "failed" /\ failure' = f

\* The query ID header: the context's ID, or GetQueryID.
QueryIDHeader == IF req.idFrom = "context" THEN <<"context", call>>
                                           ELSE <<"session", querySeq>>

\* makeHeaders, run once for each attempt.
MakeHeaders == [id |-> QueryIDHeader, token |-> loaded]

\* WHO: the client.  makeURL refuses a foreign URI; makeHeaders fails when the
\* token cannot be loaded.
BuildRequest ==
  /\ pc = "build"
  /\ \/ req.uri = "foreign" /\ FailAttempt("rejected uri") /\ UNCHANGED header
     \/ /\ req.uri = "own" /\ auth # "password"
        /\ FailAttempt("headers") /\ UNCHANGED header
     \/ /\ req.uri = "own"
        /\ header' = MakeHeaders
        /\ pc' = "send" /\ UNCHANGED failure
  /\ UNCHANGED <<clientVars, loaded, ctx, attempt, authTry, bodyError, outcome,
                 issued, serverVars>>

\* WHO: the client, at the top of the authentication loop: the context is
\* checked, then the same header goes out again.
Send ==
  /\ pc = "send"
  /\ \/ /\ ctx # "live" /\ FailAttempt(ctx) /\ UNCHANGED sent
     \/ /\ ctx = "live"
        /\ sent' = sent \cup {[call |-> call, id |-> header.id, token |-> header.token]}
        /\ pc' = "wait" /\ UNCHANGED failure
  /\ UNCHANGED <<clientVars, loaded, ctx, attemptVars, bodyError, outcome,
                 issued, known, ran>>

\* WHO: the network or the context.  cli.Do or the read of the body fails; a
\* context that ends meanwhile shows up here and loses its identity.
TransportError ==
  /\ pc = "wait"
  /\ \E f \in {"do request", "read response"} : FailAttempt(f)
  /\ UNCHANGED <<clientVars, loaded, ctx, attemptVars, bodyError, outcome,
                 issued, serverVars>>

\* Mutant: doRequestRaw decodes error answers too.
DecodeAnyBody == bodyError' \in {bodyError, TRUE}

\* The body of an error answer.  doRequest decodes a JSON body into the
\* response struct all attempts share, whatever the status; doRequestRaw
\* decodes answers with status 200 only; Final and Kill have no struct.
DecodeErrorBody ==
  IF req.transport = "json" /\ req.kind \in {"Query", "Page"}
    THEN bodyError' \in {bodyError, TRUE}
    ELSE UNCHANGED bodyError

Accepted(token) == auth = "password" \/ token = issued

\* LoadAccessToken with forceRotate: only a rotating loader fetches a token.
ForceRotate == loaded' = IF auth = "rotating" THEN issued ELSE loaded

\* WHO: the server answers 401.  With an access token the client rotates it
\* and goes round the loop once more.
Unauthorized ==
  /\ pc = "wait"
  /\ auth = "password" \/ ~Accepted(header.token)
  /\ DecodeErrorBody
  /\ \/ /\ auth # "password" /\ authTry < AuthRetryLimit
        /\ ForceRotate
        /\ authTry' = authTry + 1
        /\ pc' = "send" /\ UNCHANGED failure
     \/ /\ auth = "password" \/ authTry = AuthRetryLimit
        /\ FailAttempt("api")
        /\ UNCHANGED <<loaded, authTry>>
  /\ UNCHANGED <<clientVars, ctx, attempt, header, outcome, issued, serverVars>>

\* WHO: the server or a proxy answers with an error status: 520, a warehouse
\* provisioning timeout, or any other.
ErrorStatus ==
  /\ pc = "wait"
  /\ \E f \in {"proxy", "provision", "api"} : FailAttempt(f)
  /\ DecodeErrorBody
  /\ UNCHANGED <<clientVars, loaded, ctx, attemptVars, outcome, issued, serverVars>>

\* The server answers a statement with 200 only once it knows its query ID.
Served == req.kind = "Query" => header.id \in known

\* WHO: the server answers 200 and the client cannot decode the body it wants.
\* A JSON body may have set the Error field before the decoder gave up.
Undecodable ==
  /\ pc = "wait" /\ Served /\ req.kind \in {"Query", "Page"}
  /\ FailAttempt("decode")
  /\ bodyError' \in (IF req.transport = "json" THEN BOOLEAN ELSE {bodyError})
  /\ UNCHANGED <<clientVars, loaded, ctx, attemptVars, outcome, issued, serverVars>>

\* The call returns: a set Error field wins over the error of the last attempt
\* (finalizeQueryResponse, pollQueryWithTransport).
Return(result) ==
  /\ outcome' = [outcome EXCEPT ![call] =
                   IF bodyError' THEN "query error" ELSE result]
  /\ pc' = "idle"

\* WHO: the server answers 200.  The body of a statement or of a page may carry
\* a query error, and otherwise carries "error": null.
Success ==
  /\ pc = "wait" /\ Served
  /\ bodyError' \in (IF req.kind \in {"Query", "Page"} THEN BOOLEAN ELSE {FALSE})
  /\ Return("ok")
  /\ UNCHANGED <<clientVars, loaded, ctx, attemptVars, failure, issued, serverVars>>

\* Mutant: only statements are retried.
RetryableStatements(kind, f) ==
  kind = "Query" /\ f \in {"do request", "read response", "proxy", "rejected uri", "provision"}

\* RetryIf of doRetry.  A rejected URI unwraps to ErrDoRequest.
Retryable(kind, f) ==
  \/ f \in {"do request", "read response", "proxy", "rejected uri"}
  \/ kind = "Query" /\ f = "provision"

\* Mutant: one attempt too many.
RetryOnceMore ==
  /\ pc = "failed"
  /\ Retryable(req.kind, failure) /\ attempt <= Attempts(req.kind)
  /\ attempt' = attempt + 1
  /\ authTry' = 1
  /\ pc' = "build"
  /\ UNCHANGED <<clientVars, loaded, ctx, header, failure, bodyError,
                 outcome, issued, serverVars>>

\* Mutant: a proxy error does not count as an attempt.
RetryUncounted ==
  /\ pc = "failed"
  /\ Retryable(req.kind, failure) /\ attempt < Attempts(req.kind)
  /\ attempt' = IF failure = "proxy" THEN attempt ELSE attempt + 1
  /\ authTry' = 1
  /\ pc' = "build"
  /\ UNCHANGED <<clientVars, loaded, ctx, header, failure, bodyError,
                 outcome, issued, serverVars>>

\* WHO: the client starts another attempt after the fixed delay, which does
\* not look at the context.
Retry ==
  /\ pc = "failed"
  /\ Retryable(req.kind, failure) /\ attempt < Attempts(req.kind)
  /\ attempt' = attempt + 1
  /\ authTry' = 1
  /\ pc' = "build"
  /\ UNCHANGED <<clientVars, loaded, ctx, header, failure, bodyError,
                 outcome, issued, serverVars>>

\* WHO: the client returns the last error.
GiveUp ==
  /\ pc = "failed"
  /\ ~Retryable(req.kind, failure) \/ attempt = Attempts(req.kind)
  /\ UNCHANGED bodyError
  /\ Return(failure)
  /\ UNCHANGED <<clientVars, loaded, ctx, attemptVars, failure, issued, serverVars>>

-------------------------------------------------------------------------------
(* The environment.                                                        *)

\* WHO: the caller, or a timer, ends the context of the request in progress.
ContextEnds(how) ==
  /\ pc # "idle" /\ ctx = "live"
  /\ ctx' = how
  /\ UNCHANGED <<clientVars, loaded, pc, attemptVars, failure, bodyError,
                 outcome, issued, serverVars>>

\* WHO: the server takes a statement off the wire, at any later time and as
\* often as it likes.  A query ID it has seen already is a retry.
ServerRuns(m) ==
  /\ m \in sent /\ requests[m.call].kind = "Query"
  /\ Accepted(m.token)
  /\ m.id \notin known
  /\ known' = known \cup {m.id}
  /\ ran' = [ran EXCEPT ![m.call] = @ + 1]
  /\ UNCHANGED <<clientVars, loaded, ctx, pc, attemptVars, failure, bodyError,
                 outcome, issued, sent>>

\* WHO: the server stops accepting the old access token.
TokenExpires ==
  /\ auth # "password" /\ issued < MaxToken
  /\ issued' = issued + 1
  /\ UNCHANGED <<clientVars, loaded, ctx, pc, attemptVars, failure, bodyError,
                 outcome, serverVars>>

\* WHO: somebody rewrites the file a FileAccessTokenLoader reads.
TokenFileRewritten ==
  /\ auth = "file" /\ loaded # issued
  /\ loaded' = issued
  /\ UNCHANGED <<clientVars, ctx, pc, attemptVars, failure, bodyError,
                 outcome, issued, serverVars>>

Answer == TransportError \/ Unauthorized \/ ErrorStatus \/ Undecodable \/ Success

Client == BuildRequest \/ Send \/ Answer \/ Retry \/ GiveUp

Environment ==
  \/ \E how \in ContextEnd : ContextEnds(how)
  \/ \E m \in sent : ServerRuns(m)
  \/ TokenExpires \/ TokenFileRewritten

Next ==
  \/ \E t \in Workload, cx \in ContextEnd \cup {"live"} : StartCall(t, cx)
  \/ Client
  \/ Environment

Spec == Init /\ [][Next]_vars

\* The client's goroutine is scheduled, and every exchange ends: the server
\* answers, the connection breaks, or the HTTP client's Timeout fires.
Fairness == WF_vars(Client)
FairSpec == Spec /\ Fairness

-------------------------------------------------------------------------------
(* Properties.                                                             *)

IsStatement(c) == requests[c].kind = "Query"

\* What the application knows of the statement of each call.
PhaseOf(c) == IF ~IsStatement(c) THEN "new"
              ELSE IF outcome[c] = "none" THEN "open"
              ELSE IF outcome[c] = "ok" THEN "confirmed" ELSE "failed"

Service == INSTANCE StatementService
             WITH Statements <- Calls,
                  phase <- [c \in Calls |-> PhaseOf(c)],
                  effects <- ran

\* However often doRetry and the authentication loop repeat the request, and
\* however late a repeated message arrives, a statement runs at most once and
\* is reported as done only if it ran: all attempts carry one query ID and no
\* two statements share one.
RefinesStatementService == Service!Spec

\* The query ID of a logical request.
IdOf(c) == IF requests[c].idFrom = "context" THEN <<"context", c>>
                                             ELSE <<"session", requests[c].seq>>

Started == \A c \in Calls : c > call => requests[c] = NotStarted /\ outcome[c] = "none"

\* QuerySeq grows with every statement, and is what the current request has.
SeqsGrow ==
  /\ \A c, d \in Calls : c < d /\ d <= call /\ IsStatement(d)
                         => requests[c].seq < requests[d].seq
  /\ \A c \in Calls : requests[c].seq <= querySeq
  /\ call \in Calls => req.seq = querySeq

\* Everything on the wire carries the query ID of its request.
IdsOnTheWire ==
  /\ pc \in {"send", "wait"} => header.id = IdOf(call)
  /\ \A m \in sent : m.call <= call /\ m.id = IdOf(m.call)

\* The server's memory of query IDs is exactly its memory of what it ran.
KnownMeansRan ==
  /\ \A id \in known : \E c \in Calls : IsStatement(c) /\ id = IdOf(c) /\ ran[c] = 1
  /\ \A c \in Calls : ran[c] = 0 \/ (ran[c] = 1 /\ IsStatement(c) /\ IdOf(c) \in known)

OutcomesHonest ==
  /\ \A c \in Calls : IsStatement(c) /\ outcome[c] = "ok" => ran[c] = 1
  /\ pc # "idle" => outcome[call] = "none"

\* The invariant behind RefinesStatementService: the query ID in any header,
\* message or memory of the server leads back to one statement.  It would fail
\* if an attempt, or a statement, drew its ID at the wrong moment.
IdInvariant == Started /\ SeqsGrow /\ IdsOnTheWire /\ KnownMeansRan /\ OutcomesHonest

\* The callers of doRetry decide between killing and finalizing a query by
\* asking whether the error is context.Canceled.  If the context has ended, the
\* call reports a transport failure only when that happened on its last
\* attempt: on any earlier one the next attempt finds out about the context.
ContextEndIsReported ==
  pc = "idle" /\ call \in Calls /\ ctx # "live"
     /\ outcome[call] \in {"do request", "read response", "proxy"}
  => attempt = Attempts(req.kind)

\* On the Arrow transport the body of a failed attempt never leaks into the
\* result: a statement is reported as a query error only if the server ran it.
ArrowQueryErrorIsTheServers ==
  \A c \in Calls :
    IsStatement(c) /\ requests[c].transport = "arrow" /\ outcome[c] = "query error"
    => ran[c] = 1

\* Every request that was started returns, whatever the server, the network and
\* the token loader do: retries are bounded and no error loops.
CallsReturn == \A c \in Calls : (call = c /\ pc # "idle") ~> (outcome[c] # "none")

-------------------------------------------------------------------------------
(* What comments and documents say of the code, and the code does not do.   *)

\* client.go: "retry with a rotated access token".  The exchange that follows a
\* forced rotation carries the token the loader then returns.
AuthRetryUsesRotatedToken ==
  pc = "wait" /\ auth = "rotating" /\ authTry = AuthRetryLimit
  => header.token = loaded

\* README.md, 0.9.4 upgrade notes: a rejected URI "is not retried with the
\* previous fixed-delay retry loop".
RejectedURIIsNotRetried ==
  pc # "idle" /\ failure = "rejected uri" => attempt = 1
===============================================================================
