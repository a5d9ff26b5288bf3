---------------------------- MODULE ConnectionInit ----------------------------
(***************************************************************************)
(* The first use, and the end, of an APIClient (client.go).  Whoever needs *)
(* the client, on whatever goroutine, first goes through                   *)
(* initializeConnectionInfo, which logs in once and learns which transport *)
(* results come on; then it sends statements or verifies the connection.   *)
(* LakeConn.Close (connection.go) logs out when nobody uses the client.    *)
(*                                                                         *)
(* The server is external: it opens a session for each login that reaches  *)
(* it, whether or not the answer arrives.                                  *)
(***************************************************************************)
EXTENDS Naturals

CONSTANTS Callers,  \* goroutines that use the client
          Nobody,   \* stands for an unlocked mutex
          MaxCalls  \* bound: calls of the client

ASSUME ConstantsAssumption == Nobody \notin Callers /\ MaxCalls \in Nat

\* httpArrowResultVersionMax
ArrowVersion == 2

VARIABLES
  config,       \* loginEnabled, stateRestored and queryResultFormat; never change
  mutex,        \* connectionInitMu
  initialized,  \* connectionInfoInitialized
  arrow,        \* httpArrowEnabled, "unknown" until it is checked
  loggedIn,     \* sessionLoggedIn
  keepAlive,    \* sessionState.NeedKeepAlive
  sessionID,    \* SessionID: 0 is the client's own, others come from logins
  pc,           \* where each caller is
  tries,        \* attempts of Verify
  calls,        \* calls made so far
  sent,         \* statements: session and transport
  opened,       \* sessions the server opened
  answered,     \* sessions whose login the client got an answer for
  closing       \* the connection: "open", "closed", or "logged out"

client == <<config, initialized, arrow, loggedIn, keepAlive, sessionID>>
server == <<sent, opened, answered, closing>>
vars == <<client, mutex, pc, tries, calls, server>>

Switch == {"yes", "no"}
Configurations == [login : Switch, restored : Switch, format : {"arrow", "json"}]
Transports == {"arrow", "json"}

TypeOK ==
  /\ config \in Configurations
  /\ mutex \in Callers \cup {Nobody}
  /\ initialized \in Switch /\ arrow \in {"unknown"} \cup Switch
  /\ loggedIn \in Switch /\ keepAlive \in Switch
  /\ sessionID \in 0..opened
  /\ pc \in [Callers -> {"idle", "lock", "login", "ready", "verify"}]
  /\ \A c \in Callers : pc[c] = "login" <=> mutex = c
  /\ tries \in [Callers -> 1..3]
  /\ calls \in 0..MaxCalls
  /\ sent \subseteq [session : 0..opened, transport : Transports]
  /\ opened \in Nat
  /\ answered \subseteq 1..opened
  /\ closing \in {"open", "closed", "logged out"}

Init ==
  /\ config \in Configurations
  /\ mutex = Nobody
  /\ initialized = "no" /\ arrow = "unknown"
  /\ loggedIn = "no" /\ keepAlive = "no"
  /\ sessionID = 0
  /\ pc = [c \in Callers |-> "idle"]
  /\ tries = [c \in Callers |-> 1]
  /\ calls = 0
  /\ sent = {} /\ opened = 0 /\ answered = {}
  /\ closing = "open"

-------------------------------------------------------------------------------
(* initializeConnectionInfo.                                               *)

GoTo(c, place) == pc' = [pc EXCEPT ![c] = place]

\* Mutant: a caller does not wait for a login that is under way.
EnterWithoutWaiting(c) ==
  /\ pc[c] = "idle" /\ calls < MaxCalls /\ closing = "open"
  /\ calls' = calls + 1
  /\ GoTo(c, IF config.restored = "yes" \/ mutex # Nobody THEN "ready" ELSE "lock")
  /\ UNCHANGED <<client, mutex, tries, server>>

\* WHO: a caller of StartQuery, PollQuery, QuerySync or Verify, or of
\* buildLakeConn.  A client restored from a state does not initialize.
Enter(c) ==
  /\ pc[c] = "idle" /\ calls < MaxCalls /\ closing = "open"
  /\ calls' = calls + 1
  /\ GoTo(c, IF config.restored = "yes" THEN "ready" ELSE "lock")
  /\ UNCHANGED <<client, mutex, tries, server>>

\* The mutex is free.  The client is initialized already, or needs no login:
\* then it is unlocked again at once; or the login request goes out.
Lock(c) ==
  /\ pc[c] = "lock" /\ mutex = Nobody
  /\ \/ initialized = "yes" /\ GoTo(c, "ready") /\ UNCHANGED <<mutex, initialized, arrow>>
     \/ /\ initialized = "no" /\ config.login = "no"
        /\ initialized' = "yes" /\ arrow' = "no"
        /\ GoTo(c, "ready") /\ UNCHANGED mutex
     \/ /\ initialized = "no" /\ config.login = "yes"
        /\ GoTo(c, "login") /\ mutex' = c /\ UNCHANGED <<initialized, arrow>>
  /\ UNCHANGED <<config, loggedIn, keepAlive, sessionID, tries, calls, server>>

\* setHTTPArrowCapability, for a version the login answer reports or 0.
Capability(version) == IF version >= ArrowVersion THEN "yes" ELSE "no"

\* Mutant: sessionLoggedIn is set together with the session ID.
MarkLoggedInByHeader(id) == loggedIn' = IF id = sessionID THEN loggedIn ELSE "yes"

\* login: the answer counts even without a session ID in its headers.
MarkLoggedIn(id) == loggedIn' = "yes"

\* Mutant: a second login is not ruled out.
LoginNotRemembered(c) ==
  /\ pc[c] = "login"
  /\ opened' = opened + 1 /\ answered' = answered \cup {opened'}
  /\ \E version \in 0..ArrowVersion : arrow' = Capability(version)
  /\ sessionID' \in {sessionID, opened'}
  /\ loggedIn' = "yes"
  /\ mutex' = Nobody /\ GoTo(c, "ready")
  /\ UNCHANGED <<config, initialized, keepAlive, tries, calls, sent, closing>>

\* The login succeeds.
LoginSucceeds(c) ==
  /\ pc[c] = "login"
  /\ opened' = opened + 1 /\ answered' = answered \cup {opened'}
  /\ \E version \in 0..ArrowVersion : arrow' = Capability(version)
  /\ sessionID' \in {sessionID, opened'} /\ MarkLoggedIn(sessionID')
  /\ initialized' = "yes"
  /\ mutex' = Nobody /\ GoTo(c, "ready")
  /\ UNCHANGED <<config, keepAlive, tries, calls, sent, closing>>

\* An old server answers 404: the client is initialized, without a login.
LoginNotFound(c) ==
  /\ pc[c] = "login"
  /\ arrow' = "no"
  /\ initialized' = "yes"
  /\ mutex' = Nobody /\ GoTo(c, "ready")
  /\ UNCHANGED <<config, loggedIn, keepAlive, sessionID, tries, calls, server>>

\* Mutant: an error leaves the mutex locked.
LoginFailsLocked(c) ==
  /\ pc[c] = "login"
  /\ GoTo(c, "idle")
  /\ UNCHANGED <<client, mutex, tries, calls, server>>

\* The login fails, perhaps after it reached the server.  It is not tried
\* again; the next call finds the client uninitialized.
LoginFails(c) ==
  /\ pc[c] = "login"
  /\ opened' \in {opened, opened + 1}
  /\ mutex' = Nobody /\ GoTo(c, "idle")
  /\ UNCHANGED <<client, tries, calls, sent, answered, closing>>

-------------------------------------------------------------------------------
(* What callers do with the client, and its end.                           *)

\* usesHTTPArrowTransport; statements of restored clients start on JSON.
Transport == IF config.format = "arrow" /\ arrow = "yes" THEN "arrow" ELSE "json"

\* A statement is sent; its answer may ask to keep the session alive.
Statement(c) ==
  /\ pc[c] = "ready"
  /\ sent' = sent \cup {[session |-> sessionID, transport |-> Transport]}
  /\ keepAlive' \in Switch
  /\ GoTo(c, "idle")
  /\ UNCHANGED <<config, initialized, arrow, loggedIn, sessionID, mutex, tries, calls,
                 opened, answered, closing>>

\* Verify starts.
Verify(c) ==
  /\ pc[c] = "ready"
  /\ GoTo(c, "verify") /\ tries' = [tries EXCEPT ![c] = 1]
  /\ UNCHANGED <<client, mutex, calls, server>>

\* An attempt of Verify succeeds, or fails for another reason than a bad
\* gateway, or it was the third.
VerifyEnds(c) ==
  /\ pc[c] = "verify"
  /\ GoTo(c, "idle")
  /\ UNCHANGED <<client, mutex, tries, calls, server>>

\* Mutant: another try after each bad gateway.
BadGatewayAgain(c) ==
  /\ pc[c] = "verify"
  /\ tries' = [tries EXCEPT ![c] = @ + 1]
  /\ UNCHANGED <<client, mutex, pc, calls, server>>

\* A bad gateway allows up to two more attempts.
BadGateway(c) ==
  /\ pc[c] = "verify" /\ tries[c] <= 2
  /\ tries' = [tries EXCEPT ![c] = @ + 1]
  /\ UNCHANGED <<client, mutex, pc, calls, server>>

\* Logout sends a request only for a session that is logged in or kept alive.
NeedsLogout == loggedIn = "yes" \/ keepAlive = "yes"

\* LakeConn.Close and cleanup.  database/sql, or the application, closes when
\* no call is running.  The result of the logout request is ignored.
Close ==
  /\ closing = "open" /\ \A c \in Callers : pc[c] = "idle"
  /\ closing' = IF NeedsLogout THEN "logged out" ELSE "closed"
  /\ UNCHANGED <<client, mutex, pc, tries, calls, sent, opened, answered>>

Step(c) == Lock(c) \/ LoginSucceeds(c) \/ LoginNotFound(c) \/ LoginFails(c)
           \/ Statement(c) \/ Verify(c) \/ VerifyEnds(c) \/ BadGateway(c)

Next == (\E c \in Callers : Enter(c) \/ Step(c)) \/ Close

Spec == Init /\ [][Next]_vars

\* Requests end.  sync.Mutex hands itself over to the longest waiter when it
\* waits for more than a millisecond, so nobody waits forever.
Fairness == \A c \in Callers : WF_vars(Step(c)) /\ SF_vars(Lock(c))
FairSpec == Spec /\ Fairness

-------------------------------------------------------------------------------
(* Properties.                                                             *)

\* However many callers need the client first, at most one login is answered.
OneLogin == \A s, t \in answered : s = t

\* Statements never straddle the login: all of them carry the same session ID
\* and come back on the same transport, so query IDs stay in one sequence.
StatementsAgree ==
  \A s \in sent : s.session = sessionID /\ s.transport = Transport

\* A session the client knows to be open at the server is logged out when the
\* connection is closed.
SessionsAreLoggedOut == closing = "closed" => answered = {}

\* Every caller gets its client, or an error, and returns.
CallersReturn == \A c \in Callers : pc[c] # "idle" ~> pc[c] = "idle"
===============================================================================
