-------------------------- MODULE ConnectionInitProofs --------------------------
(***************************************************************************)
(* ConnectionInit for any number of goroutines and of calls: one login at  *)
(* most is answered, all statements agree on session and transport, and a  *)
(* session the client knows is logged out.                                 *)
(***************************************************************************)
EXTENDS ConnectionInit, TLAPS

\* A login is under way only while the client is uninitialized, and only for
\* clients that log in and were not restored.
LoginUnderWay ==
  mutex # Nobody =>
    initialized = "no" /\ config.login = "yes" /\ config.restored = "no"

\* Restored clients never wait for the mutex; the others use the client only
\* once it is initialized.
ReadyMeansInitialized ==
  /\ config.restored = "yes" => \A c \in Callers : pc[c] \notin {"lock", "login"}
  /\ config.restored = "no" /\ initialized = "no" =>
       sent = {} /\ \A c \in Callers : pc[c] \in {"idle", "lock", "login"}

\* What an answered login leaves behind: the client is initialized and knows
\* that it is logged in.
AnswersAreRemembered ==
  answered # {} => initialized = "yes" /\ loggedIn = "yes"

\* A closed connection has no callers.
ClosedIsQuiet == closing # "open" => \A c \in Callers : pc[c] = "idle"

\* The inductive invariant.  OneLogin is not inductive: the second login is
\* ruled out because the mutex is held by callers that found the client
\* uninitialized.
InitInvariant ==
  /\ LoginUnderWay /\ ReadyMeansInitialized /\ AnswersAreRemembered /\ ClosedIsQuiet
  /\ OneLogin /\ StatementsAgree /\ SessionsAreLoggedOut

-------------------------------------------------------------------------------
(* Types.                                                                  *)

LEMMA InitTypeOK == Init => TypeOK
BY ConstantsAssumption DEF Init, TypeOK, Switch

\* The server may open a session without anything that was sent changing.
LEMMA GrowingServer ==
  ASSUME NEW n \in Nat, NEW m \in Nat, n <= m,
         NEW S \in SUBSET [session : 0..n, transport : Transports]
  PROVE  S \subseteq [session : 0..m, transport : Transports]
OBVIOUS

LEMMA StepTypeOK ==
  ASSUME TypeOK, [Next]_vars
  PROVE  TypeOK'
<1> USE ConstantsAssumption DEF client, server, GoTo
<1>a. /\ pc \in [Callers -> {"idle", "lock", "login", "ready", "verify"}]
      /\ \A c \in Callers : pc[c] = "login" <=> mutex = c
  BY DEF TypeOK
<1>b. tries \in [Callers -> 1..3]
  BY DEF TypeOK
<1>c. /\ opened \in Nat /\ sessionID \in 0..opened /\ answered \subseteq 1..opened
      /\ sent \subseteq [session : 0..opened, transport : Transports]
  BY DEF TypeOK
<1>1. ASSUME NEW c \in Callers, Enter(c)
      PROVE  TypeOK'
  BY <1>1 DEF Enter, TypeOK
<1>2. ASSUME NEW c \in Callers, Lock(c)
      PROVE  TypeOK'
  <2>1. pc' \in [Callers -> {"idle", "lock", "login", "ready", "verify"}]
    BY <1>2, <1>a DEF Lock
  <2>2. \A d \in Callers : pc'[d] = "login" <=> mutex' = d
    <3>1. CASE pc' = [pc EXCEPT ![c] = "ready"] /\ mutex' = mutex
      BY <1>2, <1>a, <3>1 DEF Lock
    <3>2. CASE pc' = [pc EXCEPT ![c] = "login"] /\ mutex' = c
      BY <1>2, <1>a, <3>2 DEF Lock
    <3>3. QED
      BY <1>2, <3>1, <3>2 DEF Lock
  <2>3. mutex' \in Callers \cup {Nobody} /\ initialized' \in Switch
        /\ arrow' \in {"unknown"} \cup Switch
    BY <1>2 DEF Lock, TypeOK, Switch
  <2>4. QED
    BY <1>2, <2>1, <2>2, <2>3 DEF Lock, TypeOK
<1>3. ASSUME NEW c \in Callers, LoginSucceeds(c)
      PROVE  TypeOK'
  <2>1. /\ initialized' \in Switch /\ arrow' \in Switch /\ loggedIn' \in Switch
        /\ mutex' = Nobody
    BY <1>3 DEF LoginSucceeds, Capability, MarkLoggedIn, Switch
  <2>2. opened' \in Nat /\ sessionID' \in 0..opened' /\ answered' \subseteq 1..opened'
    BY <1>3, <1>c DEF LoginSucceeds
  <2>3. sent' \subseteq [session : 0..opened', transport : Transports]
    <3>1. opened <= opened' /\ sent' = sent
      BY <1>3, <1>c DEF LoginSucceeds
    <3>2. QED
      BY <1>c, <2>2, <3>1, GrowingServer
  <2>4. /\ pc' \in [Callers -> {"idle", "lock", "login", "ready", "verify"}]
        /\ \A d \in Callers : pc'[d] = "login" <=> mutex' = d
    BY <1>3, <2>1 DEF LoginSucceeds, TypeOK
  <2>5. QED
    BY <1>3, <2>1, <2>2, <2>3, <2>4 DEF LoginSucceeds, TypeOK
<1>4. ASSUME NEW c \in Callers, LoginNotFound(c)
      PROVE  TypeOK'
  BY <1>4 DEF LoginNotFound, TypeOK, Switch
<1>5. ASSUME NEW c \in Callers, LoginFails(c)
      PROVE  TypeOK'
  <2>1. opened' \in Nat /\ sessionID' \in 0..opened' /\ answered' \subseteq 1..opened'
    BY <1>5, <1>c DEF LoginFails
  <2>2. sent' \subseteq [session : 0..opened', transport : Transports]
    <3>1. opened <= opened' /\ sent' = sent
      BY <1>5, <1>c DEF LoginFails
    <3>2. QED
      BY <1>c, <2>1, <3>1, GrowingServer
  <2>3. /\ pc' \in [Callers -> {"idle", "lock", "login", "ready", "verify"}]
        /\ \A d \in Callers : pc'[d] = "login" <=> mutex' = d
    BY <1>5 DEF LoginFails, TypeOK
  <2>4. QED
    BY <1>5, <2>1, <2>2, <2>3 DEF LoginFails, TypeOK
<1>6. ASSUME NEW c \in Callers, Statement(c)
      PROVE  TypeOK'
  <2>1. [session |-> sessionID, transport |-> Transport]
           \in [session : 0..opened, transport : Transports]
    BY DEF TypeOK, Transport, Transports
  <2>2. sent' \subseteq [session : 0..opened', transport : Transports]
    BY <1>6, <2>1 DEF Statement, TypeOK
  <2>3. /\ pc' \in [Callers -> {"idle", "lock", "login", "ready", "verify"}]
        /\ \A d \in Callers : pc'[d] = "login" <=> mutex' = d
    BY <1>6 DEF Statement, TypeOK
  <2>4. QED
    BY <1>6, <2>2, <2>3 DEF Statement, TypeOK
<1>7. ASSUME NEW c \in Callers, Verify(c)
      PROVE  TypeOK'
  <2>1. tries' \in [Callers -> 1..3]
    BY <1>7, <1>b DEF Verify
  <2>2. /\ pc' \in [Callers -> {"idle", "lock", "login", "ready", "verify"}]
        /\ \A d \in Callers : pc'[d] = "login" <=> mutex' = d
    BY <1>7 DEF Verify, TypeOK
  <2>3. QED
    BY <1>7, <2>1, <2>2 DEF Verify, TypeOK
<1>8. ASSUME NEW c \in Callers, VerifyEnds(c)
      PROVE  TypeOK'
  BY <1>8 DEF VerifyEnds, TypeOK
<1>9. ASSUME NEW c \in Callers, BadGateway(c)
      PROVE  TypeOK'
  <2>1. tries' \in [Callers -> 1..3]
    BY <1>9, <1>b DEF BadGateway
  <2>2. QED
    BY <1>9, <2>1 DEF BadGateway, TypeOK
<1>10. CASE Close
  BY <1>10 DEF Close, TypeOK
<1>11. CASE UNCHANGED vars
  BY <1>11 DEF vars, TypeOK
<1>12. QED
  BY <1>1, <1>2, <1>3, <1>4, <1>5, <1>6, <1>7, <1>8, <1>9, <1>10, <1>11 DEF Next, Step

\* The fields of the client keep their types, session IDs come from logins the
\* server has seen, and the holder of connectionInitMu is the caller that logs
\* in.
THEOREM TypeCorrect == Spec => []TypeOK
BY InitTypeOK, StepTypeOK, PTL DEF Spec

-------------------------------------------------------------------------------
(* One login, one session, one transport.                                  *)

LEMMA InitInitInvariant == Init => InitInvariant
BY DEF Init, InitInvariant, LoginUnderWay, ReadyMeansInitialized,
       AnswersAreRemembered, ClosedIsQuiet, OneLogin, StatementsAgree,
       SessionsAreLoggedOut

LEMMA StepInitInvariant ==
  ASSUME TypeOK, InitInvariant, [Next]_vars
  PROVE  InitInvariant'
<1> USE ConstantsAssumption DEF client, server, GoTo, InitInvariant, LoginUnderWay,
        ReadyMeansInitialized, AnswersAreRemembered, ClosedIsQuiet, OneLogin,
        StatementsAgree, SessionsAreLoggedOut, Transport
<1>1. ASSUME NEW c \in Callers, Enter(c)
      PROVE  InitInvariant'
  BY <1>1 DEF Enter, TypeOK
<1>2. ASSUME NEW c \in Callers, Lock(c)
      PROVE  InitInvariant'
  <2>1. /\ pc[c] = "lock" /\ mutex = Nobody /\ closing' = closing /\ sent' = sent
        /\ UNCHANGED <<config, loggedIn, keepAlive, sessionID, opened, answered>>
        /\ \A d \in Callers : d # c => pc'[d] = pc[d]
    BY <1>2 DEF Lock, TypeOK
  <2>2. CASE initialized = "yes" /\ GoTo(c, "ready") /\ UNCHANGED <<mutex, initialized, arrow>>
    BY <2>1, <2>2 DEF TypeOK
  <2>3. CASE /\ initialized = "no" /\ config.login = "no" /\ initialized' = "yes" /\ arrow' = "no"
             /\ GoTo(c, "ready") /\ UNCHANGED mutex
    BY <2>1, <2>3 DEF TypeOK, Switch, Configurations
  <2>4. CASE /\ initialized = "no" /\ config.login = "yes" /\ GoTo(c, "login")
             /\ mutex' = c /\ UNCHANGED <<initialized, arrow>>
    BY <2>1, <2>4 DEF TypeOK, Switch, Configurations
  <2>5. QED
    BY <1>2, <2>2, <2>3, <2>4 DEF Lock
<1>3. ASSUME NEW c \in Callers, LoginSucceeds(c)
      PROVE  InitInvariant'
  BY <1>3 DEF LoginSucceeds, MarkLoggedIn, TypeOK
<1>4. ASSUME NEW c \in Callers, LoginNotFound(c)
      PROVE  InitInvariant'
  BY <1>4 DEF LoginNotFound, TypeOK
<1>5. ASSUME NEW c \in Callers, LoginFails(c)
      PROVE  InitInvariant'
  BY <1>5 DEF LoginFails, TypeOK
<1>6. ASSUME NEW c \in Callers, Statement(c)
      PROVE  InitInvariant'
  <2>1. initialized = "yes" \/ config.restored = "yes"
    BY <1>6 DEF Statement, TypeOK, Configurations, Switch
  <2>2. \A s \in sent' : s.session = sessionID' /\ s.transport = Transport'
    BY <1>6 DEF Statement
  <2>3. LoginUnderWay' /\ AnswersAreRemembered' /\ OneLogin'
    BY <1>6 DEF Statement
  <2>4. closing = "open" /\ closing' = "open"
    BY <1>6 DEF Statement, TypeOK
  <2>5. ReadyMeansInitialized'
    BY <1>6, <2>1 DEF Statement, TypeOK, Configurations, Switch
  <2>6. QED
    BY <2>2, <2>3, <2>4, <2>5
<1>7. ASSUME NEW c \in Callers, Verify(c) \/ VerifyEnds(c) \/ BadGateway(c)
      PROVE  InitInvariant'
  BY <1>7 DEF Verify, VerifyEnds, BadGateway, TypeOK
<1>8. CASE Close
  BY <1>8 DEF Close, NeedsLogout, TypeOK
<1>9. CASE UNCHANGED vars
  BY <1>9 DEF vars
<1>10. QED
  BY <1>1, <1>2, <1>3, <1>4, <1>5, <1>6, <1>7, <1>8, <1>9 DEF Next, Step

LEMMA InitInvariantHolds == Spec => []InitInvariant
BY InitInitInvariant, StepInitInvariant, TypeCorrect, PTL DEF Spec

\* However many goroutines need the client first, and however many logins fail
\* before, initializeConnectionInfo gets at most one login answered.
THEOREM OneLoginAnswered == Spec => []OneLogin
BY InitInvariantHolds, PTL DEF InitInvariant

\* No statement is sent before the login is decided, and none after it sees
\* another session or transport.
THEOREM OneSessionOneTransport == Spec => []StatementsAgree
BY InitInvariantHolds, PTL DEF InitInvariant

\* LakeConn.Close leaves no session behind that the client knows to be open.
THEOREM NoSessionLeftBehind == Spec => []SessionsAreLoggedOut
BY InitInvariantHolds, PTL DEF InitInvariant
===============================================================================
