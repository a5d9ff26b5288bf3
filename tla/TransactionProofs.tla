--------------------------- MODULE TransactionProofs ---------------------------
(***************************************************************************)
(* Transaction for any number of transactions and statements: what the     *)
(* application is told about the end of a transaction is what the server   *)
(* did, statements stray into other transactions only after an error, and  *)
(* a transaction keeps its route.                                          *)
(***************************************************************************)
EXTENDS Transaction, SequenceTheorems, TLAPS

Sent == 1..Len(log)

\* What a transaction does while exec waits for its statement.
During(kind) == CASE kind = "begin"    -> "beginning"
                  [] kind = "other"    -> "open"
                  [] kind = "commit"   -> "committing"
                  [] kind = "rollback" -> "rolling back"

UnderWay == {"beginning", "open", "committing", "rolling back"}
Abandoning == {"rolling back", "rolled back", "end failed"}

\* exec waits for the statement sent last, whose sender has the connection and
\* is where the kind of the statement says; nothing the client keeps has
\* changed since.  database/sql abandons a transaction by its ROLLBACK.
CallersFit ==
  /\ \A t \in Txns : tx[t] \in UnderWay <=> holder = t
  /\ \A t \in abandoned : tx[t] \in Abandoning
  /\ waiting = 0 => holder # Plain /\ (holder \in Txns => tx[holder] = "open")
  /\ waiting # 0 =>
       /\ waiting = Len(log)
       /\ LET st == log[waiting] IN
          /\ st.owner = holder /\ st.session = session /\ st.hint = hint
          /\ holder = Plain => st.kind = "other"
          /\ holder \in Txns => tx[holder] = During(st.kind)

\* Every statement has its own query ID; what callers without a transaction
\* send is no part of one.
LogFits ==
  \A no \in Sent :
    /\ log[no].id = no
    /\ log[no].owner = Plain => log[no].kind = "other"

\* What the server has not taken has no answer and no effect.
Untouched ==
  \A no \in Numbers : no \notin Sent \/ no \in pending =>
    answers[no] = NoAnswer /\ ran[no] = NotRun

\* Statement b began a transaction at the server.
Begun(b) ==
  /\ b \in Sent /\ log[b].kind = "begin" /\ log[b].session \in {Unset, AutoCommit}
  /\ answers[b].error = "ok" /\ answers[b].session = Active(b)

\* Where the session of an answer comes from.
AnswerFits(no) ==
  /\ answers[no].hint # NoHint => Begun(no)
  /\ answers[no].error = "none" => answers[no].session = NoSession
  /\ answers[no].error = "query error" =>
       \/ answers[no].session = NoSession
       \/ answers[no].session = AutoCommit /\ log[no].kind = "commit"
  /\ answers[no].error = "ok" /\ log[no].session \in {Unset, AutoCommit} =>
       \/ answers[no].session \in {Unset, AutoCommit} /\ (log[no].kind = "begin" => serverAge = "old")
       \/ Begun(no)

AnswersFit == \A no \in Sent : AnswerFits(no)

\* A statement that comes with a transaction and is answered without error has
\* done there what it is for.
DoneInside ==
  \A no \in Sent, b \in Numbers :
    answers[no].error = "ok" /\ log[no].session = Active(b) =>
      /\ log[no].kind \in {"begin", "other"} =>
           answers[no].session = Active(b) /\ ran[no] = Active(b)
      /\ log[no].kind \in {"commit", "rollback"} => answers[no].session = AutoCommit
      /\ log[no].kind = "commit" => b \in committed
      /\ log[no].kind = "rollback" => b \notin open \cup committed

RanInside ==
  \A no, b \in Numbers : ran[no] = Active(b) => no \in Sent /\ log[no].session = Active(b)

ServerTransactions ==
  /\ \A b \in open \cup committed : Begun(b)
  /\ open \cap committed = {}

ResultsFit == \A no \in Numbers : result[no] = "ok" => answers[no].error = "ok"

\* The transaction's connection went back to the pool after an error, and not
\* through a rollback of database/sql.
Stray(t) == tx[t] = "begin failed" \/ (tx[t] = "end failed" /\ t \notin abandoned)

\* The route of the transaction b began.
RouteOf(b) == IF answers[b].hint # NoHint THEN answers[b].hint ELSE log[b].hint

\* A session state with a transaction is one the server has begun, comes with
\* its route, and is in the hands of its owner unless the owner strayed.
SessionsFit ==
  \A b \in Numbers :
    /\ session = Active(b) =>
         /\ Begun(b) /\ hint = RouteOf(b)
         /\ holder = log[b].owner \/ Stray(log[b].owner)
    /\ \A no \in Sent : log[no].session = Active(b) =>
         /\ Begun(b) /\ log[no].hint = RouteOf(b)
         /\ log[no].owner = log[b].owner \/ Stray(log[b].owner)

\* A transaction begins with BEGIN.
BeforeBegin == {"new", "beginning", "begin failed"}

BeginsFirst ==
  \A t \in Txns : tx[t] \in BeforeBegin =>
    \A no \in Sent : log[no].owner = t => log[no].kind = "begin"

\* On a new server a transaction stays in the session its BEGIN left behind,
\* all its statements carry that one, and its end was answered.
AtHome(t) ==
  /\ \E b \in Numbers : home[t] = Active(b)
  /\ \A no \in Sent : log[no].owner = t /\ log[no].kind # "begin" => log[no].session = home[t]

EndAnswered(t, kind) ==
  \E no \in Sent : log[no].owner = t /\ log[no].kind = kind /\ answers[no].error = "ok"

HomeKept ==
  serverAge = "new" => \A t \in Txns :
    /\ tx[t] \in {"open", "committing", "rolling back"} => session = home[t]
    /\ tx[t] \notin BeforeBegin => AtHome(t)
    /\ tx[t] = "committed" => EndAnswered(t, "commit")
    /\ tx[t] = "rolled back" => EndAnswered(t, "rollback")

\* The inductive invariant: what the callers do, what the server did, and how
\* session states travel between them.
ServerFits == LogFits /\ Untouched /\ AnswersFit /\ DoneInside /\ RanInside /\ ServerTransactions

TxInvariant == CallersFit /\ ServerFits /\ ResultsFit /\ SessionsFit /\ BeginsFirst /\ HomeKept

-------------------------------------------------------------------------------
(* Sessions, hints and answers.                                            *)

LEMMA SessionFacts ==
  /\ Unset # AutoCommit /\ NoSession \notin {Unset, AutoCommit} /\ NotRun \notin {Unset, AutoCommit}
  /\ \A b : Active(b) \notin {Unset, AutoCommit, NoSession, NotRun}
  /\ \A b, c : Active(b) = Active(c) => b = c
  /\ Sessions = {Unset, AutoCommit} \cup {Active(b) : b \in Numbers}
  /\ Unset \in Sessions /\ AutoCommit \in Sessions
<1>1. /\ Unset[1] = "unset" /\ AutoCommit[1] = "auto" /\ NotRun[1] = "not run"
      /\ NoSession[1] = "no session"
  BY DEF Unset, AutoCommit, NotRun, NoSession
<1>2. \A b : Active(b)[1] = "active" /\ Active(b)[2] = b
  BY DEF Active
<1>3. Unset # AutoCommit /\ NoSession \notin {Unset, AutoCommit} /\ NotRun \notin {Unset, AutoCommit}
  BY <1>1
<1>4. \A b : Active(b) \notin {Unset, AutoCommit, NoSession, NotRun}
  BY <1>1, <1>2
<1>5. \A b, c : Active(b) = Active(c) => b = c
  BY <1>2
<1>6. /\ Sessions = {Unset, AutoCommit} \cup {Active(b) : b \in Numbers}
      /\ Unset \in Sessions /\ AutoCommit \in Sessions
  BY DEF Sessions
<1>7. QED
  BY <1>3, <1>4, <1>5, <1>6

LEMMA HintFacts ==
  /\ \A no \in Nat : ServerHint(no) # NoHint /\ ServerHint(no) \in {"server"} \X Nat
  /\ \A no \in Nat : ClientHint(no) \in {"client", "server"} \X Nat
  /\ \A h \in {NoHint} \cup ({"server"} \X Nat) : h # NoHint => h \in {"client", "server"} \X Nat
BY DEF ServerHint, ClientHint, NoHint

LEMMA AnswerFacts ==
  /\ NoAnswer \in Answers
  /\ NoAnswer.error = "none" /\ NoAnswer.session = NoSession /\ NoAnswer.hint = NoHint
  /\ \A e \in {"ok", "query error"}, s \in Sessions \cup {NoSession},
        h \in {NoHint} \cup ({"server"} \X Nat) :
       [error |-> e, session |-> s, hint |-> h] \in Answers
BY DEF NoAnswer, Answers

LEMMA NumbersFacts ==
  ASSUME TypeOK
  PROVE  /\ Numbers \subseteq Nat /\ Len(log) \in Nat /\ Len(log) <= MaxStatements
         /\ Sent \subseteq Numbers /\ \A no \in Sent : log[no] \in Statements
<1>1. log \in Seq(Statements) /\ Len(log) <= MaxStatements /\ MaxStatements \in Nat
  BY ConstantsAssumption DEF TypeOK
<1>2. Len(log) \in Nat /\ \A no \in 1..Len(log) : log[no] \in Statements
  BY <1>1, LenProperties, ElementOfSeq
<1>3. QED
  BY <1>1, <1>2 DEF Sent, Numbers

-------------------------------------------------------------------------------
(* Types, and the callers.                                                 *)

\* What Send does to the log, and that it was allowed.
LEMMA SendFacts ==
  ASSUME TypeOK, NEW kind \in Kinds, NEW o \in Txns \cup {Plain}, Send(kind, o)
  PROVE  /\ waiting = 0 /\ waiting' = Len(log) + 1 /\ Len(log') = Len(log) + 1
         /\ Len(log') <= MaxStatements /\ log' \in Seq(Statements)
         /\ \A no \in Sent : log'[no] = log[no]
         /\ log'[Len(log) + 1] = [kind |-> kind, owner |-> o, session |-> session,
                                  hint |-> hint', id |-> Len(log) + 1]
         /\ hint' = RouteHint(Len(log) + 1) /\ hint' \in {"client", "server"} \X Nat
         /\ Sent' = Sent \cup {Len(log) + 1} /\ Len(log) + 1 \notin Sent
         /\ pending' = pending \cup {Len(log) + 1}
         /\ UNCHANGED <<serverAge, session, result, ended, home, answers, ran, open, committed>>
<1> DEFINE no == Len(log) + 1
           st == [kind |-> kind, owner |-> o, session |-> session, hint |-> RouteHint(no), id |-> no]
<1>1. /\ waiting = 0 /\ no <= MaxStatements /\ hint' = RouteHint(no) /\ log' = Append(log, st)
      /\ waiting' = no /\ pending' = pending \cup {no}
      /\ UNCHANGED <<serverAge, session, result, ended, home, answers, ran, open, committed>>
  BY DEF Send, QueryID, server
<1>2. Len(log) \in Nat /\ no \in Numbers
  BY <1>1, NumbersFacts, ConstantsAssumption DEF Numbers
<1>3. RouteHint(no) \in {"client", "server"} \X Nat
  <2>1. hint \in {"client", "server"} \X Nat
    BY DEF TypeOK
  <2>2. ClientHint(no) \in {"client", "server"} \X Nat
    BY <1>2, HintFacts
  <2>3. QED
    BY <2>1, <2>2 DEF RouteHint
<1>4. st \in Statements
  BY <1>2, <1>3 DEF Statements, TypeOK
<1>5. log \in Seq(Statements)
  BY DEF TypeOK
<1>6. /\ log' \in Seq(Statements) /\ Len(log') = no
      /\ \A i \in 1..Len(log) : log'[i] = log[i]
      /\ log'[no] = st
  BY <1>1, <1>4, <1>5, AppendProperties
<1>7. Sent' = Sent \cup {no} /\ no \notin Sent
  BY <1>2, <1>6 DEF Sent
<1>8. QED
  BY <1>1, <1>3, <1>6, <1>7 DEF Sent

\* The types and the callers' part of the invariant support each other: a step
\* of exec belongs to the caller that has the connection.
Typed == TypeOK /\ CallersFit

LEMMA InitTyped == Init => Typed
<1> SUFFICES ASSUME Init PROVE Typed
  OBVIOUS
<1>1. hint \in {"client", "server"} \X Nat
  BY HintFacts DEF Init
<1>2. log \in Seq(Statements) /\ Len(log) = 0 /\ Len(log) <= MaxStatements
  BY EmptySeq, ConstantsAssumption DEF Init
<1>3. answers \in [Numbers -> Answers]
  BY AnswerFacts DEF Init
<1>4. TypeOK
  BY <1>1, <1>2, <1>3, SessionFacts, ConstantsAssumption DEF Init, TypeOK
<1>5. CallersFit
  BY ConstantsAssumption DEF Init, CallersFit, UnderWay
<1>6. QED
  BY <1>4, <1>5 DEF Typed

\* A statement is sent: the caller has, or gets, the connection.
Sends(kind, o) ==
  /\ Send(kind, o) /\ holder' = o
  /\ \/ o = Plain /\ tx' = tx /\ kind = "other" /\ holder = Nobody
     \/ /\ o \in Txns /\ tx' = [tx EXCEPT ![o] = During(kind)]
        /\ IF kind = "begin" THEN holder = Nobody /\ tx[o] = "new"
                             ELSE holder = o /\ tx[o] = "open"
  /\ \/ abandoned' = abandoned
     \/ kind = "rollback" /\ o \in ended /\ abandoned' = abandoned \cup {o}

SendSteps ==
  \/ PlainStatement
  \/ \E t \in Txns : BeginTx(t) \/ TxStatement(t) \/ Commit(t) \/ Rollback(t) \/ AwaitDone(t)

LEMMA SendCases ==
  ASSUME Typed, SendSteps
  PROVE  \E kind \in Kinds, o \in Txns \cup {Plain} : Sends(kind, o)
<1>1. /\ \A t \in Txns : tx[t] = "open" => holder = t
      /\ tx \in [Txns -> {"new", "beginning", "open", "committing", "rolling back",
                          "begin failed", "committed", "rolled back", "end failed"}]
  BY DEF Typed, TypeOK
<1>2. CASE PlainStatement
  BY <1>2 DEF PlainStatement, Sends, Kinds
<1>3. ASSUME NEW t \in Txns, BeginTx(t) PROVE Sends("begin", t)
  BY <1>3 DEF BeginTx, Move, Sends, During
<1>4. ASSUME NEW t \in Txns, TxStatement(t) PROVE Sends("other", t)
  <2>1. /\ tx[t] = "open" /\ tx' = tx /\ holder' = holder /\ holder = t /\ Send("other", t)
        /\ abandoned' = abandoned
    BY <1>1, <1>4 DEF TxStatement
  <2>2. tx' = [tx EXCEPT ![t] = "open"]
    BY <1>1, <2>1
  <2>3. QED
    BY <2>1, <2>2 DEF Sends, During
<1>5. ASSUME NEW t \in Txns, Commit(t) PROVE Sends("commit", t)
  BY <1>1, <1>5 DEF Commit, Move, Sends, During
<1>6. ASSUME NEW t \in Txns, Rollback(t) \/ AwaitDone(t) PROVE Sends("rollback", t)
  BY <1>1, <1>6 DEF Rollback, AwaitDone, SendRollback, Move, Sends, During
<1>7. QED
  BY <1>2, <1>3, <1>4, <1>5, <1>6 DEF SendSteps, Kinds

LEMMA SendTyped ==
  ASSUME Typed, NEW kind \in Kinds, NEW o \in Txns \cup {Plain}, Sends(kind, o)
  PROVE  Typed'
<1> USE DEF Typed
<1>0. /\ Send(kind, o) /\ holder' = o
      /\ \/ o = Plain /\ tx' = tx /\ kind = "other" /\ holder = Nobody
         \/ /\ o \in Txns /\ tx' = [tx EXCEPT ![o] = During(kind)]
            /\ holder = Nobody \/ holder = o
            /\ tx[o] \in {"new", "open"}
      /\ \/ abandoned' = abandoned
         \/ kind = "rollback" /\ o \in ended /\ abandoned' = abandoned \cup {o}
  BY DEF Sends
<1>1. /\ waiting' = Len(log) + 1 /\ Len(log') = Len(log) + 1
      /\ Len(log') <= MaxStatements /\ log' \in Seq(Statements)
      /\ log'[Len(log) + 1] = [kind |-> kind, owner |-> o, session |-> session,
                               hint |-> hint', id |-> Len(log) + 1]
      /\ hint' \in {"client", "server"} \X Nat /\ Sent' = Sent \cup {Len(log) + 1}
      /\ pending' = pending \cup {Len(log) + 1}
      /\ UNCHANGED <<serverAge, session, result, ended, home, answers, ran, open, committed>>
  BY <1>0, SendFacts
<1>2. Len(log) \in Nat
  BY NumbersFacts
<1>3. During(kind) \in UnderWay
  BY DEF During, UnderWay, Kinds
<1>4. \A t \in Txns : tx'[t] \in UnderWay <=> holder' = t
  <2>1. /\ \A t \in Txns : tx[t] \in UnderWay <=> holder = t
        /\ DOMAIN tx = Txns /\ Plain \notin Txns /\ Nobody \notin Txns
    BY ConstantsAssumption DEF CallersFit, TypeOK
  <2>2. CASE o = Plain /\ tx' = tx /\ holder = Nobody
    BY <1>0, <2>1, <2>2
  <2>3. ASSUME o \in Txns, tx' = [tx EXCEPT ![o] = During(kind)], holder = Nobody \/ holder = o,
               NEW t \in Txns
        PROVE  tx'[t] \in UnderWay <=> holder' = t
    <3>1. CASE t = o
      BY <1>0, <1>3, <2>1, <2>3, <3>1
    <3>2. CASE t # o
      <4>1. tx'[t] = tx[t] /\ holder # t /\ holder' # t
        BY <1>0, <2>1, <2>3, <3>2
      <4>2. QED
        BY <2>1, <4>1
    <3>3. QED
      BY <3>1, <3>2
  <2>4. QED
    BY <1>0, <2>2, <2>3
<1>5. \A t \in abandoned' : tx'[t] \in Abandoning
  <2>1. /\ \A t \in abandoned : tx[t] \in Abandoning
        /\ abandoned \subseteq Txns /\ ended \subseteq Txns /\ DOMAIN tx = Txns
    BY DEF CallersFit, TypeOK
  <2>2. kind = "rollback" => During(kind) \in Abandoning
    BY DEF During, Abandoning
  <2>3. ASSUME NEW t \in abandoned' PROVE tx'[t] \in Abandoning
    <3>1. t \in abandoned \/ (t = o /\ kind = "rollback" /\ o \in Txns)
      BY <1>0, <2>1, <2>3
    <3>2. t \in abandoned => t # o
      BY <1>0, <2>1, ConstantsAssumption DEF Abandoning
    <3>3. QED
      BY <1>0, <2>1, <2>2, <3>1, <3>2, ConstantsAssumption
  <2>4. QED
    BY <2>3
<1>6. tx' \in [Txns -> {"new", "beginning", "open", "committing", "rolling back",
                        "begin failed", "committed", "rolled back", "end failed"}]
  BY <1>0, <1>3 DEF TypeOK, UnderWay
<1>7. /\ pending' \subseteq 1..Len(log') /\ open' \subseteq 1..Len(log')
      /\ committed' \subseteq 1..Len(log') /\ waiting' \in 0..Len(log')
  <2>1. /\ pending \subseteq 1..Len(log) /\ open \subseteq 1..Len(log)
        /\ committed \subseteq 1..Len(log)
    BY DEF TypeOK
  <2>2. 1..Len(log) \cup {Len(log) + 1} \subseteq 1..(Len(log) + 1) /\ Len(log) + 1 \in 0..(Len(log) + 1)
    BY <1>2
  <2>3. 1..Len(log') = 1..(Len(log) + 1) /\ 0..Len(log') = 0..(Len(log) + 1)
    BY <1>1
  <2>4. QED
    BY <1>1, <2>1, <2>2, <2>3
<1>8. TypeOK'
  BY <1>0, <1>1, <1>4, <1>6, <1>7 DEF TypeOK, UnderWay
<1>9. CallersFit'
  <2>1. waiting' = Len(log') /\ waiting' # 0
    BY <1>1, <1>2
  <2>2. /\ log'[waiting'].owner = holder' /\ log'[waiting'].session = session'
        /\ log'[waiting'].hint = hint' /\ log'[waiting'].kind = kind
    BY <1>0, <1>1
  <2>3. holder' = Plain => kind = "other"
    BY <1>0, ConstantsAssumption
  <2>4. holder' \in Txns => tx'[holder'] = During(kind)
    BY <1>0, ConstantsAssumption DEF TypeOK
  <2>5. QED
    BY <1>4, <1>5, <2>1, <2>2, <2>3, <2>4 DEF CallersFit
<1>10. QED
  BY <1>8, <1>9

\* Where exec is when a statement returns.
LEMMA ReturnFacts ==
  ASSUME Typed, waiting # 0
  PROVE  /\ waiting = Len(log) /\ waiting \in Sent /\ log[waiting] \in Statements
         /\ log[waiting].owner = holder /\ holder \in Txns \cup {Plain}
         /\ log[waiting].kind \in Kinds /\ log[waiting].session = session
         /\ log[waiting].hint = hint
         /\ holder = Plain => log[waiting].kind = "other"
         /\ holder \in Txns => tx[holder] = During(log[waiting].kind)
<1>1. /\ waiting = Len(log) /\ log[waiting].owner = holder
      /\ log[waiting].session = session /\ log[waiting].hint = hint
      /\ holder = Plain => log[waiting].kind = "other"
      /\ holder \in Txns => tx[holder] = During(log[waiting].kind)
  BY DEF Typed, CallersFit
<1>2. Len(log) \in Nat /\ \A no \in Sent : log[no] \in Statements
  BY NumbersFacts DEF Typed
<1>3. waiting \in Sent
  BY <1>1, <1>2 DEF Sent
<1>4. log[waiting].owner \in Txns \cup {Plain} /\ log[waiting].kind \in Kinds
  BY <1>2, <1>3 DEF Statements
<1>5. QED
  BY <1>1, <1>2, <1>3, <1>4

LEMMA AfterFacts ==
  ASSUME NEW kind \in Kinds, NEW r
  PROVE  /\ AfterStatement(kind, r) \in {"open", "begin failed", "committed", "rolled back", "end failed"}
         /\ AfterStatement(kind, r) = "open" <=> kind = "other" \/ (kind = "begin" /\ r = "ok")
         /\ AfterStatement(kind, r) = "begin failed" <=> kind = "begin" /\ r # "ok"
         /\ AfterStatement(kind, r) = "committed" <=> kind = "commit" /\ r = "ok"
         /\ AfterStatement(kind, r) = "rolled back" <=> kind = "rollback" /\ r = "ok"
BY DEF AfterStatement, Kinds

LEMMA ReturnTyped ==
  ASSUME Typed, waiting # 0, NEW r \in {"ok", "error"}, NEW s \in Sessions,
         NEW h \in {"client", "server"} \X Nat, Return(r, s, h)
  PROVE  Typed'
<1> DEFINE kind == log[waiting].kind
<1>1. /\ waiting \in Sent /\ log[waiting].owner = holder /\ holder \in Txns \cup {Plain}
      /\ kind \in Kinds
      /\ holder = Plain => kind = "other"
      /\ holder \in Txns => tx[holder] = During(kind)
  BY ReturnFacts
<1>2. /\ result' = [result EXCEPT ![waiting] = r] /\ waiting' = 0
      /\ holder = Plain => tx' = tx /\ home' = home /\ holder' = Nobody
      /\ holder \in Txns => tx' = [tx EXCEPT ![holder] = AfterStatement(kind, r)]
      /\ home' = home \/ home' = [home EXCEPT ![holder] = s]
      /\ holder \in Txns => holder' = IF AfterStatement(kind, r) = "open" THEN holder ELSE Nobody
      /\ session' \in {Unset, s} /\ hint' \in {ClientHint(0), h}
      /\ UNCHANGED <<serverAge, ended, abandoned, log, pending, answers, ran, open, committed>>
  BY <1>1, ConstantsAssumption DEF Return, Move, server
<1>3. session' \in Sessions /\ hint' \in {"client", "server"} \X Nat
  BY <1>2, SessionFacts, HintFacts
<1>4. /\ AfterStatement(kind, r) \in {"open", "begin failed", "committed", "rolled back", "end failed"}
      /\ During(kind) \in UnderWay
  BY <1>1, AfterFacts DEF During, UnderWay, Kinds
<1>5. \A t \in Txns : tx'[t] \in UnderWay <=> holder' = t
  <2> DEFINE to == AfterStatement(kind, r)
  <2>1. to \in UnderWay <=> to = "open"
    BY <1>4 DEF UnderWay
  <2>2. /\ \A t \in Txns : tx[t] \in UnderWay <=> holder = t
        /\ tx \in [Txns -> {"new", "beginning", "open", "committing", "rolling back",
                            "begin failed", "committed", "rolled back", "end failed"}]
    BY DEF Typed, TypeOK, CallersFit
  <2>3. CASE holder = Plain
    BY <1>2, <2>2, <2>3, ConstantsAssumption
  <2>4. CASE holder \in Txns
    <3>1. tx' = [tx EXCEPT ![holder] = to] /\ holder' = IF to = "open" THEN holder ELSE Nobody
      BY <1>2, <2>4
    <3>2. ASSUME NEW t \in Txns PROVE tx'[t] \in UnderWay <=> holder' = t
      <4> HIDE DEF to
      <4>1. CASE t = holder
        BY <2>1, <2>2, <2>4, <3>1, <4>1, ConstantsAssumption
      <4>2. CASE t # holder
        BY <2>2, <2>4, <3>1, <4>2, ConstantsAssumption
      <4>3. QED
        BY <4>1, <4>2
    <3>3. QED
      BY <3>2
  <2>5. QED
    BY <1>1, <2>3, <2>4
<1>6. \A t \in abandoned' : tx'[t] \in Abandoning
  <2>1. DOMAIN tx = Txns /\ abandoned \subseteq Txns /\ \A t \in abandoned : tx[t] \in Abandoning
    BY DEF Typed, TypeOK, CallersFit
  <2>2. CASE holder \in Txns
    <3>1. During(kind) \in Abandoning => AfterStatement(kind, r) \in Abandoning
      <4>1. During(kind) \in Abandoning => kind = "rollback"
        BY <1>1 DEF During, Abandoning, Kinds
      <4>2. kind = "rollback" => AfterStatement(kind, r) \in {"rolled back", "end failed"}
        BY DEF AfterStatement
      <4>3. QED
        BY <4>1, <4>2 DEF Abandoning
    <3>2. QED
      BY <1>1, <1>2, <2>1, <2>2, <3>1
  <2>3. CASE holder = Plain
    BY <1>2, <2>1, <2>3
  <2>4. QED
    BY <1>1, <2>2, <2>3
<1>7. CallersFit'
  <2>1. waiting' = 0 /\ holder' # Plain
    BY <1>1, <1>2, ConstantsAssumption
  <2>2. ASSUME holder' \in Txns PROVE tx'[holder'] = "open"
    <3>1. holder \in Txns /\ holder' = holder /\ AfterStatement(kind, r) = "open"
      BY <1>1, <1>2, <2>2, ConstantsAssumption
    <3>2. tx' = [tx EXCEPT ![holder] = "open"] /\ DOMAIN tx = Txns
      BY <1>2, <3>1 DEF Typed, TypeOK
    <3>3. QED
      BY <3>1, <3>2
  <2>3. QED
    BY <1>5, <1>6, <2>1, <2>2 DEF CallersFit
<1>8. /\ tx' \in [Txns -> {"new", "beginning", "open", "committing", "rolling back",
                           "begin failed", "committed", "rolled back", "end failed"}]
      /\ home' \in [Txns -> Sessions]
      /\ holder' \in Txns \cup {Plain, Nobody}
      /\ result' \in [Numbers -> {"none", "ok", "error"}]
  <2> DEFINE to == AfterStatement(kind, r)
             Places == {"new", "beginning", "open", "committing", "rolling back",
                        "begin failed", "committed", "rolled back", "end failed"}
  <2>1. /\ tx \in [Txns -> Places] /\ home \in [Txns -> Sessions]
        /\ result \in [Numbers -> {"none", "ok", "error"}] /\ to \in Places
    BY <1>4 DEF Typed, TypeOK
  <2>2. /\ tx' = tx \/ tx' = [tx EXCEPT ![holder] = to]
        /\ home' = home \/ home' = [home EXCEPT ![holder] = s]
        /\ holder' = holder \/ holder' = Nobody
        /\ result' = [result EXCEPT ![waiting] = r]
    BY <1>1, <1>2
  <2> HIDE DEF to, Places
  <2>3. tx' \in [Txns -> Places]
    BY <2>1, <2>2
  <2>4. home' \in [Txns -> Sessions]
    BY <2>1, <2>2
  <2>5. holder' \in Txns \cup {Plain, Nobody}
    BY <1>1, <2>2
  <2>6. result' \in [Numbers -> {"none", "ok", "error"}]
    BY <2>1, <2>2
  <2>7. QED
    BY <2>3, <2>4, <2>5, <2>6 DEF Places
<1>9. waiting' \in 0..Len(log')
  BY <1>2, NumbersFacts DEF Typed
<1>10. TypeOK'
  BY <1>2, <1>3, <1>5, <1>8, <1>9 DEF Typed, TypeOK, UnderWay
<1>11. QED
  BY <1>7, <1>10 DEF Typed

LEMMA AnsweredTyped == Typed /\ (Answered \/ Lost) => Typed'
<1> SUFFICES ASSUME Typed, Answered \/ Lost PROVE Typed'
  OBVIOUS
<1>1. session \in Sessions /\ hint \in {"client", "server"} \X Nat
  BY DEF Typed, TypeOK
<1>2. CASE Lost
  BY <1>1, <1>2, ReturnTyped DEF Lost
<1>3. CASE Answered
  <2> DEFINE answer == answers[log[waiting].id]
  <2>1. waiting # 0
    BY <1>3 DEF Answered
  <2>2. PICK r \in {"ok", "error"} : Return(r, ApplySessionState(answer), NextHint(answer))
    BY <1>3 DEF Answered
  <2>3. answer \in Answers
    <3>1. log[waiting].id \in Numbers
      BY <2>1, ReturnFacts DEF Statements
    <3>2. QED
      BY <3>1 DEF Typed, TypeOK
  <2>4. /\ answer.session \in Sessions \cup {NoSession}
        /\ answer.hint \in {NoHint} \cup ({"server"} \X Nat)
    BY <2>3 DEF Answers
  <2>5. /\ ApplySessionState(answer) \in Sessions
        /\ NextHint(answer) \in {"client", "server"} \X Nat
    BY <1>1, <2>4, HintFacts DEF ApplySessionState, NextHint
  <2>6. QED
    BY <2>1, <2>2, <2>5, ReturnTyped
<1>4. QED
  BY <1>2, <1>3

LEMMA TakesFacts ==
  ASSUME Typed, LogFits, Untouched, NEW no \in pending, Takes(no)
  PROVE  /\ no \in Sent /\ no \in Numbers /\ log[no].id = no
         /\ answers[no] = NoAnswer /\ ran[no] = NotRun
         /\ Refuses(no) \/ RunsOutside(no) \/ RunsInside(no)
         /\ pending' = pending \ {no}
         /\ UNCHANGED <<serverAge, session, hint, holder, waiting, tx, home, ended, abandoned, log, result>>
<1>1. no \in Sent /\ no \in Numbers
  BY NumbersFacts DEF Typed, TypeOK, Sent
<1>2. log[no].id = no /\ answers[no] = NoAnswer /\ ran[no] = NotRun
  BY <1>1 DEF LogFits, Untouched
<1>3. QED
  BY <1>1, <1>2 DEF Takes, callers, client

\* What the server does with a statement it takes, case by case, and the answer
\* it gives.
Errs(no, e, s, h) ==
  /\ e = "query error" /\ h = NoHint /\ UNCHANGED <<ran, committed>>
  /\ \/ s = NoSession /\ UNCHANGED open
     \/ s = AutoCommit /\ log[no].kind = "commit" /\ \E b \in open : open' = open \ {b}

Begins(no, e, s, h) ==
  /\ e = "ok" /\ s = Active(no) /\ open' = open \cup {no} /\ UNCHANGED <<ran, committed>>
  /\ log[no].session \in {Unset, AutoCommit} /\ log[no].kind = "begin"

RunsAlone(no, e, s, h) ==
  /\ e = "ok" /\ s \in {Unset, AutoCommit} /\ h = NoHint
  /\ ran' = [ran EXCEPT ![no] = AutoCommit] /\ UNCHANGED <<open, committed>>
  /\ log[no].session \in {Unset, AutoCommit} /\ (log[no].kind = "begin" => serverAge = "old")

EndsInside(no, e, s, h, b) ==
  /\ e = "ok" /\ s = AutoCommit /\ h = NoHint /\ UNCHANGED ran
  /\ log[no].session = Active(b) /\ log[no].kind \in {"commit", "rollback"}
  /\ open' = open \ {b}
  /\ committed' = IF log[no].kind = "commit" THEN committed \cup {b} ELSE committed

RunsWithin(no, e, s, h, b) ==
  /\ e = "ok" /\ s = Active(b) /\ h = NoHint
  /\ ran' = [ran EXCEPT ![no] = Active(b)] /\ UNCHANGED <<open, committed>>
  /\ log[no].session = Active(b) /\ log[no].kind \in {"begin", "other"}

Served(no, e, s, h) ==
  \/ Errs(no, e, s, h) \/ Begins(no, e, s, h) \/ RunsAlone(no, e, s, h)
  \/ \E b \in open : EndsInside(no, e, s, h, b) \/ RunsWithin(no, e, s, h, b)

LEMMA ServerSteps ==
  ASSUME Typed, LogFits, Untouched, NEW no \in pending, Takes(no)
  PROVE  \E e \in {"ok", "query error"}, s \in Sessions \cup {NoSession},
            h \in {NoHint} \cup ({"server"} \X Nat) :
           /\ answers' = [answers EXCEPT ![no] = [error |-> e, session |-> s, hint |-> h]]
           /\ Served(no, e, s, h)
<1>1. /\ no \in Sent /\ no \in Numbers /\ log[no].id = no
      /\ Refuses(no) \/ RunsOutside(no) \/ RunsInside(no)
  BY TakesFacts
<1>2. /\ NoHint \in {NoHint} \cup ({"server"} \X Nat)
      /\ ServerHint(no) \in {NoHint} \cup ({"server"} \X Nat)
  BY <1>1, NumbersFacts, HintFacts DEF Typed
<1>3. /\ Active(no) \in Sessions /\ Unset \in Sessions /\ AutoCommit \in Sessions
      /\ \A b \in open : Active(b) \in Sessions
  <2>1. open \subseteq Sent
    BY DEF Typed, TypeOK, Sent
  <2>2. QED
    BY <1>1, <2>1, SessionFacts, NumbersFacts DEF Typed
<1>4. /\ serverAge \in {"old", "new"} /\ log[no].kind \in Kinds
  BY <1>1, NumbersFacts DEF Typed, TypeOK, Statements
<1>5. CASE Refuses(no)
  BY <1>1, <1>2, <1>3, <1>5 DEF Refuses, Answer, Served, Errs
<1>6. CASE RunsOutside(no)
  <2>1. CASE log[no].kind = "begin" /\ serverAge = "new"
    BY <1>1, <1>2, <1>3, <1>6, <2>1 DEF RunsOutside, Answer, Served, Begins
  <2>2. CASE ~(log[no].kind = "begin" /\ serverAge = "new")
    <3>1. Outside \in {Unset, AutoCommit}
      BY DEF Outside
    <3>2. QED
      BY <1>1, <1>2, <1>3, <1>4, <1>6, <2>2, <3>1 DEF RunsOutside, Answer, Served, RunsAlone
  <2>3. QED
    BY <2>1, <2>2
<1>7. CASE RunsInside(no)
  <2>1. PICK b \in open :
          /\ log[no].session = Active(b)
          /\ IF log[no].kind \in {"commit", "rollback"}
               THEN /\ Answer(no, "ok", AutoCommit, NoHint)
                    /\ open' = open \ {b} /\ ran' = ran
               ELSE /\ Answer(no, "ok", Active(b), NoHint)
                    /\ ran' = [ran EXCEPT ![no] = Active(b)] /\ open' = open
          /\ committed' = IF log[no].kind = "commit" THEN committed \cup {b} ELSE committed
    BY <1>7 DEF RunsInside
  <2>2. CASE log[no].kind \in {"commit", "rollback"}
    BY <1>1, <1>2, <1>3, <2>1, <2>2 DEF Answer, Served, EndsInside
  <2>3. CASE log[no].kind \in {"begin", "other"}
    BY <1>1, <1>2, <1>3, <2>1, <2>3 DEF Answer, Served, RunsWithin
  <2>4. QED
    BY <1>4, <2>2, <2>3 DEF Kinds
<1>8. QED
  BY <1>1, <1>5, <1>6, <1>7

LEMMA TakesTyped ==
  ASSUME Typed, LogFits, Untouched, NEW no \in pending, Takes(no)
  PROVE  Typed'
<1>1. /\ no \in Sent /\ no \in Numbers /\ pending' = pending \ {no}
      /\ UNCHANGED <<serverAge, session, hint, holder, waiting, tx, home, ended, abandoned, log, result>>
  BY TakesFacts
<1>2. /\ answers \in [Numbers -> Answers] /\ ran \in [Numbers -> {NotRun, AutoCommit} \cup Sessions]
      /\ pending \subseteq Sent /\ open \subseteq Sent /\ committed \subseteq Sent
      /\ Sent \subseteq Numbers
  BY NumbersFacts DEF Typed, TypeOK, Sent
<1>3. \A b \in Numbers : Active(b) \in Sessions
  BY SessionFacts
<1>4. /\ answers' \in [Numbers -> Answers] /\ ran' \in [Numbers -> {NotRun, AutoCommit} \cup Sessions]
      /\ open' \subseteq Sent /\ committed' \subseteq Sent
  <2>1. PICK e \in {"ok", "query error"}, s \in Sessions \cup {NoSession},
             h \in {NoHint} \cup ({"server"} \X Nat) :
          /\ answers' = [answers EXCEPT ![no] = [error |-> e, session |-> s, hint |-> h]]
          /\ Served(no, e, s, h)
    BY ServerSteps
  <2>2. answers' \in [Numbers -> Answers]
    BY <1>1, <1>2, <2>1, AnswerFacts
  <2>3. /\ ran' = ran \/ \E to \in {AutoCommit} \cup Sessions : ran' = [ran EXCEPT ![no] = to]
        /\ open' \subseteq open \cup {no} /\ committed' \subseteq open \cup committed
    BY <1>2, <1>3, <2>1 DEF Served, Errs, Begins, RunsAlone, EndsInside, RunsWithin
  <2>4. QED
    BY <1>1, <1>2, <2>2, <2>3
<1>5. TypeOK'
  BY <1>1, <1>2, <1>4 DEF Typed, TypeOK, Sent
<1>6. CallersFit'
  BY <1>1 DEF Typed, CallersFit
<1>7. QED
  BY <1>5, <1>6 DEF Typed

-------------------------------------------------------------------------------
(* The server's part of the invariant.                                     *)

\* A statement that comes along is not yet touched by the server.
LEMMA SendKeepsServer ==
  ASSUME Typed, ServerFits, NEW kind \in Kinds, NEW o \in Txns \cup {Plain}, Sends(kind, o)
  PROVE  ServerFits' /\ \A b \in Sent : Begun(b)' <=> Begun(b)
<1> DEFINE new == Len(log) + 1
<1>1. TypeOK /\ Send(kind, o)
  BY DEF Typed, Sends
<1>2. /\ Len(log') = new /\ Len(log') <= MaxStatements
      /\ \A no \in Sent : log'[no] = log[no]
      /\ log'[new].kind = kind /\ log'[new].owner = o /\ log'[new].session = session
      /\ log'[new].id = new
      /\ Sent' = Sent \cup {new} /\ new \notin Sent /\ pending' = pending \cup {new}
      /\ UNCHANGED <<serverAge, answers, ran, open, committed>>
  <2>1. /\ Len(log') = new /\ Len(log') <= MaxStatements /\ \A no \in Sent : log'[no] = log[no]
        /\ Sent' = Sent \cup {new} /\ new \notin Sent /\ pending' = pending \cup {new}
        /\ UNCHANGED <<serverAge, answers, ran, open, committed>>
    BY <1>1, SendFacts
  <2>2. log'[new] = [kind |-> kind, owner |-> o, session |-> session, hint |-> hint', id |-> new]
    BY <1>1, SendFacts
  <2>3. QED
    BY <2>1, <2>2
<1>3. /\ Len(log) \in Nat /\ Sent \subseteq Numbers /\ Numbers \subseteq Nat
      /\ new \in Numbers /\ open \cup committed \subseteq Sent
  <2>1. /\ Len(log) \in Nat /\ Sent \subseteq Numbers /\ Numbers \subseteq Nat
    BY <1>1, NumbersFacts
  <2>2. new \in Numbers
    BY <1>2, <2>1, ConstantsAssumption DEF Numbers
  <2>3. open \cup committed \subseteq Sent
    BY <1>1 DEF TypeOK, Sent
  <2>4. QED
    BY <2>1, <2>2, <2>3
<1>4. answers[new] = NoAnswer /\ ran[new] = NotRun
  BY <1>2, <1>3 DEF ServerFits, Untouched
<1>5. LogFits'
  BY <1>2, ConstantsAssumption DEF ServerFits, LogFits, Sends
<1>6. Untouched'
  BY <1>2, <1>3, <1>4 DEF ServerFits, Untouched
<1>7. \A b \in Sent : Begun(b)' <=> Begun(b)
  BY <1>2 DEF Begun
<1>8. AnswersFit'
  <2>1. /\ answers[new].hint = NoHint /\ answers[new].error = "none"
        /\ answers[new].session = NoSession
    BY <1>4, AnswerFacts
  <2>2. ASSUME NEW no \in Sent
        PROVE  answers'[no] = answers[no] /\ log'[no] = log[no] /\ (Begun(no)' <=> Begun(no))
    BY <1>2, <1>7
  <2>3. ASSUME NEW no, no = new
        PROVE  AnswerFits(no)'
    <3>1. answers'[no].hint = NoHint /\ answers'[no].error = "none" /\ answers'[no].session = NoSession
      BY <1>2, <2>1, <2>3
    <3>2. QED
      BY <3>1 DEF AnswerFits
  <2>4. ASSUME NEW no \in Sent
        PROVE  AnswerFits(no)'
    <3>1. AnswerFits(no) /\ serverAge' = serverAge
      BY <1>2 DEF ServerFits, AnswersFit
    <3>2. QED
      BY <2>2, <3>1 DEF AnswerFits
  <2>5. QED
    BY <1>2, <2>3, <2>4 DEF AnswersFit
<1>9. DoneInside'
  <2>1. answers'[new].error = "none"
    BY <1>2, <1>4, AnswerFacts
  <2>2. ASSUME NEW no \in Sent'
        PROVE  no = new \/ (no \in Sent /\ log'[no] = log[no])
    BY <1>2
  <2>3. QED
    BY <1>2, <2>1, <2>2 DEF ServerFits, DoneInside
<1>10. RanInside'
  BY <1>2, <1>4, SessionFacts DEF ServerFits, RanInside
<1>11. ServerTransactions'
  BY <1>2, <1>3, <1>7 DEF ServerFits, ServerTransactions
<1>12. QED
  BY <1>5, <1>6, <1>7, <1>8, <1>9, <1>10, <1>11 DEF ServerFits

\* What the server began stays begun, and what it answered stays answered.
LEMMA TakesKeepsServer ==
  ASSUME Typed, ServerFits, SessionsFit, NEW no \in pending, Takes(no)
  PROVE  /\ ServerFits'
         /\ \A b : Begun(b) => Begun(b)' /\ answers'[b] = answers[b]
         /\ \A i \in Numbers : answers[i].error = "ok" => answers'[i] = answers[i]
<1>1. /\ no \in Sent /\ no \in Numbers /\ answers[no] = NoAnswer /\ ran[no] = NotRun
      /\ pending' = pending \ {no} /\ UNCHANGED <<serverAge, log>> /\ Sent' = Sent
  BY TakesFacts DEF ServerFits, Sent
<1>2. PICK e \in {"ok", "query error"}, s \in Sessions \cup {NoSession},
           h \in {NoHint} \cup ({"server"} \X Nat) :
        /\ answers' = [answers EXCEPT ![no] = [error |-> e, session |-> s, hint |-> h]]
        /\ Served(no, e, s, h)
  BY ServerSteps DEF ServerFits
<1>3. /\ answers \in [Numbers -> Answers] /\ ran \in [Numbers -> {NotRun, AutoCommit} \cup Sessions]
      /\ Sent \subseteq Numbers /\ open \subseteq Sent /\ committed \subseteq Sent
  BY NumbersFacts DEF Typed, TypeOK, Sent
<1>4. /\ answers'[no].error = e /\ answers'[no].session = s /\ answers'[no].hint = h
      /\ \A i \in Numbers : i # no => answers'[i] = answers[i]
  BY <1>1, <1>2, <1>3
<1>5. /\ answers[no].error = "none"
      /\ \A i \in Numbers : answers[i].error = "ok" => answers'[i] = answers[i]
  BY <1>1, <1>4, AnswerFacts
<1>6. /\ \A i \in Numbers : i # no => ran'[i] = ran[i]
      /\ ran'[no] \in {NotRun, AutoCommit} \/ ran'[no] = log[no].session
  BY <1>1, <1>2, <1>3 DEF Served, Errs, Begins, RunsAlone, EndsInside, RunsWithin
<1>7. \A b : Begun(b) => b \in Numbers /\ b # no /\ Begun(b)' /\ answers'[b] = answers[b]
  BY <1>1, <1>3, <1>5 DEF Begun
<1>8. LogFits'
  BY <1>1 DEF ServerFits, LogFits
<1>9. Untouched'
  BY <1>1, <1>4, <1>6 DEF ServerFits, Untouched
<1>10. no \notin open \cup committed /\ open \cap committed = {}
  BY <1>7 DEF ServerFits, ServerTransactions
<1>11. /\ open' \subseteq open \cup {no} /\ committed' \subseteq open \cup committed
       /\ committed \subseteq committed' /\ open' \cap committed' = {}
       /\ no \in open' => Begins(no, e, s, h)
  <2>1. CASE Errs(no, e, s, h)
    BY <1>10, <2>1 DEF Errs
  <2>2. CASE Begins(no, e, s, h)
    BY <1>10, <2>2 DEF Begins
  <2>3. CASE RunsAlone(no, e, s, h)
    BY <1>10, <2>3 DEF RunsAlone
  <2>4. ASSUME NEW b \in open, EndsInside(no, e, s, h, b)
        PROVE  /\ open' \subseteq open /\ committed' \subseteq open \cup committed
               /\ committed \subseteq committed' /\ open' \cap committed' = {}
    BY <1>10, <2>4 DEF EndsInside
  <2>5. ASSUME NEW b \in open, RunsWithin(no, e, s, h, b)
        PROVE  open' = open /\ committed' = committed
    BY <2>5 DEF RunsWithin
  <2>6. QED
    BY <1>2, <1>10, <2>1, <2>2, <2>3, <2>4, <2>5 DEF Served
<1>12. Begins(no, e, s, h) => Begun(no)'
  BY <1>1, <1>4 DEF Begins, Begun
<1>13. ServerTransactions'
  BY <1>7, <1>11, <1>12 DEF ServerFits, ServerTransactions
<1>14. AnswersFit'
  <2>1. ASSUME NEW i \in Sent, i # no
        PROVE  answers'[i] = answers[i] /\ (Begun(i) => Begun(i)')
    BY <1>3, <1>4, <1>7, <2>1
  <2>2. /\ h # NoHint => Begun(no)'
        /\ e = "query error" => s = NoSession \/ (s = AutoCommit /\ log[no].kind = "commit")
        /\ e = "ok" /\ log[no].session \in {Unset, AutoCommit} =>
             \/ s \in {Unset, AutoCommit} /\ (log[no].kind = "begin" => serverAge = "old")
             \/ Begun(no)'
    BY <1>2, <1>12, SessionFacts DEF Served, Errs, Begins, RunsAlone, EndsInside, RunsWithin
  <2>3. /\ log' = log /\ serverAge' = serverAge /\ Sent' = Sent
        /\ answers'[no].error = e /\ answers'[no].session = s /\ answers'[no].hint = h
    BY <1>1, <1>4
  <2>4. AnswerFits(no)'
    <3>1. e # "none"
      OBVIOUS
    <3>2. QED
      BY <2>2, <2>3, <3>1 DEF AnswerFits
  <2>5. ASSUME NEW i \in Sent, i # no
        PROVE  AnswerFits(i)'
    <3>1. AnswerFits(i) /\ answers'[i] = answers[i] /\ (Begun(i) => Begun(i)')
      BY <2>1, <2>5 DEF ServerFits, AnswersFit
    <3>2. QED
      BY <2>3, <3>1 DEF AnswerFits
  <2>6. QED
    BY <2>3, <2>4, <2>5 DEF AnswersFit
<1>15. DoneInside'
  <2>1. ASSUME NEW i \in Sent, NEW b \in Numbers, answers'[i].error = "ok", log[i].session = Active(b)
        PROVE  /\ log[i].kind \in {"begin", "other"} =>
                    answers'[i].session = Active(b) /\ ran'[i] = Active(b)
               /\ log[i].kind \in {"commit", "rollback"} => answers'[i].session = AutoCommit
               /\ log[i].kind = "commit" => b \in committed'
               /\ log[i].kind = "rollback" => b \notin open' \cup committed'
    <3>1. Begun(b) /\ b # no
      BY <1>7, <2>1 DEF SessionsFit
    <3>2. CASE i # no
      <4>1. answers'[i] = answers[i] /\ ran'[i] = ran[i]
        BY <1>3, <1>4, <1>6, <3>2
      <4>2. /\ log[i].kind \in {"begin", "other"} =>
                 answers[i].session = Active(b) /\ ran[i] = Active(b)
            /\ log[i].kind \in {"commit", "rollback"} => answers[i].session = AutoCommit
            /\ log[i].kind = "commit" => b \in committed
            /\ log[i].kind = "rollback" => b \notin open \cup committed
        BY <2>1, <4>1 DEF ServerFits, DoneInside
      <4>3. QED
        BY <1>11, <3>1, <4>1, <4>2
    <3>3. CASE i = no
      <4>1. CASE RunsWithin(no, e, s, h, b)
        BY <1>1, <1>3, <1>4, <2>1, <3>3, <4>1 DEF RunsWithin
      <4>2. CASE EndsInside(no, e, s, h, b) /\ b \in open
        BY <1>4, <1>10, <2>1, <3>3, <4>2 DEF EndsInside
      <4>3. \A c \in open : EndsInside(no, e, s, h, c) \/ RunsWithin(no, e, s, h, c) => c = b
        BY <2>1, <3>3, SessionFacts DEF EndsInside, RunsWithin
      <4>4. ~Errs(no, e, s, h) /\ ~Begins(no, e, s, h) /\ ~RunsAlone(no, e, s, h)
        BY <1>4, <2>1, <3>3, SessionFacts DEF Errs, Begins, RunsAlone
      <4>5. QED
        BY <1>2, <4>1, <4>2, <4>3, <4>4 DEF Served
    <3>4. QED
      BY <3>2, <3>3
  <2>2. QED
    BY <1>1, <2>1 DEF DoneInside
<1>16. RanInside'
  <2>1. ASSUME NEW i \in Numbers, NEW b \in Numbers, ran'[i] = Active(b)
        PROVE  i \in Sent /\ log[i].session = Active(b)
    <3>1. CASE i = no
      BY <1>1, <1>6, <2>1, <3>1, SessionFacts
    <3>2. CASE i # no
      BY <1>6, <2>1, <3>2 DEF ServerFits, RanInside
    <3>3. QED
      BY <3>1, <3>2
  <2>2. QED
    BY <1>1, <2>1 DEF RanInside
<1>17. QED
  BY <1>5, <1>7, <1>8, <1>9, <1>13, <1>14, <1>15, <1>16 DEF ServerFits


-------------------------------------------------------------------------------
(* The callers' part of the invariant.                                     *)

CallerSteps == \E t \in Txns : CommitSkipped(t) \/ ContextEnds(t)

\* The sessions still fit if every one with a transaction was the owner's, or
\* that of a caller its owner strayed to.
LEMMA SessionsCarried ==
  ASSUME \A b \in Numbers : Begun(b) =>
           Begun(b)' /\ RouteOf(b)' = RouteOf(b) /\ log'[b].owner = log[b].owner,
         \A b \in Numbers : session' = Active(b) =>
           /\ Begun(b) /\ hint' = RouteOf(b)
           /\ holder' = log[b].owner \/ \E t \in Txns : t = log[b].owner /\ Stray(t)',
         \A b \in Numbers : \A no \in Sent' : log'[no].session = Active(b) =>
           /\ Begun(b) /\ log'[no].hint = RouteOf(b)
           /\ log'[no].owner = log[b].owner \/ \E t \in Txns : t = log[b].owner /\ Stray(t)'
  PROVE  SessionsFit'
<1>1. ASSUME NEW b \in Numbers, session' = Active(b)
      PROVE  Begun(b)' /\ hint' = RouteOf(b)' /\ (holder' = log'[b].owner \/ Stray(log[b].owner)')
  BY <1>1 DEF Stray
<1>2. ASSUME NEW b \in Numbers, NEW no \in Sent', log'[no].session = Active(b)
      PROVE  /\ Begun(b)' /\ log'[no].hint = RouteOf(b)'
             /\ log'[no].owner = log'[b].owner \/ Stray(log[b].owner)'
  BY <1>2 DEF Stray
<1>3. QED
  BY <1>1, <1>2 DEF SessionsFit

\* A statement brings the connection's session along, to whoever sends it.
LEMMA SendKeepsSessions ==
  ASSUME Typed, ServerFits, SessionsFit, BeginsFirst, HomeKept,
         NEW kind \in Kinds, NEW o \in Txns \cup {Plain}, Sends(kind, o)
  PROVE  SessionsFit' /\ BeginsFirst' /\ HomeKept'
<1> DEFINE new == Len(log) + 1
<1>1. TypeOK /\ Send(kind, o)
  BY DEF Typed, Sends
<1>2. /\ \A no \in Sent : log'[no] = log[no]
      /\ hint' = RouteHint(new) /\ Sent' = Sent \cup {new} /\ new \notin Sent
      /\ UNCHANGED <<serverAge, session, ended, home, answers>>
  BY <1>1, SendFacts
<1>3. log'[new] = [kind |-> kind, owner |-> o, session |-> session, hint |-> hint', id |-> new]
  BY <1>1, SendFacts
<1>4. \A b \in Sent : Begun(b)' <=> Begun(b)
  BY SendKeepsServer
<1>5. /\ log'[new].kind = kind /\ log'[new].owner = o /\ log'[new].session = session
      /\ log'[new].hint = hint'
  BY <1>3
<1>6. /\ tx \in [Txns -> {"new", "beginning", "open", "committing", "rolling back",
                          "begin failed", "committed", "rolled back", "end failed"}]
      /\ holder = Nobody \/ holder = o
      /\ holder' = o
      /\ o \in Txns => /\ tx[o] \in {"new", "open"} /\ tx'[o] = During(kind)
                       /\ kind = "begin" <=> tx[o] = "new"
      /\ \A t \in Txns : t # o => tx'[t] = tx[t]
      /\ abandoned' \subseteq abandoned \cup {o}
  BY ConstantsAssumption DEF Typed, TypeOK, Sends
<1>7. \A t \in Txns : Stray(t) => t # o /\ Stray(t)'
  BY <1>2, <1>6 DEF Stray
<1>8. \A b \in Numbers : Begun(b) =>
        /\ b \in Sent /\ Begun(b)' /\ RouteOf(b)' = RouteOf(b) /\ log'[b].owner = log[b].owner
        /\ log[b].owner \in Txns
  <2>1. \A b \in Sent : log[b].owner \in Txns \cup {Plain}
    BY <1>1, NumbersFacts DEF Statements
  <2>2. QED
    BY <1>2, <1>4, <2>1 DEF Begun, RouteOf, ServerFits, LogFits
<1>9. ASSUME NEW b \in Numbers, session = Active(b)
      PROVE  Begun(b) /\ hint' = RouteOf(b) /\ (o = log[b].owner \/ Stray(log[b].owner))
  <2>1. hint' = hint
    BY <1>2, <1>9, SessionFacts DEF RouteHint, InActiveTransaction
  <2>2. Begun(b) /\ hint = RouteOf(b) /\ (holder = log[b].owner \/ Stray(log[b].owner))
    BY <1>9 DEF SessionsFit
  <2>3. QED
    BY <1>6, <1>8, <2>1, <2>2, ConstantsAssumption
<1>10. SessionsFit'
  <2>1. ASSUME NEW b \in Numbers, NEW no \in Sent', log'[no].session = Active(b)
        PROVE  /\ Begun(b) /\ log'[no].hint = RouteOf(b)
               /\ log'[no].owner = log[b].owner \/ Stray(log[b].owner)
    <3>1. CASE no = new
      BY <1>2, <1>5, <1>9, <2>1, <3>1
    <3>2. CASE no \in Sent
      <4>1. log'[no] = log[no]
        BY <1>2, <3>2
      <4>2. QED
        BY <2>1, <3>2, <4>1 DEF SessionsFit
    <3>3. QED
      BY <1>2, <3>1, <3>2
  <2>2. ASSUME NEW b \in Numbers, session' = Active(b)
        PROVE  /\ Begun(b) /\ hint' = RouteOf(b)
               /\ holder' = log[b].owner \/ Stray(log[b].owner)
    BY <1>2, <1>6, <1>9, <2>2
  <2>3. QED
    BY <1>7, <1>8, <2>1, <2>2, SessionsCarried
<1>11. /\ During("begin") = "beginning"
       /\ kind # "begin" => During(kind) \in {"open", "committing", "rolling back"}
  BY DEF During, Kinds
<1>12. ASSUME NEW t \in Txns
       PROVE  /\ tx'[t] \in BeforeBegin <=> IF t = o THEN kind = "begin" ELSE tx[t] \in BeforeBegin
              /\ t = o => (tx[t] \in BeforeBegin <=> kind = "begin")
  BY <1>6, <1>11 DEF BeforeBegin
<1>13. \A no \in Sent' : no = new \/ (no \in Sent /\ log'[no] = log[no])
  BY <1>2
<1>14. BeginsFirst'
  BY <1>5, <1>12, <1>13 DEF BeginsFirst
<1>15. ASSUME NEW t \in Txns, serverAge' = "new"
       PROVE  /\ tx'[t] \in {"open", "committing", "rolling back"} => session' = home'[t]
              /\ tx'[t] \notin BeforeBegin => AtHome(t)'
              /\ tx'[t] = "committed" => EndAnswered(t, "commit")'
              /\ tx'[t] = "rolled back" => EndAnswered(t, "rollback")'
  <2>1. /\ tx[t] \in {"open", "committing", "rolling back"} => session = home[t]
        /\ tx[t] \notin BeforeBegin => AtHome(t)
        /\ tx[t] = "committed" => EndAnswered(t, "commit")
        /\ tx[t] = "rolled back" => EndAnswered(t, "rollback")
    BY <1>2, <1>15 DEF HomeKept
  <2>2. CASE t = o
    <3>1. /\ tx'[t] \in {"beginning", "open", "committing", "rolling back"}
          /\ kind # "begin" => tx[t] = "open"
      BY <1>6, <1>11, <2>2
    <3>2. tx'[t] \in {"open", "committing", "rolling back"} => kind # "begin"
      BY <1>6, <1>11, <2>2
    <3>3. kind # "begin" => AtHome(t) /\ session = home[t]
      BY <1>12, <2>1, <2>2, <3>1
    <3>4. kind # "begin" => AtHome(t)'
      BY <1>2, <1>5, <1>13, <3>3 DEF AtHome
    <3>5. QED
      BY <1>2, <1>12, <2>2, <3>1, <3>2, <3>3, <3>4
  <2>3. CASE t # o
    <3>1. tx'[t] = tx[t] /\ session' = session /\ home' = home
      BY <1>2, <1>6, <2>3
    <3>2. AtHome(t) => AtHome(t)'
      BY <1>2, <1>5, <1>13, <2>3 DEF AtHome
    <3>3. \A k : EndAnswered(t, k) => EndAnswered(t, k)'
      BY <1>2 DEF EndAnswered
    <3>4. QED
      BY <2>1, <3>1, <3>2, <3>3
  <2>4. QED
    BY <2>2, <2>3
<1>16. QED
  BY <1>10, <1>14, <1>15 DEF HomeKept


\* What the server does disturbs no session state that is under way.
LEMMA TakesKeepsSessions ==
  ASSUME Typed, ServerFits, ResultsFit, SessionsFit, BeginsFirst, HomeKept,
         NEW no \in pending, Takes(no)
  PROVE  ResultsFit' /\ SessionsFit' /\ BeginsFirst' /\ HomeKept'
<1>1. UNCHANGED <<serverAge, session, hint, holder, waiting, tx, home, ended, abandoned, log, result>>
  BY TakesFacts DEF ServerFits
<1>2. /\ \A b : Begun(b) => Begun(b)' /\ answers'[b] = answers[b]
      /\ \A i \in Numbers : answers[i].error = "ok" => answers'[i] = answers[i]
      /\ Sent \subseteq Numbers
  BY TakesKeepsServer, NumbersFacts DEF Typed
<1>3. ResultsFit'
  BY <1>1, <1>2 DEF ResultsFit
<1>4. SessionsFit'
  <2>1. \A b : Begun(b) => RouteOf(b)' = RouteOf(b)
    BY <1>1, <1>2 DEF RouteOf
  <2>2. \A t : Stray(t)' <=> Stray(t)
    BY <1>1 DEF Stray
  <2>3. QED
    BY <1>1, <1>2, <2>1, <2>2 DEF SessionsFit, Sent
<1>5. BeginsFirst'
  BY <1>1 DEF BeginsFirst, Sent
<1>6. HomeKept'
  <2>1. \A t : AtHome(t) => AtHome(t)'
    BY <1>1 DEF AtHome, Sent
  <2>2. \A t, kind : EndAnswered(t, kind) => EndAnswered(t, kind)'
    BY <1>1, <1>2 DEF EndAnswered, Sent
  <2>3. QED
    BY <1>1, <2>1, <2>2 DEF HomeKept
<1>7. QED
  BY <1>3, <1>4, <1>5, <1>6

\* Steps that leave log and server alone leave the server's part alone.
LEMMA FrameKeeps ==
  ASSUME ServerFits, UNCHANGED <<serverAge, log, pending, answers, ran, open, committed>>
  PROVE  /\ ServerFits' /\ Sent' = Sent
         /\ \A b : (Begun(b)' <=> Begun(b)) /\ RouteOf(b)' = RouteOf(b)
<1>1. Sent' = Sent
  BY DEF Sent
<1>2. \A b : (Begun(b)' <=> Begun(b)) /\ RouteOf(b)' = RouteOf(b)
  BY <1>1 DEF Begun, RouteOf
<1>3. LogFits' /\ Untouched' /\ DoneInside' /\ RanInside'
  BY <1>1 DEF ServerFits, LogFits, Untouched, DoneInside, RanInside
<1>4. AnswersFit' /\ ServerTransactions'
  BY <1>1, <1>2 DEF ServerFits, AnswersFit, AnswerFits, ServerTransactions
<1>5. QED
  BY <1>1, <1>2, <1>3, <1>4 DEF ServerFits

\* The server rolls back: what was to be rolled back stays so.
LEMMA AbortsKeeps ==
  ASSUME Typed, TxInvariant, NEW b \in open, Aborts(b)
  PROVE  Typed' /\ TxInvariant'
<1>1. open' = open \ {b} /\ UNCHANGED <<serverAge, callers, client, log, pending, answers, ran, committed>>
  BY DEF Aborts
<1>2. UNCHANGED <<session, hint, holder, waiting, tx, home, ended, abandoned, result>> /\ Sent' = Sent
  BY <1>1 DEF callers, client, Sent
<1>3. TypeOK'
  BY <1>1, <1>2 DEF Typed, TypeOK
<1>4. CallersFit'
  BY <1>1, <1>2 DEF Typed, CallersFit
<1>5. \A i : Begun(i)' <=> Begun(i)
  BY <1>1, <1>2 DEF Begun
<1>6. LogFits' /\ Untouched' /\ AnswersFit' /\ DoneInside' /\ RanInside' /\ ServerTransactions'
  <2>1. LogFits' /\ Untouched' /\ RanInside'
    BY <1>1, <1>2 DEF TxInvariant, ServerFits, LogFits, Untouched, RanInside
  <2>2. AnswersFit'
    BY <1>1, <1>2, <1>5 DEF TxInvariant, ServerFits, AnswersFit, AnswerFits
  <2>3. DoneInside'
    BY <1>1, <1>2 DEF TxInvariant, ServerFits, DoneInside
  <2>4. ServerTransactions'
    BY <1>1, <1>5 DEF TxInvariant, ServerFits, ServerTransactions
  <2>5. QED
    BY <2>1, <2>2, <2>3, <2>4
<1>7. ResultsFit' /\ BeginsFirst'
  BY <1>1, <1>2 DEF TxInvariant, ResultsFit, BeginsFirst
<1>8. SessionsFit'
  BY <1>1, <1>2, <1>5 DEF TxInvariant, SessionsFit, RouteOf, Stray
<1>9. HomeKept'
  <2>1. \A t, kind : (AtHome(t)' <=> AtHome(t)) /\ (EndAnswered(t, kind)' <=> EndAnswered(t, kind))
    BY <1>1, <1>2 DEF AtHome, EndAnswered
  <2>2. QED
    BY <1>1, <1>2, <2>1 DEF TxInvariant, HomeKept
<1>10. QED
  BY <1>3, <1>4, <1>6, <1>7, <1>8, <1>9 DEF TxInvariant, ServerFits, Typed

\* Nothing is sent: COMMIT is skipped only where no server transaction can be,
\* and a context ends only before its transaction does.
LEMMA CallersKeep ==
  ASSUME Typed, TxInvariant, NEW t \in Txns, CommitSkipped(t) \/ ContextEnds(t)
  PROVE  Typed' /\ TxInvariant'
<1>1. /\ UNCHANGED <<serverAge, session, hint, waiting, home, abandoned, log, pending, answers, ran,
                     result, open, committed>>
      /\ tx[t] \in {"beginning", "open"}
      /\ \/ /\ tx[t] = "open" /\ waiting = 0 /\ session = Unset /\ holder' = Nobody
            /\ tx' = [tx EXCEPT ![t] = "committed"] /\ ended' = ended
         \/ tx' = tx /\ holder' = holder /\ ended' = ended \cup {t}
  BY DEF CommitSkipped, ContextEnds, Move, client, server
<1>2. /\ ServerFits' /\ Sent' = Sent
      /\ \A b : (Begun(b)' <=> Begun(b)) /\ RouteOf(b)' = RouteOf(b)
  BY <1>1, FrameKeeps DEF TxInvariant
<1>3. /\ tx \in [Txns -> {"new", "beginning", "open", "committing", "rolling back",
                          "begin failed", "committed", "rolled back", "end failed"}]
      /\ \A u \in Txns : tx[u] \in UnderWay <=> holder = u
      /\ abandoned \subseteq ended /\ ended \subseteq Txns
      /\ \A u \in abandoned : tx[u] \in Abandoning
  BY DEF Typed, TypeOK, CallersFit
<1>4. /\ \A u \in Txns : tx'[u] \in UnderWay <=> holder' = u
      /\ \A u \in abandoned' : tx'[u] \in Abandoning
  BY <1>1, <1>3, ConstantsAssumption DEF UnderWay, Abandoning
<1>5. TypeOK'
  <2>1. /\ tx' \in [Txns -> {"new", "beginning", "open", "committing", "rolling back",
                             "begin failed", "committed", "rolled back", "end failed"}]
        /\ holder' \in Txns \cup {Plain, Nobody} /\ ended' \subseteq Txns /\ abandoned' \subseteq ended'
    BY <1>1, <1>3 DEF Typed, TypeOK
  <2>2. \A u \in Txns : tx'[u] \in {"beginning", "open", "committing", "rolling back"} => holder' = u
    BY <1>4 DEF UnderWay
  <2>3. QED
    BY <1>1, <2>1, <2>2 DEF Typed, TypeOK
<1>6. CallersFit'
  BY <1>1, <1>3, <1>4, ConstantsAssumption DEF Typed, CallersFit
<1>7. \A u \in Txns : tx'[u] \in BeforeBegin <=> tx[u] \in BeforeBegin
  BY <1>1, <1>3 DEF BeforeBegin
<1>8. ResultsFit' /\ BeginsFirst'
  BY <1>1, <1>2, <1>7 DEF TxInvariant, ResultsFit, BeginsFirst
<1>9. SessionsFit'
  <2>1. ASSUME NEW u \in Txns, Stray(u) PROVE Stray(u)'
    <3>1. u # t
      BY <1>1, <2>1 DEF Stray
    <3>2. tx'[u] = tx[u] /\ abandoned' = abandoned
      BY <1>1, <1>3, <3>1
    <3>3. QED
      BY <2>1, <3>2 DEF Stray
  <2>2. \A b \in Numbers : Begun(b) => log[b].owner \in Txns
    BY NumbersFacts DEF Begun, TxInvariant, ServerFits, LogFits, Typed, Statements
  <2>3. \A b \in Numbers : session = Active(b) => holder' = holder
    BY <1>1, SessionFacts
  <2>4. QED
    BY <1>1, <1>2, <2>1, <2>2, <2>3, SessionsCarried DEF TxInvariant, SessionsFit
<1>10. HomeKept'
  <2>1. \A u, kind : (AtHome(u)' <=> AtHome(u)) /\ (EndAnswered(u, kind)' <=> EndAnswered(u, kind))
    BY <1>1, <1>2 DEF AtHome, EndAnswered
  <2>2. ASSUME serverAge = "new" PROVE tx' = tx
    <3>1. tx[t] = "open" => session = home[t] /\ AtHome(t)
      BY <2>2 DEF TxInvariant, HomeKept, BeforeBegin
    <3>2. QED
      BY <1>1, <3>1, SessionFacts DEF AtHome
  <2>3. QED
    BY <1>1, <2>1, <2>2 DEF TxInvariant, HomeKept
<1>11. QED
  BY <1>2, <1>5, <1>6, <1>8, <1>9, <1>10 DEF TxInvariant, Typed

\* The session exec leaves: the one it went out with, unless an answer brought
\* another, which is that of the statement just begun or of one within.
LEMMA NewSession ==
  ASSUME Typed, TxInvariant, waiting # 0, NEW b \in Numbers,
         answers[waiting].error # "none",
         ApplySessionState(answers[waiting]) = Active(b)
  PROVE  \/ /\ b = waiting /\ Begun(waiting) /\ log[waiting].session \in {Unset, AutoCommit}
            /\ NextHint(answers[waiting]) = RouteOf(b)
         \/ /\ session = Active(b) /\ NextHint(answers[waiting]) = hint
            /\ answers[waiting].error = "ok" => log[waiting].kind \in {"begin", "other"}
<1> DEFINE answer == answers[waiting]
<1>1. /\ waiting \in Sent /\ log[waiting].session = session /\ log[waiting].hint = hint
      /\ log[waiting].kind \in Kinds /\ session \in Sessions
  BY ReturnFacts DEF Typed, TypeOK
<1>2. answer \in Answers
  BY <1>1, NumbersFacts DEF Typed, TypeOK
<1>3. answer.error \in {"ok", "query error"}
  BY <1>2 DEF Answers
<1>4. \A c \in Numbers : Active(c) \notin {Unset, AutoCommit, NoSession}
  BY SessionFacts
<1>5. CASE log[waiting].session \in {Unset, AutoCommit}
  <2>1. session # Active(b)
    BY <1>1, <1>4, <1>5
  <2>2. answer.session = Active(b)
    BY <2>1 DEF ApplySessionState
  <2>3. answer.error = "ok"
    BY <1>1, <1>3, <1>4, <2>2 DEF TxInvariant, ServerFits, AnswersFit, AnswerFits
  <2>4. Begun(waiting)
    BY <1>1, <1>4, <1>5, <2>2, <2>3 DEF TxInvariant, ServerFits, AnswersFit, AnswerFits
  <2>5. b = waiting
    BY <2>2, <2>4, SessionFacts DEF Begun
  <2>6. NextHint(answer) = RouteOf(b)
    BY <1>1, <2>5 DEF NextHint, RouteOf
  <2>7. QED
    BY <1>5, <2>4, <2>5, <2>6
<1>6. CASE log[waiting].session \notin {Unset, AutoCommit}
  <2>1. PICK c \in Numbers : session = Active(c)
    BY <1>1, <1>6, SessionFacts
  <2>2. NextHint(answer) = hint
    <3>1. ~Begun(waiting)
      BY <1>6 DEF Begun
    <3>2. QED
      BY <1>1, <3>1 DEF NextHint, TxInvariant, ServerFits, AnswersFit, AnswerFits
  <2>3. answer.error = "ok" =>
          /\ log[waiting].kind \in {"begin", "other"} => answer.session = Active(c)
          /\ log[waiting].kind \in {"commit", "rollback"} => answer.session = AutoCommit
    BY <1>1, <2>1 DEF TxInvariant, ServerFits, DoneInside
  <2>4. answer.error = "query error" => answer.session \in {NoSession, AutoCommit}
    BY <1>1 DEF TxInvariant, ServerFits, AnswersFit, AnswerFits
  <2>5. ApplySessionState(answer) \in {Active(c), AutoCommit}
    BY <1>1, <1>3, <2>1, <2>3, <2>4, SessionFacts DEF ApplySessionState, Kinds
  <2>6. Active(b) = Active(c)
    BY <1>4, <2>5
  <2>7. answer.error = "ok" => log[waiting].kind \in {"begin", "other"}
    BY <1>1, <1>4, <2>3, <2>1, SessionFacts DEF ApplySessionState, Kinds
  <2>8. QED
    BY <2>1, <2>2, <2>6, <2>7
<1>7. QED
  BY <1>5, <1>6

\* What exec returns, the session and the hint it leaves, answered or not.
Outcome(r, s, h) ==
  \/ LET answer == answers[waiting] IN
     /\ answer.error # "none" /\ (r = "ok" => answer.error = "ok")
     /\ s = ApplySessionState(answer) /\ h = NextHint(answer)
  \/ r = "error" /\ s = session /\ h = hint

\* A session with a transaction comes with its route and belongs to the caller
\* exec works for, unless its owner strayed; COMMIT and ROLLBACK leave one only
\* if they fail.
LEMMA OutcomeSession ==
  ASSUME Typed, TxInvariant, waiting # 0, NEW r, NEW s, NEW h, Outcome(r, s, h),
         NEW b \in Numbers, s = Active(b)
  PROVE  /\ Begun(b) /\ h = RouteOf(b) /\ (holder = log[b].owner \/ Stray(log[b].owner))
         /\ r = "ok" => log[waiting].kind \in {"begin", "other"}
<1>1. log[waiting].owner = holder /\ (Begun(waiting) => log[waiting].kind = "begin")
  BY ReturnFacts DEF Begun
<1>2. session = Active(b) => Begun(b) /\ hint = RouteOf(b)
                             /\ (holder = log[b].owner \/ Stray(log[b].owner))
  BY DEF TxInvariant, SessionsFit
<1>3. CASE r = "error" /\ s = session /\ h = hint
  BY <1>2, <1>3
<1>4. CASE LET answer == answers[waiting] IN
           /\ answer.error # "none" /\ (r = "ok" => answer.error = "ok")
           /\ s = ApplySessionState(answer) /\ h = NextHint(answer)
  BY <1>1, <1>2, <1>4, NewSession
<1>5. QED
  BY <1>3, <1>4 DEF Outcome

\* A new server's BEGIN leaves a transaction, and a statement stays in it.
LEMMA OutcomeHome ==
  ASSUME Typed, TxInvariant, waiting # 0, serverAge = "new",
         NEW r, NEW s, NEW h, Outcome(r, s, h)
  PROVE  /\ log[waiting].kind = "begin" /\ r = "ok" => \E b \in Numbers : s = Active(b)
         /\ log[waiting].kind = "other" => \A c \in Numbers : session = Active(c) => s = session
<1> DEFINE answer == answers[waiting]
<1>1. /\ waiting \in Sent /\ log[waiting].session = session /\ session \in Sessions
      /\ waiting \in Numbers
  BY ReturnFacts, NumbersFacts DEF Typed, TypeOK
<1>2. answer \in Answers
  BY <1>1 DEF Typed, TypeOK
<1>3. answer.error \in {"none", "ok", "query error"}
  BY <1>2 DEF Answers
<1>4. ASSUME log[waiting].kind = "begin", r = "ok" PROVE \E b \in Numbers : s = Active(b)
  <2>1. answer.error = "ok" /\ s = ApplySessionState(answer)
    BY <1>4 DEF Outcome
  <2>2. CASE session \in {Unset, AutoCommit}
    <3>1. answer.session = Active(waiting)
      BY <1>1, <1>4, <2>1, <2>2 DEF TxInvariant, ServerFits, AnswersFit, AnswerFits, Begun
    <3>2. QED
      BY <1>1, <2>1, <3>1, SessionFacts DEF ApplySessionState
  <2>3. CASE session \notin {Unset, AutoCommit}
    <3>1. PICK c \in Numbers : session = Active(c)
      BY <1>1, <2>3, SessionFacts
    <3>2. answer.session = Active(c)
      BY <1>1, <1>4, <2>1, <3>1 DEF TxInvariant, ServerFits, DoneInside
    <3>3. QED
      BY <2>1, <3>2, SessionFacts DEF ApplySessionState
  <2>4. QED
    BY <2>2, <2>3
<1>5. ASSUME log[waiting].kind = "other", NEW c \in Numbers, session = Active(c) PROVE s = session
  <2>1. answer.error = "ok" => answer.session = session
    BY <1>1, <1>5 DEF TxInvariant, ServerFits, DoneInside
  <2>2. answer.error = "query error" => answer.session = NoSession
    BY <1>1, <1>5 DEF TxInvariant, ServerFits, AnswersFit, AnswerFits
  <2>3. QED
    BY <1>3, <2>1, <2>2 DEF Outcome, ApplySessionState
<1>6. QED
  BY <1>4, <1>5

LEMMA ReturnKeeps ==
  ASSUME Typed, TxInvariant, waiting # 0, NEW r \in {"ok", "error"}, NEW s, NEW h,
         Outcome(r, s, h), Return(r, s, h)
  PROVE  ServerFits' /\ ResultsFit' /\ SessionsFit' /\ BeginsFirst' /\ HomeKept'
<1> DEFINE kind == log[waiting].kind
           to == AfterStatement(kind, r)
           discard == kind = "rollback" /\ holder \in abandoned
<1>1. /\ waiting \in Sent /\ log[waiting].owner = holder /\ holder \in Txns \cup {Plain}
      /\ kind \in Kinds /\ log[waiting].session = session
      /\ holder = Plain => kind = "other"
      /\ holder \in Txns => tx[holder] = During(kind)
  BY ReturnFacts
<1>2. /\ result' = [result EXCEPT ![waiting] = r]
      /\ IF holder = Plain THEN tx' = tx /\ holder' = Nobody
         ELSE tx' = [tx EXCEPT ![holder] = to] /\ holder' = IF to = "open" THEN holder ELSE Nobody
      /\ home' = IF kind = "begin" /\ r = "ok" THEN [home EXCEPT ![holder] = s] ELSE home
      /\ session' = (IF discard THEN Unset ELSE s)
      /\ ~discard => hint' = h
      /\ UNCHANGED <<serverAge, ended, abandoned, log, pending, answers, ran, open, committed>>
  BY <1>1, ConstantsAssumption DEF Return, Move, server
<1>3. /\ ServerFits' /\ Sent' = Sent
      /\ \A b : (Begun(b)' <=> Begun(b)) /\ RouteOf(b)' = RouteOf(b)
  BY <1>2, FrameKeeps DEF TxInvariant
<1>4. /\ to \in {"open", "begin failed", "committed", "rolled back", "end failed"}
      /\ to = "open" <=> kind = "other" \/ (kind = "begin" /\ r = "ok")
      /\ to = "begin failed" <=> kind = "begin" /\ r # "ok"
      /\ to = "committed" <=> kind = "commit" /\ r = "ok"
      /\ to = "rolled back" <=> kind = "rollback" /\ r = "ok"
  BY <1>1, AfterFacts
<1>5. /\ tx \in [Txns -> {"new", "beginning", "open", "committing", "rolling back",
                          "begin failed", "committed", "rolled back", "end failed"}]
      /\ home \in [Txns -> Sessions] /\ result \in [Numbers -> {"none", "ok", "error"}]
      /\ \A t \in Txns : tx[t] \in UnderWay <=> holder = t
      /\ \A t \in abandoned : tx[t] \in Abandoning
  BY DEF Typed, TypeOK, CallersFit
<1>6. /\ \A t \in Txns : t # holder => tx'[t] = tx[t] /\ home'[t] = home[t]
      /\ holder \in Txns => tx'[holder] = to
      /\ \A t \in Txns : Stray(t) => t # holder
  <2>1. tx' = tx \/ (holder \in Txns /\ tx' = [tx EXCEPT ![holder] = to])
    BY <1>1, <1>2, ConstantsAssumption
  <2>2. home' = home \/ home' = [home EXCEPT ![holder] = s]
    BY <1>2
  <2>3. \A t \in Txns : t # holder => tx'[t] = tx[t] /\ home'[t] = home[t]
    BY <1>5, <2>1, <2>2
  <2>4. holder \in Txns => tx'[holder] = to
    BY <1>2, <1>5, ConstantsAssumption
  <2>5. \A t \in Txns : Stray(t) => t # holder
    BY <1>5 DEF Stray, UnderWay
  <2>6. QED
    BY <2>3, <2>4, <2>5
<1>7. \A t \in Txns : Stray(t) => Stray(t)'
  BY <1>2, <1>6 DEF Stray
<1>8. \A b \in Numbers : Begun(b) => log[b].owner \in Txns
  BY NumbersFacts DEF Begun, TxInvariant, ServerFits, LogFits, Typed, Statements
<1>9. ResultsFit'
  <2>1. log[waiting].id = waiting
    BY <1>1 DEF TxInvariant, ServerFits, LogFits
  <2>2. r = "ok" => answers[waiting].error = "ok"
    BY DEF Outcome
  <2>3. QED
    BY <1>2, <1>5, <2>2 DEF TxInvariant, ResultsFit
<1>10. SessionsFit'
  <2>1. ASSUME NEW b \in Numbers, session' = Active(b)
        PROVE  /\ Begun(b) /\ hint' = RouteOf(b)
               /\ holder' = log[b].owner \/ \E t \in Txns : t = log[b].owner /\ Stray(t)'
    <3>1. ~discard /\ s = Active(b) /\ hint' = h
      BY <1>2, <2>1, SessionFacts
    <3>2. /\ Begun(b) /\ h = RouteOf(b) /\ (holder = log[b].owner \/ Stray(log[b].owner))
          /\ r = "ok" => kind \in {"begin", "other"}
      BY <3>1, OutcomeSession
    <3>3. log[b].owner \in Txns
      BY <1>8, <3>2
    <3>4. CASE Stray(log[b].owner)
      BY <1>7, <3>1, <3>2, <3>3, <3>4
    <3>5. CASE holder = log[b].owner
      <4>1. CASE to = "open"
        BY <1>2, <3>1, <3>2, <3>3, <3>5, <4>1, ConstantsAssumption
      <4>2. CASE to # "open"
        <5>1. to \in {"begin failed", "end failed"}
          BY <1>4, <3>2, <4>2
        <5>2. to = "end failed" => holder \notin abandoned
          <6>1. kind = "commit" => tx[holder] = "committing"
            BY <1>1, <3>3, <3>5 DEF During
          <6>2. to = "end failed" => kind \in {"commit", "rollback"}
            BY <1>1, <1>4 DEF Kinds
          <6>3. QED
            BY <1>5, <3>1, <3>3, <3>5, <6>1, <6>2 DEF Abandoning
        <5>3. ASSUME NEW t \in Txns, t = holder PROVE Stray(t)'
          BY <5>3, <1>2, <1>6, <3>3, <3>5, <5>1, <5>2 DEF Stray
        <5>4. QED
          BY <3>1, <3>2, <3>3, <3>5, <5>3
      <4>3. QED
        BY <4>1, <4>2
    <3>6. QED
      BY <3>2, <3>4, <3>5
  <2>2. ASSUME NEW b \in Numbers, NEW no \in Sent', log'[no].session = Active(b)
        PROVE  /\ Begun(b) /\ log'[no].hint = RouteOf(b)
               /\ log'[no].owner = log[b].owner \/ \E t \in Txns : t = log[b].owner /\ Stray(t)'
    <3>1. /\ Begun(b) /\ log[no].hint = RouteOf(b)
          /\ log[no].owner = log[b].owner \/ Stray(log[b].owner)
      BY <1>2, <1>3, <2>2 DEF TxInvariant, SessionsFit
    <3>2. QED
      BY <1>2, <1>7, <1>8, <3>1
  <2>3. QED
    BY <1>2, <1>3, <2>1, <2>2, SessionsCarried
<1>11. BeginsFirst'
  <2>1. ASSUME NEW t \in Txns, tx'[t] \in BeforeBegin PROVE tx[t] \in BeforeBegin
    <3>1. to = "begin failed" /\ holder \in Txns => tx[holder] = "beginning"
      BY <1>1, <1>4 DEF During
    <3>2. QED
      BY <1>4, <1>6, <2>1, <3>1 DEF BeforeBegin
  <2>2. QED
    BY <1>2, <1>3, <2>1 DEF TxInvariant, BeginsFirst
<1>12. ASSUME NEW t \in Txns, serverAge' = "new"
       PROVE  /\ tx'[t] \in {"open", "committing", "rolling back"} => session' = home'[t]
              /\ tx'[t] \notin BeforeBegin => AtHome(t)'
              /\ tx'[t] = "committed" => EndAnswered(t, "commit")'
              /\ tx'[t] = "rolled back" => EndAnswered(t, "rollback")'
  <2>1. /\ tx[t] \in {"open", "committing", "rolling back"} => session = home[t]
        /\ tx[t] \notin BeforeBegin => AtHome(t)
        /\ tx[t] = "committed" => EndAnswered(t, "commit")
        /\ tx[t] = "rolled back" => EndAnswered(t, "rollback")
    BY <1>2, <1>12 DEF TxInvariant, HomeKept
  <2>2. \A k : EndAnswered(t, k) => EndAnswered(t, k)'
    BY <1>2, <1>3 DEF EndAnswered
  <2>3. home'[t] = home[t] /\ AtHome(t) => AtHome(t)'
    BY <1>2, <1>3 DEF AtHome
  <2>4. CASE t # holder
    <3>1. tx'[t] = tx[t] /\ home'[t] = home[t] /\ tx[t] \notin {"open", "committing", "rolling back"}
      BY <1>5, <1>6, <2>4 DEF UnderWay
    <3>2. QED
      BY <2>1, <2>2, <2>3, <3>1
  <2>5. CASE t = holder /\ kind = "begin"
    <3>1. to = IF r = "ok" THEN "open" ELSE "begin failed"
      BY <1>4, <2>5
    <3>2. CASE r # "ok"
      BY <1>6, <2>5, <3>1, <3>2 DEF BeforeBegin
    <3>3. CASE r = "ok"
      <4>1. tx[t] \in BeforeBegin
        BY <1>1, <2>5 DEF During, BeforeBegin
      <4>2. \A no \in Sent : log[no].owner = t => log[no].kind = "begin"
        BY <4>1 DEF TxInvariant, BeginsFirst
      <4>3. home'[t] = s /\ session' = s /\ tx'[t] = "open"
        BY <1>2, <1>5, <1>6, <2>5, <3>1, <3>3
      <4>4. \E b \in Numbers : s = Active(b)
        BY <1>2, <1>12, <2>5, <3>3, OutcomeHome
      <4>5. AtHome(t)'
        BY <1>2, <1>3, <4>2, <4>3, <4>4 DEF AtHome
      <4>6. QED
        BY <4>3, <4>5
    <3>4. QED
      BY <3>2, <3>3
  <2>6. CASE t = holder /\ kind # "begin"
    <3>1. /\ tx[t] \in {"open", "committing", "rolling back"}
          /\ tx[t] \notin BeforeBegin /\ home'[t] = home[t] /\ tx'[t] = to
      BY <1>1, <1>2, <1>6, <2>6 DEF During, Kinds, BeforeBegin
    <3>2. session = home[t] /\ AtHome(t) /\ AtHome(t)'
      BY <2>1, <2>3, <3>1
    <3>3. ASSUME to \in {"open", "committing", "rolling back"} PROVE session' = home'[t]
      <4>1. kind = "other"
        BY <1>4, <2>6, <3>3
      <4>2. s = session
        BY <1>2, <1>12, <3>2, <4>1, OutcomeHome DEF AtHome
      <4>3. QED
        BY <1>2, <3>1, <3>2, <4>1, <4>2
    <3>4. to \in {"committed", "rolled back"} => EndAnswered(t, kind)
      <4>1. r = "ok" => answers[waiting].error = "ok"
        BY DEF Outcome
      <4>2. QED
        BY <1>1, <1>4, <2>6, <4>1 DEF EndAnswered
    <3>5. to = "committed" => kind = "commit"
      BY <1>4
    <3>6. to = "rolled back" => kind = "rollback"
      BY <1>4
    <3>7. QED
      BY <2>2, <3>1, <3>2, <3>3, <3>4, <3>5, <3>6
  <2>7. QED
    BY <2>4, <2>5, <2>6
<1>13. QED
  BY <1>3, <1>9, <1>10, <1>11, <1>12 DEF HomeKept

-------------------------------------------------------------------------------
(* The invariant, and what it says of the application's transactions.      *)

LEMMA InitInvariant == Init => Typed /\ TxInvariant
<1> SUFFICES ASSUME Init PROVE Typed /\ TxInvariant
  OBVIOUS
<1>1. Typed
  BY InitTyped
<1>2. Sent = {}
  BY DEF Init, Sent
<1>3. /\ LogFits /\ AnswersFit /\ DoneInside /\ BeginsFirst
  BY <1>2 DEF LogFits, AnswersFit, DoneInside, BeginsFirst
<1>4. Untouched /\ RanInside /\ ServerTransactions /\ ResultsFit
  BY SessionFacts DEF Init, Untouched, RanInside, ServerTransactions, ResultsFit
<1>5. SessionsFit
  BY <1>2, SessionFacts DEF Init, SessionsFit
<1>6. HomeKept
  BY DEF Init, HomeKept, BeforeBegin
<1>7. QED
  BY <1>1, <1>3, <1>4, <1>5, <1>6 DEF TxInvariant, ServerFits, Typed

LEMMA StepInvariant == Typed /\ TxInvariant /\ [Next]_vars => Typed' /\ TxInvariant'
<1> SUFFICES ASSUME Typed, TxInvariant, [Next]_vars PROVE Typed' /\ TxInvariant'
  OBVIOUS
<1>1. ServerFits /\ ResultsFit /\ SessionsFit /\ BeginsFirst /\ HomeKept
  BY DEF TxInvariant
<1>2. Typed' /\ ServerFits' /\ ResultsFit' /\ SessionsFit' /\ BeginsFirst' /\ HomeKept'
      => Typed' /\ TxInvariant'
  BY DEF Typed, TxInvariant
<1>3. CASE SendSteps
  <2>1. PICK kind \in Kinds, o \in Txns \cup {Plain} : Sends(kind, o)
    BY <1>3, SendCases
  <2>2. UNCHANGED <<result, answers>>
    BY <2>1 DEF Sends, Send, server
  <2>3. ResultsFit'
    BY <1>1, <2>2 DEF ResultsFit
  <2>4. QED
    BY <1>1, <1>2, <2>1, <2>3, SendTyped, SendKeepsServer, SendKeepsSessions
<1>4. ASSUME NEW t \in Txns, CommitSkipped(t) \/ ContextEnds(t) PROVE Typed' /\ TxInvariant'
  BY <1>4, CallersKeep
<1>5. CASE Answered
  <2>1. waiting # 0
    BY <1>5 DEF Answered
  <2>2. log[waiting].id = waiting
    BY <1>1, <2>1, ReturnFacts DEF ServerFits, LogFits
  <2>3. PICK r \in {"ok", "error"} :
          /\ Outcome(r, ApplySessionState(answers[waiting]), NextHint(answers[waiting]))
          /\ Return(r, ApplySessionState(answers[waiting]), NextHint(answers[waiting]))
    BY <1>5, <2>2 DEF Answered, Outcome
  <2>4. QED
    BY <1>2, <1>5, <2>1, <2>3, AnsweredTyped, ReturnKeeps
<1>6. CASE Lost
  <2>1. waiting # 0 /\ Return("error", session, hint) /\ Outcome("error", session, hint)
    BY <1>6 DEF Lost, Outcome
  <2>2. QED
    BY <1>2, <1>6, <2>1, AnsweredTyped, ReturnKeeps
<1>7. ASSUME NEW no \in pending, Takes(no) PROVE Typed' /\ TxInvariant'
  BY <1>1, <1>2, <1>7, TakesTyped, TakesKeepsServer, TakesKeepsSessions DEF ServerFits
<1>8. ASSUME NEW b \in open, Aborts(b) PROVE Typed' /\ TxInvariant'
  BY <1>8, AbortsKeeps
<1>9. CASE UNCHANGED vars
  <2>1. /\ UNCHANGED <<serverAge, session, hint, holder, waiting, tx, home, ended, abandoned, log, pending,
                       answers, ran, result, open, committed>>
    BY <1>9 DEF vars
  <2>2. Typed'
    BY <2>1 DEF Typed, TypeOK, CallersFit
  <2>3. /\ ServerFits' /\ Sent' = Sent
        /\ \A b : (Begun(b)' <=> Begun(b)) /\ RouteOf(b)' = RouteOf(b)
    BY <1>1, <2>1, FrameKeeps
  <2>4. ResultsFit' /\ SessionsFit' /\ BeginsFirst'
    BY <1>1, <2>1, <2>3 DEF ResultsFit, SessionsFit, BeginsFirst, Stray
  <2>5. \A t, kind : (AtHome(t)' <=> AtHome(t)) /\ (EndAnswered(t, kind)' <=> EndAnswered(t, kind))
    BY <2>1, <2>3 DEF AtHome, EndAnswered
  <2>6. HomeKept'
    BY <1>1, <2>1, <2>5 DEF HomeKept
  <2>7. QED
    BY <1>2, <2>2, <2>3, <2>4, <2>6
<1>10. QED
  BY <1>3, <1>4, <1>5, <1>6, <1>7, <1>8, <1>9 DEF Next, SendSteps

\* Typed and TxInvariant are inductive: callers, server and session states stay
\* in step whatever is lost, late or refused.
THEOREM Invariance == Spec => [](Typed /\ TxInvariant)
BY InitInvariant, StepInvariant, PTL DEF Spec

\* The connection is with the caller whose transaction is under way, statements
\* are numbered as they are sent, and the server's answers have their shape.
THEOREM TypeCorrect == Spec => []TypeOK
<1>1. Typed => TypeOK
  BY DEF Typed
<1>2. QED
  BY <1>1, Invariance, PTL

\* Tx.Commit and Tx.Rollback return nil only if the server did what they say,
\* and Commit only if all that the application believes to have run is in it
\* (transaction.go:26-49).
THEOREM OutcomesAreTrue == Spec => []OutcomesAreHonest
<1>1. ASSUME Typed, TxInvariant PROVE OutcomesAreHonest
  <2>1. Sent \subseteq Numbers
    BY <1>1, NumbersFacts DEF Typed
  <2>2. ASSUME NEW t \in Txns, NEW kind \in {"commit", "rollback"}, serverAge = "new",
               tx[t] = "committed" \/ tx[t] = "rolled back", EndAnswered(t, kind)
        PROVE  \E b \in Numbers : /\ home[t] = Active(b)
                                  /\ kind = "commit" => b \in committed
                                  /\ kind = "rollback" => b \notin open \cup committed
    <3>1. AtHome(t)
      BY <1>1, <2>2 DEF TxInvariant, HomeKept, BeforeBegin
    <3>2. PICK no \in Sent : log[no].owner = t /\ log[no].kind = kind /\ answers[no].error = "ok"
      BY <2>2 DEF EndAnswered
    <3>3. PICK b \in Numbers : home[t] = Active(b)
      BY <3>1 DEF AtHome
    <3>4. log[no].session = Active(b)
      BY <3>1, <3>2, <3>3 DEF AtHome
    <3>5. QED
      BY <1>1, <3>2, <3>3, <3>4 DEF TxInvariant, ServerFits, DoneInside
  <2>3. ASSUME NEW t \in Txns, tx[t] = "committed", serverAge = "new", NEW no \in Believed(t)
        PROVE  ran[no] = home[t]
    <3>1. AtHome(t)
      BY <1>1, <2>3 DEF TxInvariant, HomeKept, BeforeBegin
    <3>2. no \in Sent /\ log[no].owner = t /\ log[no].kind = "other" /\ result[no] = "ok"
      BY <2>3 DEF Believed, Sent
    <3>3. PICK b \in Numbers : home[t] = Active(b)
      BY <3>1 DEF AtHome
    <3>4. log[no].session = Active(b) /\ answers[no].error = "ok"
      BY <1>1, <2>1, <3>1, <3>2, <3>3 DEF AtHome, TxInvariant, ResultsFit
    <3>5. QED
      BY <1>1, <3>2, <3>3, <3>4 DEF TxInvariant, ServerFits, DoneInside
  <2>4. CommitIsHonest
    <3>1. ASSUME NEW t \in Txns, tx[t] = "committed", serverAge = "new"
          PROVE  \E b \in committed : home[t] = Active(b)
      <4>1. EndAnswered(t, "commit")
        BY <1>1, <3>1 DEF TxInvariant, HomeKept
      <4>2. QED
        BY <2>2, <3>1, <4>1
    <3>2. QED
      BY <2>3, <3>1 DEF CommitIsHonest
  <2>5. RollbackIsHonest
    <3>1. ASSUME NEW t \in Txns, tx[t] = "rolled back", serverAge = "new"
          PROVE  \E b \in Numbers \ (open \cup committed) : home[t] = Active(b)
      <4>1. EndAnswered(t, "rollback")
        BY <1>1, <3>1 DEF TxInvariant, HomeKept
      <4>2. QED
        BY <2>2, <3>1, <4>1
    <3>2. QED
      BY <3>1 DEF RollbackIsHonest
  <2>6. QED
    BY <2>4, <2>5 DEF OutcomesAreHonest
<1>2. QED
  BY <1>1, Invariance, PTL

\* A statement runs in another caller's transaction only after that one's
\* BEGIN, COMMIT or ROLLBACK returned an error to the application, and never
\* after a rollback database/sql made itself, since it discards the connection.
THEOREM OnlyErrorsLetStatementsStray == Spec => []NoForeignStatements
<1>1. ASSUME Typed, TxInvariant PROVE NoForeignStatements
  <2>1. ASSUME NEW no \in Sent, NEW b \in Sent, ran[no] = Active(b),
               log[no].owner # log[b].owner
        PROVE  \/ tx[log[b].owner] = "begin failed"
               \/ tx[log[b].owner] = "end failed" /\ log[b].owner \notin abandoned
    <3>1. no \in Numbers /\ b \in Numbers
      BY <1>1, NumbersFacts DEF Typed
    <3>2. log[no].session = Active(b)
      BY <1>1, <2>1, <3>1 DEF TxInvariant, ServerFits, RanInside
    <3>3. Stray(log[b].owner)
      BY <1>1, <2>1, <3>1, <3>2 DEF TxInvariant, SessionsFit
    <3>4. QED
      BY <3>3 DEF Stray
  <2>2. QED
    BY <2>1 DEF NoForeignStatements, Sent
<1>2. QED
  BY <1>1, Invariance, PTL

\* All statements of a server transaction go out with one route hint: the one
\* the answer to BEGIN gave, or the one BEGIN itself went out with.
THEOREM OneRouteForEach == Spec => []TransactionKeepsItsRoute
<1>1. ASSUME Typed, TxInvariant PROVE TransactionKeepsItsRoute
  <2>1. Sent \subseteq Numbers
    BY <1>1, NumbersFacts DEF Typed
  <2>2. ASSUME NEW i \in Sent, NEW b \in Sent, log[i].session = Active(b)
        PROVE  log[i].hint = RouteOf(b) /\ log[b].id = b
    BY <1>1, <2>1, <2>2 DEF TxInvariant, ServerFits, LogFits, SessionsFit
  <2>3. QED
    BY <2>2 DEF TransactionKeepsItsRoute, RouteOf, Sent
<1>2. QED
  BY <1>1, Invariance, PTL
===============================================================================
