------------------------------ MODULE Transaction ------------------------------
(***************************************************************************)
(* Transactions on one pooled connection: LakeConn.BeginTx, lakeTx.Commit  *)
(* and lakeTx.Rollback (connection.go, transaction.go), the session state  *)
(* and route hint the APIClient carries from answer to answer (client.go), *)
(* and the callers that get the connection from the pool of database/sql,  *)
(* one after the other.                                                    *)
(*                                                                         *)
(* The server is external.  It keeps no session for the client: every      *)
(* statement brings the session state of the client's last answer, and the *)
(* answer brings the new one.  A statement whose query ID it has seen is a *)
(* retry and gets the first answer again (transaction.go, txContext).  A   *)
(* statement may run long after the client stopped waiting for it.         *)
(***************************************************************************)
EXTENDS Naturals, Sequences

CONSTANTS Txns,          \* the transactions of the application
          Plain,         \* stands for all callers without a transaction
          Nobody,        \* stands for no caller
          MaxStatements  \* bound: statements sent

ASSUME ConstantsAssumption == Plain \notin Txns /\ Nobody \notin Txns \cup {Plain} /\ MaxStatements \in Nat

Numbers == 1..MaxStatements
Kinds == {"begin", "commit", "rollback", "other"}

\* The transaction part of a session state.  A server transaction has the
\* number of the statement that began it.
Unset == <<"unset", 0>>
AutoCommit == <<"auto", 0>>
Active(b) == <<"active", b>>
NotRun == <<"not run", 0>>
NoSession == <<"no session", 0>>
Sessions == {Unset, AutoCommit} \cup {Active(b) : b \in Numbers}

ClientHint(no) == <<"client", no>>
ServerHint(no) == <<"server", no>>
NoHint == <<"none", 0>>

VARIABLES
  serverAge,  \* an "old" server knows no transactions and reports none
  session,    \* APIClient.sessionState.TxnState, and sessionStateRaw
  hint,       \* APIClient.routeHint
  holder,     \* who has the connection from the pool
  waiting,    \* number of the statement exec waits for, or 0
  tx,         \* where each transaction of the application is
  home,       \* the session its BEGIN left the connection in
  ended,      \* transactions whose context has ended
  abandoned,  \* those of them that database/sql rolls back, not the application
  log,        \* the statements sent, by number
  pending,    \* those the server has not taken yet
  answers,    \* the server's answers, by query ID
  ran,        \* where each statement ran
  result,     \* what exec returned for it
  open,       \* transactions open at the server
  committed   \* transactions committed at the server

callers == <<holder, tx, home, ended, abandoned>>
client == <<session, hint, waiting, result>>
server == <<answers, ran, open, committed>>
vars == <<serverAge, session, hint, holder, waiting, tx, home, ended,
          abandoned, log, pending, answers, ran, result, open, committed>>

Statements == [kind : Kinds, owner : Txns \cup {Plain}, session : Sessions,
               hint : {"client", "server"} \X Nat, id : Numbers]
NoAnswer == [error |-> "none", session |-> NoSession, hint |-> NoHint]
Answers == [error : {"none", "ok", "query error"}, session : Sessions \cup {NoSession},
            hint : {NoHint} \cup ({"server"} \X Nat)]

TypeOK ==
  /\ serverAge \in {"old", "new"}
  /\ session \in Sessions
  /\ hint \in {"client", "server"} \X Nat
  /\ holder \in Txns \cup {Plain, Nobody}
  /\ waiting \in 0..Len(log)
  /\ tx \in [Txns -> {"new", "beginning", "open", "committing", "rolling back",
                      "begin failed", "committed", "rolled back", "end failed"}]
  /\ \A t \in Txns : tx[t] \in {"beginning", "open", "committing", "rolling back"}
                     => holder = t
  /\ home \in [Txns -> Sessions]
  /\ ended \subseteq Txns /\ abandoned \subseteq ended
  /\ log \in Seq(Statements) /\ Len(log) <= MaxStatements
  /\ pending \subseteq 1..Len(log)
  /\ answers \in [Numbers -> Answers]
  /\ ran \in [Numbers -> {NotRun, AutoCommit} \cup Sessions]
  /\ result \in [Numbers -> {"none", "ok", "error"}]
  /\ open \subseteq 1..Len(log) /\ committed \subseteq 1..Len(log)

Init ==
  /\ serverAge \in {"old", "new"}
  /\ session = Unset
  /\ hint = ClientHint(0)
  /\ holder = Nobody
  /\ waiting = 0
  /\ tx = [t \in Txns |-> "new"]
  /\ home = [t \in Txns |-> Unset]
  /\ ended = {} /\ abandoned = {}
  /\ log = <<>> /\ pending = {}
  /\ answers = [id \in Numbers |-> NoAnswer]
  /\ ran = [no \in Numbers |-> NotRun]
  /\ result = [no \in Numbers |-> "none"]
  /\ open = {} /\ committed = {}

-------------------------------------------------------------------------------
(* Sending a statement: exec, up to the request.                           *)

InActiveTransaction == session \notin {Unset, AutoCommit}

\* Mutant: a new hint for every statement.
AlwaysNewHint(no) == ClientHint(no)

\* startQueryRequestWithTransport: outside a transaction each statement may go
\* to another node; inside, the hint stays.
RouteHint(no) == IF InActiveTransaction THEN hint ELSE ClientHint(no)

\* Mutant: COMMIT and ROLLBACK use the query ID of the BeginTx context.
BeginQueryID(kind, o, no) ==
  IF kind \in {"commit", "rollback"}
    THEN CHOOSE b \in 1..Len(log) : log[b].kind = "begin" /\ log[b].owner = o
    ELSE no

\* Every statement has a query ID of its own: checkQueryID makes one if the
\* caller's context has none, and txContext hides the one BEGIN used.
QueryID(kind, o, no) == no

Send(kind, o) ==
  LET no == Len(log) + 1 IN
  /\ waiting = 0 /\ no <= MaxStatements
  /\ hint' = RouteHint(no)
  /\ log' = Append(log, [kind |-> kind, owner |-> o, session |-> session,
                         hint |-> RouteHint(no), id |-> QueryID(kind, o, no)])
  /\ pending' = pending \cup {no}
  /\ waiting' = no
  /\ UNCHANGED <<serverAge, session, result, ended, home, server>>

Move(t, to) == tx' = [tx EXCEPT ![t] = to]

\* WHO: the application calls DB.BeginTx and gets the connection.
BeginTx(t) ==
  /\ holder = Nobody /\ tx[t] = "new"
  /\ holder' = t /\ Move(t, "beginning") /\ UNCHANGED abandoned
  /\ Send("begin", t)

\* WHO: another caller gets the connection for a single statement.
PlainStatement ==
  /\ holder = Nobody
  /\ holder' = Plain /\ UNCHANGED <<tx, abandoned>>
  /\ Send("other", Plain)

\* WHO: the application runs a statement in its transaction.
TxStatement(t) ==
  /\ tx[t] = "open"
  /\ UNCHANGED <<holder, tx, abandoned>>
  /\ Send("other", t)

\* WHO: the application calls Tx.Commit, which database/sql refuses once the
\* context has ended.
Commit(t) ==
  /\ tx[t] = "open" /\ t \notin ended
  /\ session # Unset
  /\ Move(t, "committing") /\ UNCHANGED <<holder, abandoned>>
  /\ Send("commit", t)

\* Mutant: the check for an old server is the wrong way round.
SkippedOnNewServer(t) ==
  /\ tx[t] = "open" /\ t \notin ended
  /\ waiting = 0 /\ session # Unset
  /\ Move(t, "committed") /\ holder' = Nobody
  /\ UNCHANGED <<serverAge, home, ended, abandoned, log, pending, client, server>>

\* WHO: the same on an old server: nothing is sent.
CommitSkipped(t) ==
  /\ tx[t] = "open" /\ t \notin ended
  /\ waiting = 0 /\ session = Unset
  /\ Move(t, "committed") /\ holder' = Nobody
  /\ UNCHANGED <<serverAge, home, ended, abandoned, log, pending, client, server>>

\* lakeTx.Rollback: the ROLLBACK is sent on a context that does not end.
SendRollback(t) ==
  /\ tx[t] = "open"
  /\ Move(t, "rolling back") /\ UNCHANGED holder
  /\ Send("rollback", t)

\* WHO: the application calls Tx.Rollback, possibly after the context of the
\* transaction has ended, but before database/sql noticed.
Rollback(t) == SendRollback(t) /\ UNCHANGED abandoned

\* WHO: database/sql, in Tx.awaitDone, because the context of the transaction
\* has ended.
AwaitDone(t) ==
  /\ t \in ended
  /\ abandoned' = abandoned \cup {t}
  /\ SendRollback(t)

\* WHO: the application, or a timer, ends the context of BeginTx.
ContextEnds(t) ==
  /\ tx[t] \in {"beginning", "open"}
  /\ ended' = ended \cup {t}
  /\ UNCHANGED <<serverAge, holder, tx, home, abandoned, log, pending, client, server>>

-------------------------------------------------------------------------------
(* The end of exec.                                                        *)

\* How a transaction goes on when its statement returns.
AfterStatement(kind, r) ==
  CASE kind = "begin"    -> IF r = "ok" THEN "open" ELSE "begin failed"
    [] kind = "commit"   -> IF r = "ok" THEN "committed" ELSE "end failed"
    [] kind = "rollback" -> IF r = "ok" THEN "rolled back" ELSE "end failed"
    [] kind = "other"    -> "open"

\* exec returns r and leaves the connection with session s and hint h.  The
\* connection goes back to the pool after a single statement and at the end of
\* a transaction, whether or not there was an error; but database/sql discards
\* it after a rollback it made itself (LakeConn has no ResetSession and no
\* IsValid that would let it be kept), and the next caller gets a new one.
Return(r, s, h) ==
  LET st == log[waiting]
      goesOn == st.owner # Plain /\ AfterStatement(st.kind, r) = "open"
      discard == st.kind = "rollback" /\ st.owner \in abandoned
  IN
  /\ result' = [result EXCEPT ![waiting] = r]
  /\ waiting' = 0
  /\ IF st.owner = Plain THEN UNCHANGED tx ELSE Move(st.owner, AfterStatement(st.kind, r))
  /\ home' = IF st.kind = "begin" /\ r = "ok" THEN [home EXCEPT ![st.owner] = s] ELSE home
  /\ holder' = IF goesOn THEN holder ELSE Nobody
  /\ session' = IF discard THEN Unset ELSE s
  /\ hint' = IF discard THEN ClientHint(0) ELSE h
  /\ UNCHANGED <<serverAge, ended, abandoned, log, pending, server>>

\* Mutant: an answer without a session state clears the session.
ClearsSession(answer) == IF answer.session = NoSession THEN Unset ELSE answer.session

\* applySessionState: the session of an answer counts, if it has one, even if
\* it is an error or something fails after it.
ApplySessionState(answer) == IF answer.session = NoSession THEN session ELSE answer.session

\* Mutant: an answer without a hint clears the hint.
TakesAnyHint(answer) == answer.hint

\* finalizeQueryResponse takes over the route hint of an answer that has one.
NextHint(answer) == IF answer.hint = NoHint THEN hint ELSE answer.hint

\* WHO: the client gets the answer of the server.  A later page, or parsing the
\* result, may still fail.
Answered ==
  /\ waiting # 0
  /\ LET answer == answers[log[waiting].id] IN
     /\ answer.error # "none"
     /\ \E r \in {"ok", "error"} :
          /\ r = "ok" => answer.error = "ok"
          /\ Return(r, ApplySessionState(answer), NextHint(answer))

\* WHO: the client gives up: the network failed, or the context ended.  The
\* statement may have run, or may run later.
Lost == waiting # 0 /\ Return("error", session, hint)

-------------------------------------------------------------------------------
(* The server.                                                             *)

Answer(no, e, s, h) ==
  answers' = [answers EXCEPT ![log[no].id] = [error |-> e, session |-> s, hint |-> h]]

\* The session after a statement outside a transaction.
Outside == IF serverAge = "old" THEN Unset ELSE AutoCommit

\* WHO: the server refuses a statement; the session stays what it was, except
\* that a COMMIT that fails may end its transaction.
Refuses(no) ==
  \/ Answer(no, "query error", NoSession, NoHint) /\ UNCHANGED <<ran, open, committed>>
  \/ \E b \in open :
       /\ log[no].kind = "commit" /\ log[no].session = Active(b)
       /\ Answer(no, "query error", AutoCommit, NoHint)
       /\ open' = open \ {b}
       /\ UNCHANGED <<ran, committed>>

\* WHO: the server runs a statement that comes without a transaction.
RunsOutside(no) ==
  /\ log[no].session \in {Unset, AutoCommit}
  /\ IF log[no].kind = "begin" /\ serverAge = "new"
       THEN /\ \E h \in {NoHint, ServerHint(no)} : Answer(no, "ok", Active(no), h)
            /\ open' = open \cup {no}
            /\ UNCHANGED ran
       ELSE /\ Answer(no, "ok", Outside, NoHint)
            /\ ran' = [ran EXCEPT ![no] = AutoCommit]
            /\ UNCHANGED open
  /\ UNCHANGED committed

\* WHO: the server runs a statement in the transaction it comes with.
RunsInside(no) ==
  \E b \in open :
    /\ log[no].session = Active(b)
    /\ IF log[no].kind \in {"commit", "rollback"}
         THEN /\ Answer(no, "ok", AutoCommit, NoHint)
              /\ open' = open \ {b}
              /\ UNCHANGED ran
         ELSE /\ Answer(no, "ok", Active(b), NoHint)
              /\ ran' = [ran EXCEPT ![no] = Active(b)]
              /\ UNCHANGED open
    /\ committed' = IF log[no].kind = "commit" THEN committed \cup {b} ELSE committed

\* WHO: the server takes a statement; one whose query ID it knows is a retry.
Takes(no) ==
  /\ no \in pending
  /\ pending' = pending \ {no}
  /\ IF answers[log[no].id] # NoAnswer THEN UNCHANGED server
     ELSE Refuses(no) \/ RunsOutside(no) \/ RunsInside(no)
  /\ UNCHANGED <<serverAge, callers, client, log>>

\* WHO: the server rolls an idle transaction back.
Aborts(b) ==
  /\ b \in open
  /\ open' = open \ {b}
  /\ UNCHANGED <<serverAge, callers, client, log, pending, answers, ran, committed>>

Next ==
  \/ PlainStatement
  \/ \E t \in Txns :
       BeginTx(t) \/ TxStatement(t) \/ Commit(t) \/ CommitSkipped(t) \/ Rollback(t)
       \/ AwaitDone(t) \/ ContextEnds(t)
  \/ Answered \/ Lost
  \/ \E no \in pending : Takes(no)
  \/ \E b \in open : Aborts(b)

Spec == Init /\ [][Next]_vars

-------------------------------------------------------------------------------
(* Properties.                                                             *)

\* The statements of a transaction that the application believes to have run.
Believed(t) == {no \in 1..Len(log) : log[no].owner = t /\ log[no].kind = "other"
                                     /\ result[no] = "ok"}

\* Commit returns nil only if the server committed, and all statements of the
\* transaction that returned without error ran in what was committed.  It is
\* what the fresh query ID of txContext is for, and the session state that
\* travels from answer to statement.
CommitIsHonest ==
  \A t \in Txns : tx[t] = "committed" /\ serverAge = "new" =>
    /\ \E b \in committed : home[t] = Active(b)
    /\ \A no \in Believed(t) : ran[no] = home[t]

\* Rollback returns nil only if the server has ended the transaction and did
\* not commit it.
RollbackIsHonest ==
  \A t \in Txns : tx[t] = "rolled back" /\ serverAge = "new" =>
    \E b \in Numbers \ (open \cup committed) : home[t] = Active(b)

\* What the application is told about the end of its transaction is what the
\* server did (transaction.go:26-49).
OutcomesAreHonest == CommitIsHonest /\ RollbackIsHonest

\* Transaction as a service.  What was told of transactions counts if the server
\* knows any; one that it began, and that is neither open nor committed, it
\* rolled back.
Told(t) == IF serverAge = "old" THEN "nothing"
           ELSE CASE tx[t] \in {"begin failed", "end failed"} -> "error"
                  [] tx[t] \in {"committed", "rolled back"}   -> tx[t]
                  [] OTHER                                    -> "nothing"

Confirmed(t) == IF serverAge = "old" THEN {} ELSE Believed(t)

Dropped == {b \in Numbers : answers[b].session = Active(b) /\ b \notin open \cup committed}

\* The number of the transaction of a session, 0 if it has none.
TransactionOf(s) == s[2]

Units == INSTANCE UnitsOfWork
           WITH Statements <- Numbers, WorkUnits <- Numbers, NoUnit <- 0,
                told <- [t \in Txns |-> Told(t)],
                unit <- [t \in Txns |-> TransactionOf(home[t])],
                confirmed <- [t \in Txns |-> Confirmed(t)],
                place <- [no \in Numbers |-> TransactionOf(ran[no])],
                kept <- committed, dropped <- Dropped

\* Whatever is lost, late or refused, and whoever had the connection before: a
\* transaction on a server that knows transactions is whole or not at all, and
\* Commit and Rollback return nil only for the fate they name.
RefinesUnitsOfWork == Units!Spec

\* A statement runs in the transaction of another caller of the connection only
\* if the transaction's BEGIN, COMMIT or ROLLBACK returned an error to the
\* application, even when its context had ended: the connection then goes back
\* to the pool in an open transaction.  It does not after a ROLLBACK that
\* database/sql sent, whatever becomes of that.
NoForeignStatements ==
  \A no, b \in 1..Len(log) :
    ran[no] = Active(b) /\ log[no].owner # log[b].owner =>
      \/ tx[log[b].owner] = "begin failed"
      \/ tx[log[b].owner] = "end failed" /\ log[b].owner \notin abandoned

\* All statements of a server transaction are routed alike, and as the server
\* asked when it began.
TransactionKeepsItsRoute ==
  \A i, j \in 1..Len(log) :
    \A b \in 1..Len(log) :
      log[i].session = Active(b) /\ log[j].session = Active(b) =>
        /\ log[i].hint = log[j].hint
        /\ answers[log[b].id].hint # NoHint => log[i].hint = answers[log[b].id].hint
===============================================================================
