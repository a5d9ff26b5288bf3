------------------------- MODULE TransactionUnitsProofs ------------------------
(***************************************************************************)
(* Transaction implements UnitsOfWork, for any number of transactions and  *)
(* statements: each of the application's transactions is whole or not at   *)
(* all on a server that knows transactions, and the application is told    *)
(* the truth about it.  What answers, sessions and log have to do with     *)
(* each other comes from the invariant of TransactionProofs.               *)
(***************************************************************************)
EXTENDS TransactionProofs

\* What the refinement needs beside TxInvariant: exec returns once for each
\* statement, and a transaction is in no session before its BEGIN has returned.
Unreturned == \A no \in Numbers : no \notin Sent \/ no = waiting => result[no] = "none"

HomesUnset == \A t \in Txns : tx[t] \in BeforeBegin => home[t] = Unset

UnitInvariant == Unreturned /\ HomesUnset

-------------------------------------------------------------------------------
(* The additional invariant.                                               *)

LEMMA InitUnits == Init => UnitInvariant
BY DEF Init, UnitInvariant, Unreturned, HomesUnset, Sent, Numbers

LEMMA SendKeepsUnits ==
  ASSUME Typed, UnitInvariant, NEW kind \in Kinds, NEW o \in Txns \cup {Plain}, Sends(kind, o)
  PROVE  UnitInvariant'
<1>1. /\ waiting' = Len(log) + 1 /\ Sent' = Sent \cup {Len(log) + 1} /\ Len(log) + 1 \notin Sent
      /\ result' = result /\ home' = home
  BY SendFacts DEF Typed, Sends
<1>2. Unreturned'
  BY <1>1 DEF UnitInvariant, Unreturned
<1>3. ASSUME NEW t \in Txns, tx'[t] \in BeforeBegin PROVE tx[t] \in BeforeBegin
  <2>1. DOMAIN tx = Txns /\ (o = Plain => tx' = tx)
    BY ConstantsAssumption DEF Typed, TypeOK, Sends
  <2>2. o \in Txns => tx' = [tx EXCEPT ![o] = During(kind)] /\ (kind = "begin" => tx[o] = "new")
    BY ConstantsAssumption DEF Sends
  <2>3. During(kind) \in BeforeBegin => kind = "begin"
    BY DEF During, Kinds, BeforeBegin
  <2>4. CASE t = o
    BY <1>3, <2>1, <2>2, <2>3, <2>4 DEF BeforeBegin
  <2>5. CASE t # o
    BY <1>3, <2>1, <2>2, <2>5
  <2>6. QED
    BY <2>4, <2>5
<1>4. HomesUnset'
  BY <1>1, <1>3 DEF UnitInvariant, HomesUnset
<1>5. QED
  BY <1>2, <1>4 DEF UnitInvariant

\* What Return does to the caller and to what it knows.
Returned(kind, r, s) ==
  /\ result' = [result EXCEPT ![waiting] = r] /\ waiting' = 0
  /\ holder = Plain => tx' = tx
  /\ holder \in Txns => tx' = [tx EXCEPT ![holder] = AfterStatement(kind, r)]
  /\ home' = IF kind = "begin" /\ r = "ok" THEN [home EXCEPT ![holder] = s] ELSE home
  /\ UNCHANGED <<serverAge, log, answers, ran, open, committed>>

LEMMA ReturnedFacts ==
  ASSUME Typed, waiting # 0, NEW r, NEW s, NEW h, Return(r, s, h)
  PROVE  Returned(log[waiting].kind, r, s)
<1>1. log[waiting].owner = holder /\ holder \in Txns \cup {Plain}
  BY ReturnFacts
<1>2. QED
  BY <1>1, ConstantsAssumption DEF Return, Returned, Move, server

LEMMA ReturnKeepsUnits ==
  ASSUME Typed, UnitInvariant, waiting # 0, NEW r, NEW s, NEW h, Return(r, s, h)
  PROVE  UnitInvariant'
<1> DEFINE kind == log[waiting].kind
           to == AfterStatement(kind, r)
<1>1. /\ waiting \in Sent /\ holder \in Txns \cup {Plain} /\ kind \in Kinds
      /\ holder = Plain => kind = "other"
      /\ holder \in Txns => tx[holder] = During(kind)
  BY ReturnFacts
<1>2. Returned(kind, r, s)
  BY ReturnedFacts
<1>3. Sent' = Sent /\ 0 \notin Numbers /\ DOMAIN tx = Txns /\ DOMAIN home = Txns
  <2>1. log' = log
    BY <1>2 DEF Returned
  <2>2. 0 \notin Numbers
    BY ConstantsAssumption DEF Numbers
  <2>3. DOMAIN tx = Txns /\ DOMAIN home = Txns
    BY DEF Typed, TypeOK
  <2>4. QED
    BY <2>1, <2>2, <2>3 DEF Sent
<1>4. Unreturned'
  <2>1. ASSUME NEW no \in Numbers, no \notin Sent PROVE result'[no] = result[no]
    BY <1>1, <1>2, <2>1 DEF Returned
  <2>2. waiting' = 0
    BY <1>2 DEF Returned
  <2>3. QED
    BY <1>3, <2>1, <2>2 DEF UnitInvariant, Unreturned
<1>5. ASSUME NEW t \in Txns, tx'[t] \in BeforeBegin
      PROVE  tx[t] \in BeforeBegin /\ home'[t] = home[t]
  <2>1. CASE t # holder
    <3>1. tx'[t] = tx[t] /\ home'[t] = home[t]
      BY <1>1, <1>2, <1>3, <2>1 DEF Returned
    <3>2. QED
      BY <1>5, <3>1
  <2>2. CASE t = holder
    <3>1. tx'[t] = to
      BY <1>2, <1>3, <2>2 DEF Returned
    <3>2. kind = "begin" /\ r # "ok"
      <4>1. /\ to \in {"open", "begin failed", "committed", "rolled back", "end failed"}
            /\ to = "begin failed" => kind = "begin" /\ r # "ok"
        BY <1>1, AfterFacts
      <4>2. QED
        BY <1>5, <3>1, <4>1 DEF BeforeBegin
    <3>3. tx[t] = "beginning" /\ home' = home
      BY <1>1, <1>2, <2>2, <3>2 DEF During, Returned
    <3>4. QED
      BY <3>3 DEF BeforeBegin
  <2>3. QED
    BY <2>1, <2>2
<1>6. HomesUnset'
  BY <1>5 DEF UnitInvariant, HomesUnset
<1>7. QED
  BY <1>4, <1>6 DEF UnitInvariant

LEMMA StepUnits == Typed /\ TxInvariant /\ UnitInvariant /\ [Next]_vars => UnitInvariant'
<1> SUFFICES ASSUME Typed, TxInvariant, UnitInvariant, [Next]_vars PROVE UnitInvariant'
  OBVIOUS
<1>1. CASE SendSteps
  BY <1>1, SendCases, SendKeepsUnits
<1>2. CASE Answered \/ Lost
  <2>1. waiting # 0 /\ \E r, s, h : Return(r, s, h)
    BY <1>2 DEF Answered, Lost
  <2>2. QED
    BY <2>1, ReturnKeepsUnits
<1>3. ASSUME NEW t \in Txns, CommitSkipped(t) \/ ContextEnds(t) PROVE UnitInvariant'
  <2>1. /\ UNCHANGED <<waiting, home, log, result>>
        /\ tx' = tx \/ tx' = [tx EXCEPT ![t] = "committed"]
    BY <1>3 DEF CommitSkipped, ContextEnds, Move, client
  <2>2. \A u \in Txns : tx'[u] \in BeforeBegin => tx[u] \in BeforeBegin
    BY <2>1 DEF Typed, TypeOK, BeforeBegin
  <2>3. QED
    BY <2>1, <2>2 DEF UnitInvariant, Unreturned, HomesUnset, Sent
<1>4. CASE \/ \E no \in pending : Takes(no)
           \/ \E b \in open : Aborts(b)
           \/ UNCHANGED vars
  <2>1. UNCHANGED <<waiting, tx, home, log, result>>
    BY <1>4 DEF Takes, Aborts, callers, client, vars
  <2>2. QED
    BY <2>1 DEF UnitInvariant, Unreturned, HomesUnset, Sent
<1>5. QED
  BY <1>1, <1>2, <1>3, <1>4 DEF Next, SendSteps

-------------------------------------------------------------------------------
(* The mapping.                                                            *)

LEMMA NumberFacts ==
  /\ TransactionOf(Unset) = 0 /\ TransactionOf(AutoCommit) = 0 /\ TransactionOf(NotRun) = 0
  /\ \A b : TransactionOf(Active(b)) = b
  /\ 0 \notin Numbers
<1>1. 0 \notin Numbers
  BY ConstantsAssumption DEF Numbers
<1>2. QED
  BY <1>1 DEF TransactionOf, Unset, AutoCommit, NotRun, Active

\* What the application knows, and what the server did.
ToldSame == \A t \in Txns : Told(t)' = Told(t)
JoinedSame == \A t \in Txns : TransactionOf(home'[t]) = TransactionOf(home[t])
ConfirmedSame == \A t \in Txns : Confirmed(t)' = Confirmed(t)
PlaceSame == \A no \in Numbers : TransactionOf(ran'[no]) = TransactionOf(ran[no])

LEMMA Stutters ==
  ASSUME ToldSame, JoinedSame, ConfirmedSame, PlaceSame, committed' = committed, Dropped' = Dropped
  PROVE  UNCHANGED Units!vars
BY DEF Units!vars, ToldSame, JoinedSame, ConfirmedSame, PlaceSame

\* Every kind of change is a step, also if it changes nothing.
LEMMA Changes == Units!Change => [Units!Next]_Units!vars
BY DEF Units!Next

LEMMA ServerSame ==
  ASSUME UNCHANGED <<answers, ran, open, committed>>
  PROVE  PlaceSame /\ committed' = committed /\ Dropped' = Dropped
BY DEF PlaceSame, Dropped

LEMMA ApplicationSame ==
  ASSUME UNCHANGED <<serverAge, tx, home, log, result>>
  PROVE  ToldSame /\ JoinedSame /\ ConfirmedSame
BY DEF ToldSame, JoinedSame, ConfirmedSame, Told, Confirmed, Believed

\* Only its own statements that returned count as confirmed.
LEMMA BelievedSame ==
  ASSUME NEW t \in Txns,
         \A no \in Sent : log'[no] = log[no],
         \A no \in Sent : log[no].owner = t /\ log[no].kind = "other" => result'[no] = result[no],
         \A no \in Sent' : no \in Sent \/ result'[no] # "ok",
         Sent \subseteq Sent'
  PROVE  Believed(t)' = Believed(t)
BY DEF Believed, Sent

LEMMA InitImplements == Init => Units!Init
<1> SUFFICES ASSUME Init PROVE Units!Init
  OBVIOUS
<1>1. Len(log) = 0 /\ 1..0 = {}
  BY DEF Init
<1>2. \A t \in Txns : Confirmed(t) = {}
  BY <1>1 DEF Confirmed, Believed
<1>3. \A t \in Txns : Told(t) = "nothing"
  BY DEF Init, Told
<1>4. Dropped = {}
  <2>1. \A b \in Numbers : answers[b].session = NoSession
    BY AnswerFacts DEF Init
  <2>2. QED
    BY <2>1, SessionFacts DEF Dropped
<1>5. /\ \A t \in Txns : TransactionOf(home[t]) = 0
      /\ \A no \in Numbers : TransactionOf(ran[no]) = 0 /\ committed = {}
  BY NumberFacts DEF Init
<1>6. QED
  BY <1>2, <1>3, <1>4, <1>5 DEF Units!Init, Init

-------------------------------------------------------------------------------
(* What each step of the service takes.                                    *)

LEMMA IsKeep ==
  ASSUME ToldSame, JoinedSame, ConfirmedSame, PlaceSame, Dropped' = Dropped,
         NEW u \in Numbers, u \notin committed \cup Dropped, committed' = committed \cup {u}
  PROVE  Units!Change
<1>1. Units!Keep(u)
  BY DEF Units!Keep, ToldSame, JoinedSame, ConfirmedSame, PlaceSame
<1>2. QED
  BY <1>1 DEF Units!Change

LEMMA IsDrop ==
  ASSUME ToldSame, JoinedSame, ConfirmedSame, PlaceSame, committed' = committed,
         NEW u \in Numbers, u \notin committed \cup Dropped, Dropped' = Dropped \cup {u}
  PROVE  Units!Change
<1>1. Units!Drop(u)
  BY DEF Units!Drop, ToldSame, JoinedSame, ConfirmedSame, PlaceSame
<1>2. QED
  BY <1>1 DEF Units!Change

LEMMA IsRun ==
  ASSUME ToldSame, JoinedSame, ConfirmedSame, committed' = committed, Dropped' = Dropped,
         NEW u \in Numbers, u \notin committed \cup Dropped,
         NEW s \in Numbers, TransactionOf(ran[s]) = 0, TransactionOf(ran'[s]) = u,
         \A no \in Numbers : no # s => TransactionOf(ran'[no]) = TransactionOf(ran[no])
  PROVE  Units!Change
<1>1. [no \in Numbers |-> TransactionOf(ran'[no])]
        = [[no \in Numbers |-> TransactionOf(ran[no])] EXCEPT ![s] = u]
  OBVIOUS
<1>2. Units!Run(u, s)
  BY <1>1 DEF Units!Run, ToldSame, JoinedSame, ConfirmedSame
<1>3. QED
  BY <1>2 DEF Units!Change

LEMMA IsJoin ==
  ASSUME ToldSame, ConfirmedSame, PlaceSame, committed' = committed, Dropped' = Dropped,
         NEW t \in Txns, Told(t) = "nothing", TransactionOf(home[t]) = 0,
         NEW u \in Numbers, TransactionOf(home'[t]) = u,
         \A v \in Txns : v # t => TransactionOf(home'[v]) = TransactionOf(home[v])
  PROVE  Units!Change
<1>1. [v \in Txns |-> TransactionOf(home'[v])]
        = [[v \in Txns |-> TransactionOf(home[v])] EXCEPT ![t] = u]
  OBVIOUS
<1>2. Units!Join(t, u)
  BY <1>1 DEF Units!Join, ToldSame, ConfirmedSame, PlaceSame
<1>3. QED
  BY <1>2 DEF Units!Change

LEMMA IsConfirm ==
  ASSUME ToldSame, JoinedSame, PlaceSame, committed' = committed, Dropped' = Dropped,
         NEW t \in Txns, Told(t) = "nothing",
         NEW s \in Numbers, NEW b \in Numbers, home[t] = Active(b), ran[s] = Active(b),
         Confirmed(t)' = Confirmed(t) \cup {s},
         \A v \in Txns : v # t => Confirmed(v)' = Confirmed(v)
  PROVE  Units!Change
<1>1. TransactionOf(home[t]) # 0 /\ TransactionOf(ran[s]) = TransactionOf(home[t])
  BY NumberFacts
<1>2. [v \in Txns |-> Confirmed(v)'] = [[v \in Txns |-> Confirmed(v)] EXCEPT ![t] = @ \cup {s}]
  OBVIOUS
<1>3. Units!Confirm(t, s)
  BY <1>1, <1>2 DEF Units!Confirm, ToldSame, JoinedSame, PlaceSame
<1>4. QED
  BY <1>3 DEF Units!Change

LEMMA IsTell ==
  ASSUME JoinedSame, ConfirmedSame, PlaceSame, committed' = committed, Dropped' = Dropped,
         NEW t \in Txns, Told(t) = "nothing",
         NEW r \in {"committed", "rolled back", "error"}, Told(t)' = r,
         r = "committed" => TransactionOf(home[t]) \in committed,
         r = "rolled back" => TransactionOf(home[t]) \in Dropped,
         \A v \in Txns : v # t => Told(v)' = Told(v)
  PROVE  Units!Change
<1>1. [v \in Txns |-> Told(v)'] = [[v \in Txns |-> Told(v)] EXCEPT ![t] = r]
  OBVIOUS
<1>2. Units!Tell(t, r)
  BY <1>1 DEF Units!Tell, JoinedSame, ConfirmedSame, PlaceSame
<1>3. QED
  BY <1>2 DEF Units!Change

-------------------------------------------------------------------------------
(* The steps of Transaction.                                               *)

\* Sending tells the application nothing.
LEMMA SendsStutter ==
  ASSUME Typed, UnitInvariant, NEW kind \in Kinds, NEW o \in Txns \cup {Plain}, Sends(kind, o)
  PROVE  UNCHANGED Units!vars
<1> DEFINE new == Len(log) + 1
<1>1. /\ \A no \in Sent : log'[no] = log[no]
      /\ Sent' = Sent \cup {new} /\ new \notin Sent /\ Len(log') = new /\ Len(log') <= MaxStatements
      /\ UNCHANGED <<serverAge, result, home, answers, ran, open, committed>>
  BY SendFacts DEF Typed, Sends
<1>2. new \in Numbers
  BY <1>1, NumbersFacts, ConstantsAssumption DEF Typed, Numbers
<1>3. result'[new] # "ok"
  BY <1>1, <1>2 DEF UnitInvariant, Unreturned
<1>4. ConfirmedSame
  <2>1. ASSUME NEW t \in Txns PROVE Believed(t)' = Believed(t)
    BY <1>1, <1>3, BelievedSame
  <2>2. QED
    BY <1>1, <2>1 DEF ConfirmedSame, Confirmed
<1>5. ToldSame
  <2>1. ASSUME NEW t \in Txns
        PROVE  tx'[t] = tx[t] \/ {tx[t], tx'[t]} \subseteq {"new"} \cup UnderWay
    <3>1. DOMAIN tx = Txns /\ (o = Plain => tx' = tx)
      BY ConstantsAssumption DEF Typed, TypeOK, Sends
    <3>2. o \in Txns => tx' = [tx EXCEPT ![o] = During(kind)] /\ tx[o] \in {"new", "open"}
      BY ConstantsAssumption DEF Sends
    <3>3. During(kind) \in UnderWay
      BY DEF During, Kinds, UnderWay
    <3>4. CASE t = o
      BY <3>1, <3>2, <3>3, <3>4 DEF UnderWay
    <3>5. CASE t # o
      BY <3>1, <3>2, <3>5
    <3>6. QED
      BY <3>4, <3>5
  <2>2. QED
    BY <1>1, <2>1 DEF ToldSame, Told, UnderWay
<1>6. JoinedSame
  BY <1>1 DEF JoinedSame
<1>7. QED
  BY <1>1, <1>4, <1>5, <1>6, ServerSame, Stutters

\* COMMIT is skipped only on an old server, whose transactions do not count.
LEMMA CallersStutter ==
  ASSUME Typed, TxInvariant, NEW t \in Txns, CommitSkipped(t) \/ ContextEnds(t)
  PROVE  UNCHANGED Units!vars
<1>1. /\ UNCHANGED <<serverAge, home, log, answers, ran, result, open, committed>>
      /\ tx' = tx \/ (tx[t] = "open" /\ session = Unset)
  BY DEF CommitSkipped, ContextEnds, client, server
<1>2. serverAge \in {"old", "new"}
  BY DEF Typed, TypeOK
<1>3. CASE tx' = tx
  BY <1>1, <1>3, ApplicationSame, ServerSame, Stutters
<1>4. CASE tx[t] = "open" /\ session = Unset
  <2>1. ASSUME serverAge = "new" PROVE FALSE
    <3>1. session = home[t] /\ AtHome(t)
      BY <1>4, <2>1 DEF TxInvariant, HomeKept, BeforeBegin
    <3>2. QED
      BY <1>4, <3>1, SessionFacts DEF AtHome
  <2>2. serverAge = "old"
    BY <1>2, <2>1
  <2>3. ToldSame /\ ConfirmedSame /\ JoinedSame
    BY <1>1, <2>2 DEF ToldSame, Told, ConfirmedSame, Confirmed, JoinedSame
  <2>4. QED
    BY <1>1, <2>3, ServerSame, Stutters
<1>5. QED
  BY <1>1, <1>3, <1>4

\* An idle transaction is rolled back.
LEMMA AbortIsDrop ==
  ASSUME Typed, TxInvariant, NEW b \in open, Aborts(b)
  PROVE  Units!Change
<1>1. /\ open' = open \ {b}
      /\ UNCHANGED <<serverAge, tx, home, log, result, answers, ran, committed>>
  BY DEF Aborts, callers, client
<1>2. Begun(b) /\ b \notin committed
  BY DEF TxInvariant, ServerFits, ServerTransactions
<1>3. b \in Numbers /\ answers[b].session = Active(b)
  BY <1>2, NumbersFacts DEF Begun, Typed
<1>4. Dropped' = Dropped \cup {b} /\ b \notin Dropped
  BY <1>1, <1>2, <1>3 DEF Dropped
<1>5. ToldSame /\ JoinedSame /\ ConfirmedSame
  BY <1>1, ApplicationSame
<1>6. PlaceSame
  BY <1>1 DEF PlaceSame
<1>7. QED
  BY <1>1, <1>2, <1>3, <1>4, <1>5, <1>6, IsDrop

\* The server runs a statement in a transaction, or decides one, or does what no
\* transaction has part in.
LEMMA TakesImplements ==
  ASSUME Typed, TxInvariant, NEW no \in pending, Takes(no)
  PROVE  Units!Change \/ UNCHANGED Units!vars
<1>1. /\ no \in Sent /\ no \in Numbers /\ answers[no] = NoAnswer /\ ran[no] = NotRun
      /\ UNCHANGED <<serverAge, tx, home, log, result>>
  BY TakesFacts DEF TxInvariant, ServerFits
<1>2. PICK e \in {"ok", "query error"}, s \in Sessions \cup {NoSession},
           h \in {NoHint} \cup ({"server"} \X Nat) :
        /\ answers' = [answers EXCEPT ![no] = [error |-> e, session |-> s, hint |-> h]]
        /\ Served(no, e, s, h)
  BY ServerSteps DEF TxInvariant, ServerFits
<1>3. /\ answers \in [Numbers -> Answers] /\ DOMAIN ran = Numbers
      /\ open \subseteq Numbers
  BY NumbersFacts DEF Typed, TypeOK, Sent
<1>4. /\ answers'[no].session = s
      /\ \A i \in Numbers : i # no => answers'[i] = answers[i]
  BY <1>1, <1>2, <1>3
<1>5. ToldSame /\ JoinedSame /\ ConfirmedSame
  BY <1>1, ApplicationSame
<1>6. ASSUME NEW b \in open
      PROVE  /\ b \in Numbers /\ b # no /\ answers[b].session = Active(b) /\ answers'[b].session = Active(b)
             /\ b \notin committed \cup Dropped
  <2>1. Begun(b) /\ b \notin committed /\ b \in Numbers
    BY <1>3 DEF TxInvariant, ServerFits, ServerTransactions
  <2>2. answers[b].session = Active(b) /\ answers[no].session = NoSession
    BY <1>1, <2>1, AnswerFacts DEF Begun
  <2>3. b # no
    BY <2>2, SessionFacts
  <2>4. QED
    BY <1>4, <2>1, <2>2, <2>3 DEF Dropped
<1>7. no \notin Dropped
  BY <1>1, AnswerFacts, SessionFacts DEF Dropped
<1>8. ASSUME s # Active(no) \/ no \in open' \cup committed'
      PROVE  Dropped' = {i \in Numbers : answers[i].session = Active(i) /\ i \notin open' \cup committed'}
  <2>1. answers[no].session # Active(no)
    BY <1>1, AnswerFacts, SessionFacts
  <2>2. \A i \in Numbers : answers'[i].session = Active(i) /\ i \notin open' \cup committed'
                           <=> answers[i].session = Active(i) /\ i \notin open' \cup committed'
    BY <1>4, <1>8, <2>1
  <2>3. QED
    BY <2>2 DEF Dropped
<1>9. ASSUME NEW b \in open, open' = open \ {b}, committed' = committed, s # Active(no)
      PROVE  Dropped' = Dropped \cup {b}
  BY <1>6, <1>8, <1>9 DEF Dropped
<1>10. ASSUME committed' = committed, s # Active(no), open' = open
       PROVE  Dropped' = Dropped
  BY <1>8, <1>10 DEF Dropped
<1>11. s \in {NoSession, Unset, AutoCommit} => s # Active(no)
  BY SessionFacts
<1>12. CASE Errs(no, e, s, h)
  <2>1. committed' = committed /\ PlaceSame /\ s # Active(no)
    BY <1>11, <1>12 DEF Errs, PlaceSame
  <2>2. CASE open' = open
    BY <1>5, <1>10, <2>1, <2>2, Stutters
  <2>3. ASSUME NEW b \in open, open' = open \ {b} PROVE Units!Change
    BY <1>5, <1>6, <1>9, <2>1, <2>3, IsDrop
  <2>4. QED
    BY <1>12, <2>2, <2>3 DEF Errs
<1>13. CASE Begins(no, e, s, h)
  <2>1. committed' = committed /\ PlaceSame /\ open' = open \cup {no}
    BY <1>13 DEF Begins, PlaceSame
  <2>2. Dropped' = Dropped
    BY <1>7, <1>8, <2>1 DEF Dropped
  <2>3. QED
    BY <1>5, <2>1, <2>2, Stutters
<1>14. CASE RunsAlone(no, e, s, h)
  <2>1. committed' = committed /\ open' = open /\ ran' = [ran EXCEPT ![no] = AutoCommit] /\ s # Active(no)
    BY <1>11, <1>14 DEF RunsAlone
  <2>2. PlaceSame
    BY <1>1, <1>3, <2>1, NumberFacts DEF PlaceSame
  <2>3. QED
    BY <1>5, <1>10, <2>1, <2>2, Stutters
<1>15. ASSUME NEW b \in open, EndsInside(no, e, s, h, b) PROVE Units!Change
  <2>1. s # Active(no) /\ PlaceSame /\ open' = open \ {b}
    BY <1>11, <1>15 DEF EndsInside, PlaceSame
  <2>2. CASE log[no].kind = "commit"
    <3>1. committed' = committed \cup {b}
      BY <1>15, <2>2 DEF EndsInside
    <3>2. Dropped' = Dropped
      BY <1>8, <2>1, <3>1 DEF Dropped
    <3>3. QED
      BY <1>5, <1>6, <2>1, <3>1, <3>2, IsKeep
  <2>3. CASE log[no].kind # "commit"
    <3>1. committed' = committed
      BY <1>15, <2>3 DEF EndsInside
    <3>2. QED
      BY <1>5, <1>6, <1>9, <2>1, <3>1, IsDrop
  <2>4. QED
    BY <2>2, <2>3
<1>16. ASSUME NEW b \in open, RunsWithin(no, e, s, h, b) PROVE Units!Change
  <2>1. committed' = committed /\ open' = open /\ ran' = [ran EXCEPT ![no] = Active(b)] /\ s = Active(b)
    BY <1>16 DEF RunsWithin
  <2>2. s # Active(no)
    BY <1>6, <2>1, SessionFacts
  <2>3. /\ TransactionOf(ran[no]) = 0 /\ TransactionOf(ran'[no]) = b
        /\ \A i \in Numbers : i # no => TransactionOf(ran'[i]) = TransactionOf(ran[i])
    BY <1>1, <1>3, <2>1, NumberFacts
  <2>4. QED
    BY <1>1, <1>5, <1>6, <1>10, <2>1, <2>2, <2>3, IsRun
<1>17. QED
  BY <1>2, <1>12, <1>13, <1>14, <1>15, <1>16 DEF Served

\* What a caller without a transaction is told is no part of one.
LEMMA PlainReturnStutters ==
  ASSUME Typed, waiting # 0, NEW r, NEW s, NEW h, Return(r, s, h), holder = Plain
  PROVE  UNCHANGED Units!vars
<1>1. /\ waiting \in Sent /\ log[waiting].owner = Plain /\ log[waiting].kind = "other"
      /\ Returned("other", r, s)
  BY ReturnFacts, ReturnedFacts
<1>2. /\ result' = [result EXCEPT ![waiting] = r] /\ DOMAIN result = Numbers
      /\ UNCHANGED <<serverAge, tx, home, log, answers, ran, open, committed>>
  BY <1>1 DEF Returned, Typed, TypeOK
<1>3. \A no \in Sent : no # waiting => result'[no] = result[no]
  BY <1>2, NumbersFacts DEF Typed
<1>4. ConfirmedSame
  <2>1. ASSUME NEW t \in Txns PROVE Believed(t)' = Believed(t)
    <3>1. Sent' = Sent
      BY <1>2 DEF Sent
    <3>2. Plain # t
      BY ConstantsAssumption
    <3>3. QED
      BY <1>1, <1>2, <1>3, <3>1, <3>2, BelievedSame
  <2>2. QED
    BY <1>2, <2>1 DEF ConfirmedSame, Confirmed
<1>5. ToldSame /\ JoinedSame
  BY <1>2 DEF ToldSame, Told, JoinedSame
<1>6. QED
  BY <1>2, <1>4, <1>5, ServerSame, Stutters

\* A statement of a transaction that returns without error on a server that
\* knows transactions ran where the transaction is at home.
LEMMA RanAtHome ==
  ASSUME Typed, TxInvariant, waiting # 0, serverAge = "new", holder \in Txns,
         log[waiting].kind = "other", answers[waiting].error = "ok"
  PROVE  \E b \in Numbers : home[holder] = Active(b) /\ ran[waiting] = Active(b)
<1>1. waiting \in Sent /\ log[waiting].owner = holder /\ tx[holder] = "open"
  BY ReturnFacts DEF During
<1>2. AtHome(holder)
  BY <1>1 DEF TxInvariant, HomeKept, BeforeBegin
<1>3. PICK b \in Numbers : home[holder] = Active(b)
  BY <1>2 DEF AtHome
<1>4. log[waiting].session = Active(b)
  BY <1>1, <1>2, <1>3 DEF AtHome
<1>5. QED
  BY <1>1, <1>3, <1>4 DEF TxInvariant, ServerFits, DoneInside

\* COMMIT or ROLLBACK that returns without error has decided the transaction.
LEMMA EndDecides ==
  ASSUME Typed, TxInvariant, waiting # 0, serverAge = "new", holder \in Txns,
         NEW kind \in {"commit", "rollback"}, log[waiting].kind = kind, answers[waiting].error = "ok"
  PROVE  /\ kind = "commit" => TransactionOf(home[holder]) \in committed
         /\ kind = "rollback" => TransactionOf(home[holder]) \in Dropped
<1>1. /\ waiting \in Sent /\ log[waiting].owner = holder
      /\ tx[holder] \in {"committing", "rolling back"}
  BY ReturnFacts DEF During
<1>2. AtHome(holder)
  BY <1>1 DEF TxInvariant, HomeKept, BeforeBegin
<1>3. PICK b \in Numbers : home[holder] = Active(b)
  BY <1>2 DEF AtHome
<1>4. log[waiting].session = Active(b) /\ TransactionOf(home[holder]) = b
  BY <1>1, <1>2, <1>3, NumberFacts DEF AtHome
<1>5. Begun(b)
  BY <1>1, <1>4 DEF TxInvariant, SessionsFit
<1>6. /\ kind = "commit" => b \in committed
      /\ kind = "rollback" => b \notin open \cup committed
  BY <1>1, <1>4 DEF TxInvariant, ServerFits, DoneInside
<1>7. QED
  BY <1>4, <1>5, <1>6 DEF Dropped, Begun

\* A statement of a transaction returns: the application learns that it has
\* begun, that a statement has run, or how it ended.
LEMMA ReturnImplements ==
  ASSUME Typed, TxInvariant, UnitInvariant, waiting # 0, NEW r \in {"ok", "error"},
         NEW s, NEW h, Return(r, s, h), s \in Sessions,
         r = "ok" => answers[waiting].error = "ok", NEW t \in Txns, t = holder
  PROVE  Units!Change \/ UNCHANGED Units!vars
<1> DEFINE kind == log[waiting].kind
           to == AfterStatement(kind, r)
<1>1. /\ waiting \in Sent /\ waiting \in Numbers /\ log[waiting].owner = t
      /\ kind \in Kinds /\ tx[t] = During(kind)
  BY ReturnFacts, NumbersFacts DEF Typed
<1>2. Returned(kind, r, s)
  BY ReturnedFacts
<1>3. /\ result' = [result EXCEPT ![waiting] = r] /\ tx' = [tx EXCEPT ![t] = to]
      /\ home' = IF kind = "begin" /\ r = "ok" THEN [home EXCEPT ![t] = s] ELSE home
      /\ UNCHANGED <<serverAge, log, answers, ran, open, committed>>
      /\ Sent' = Sent
  BY <1>2 DEF Returned, Sent
<1>4. /\ DOMAIN tx = Txns /\ DOMAIN home = Txns /\ DOMAIN result = Numbers
      /\ serverAge \in {"old", "new"} /\ Sent \subseteq Numbers
  BY NumbersFacts DEF Typed, TypeOK
<1>5. /\ to \in {"open", "begin failed", "committed", "rolled back", "end failed"}
      /\ to = "open" <=> kind = "other" \/ (kind = "begin" /\ r = "ok")
      /\ to = "committed" <=> kind = "commit" /\ r = "ok"
      /\ to = "rolled back" <=> kind = "rollback" /\ r = "ok"
  BY <1>1, AfterFacts
<1>6. tx'[t] = to /\ \A v \in Txns : v # t => tx'[v] = tx[v]
  BY <1>3, <1>4
<1>7. PlaceSame /\ committed' = committed /\ Dropped' = Dropped
  BY <1>3, ServerSame
<1>8. Told(t) = "nothing" /\ \A v \in Txns : v # t => Told(v)' = Told(v)
  BY <1>1, <1>3, <1>6 DEF Told, During, Kinds
<1>9. ASSUME kind # "other" PROVE ConfirmedSame
  <2>1. \A no \in Sent : no # waiting => result'[no] = result[no]
    BY <1>3, <1>4
  <2>2. ASSUME NEW v \in Txns PROVE Believed(v)' = Believed(v)
    BY <1>3, <1>9, <2>1, BelievedSame
  <2>3. QED
    BY <1>3, <2>2 DEF ConfirmedSame, Confirmed
<1>10. ASSUME to = "open" PROVE ToldSame
  BY <1>3, <1>6, <1>8, <1>10 DEF ToldSame, Told
<1>11. CASE kind = "begin" /\ r = "ok"
  <2>1. ToldSame /\ ConfirmedSame
    BY <1>5, <1>9, <1>10, <1>11
  <2>2. home[t] = Unset
    BY <1>1, <1>11 DEF During, BeforeBegin, UnitInvariant, HomesUnset
  <2>3. TransactionOf(home[t]) = 0 /\ home'[t] = s
    BY <1>3, <1>4, <1>11, <2>2, NumberFacts
  <2>4. \A v \in Txns : v # t => TransactionOf(home'[v]) = TransactionOf(home[v])
    BY <1>3, <1>4, <1>11
  <2>5. CASE s \in {Unset, AutoCommit}
    <3>1. TransactionOf(s) = 0
      BY <2>5, NumberFacts
    <3>2. JoinedSame
      BY <2>3, <2>4, <3>1 DEF JoinedSame
    <3>3. QED
      BY <1>7, <2>1, <3>2, Stutters
  <2>6. CASE s \notin {Unset, AutoCommit}
    <3>1. PICK b \in Numbers : s = Active(b)
      BY <2>6, SessionFacts
    <3>2. TransactionOf(home'[t]) = b
      BY <2>3, <3>1, NumberFacts
    <3>3. QED
      BY <1>7, <1>8, <2>1, <2>3, <2>4, <3>2, IsJoin
  <2>7. QED
    BY <2>5, <2>6
<1>12. ASSUME ~(kind = "begin" /\ r = "ok") PROVE JoinedSame
  BY <1>3, <1>12 DEF JoinedSame
<1>13. CASE kind = "other"
  <2>1. ToldSame /\ JoinedSame
    BY <1>5, <1>10, <1>12, <1>13
  <2>2. ASSUME NEW v \in Txns, v # t PROVE Believed(v)' = Believed(v)
    <3>1. \A no \in Sent : log[no].owner = v => result'[no] = result[no]
      BY <1>1, <1>3, <1>4, <2>2
    <3>2. QED
      BY <1>3, <3>1, BelievedSame
  <2>3. result[waiting] = "none" /\ result'[waiting] = r
    BY <1>1, <1>3, <1>4 DEF UnitInvariant, Unreturned
  <2>4. CASE serverAge = "old" \/ r # "ok"
    <3>1. ASSUME r # "ok" PROVE Believed(t)' = Believed(t)
      <4>1. \A no \in Sent : result'[no] = "ok" <=> result[no] = "ok"
        BY <1>3, <1>4, <2>3, <3>1
      <4>2. QED
        BY <1>3, <4>1 DEF Believed, Sent
    <3>2. ConfirmedSame
      BY <1>3, <2>2, <2>4, <3>1 DEF ConfirmedSame, Confirmed
    <3>3. QED
      BY <1>7, <2>1, <3>2, Stutters
  <2>5. CASE serverAge = "new" /\ r = "ok"
    <3>1. PICK b \in Numbers : home[t] = Active(b) /\ ran[waiting] = Active(b)
      BY <1>13, <2>5, RanAtHome
    <3>2. Believed(t)' = Believed(t) \cup {waiting}
      <4>1. \A no \in Sent : result'[no] = "ok" <=> result[no] = "ok" \/ no = waiting
        BY <1>3, <1>4, <2>3, <2>5
      <4>2. QED
        BY <1>1, <1>3, <1>13, <4>1 DEF Believed, Sent
    <3>3. /\ Confirmed(t)' = Confirmed(t) \cup {waiting}
          /\ \A v \in Txns : v # t => Confirmed(v)' = Confirmed(v)
      BY <1>3, <2>2, <2>5, <3>2 DEF Confirmed
    <3>4. QED
      BY <1>1, <1>7, <1>8, <2>1, <3>1, <3>3, IsConfirm
  <2>6. QED
    BY <1>4, <2>4, <2>5
<1>14. CASE kind # "other" /\ ~(kind = "begin" /\ r = "ok")
  <2>1. JoinedSame /\ ConfirmedSame
    BY <1>9, <1>12, <1>14
  <2>2. CASE serverAge = "old"
    <3>1. ToldSame
      BY <1>3, <2>2 DEF ToldSame, Told
    <3>2. QED
      BY <1>7, <2>1, <3>1, Stutters
  <2>3. CASE serverAge = "new"
    <3>1. to \in {"begin failed", "committed", "rolled back", "end failed"}
      BY <1>5, <1>14
    <3>2. Told(t)' = IF to \in {"committed", "rolled back"} THEN to ELSE "error"
      BY <1>3, <1>6, <2>3, <3>1 DEF Told
    <3>3. /\ to = "committed" => TransactionOf(home[t]) \in committed
          /\ to = "rolled back" => TransactionOf(home[t]) \in Dropped
      BY <1>5, <2>3, EndDecides
    <3>4. PICK told \in {"committed", "rolled back", "error"} :
            /\ Told(t)' = told
            /\ told = "committed" => to = "committed"
            /\ told = "rolled back" => to = "rolled back"
      BY <3>2
    <3>5. QED
      BY <1>7, <1>8, <2>1, <3>3, <3>4, IsTell
  <2>4. QED
    BY <1>4, <2>2, <2>3
<1>15. QED
  BY <1>11, <1>13, <1>14

-------------------------------------------------------------------------------
(* The refinement.                                                         *)

LEMMA StepImplements ==
  Typed /\ TxInvariant /\ UnitInvariant /\ [Next]_vars => [Units!Next]_Units!vars
<1> SUFFICES ASSUME Typed, TxInvariant, UnitInvariant, [Next]_vars
             PROVE  Units!Change \/ UNCHANGED Units!vars
  BY Changes
<1>1. CASE SendSteps
  BY <1>1, SendCases, SendsStutter
<1>2. ASSUME NEW t \in Txns, CommitSkipped(t) \/ ContextEnds(t) PROVE UNCHANGED Units!vars
  BY <1>2, CallersStutter
<1>3. CASE Answered \/ Lost
  <2>1. waiting # 0
    BY <1>3 DEF Answered, Lost
  <2>2. holder \in Txns \cup {Plain} /\ log[waiting].id = waiting /\ waiting \in Numbers
    BY <2>1, ReturnFacts, NumbersFacts DEF TxInvariant, ServerFits, LogFits, Typed
  <2>3. session \in Sessions /\ answers[waiting].session \in Sessions \cup {NoSession}
    BY <2>2 DEF Typed, TypeOK, Answers
  <2>4. \E r \in {"ok", "error"} : \E s, h :
          Return(r, s, h) /\ s \in Sessions /\ (r = "ok" => answers[waiting].error = "ok")
    <3>1. CASE Lost
      BY <2>3, <3>1 DEF Lost
    <3>2. CASE Answered
      BY <2>2, <2>3, <3>2 DEF Answered, ApplySessionState
    <3>3. QED
      BY <1>3, <3>1, <3>2
  <2>5. QED
    BY <2>1, <2>2, <2>4, PlainReturnStutters, ReturnImplements
<1>4. ASSUME NEW no \in pending, Takes(no) PROVE Units!Change \/ UNCHANGED Units!vars
  BY <1>4, TakesImplements
<1>5. ASSUME NEW b \in open, Aborts(b) PROVE Units!Change
  BY <1>5, AbortIsDrop
<1>6. CASE UNCHANGED vars
  BY <1>6, ApplicationSame, ServerSame, Stutters DEF vars
<1>7. QED
  BY <1>1, <1>2, <1>3, <1>4, <1>5, <1>6 DEF Next, SendSteps

\* What the refinement rests on holds in every state.
THEOREM UnitInvariance == Spec => []UnitInvariant
<1>1. Typed /\ TxInvariant /\ UnitInvariant /\ [Next]_vars => UnitInvariant'
  BY StepUnits
<1>2. QED
  BY InitUnits, <1>1, Invariance, PTL DEF Spec

\* Transactions are units of work: BeginTx, Commit, Rollback and the session
\* state that travels with answers and statements keep what UnitsOfWork promises,
\* whatever is lost, late or refused (connection.go:101-111, transaction.go:22-49).
THEOREM TransactionsAreUnits == Spec => RefinesUnitsOfWork
<1>1. Init => Units!Init
  BY InitImplements
<1>2. Typed /\ TxInvariant /\ UnitInvariant /\ [Next]_vars => [Units!Next]_Units!vars
  BY StepImplements
<1>3. QED
  BY <1>1, <1>2, Invariance, UnitInvariance, PTL DEF Spec, RefinesUnitsOfWork, Units!Spec

\* The theorems about units of work, of the transactions.
Proved == INSTANCE UnitsOfWorkProofs
            WITH Statements <- Numbers, WorkUnits <- Numbers, NoUnit <- 0,
                 told <- [t \in Txns |-> Told(t)],
                 unit <- [t \in Txns |-> TransactionOf(home[t])],
                 confirmed <- [t \in Txns |-> Confirmed(t)],
                 place <- [no \in Numbers |-> TransactionOf(ran[no])],
                 kept <- committed, dropped <- Dropped

LEMMA SameSpec == Units!Spec => Proved!Spec
<1>1. Units!Init => Proved!Init
  BY DEF Units!Init, Proved!Init
<1>2. [Units!Next]_Units!vars => [Proved!Next]_Proved!vars
  BY DEF Units!Next, Units!vars, Units!Change, Units!Run, Units!Keep, Units!Drop, Units!Join,
         Units!Confirm, Units!Tell,
         Proved!Next, Proved!vars, Proved!Change, Proved!Run, Proved!Keep, Proved!Drop, Proved!Join,
         Proved!Confirm, Proved!Tell
<1>3. QED
  BY <1>1, <1>2, PTL DEF Units!Spec, Proved!Spec

\* What the application was told of a transaction, its statements and its end, is
\* what became of one transaction of the server.
THEOREM TransactionsAreWhole == Spec => []Units!WholeOrNothing
<1>1. Proved!WholeOrNothing => Units!WholeOrNothing
  BY DEF Proved!WholeOrNothing, Units!WholeOrNothing
<1>2. QED
  BY <1>1, SameSpec, TransactionsAreUnits, Proved!UnitsAreWhole, PTL DEF RefinesUnitsOfWork

\* Once the server has committed a transaction or rolled it back it stays so, and
\* no statement runs in it, however late the client's messages arrive.
THEOREM TransactionsAreFinal == Spec => Units!DecidedForGood
BY SameSpec, TransactionsAreUnits, Proved!UnitsAreFinal, PTL
   DEF RefinesUnitsOfWork, Units!DecidedForGood, Proved!DecidedForGood, Units!vars, Proved!vars
===============================================================================
