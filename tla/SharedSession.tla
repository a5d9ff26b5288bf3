------------------------------ MODULE SharedSession ------------------------------
(***************************************************************************)
(* A session that moves from client to client.  The server keeps nothing   *)
(* of a session: its state (settings, the open transaction) comes with     *)
(* every answer and goes with every statement.  An application can         *)
(* therefore take the state of one APIClient (GetState), give it to        *)
(* another one (WithState), perhaps in another process, and go on there,   *)
(* also with the pages of a statement that is still running.  Pages bring  *)
(* session states too (pollQueryWithTransport), so they count as answers.  *)
(*                                                                         *)
(* The application is assumed to hand the session over: it stops using a   *)
(* client whose state it took, and gives the state to one client.          *)
(***************************************************************************)
EXTENDS Naturals, Sequences, FiniteSets

CONSTANTS Clients,        \* the APIClients
          Nodes,          \* query nodes of the server
          NoNode,         \* nodeID of a new client
          NoState,        \* no state is being handed over
          MaxStatements,  \* bound: statements started
          NamingKinds     \* the kinds of statement whose answers may name a hint

ASSUME ConstantsAssumption == NoNode \notin Nodes /\ MaxStatements \in Nat

VARIABLES
  client,    \* the fields of each APIClient that GetState and WithState move
  saved,     \* the APIClientState that is being handed over
  stmts,     \* the statements at the server, in the order of their start
  expected,  \* the session after the answers the application has seen
  stale      \* a page of a statement was asked for after a later one's answer

vars == <<client, saved, stmts, expected, stale>>

Statements == 1..MaxStatements
Kinds == {"read", "set", "begin", "commit"}

\* Route hints: those the clients draw, by statement, and those the answers
\* to the statements name.  0 is none.
ServerHint(i) == MaxStatements + i
Hints == Statements \cup {ServerHint(i) : i \in Statements}

\* SessionState, as far as it matters: the settings made, by statement, and
\* the statement that began the transaction, 0 if there is none.
Sessions == [settings : SUBSET Statements, txn : 0..MaxStatements]
NewSession == [settings |-> {}, txn |-> 0]

\* raw is sessionStateRaw, which statements carry; parsed is sessionState,
\* which the client itself looks at.
States == [session : Clients, seq : 0..MaxStatements, raw : Sessions,
           route : Hints \cup {0}, node : Nodes \cup {NoNode}]

ClientFields == [role : {"unused", "active", "handed over"}, session : Clients,
                 seq : 0..MaxStatements, raw : Sessions, parsed : Sessions,
                 route : Hints \cup {0}, node : Nodes \cup {NoNode}]

\* How far the server is with a statement: it has its effect on the session,
\* which a COMMIT that fails may have too, or it failed and has none.
Finished == {"applied", "refused"}

\* The answer says what the application has seen: nothing, a page that is not
\* the last, or the last page or error.  named is the hint it named.
Sent == [id : Clients \X Statements, kind : Kinds, carried : Sessions, node : Nodes,
         hint : Hints, named : Hints \cup {0}, answer : {"lost", "partial", "final"},
         status : {"running"} \cup Finished]

NewClient(c) == [role |-> "unused", session |-> c, seq |-> 0, raw |-> NewSession,
                 parsed |-> NewSession, route |-> 0, node |-> NoNode]

Init ==
  /\ \E c \in Clients : client = [d \in Clients |->
       IF d = c THEN [NewClient(d) EXCEPT !.role = "active"] ELSE NewClient(d)]
  /\ saved = NoState
  /\ stmts = <<>>
  /\ expected = NewSession
  /\ stale = FALSE

TypeOK ==
  /\ client \in [Clients -> ClientFields]
  /\ \A c \in Clients : client[c].seq <= Len(stmts)
  /\ saved \in States \cup {NoState}
  /\ stmts \in Seq(Sent) /\ Len(stmts) <= MaxStatements
  /\ expected \in Sessions
  /\ stale \in BOOLEAN

--------------------------------------------------------------------------------
(* The server.                                                              *)

\* The session after statement i, which came with session s.
Effect(i, kind, s) ==
  CASE kind = "read"   -> s
    [] kind = "set"    -> [s EXCEPT !.settings = @ \cup {i}]
    [] kind = "begin"  -> [s EXCEPT !.txn = i]
    [] kind = "commit" -> [s EXCEPT !.txn = 0]

\* Session s, or the one after statement i if that had its effect.
After(i, kind, status, s) == IF status = "applied" THEN Effect(i, kind, s) ELSE s

\* The session state an answer for statement i brings, an error too.
AnswerSession(i, s) == After(i, s.kind, s.status, s.carried)

\* The server is done with a statement, or fails to run it.  Of one whose answer
\* was lost no client learns more, so it is left as it is.
ServerFinishes(i) ==
  /\ stmts[i].answer = "partial" /\ stmts[i].status = "running"
  /\ \E status \in Finished : stmts' = [stmts EXCEPT ![i].status = status]
  /\ UNCHANGED <<client, saved, expected, stale>>

--------------------------------------------------------------------------------
(* The client.                                                              *)

InActiveTransaction(cl) == cl.parsed.txn # 0

\* Mutant: the route hint is drawn anew for each statement.
RouteHintAlwaysNew(cl) == Len(stmts) + 1

\* randRouteHint for statements outside transactions.
RouteHint(cl) == IF InActiveTransaction(cl) THEN cl.route ELSE Len(stmts) + 1

\* The sticky-node header: pages always, statements if the session says so,
\* which it does in transactions.
StickyNodes(cl) == IF InActiveTransaction(cl) THEN {cl.node} ELSE Nodes

\* Mutant: the session state is kept for the next statement, but not parsed.
ApplyRawOnly(cl, s) == [cl EXCEPT !.raw = s]

\* applySessionState.  Parsing into the state from before gives that of the
\* answer, because the server sends every field.
ApplySessionState(cl, s) == [cl EXCEPT !.raw = s, !.parsed = s]

\* Mutant: the query sequence counts the answer, too.
NextQueryTwice(cl) == [cl EXCEPT !.seq = @ + 2]

NextQuery(cl) == [cl EXCEPT !.seq = @ + 1]

\* What the application waits for before it starts a statement: BEGIN and
\* COMMIT are polled to their end.  What the server says to a transaction
\* whose COMMIT was lost is the subject of Transaction.
MayStart(cl) ==
  \A i \in DOMAIN stmts : stmts[i].kind \in {"begin", "commit"} =>
    /\ stmts[i].answer # "partial"
    /\ stmts[i].kind = "commit" /\ stmts[i].answer = "lost" => stmts[i].carried.txn # cl.raw.txn

\* The hint a client goes on with after an answer that names this one, or none.
Named(hint, named) == IF named = 0 THEN hint ELSE named

\* startQueryRequestWithTransport and finalizeQueryResponse.  The answer is
\* lost, or comes while the statement runs, or when it is done or failed; an
\* error leaves its node, session and hint with the client as well.  Nothing
\* is left by an error that brings none of them, so it counts as lost.
StartQuery(c, kind, node, answer, status, named) ==
  LET cl == client[c]
      i  == Len(stmts) + 1
      s  == [id |-> <<cl.session, NextQuery(cl).seq>>, kind |-> kind, carried |-> cl.raw,
             node |-> node, hint |-> RouteHint(cl), named |-> named, answer |-> answer,
             status |-> status]
      sent == [NextQuery(cl) EXCEPT !.route = Named(RouteHint(cl), named)]
  IN  /\ cl.role = "active" /\ i <= MaxStatements
      /\ MayStart(cl)
      /\ answer = "final" <=> status \in Finished
      /\ named # 0 => answer # "lost" /\ kind \in NamingKinds /\ named = ServerHint(i)
      /\ kind = "begin" => cl.raw.txn = 0
      /\ kind = "commit" => cl.raw.txn # 0
      /\ node \in StickyNodes(cl)
      /\ stmts' = Append(stmts, s)
      /\ client' = [client EXCEPT ![c] =
           IF answer = "lost" THEN sent
           ELSE ApplySessionState([sent EXCEPT !.node = node], AnswerSession(i, s))]
      /\ expected' = After(i, kind, status, expected)
      /\ UNCHANGED <<saved, stale>>

\* pollQueryWithTransport, for a statement whose next_uri the application
\* has.  The last page, or the error in place of one, brings the session the
\* statement left; no page names a hint.  A page asked of another node is an
\* error and brings no session.
PollQuery(c, i) ==
  LET cl == client[c]
      s  == stmts[i]
  IN  /\ cl.role = "active" /\ s.answer = "partial"
      /\ stale' = (stale \/ \E j \in DOMAIN stmts : j > i /\ stmts[j].answer # "lost")
      /\ IF cl.node # s.node THEN UNCHANGED <<client, stmts, expected>>
         ELSE /\ client' = [client EXCEPT ![c] = ApplySessionState(cl, AnswerSession(i, s))]
              /\ stmts' = IF s.status \in Finished THEN [stmts EXCEPT ![i].answer = "final"]
                          ELSE stmts
              /\ expected' = After(i, s.kind, s.status, expected)
      /\ UNCHANGED saved

\* GetState; the application stops using the client.
GetState(c) ==
  /\ client[c].role = "active" /\ saved = NoState
  /\ saved' = [session |-> client[c].session, seq |-> client[c].seq, raw |-> client[c].raw,
               route |-> client[c].route, node |-> client[c].node]
  /\ client' = [client EXCEPT ![c].role = "handed over"]
  /\ UNCHANGED <<stmts, expected, stale>>

\* Mutant: the restored client counts its statements from the start.
RestoredWithoutSeq(cl, st) ==
  [cl EXCEPT !.role = "active", !.session = st.session, !.raw = st.raw,
             !.parsed = st.raw, !.route = st.route, !.node = st.node]

\* Mutant: the node of the last statement is not restored.
RestoredWithoutNode(cl, st) ==
  [cl EXCEPT !.role = "active", !.session = st.session, !.seq = st.seq, !.raw = st.raw,
             !.parsed = st.raw, !.route = st.route]

\* What WithState makes of a client.
Restored(cl, st) ==
  [cl EXCEPT !.role = "active", !.session = st.session, !.seq = st.seq, !.raw = st.raw,
             !.parsed = st.raw, !.route = st.route, !.node = st.node]

WithState(c) ==
  /\ client[c].role = "unused" /\ saved # NoState
  /\ client' = [client EXCEPT ![c] = Restored(client[c], saved)]
  /\ saved' = NoState
  /\ UNCHANGED <<stmts, expected, stale>>

Next ==
  \/ \E c \in Clients, k \in Kinds, n \in Nodes, a \in {"lost", "partial", "final"},
        s \in {"running"} \cup Finished, h \in Hints \cup {0} : StartQuery(c, k, n, a, s, h)
  \/ \E c \in Clients, i \in DOMAIN stmts : PollQuery(c, i)
  \/ \E i \in DOMAIN stmts : ServerFinishes(i)
  \/ \E c \in Clients : GetState(c) \/ WithState(c)

Spec == Init /\ [][Next]_vars

--------------------------------------------------------------------------------
(* Properties.                                                              *)

\* No two statements have one query ID, whichever clients started them: the
\* server would take the second for a retry of the first (client.go:139,
\* clientstate.go:69).
DistinctIDs ==
  \A i, j \in DOMAIN stmts : i # j => stmts[i].id # stmts[j].id

\* The session the active client has, or the state on its way, is the one after all
\* statements the application knows to be done, also if their last page came
\* after a hand-over.  The exception is what client.go:590 does with pages of
\* a statement that are read after a later statement was answered: they put
\* back the session from before.
SessionIsCurrent ==
  ~stale => /\ \A c \in Clients : client[c].role = "active" =>
                 client[c].raw = expected /\ client[c].parsed = expected
            /\ saved # NoState => saved.raw = expected

\* A page of the last answered statement is asked of the node that runs it, also by
\* a client that did not start it (nodeID in APIClientState).
PagesReachTheirNode ==
  \A c \in Clients, i \in DOMAIN stmts :
    /\ client[c].role = "active" /\ stmts[i].answer = "partial"
    /\ \A j \in DOMAIN stmts : j > i => stmts[j].answer = "lost"
    => client[c].node = stmts[i].node

\* After statements t to n, this is the hint the last of their answers to name
\* one named, or else the hint of t itself.
HintSince(sent, t, n, hint) ==
  \E j \in t..n :
    /\ j = t \/ sent[j].named # 0
    /\ \A k \in (j + 1)..n : sent[k].named = 0
    /\ hint = Named(sent[j].hint, sent[j].named)

\* The statements of a transaction go to one node, the one that answered BEGIN,
\* with one route hint, that of BEGIN or the one an answer since then named
\* (client.go:712, client.go:697).
TransactionsStayPut ==
  ~stale => \A i \in DOMAIN stmts :
    LET t == stmts[i].carried.txn
    IN  t # 0 => stmts[i].node = stmts[t].node /\ HintSince(stmts, t, i - 1, stmts[i].hint)
================================================================================
