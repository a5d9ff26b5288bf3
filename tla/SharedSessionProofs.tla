--------------------------- MODULE SharedSessionProofs --------------------------
(***************************************************************************)
(* SharedSession for any number of clients, nodes and statements: query    *)
(* IDs stay distinct, the session stays current, and pages and             *)
(* transactions keep their nodes, from client to client.                   *)
(***************************************************************************)
EXTENDS SharedSession, SequenceTheorems, TLAPS

Started == 1..Len(stmts)

\* Pages of statement i are still to come, and no later statement was answered.
PagesOfLast(i) ==
  /\ i \in Started /\ stmts[i].answer = "partial"
  /\ \A j \in Started : j > i => stmts[j].answer = "lost"

\* The hint a client goes on with after statement i.
HintAfter(i) == Named(stmts[i].hint, stmts[i].named)

\* What a client, or a state on its way, knows of the statements: how many there
\* were, the hint the last left, the node that has pages for it, and, unless it
\* read pages too late, the session, with where its transaction is.
Knows(st) ==
  /\ st.seq = Len(stmts) /\ st.raw.txn \in 0..Len(stmts)
  /\ Len(stmts) # 0 => st.route = HintAfter(Len(stmts))
  /\ \A i \in Started : PagesOfLast(i) => st.node = stmts[i].node
  /\ ~stale =>
       /\ st.raw = expected
       /\ st.raw.txn # 0 => /\ st.node = stmts[st.raw.txn].node
                            /\ HintSince(stmts, st.raw.txn, Len(stmts), st.route)

\* One client at a time has the session, or it is on its way.
OneHolder ==
  /\ \A c, d \in Clients : client[c].role = "active" /\ client[d].role = "active" => c = d
  /\ saved # NoState => \A c \in Clients : client[c].role # "active"

HoldersKnow ==
  /\ \A c \in Clients : client[c].role = "active" =>
       client[c].parsed = client[c].raw /\ Knows(client[c])
  /\ saved # NoState => Knows(saved)

\* The statements are numbered by their query IDs, and carry what the session
\* was; BEGIN and COMMIT are polled to their end before another statement.
StatementsFit ==
  \A i \in Started :
    /\ stmts[i].id[2] = i /\ stmts[i].carried.txn \in 0..Len(stmts)
    /\ stmts[i].answer = "partial" /\ stmts[i].kind \in {"begin", "commit"} => i = Len(stmts)
    /\ ~stale /\ PagesOfLast(i) => stmts[i].carried = expected

\* The inductive invariant.
SessionInvariant == OneHolder /\ HoldersKnow /\ StatementsFit /\ TransactionsStayPut

--------------------------------------------------------------------------------
(* Sessions, clients and statements.                                        *)

LEMMA EffectFacts ==
  ASSUME NEW i \in Statements, NEW kind \in Kinds, NEW s \in Sessions
  PROVE  /\ Effect(i, kind, s) \in Sessions
         /\ Effect(i, kind, s).txn = CASE kind = "begin"  -> i
                                       [] kind = "commit" -> 0
                                       [] OTHER           -> s.txn
<1>1. i \in 0..MaxStatements /\ 0 \in 0..MaxStatements /\ i \in Statements
  BY ConstantsAssumption DEF Statements
<1>2. s.settings \in SUBSET Statements /\ s.txn \in 0..MaxStatements
      /\ s = [settings |-> s.settings, txn |-> s.txn]
  BY DEF Sessions
<1>3. CASE kind = "read"
  BY <1>3 DEF Effect
<1>4. CASE kind = "set"
  BY <1>1, <1>2, <1>4 DEF Effect, Sessions
<1>5. CASE kind = "begin"
  BY <1>1, <1>2, <1>5 DEF Effect, Sessions
<1>6. CASE kind = "commit"
  BY <1>1, <1>2, <1>6 DEF Effect, Sessions
<1>7. QED
  BY <1>3, <1>4, <1>5, <1>6 DEF Kinds

LEMMA AfterFacts ==
  ASSUME NEW i \in Statements, NEW kind \in Kinds, NEW s \in Sessions,
         NEW status \in {"running"} \cup Finished
  PROVE  /\ After(i, kind, status, s) \in Sessions
         /\ status # "applied" => After(i, kind, status, s) = s
         /\ status = "applied" => After(i, kind, status, s).txn =
              CASE kind = "begin"  -> i
                [] kind = "commit" -> 0
                [] OTHER           -> s.txn
BY EffectFacts DEF After

\* What applySessionState leaves of a client.
LEMMA ApplyFacts ==
  ASSUME NEW cl \in ClientFields, NEW s \in Sessions
  PROVE  /\ ApplySessionState(cl, s) \in ClientFields
         /\ LET new == ApplySessionState(cl, s) IN
            /\ new.raw = s /\ new.parsed = s
            /\ new.role = cl.role /\ new.seq = cl.seq /\ new.route = cl.route
            /\ new.node = cl.node
BY DEF ApplySessionState, ClientFields

\* What sending a statement leaves of a client.
LEMMA SendFacts ==
  ASSUME NEW cl \in ClientFields, cl.seq + 1 \in 0..MaxStatements, NEW route \in Hints \cup {0}
  PROVE  /\ [NextQuery(cl) EXCEPT !.route = route] \in ClientFields
         /\ LET new == [NextQuery(cl) EXCEPT !.route = route] IN
            /\ new.seq = cl.seq + 1 /\ new.route = route
            /\ new.raw = cl.raw /\ new.parsed = cl.parsed /\ new.role = cl.role
            /\ new.node = cl.node
BY DEF NextQuery, ClientFields

LEMMA NodeFacts ==
  ASSUME NEW cl \in ClientFields, NEW node \in Nodes
  PROVE  /\ [cl EXCEPT !.node = node] \in ClientFields
         /\ LET new == [cl EXCEPT !.node = node] IN
            /\ new.node = node /\ new.seq = cl.seq /\ new.route = cl.route
            /\ new.raw = cl.raw /\ new.parsed = cl.parsed /\ new.role = cl.role
BY DEF ClientFields

LEMMA RestoredFacts ==
  ASSUME NEW cl \in ClientFields, NEW st \in States
  PROVE  /\ Restored(cl, st) \in ClientFields
         /\ LET new == Restored(cl, st) IN
            /\ new.role = "active" /\ new.seq = st.seq /\ new.raw = st.raw
            /\ new.parsed = st.raw /\ new.route = st.route /\ new.node = st.node
BY DEF Restored, ClientFields, States

\* HintSince looks at nothing but the hints of the statements it is about.
LEMMA HintStays ==
  ASSUME NEW S, NEW T, NEW t \in Nat, NEW n \in Nat, NEW hint, HintSince(S, t, n, hint),
         \A j \in t..n : T[j].hint = S[j].hint /\ T[j].named = S[j].named
  PROVE  HintSince(T, t, n, hint)
<1>1. PICK j \in t..n : /\ j = t \/ S[j].named # 0
                        /\ \A k \in (j + 1)..n : S[k].named = 0
                        /\ hint = Named(S[j].hint, S[j].named)
  BY DEF HintSince
<1>2. \A k \in (j + 1)..n : k \in t..n
  BY <1>1
<1>3. QED
  BY <1>1, <1>2 DEF HintSince

\* One more statement that goes out with the hint, and what its answer names.
LEMMA HintGrows ==
  ASSUME NEW S, NEW t \in Nat, NEW n \in Nat, t <= n, HintSince(S, t, n, S[n + 1].hint)
  PROVE  HintSince(S, t, n + 1, Named(S[n + 1].hint, S[n + 1].named))
<1>1. CASE S[n + 1].named # 0
  <2>1. n + 1 \in t..(n + 1) /\ ((n + 1) + 1)..(n + 1) = {}
    OBVIOUS
  <2>2. QED
    BY <1>1, <2>1 DEF HintSince
<1>2. CASE S[n + 1].named = 0
  <2>1. PICK j \in t..n : /\ j = t \/ S[j].named # 0
                          /\ \A k \in (j + 1)..n : S[k].named = 0
                          /\ S[n + 1].hint = Named(S[j].hint, S[j].named)
    BY DEF HintSince
  <2>2. j \in t..(n + 1) /\ \A k \in (j + 1)..(n + 1) : k \in (j + 1)..n \/ k = n + 1
    BY <2>1
  <2>3. Named(S[n + 1].hint, S[n + 1].named) = S[n + 1].hint
    BY <1>2 DEF Named
  <2>4. \A k \in (j + 1)..(n + 1) : S[k].named = 0
    BY <1>2, <2>1, <2>2
  <2>5. QED
    BY <2>1, <2>2, <2>3, <2>4 DEF HintSince
<1>3. QED
  BY <1>1, <1>2

LEMMA HintStarts ==
  ASSUME NEW S, NEW t \in Nat
  PROVE  HintSince(S, t, t, Named(S[t].hint, S[t].named))
<1>1. t \in t..t /\ (t + 1)..t = {}
  OBVIOUS
<1>2. QED
  BY <1>1 DEF HintSince

LEMMA LengthFacts ==
  ASSUME TypeOK
  PROVE  /\ Len(stmts) \in Nat /\ Len(stmts) <= MaxStatements /\ DOMAIN stmts = Started
         /\ Started \subseteq Statements /\ Started \subseteq 0..Len(stmts)
         /\ \A i \in Started : stmts[i] \in Sent
<1>1. stmts \in Seq(Sent) /\ Len(stmts) <= MaxStatements /\ MaxStatements \in Nat
  BY ConstantsAssumption DEF TypeOK
<1>2. Len(stmts) \in Nat /\ DOMAIN stmts = 1..Len(stmts) /\ \A i \in 1..Len(stmts) : stmts[i] \in Sent
  BY <1>1, LenProperties, ElementOfSeq
<1>3. QED
  BY <1>1, <1>2 DEF Started, Statements

--------------------------------------------------------------------------------
(* A statement is started.                                                  *)

LEMMA StartFacts ==
  ASSUME TypeOK, SessionInvariant, NEW c \in Clients, NEW kind \in Kinds, NEW node \in Nodes,
         NEW answer \in {"lost", "partial", "final"}, NEW status \in {"running"} \cup Finished,
         NEW named \in Hints \cup {0}, StartQuery(c, kind, node, answer, status, named)
  PROVE  LET cl  == client[c]
             n   == Len(stmts) + 1
             s   == stmts'[n]
             new == client'[c]
         IN
         /\ n \in Statements /\ cl.role = "active" /\ cl.seq = Len(stmts)
         /\ MayStart(cl) /\ cl.parsed = cl.raw
         /\ kind = "begin" => cl.raw.txn = 0
         /\ cl.raw.txn # 0 => node = cl.node /\ RouteHint(cl) = cl.route
         /\ stmts' \in Seq(Sent) /\ Len(stmts') = n /\ \A i \in Started : stmts'[i] = stmts[i]
         /\ s.id[2] = n /\ s.kind = kind /\ s.carried = cl.raw /\ s.node = node
         /\ s.hint = RouteHint(cl) /\ s.named = named /\ s.answer = answer
         /\ \A d \in Clients : d # c => client'[d] = client[d]
         /\ client' \in [Clients -> ClientFields]
         /\ new.role = "active" /\ new.seq = n /\ new.parsed = new.raw
         /\ new.route = Named(s.hint, named) /\ new.route \in Hints
         /\ new.node = IF answer = "lost" THEN cl.node ELSE node
         /\ new.raw = After(n, kind, status, cl.raw)
         /\ expected' = After(n, kind, status, expected)
         /\ answer = "final" <=> status \in Finished
         /\ UNCHANGED <<saved, stale>>
<1> DEFINE cl  == client[c]
           n   == Len(stmts) + 1
           rec == [id |-> <<cl.session, NextQuery(cl).seq>>, kind |-> kind, carried |-> cl.raw,
                   node |-> node, hint |-> RouteHint(cl), named |-> named, answer |-> answer,
                   status |-> status]
           sent == [NextQuery(cl) EXCEPT !.route = Named(RouteHint(cl), named)]
<1>1. /\ cl.role = "active" /\ n <= MaxStatements /\ MayStart(cl)
      /\ kind = "begin" => cl.raw.txn = 0
      /\ node \in StickyNodes(cl)
      /\ stmts' = Append(stmts, rec)
      /\ client' = [client EXCEPT ![c] =
           IF answer = "lost" THEN sent
           ELSE ApplySessionState([sent EXCEPT !.node = node], AnswerSession(n, rec))]
      /\ answer = "final" <=> status \in Finished
      /\ expected' = After(n, kind, status, expected)
      /\ UNCHANGED <<saved, stale>>
  BY DEF StartQuery
<1>2. /\ cl \in ClientFields /\ client \in [Clients -> ClientFields] /\ stmts \in Seq(Sent)
  BY DEF TypeOK
<1>3. cl.parsed = cl.raw /\ Knows(cl)
  BY <1>1 DEF SessionInvariant, HoldersKnow
<1>4. /\ cl.seq = Len(stmts) /\ cl.raw.txn \in 0..Len(stmts)
      /\ Len(stmts) # 0 => cl.route \in Hints
  <2>1. CASE Len(stmts) # 0
    <3>1. Len(stmts) \in Started /\ cl.route = HintAfter(Len(stmts))
      BY <1>3, <2>1, LengthFacts DEF Knows, Started
    <3>2. stmts[Len(stmts)].hint \in Hints /\ stmts[Len(stmts)].named \in Hints \cup {0}
      BY <3>1, LengthFacts DEF Sent
    <3>3. QED
      BY <1>3, <3>1, <3>2 DEF Knows, HintAfter, Named
  <2>2. QED
    BY <1>3, <2>1 DEF Knows
<1>5. /\ Len(stmts) \in Nat /\ n \in Statements /\ n \in 0..MaxStatements
      /\ Statements \subseteq 0..MaxStatements
  BY <1>1, LengthFacts, ConstantsAssumption DEF Statements
<1>6. /\ cl.session \in Clients /\ cl.raw \in Sessions
  BY <1>2 DEF ClientFields
<1>7. RouteHint(cl) \in Hints /\ Named(RouteHint(cl), named) \in Hints
  <2>1. RouteHint(cl) \in Hints
    BY <1>3, <1>4, <1>5 DEF RouteHint, InActiveTransaction, Hints
  <2>2. QED
    BY <2>1 DEF Named
<1>8. NextQuery(cl).seq = n
  BY <1>2, <1>4 DEF NextQuery, ClientFields
<1>9. rec \in Sent
  BY <1>5, <1>6, <1>7, <1>8 DEF Sent
<1>10. /\ stmts' \in Seq(Sent) /\ Len(stmts') = n /\ stmts'[n] = rec
       /\ \A i \in Started : stmts'[i] = stmts[i]
  BY <1>1, <1>2, <1>9, AppendProperties DEF Started
<1>11. /\ rec.id[2] = n /\ rec.kind = kind /\ rec.carried = cl.raw /\ rec.node = node
       /\ rec.hint = RouteHint(cl) /\ rec.named = named /\ rec.answer = answer
       /\ rec.status = status
  BY <1>8
<1>12. AnswerSession(n, rec) = After(n, kind, status, cl.raw)
  BY <1>11 DEF AnswerSession
<1>13. AnswerSession(n, rec) \in Sessions /\ (answer = "lost" => After(n, kind, status, cl.raw) = cl.raw)
  BY <1>1, <1>5, <1>6, <1>12, AfterFacts DEF Finished
<1>14. /\ sent \in ClientFields /\ sent.seq = n /\ sent.route = Named(RouteHint(cl), named)
       /\ sent.raw = cl.raw
       /\ sent.parsed = cl.parsed /\ sent.role = "active" /\ sent.node = cl.node
  BY <1>1, <1>2, <1>4, <1>5, <1>7, SendFacts
<1>15. \A d \in Clients : d # c => client'[d] = client[d]
  BY <1>1, <1>2
<1>16. client'[c] = IF answer = "lost" THEN sent
                    ELSE ApplySessionState([sent EXCEPT !.node = node], AnswerSession(n, rec))
  BY <1>1, <1>2
<1>17. cl.raw.txn # 0 => node = cl.node /\ RouteHint(cl) = cl.route
  BY <1>1, <1>3 DEF StickyNodes, RouteHint, InActiveTransaction
<1>18. /\ client'[c] \in ClientFields /\ client'[c].role = "active" /\ client'[c].seq = n
       /\ client'[c].route = Named(RouteHint(cl), named) /\ client'[c].parsed = client'[c].raw
       /\ client'[c].node = IF answer = "lost" THEN cl.node ELSE node
       /\ client'[c].raw = After(n, kind, status, cl.raw)
  <2>1. CASE answer = "lost"
    BY <1>3, <1>13, <1>14, <1>16, <2>1
  <2>2. CASE answer # "lost"
    <3> DEFINE at == [sent EXCEPT !.node = node]
    <3>1. /\ at \in ClientFields /\ at.seq = n /\ at.route = Named(RouteHint(cl), named)
          /\ at.role = "active" /\ at.node = node
      BY <1>14, NodeFacts
    <3>2. client'[c] = ApplySessionState(at, AnswerSession(n, rec))
      BY <1>16, <2>2
    <3> HIDE DEF at, rec
    <3>3. QED
      BY <1>12, <1>13, <2>2, <3>1, <3>2, ApplyFacts
  <2>3. QED
    BY <2>1, <2>2
<1>19. client' \in [Clients -> ClientFields]
  BY <1>1, <1>2, <1>16, <1>18
<1> HIDE DEF rec, sent
<1>20. QED
  BY <1>1, <1>3, <1>4, <1>5, <1>7, <1>10, <1>11, <1>15, <1>17, <1>18, <1>19

LEMMA StartKeeps ==
  ASSUME TypeOK, SessionInvariant, NEW c \in Clients, NEW kind \in Kinds, NEW node \in Nodes,
         NEW answer \in {"lost", "partial", "final"}, NEW status \in {"running"} \cup Finished,
         NEW named \in Hints \cup {0}, StartQuery(c, kind, node, answer, status, named)
  PROVE  TypeOK' /\ SessionInvariant'
<1> DEFINE cl  == client[c]
           n   == Len(stmts) + 1
           s   == stmts'[n]
           new == client'[c]
<1>1. /\ n \in Statements /\ cl.role = "active" /\ cl.seq = Len(stmts)
      /\ MayStart(cl) /\ cl.parsed = cl.raw
      /\ kind = "begin" => cl.raw.txn = 0
      /\ cl.raw.txn # 0 => node = cl.node /\ RouteHint(cl) = cl.route
      /\ stmts' \in Seq(Sent) /\ Len(stmts') = n /\ \A i \in Started : stmts'[i] = stmts[i]
  BY StartFacts
<1>2. /\ s.id[2] = n /\ s.kind = kind /\ s.carried = cl.raw /\ s.node = node
      /\ s.hint = RouteHint(cl) /\ s.named = named /\ s.answer = answer
  BY StartFacts
<1>3. /\ \A d \in Clients : d # c => client'[d] = client[d]
      /\ client' \in [Clients -> ClientFields]
      /\ new.role = "active" /\ new.seq = n /\ new.parsed = new.raw
      /\ new.route = Named(s.hint, named) /\ new.route \in Hints
      /\ new.node = IF answer = "lost" THEN cl.node ELSE node
      /\ new.raw = After(n, kind, status, cl.raw)
      /\ expected' = After(n, kind, status, expected)
      /\ answer = "final" <=> status \in Finished
      /\ UNCHANGED <<saved, stale>>
  BY StartFacts
<1>4. /\ Len(stmts) \in Nat /\ DOMAIN stmts = Started /\ Started' = Started \cup {n} /\ n \notin Started
      /\ n <= MaxStatements /\ \A i \in Started : n > i
  <2>1. Len(stmts) \in Nat /\ DOMAIN stmts = Started
    BY LengthFacts
  <2>2. \A m \in Nat : 1..(m + 1) = 1..m \cup {m + 1} /\ m + 1 \notin 1..m /\ \A i \in 1..m : m + 1 > i
    OBVIOUS
  <2>3. Started' = 1..n
    BY <1>1 DEF Started
  <2>4. n <= MaxStatements
    BY <1>1, <2>1, ConstantsAssumption DEF Statements
  <2>5. QED
    BY <2>1, <2>2, <2>3, <2>4 DEF Started
<1>5. Knows(cl) /\ saved = NoState /\ \A d \in Clients : client[d].role = "active" => d = c
  BY <1>1 DEF SessionInvariant, OneHolder, HoldersKnow
<1>6. /\ cl.raw \in Sessions /\ expected \in Sessions /\ cl.raw.txn \in 0..Len(stmts)
      /\ ~stale => cl.raw = expected
  BY <1>5 DEF TypeOK, ClientFields, Knows
<1>7. /\ After(n, kind, status, expected) \in Sessions
      /\ status # "applied" => new.raw = cl.raw /\ expected' = expected
      /\ status = "applied" => /\ answer = "final"
                               /\ kind = "begin" => new.raw.txn = n
                               /\ kind = "commit" => new.raw.txn = 0
                               /\ kind \notin {"begin", "commit"} => new.raw.txn = cl.raw.txn
  <2>1. status = "applied" => answer = "final"
    BY <1>3 DEF Finished
  <2>2. QED
    BY <1>1, <1>3, <1>6, <2>1, AfterFacts
<1>8. \A i \in Started : PagesOfLast(i)' => PagesOfLast(i) /\ answer = "lost"
  BY <1>1, <1>2, <1>4 DEF PagesOfLast
<1>9. TypeOK'
  <2>1. \A d \in Clients : client'[d].seq <= Len(stmts')
    <3>1. \A d \in Clients : client[d].seq \in Nat /\ client[d].seq <= Len(stmts)
      <4>1. \A d \in Clients : client[d] \in ClientFields /\ client[d].seq <= Len(stmts)
        BY DEF TypeOK
      <4>2. \A d \in Clients : client[d].seq \in 0..MaxStatements
        BY <4>1 DEF ClientFields
      <4>3. QED
        BY <4>1, <4>2, ConstantsAssumption
    <3>2. QED
      BY <1>1, <1>3, <1>4, <3>1
  <2>2. saved' \in States \cup {NoState} /\ expected' \in Sessions /\ stale' \in BOOLEAN
    BY <1>3, <1>6, <1>7 DEF TypeOK
  <2>3. QED
    BY <1>1, <1>3, <1>4, <2>1, <2>2 DEF TypeOK
<1>10. OneHolder'
  BY <1>1, <1>3, <1>5 DEF OneHolder
<1>11. /\ new.raw.txn \in 0..n
       /\ new.raw.txn # 0 => \/ new.raw.txn = n /\ new.node = node
                             \/ /\ new.raw.txn = cl.raw.txn /\ new.node = cl.node
                                /\ node = cl.node /\ RouteHint(cl) = cl.route
  <2>1. 0..Len(stmts) \subseteq 0..n /\ n \in 0..n /\ 0 \in 0..n
    BY <1>4
  <2>2. CASE status # "applied"
    BY <1>1, <1>3, <1>4, <1>6, <1>7, <2>1, <2>2
  <2>3. CASE status = "applied" /\ kind \in {"begin", "commit"}
    BY <1>3, <1>7, <2>1, <2>3
  <2>4. CASE status = "applied" /\ kind \notin {"begin", "commit"}
    BY <1>1, <1>3, <1>6, <1>7, <2>1, <2>4
  <2>5. QED
    BY <2>2, <2>3, <2>4
<1>12. ~stale /\ cl.raw.txn # 0 => /\ cl.raw.txn \in Started
                                   /\ cl.node = stmts[cl.raw.txn].node
                                   /\ HintSince(stmts', cl.raw.txn, Len(stmts), cl.route)
  <2>1. ASSUME ~stale, cl.raw.txn # 0
        PROVE  /\ cl.raw.txn \in Started /\ cl.node = stmts[cl.raw.txn].node
               /\ HintSince(stmts, cl.raw.txn, Len(stmts), cl.route)
    BY <1>4, <1>5, <1>6, <2>1 DEF Knows, Started
  <2>2. \A j \in Started : stmts'[j].hint = stmts[j].hint /\ stmts'[j].named = stmts[j].named
    BY <1>1
  <2>3. ASSUME NEW t \in Started
        PROVE  t \in Nat /\ \A j \in t..Len(stmts) : j \in Started
    BY <1>4 DEF Started
  <2>4. QED
    BY <1>4, <2>1, <2>2, <2>3, HintStays
<1>13. ASSUME NEW i \in Started', PagesOfLast(i)' PROVE new.node = stmts'[i].node
  <2>1. CASE i = n
    BY <1>2, <1>3, <1>13, <2>1 DEF PagesOfLast
  <2>2. CASE i \in Started
    BY <1>1, <1>3, <1>5, <1>8, <1>13, <2>2 DEF Knows
  <2>3. QED
    BY <1>4, <2>1, <2>2
<1>14. ASSUME ~stale'
       PROVE  /\ new.raw = expected'
              /\ new.raw.txn # 0 => /\ new.node = stmts'[new.raw.txn].node
                                    /\ HintSince(stmts', new.raw.txn, n, new.route)
  <2>1. new.raw = expected'
    BY <1>3, <1>6, <1>14
  <2>2. CASE new.raw.txn = n /\ new.node = node
    BY <1>2, <1>3, <1>4, <2>1, <2>2, HintStarts
  <2>3. CASE /\ new.raw.txn = cl.raw.txn /\ new.node = cl.node
             /\ node = cl.node /\ RouteHint(cl) = cl.route
    <3>1. CASE cl.raw.txn # 0
      <4>1. /\ cl.raw.txn \in Started /\ cl.node = stmts[cl.raw.txn].node
            /\ HintSince(stmts', cl.raw.txn, Len(stmts), s.hint)
        BY <1>2, <1>3, <1>12, <1>14, <2>3, <3>1
      <4>2. HintSince(stmts', cl.raw.txn, n, new.route)
        <5>1. Len(stmts) \in Nat /\ n = Len(stmts) + 1 /\ cl.raw.txn \in 1..Len(stmts)
          BY <1>4, <4>1 DEF Started
        <5>2. HintSince(stmts', cl.raw.txn, Len(stmts), stmts'[Len(stmts) + 1].hint)
          BY <4>1, <5>1
        <5>3. HintSince(stmts', cl.raw.txn, Len(stmts) + 1,
                        Named(stmts'[Len(stmts) + 1].hint, stmts'[Len(stmts) + 1].named))
          BY <5>1, <5>2, HintGrows
        <5>4. QED
          BY <1>2, <1>3, <5>1, <5>3
      <4>3. QED
        BY <1>1, <2>1, <2>3, <4>1, <4>2
    <3>2. QED
      BY <2>1, <2>3, <3>1
  <2>4. QED
    BY <1>11, <2>1, <2>2, <2>3
<1>15. HoldersKnow'
  <2>1. /\ new.seq = Len(stmts') /\ new.raw.txn \in 0..Len(stmts')
        /\ new.route = HintAfter(Len(stmts))'
    BY <1>1, <1>2, <1>3, <1>11 DEF HintAfter
  <2>2. \A d \in Clients : client'[d].role = "active" => d = c
    BY <1>3, <1>5
  <2>3. QED
    BY <1>1, <1>3, <1>5, <1>13, <1>14, <2>1, <2>2 DEF HoldersKnow, Knows
<1>16. StatementsFit'
  <2>1. ASSUME NEW i \in Started
        PROVE  /\ stmts'[i].id[2] = i /\ stmts'[i].carried.txn \in 0..Len(stmts')
               /\ stmts'[i].answer = "partial" => stmts'[i].kind \notin {"begin", "commit"}
               /\ ~stale' /\ PagesOfLast(i)' => stmts'[i].carried = expected'
    <3>1. /\ stmts[i].id[2] = i /\ stmts[i].carried.txn \in 0..Len(stmts)
          /\ ~stale /\ PagesOfLast(i) => stmts[i].carried = expected
      BY DEF SessionInvariant, StatementsFit
    <3>2. 0..Len(stmts) \subseteq 0..n
      BY <1>4
    <3>3. stmts[i].answer = "partial" => stmts[i].kind \notin {"begin", "commit"}
      BY <1>1, <1>4 DEF MayStart
    <3>4. QED
      BY <1>1, <1>3, <1>7, <1>8, <3>1, <3>2, <3>3 DEF Finished
  <2>2. ASSUME NEW i \in Started', i = n
        PROVE  /\ stmts'[i].id[2] = i /\ stmts'[i].carried.txn \in 0..Len(stmts')
               /\ i = Len(stmts')
               /\ ~stale' /\ PagesOfLast(i)' => stmts'[i].carried = expected'
    <3>1. cl.raw.txn \in 0..n
      BY <1>4, <1>6
    <3>2. PagesOfLast(i)' => answer = "partial"
      BY <1>2, <2>2 DEF PagesOfLast
    <3>3. QED
      BY <1>1, <1>2, <1>3, <1>6, <1>7, <2>2, <3>1, <3>2
  <2>3. \A i \in Started' : i = n \/ i \in Started
    BY <1>4
  <2>4. QED
    BY <2>1, <2>2, <2>3 DEF StatementsFit
<1>17. TransactionsStayPut'
  <2>1. ASSUME ~stale', NEW i \in Started', stmts'[i].carried.txn # 0
        PROVE  /\ stmts'[i].node = stmts'[stmts'[i].carried.txn].node
               /\ HintSince(stmts', stmts'[i].carried.txn, i - 1, stmts'[i].hint)
    <3>1. CASE i = n
      <4>1. i - 1 = Len(stmts)
        BY <1>4, <3>1
      <4>2. QED
        BY <1>1, <1>2, <1>3, <1>12, <2>1, <3>1, <4>1
    <3>2. CASE i \in Started
      <4>1. stmts'[i] = stmts[i] /\ stmts[i].carried.txn \in Started
        <5>1. stmts'[i] = stmts[i]
          BY <1>1, <3>2
        <5>2. stmts[i].carried.txn \in 0..Len(stmts)
          BY <3>2 DEF SessionInvariant, StatementsFit
        <5>3. QED
          BY <1>4, <2>1, <5>1, <5>2 DEF Started
      <4>2. /\ stmts[i].node = stmts[stmts[i].carried.txn].node
            /\ HintSince(stmts, stmts[i].carried.txn, i - 1, stmts[i].hint)
        BY <1>3, <1>4, <2>1, <3>2, <4>1 DEF SessionInvariant, TransactionsStayPut
      <4>3. HintSince(stmts', stmts[i].carried.txn, i - 1, stmts[i].hint)
        <5>1. \A j \in stmts[i].carried.txn..(i - 1) : stmts'[j] = stmts[j]
          BY <1>1, <1>4, <3>2, <4>1 DEF Started
        <5>2. stmts[i].carried.txn \in Nat /\ i - 1 \in Nat
          BY <1>4, <3>2, <4>1 DEF Started
        <5>3. QED
          BY <4>2, <5>1, <5>2, HintStays
      <4>4. QED
        BY <1>1, <4>1, <4>2, <4>3
    <3>3. QED
      BY <1>4, <3>1, <3>2
  <2>2. DOMAIN stmts' = Started'
    BY <1>1, LenProperties DEF Started
  <2>3. QED
    BY <2>1, <2>2 DEF TransactionsStayPut
<1>18. QED
  BY <1>9, <1>10, <1>15, <1>16, <1>17 DEF SessionInvariant

--------------------------------------------------------------------------------
(* Pages, the server, and the hand-over.                                    *)

\* A statement changes in place.
LEMMA InPlace ==
  ASSUME TypeOK, NEW i \in Started, NEW s \in Sent, stmts' = [stmts EXCEPT ![i] = s]
  PROVE  /\ stmts' \in Seq(Sent) /\ Len(stmts') = Len(stmts) /\ Started' = Started
         /\ \A j \in Started : stmts'[j] = IF j = i THEN s ELSE stmts[j]
BY ExceptSeq DEF Started, TypeOK

\* Steps that start no statement keep its numbers, kinds, nodes and hints.
NoneStarted ==
  /\ stmts' \in Seq(Sent) /\ Len(stmts') = Len(stmts) /\ Started' = Started
  /\ \A j \in Started :
       /\ stmts'[j].id = stmts[j].id /\ stmts'[j].kind = stmts[j].kind
       /\ stmts'[j].carried = stmts[j].carried
       /\ stmts'[j].node = stmts[j].node /\ stmts'[j].hint = stmts[j].hint
       /\ stmts'[j].named = stmts[j].named
       /\ stmts'[j].answer = "partial" => stmts[j].answer = "partial"
       /\ stmts'[j].answer = "lost" => stmts[j].answer = "lost"

\* A statement that changes in place starts none.
LEMMA InPlaceStartsNone ==
  ASSUME TypeOK, NEW i \in Started,
         \/ stmts' = [stmts EXCEPT ![i].answer = "final"]
         \/ \E status \in Finished : stmts' = [stmts EXCEPT ![i].status = status]
  PROVE  /\ NoneStarted
         /\ stmts' = [stmts EXCEPT ![i].answer = "final"] => stmts'[i].answer = "final"
<1>1. stmts[i] \in Sent
  BY LengthFacts
<1>2. ASSUME NEW s \in Sent, stmts' = [stmts EXCEPT ![i] = s],
             s.id = stmts[i].id, s.kind = stmts[i].kind, s.carried = stmts[i].carried,
             s.node = stmts[i].node, s.hint = stmts[i].hint, s.named = stmts[i].named,
             s.answer = "final" \/ s.answer = stmts[i].answer
      PROVE  NoneStarted /\ stmts'[i] = s
  <2>1. /\ stmts' \in Seq(Sent) /\ Len(stmts') = Len(stmts) /\ Started' = Started
        /\ \A j \in Started : stmts'[j] = IF j = i THEN s ELSE stmts[j]
    BY <1>2, InPlace
  <2>2. stmts'[i] = s /\ \A j \in Started : j # i => stmts'[j] = stmts[j]
    BY <2>1
  <2>3. QED
    BY <1>2, <2>1, <2>2 DEF NoneStarted
<1>3. CASE stmts' = [stmts EXCEPT ![i].answer = "final"]
  <2> DEFINE s == [stmts[i] EXCEPT !.answer = "final"]
  <2>1. /\ s \in Sent /\ s.id = stmts[i].id /\ s.kind = stmts[i].kind
        /\ s.carried = stmts[i].carried /\ s.node = stmts[i].node /\ s.hint = stmts[i].hint
        /\ s.named = stmts[i].named /\ s.answer = "final"
    BY <1>1 DEF Sent
  <2>2. stmts' = [stmts EXCEPT ![i] = s]
    BY <1>3
  <2> HIDE DEF s
  <2>3. QED
    BY <1>2, <2>1, <2>2
<1>4. ASSUME NEW status \in Finished, stmts' = [stmts EXCEPT ![i].status = status]
      PROVE  NoneStarted /\ stmts'[i].answer = stmts[i].answer
  <2> DEFINE s == [stmts[i] EXCEPT !.status = status]
  <2>1. /\ s \in Sent /\ s.id = stmts[i].id /\ s.kind = stmts[i].kind
        /\ s.carried = stmts[i].carried /\ s.node = stmts[i].node /\ s.hint = stmts[i].hint
        /\ s.named = stmts[i].named /\ s.answer = stmts[i].answer
    BY <1>1 DEF Sent
  <2>2. stmts' = [stmts EXCEPT ![i] = s]
    BY <1>4
  <2> HIDE DEF s
  <2>3. QED
    BY <1>2, <2>1, <2>2
<1>5. QED
  <2>1. NoneStarted
    BY <1>3, <1>4
  <2>2. ASSUME stmts' = [stmts EXCEPT ![i].answer = "final"] PROVE stmts'[i].answer = "final"
    BY <1>3, <2>2, <1>1, ExceptSeq DEF TypeOK, Started
  <2>3. QED
    BY <2>1, <2>2

LEMMA NoneStartedFacts ==
  ASSUME TypeOK, SessionInvariant, NoneStarted, stale => stale'
  PROVE  /\ \A j \in Started : PagesOfLast(j)' => PagesOfLast(j)
         /\ TransactionsStayPut'
         /\ \A j \in Started :
              /\ stmts'[j].id[2] = j /\ stmts'[j].carried.txn \in 0..Len(stmts')
              /\ stmts'[j].answer = "partial" /\ stmts'[j].kind \in {"begin", "commit"}
                 => j = Len(stmts')
<1>1. \A j \in Started : PagesOfLast(j)' => PagesOfLast(j)
  BY DEF NoneStarted, PagesOfLast
<1>2. TransactionsStayPut'
  <2>1. ASSUME ~stale', NEW i \in Started, stmts'[i].carried.txn # 0
        PROVE  /\ stmts'[i].node = stmts'[stmts'[i].carried.txn].node
               /\ HintSince(stmts', stmts'[i].carried.txn, i - 1, stmts'[i].hint)
    <3> DEFINE t == stmts[i].carried.txn
    <3>1. stmts'[i].carried = stmts[i].carried /\ t \in 0..Len(stmts)
      BY DEF NoneStarted, SessionInvariant, StatementsFit
    <3>2. t \in Started /\ t # 0
      BY <2>1, <3>1, LengthFacts DEF Started
    <3>3. stmts[i].node = stmts[t].node /\ HintSince(stmts, t, i - 1, stmts[i].hint)
      BY <2>1, <3>2, LengthFacts DEF SessionInvariant, TransactionsStayPut
    <3>4. \A j \in t..(i - 1) : j \in Started
      BY <3>2, LengthFacts DEF Started
    <3>5. t \in Nat /\ i - 1 \in Nat
      BY <3>2, LengthFacts DEF Started
    <3>6. HintSince(stmts', t, i - 1, stmts[i].hint)
      <4>1. \A j \in t..(i - 1) : stmts'[j].hint = stmts[j].hint /\ stmts'[j].named = stmts[j].named
        BY <3>4 DEF NoneStarted
      <4>2. QED
        BY <3>3, <3>5, <4>1, HintStays
    <3>7. QED
      BY <3>1, <3>2, <3>3, <3>6 DEF NoneStarted
  <2>2. DOMAIN stmts' = Started
    BY LenProperties DEF NoneStarted, Started
  <2>3. QED
    BY <2>1, <2>2 DEF TransactionsStayPut
<1>3. QED
  BY <1>1, <1>2 DEF NoneStarted, SessionInvariant, StatementsFit

LEMMA HintKept ==
  ASSUME TypeOK, NoneStarted, NEW t \in Started, NEW hint, HintSince(stmts, t, Len(stmts), hint)
  PROVE  HintSince(stmts', t, Len(stmts'), hint)
<1>1. t \in Nat /\ Len(stmts) \in Nat /\ \A j \in t..Len(stmts) : j \in Started
  BY LengthFacts DEF Started
<1>2. QED
  BY <1>1, HintStays DEF NoneStarted

\* Knows, of the next state, for a state that does not change.
StillKnows(st) ==
  /\ st.seq = Len(stmts') /\ st.raw.txn \in 0..Len(stmts')
  /\ Len(stmts') # 0 => st.route = HintAfter(Len(stmts))'
  /\ \A i \in Started' : PagesOfLast(i)' => st.node = stmts'[i].node
  /\ ~stale' =>
       /\ st.raw = expected'
       /\ st.raw.txn # 0 => /\ st.node = stmts'[st.raw.txn].node
                            /\ HintSince(stmts', st.raw.txn, Len(stmts'), st.route)

\* What a client or a saved state knows stays true while nothing it knows of
\* changes.
LEMMA StillKnown ==
  ASSUME TypeOK, NoneStarted, NEW st, Knows(st), st.raw.txn \in 0..Len(stmts),
         \A j \in Started : PagesOfLast(j)' => PagesOfLast(j),
         expected' = expected, stale => stale'
  PROVE  StillKnows(st)
<1>1. /\ Len(stmts) # 0 => Len(stmts) \in Started
      /\ st.raw.txn # 0 => st.raw.txn \in Started
  BY LengthFacts DEF Started
<1>2. ASSUME st.raw.txn # 0, HintSince(stmts, st.raw.txn, Len(stmts), st.route)
      PROVE  HintSince(stmts', st.raw.txn, Len(stmts'), st.route)
  BY <1>1, <1>2, HintKept
<1>3. QED
  BY <1>1, <1>2 DEF NoneStarted, Knows, StillKnows, HintAfter

\* Who had the session and did not change knows it still.
LEMMA HoldersStillKnow ==
  ASSUME TypeOK, SessionInvariant, NoneStarted, UNCHANGED <<client, saved, expected>>,
         stale => stale', \A j \in Started : PagesOfLast(j)' => PagesOfLast(j)
  PROVE  HoldersKnow' /\ OneHolder'
<1>1. OneHolder'
  BY DEF SessionInvariant, OneHolder
<1>2. ASSUME NEW c \in Clients, client[c].role = "active"
      PROVE  client[c].parsed = client[c].raw /\ StillKnows(client[c])
  <2>1. client[c].parsed = client[c].raw /\ Knows(client[c])
    BY <1>2 DEF SessionInvariant, HoldersKnow
  <2>2. client[c].raw.txn \in 0..Len(stmts)
    BY <2>1 DEF Knows
  <2>3. QED
    BY <2>1, <2>2, StillKnown
<1>3. ASSUME saved # NoState PROVE StillKnows(saved)
  <2>1. Knows(saved)
    BY <1>3 DEF SessionInvariant, HoldersKnow
  <2>2. saved.raw.txn \in 0..Len(stmts)
    BY <2>1 DEF Knows
  <2>3. QED
    BY <2>1, <2>2, StillKnown
<1>4. HoldersKnow'
  BY <1>2, <1>3 DEF HoldersKnow, Knows, StillKnows
<1>5. QED
  BY <1>1, <1>4

LEMMA PollKeeps ==
  ASSUME TypeOK, SessionInvariant, NEW c \in Clients, NEW i \in Started, PollQuery(c, i)
  PROVE  TypeOK' /\ SessionInvariant'
<1> DEFINE cl == client[c]
           s  == stmts[i]
           to == AnswerSession(i, s)
<1>1. /\ cl.role = "active" /\ s.answer = "partial"
      /\ stale' = (stale \/ \E j \in Started : j > i /\ stmts[j].answer # "lost")
      /\ \/ cl.node # s.node /\ UNCHANGED <<client, stmts, expected>>
         \/ /\ cl.node = s.node
            /\ client' = [client EXCEPT ![c] = ApplySessionState(cl, to)]
            /\ stmts' = IF s.status \in Finished THEN [stmts EXCEPT ![i].answer = "final"]
                        ELSE stmts
            /\ expected' = After(i, s.kind, s.status, expected)
      /\ saved' = saved
  BY LengthFacts DEF PollQuery
<1>2. /\ client \in [Clients -> ClientFields] /\ cl \in ClientFields /\ s \in Sent
      /\ i \in Statements /\ Len(stmts) \in Nat /\ Len(stmts) <= MaxStatements
  BY LengthFacts DEF TypeOK
<1>3. s.carried \in Sessions /\ s.kind \in Kinds /\ s.status \in {"running"} \cup Finished
  BY <1>2 DEF Sent
<1>4. /\ to = After(i, s.kind, s.status, s.carried)
      /\ to \in Sessions /\ After(i, s.kind, s.status, expected) \in Sessions
      /\ s.status # "applied" => to = s.carried
      /\ s.status = "applied" => to.txn = CASE s.kind = "begin"  -> i
                                            [] s.kind = "commit" -> 0
                                            [] OTHER             -> s.carried.txn
  BY <1>2, <1>3, AfterFacts DEF AnswerSession, TypeOK
<1>5. NoneStarted
  <2>1. CASE stmts' = stmts
    BY <2>1 DEF NoneStarted, TypeOK, Started
  <2>2. CASE stmts' = [stmts EXCEPT ![i].answer = "final"]
    BY <2>2, InPlaceStartsNone
  <2>3. QED
    BY <1>1, <2>1, <2>2
<1>6. /\ \A j \in Started : PagesOfLast(j)' => PagesOfLast(j)
      /\ TransactionsStayPut' /\ (stale => stale')
      /\ \A j \in Started :
           /\ stmts'[j].id[2] = j /\ stmts'[j].carried.txn \in 0..Len(stmts')
           /\ stmts'[j].answer = "partial" /\ stmts'[j].kind \in {"begin", "commit"} => j = Len(stmts')
  BY <1>1, <1>5, NoneStartedFacts
<1>7. /\ Knows(cl) /\ cl.parsed = cl.raw /\ cl.raw.txn \in 0..Len(stmts)
      /\ saved = NoState /\ \A d \in Clients : client[d].role = "active" => d = c
  BY <1>1 DEF SessionInvariant, OneHolder, HoldersKnow, Knows
<1>8. ~stale' => ~stale /\ PagesOfLast(i)
  BY <1>1 DEF PagesOfLast
<1>9. ASSUME ~stale' PROVE s.carried = expected /\ cl.raw = expected
  BY <1>7, <1>8, <1>9 DEF Knows, SessionInvariant, StatementsFit
<1>10. CASE cl.node # s.node
  <2>1. UNCHANGED <<client, stmts, expected, saved>>
    BY <1>1, <1>10
  <2>2. TypeOK'
    BY <1>1, <2>1 DEF TypeOK
  <2>3. HoldersKnow' /\ OneHolder'
    BY <1>5, <1>6, <2>1, HoldersStillKnow
  <2>4. StatementsFit'
    BY <1>5, <1>6, <1>8, <2>1 DEF StatementsFit, SessionInvariant, NoneStarted
  <2>5. QED
    BY <1>6, <2>2, <2>3, <2>4 DEF SessionInvariant
<1>11. CASE cl.node = s.node
  <2> DEFINE new == client'[c]
  <2>1. /\ client' = [client EXCEPT ![c] = ApplySessionState(cl, to)]
        /\ stmts' = IF s.status \in Finished THEN [stmts EXCEPT ![i].answer = "final"] ELSE stmts
        /\ expected' = After(i, s.kind, s.status, expected)
    BY <1>1, <1>11
  <2>2. /\ client' \in [Clients -> ClientFields]
        /\ \A d \in Clients : d # c => client'[d] = client[d]
        /\ new.raw = to /\ new.parsed = to /\ new.role = "active" /\ new.seq = cl.seq
        /\ new.route = cl.route /\ new.node = cl.node
    <3> HIDE DEF to
    <3>1. /\ ApplySessionState(cl, to) \in ClientFields
          /\ LET a == ApplySessionState(cl, to) IN
             /\ a.raw = to /\ a.parsed = to /\ a.role = cl.role /\ a.seq = cl.seq
             /\ a.route = cl.route /\ a.node = cl.node
      BY <1>2, <1>4, ApplyFacts
    <3>2. new = ApplySessionState(cl, to)
      BY <1>2, <2>1
    <3>3. QED
      BY <1>1, <1>2, <2>1, <3>1, <3>2
  <2>3. TypeOK'
    <3>1. \A d \in Clients : client'[d].seq <= Len(stmts')
      BY <1>5, <2>2 DEF TypeOK, NoneStarted
    <3>2. QED
      BY <1>1, <1>2, <1>4, <1>5, <2>1, <2>2, <3>1 DEF TypeOK, NoneStarted
  <2>4. OneHolder'
    BY <1>1, <1>7, <2>2 DEF OneHolder
  <2>5. to.txn \in 0..Len(stmts)
    <3>1. s.carried.txn \in 0..Len(stmts) /\ i \in 0..Len(stmts) /\ 0 \in 0..Len(stmts)
      BY <1>2, LengthFacts DEF SessionInvariant, StatementsFit
    <3>2. QED
      BY <1>3, <1>4, <3>1 DEF Kinds
  <2>6. ASSUME ~stale'
        PROVE  /\ to = expected'
               /\ to.txn # 0 => /\ cl.node = stmts[to.txn].node
                                /\ HintSince(stmts, to.txn, Len(stmts), cl.route)
    <3>1. to = expected'
      BY <1>4, <1>9, <2>1, <2>6
    <3>2. CASE s.status = "applied" /\ s.kind = "begin"
      <4>1. to.txn = i /\ i = Len(stmts) /\ Len(stmts) # 0
        BY <1>1, <1>2, <1>4, <3>2 DEF SessionInvariant, StatementsFit, Statements
      <4>2. cl.route = HintAfter(i) /\ i \in Nat
        BY <1>2, <1>7, <4>1 DEF Knows
      <4>3. HintSince(stmts, i, i, cl.route)
        BY <4>2, HintStarts DEF HintAfter
      <4>4. QED
        BY <1>7, <1>11, <3>1, <4>1, <4>3 DEF Knows
    <3>3. CASE s.status = "applied" /\ s.kind = "commit"
      BY <1>4, <3>1, <3>3
    <3>4. CASE s.status # "applied" \/ s.kind \notin {"begin", "commit"}
      <4>1. to.txn = cl.raw.txn
        BY <1>3, <1>4, <1>9, <2>6, <3>4 DEF Kinds
      <4>2. QED
        BY <1>7, <1>8, <2>6, <3>1, <4>1 DEF Knows
    <3>5. QED
      BY <1>3, <3>2, <3>3, <3>4
  <2>7. HoldersKnow'
    <3>1. \A d \in Clients : client'[d].role = "active" => d = c
      BY <1>7, <2>2
    <3>2. /\ new.seq = Len(stmts') /\ new.raw.txn \in 0..Len(stmts')
          /\ Len(stmts') # 0 => new.route = HintAfter(Len(stmts))'
      <4>1. Len(stmts) # 0 => Len(stmts) \in Started
        BY <1>2 DEF Started
      <4>2. QED
        BY <1>5, <1>7, <2>2, <2>5, <4>1 DEF Knows, NoneStarted, HintAfter
    <3>3. ASSUME NEW j \in Started', PagesOfLast(j)' PROVE new.node = stmts'[j].node
      BY <1>5, <1>6, <1>7, <2>2, <3>3 DEF Knows, NoneStarted
    <3>4. ASSUME ~stale'
          PROVE  /\ new.raw = expected'
                 /\ new.raw.txn # 0 => /\ new.node = stmts'[new.raw.txn].node
                                       /\ HintSince(stmts', new.raw.txn, Len(stmts'), new.route)
      <4>1. to.txn # 0 => to.txn \in Started
        BY <1>2, <2>5 DEF Started
      <4>2. QED
        BY <1>5, <2>2, <2>6, <3>4, <4>1, HintKept DEF NoneStarted
    <3>5. ASSUME NEW d \in Clients, d = c
          PROVE  Knows(client[d])'
      BY <3>2, <3>3, <3>4, <3>5 DEF Knows
    <3>6. saved' = NoState /\ new.parsed = new.raw
      BY <1>1, <1>7, <2>2
    <3>7. QED
      BY <3>1, <3>5, <3>6 DEF HoldersKnow
  <2>8. StatementsFit'
    <3>1. ASSUME ~stale', NEW j \in Started, PagesOfLast(j)'
          PROVE  stmts'[j].carried = expected'
      <4>1. PagesOfLast(j) /\ PagesOfLast(i)
        BY <1>6, <1>8, <3>1
      <4>2. j = i
        <5>1. j \in Nat /\ i \in Nat
          BY <1>2, LengthFacts, ConstantsAssumption DEF Statements
        <5>2. j > i \/ i > j \/ i = j
          BY <5>1
        <5>3. QED
          BY <4>1, <5>2 DEF PagesOfLast
      <4>3. s.status \notin Finished
        <5>1. stmts'[i].answer = "partial"
          BY <3>1, <4>2 DEF PagesOfLast
        <5>2. QED
          BY <1>1, <2>1, <5>1, InPlaceStartsNone
      <4>4. QED
        BY <1>3, <1>4, <1>5, <1>9, <2>1, <3>1, <4>2, <4>3, AfterFacts DEF NoneStarted, Finished, After
    <3>2. QED
      BY <1>5, <1>6, <3>1 DEF StatementsFit, NoneStarted
  <2>9. QED
    BY <1>6, <2>3, <2>4, <2>7, <2>8 DEF SessionInvariant
<1>12. QED
  BY <1>10, <1>11

LEMMA OthersKeep ==
  ASSUME TypeOK, SessionInvariant,
         \/ \E i \in Started : ServerFinishes(i)
         \/ \E c \in Clients : GetState(c) \/ WithState(c)
         \/ UNCHANGED vars
  PROVE  TypeOK' /\ SessionInvariant'
<1>1. NoneStarted /\ UNCHANGED <<expected, stale>>
  <2>1. CASE stmts' = stmts
    BY <2>1 DEF NoneStarted, TypeOK, Started, ServerFinishes, GetState, WithState, vars
  <2>2. ASSUME NEW i \in Started, ServerFinishes(i)
        PROVE  NoneStarted /\ UNCHANGED <<expected, stale>>
    BY <2>2, InPlaceStartsNone DEF ServerFinishes
  <2>3. QED
    BY <2>1, <2>2 DEF GetState, WithState, vars
<1>2. /\ \A j \in Started : PagesOfLast(j)' => PagesOfLast(j)
      /\ TransactionsStayPut'
      /\ \A j \in Started :
           /\ stmts'[j].id[2] = j /\ stmts'[j].carried.txn \in 0..Len(stmts')
           /\ stmts'[j].answer = "partial" /\ stmts'[j].kind \in {"begin", "commit"} => j = Len(stmts')
  BY <1>1, NoneStartedFacts
<1>3. StatementsFit'
  BY <1>1, <1>2 DEF SessionInvariant, StatementsFit, NoneStarted
<1>4. CASE UNCHANGED <<client, saved>>
  <2>1. TypeOK'
    BY <1>1, <1>4, LengthFacts DEF TypeOK, NoneStarted
  <2>2. HoldersKnow' /\ OneHolder'
    BY <1>1, <1>2, <1>4, HoldersStillKnow
  <2>3. QED
    BY <1>2, <1>3, <2>1, <2>2 DEF SessionInvariant
<1>5. ASSUME NEW c \in Clients, GetState(c) PROVE TypeOK' /\ SessionInvariant'
  <2> DEFINE cl == client[c]
  <2>1. /\ cl.role = "active" /\ saved = NoState
        /\ saved' = [session |-> cl.session, seq |-> cl.seq, raw |-> cl.raw,
                     route |-> cl.route, node |-> cl.node]
        /\ client' = [client EXCEPT ![c].role = "handed over"]
    BY <1>5 DEF GetState
  <2>2. client \in [Clients -> ClientFields] /\ cl \in ClientFields
    BY DEF TypeOK
  <2>3. Knows(cl) /\ \A d \in Clients : client[d].role = "active" => d = c
    BY <2>1 DEF SessionInvariant, HoldersKnow, OneHolder
  <2>4. saved' \in States
    BY <2>1, <2>2 DEF States, ClientFields
  <2>5. /\ [cl EXCEPT !.role = "handed over"] \in ClientFields
        /\ [cl EXCEPT !.role = "handed over"].seq = cl.seq
        /\ [cl EXCEPT !.role = "handed over"].role = "handed over"
    BY <2>2 DEF ClientFields
  <2>6. /\ client' \in [Clients -> ClientFields]
        /\ \A d \in Clients : d # c => client'[d] = client[d]
        /\ client'[c].seq = cl.seq /\ client'[c].role = "handed over"
    BY <2>1, <2>2, <2>5
  <2>7. TypeOK'
    BY <1>1, <2>4, <2>6, LengthFacts DEF TypeOK, NoneStarted
  <2>8. \A d \in Clients : client'[d].role # "active"
    BY <2>3, <2>6
  <2>9. /\ saved'.seq = cl.seq /\ saved'.raw = cl.raw /\ saved'.route = cl.route
        /\ saved'.node = cl.node
    BY <2>1
  <2>10. HoldersKnow' /\ OneHolder'
    <3>1. StillKnows(cl)
      <4>1. cl.raw.txn \in 0..Len(stmts)
        BY <2>3 DEF Knows
      <4>2. QED
        BY <1>1, <1>2, <2>3, <4>1, StillKnown
    <3>2. Knows(saved)'
      BY <2>9, <3>1 DEF Knows, StillKnows
    <3>3. QED
      BY <2>8, <3>2 DEF HoldersKnow, OneHolder
  <2>11. QED
    BY <1>2, <1>3, <2>7, <2>10 DEF SessionInvariant
<1>6. ASSUME NEW c \in Clients, WithState(c) PROVE TypeOK' /\ SessionInvariant'
  <2> DEFINE new == client'[c]
  <2>1. /\ client[c].role = "unused" /\ saved # NoState /\ saved' = NoState
        /\ client' = [client EXCEPT ![c] = Restored(client[c], saved)]
    BY <1>6 DEF WithState
  <2>2. client \in [Clients -> ClientFields] /\ saved \in States
    BY <2>1 DEF TypeOK
  <2>3. Knows(saved) /\ \A d \in Clients : client[d].role # "active"
    BY <2>1 DEF SessionInvariant, HoldersKnow, OneHolder
  <2>4. /\ client' \in [Clients -> ClientFields]
        /\ \A d \in Clients : d # c => client'[d] = client[d]
        /\ new.role = "active" /\ new.seq = saved.seq /\ new.raw = saved.raw
        /\ new.parsed = saved.raw /\ new.route = saved.route /\ new.node = saved.node
    BY <2>1, <2>2, RestoredFacts
  <2>5. TypeOK'
    BY <1>1, <2>1, <2>3, <2>4, LengthFacts DEF TypeOK, NoneStarted, Knows
  <2>6. \A d \in Clients : client'[d].role = "active" => d = c
    BY <2>3, <2>4
  <2>7. HoldersKnow' /\ OneHolder'
    <3>1. StillKnows(saved)
      <4>1. saved.raw.txn \in 0..Len(stmts)
        BY <2>3 DEF Knows
      <4>2. QED
        BY <1>1, <1>2, <2>3, <4>1, StillKnown
    <3>2. Knows(client[c])'
      BY <2>4, <3>1 DEF Knows, StillKnows
    <3>3. OneHolder'
      BY <2>1, <2>6 DEF OneHolder
    <3>4. QED
      BY <2>1, <2>4, <2>6, <3>2, <3>3 DEF HoldersKnow
  <2>8. QED
    BY <1>2, <1>3, <2>5, <2>7 DEF SessionInvariant
<1>7. QED
  BY <1>4, <1>5, <1>6 DEF ServerFinishes, vars

--------------------------------------------------------------------------------
(* The invariant, and what it says.                                         *)

LEMMA InitInvariant == Init => TypeOK /\ SessionInvariant
<1> SUFFICES ASSUME Init PROVE TypeOK /\ SessionInvariant
  OBVIOUS
<1>1. PICK c \in Clients : client = [d \in Clients |->
        IF d = c THEN [NewClient(d) EXCEPT !.role = "active"] ELSE NewClient(d)]
  BY DEF Init
<1>2. Len(stmts) = 0 /\ stmts \in Seq(Sent) /\ Started = {} /\ DOMAIN stmts = {}
  BY EmptySeq DEF Init, Started
<1>3. 0 \in 0..MaxStatements /\ 0 <= MaxStatements
  BY ConstantsAssumption
<1>4. NewSession \in Sessions /\ NewSession.txn = 0
  BY <1>3 DEF NewSession, Sessions
<1>5. ASSUME NEW d \in Clients
      PROVE  /\ client[d] \in ClientFields /\ client[d].seq = 0
             /\ client[d].raw = NewSession /\ client[d].parsed = NewSession
             /\ client[d].role = "active" => d = c
  <2>1. /\ NewClient(d) \in ClientFields /\ [NewClient(d) EXCEPT !.role = "active"] \in ClientFields
    BY <1>3, <1>4 DEF NewClient, ClientFields
  <2>2. QED
    BY <1>1, <2>1 DEF NewClient
<1>6. TypeOK
  <2>1. client \in [Clients -> ClientFields]
    BY <1>1, <1>5
  <2>2. \A d \in Clients : client[d].seq <= Len(stmts)
    BY <1>2, <1>5
  <2>3. Len(stmts) <= MaxStatements
    BY <1>2, <1>3
  <2>4. QED
    BY <1>2, <1>4, <2>1, <2>2, <2>3 DEF Init, TypeOK
<1>7. OneHolder /\ StatementsFit /\ TransactionsStayPut
  BY <1>2, <1>5 DEF Init, OneHolder, StatementsFit, TransactionsStayPut
<1>8. HoldersKnow
  <2>1. 0 \in 0..Len(stmts)
    BY <1>2
  <2>2. saved = NoState /\ expected = NewSession
    BY DEF Init
  <2>3. \A d \in Clients : Knows(client[d])
    BY <1>2, <1>4, <1>5, <2>1, <2>2 DEF Knows
  <2>4. QED
    BY <1>5, <2>2, <2>3 DEF HoldersKnow
<1>9. QED
  BY <1>6, <1>7, <1>8 DEF SessionInvariant

LEMMA StepInvariant == TypeOK /\ SessionInvariant /\ [Next]_vars => TypeOK' /\ SessionInvariant'
<1> SUFFICES ASSUME TypeOK, SessionInvariant, [Next]_vars PROVE TypeOK' /\ SessionInvariant'
  OBVIOUS
<1>1. DOMAIN stmts = Started
  BY LengthFacts
<1>2. ASSUME NEW c \in Clients, NEW k \in Kinds, NEW n \in Nodes,
             NEW a \in {"lost", "partial", "final"}, NEW s \in {"running"} \cup Finished,
             NEW h \in Hints \cup {0}, StartQuery(c, k, n, a, s, h)
      PROVE  TypeOK' /\ SessionInvariant'
  BY <1>2, StartKeeps
<1>3. ASSUME NEW c \in Clients, NEW i \in Started, PollQuery(c, i)
      PROVE  TypeOK' /\ SessionInvariant'
  BY <1>3, PollKeeps
<1>4. QED
  BY <1>1, <1>2, <1>3, OthersKeep DEF Next

\* SessionInvariant is inductive: GetState and WithState lose nothing a later
\* statement or page needs.
THEOREM Invariance == Spec => [](TypeOK /\ SessionInvariant)
BY InitInvariant, StepInvariant, PTL DEF Spec

\* The clients' fields and the statements' have their types; no client has
\* counted more statements than there are.
THEOREM TypeCorrect == Spec => []TypeOK
BY Invariance, PTL

\* Whichever clients start them, no two statements share a query ID
\* (client.go:139, clientstate.go:69).
THEOREM QueryIDsAreDistinct == Spec => []DistinctIDs
<1>1. TypeOK /\ SessionInvariant => DistinctIDs
  BY LengthFacts DEF SessionInvariant, StatementsFit, DistinctIDs
<1>2. QED
  BY <1>1, Invariance, PTL

\* The client that has the session, or the state on its way to one, has it as
\* the answers left it, unless pages were read too late.
THEOREM SessionStaysCurrent == Spec => []SessionIsCurrent
<1>1. TypeOK /\ SessionInvariant => SessionIsCurrent
  BY DEF SessionInvariant, HoldersKnow, Knows, SessionIsCurrent
<1>2. QED
  BY <1>1, Invariance, PTL

\* Pages are asked of the node that runs the statement, also after a hand-over.
THEOREM PagesFindTheirNode == Spec => []PagesReachTheirNode
<1>1. TypeOK /\ SessionInvariant => PagesReachTheirNode
  BY LengthFacts DEF SessionInvariant, HoldersKnow, Knows, PagesOfLast, PagesReachTheirNode
<1>2. QED
  BY <1>1, Invariance, PTL

\* A transaction stays on the node of its BEGIN and on its route, or the one an
\* answer of the transaction named, whichever clients its statements come from.
THEOREM TransactionsKeepNodeAndRoute == Spec => []TransactionsStayPut
BY Invariance, PTL DEF SessionInvariant
================================================================================
