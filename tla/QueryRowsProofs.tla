---------------------------- MODULE QueryRowsProofs ----------------------------
(***************************************************************************)
(* QueryRows for any number of statements, any layout of their pages and   *)
(* any number of open Rows: results are streamed as ResultStream promises, *)
(* queries are released at the server, and never polled afterwards.        *)
(***************************************************************************)
EXTENDS MCQueryRows, SequenceTheorems, TLAPS

\* Statement q is the one of the driver call in progress.
InCall(q) == pc # "idle" /\ cur = q

\* What kind of call works on a statement that is new, and on one whose rows
\* are being read.
CallShape(q) ==
  InCall(q) =>
    \/ op \in {"query", "exec"} /\ status[q] = "new" /\ rowsState[q] = "none"
    \/ /\ op = "next" /\ status[q] = "streaming" /\ rowsState[q] = "open"
       /\ pc \in {"wait", "kill", "final"}

\* Open rows are those the application reads, or has seen fail.
RowsShape(q) ==
  /\ status[q] = "new" => rowsState[q] = "none" /\ delivered[q] = <<>>
  /\ status[q] = "new" => (page[q] = 0 <=> ~(InCall(q) /\ pc # "start"))
  /\ status[q] = "new" => (q \in answered <=> page[q] > 0)
  /\ status[q] = "new" =>
       err[q] = "none" \/ (InCall(q) /\ pc \in {"kill", "final", "release"})
  /\ status[q] = "streaming" => rowsState[q] = "open" /\ page[q] > 0
  /\ rowsState[q] = "open" => status[q] \in {"streaming", "failed"}

\* The way out of a call: how the error decides about killing or finalizing,
\* and that a call without an error has read all pages.
WayOut(q) ==
  InCall(q) =>
    /\ pc = "kill" => err[q] = "canceled"
    /\ pc = "final" => err[q] \notin {"none", "canceled"} /\ op # "exec"
    /\ pc = "newRows" => op = "query"
    /\ pc = "release" => /\ err[q] = "canceled" => q \in asked
                         /\ err[q] = "none" => op = "exec" /\ ReadFinished(q)
    /\ pc = "result" => /\ op = "exec" /\ err[q] = "none" /\ ReadFinished(q)
                        /\ q \in asked \/ ctx[q] # "live"

Over(q) == status[q] \in {"complete", "failed", "closed"}

\* A statement is killed or finalized when nobody reads its pages any more.
AskedLate(q) == q \in asked => Over(q) \/ (InCall(q) /\ pc \in {"release", "result"})

\* ReleaseAsked, for one statement.
Released(q) ==
  Over(q) /\ q \in answered /\ q \notin asked =>
    \/ rowsState[q] = "open" /\ page[q] > 0
    \/ Unread(q)
    \/ /\ ctx[q] # "live" /\ err[q] # "canceled"
       /\ status[q] = "failed" \/ (status[q] = "complete" /\ rowsState[q] = "none")

\* The rows in the buffer continue the rows handed out, up to the last page
\* received.
Continues(q) ==
  status[q] \in {"new", "streaming"} =>
    /\ Len(delivered[q]) + Len(buf[q]) = RowsUpTo(q, page[q])
    /\ \A i \in 1..Len(buf[q]) : buf[q][i] = Len(delivered[q]) + i

Shapes(q) == CallShape(q) /\ RowsShape(q) /\ WayOut(q) /\ AskedLate(q) /\ Released(q)

\* The inductive invariant.
RowsInvariant == \A q \in Queries : Shapes(q) /\ Continues(q)

-------------------------------------------------------------------------------
(* Layouts and pages.                                                      *)

LEMMA LayoutFacts ==
  ASSUME TypeOK, NEW q \in Queries
  PROVE  /\ LastPage(q) \in Nat /\ LastPage(q) > 0
         /\ \A k \in 0..LastPage(q) : RowsUpTo(q, k) \in Nat
         /\ \A k \in 1..LastPage(q) : RowsUpTo(q, k - 1) <= RowsUpTo(q, k)
<1>1. /\ layout[q] \in Seq(Nat) /\ layout[q] # <<>>
      /\ \A i, j \in 1..Len(layout[q]) : i <= j => layout[q][i] <= layout[q][j]
  BY ConstantsAssumption DEF TypeOK
<1>2. Len(layout[q]) \in Nat /\ Len(layout[q]) > 0
  BY <1>1, EmptySeq, LenProperties
<1>3. \A i \in 1..Len(layout[q]) : layout[q][i] \in Nat
  BY <1>1, ElementOfSeq
<1>4. \A k \in 0..LastPage(q) : RowsUpTo(q, k) \in Nat
  BY <1>2, <1>3 DEF LastPage, RowsUpTo
<1>5. ASSUME NEW k \in 1..LastPage(q)
      PROVE  RowsUpTo(q, k - 1) <= RowsUpTo(q, k)
  <2>1. CASE k = 1
    BY <1>2, <1>3, <2>1 DEF LastPage, RowsUpTo
  <2>2. CASE k # 1
    <3>1. k - 1 \in 1..Len(layout[q]) /\ k \in 1..Len(layout[q]) /\ k - 1 <= k /\ k # 0 /\ k - 1 # 0
      BY <1>2, <2>2 DEF LastPage
    <3>2. QED
      BY <1>1, <3>1 DEF RowsUpTo
  <2>3. QED
    BY <2>1, <2>2
<1>6. QED
  BY <1>2, <1>4, <1>5 DEF LastPage

LEMMA PageRowsFacts ==
  ASSUME TypeOK, NEW q \in Queries, NEW k \in 1..LastPage(q)
  PROVE  /\ PageRows(q, k) \in Seq(Nat)
         /\ Len(PageRows(q, k)) = RowsUpTo(q, k) - RowsUpTo(q, k - 1)
         /\ \A i \in 1..Len(PageRows(q, k)) : PageRows(q, k)[i] = RowsUpTo(q, k - 1) + i
<1> DEFINE lo == RowsUpTo(q, k - 1)
           n == RowsUpTo(q, k) - lo
<1>1. lo \in Nat /\ n \in Nat
  BY LayoutFacts
<1>2. PageRows(q, k) = [i \in 1..n |-> lo + i]
  BY DEF PageRows
<1> HIDE DEF lo, n
<1>3. [i \in 1..n |-> lo + i] \in Seq(Nat) /\ Len([i \in 1..n |-> lo + i]) = n
  BY <1>1
<1>4. QED
  BY <1>1, <1>2, <1>3 DEF lo, n

-------------------------------------------------------------------------------
(* Types.                                                                  *)

\* What a driver call may leave as it is.
LEMMA NextCases ==
  ASSUME [Next]_vars
  PROVE  \/ StartFails \/ StartUnreadable \/ StartSucceeds \/ PollSucceeds \/ PollFails
         \/ Kill \/ Final \/ WaitEnds \/ NewNextRows \/ Release \/ ExecResult \/ DeliverRow \/ EndOfRows
         \/ \E q \in Queries, o \in {"query", "exec"} : Call(q, o)
         \/ \E q \in Queries : CallNext(q)
         \/ \E q \in Queries : CallClose(q)
         \/ \E q \in Queries, how \in ContextEnd : ContextEnds(q, how)
         \/ UNCHANGED vars
BY DEF Next, Driver

LEMMA InitTypeOK == Init => TypeOK
<1> SUFFICES ASSUME Init PROVE TypeOK
  OBVIOUS
<1>1. \A q \in Queries : LastPage(q) \in Nat
  BY ConstantsAssumption, LenProperties DEF Init, LastPage
<1>2. QED
  BY <1>1, ConstantsAssumption DEF Init, TypeOK, ContextEnd, Errors

\* A response that is dropped, or kept.
LEMMA DroppedPage ==
  ASSUME TypeOK, NEW q \in Queries, layout' = layout,
         \/ page' = [page EXCEPT ![q] = 0] /\ buf' = [buf EXCEPT ![q] = <<>>]
         \/ page' = page /\ buf' = buf
  PROVE  /\ page' \in [Queries -> Nat] /\ buf' \in [Queries -> Seq(Nat)]
         /\ \A r \in Queries : page'[r] <= LastPage(r)'
<1>1. \A r \in Queries : LastPage(r) \in Nat /\ LastPage(r)' = LastPage(r)
  BY LayoutFacts DEF LastPage
<1>2. page \in [Queries -> Nat] /\ buf \in [Queries -> Seq(Nat)] /\ <<>> \in Seq(Nat)
      /\ \A r \in Queries : page[r] <= LastPage(r)
  BY EmptySeq DEF TypeOK
<1>3. CASE page' = [page EXCEPT ![q] = 0] /\ buf' = [buf EXCEPT ![q] = <<>>]
  <2>1. page' \in [Queries -> Nat] /\ buf' \in [Queries -> Seq(Nat)]
    BY <1>2, <1>3
  <2>2. ASSUME NEW r \in Queries
        PROVE  page'[r] <= LastPage(r)'
    <3>1. page'[r] = 0 \/ page'[r] = page[r]
      BY <1>2, <1>3
    <3>2. QED
      BY <1>1, <1>2, <3>1
  <2>3. QED
    BY <2>1, <2>2
<1>4. CASE page' = page /\ buf' = buf
  BY <1>1, <1>2, <1>4
<1>5. QED
  BY <1>3, <1>4

LEMMA StepTypeOK ==
  ASSUME TypeOK, [Next]_vars
  PROVE  TypeOK'
<1> USE ConstantsAssumption DEF callVars, dataVars, resultVars, Return, Fails, TakeNode
<1>1. CASE StartFails \/ StartUnreadable
  <2>1. CASE StartFails
    BY <2>1 DEF StartFails, TypeOK, FailuresOf, Errors, ContextEnd, LastPage
  <2>2. CASE StartUnreadable
    BY <2>2 DEF StartUnreadable, Answer, TypeOK, Errors, LastPage
  <2>3. QED
    BY <1>1, <2>1, <2>2
<1>2. CASE StartSucceeds
  <2>1. cur \in Queries /\ PageRows(cur, 1) \in Seq(Nat) /\ LastPage(cur) >= 1
    <3>1. cur \in Queries /\ TypeOK
      BY <1>2 DEF StartSucceeds, Answer, TypeOK
    <3>2. LastPage(cur) >= 1 /\ 1 \in 1..LastPage(cur)
      BY <3>1, LayoutFacts
    <3>3. QED
      BY <3>1, <3>2, PageRowsFacts
  <2>2. page' \in [Queries -> Nat] /\ \A q \in Queries : page'[q] <= LastPage(q)
    BY <1>2, <2>1 DEF StartSucceeds, Answer, TypeOK
  <2>3. QED
    BY <1>2, <2>1, <2>2 DEF StartSucceeds, Answer, TypeOK, LastPage
<1>3. CASE PollSucceeds
  <2>1. /\ cur \in Queries /\ page[cur] \in Nat /\ page[cur] <= LastPage(cur)
        /\ page[cur] # LastPage(cur) /\ LastPage(cur) \in Nat
    BY <1>3, LayoutFacts DEF PollSucceeds, NeedsPage, Enough, ReadFinished, TypeOK
  <2>2. PageRows(cur, page[cur] + 1) \in Seq(Nat)
    BY <2>1, PageRowsFacts
  <2>3. buf' \in [Queries -> Seq(Nat)]
    BY <1>3, <2>1, <2>2, ConcatProperties, EmptySeq DEF PollSucceeds, TypeOK
  <2>4. page' \in [Queries -> Nat] /\ \A q \in Queries : page'[q] <= LastPage(q)
    <3>1. page \in [Queries -> Nat] /\ page' = [page EXCEPT ![cur] = page[cur] + 1]
      BY <1>3 DEF PollSucceeds, TypeOK
    <3>2. page[cur] + 1 \in Nat /\ page[cur] + 1 <= LastPage(cur)
      BY <2>1
    <3>3. page' \in [Queries -> Nat]
      BY <3>1, <3>2
    <3>4. ASSUME NEW q \in Queries PROVE page'[q] <= LastPage(q)
      <4>1. CASE q = cur
        BY <3>1, <3>2, <4>1
      <4>2. CASE q # cur
        BY <3>1, <4>2 DEF TypeOK
      <4>3. QED
        BY <4>1, <4>2
    <3>5. QED
      BY <3>3, <3>4
  <2>5. QED
    BY <1>3, <2>3, <2>4 DEF PollSucceeds, TypeOK, LastPage
<1>4. CASE PollFails
  <2>1. /\ cur \in Queries /\ pc' \in {"kill", "release", "final"} /\ pc # "idle"
        /\ UNCHANGED <<layout, answered, ctx, op, cur, page, buf, rowsState, status, delivered,
                       asked, nodeID>>
    BY <1>4 DEF PollFails, NeedsPage, AfterPollError, TypeOK
  <2>2. PICK e \in FailuresOf(cur) : err' = [err EXCEPT ![cur] = e]
    BY <1>4 DEF PollFails
  <2>3. e \in Errors
    BY <2>1, <2>2 DEF FailuresOf, Errors, ContextEnd, TypeOK
  <2>4. err' \in [Queries -> Errors \cup {"none"}]
    BY <2>1, <2>2, <2>3 DEF TypeOK
  <2>5. \A q \in Queries : page'[q] <= LastPage(q)'
    BY <2>1 DEF TypeOK, LastPage
  <2>6. QED
    BY <2>1, <2>4, <2>5 DEF TypeOK
<1>5. CASE Kill
  <2>1. cur \in Queries /\ layout' = layout
    BY <1>5 DEF Kill, TypeOK
  <2>2. \/ page' = [page EXCEPT ![cur] = 0] /\ buf' = [buf EXCEPT ![cur] = <<>>]
        \/ page' = page /\ buf' = buf
    BY <1>5 DEF Kill, LeaveLoop
  <2>3. /\ page' \in [Queries -> Nat] /\ buf' \in [Queries -> Seq(Nat)]
        /\ \A r \in Queries : page'[r] <= LastPage(r)'
    BY <2>1, <2>2, DroppedPage
  <2>4. status' \in [Queries -> {"new", "streaming", "complete", "failed", "closed"}]
        /\ delivered' = delivered
    <3>1. delivered' = delivered /\ (status' = status \/ status' = [status EXCEPT ![cur] = "failed"])
      BY <1>5 DEF Kill, LeaveLoop
    <3>2. QED
      BY <2>1, <3>1 DEF TypeOK
  <2>5. asked' \subseteq Queries
    BY <1>5, <2>1 DEF Kill, CloseQuery, TypeOK
  <2>6. /\ cur' = cur /\ op' \in {"none", "query", "exec", "next"} /\ pc' \in {"idle", "release"}
        /\ op' = "none" <=> pc' = "idle"
    BY <1>5, <2>1 DEF Kill, LeaveLoop, TypeOK
  <2>7. UNCHANGED <<answered, ctx, rowsState, err, nodeID>>
    BY <1>5 DEF Kill
  <2>8. QED
    BY <2>1, <2>3, <2>4, <2>5, <2>6, <2>7 DEF TypeOK
<1>6. CASE Final
  <2>1. cur \in Queries /\ layout' = layout
    BY <1>6 DEF Final, TypeOK
  <2>2. \/ page' = [page EXCEPT ![cur] = 0] /\ buf' = [buf EXCEPT ![cur] = <<>>]
        \/ page' = page /\ buf' = buf
    BY <1>6 DEF Final, LeaveLoop
  <2>3. /\ page' \in [Queries -> Nat] /\ buf' \in [Queries -> Seq(Nat)]
        /\ \A r \in Queries : page'[r] <= LastPage(r)'
    BY <2>1, <2>2, DroppedPage
  <2>4. status' \in [Queries -> {"new", "streaming", "complete", "failed", "closed"}]
        /\ delivered' = delivered
    <3>1. delivered' = delivered /\ (status' = status \/ status' = [status EXCEPT ![cur] = "failed"])
      BY <1>6 DEF Final, LeaveLoop
    <3>2. QED
      BY <2>1, <3>1 DEF TypeOK
  <2>5. asked' \subseteq Queries
    BY <1>6, <2>1 DEF Final, CloseQuery, TypeOK
  <2>6. /\ cur' = cur /\ op' \in {"none", "query", "exec", "next"} /\ pc' \in {"idle", "release"}
        /\ op' = "none" <=> pc' = "idle"
    BY <1>6, <2>1 DEF Final, LeaveLoop, TypeOK
  <2>7. UNCHANGED <<answered, ctx, rowsState, err, nodeID>>
    BY <1>6 DEF Final
  <2>8. QED
    BY <2>1, <2>3, <2>4, <2>5, <2>6, <2>7 DEF TypeOK
<1>7. CASE WaitEnds
  BY <1>7 DEF WaitEnds, TypeOK, LastPage
<1>8. CASE NewNextRows
  BY <1>8 DEF NewNextRows, TypeOK, LastPage, Errors
<1>9. CASE Release
  BY <1>9 DEF Release, CloseQuery, TypeOK, LastPage
<1>10. CASE ExecResult
  <2>1. cur \in Queries /\ buf[cur] \in Seq(Nat) /\ layout' = layout /\ page' = page
    BY <1>10 DEF ExecResult, TypeOK
  <2>2. \A q \in Queries : page'[q] <= LastPage(q)'
    BY <2>1 DEF TypeOK, LastPage
  <2>3. delivered' \in [Queries -> Seq(Nat)]
    BY <1>10, <2>1 DEF ExecResult, TypeOK
  <2>4. status' \in [Queries -> {"new", "streaming", "complete", "failed", "closed"}]
    BY <1>10, <2>1 DEF ExecResult, TypeOK
  <2>5. err' \in [Queries -> Errors \cup {"none"}]
    BY <1>10, <2>1 DEF ExecResult, TypeOK, Errors
  <2>6. QED
    BY <1>10, <2>2, <2>3, <2>4, <2>5 DEF ExecResult, TypeOK
<1>11. CASE DeliverRow
  <2>1. cur \in Queries /\ buf[cur] \in Seq(Nat) /\ buf[cur] # <<>> /\ delivered[cur] \in Seq(Nat)
    BY <1>11 DEF DeliverRow, TypeOK
  <2>2. Head(buf[cur]) \in Nat /\ Tail(buf[cur]) \in Seq(Nat)
        /\ Append(delivered[cur], Head(buf[cur])) \in Seq(Nat)
    BY <2>1, HeadTailProperties, AppendProperties
  <2>3. buf' \in [Queries -> Seq(Nat)] /\ delivered' \in [Queries -> Seq(Nat)]
    <3>1. /\ buf \in [Queries -> Seq(Nat)] /\ delivered \in [Queries -> Seq(Nat)]
          /\ buf' = [buf EXCEPT ![cur] = Tail(buf[cur])]
          /\ \/ delivered' = [delivered EXCEPT ![cur] = Append(delivered[cur], Head(buf[cur]))]
             \/ delivered' = delivered
      BY <1>11 DEF DeliverRow, TypeOK
    <3>2. buf' \in [Queries -> Seq(Nat)]
      BY <2>1, <2>2, <3>1
    <3>3. delivered' \in [Queries -> Seq(Nat)]
      BY <2>1, <2>2, <3>1
    <3>4. QED
      BY <3>2, <3>3
  <2>4. QED
    BY <1>11, <2>3 DEF DeliverRow, TypeOK, LastPage, Errors
<1>12. CASE EndOfRows
  <2>1. cur \in Queries /\ layout' = layout
    BY <1>12 DEF EndOfRows, TypeOK
  <2>2. \/ page' = [page EXCEPT ![cur] = 0] /\ buf' = [buf EXCEPT ![cur] = <<>>]
        \/ page' = page /\ buf' = buf
    BY <1>12 DEF EndOfRows, DoClose
  <2>3. /\ page' \in [Queries -> Nat] /\ buf' \in [Queries -> Seq(Nat)]
        /\ \A r \in Queries : page'[r] <= LastPage(r)'
    BY <2>1, <2>2, DroppedPage
  <2>4. /\ rowsState' \in [Queries -> {"none", "open", "closed"}]
        /\ status' \in [Queries -> {"new", "streaming", "complete", "failed", "closed"}]
        /\ asked' \subseteq Queries
    BY <1>12, <2>1 DEF EndOfRows, DoClose, CloseQuery, TypeOK
  <2>5. QED
    BY <1>12, <2>1, <2>3, <2>4 DEF EndOfRows, TypeOK
<1>13. ASSUME NEW q \in Queries, NEW o \in {"query", "exec"}, Call(q, o)
       PROVE  TypeOK'
  BY <1>13 DEF Call, TypeOK, LastPage
<1>14. ASSUME NEW q \in Queries, CallNext(q)
       PROVE  TypeOK'
  BY <1>14 DEF CallNext, TypeOK, LastPage
<1>15. ASSUME NEW q \in Queries, CallClose(q)
       PROVE  TypeOK'
  <2>1. /\ page' \in [Queries -> Nat] /\ buf' \in [Queries -> Seq(Nat)]
        /\ \A r \in Queries : page'[r] <= LastPage(r)'
    BY <1>15, DroppedPage DEF CallClose, DoClose
  <2>2. rowsState' \in [Queries -> {"none", "open", "closed"}] /\ asked' \subseteq Queries
    <3>1. rowsState' \in [Queries -> {"none", "open", "closed"}]
      BY <1>15 DEF CallClose, DoClose, TypeOK
    <3>2. asked' = asked \/ asked' = asked \cup {q}
      BY <1>15 DEF CallClose, DoClose, CloseQuery
    <3>3. QED
      BY <3>1, <3>2 DEF TypeOK
  <2>3. status' \in [Queries -> {"new", "streaming", "complete", "failed", "closed"}]
    BY <1>15 DEF CallClose, TypeOK
  <2>4. QED
    BY <1>15, <2>1, <2>2, <2>3 DEF CallClose, TypeOK
<1>16. ASSUME NEW q \in Queries, NEW how \in ContextEnd, ContextEnds(q, how)
       PROVE  TypeOK'
  BY <1>16 DEF ContextEnds, TypeOK, LastPage
<1>17. CASE UNCHANGED vars
  BY <1>17 DEF vars, TypeOK, LastPage
<1>18. QED
  BY NextCases, <1>1, <1>2, <1>3, <1>4, <1>5, <1>6, <1>7, <1>8, <1>9, <1>10, <1>11,
     <1>12, <1>13, <1>14, <1>15, <1>16, <1>17

\* Calls of the driver and the state of each result fit together, and no page
\* is counted that the server does not have.
THEOREM TypeCorrect == Spec => []TypeOK
BY InitTypeOK, StepTypeOK, PTL DEF Spec

-------------------------------------------------------------------------------
(* The shapes of calls and rows, and the requests that end a query.        *)

LEMMA InitShapes ==
  ASSUME Init, NEW q \in Queries
  PROVE  Shapes(q)
BY DEF Init, Shapes, InCall, CallShape, RowsShape, WayOut, AskedLate, Released, Over, Unread

\* A statement that no call works on, before or after the step, is left alone;
\* only its context may end.
LEMMA ElsewhereShapes ==
  ASSUME NEW q \in Queries, Shapes(q), ~InCall(q), ~InCall(q)',
         status'[q] = status[q], rowsState'[q] = rowsState[q], page'[q] = page[q],
         err'[q] = err[q], delivered'[q] = delivered[q], q \in asked' <=> q \in asked,
         q \in answered' <=> q \in answered,
         ctx[q] # "live" => ctx'[q] # "live"
  PROVE  Shapes(q)'
BY DEF Shapes, CallShape, RowsShape, WayOut, AskedLate, Released, Over, Unread

\* A step of the driver disturbs its own statement only.
LEMMA DriverElsewhere ==
  ASSUME TypeOK, Driver, NEW q \in Queries, q # cur
  PROVE  /\ ~InCall(q) /\ ~InCall(q)'
         /\ status'[q] = status[q] /\ rowsState'[q] = rowsState[q] /\ page'[q] = page[q]
         /\ buf'[q] = buf[q] /\ err'[q] = err[q] /\ delivered'[q] = delivered[q]
         /\ q \in asked' <=> q \in asked
         /\ q \in answered' <=> q \in answered
         /\ ctx' = ctx /\ layout' = layout
<1> USE DEF callVars, dataVars, resultVars, Return, Fails, InCall, TypeOK
<1>1. CASE StartFails \/ StartUnreadable
  BY <1>1 DEF StartFails, StartUnreadable, Answer
<1>2. CASE StartSucceeds
  BY <1>2 DEF StartSucceeds, Answer
<1>3. CASE PollSucceeds
  BY <1>3 DEF PollSucceeds
<1>4. CASE PollFails
  BY <1>4 DEF PollFails
<1>5. CASE Kill
  BY <1>5 DEF Kill, LeaveLoop, CloseQuery
<1>6. CASE Final
  BY <1>6 DEF Final, LeaveLoop, CloseQuery
<1>7. CASE WaitEnds
  BY <1>7 DEF WaitEnds
<1>8. CASE NewNextRows
  BY <1>8 DEF NewNextRows
<1>9. CASE Release
  BY <1>9 DEF Release, CloseQuery
<1>10. CASE ExecResult
  BY <1>10 DEF ExecResult
<1>11. CASE DeliverRow
  BY <1>11 DEF DeliverRow
<1>12. CASE EndOfRows
  BY <1>12 DEF EndOfRows, DoClose, CloseQuery
<1>13. QED
  BY <1>1, <1>2, <1>3, <1>4, <1>5, <1>6, <1>7, <1>8, <1>9, <1>10, <1>11, <1>12 DEF Driver

LEMMA DriverShapes ==
  ASSUME TypeOK, Shapes(cur), Driver
  PROVE  Shapes(cur)'
<1> USE DEF callVars, dataVars, resultVars, Return, Fails, InCall, Shapes, CallShape,
        RowsShape, WayOut, AskedLate, Released, Over, Unread, ReadFinished, LastPage
<1>a. cur \in Queries /\ pc # "idle"
  BY DEF Driver, StartFails, StartUnreadable, StartSucceeds, PollSucceeds, PollFails,
         NeedsPage, Kill, Final, WaitEnds, NewNextRows, Release, ExecResult, DeliverRow, EndOfRows, TypeOK
<1>1. CASE StartFails \/ StartUnreadable
  BY <1>a, <1>1 DEF StartFails, StartUnreadable, Answer, TypeOK
<1>2. CASE StartSucceeds
  BY <1>a, <1>2 DEF StartSucceeds, Answer, TypeOK
<1>3. CASE PollSucceeds
  BY <1>a, <1>3 DEF PollSucceeds, NeedsPage, TypeOK
<1>4. CASE PollFails
  BY <1>a, <1>4 DEF PollFails, NeedsPage, AfterPollError, FailuresOf, ContextEnd, TypeOK
<1>5. CASE Kill
  BY <1>a, <1>5 DEF Kill, LeaveLoop, CloseQuery, TypeOK
<1>6. CASE Final
  BY <1>a, <1>6 DEF Final, LeaveLoop, CloseQuery, TypeOK
<1>7. CASE WaitEnds
  <2>1. /\ pc = "wait" /\ op \in {"query", "exec"}
        /\ op = "exec" => page[cur] = Len(layout[cur])
    BY <1>7 DEF WaitEnds, Enough, TypeOK
  <2>2. /\ pc' = IF op = "exec" THEN "release" ELSE "newRows"
        /\ UNCHANGED <<layout, answered, ctx, op, cur, page, rowsState, err, status, delivered, asked>>
    BY <1>7 DEF WaitEnds
  <2>3. /\ status[cur] = "new" /\ rowsState[cur] = "none" /\ delivered[cur] = <<>>
        /\ page[cur] # 0 /\ (cur \in answered <=> page[cur] > 0)
    BY <1>a, <2>1
  <2>4. err[cur] = "canceled" => cur \in asked
    BY <1>a, <2>1, <2>3
  <2>5. QED
    BY <1>a, <2>1, <2>2, <2>3, <2>4
<1>8. CASE NewNextRows
  BY <1>a, <1>8 DEF NewNextRows, TypeOK
<1>9. CASE Release
  <2>1. /\ status[cur] = "new" /\ rowsState[cur] = "none" /\ page'[cur] = page[cur]
        /\ answered' = answered /\ cur' = cur /\ ctx' = ctx
    BY <1>a, <1>9 DEF Release
  <2>2. CASE err[cur] = "none"
    BY <1>a, <1>9, <2>1, <2>2 DEF Release, CloseQuery, TypeOK
  <2>3. CASE err[cur] # "none"
    BY <1>a, <1>9, <2>1, <2>3 DEF Release, CloseQuery, TypeOK
  <2>4. QED
    BY <2>2, <2>3
<1>10. CASE ExecResult
  BY <1>a, <1>10 DEF ExecResult, TypeOK
<1>11. CASE DeliverRow
  BY <1>a, <1>11 DEF DeliverRow, TypeOK
<1>12. CASE EndOfRows
  BY <1>a, <1>12 DEF EndOfRows, DoClose, CloseQuery, TypeOK
<1>13. QED
  BY <1>1, <1>2, <1>3, <1>4, <1>5, <1>6, <1>7, <1>8, <1>9, <1>10, <1>11, <1>12 DEF Driver

LEMMA StepShapes ==
  ASSUME TypeOK, \A r \in Queries : Shapes(r), [Next]_vars, NEW q \in Queries
  PROVE  Shapes(q)'
<1> USE DEF callVars, dataVars, resultVars
<1>1. CASE Driver /\ q = cur
  <2>1. cur' = cur
    BY <1>1 DEF Driver, StartFails, StartUnreadable, StartSucceeds, PollSucceeds, PollFails,
         Kill, Final, LeaveLoop, WaitEnds, NewNextRows, Release, ExecResult, DeliverRow, EndOfRows, Return
  <2>2. Shapes(cur)'
    BY <1>1, DriverShapes
  <2>3. QED
    BY <1>1, <2>1, <2>2
<1>2. CASE Driver /\ q # cur
  BY <1>2, DriverElsewhere, ElsewhereShapes
<1>3. ASSUME NEW r \in Queries, NEW o \in {"query", "exec"}, Call(r, o)
      PROVE  Shapes(q)'
  <2>1. CASE q = r
    BY <1>3, <2>1 DEF Call, TypeOK, Shapes, InCall, CallShape, RowsShape, WayOut, AskedLate,
                      Released, Over, Unread
  <2>2. CASE q # r
    BY <1>3, <2>2, ElsewhereShapes DEF Call, InCall
  <2>3. QED
    BY <2>1, <2>2
<1>4. ASSUME NEW r \in Queries, CallNext(r)
      PROVE  Shapes(q)'
  <2>1. CASE q = r
    BY <1>4, <2>1 DEF CallNext, TypeOK, Shapes, InCall, CallShape, RowsShape, WayOut, AskedLate,
                      Released, Over, Unread
  <2>2. CASE q # r
    BY <1>4, <2>2, ElsewhereShapes DEF CallNext, InCall
  <2>3. QED
    BY <2>1, <2>2
<1>5. ASSUME NEW r \in Queries, CallClose(r)
      PROVE  Shapes(q)'
  <2>1. CASE q = r
    BY <1>5, <2>1 DEF CallClose, DoClose, CloseQuery, TypeOK, Shapes, InCall, CallShape, RowsShape,
                      WayOut, AskedLate, Released, Over, Unread
  <2>2. CASE q # r
    BY <1>5, <2>2, ElsewhereShapes DEF CallClose, DoClose, CloseQuery, InCall, TypeOK
  <2>3. QED
    BY <2>1, <2>2
<1>6. ASSUME NEW r \in Queries, NEW how \in ContextEnd, ContextEnds(r, how)
      PROVE  Shapes(q)'
  BY <1>6 DEF ContextEnds, ContextEnd, TypeOK, Shapes, InCall, CallShape, RowsShape, WayOut,
              AskedLate, Released, Over, Unread, ReadFinished, LastPage
<1>7. CASE UNCHANGED vars
  BY <1>7 DEF vars, Shapes, InCall, CallShape, RowsShape, WayOut, AskedLate, Released, Over,
              Unread, ReadFinished, LastPage
<1>8. QED
  BY <1>1, <1>2, <1>3, <1>4, <1>5, <1>6, <1>7 DEF Next

-------------------------------------------------------------------------------
(* The rows in the buffer.                                                 *)

LEMMA InitContinues ==
  ASSUME Init, NEW q \in Queries
  PROVE  Continues(q)
BY DEF Init, Continues, RowsUpTo

LEMMA SameContinues ==
  ASSUME NEW q \in Queries, Continues(q), layout' = layout,
         status'[q] \in {"new", "streaming"} => status[q] \in {"new", "streaming"},
         status'[q] \in {"new", "streaming"} =>
           page'[q] = page[q] /\ buf'[q] = buf[q] /\ delivered'[q] = delivered[q]
  PROVE  Continues(q)'
BY DEF Continues, RowsUpTo

\* The next page continues the rows that were handed out.
LEMMA PageContinues ==
  ASSUME TypeOK, NEW q \in Queries, NEW k \in 1..LastPage(q), layout' = layout,
         delivered'[q] = delivered[q], page'[q] = k,
         \/ buf'[q] = PageRows(q, k) /\ Len(delivered[q]) = RowsUpTo(q, k - 1)
         \/ /\ buf'[q] = buf[q] \o PageRows(q, k)
            /\ Len(delivered[q]) + Len(buf[q]) = RowsUpTo(q, k - 1)
            /\ \A i \in 1..Len(buf[q]) : buf[q][i] = Len(delivered[q]) + i
  PROVE  Continues(q)'
<1> DEFINE old == buf[q]
           new == PageRows(q, k)
           done == Len(delivered[q])
           lo == RowsUpTo(q, k - 1)
           hi == RowsUpTo(q, k)
<1>1. new \in Seq(Nat) /\ Len(new) = hi - lo /\ \A i \in 1..Len(new) : new[i] = lo + i
  BY PageRowsFacts
<1>2. lo \in Nat /\ hi \in Nat /\ lo <= hi /\ done \in Nat /\ old \in Seq(Nat) /\ Len(old) \in Nat
  BY LayoutFacts, LenProperties DEF TypeOK
<1>3. RowsUpTo(q, k)' = hi /\ Len(delivered[q])' = done
  BY DEF RowsUpTo
<1>4. CASE buf'[q] = new /\ done = lo
  <2> HIDE DEF new, done, lo, hi
  <2>1. done + Len(new) = hi /\ \A i \in 1..Len(new) : new[i] = done + i
    <3>1. done + Len(new) = hi
      BY <1>1, <1>2, <1>4
    <3>2. \A i \in 1..Len(new) : new[i] = done + i
      BY <1>1, <1>4
    <3>3. QED
      BY <3>1, <3>2
  <2>2. QED
    BY <1>3, <1>4, <2>1 DEF Continues, done
<1>5. CASE /\ buf'[q] = old \o new /\ done + Len(old) = lo
           /\ \A i \in 1..Len(old) : old[i] = done + i
  <2> HIDE DEF old, new, done, lo, hi
  <2>1. /\ Len(old \o new) = Len(old) + Len(new)
        /\ \A i \in 1..(Len(old) + Len(new)) :
             (old \o new)[i] = IF i <= Len(old) THEN old[i] ELSE new[i - Len(old)]
    BY <1>1, <1>2, ConcatProperties
  <2>2. done + Len(old \o new) = hi
    <3>1. /\ done \in Nat /\ lo \in Nat /\ hi \in Nat /\ Len(old) \in Nat
          /\ Len(new) = hi - lo /\ done + Len(old) = lo
          /\ Len(old \o new) = Len(old) + Len(new)
      BY <1>1, <1>2, <1>5, <2>1
    <3>2. QED
      BY <3>1
  <2>3. ASSUME NEW i \in 1..Len(old \o new)
        PROVE  (old \o new)[i] = done + i
    <3>1. CASE i <= Len(old)
      BY <1>1, <1>2, <1>5, <2>1, <3>1
    <3>2. CASE i > Len(old)
      <4>1. i - Len(old) \in 1..Len(new)
        BY <1>1, <1>2, <2>1, <3>2
      <4>2. new[i - Len(old)] = lo + (i - Len(old))
        BY <1>1, <4>1
      <4>3. (old \o new)[i] = new[i - Len(old)]
        BY <1>2, <2>1, <3>2
      <4>4. lo \in Nat /\ done \in Nat /\ Len(old) \in Nat /\ done + Len(old) = lo /\ i \in Nat
        BY <1>2, <1>5, <2>1
      <4>5. lo + (i - Len(old)) = done + i
        BY <4>4
      <4>6. QED
        BY <4>2, <4>3, <4>5
    <3>3. QED
      BY <1>2, <3>1, <3>2
  <2>4. QED
    BY <1>3, <1>5, <2>2, <2>3 DEF Continues, done
<1>6. QED
  BY <1>4, <1>5

\* Handing out a row shifts the positions of the others.
LEMMA Shift ==
  ASSUME NEW a \in Nat, NEW b \in Nat
  PROVE  /\ (a + 1) + (b - 1) = a + b
         /\ \A i \in 1..(b - 1) : i + 1 \in 1..b /\ a + (i + 1) = (a + 1) + i
OBVIOUS

LEMMA StepContinues ==
  ASSUME TypeOK, \A r \in Queries : Shapes(r) /\ Continues(r), [Next]_vars, NEW q \in Queries
  PROVE  Continues(q)'
<1> USE DEF callVars, dataVars, resultVars, Return, Fails
<1>0. /\ \A k \in 0..LastPage(q) : RowsUpTo(q, k) \in Nat
      /\ LastPage(q) \in Nat /\ LastPage(q) > 0 /\ page[q] \in Nat /\ page[q] <= LastPage(q)
  BY LayoutFacts DEF TypeOK
<1>1. CASE Driver /\ q # cur
  BY <1>1, DriverElsewhere, SameContinues
<1>2. CASE StartSucceeds /\ q = cur
  <2>1. delivered[q] = <<>>
    BY <1>2 DEF StartSucceeds, Answer, Shapes, CallShape, RowsShape, InCall, TypeOK
  <2>2. /\ layout' = layout /\ delivered' = delivered /\ page'[q] = 1 /\ buf'[q] = PageRows(q, 1)
    BY <1>2 DEF StartSucceeds, Answer, TypeOK
  <2>3. RowsUpTo(q, 0) = 0 /\ Len(delivered[q]) = 0
    BY <2>1 DEF RowsUpTo
  <2>4. 1 \in 1..LastPage(q) /\ 1 - 1 = 0
    BY <1>0
  <2>5. Len(delivered[q]) = RowsUpTo(q, 1 - 1)
    BY <2>3, <2>4
  <2>6. QED
    BY <2>2, <2>4, <2>5, PageContinues
<1>3. CASE PollSucceeds /\ q = cur
  <2>1. page[q] + 1 \in 1..LastPage(q) /\ (page[q] + 1) - 1 = page[q]
    BY <1>0, <1>3 DEF PollSucceeds, NeedsPage, Enough, ReadFinished
  <2>2. /\ layout' = layout /\ delivered' = delivered /\ page'[q] = page[q] + 1
        /\ buf'[q] = (IF op = "exec" THEN buf[q] ELSE <<>>) \o PageRows(q, page[q] + 1)
    BY <1>3 DEF PollSucceeds, TypeOK
  <2>3. status[q] \in {"new", "streaming"}
    BY <1>3 DEF PollSucceeds, NeedsPage, Shapes, CallShape, InCall
  <2>4. /\ Len(delivered[q]) + Len(buf[q]) = RowsUpTo(q, page[q])
        /\ \A i \in 1..Len(buf[q]) : buf[q][i] = Len(delivered[q]) + i
    BY <2>3 DEF Continues
  <2>5. CASE op = "exec"
    BY <2>1, <2>2, <2>4, <2>5, PageContinues
  <2>6. CASE op # "exec"
    <3>1. buf[q] = <<>>
      BY <1>3, <2>6 DEF PollSucceeds, NeedsPage, Enough
    <3>2. buf'[q] = PageRows(q, page[q] + 1)
      BY <2>1, <2>2, <2>6, PageRowsFacts, ConcatEmptySeq
    <3>3. Len(delivered[q]) = RowsUpTo(q, page[q])
      BY <2>4, <3>1, EmptySeq, LenProperties DEF TypeOK
    <3>4. QED
      BY <2>1, <2>2, <3>2, <3>3, PageContinues
  <2>7. QED
    BY <2>5, <2>6
<1>4. CASE DeliverRow /\ q = cur
  <2>1. CASE status'[q] = "failed"
    BY <2>1 DEF Continues
  <2>2. CASE status'[q] # "failed"
    <3>1. /\ layout' = layout /\ page' = page /\ status'[q] = status[q] /\ buf'[q] = Tail(buf[q])
          /\ delivered'[q] = Append(delivered[q], Head(buf[q])) /\ buf[q] # <<>>
      BY <1>4, <2>2 DEF DeliverRow, TypeOK
    <3>2. buf[q] \in Seq(Nat) /\ delivered[q] \in Seq(Nat)
      BY DEF TypeOK
    <3>3. /\ Len(Tail(buf[q])) = Len(buf[q]) - 1
          /\ \A i \in 1..Len(Tail(buf[q])) : Tail(buf[q])[i] = buf[q][i + 1]
          /\ Head(buf[q]) \in Nat
      BY <3>1, <3>2, HeadTailProperties
    <3>4. Len(delivered'[q]) = Len(delivered[q]) + 1
      BY <3>1, <3>2, <3>3, AppendProperties
    <3>5. Len(buf[q]) \in Nat /\ Len(delivered[q]) \in Nat
      BY <3>2, LenProperties
    <3>6. ASSUME status[q] \in {"new", "streaming"}
          PROVE  /\ (Len(delivered[q]) + 1) + (Len(buf[q]) - 1) = RowsUpTo(q, page[q])
                 /\ \A i \in 1..(Len(buf[q]) - 1) : buf[q][i + 1] = (Len(delivered[q]) + 1) + i
      <4>1. /\ Len(delivered[q]) + Len(buf[q]) = RowsUpTo(q, page[q])
            /\ \A i \in 1..Len(buf[q]) : buf[q][i] = Len(delivered[q]) + i
        BY <3>6 DEF Continues
      <4>2. (Len(delivered[q]) + 1) + (Len(buf[q]) - 1) = RowsUpTo(q, page[q])
        BY <3>5, <4>1, Shift
      <4>3. ASSUME NEW i \in 1..(Len(buf[q]) - 1)
            PROVE  buf[q][i + 1] = (Len(delivered[q]) + 1) + i
        <5>1. i + 1 \in 1..Len(buf[q]) /\ Len(delivered[q]) + (i + 1) = (Len(delivered[q]) + 1) + i
          BY <3>5, Shift
        <5>2. QED
          BY <4>1, <5>1
      <4>4. QED
        BY <4>2, <4>3
    <3>7. RowsUpTo(q, page[q])' = RowsUpTo(q, page[q])
      BY <3>1 DEF RowsUpTo
    <3>8. /\ Len(buf'[q]) = Len(buf[q]) - 1 /\ page'[q] = page[q]
          /\ \A i \in 1..(Len(buf[q]) - 1) : buf'[q][i] = buf[q][i + 1]
      BY <3>1, <3>3
    <3>9. ASSUME status'[q] \in {"new", "streaming"}
          PROVE  /\ Len(delivered'[q]) + Len(buf'[q]) = RowsUpTo(q, page[q])'
                 /\ \A i \in 1..Len(buf'[q]) : buf'[q][i] = Len(delivered'[q]) + i
      BY <3>1, <3>4, <3>6, <3>7, <3>8, <3>9
    <3>10. QED
      BY <3>9 DEF Continues
  <2>3. QED
    BY <2>1, <2>2
<1>5. CASE /\ q = cur
           /\ StartFails \/ StartUnreadable \/ Kill \/ Final \/ Release \/ ExecResult \/ EndOfRows
  <2>1. \/ status'[q] \in {"failed", "complete"}
        \/ /\ layout' = layout /\ status' = status /\ page' = page
           /\ buf' = buf /\ delivered' = delivered
    BY <1>5 DEF StartFails, StartUnreadable, Kill, Final, LeaveLoop, Release, ExecResult,
                EndOfRows, TypeOK
  <2>2. QED
    BY <2>1, SameContinues DEF Continues
<1>6. CASE q = cur /\ (PollFails \/ WaitEnds \/ NewNextRows)
  <2>1. /\ layout' = layout /\ page' = page /\ buf' = buf /\ delivered' = delivered
        /\ status' = status \/ status[q] = "new"
    BY <1>6 DEF PollFails, WaitEnds, NewNextRows, NeedsPage, Shapes, CallShape, InCall, TypeOK
  <2>2. QED
    BY <2>1, SameContinues
<1>7. ASSUME NEW r \in Queries, CallClose(r)
      PROVE  Continues(q)'
  <2>1. \/ status'[q] \notin {"new", "streaming"}
        \/ /\ layout' = layout /\ status'[q] = status[q] /\ page'[q] = page[q]
           /\ buf'[q] = buf[q] /\ delivered'[q] = delivered[q]
    BY <1>7 DEF CallClose, DoClose, TypeOK, Shapes, RowsShape
  <2>2. QED
    BY <2>1, SameContinues DEF Continues
<1>8. ASSUME NEW r \in Queries, \/ \E o \in {"query", "exec"} : Call(r, o)
                               \/ CallNext(r)
                               \/ \E how \in ContextEnd : ContextEnds(r, how)
      PROVE  Continues(q)'
  BY <1>8, SameContinues DEF Call, CallNext, ContextEnds
<1>9. CASE UNCHANGED vars
  BY <1>9, SameContinues DEF vars
<1>10. QED
  BY <1>1, <1>2, <1>3, <1>4, <1>5, <1>6, <1>7, <1>8, <1>9 DEF Next, Driver

LEMMA RowsInvariantHolds == Spec => []RowsInvariant
<1>1. Init => RowsInvariant
  BY InitShapes, InitContinues DEF RowsInvariant
<1>2. TypeOK /\ RowsInvariant /\ [Next]_vars => RowsInvariant'
  BY StepShapes, StepContinues DEF RowsInvariant
<1>3. QED
  BY <1>1, <1>2, TypeCorrect, PTL DEF Spec

-------------------------------------------------------------------------------
(* Queries at the server.                                                  *)

\* Whatever fails and whenever contexts end, a query that is over has been
\* killed or finalized, but for the cases ReleaseAsked names.
THEOREM QueriesAreReleased == Spec => []ReleaseAsked
<1>1. RowsInvariant => ReleaseAsked
  BY DEF RowsInvariant, Shapes, Released, ReleaseAsked, Finished, Over
<1>2. QED
  BY <1>1, RowsInvariantHolds, PTL

\* No page is requested of a query that was killed or finalized.
THEOREM ReleasedQueriesAreLeftAlone == Spec => []PollsBeforeRelease
<1>1. TypeOK /\ RowsInvariant => PollsBeforeRelease
  BY DEF TypeOK, RowsInvariant, Shapes, AskedLate, CallShape, InCall, Over, PollsBeforeRelease,
         NeedsPage
<1>2. QED
  BY <1>1, TypeCorrect, RowsInvariantHolds, PTL

-------------------------------------------------------------------------------
(* The refinement.                                                         *)

LEMMA TotalFacts ==
  ASSUME TypeOK, NEW q \in Queries
  PROVE  /\ Total(q) \in Nat
         /\ \A k \in 0..LastPage(q) : RowsUpTo(q, k) <= Total(q)
<1>1. /\ layout[q] \in Seq(Nat) /\ layout[q] # <<>>
      /\ \A i, j \in 1..Len(layout[q]) : i <= j => layout[q][i] <= layout[q][j]
  BY ConstantsAssumption DEF TypeOK
<1>2. /\ LastPage(q) \in Nat /\ LastPage(q) > 0
      /\ \A k \in 0..LastPage(q) : RowsUpTo(q, k) \in Nat
  BY LayoutFacts
<1>3. Total(q) = layout[q][LastPage(q)] /\ Total(q) \in Nat
  BY <1>2 DEF Total, RowsUpTo
<1>4. ASSUME NEW k \in 1..LastPage(q)
      PROVE  RowsUpTo(q, k) <= Total(q)
  <2>1. k # 0 /\ k <= LastPage(q) /\ LastPage(q) \in 1..LastPage(q)
    BY <1>2
  <2>2. QED
    BY <1>1, <1>3, <2>1 DEF RowsUpTo, LastPage
<1>5. RowsUpTo(q, 0) <= Total(q)
  BY <1>3 DEF RowsUpTo
<1>6. \A k \in 0..LastPage(q) : k = 0 \/ k \in 1..LastPage(q)
  BY <1>2
<1>7. QED
  BY <1>3, <1>4, <1>5, <1>6

LEMMA InitRefines == Init => Results!Init
<1> SUFFICES ASSUME Init PROVE Results!Init
  OBVIOUS
<1>1. \A q \in Queries : Total(q) \in Nat
  BY InitTypeOK, TotalFacts
<1>2. QED
  BY <1>1 DEF Init, Results!Init

\* A call fails only before it gave the application a final result.
LEMMA FailRefines ==
  ASSUME TypeOK, \A r \in Queries : Shapes(r), pc # "idle", layout' = layout, Fails(cur)
  PROVE  Results!Next
<1>1. cur \in Queries /\ status[cur] \in {"new", "streaming"}
  BY DEF TypeOK, Shapes, CallShape, InCall
<1>2. Results!Fail(cur)
  BY <1>1 DEF Fails, Results!Fail, Results!Move, Total, LastPage, RowsUpTo
<1>3. QED
  BY <1>1, <1>2 DEF Results!Next

LEMMA StepRefines ==
  ASSUME TypeOK, RowsInvariant, [Next]_vars
  PROVE  [Results!Next]_Results!vars
<1> USE DEF callVars, dataVars, resultVars, Return
<1>a. /\ \A r \in Queries : Shapes(r) /\ Continues(r)
      /\ pc # "idle" => cur \in Queries
  BY DEF RowsInvariant, TypeOK
<1>1. ASSUME layout' = layout, status' = status, delivered' = delivered
      PROVE  UNCHANGED Results!vars
  BY <1>1 DEF Results!vars, Total, LastPage, RowsUpTo
<1>2. CASE \/ StartFails \/ StartUnreadable \/ Kill \/ Final \/ Release
           \/ (ExecResult /\ Fails(cur)) \/ (DeliverRow /\ Fails(cur))
  <2>1. layout' = layout /\ pc # "idle" /\ (Fails(cur) \/ (status' = status /\ delivered' = delivered))
    BY <1>2 DEF StartFails, StartUnreadable, Kill, Final, LeaveLoop, Release, ExecResult, DeliverRow
  <2>2. QED
    BY <1>1, <1>a, <2>1, FailRefines
<1>3. CASE NewNextRows
  <2>1. CASE status' = [status EXCEPT ![cur] = "streaming"]
    <3>1. pc # "idle" /\ status[cur] = "new" /\ layout' = layout /\ delivered' = delivered
      BY <1>3, <1>a DEF NewNextRows, Shapes, CallShape, InCall
    <3>2. Results!Open(cur)
      BY <2>1, <3>1 DEF Results!Open, Results!Move, Total, LastPage, RowsUpTo
    <3>3. QED
      BY <1>a, <3>1, <3>2 DEF Results!Next
  <2>2. QED
    BY <1>1, <1>3, <2>1 DEF NewNextRows
<1>4. CASE ExecResult /\ ~Fails(cur)
  <2>1. /\ pc = "result" /\ layout' = layout /\ status' = [status EXCEPT ![cur] = "complete"]
        /\ delivered' = [delivered EXCEPT ![cur] = buf[cur]]
    BY <1>4 DEF ExecResult
  <2>2. cur \in Queries
    BY <1>a, <2>1
  <2>3. status[cur] = "new" /\ delivered[cur] = <<>> /\ page[cur] = LastPage(cur)
    BY <1>a, <2>1, <2>2 DEF Shapes, CallShape, RowsShape, WayOut, InCall, ReadFinished
  <2>4. buf[cur] \in Seq(Nat) /\ Total(cur) \in Nat
    BY <2>2, TotalFacts DEF TypeOK
  <2>5. Len(buf[cur]) = Total(cur) /\ \A i \in 1..Len(buf[cur]) : buf[cur][i] = i
    <3>1. /\ 0 + Len(buf[cur]) = Total(cur)
          /\ \A i \in 1..Len(buf[cur]) : buf[cur][i] = 0 + i
      BY <1>a, <2>2, <2>3 DEF Continues, Total
    <3>2. QED
      BY <2>4, <3>1
  <2>6. buf[cur] = [i \in 1..Total(cur) |-> i]
    <3>1. buf[cur] \in [1..Total(cur) -> Nat]
      BY <2>4, <2>5, LenProperties
    <3>2. QED
      BY <2>5, <3>1
  <2>7. Results!Whole(cur)
    BY <2>1, <2>2, <2>3, <2>6 DEF Results!Whole, Results!Move, Total, LastPage, RowsUpTo
  <2>8. QED
    BY <2>2, <2>7 DEF Results!Next
<1>5. CASE DeliverRow /\ ~Fails(cur)
  <2>1. /\ pc = "wait" /\ op = "next" /\ buf[cur] # <<>> /\ layout' = layout /\ status' = status
        /\ delivered' = [delivered EXCEPT ![cur] = Append(@, Head(buf[cur]))]
    BY <1>5 DEF DeliverRow
  <2>2. cur \in Queries
    BY <1>a, <2>1
  <2>3. status[cur] = "streaming"
    BY <1>a, <2>1, <2>2 DEF Shapes, CallShape, InCall
  <2>4. /\ buf[cur] \in Seq(Nat) /\ Len(buf[cur]) \in Nat /\ Len(buf[cur]) > 0
        /\ Len(delivered[cur]) \in Nat /\ Total(cur) \in Nat
        /\ RowsUpTo(cur, page[cur]) \in Nat /\ RowsUpTo(cur, page[cur]) <= Total(cur)
    <3>1. page[cur] \in 0..LastPage(cur)
      BY <2>2, LayoutFacts DEF TypeOK
    <3>2. RowsUpTo(cur, page[cur]) \in Nat /\ RowsUpTo(cur, page[cur]) <= Total(cur)
          /\ Total(cur) \in Nat
      BY <2>2, <3>1, LayoutFacts, TotalFacts
    <3>3. buf[cur] \in Seq(Nat) /\ delivered[cur] \in Seq(Nat)
      BY <2>2 DEF TypeOK
    <3>4. QED
      BY <2>1, <3>2, <3>3, EmptySeq, LenProperties
  <2>5. /\ Len(delivered[cur]) + Len(buf[cur]) = RowsUpTo(cur, page[cur])
        /\ buf[cur][1] = Len(delivered[cur]) + 1
    <3>1. 1 \in 1..Len(buf[cur])
      BY <2>4
    <3>2. QED
      BY <1>a, <2>2, <2>3, <3>1 DEF Continues
  <2>6. Len(delivered[cur]) < Total(cur)
    <3>1. \A a, b, c, d \in Nat : b > 0 /\ a + b = c /\ c <= d => a < d
      OBVIOUS
    <3>2. QED
      BY <2>4, <2>5, <3>1
  <2>7. Head(buf[cur]) = Len(delivered[cur]) + 1
    BY <2>1, <2>4, <2>5
  <2>8. Results!Deliver(cur)
    BY <2>1, <2>2, <2>3, <2>6, <2>7 DEF Results!Deliver, Total, LastPage, RowsUpTo
  <2>9. QED
    BY <2>2, <2>8 DEF Results!Next
<1>6. CASE EndOfRows
  <2>1. /\ pc = "wait" /\ op = "next" /\ buf[cur] = <<>> /\ page[cur] = LastPage(cur)
        /\ layout' = layout /\ status' = [status EXCEPT ![cur] = "complete"]
        /\ delivered' = delivered
    BY <1>6 DEF EndOfRows, Enough, ReadFinished
  <2>2. cur \in Queries
    BY <1>a, <2>1
  <2>3. status[cur] = "streaming"
    BY <1>a, <2>1, <2>2 DEF Shapes, CallShape, InCall
  <2>4. Len(delivered[cur]) = Total(cur)
    <3>1. Len(delivered[cur]) + 0 = Total(cur)
      BY <1>a, <2>1, <2>2, <2>3, EmptySeq DEF Continues, Total
    <3>2. Len(delivered[cur]) \in Nat
      BY <2>2, LenProperties DEF TypeOK
    <3>3. QED
      BY <3>1, <3>2
  <2>5. Results!Complete(cur)
    BY <2>1, <2>2, <2>3, <2>4 DEF Results!Complete, Results!Move, Total, LastPage, RowsUpTo
  <2>6. QED
    BY <2>2, <2>5 DEF Results!Next
<1>7. ASSUME NEW q \in Queries, CallClose(q)
      PROVE  [Results!Next]_Results!vars
  <2>1. /\ layout' = layout /\ delivered' = delivered
        /\ status' = [status EXCEPT ![q] = IF status[q] = "streaming" THEN "closed" ELSE status[q]]
    BY <1>7 DEF CallClose
  <2>2. CASE status[q] = "streaming"
    <3>1. Results!Close(q)
      BY <2>1, <2>2 DEF Results!Close, Results!Move, Total, LastPage, RowsUpTo
    <3>2. QED
      BY <3>1 DEF Results!Next
  <2>3. CASE status[q] # "streaming"
    <3>1. status' = status
      BY <2>1, <2>3 DEF TypeOK
    <3>2. QED
      BY <1>1, <2>1, <3>1
  <2>4. QED
    BY <2>2, <2>3
<1>8. CASE \/ StartSucceeds \/ PollSucceeds \/ PollFails \/ WaitEnds
           \/ \E q \in Queries, o \in {"query", "exec"} : Call(q, o)
           \/ \E q \in Queries : CallNext(q)
           \/ \E q \in Queries, how \in ContextEnd : ContextEnds(q, how)
           \/ UNCHANGED vars
  BY <1>1, <1>8 DEF StartSucceeds, PollSucceeds, PollFails, WaitEnds, Call, CallNext,
                    ContextEnds, vars
<1>9. QED
  BY NextCases, <1>2, <1>3, <1>4, <1>5, <1>6, <1>7, <1>8

\* For any paging and any interleaving of statements, calls and ended
\* contexts, query, Next, Close and exec implement ResultStream: every row
\* once, in order, and io.EOF only after the last.
THEOREM RowsAreStreamed == Spec => RefinesResultStream
<1>1. TypeOK /\ RowsInvariant /\ [Next]_vars => [Results!Next]_Results!vars
  BY StepRefines
<1>2. QED
  BY <1>1, InitRefines, TypeCorrect, RowsInvariantHolds, PTL
     DEF Spec, RefinesResultStream, Results!Spec

-------------------------------------------------------------------------------
(* The node of a page request.                                             *)

\* Statement q has been answered, and its result is still being read.
Reading(q) == status[q] = "streaming" \/ (InCall(q) /\ pc # "start")

\* The client remembers the node of every statement it reads but for those
\* that shared the connection; while a statement starts, all others have.
NodeInvariant ==
  \A q \in Queries : Reading(q) =>
    q \in shared \/ (nodeID = q /\ pc # "start")

LEMMA StepNodeInvariant ==
  ASSUME TypeOK, RowsInvariant, NodeInvariant, [Next /\ Track]_<<vars, shared>>
  PROVE  NodeInvariant'
<1> USE DEF callVars, dataVars, resultVars, Return, Fails, TakeNode, NodeInvariant, Reading, InCall
<1>a. \A q \in Queries : Shapes(q)
  BY DEF RowsInvariant
<1>b. shared \subseteq shared'
  BY DEF Track, vars
<1>c. [Next]_vars /\ (Track \/ UNCHANGED vars)
  BY DEF vars
<1>1. CASE StartFails \/ StartUnreadable \/ StartSucceeds
  BY <1>1, <1>a, <1>b DEF StartFails, StartUnreadable, StartSucceeds, TypeOK, Shapes, CallShape
<1>2. CASE PollSucceeds \/ PollFails \/ Kill \/ Final \/ WaitEnds \/ NewNextRows \/ Release
           \/ ExecResult \/ DeliverRow \/ EndOfRows
  <2>1. /\ nodeID' = nodeID /\ cur' = cur /\ pc # "idle" /\ pc # "start" /\ pc' # "start"
        /\ \A q \in Queries : status'[q] = "streaming" => status[q] = "streaming" \/ InCall(q)
    BY <1>2 DEF PollSucceeds, PollFails, NeedsPage, AfterPollError, Kill, Final, LeaveLoop,
                WaitEnds, NewNextRows, Release, ExecResult, DeliverRow, EndOfRows, TypeOK
  <2>2. QED
    BY <1>b, <2>1
<1>3. ASSUME NEW r \in Queries, NEW o \in {"query", "exec"}, Call(r, o), Track
      PROVE  NodeInvariant'
  <2>1. \A q \in Queries : Reading(q)' => status[q] = "streaming" /\ rowsState[q] = "open"
    BY <1>3, <1>a DEF Call, Shapes, RowsShape
  <2>2. QED
    BY <1>3, <2>1 DEF Call, Track, Started
<1>4. ASSUME NEW r \in Queries, CallNext(r)
      PROVE  NodeInvariant'
  BY <1>4, <1>b DEF CallNext
<1>5. ASSUME NEW r \in Queries, CallClose(r)
      PROVE  NodeInvariant'
  BY <1>5, <1>b DEF CallClose, TypeOK
<1>6. ASSUME NEW r \in Queries, NEW how \in ContextEnd, ContextEnds(r, how)
      PROVE  NodeInvariant'
  BY <1>6, <1>b DEF ContextEnds
<1>7. CASE UNCHANGED vars
  BY <1>7, <1>b DEF vars
<1>8. QED
  BY <1>c, NextCases, <1>1, <1>2, <1>3, <1>4, <1>5, <1>6, <1>7

\* Pages are requested of the node that runs their statement, unless another
\* statement was started while the Rows were open: nodeID is then the other's.
THEOREM OwnNodeIsPolled == MCSpec => []PollsOwnNode
<1>1. shared = {} /\ Init => NodeInvariant
  BY DEF Init, NodeInvariant, Reading, InCall
<1>2. TypeOK /\ RowsInvariant /\ NodeInvariant /\ [Next /\ Track]_<<vars, shared>> => NodeInvariant'
  BY StepNodeInvariant
<1>3. [Next /\ Track]_<<vars, shared>> => [Next]_vars
  BY DEF vars
<1>4. TypeOK /\ NodeInvariant => PollsOwnNode
  BY DEF TypeOK, NodeInvariant, Reading, InCall, PollsOwnNode, NeedsPage
<1>5. MCSpec => Spec
  BY <1>3, PTL DEF MCSpec, Spec
<1>6. QED
  BY <1>1, <1>2, <1>4, <1>5, TypeCorrect, RowsInvariantHolds, PTL DEF MCSpec
===============================================================================
