------------------------------- MODULE QueryRows -------------------------------
(***************************************************************************)
(* The life of a result on one LakeConn: LakeConn.query and LakeConn.exec  *)
(* (connection.go), the page loops waitForData (rows.go) and               *)
(* pollUntilQueryEndWithTransport (client.go), and nextRows.Next and Close *)
(* (rows.go).  database/sql lets the application hold several Rows of one  *)
(* connection open (in a Tx or on a Conn), and serializes the calls of the *)
(* driver with the lock of its driverConn; the context of each statement   *)
(* may end at any moment in between.                                       *)
(*                                                                         *)
(* A request to the server is one step here: ApiRequest shows what happens *)
(* inside.  It fails with the error of an ended context or with another    *)
(* one, and sends nothing if the context had ended before.                 *)
(***************************************************************************)
EXTENDS Naturals, Sequences, FiniteSets

CONSTANTS Queries,   \* the statements of the application
          NoQuery,   \* stands for no statement
          Layouts,   \* the ways the server may cut a result into pages
          MaxOpen    \* Rows the application keeps open at a time

\* A layout gives, for each page, the number of rows up to its end; a page may
\* be empty.
ASSUME ConstantsAssumption ==
  /\ NoQuery \notin Queries
  /\ Layouts \subseteq Seq(Nat) \ {<<>>}
  /\ \A l \in Layouts : \A i, j \in 1..Len(l) : i <= j => l[i] <= l[j]
  /\ MaxOpen \in Nat \ {0}

ContextEnd == {"canceled", "deadline"}
Errors == ContextEnd \cup {"other"}

VARIABLES
  layout,     \* how the server pages the result of each statement
  answered,   \* statements whose result the server keeps: it sent the first page
  ctx,        \* state of each statement's context
  op,         \* the driver call in progress
  cur,        \* its statement
  pc,         \* where it is
  page,       \* last page received, 0 for none (for Rows: respData = nil)
  buf,        \* rows of it not yet handed out (for exec: of all pages so far)
  rowsState,  \* nextRows.isClosed, "none" while there is no nextRows
  err,        \* the error of the last failing call for each statement
  status,     \* what the application knows of each result
  delivered,  \* the rows it has received
  asked,      \* statements whose final or kill URI was requested on a live context
  nodeID      \* APIClient.nodeID: the node of the statement that last set it

callVars == <<op, cur, pc>>
dataVars == <<page, buf>>
resultVars == <<status, delivered>>
vars == <<layout, answered, ctx, op, cur, pc, page, buf, rowsState, err, status,
          delivered, asked, nodeID>>

\* The rows of page k of statement q, and its last page.
RowsUpTo(q, k) == IF k = 0 THEN 0 ELSE layout[q][k]
PageRows(q, k) == [i \in 1..(RowsUpTo(q, k) - RowsUpTo(q, k - 1)) |-> RowsUpTo(q, k - 1) + i]
LastPage(q) == Len(layout[q])
Total(q) == RowsUpTo(q, LastPage(q))

TypeOK ==
  /\ layout \in [Queries -> Layouts]
  /\ ctx \in [Queries -> ContextEnd \cup {"live"}]
  /\ op \in {"none", "query", "exec", "next"}
  /\ cur \in Queries \cup {NoQuery}
  /\ pc \in {"idle", "start", "wait", "kill", "final", "newRows", "release", "result"}
  /\ (pc # "idle" => cur \in Queries) /\ (op = "none" <=> pc = "idle")
  /\ page \in [Queries -> Nat]
  /\ \A q \in Queries : page[q] <= LastPage(q)
  /\ buf \in [Queries -> Seq(Nat)]
  /\ rowsState \in [Queries -> {"none", "open", "closed"}]
  /\ err \in [Queries -> Errors \cup {"none"}]
  /\ status \in [Queries -> {"new", "streaming", "complete", "failed", "closed"}]
  /\ delivered \in [Queries -> Seq(Nat)]
  /\ asked \subseteq Queries /\ answered \subseteq Queries
  /\ nodeID \in Queries \cup {NoQuery}

Init ==
  /\ layout \in [Queries -> Layouts]
  /\ ctx = [q \in Queries |-> "live"]
  /\ op = "none" /\ cur = NoQuery /\ pc = "idle"
  /\ page = [q \in Queries |-> 0]
  /\ buf = [q \in Queries |-> <<>>]
  /\ rowsState = [q \in Queries |-> "none"]
  /\ err = [q \in Queries |-> "none"]
  /\ status = [q \in Queries |-> "new"]
  /\ delivered = [q \in Queries |-> <<>>]
  /\ asked = {} /\ answered = {}
  /\ nodeID = NoQuery

-------------------------------------------------------------------------------
(* Requests to the server.                                                 *)

\* How a request on the context of q may fail: an ended context shows as its
\* own error, or as another one when it ended during the last attempt.
FailuresOf(q) == {"other"} \cup (ContextEnd \cap {ctx[q]})

\* CloseQuery on a context of the given state: its error is ignored, and
\* nothing is sent on a dead one.  KillQuery likewise.
CloseQuery(q, cx) == asked' = IF cx = "live" THEN asked \cup {q} ELSE asked

\* ReadFinished: the response names no further page.
ReadFinished(q) == page[q] = LastPage(q)

-------------------------------------------------------------------------------
(* Driver calls.                                                           *)

\* The running call returns.
Return == pc' = "idle" /\ op' = "none" /\ UNCHANGED cur

Fails(q) == status' = [status EXCEPT ![q] = "failed"] /\ UNCHANGED delivered

\* WHO: the application calls QueryContext or ExecContext.
Call(q, o) ==
  /\ pc = "idle" /\ status[q] = "new"
  /\ Cardinality({r \in Queries : rowsState[r] = "open"}) < MaxOpen
  /\ op' = o /\ cur' = q /\ pc' = "start"
  /\ UNCHANGED <<layout, answered, ctx, dataVars, rowsState, err, resultVars, asked, nodeID>>

\* Mutant: the first node is kept.
KeepNode(q) == nodeID' = IF nodeID = NoQuery THEN q ELSE nodeID

\* finalizeQueryResponse takes over the node of a response to a statement.
TakeNode(q) == nodeID' = q

\* WHO: the driver.  The statement cannot be built, the request fails, or the
\* server answers with a query error (whose response may name a node) and keeps
\* no result.
StartFails ==
  /\ pc = "start"
  /\ \E e \in FailuresOf(cur) : err' = [err EXCEPT ![cur] = e]
  /\ TakeNode(cur) \/ UNCHANGED nodeID
  /\ Fails(cur) /\ Return
  /\ UNCHANGED <<layout, answered, ctx, dataVars, rowsState, asked>>

\* The server sends the first page of the result, which it keeps until told.
Answer(q) == ctx[q] = "live" /\ answered' = answered \cup {q}

\* WHO: the driver.  It cannot make rows of the first page (materializing JSON
\* rows, or decoding an Arrow body): query and exec return before their
\* CloseQuery is deferred, and node, session and route hint are not taken over.
StartUnreadable ==
  /\ pc = "start"
  /\ Answer(cur)
  /\ err' = [err EXCEPT ![cur] = "other"]
  /\ Fails(cur) /\ Return
  /\ UNCHANGED <<layout, ctx, dataVars, rowsState, asked, nodeID>>

\* WHO: the driver.  The server answers with the first page.
StartSucceeds ==
  /\ pc = "start"
  /\ Answer(cur)
  /\ page' = [page EXCEPT ![cur] = 1]
  /\ buf' = [buf EXCEPT ![cur] = PageRows(cur, 1)]
  /\ TakeNode(cur)
  /\ pc' = "wait"
  /\ UNCHANGED <<layout, ctx, op, cur, rowsState, err, resultVars, asked>>

\* Mutant: the loop stops at an empty page.
EnoughOnAnyPage == ReadFinished(cur) \/ (op # "exec" /\ (buf[cur] # <<>> \/ page[cur] > 1))

\* The loops stop: exec at the end of the result, waitForData at the first row
\* as well.
Enough == ReadFinished(cur) \/ (op # "exec" /\ buf[cur] # <<>>)

NeedsPage == pc = "wait" /\ ~Enough

\* WHO: the driver.  The next page arrives; exec collects the rows of all pages.
PollSucceeds ==
  /\ NeedsPage /\ ctx[cur] = "live"
  /\ page' = [page EXCEPT ![cur] = @ + 1]
  /\ buf' = [buf EXCEPT ![cur] =
               (IF op = "exec" THEN @ ELSE <<>>) \o PageRows(cur, page[cur] + 1)]
  /\ UNCHANGED <<layout, answered, ctx, callVars, rowsState, err, resultVars, asked, nodeID>>

\* Mutant: only context.Canceled ends the loop.
PollAgain(e) == IF e = "canceled" THEN "kill" ELSE "wait"

\* Mutant: other errors return at once.
LeaveAtOnce(e) == IF e = "canceled" THEN "kill" ELSE "idle"

\* What the loops do with an error: kill on context.Canceled, and otherwise
\* finalize (waitForData) or leave that to the deferred call (exec).
AfterPollError(e) ==
  IF e = "canceled" THEN "kill" ELSE IF op = "exec" THEN "release" ELSE "final"

\* WHO: the driver.  The next page does not arrive, or carries a query error.
PollFails ==
  /\ NeedsPage
  /\ \E e \in FailuresOf(cur) :
       /\ err' = [err EXCEPT ![cur] = e]
       /\ pc' = AfterPollError(e)
  /\ UNCHANGED <<layout, answered, ctx, op, cur, dataVars, rowsState, resultVars, asked, nodeID>>

\* Mutant: the loop goes on with the page it did not get.
LeaveLoopAgain == pc' = "wait" /\ UNCHANGED <<op, cur, dataVars, resultVars>>

\* The loop returns its error: Next drops its response and returns, query and
\* exec run their deferred CloseQuery first.
LeaveLoop ==
  \/ /\ op = "next"
     /\ page' = [page EXCEPT ![cur] = 0]
     /\ buf' = [buf EXCEPT ![cur] = <<>>]
     /\ Fails(cur) /\ Return
  \/ /\ op \in {"query", "exec"}
     /\ pc' = "release"
     /\ UNCHANGED <<op, cur, dataVars, resultVars>>

\* WHO: the driver requests the kill URI, on a context of its own.
Kill ==
  /\ pc = "kill"
  /\ CloseQuery(cur, "live")
  /\ LeaveLoop
  /\ UNCHANGED <<layout, answered, ctx, rowsState, err, nodeID>>

\* Mutant: waitForData leaves the query to its callers.
FinalForgotten ==
  /\ pc = "final"
  /\ LeaveLoop
  /\ UNCHANGED <<layout, answered, ctx, rowsState, err, asked, nodeID>>

\* WHO: the driver, in waitForData, requests the final URI on the caller's
\* context.
Final ==
  /\ pc = "final"
  /\ CloseQuery(cur, ctx[cur])
  /\ LeaveLoop
  /\ UNCHANGED <<layout, answered, ctx, rowsState, err, nodeID>>

\* WHO: the driver.  The loop is through; exec runs its deferred CloseQuery.
WaitEnds ==
  /\ pc = "wait" /\ Enough /\ op # "next"
  /\ pc' = IF op = "exec" THEN "release" ELSE "newRows"
  /\ UNCHANGED <<layout, answered, ctx, op, cur, dataVars, rowsState, err, resultVars, asked, nodeID>>

\* WHO: the driver.  newNextRows succeeds, or refuses the schema or time zone.
NewNextRows ==
  /\ pc = "newRows"
  /\ \/ /\ rowsState' = [rowsState EXCEPT ![cur] = "open"]
        /\ status' = [status EXCEPT ![cur] = "streaming"]
        /\ Return
        /\ UNCHANGED err
     \/ /\ err' = [err EXCEPT ![cur] = "other"]
        /\ pc' = "release"
        /\ UNCHANGED <<op, cur, rowsState, status>>
  /\ UNCHANGED <<layout, answered, ctx, dataVars, delivered, asked, nodeID>>

\* WHO: the driver runs the deferred CloseQuery of query or exec.
Release ==
  /\ pc = "release"
  /\ CloseQuery(cur, ctx[cur])
  /\ IF err[cur] = "none" THEN pc' = "result" /\ UNCHANGED <<op, cur, resultVars>>
                          ELSE Fails(cur) /\ Return
  /\ UNCHANGED <<layout, answered, ctx, dataVars, rowsState, err, nodeID>>

\* WHO: the driver returns from exec; parseAffectedRows may refuse the result.
ExecResult ==
  /\ pc = "result"
  /\ \/ /\ status' = [status EXCEPT ![cur] = "complete"]
        /\ delivered' = [delivered EXCEPT ![cur] = buf[cur]]
        /\ UNCHANGED err
     \/ Fails(cur) /\ err' = [err EXCEPT ![cur] = "other"]
  /\ Return
  /\ UNCHANGED <<layout, answered, ctx, dataVars, rowsState, asked, nodeID>>

-------------------------------------------------------------------------------
(* Rows.                                                                   *)

\* WHO: the application, or database/sql for it, calls Rows.Next; database/sql
\* does not after an error or the end.
CallNext(q) ==
  /\ pc = "idle" /\ rowsState[q] = "open" /\ status[q] = "streaming"
  /\ op' = "next" /\ cur' = q /\ pc' = "wait"
  /\ UNCHANGED <<layout, answered, ctx, dataVars, rowsState, err, resultVars, asked, nodeID>>

\* WHO: Next hands out the first row of its buffer, or fails to parse it.
DeliverRow ==
  /\ pc = "wait" /\ op = "next" /\ buf[cur] # <<>>
  /\ buf' = [buf EXCEPT ![cur] = Tail(@)]
  /\ \/ /\ delivered' = [delivered EXCEPT ![cur] = Append(@, Head(buf[cur]))]
        /\ UNCHANGED <<status, err>>
     \/ Fails(cur) /\ err' = [err EXCEPT ![cur] = "other"]
  /\ Return
  /\ UNCHANGED <<layout, answered, ctx, page, rowsState, asked, nodeID>>

\* Mutant: the context of the statement decides.
CloseOnItsContext(q) ==
  /\ rowsState' = [rowsState EXCEPT ![q] = "closed"]
  /\ IF page[q] = 0 THEN UNCHANGED <<page, buf, asked>>
     ELSE /\ CloseQuery(q, ctx[q])
          /\ page' = [page EXCEPT ![q] = 0]
          /\ buf' = [buf EXCEPT ![q] = <<>>]

\* doClose of open rows: if there still is a response, its query is finalized,
\* with the context's values but not its cancellation.
DoClose(q) ==
  /\ rowsState' = [rowsState EXCEPT ![q] = "closed"]
  /\ IF page[q] = 0 THEN UNCHANGED <<page, buf, asked>>
     ELSE /\ CloseQuery(q, "live")
          /\ page' = [page EXCEPT ![q] = 0]
          /\ buf' = [buf EXCEPT ![q] = <<>>]

\* WHO: Next finds no more rows, closes and returns io.EOF.
EndOfRows ==
  /\ pc = "wait" /\ op = "next" /\ Enough /\ buf[cur] = <<>>
  /\ DoClose(cur)
  /\ status' = [status EXCEPT ![cur] = "complete"]
  /\ Return
  /\ UNCHANGED <<layout, answered, ctx, err, delivered, nodeID>>

\* WHO: the application closes the rows, or database/sql does after an error of
\* Next or when the context of the statement ends.
CallClose(q) ==
  /\ pc = "idle" /\ rowsState[q] = "open"
  /\ DoClose(q)
  /\ status' = [status EXCEPT ![q] = IF @ = "streaming" THEN "closed" ELSE @]
  /\ UNCHANGED <<layout, answered, ctx, callVars, err, delivered, nodeID>>

\* WHO: the caller, or a timer, ends the context of a statement.
ContextEnds(q, how) ==
  /\ ctx[q] = "live"
  /\ ctx' = [ctx EXCEPT ![q] = how]
  /\ UNCHANGED <<layout, answered, callVars, dataVars, rowsState, err, resultVars, asked, nodeID>>

Driver ==
  \/ StartFails \/ StartUnreadable \/ StartSucceeds
  \/ PollSucceeds \/ PollFails \/ Kill \/ Final
  \/ WaitEnds \/ NewNextRows \/ Release \/ ExecResult
  \/ DeliverRow \/ EndOfRows

Next ==
  \/ Driver
  \/ \E q \in Queries :
       \/ \E o \in {"query", "exec"} : Call(q, o)
       \/ CallNext(q) \/ CallClose(q)
       \/ \E how \in ContextEnd : ContextEnds(q, how)

Spec == Init /\ [][Next]_vars

\* Requests end (ApiRequest), and database/sql, or the application, closes
\* every Rows in the end.
Fairness == WF_vars(Driver) /\ \A q \in Queries : WF_vars(CallClose(q))
FairSpec == Spec /\ Fairness

-------------------------------------------------------------------------------
(* Properties.                                                             *)

Results == INSTANCE ResultStream WITH total <- [q \in Queries |-> Total(q)]

\* Whatever the paging, and however calls and contexts of several statements
\* interleave: Next hands out the rows of its own statement in order, without
\* gap or repetition, io.EOF comes only after the last of them, and exec sees
\* the rows of all pages.
RefinesResultStream == Results!Spec

Finished(q) == status[q] \in {"complete", "failed", "closed"} /\ ~(pc # "idle" /\ cur = q)

\* The driver could not read the first page of the result, and has not kept its
\* URIs: nothing can release this query any more.
Unread(q) ==
  q \in answered /\ status[q] = "failed" /\ err[q] = "other"
  /\ page[q] = 0 /\ rowsState[q] = "none"

\* A result that is over has been killed or finalized at the server.  The
\* exceptions: the Close of the Rows is still to come; the first page could not
\* be read; or the driver tried on the statement's own context and that one had
\* ended, which never happens to a statement that failed with context.Canceled
\* or was closed, or to rows that were read to their end.
ReleaseAsked ==
  \A q \in Queries :
    Finished(q) /\ q \in answered /\ q \notin asked =>
      \/ rowsState[q] = "open" /\ page[q] > 0
      \/ Unread(q)
      \/ /\ ctx[q] # "live" /\ err[q] # "canceled"
         /\ status[q] = "failed" \/ (status[q] = "complete" /\ rowsState[q] = "none")

\* No page is requested of a query after it was killed or finalized.
PollsBeforeRelease == NeedsPage => cur \notin asked

\* Every driver call returns.
CallsReturn == \A q \in Queries : (pc # "idle" /\ cur = q) ~> (pc = "idle")

\* A statement whose context stays alive is killed or finalized in the end,
\* once the server has answered it and whatever fails then, unless its first
\* page could not be read.
StatementsAreReleased ==
  \A q \in Queries : q \in answered ~> (q \in asked \/ Unread(q) \/ ctx[q] # "live")

-------------------------------------------------------------------------------
(* What a comment says of the code, and the code does not do.               *)

\* rows.go and client.go: "context might be canceled due to timeout or
\* canceled. if it's canceled, we need call the kill url to tell the backend
\* it's killed."  A page request that fails because the context ended leads to
\* a request of the kill (or at least the final) URI.
EndedContextKillsQuery ==
  \A q \in Queries : Finished(q) /\ q \in answered /\ err[q] \in ContextEnd => q \in asked
===============================================================================
