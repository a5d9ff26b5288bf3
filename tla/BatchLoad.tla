------------------------------- MODULE BatchLoad -------------------------------
(***************************************************************************)
(* Batch loading: LakeConn.ExecBatch (connection.go) and httpBatch         *)
(* (batch.go) write the rows to a temporary CSV file, upload it to a stage *)
(* of the server (client.go) and insert from there.  Several batches load  *)
(* at the same time, each on a connection of its own; they share the       *)
(* directory of temporary files and the stage.                             *)
(*                                                                         *)
(* The server is external: it stores an uploaded file, runs an INSERT once *)
(* for each query ID, and takes the staged file away when it has inserted  *)
(* it (copy option "purge").                                               *)
(***************************************************************************)
EXTENDS Naturals, Sequences, Functions

CONSTANTS Batches,  \* calls of ExecBatch
          MaxRows   \* bound: rows of each batch

ASSUME ConstantsAssumption == MaxRows \in [Batches -> Nat]

VARIABLES
  presigned,  \* "yes" or "no" (PresignedURLDisabled); never changes
  idFrom,     \* does the caller's context bring a query ID: "user" or "session"
  size,       \* rows of each batch
  ctx,        \* each caller's context
  pc,         \* where each call is
  row,        \* the row it appends next
  result,     \* what it returns
  failed,     \* what went wrong on the way
  torn,       \* rows whose Flush failed
  files,      \* temporary files: name to lines
  stage,      \* files in the stage, likewise
  stmt,       \* the INSERT of each batch at the server
  known,      \* query IDs the server has seen
  loaded      \* the lines each finished INSERT put into the table

configuration == <<presigned, idFrom, size>>
calls == <<pc, row, result, failed>>
server == <<stage, stmt, known, loaded>>
vars == <<configuration, ctx, calls, torn, files, server>>

\* Mutant: temporary files are named after the time.
NamedByTime(b) == "now"

\* The name of the temporary file, and the last part of the stage path:
\* a new UUID for each batch.
FileName(b) == b

FileNames == {FileName(b) : b \in Batches}

\* What AppendToFile left in the file for a row: a line of its own, a line glued
\* to the part before it, a part without its end, or no bytes at all.
Lines == [batch : Batches, row : Nat, text : {"whole", "glued", "part", "none"}]
Line(b, i, text) == [batch |-> b, row |-> i, text |-> text]
Nothing == [n \in {} |-> <<>>]

\* A file system, or a table, with new content under a name.
Write(store, name, lines) ==
  [n \in DOMAIN store \cup {name} |-> IF n = name THEN lines ELSE store[n]]
Remove(store, name) == Restrict(store, DOMAIN store \ {name})

\* Mutant: the upload runs on the caller's context.
UploadOnCallersContext(b) == IF idFrom[b] = "user" THEN <<"user", b>> ELSE <<"fresh", b>>

\* The query ID of PRESIGN: UploadToStage gets a background context, and
\* checkQueryID puts a new ID into it.
PresignID(b) == <<"fresh", b>>

\* The query ID of the INSERT: that of the caller's context, or GetQueryID.
InsertID(b) == <<idFrom[b], b>>

TypeOK ==
  /\ presigned \in {"yes", "no"}
  /\ idFrom \in [Batches -> {"user", "session"}]
  /\ size \in [Batches -> Nat] /\ \A b \in Batches : size[b] <= MaxRows[b]
  /\ ctx \in [Batches -> {"live", "ended"}]
  /\ pc \in [Batches -> {"new", "append", "presign", "put", "insert", "poll",
                         "remove", "done"}]
  /\ row \in [Batches -> Nat] /\ \A b \in Batches : row[b] \in 1..(size[b] + 1)
  /\ result \in [Batches -> {"none", "ok", "error"}]
  /\ \A b \in Batches : result[b] # "none" <=> pc[b] \in {"remove", "done"}
  /\ failed \in [Batches -> SUBSET {"append", "remove"}]
  /\ torn \subseteq Batches \X Nat
  /\ DOMAIN files \subseteq FileNames /\ files \in [DOMAIN files -> Seq(Lines)]
  /\ DOMAIN stage \subseteq FileNames /\ stage \in [DOMAIN stage -> Seq(Lines)]
  /\ stmt \in [Batches -> {"none", "running", "finished", "failed"}]
  /\ known \subseteq {"user", "session", "fresh"} \X Batches
  /\ DOMAIN loaded \subseteq Batches /\ loaded \in [DOMAIN loaded -> Seq(Lines)]

Init ==
  /\ presigned \in {"yes", "no"}
  /\ idFrom \in [Batches -> {"user", "session"}]
  /\ size \in {n \in [Batches -> UNION {0..MaxRows[b] : b \in Batches}] :
                \A b \in Batches : n[b] <= MaxRows[b]}
  /\ ctx = [b \in Batches |-> "live"]
  /\ pc = [b \in Batches |-> "new"]
  /\ row = [b \in Batches |-> 1]
  /\ result = [b \in Batches |-> "none"]
  /\ failed = [b \in Batches |-> {}]
  /\ torn = {}
  /\ files = Nothing /\ stage = Nothing
  /\ stmt = [b \in Batches |-> "none"]
  /\ known = {}
  /\ loaded = Nothing

-------------------------------------------------------------------------------
(* The driver.                                                             *)

GoTo(b, place) == pc' = [pc EXCEPT ![b] = place] /\ UNCHANGED result

\* The call is decided; "place" is where it goes on.
Conclude(b, r, place) ==
  /\ result' = [result EXCEPT ![b] = r]
  /\ pc' = [pc EXCEPT ![b] = place]

\* os.OpenFile with O_CREATE and O_APPEND.
Content(n) == IF n \in DOMAIN files THEN files[n] ELSE <<>>

\* prepareBatch: the statement must be an INSERT or REPLACE, and the file is
\* created.
PrepareBatch(b) ==
  /\ pc[b] = "new"
  /\ \/ Conclude(b, "error", "done") /\ UNCHANGED files
     \/ /\ files' = Write(files, FileName(b), Content(FileName(b)))
        /\ GoTo(b, "append")
  /\ UNCHANGED <<configuration, ctx, row, failed, torn, server>>

\* Mutant: one row too many.
AppendPastEnd(b) ==
  /\ pc[b] = "append" /\ row[b] <= size[b] + 1
  /\ row' = [row EXCEPT ![b] = @ + 1]
  /\ UNCHANGED <<configuration, ctx, pc, result, failed, torn, files, server>>

\* The file does not end with the end of a line.
Unfinished(lines) ==
  \E j \in 1..Len(lines) :
    lines[j].text = "part" /\ \A k \in (j + 1)..Len(lines) : lines[k].text = "none"

\* What a Flush may add to the file; it fails unless it writes the whole row.
Flushes(lines) == {"part", "none", IF Unfinished(lines) THEN "glued" ELSE "whole"}

\* AppendToFile for one row, when all went well or only Flush failed, whose
\* error nobody asks for.  O_APPEND puts the row behind whatever is there.
AppendRow(b) ==
  /\ pc[b] = "append" /\ row[b] <= size[b]
  /\ \E text \in Flushes(Content(FileName(b))) :
       /\ files' = Write(files, FileName(b),
                         Append(Content(FileName(b)), Line(b, row[b], text)))
       /\ torn' = IF text \in {"part", "none"} THEN torn \cup {<<b, row[b]>>} ELSE torn
  /\ row' = [row EXCEPT ![b] = @ + 1]
  /\ UNCHANGED <<configuration, ctx, pc, result, failed, server>>

\* AppendToFile cannot open the file, encode a value or write the line.
\* ExecBatch returns at once: BatchInsert, which removes the file, never runs.
AppendFails(b) ==
  /\ pc[b] = "append" /\ row[b] <= size[b]
  /\ Conclude(b, "error", "done")
  /\ failed' = [failed EXCEPT ![b] = @ \cup {"append"}]
  /\ UNCHANGED <<configuration, ctx, row, torn, files, server>>

\* UploadToStage, up to the open file.
OpenFile(b) ==
  /\ pc[b] = "append" /\ row[b] > size[b]
  /\ \/ Conclude(b, "error", "remove")
     \/ /\ FileName(b) \in DOMAIN files
        /\ GoTo(b, IF presigned = "yes" THEN "presign" ELSE "put")
  /\ UNCHANGED <<configuration, ctx, row, failed, torn, files, server>>

\* GetPresignedURL and validatePresignURL.  An error may hide that the server
\* saw the statement.
Presign(b) ==
  /\ pc[b] = "presign"
  /\ \/ Conclude(b, "error", "remove") /\ known' \in {known, known \cup {PresignID(b)}}
     \/ GoTo(b, "put") /\ known' = known \cup {PresignID(b)}
  /\ UNCHANGED <<configuration, ctx, row, failed, torn, files, stage, stmt, loaded>>

\* Mutant: an error of the upload leaves the temporary file.
PutLeavesFile(b) ==
  /\ pc[b] = "put"
  /\ \/ Conclude(b, "error", "done") /\ UNCHANGED stage
     \/ /\ stage' = Write(stage, FileName(b), Content(FileName(b)))
        /\ GoTo(b, "insert")
  /\ UNCHANGED <<configuration, ctx, row, failed, torn, files, stmt, known, loaded>>

\* The PUT of UploadToStageByAPI or UploadToStageByPresignURL, tried once.
Put(b) ==
  /\ pc[b] = "put"
  /\ \/ Conclude(b, "error", "remove") /\ UNCHANGED stage
     \/ /\ stage' = Write(stage, FileName(b), Content(FileName(b)))
        /\ Conclude(b, "error", "remove") \/ GoTo(b, "insert")
  /\ UNCHANGED <<configuration, ctx, row, failed, torn, files, stmt, known, loaded>>

\* InsertWithStage up to the first answer, on the caller's context.  A query
\* ID the server knows gets the first answer again.  An error may come from the
\* context, from the server, or hide that the server took the statement.
InsertWithStage(b) ==
  /\ pc[b] = "insert"
  /\ \/ Conclude(b, "error", "remove") /\ UNCHANGED <<stmt, known>>
     \/ /\ ctx[b] = "live"
        /\ known' = known \cup {InsertID(b)}
        /\ stmt' = [stmt EXCEPT ![b] = IF InsertID(b) \in known THEN "finished" ELSE "running"]
        /\ Conclude(b, "error", "remove") \/ GoTo(b, "poll")
  /\ UNCHANGED <<configuration, ctx, row, failed, torn, files, stage, loaded>>

\* PollUntilQueryEnd reaches the last page, which may be the first answer; then
\* it does not matter whether the context has ended since.
PollFinished(b) ==
  /\ pc[b] = "poll" /\ stmt[b] = "finished"
  /\ Conclude(b, "ok", "remove")
  /\ UNCHANGED <<configuration, ctx, row, failed, torn, files, server>>

\* Mutant: the error of a page does not end the polling.
PollsForever(b) ==
  /\ pc[b] = "poll" /\ ctx[b] = "ended"
  /\ Conclude(b, "error", "remove")
  /\ UNCHANGED <<configuration, ctx, row, failed, torn, files, server>>

\* PollUntilQueryEnd ends with the error of a page or of the context.
PollEnds(b) ==
  /\ pc[b] = "poll" /\ (stmt[b] = "failed" \/ ctx[b] = "ended")
  /\ Conclude(b, "error", "remove")
  /\ UNCHANGED <<configuration, ctx, row, failed, torn, files, server>>

\* A page request fails for good.
PollBreaks(b) ==
  /\ pc[b] = "poll"
  /\ Conclude(b, "error", "remove")
  /\ UNCHANGED <<configuration, ctx, row, failed, torn, files, server>>

\* The deferred function of BatchInsert.  os.RemoveAll may fail, which is
\* logged only.
RemoveFile(b) ==
  /\ pc[b] = "remove"
  /\ pc' = [pc EXCEPT ![b] = "done"]
  /\ \/ files' = Remove(files, FileName(b)) /\ UNCHANGED failed
     \/ failed' = [failed EXCEPT ![b] = @ \cup {"remove"}] /\ UNCHANGED files
  /\ UNCHANGED <<configuration, ctx, row, result, torn, server>>

-------------------------------------------------------------------------------
(* The environment.                                                        *)

\* The caller gives up, or a deadline passes.
ContextEnds(b) ==
  /\ ctx[b] = "live" /\ pc[b] # "done"
  /\ ctx' = [ctx EXCEPT ![b] = "ended"]
  /\ UNCHANGED <<configuration, calls, torn, files, server>>

\* The server runs the INSERT, possibly after the driver gave up.
ServerInserts(b) ==
  /\ stmt[b] = "running" /\ FileName(b) \in DOMAIN stage
  /\ stmt' = [stmt EXCEPT ![b] = "finished"]
  /\ loaded' = Write(loaded, b, stage[FileName(b)])
  /\ stage' = Remove(stage, FileName(b))
  /\ UNCHANGED <<configuration, ctx, calls, torn, files, known>>

\* The INSERT fails, by itself or because of KillQuery or CloseQuery.
ServerFails(b) ==
  /\ stmt[b] = "running"
  /\ stmt' = [stmt EXCEPT ![b] = "failed"]
  /\ UNCHANGED <<configuration, ctx, calls, torn, files, stage, known, loaded>>

Driver(b) == PrepareBatch(b) \/ AppendRow(b) \/ AppendFails(b) \/ OpenFile(b)
             \/ Presign(b) \/ Put(b) \/ InsertWithStage(b) \/ PollFinished(b)
             \/ PollEnds(b) \/ RemoveFile(b)
Server(b) == ServerInserts(b) \/ ServerFails(b)

Next == \E b \in Batches : Driver(b) \/ PollBreaks(b) \/ ContextEnds(b) \/ Server(b)

Spec == Init /\ [][Next]_vars

\* Requests end (CallsReturn of ApiRequest), and the server ends an INSERT one
\* way or the other.
Fairness == \A b \in Batches : WF_vars(Driver(b)) /\ WF_vars(Server(b))
FairSpec == Spec /\ Fairness

-------------------------------------------------------------------------------
(* Properties.                                                             *)

\* Line i of a batch is its row i, and damaged only if the Flush of that row
\* failed, or if the one before did and left a part of a line.
IsRow(line, b, i) ==
  /\ line.batch = b /\ line.row = i
  /\ line.text \in {"part", "none"} <=> <<b, i>> \in torn
  /\ line.text = "glued" => <<b, i - 1>> \in torn

\* A call of ExecBatch that returns nil has inserted: the server did not take
\* its INSERT for a retry of the PRESIGN, nor another upload for its own.
SuccessMeansInserted ==
  \A b \in Batches : pc[b] = "done" /\ result[b] = "ok" => b \in DOMAIN loaded

\* Whatever reaches the table, even after an error was returned, is one whole
\* batch: its own rows, in order and once each, and none is missing or damaged
\* but those whose Flush failed and those right behind one whose Flush failed.
WholeBatches ==
  \A b \in DOMAIN loaded :
    Len(loaded[b]) = size[b] /\ \A i \in 1..size[b] : IsRow(loaded[b][i], b, i)

\* Temporary files do not pile up: a call leaves one only if appending a row or
\* removing the file failed.
FilesAreRemoved ==
  \A b \in Batches : pc[b] = "done" /\ FileName(b) \in DOMAIN files => failed[b] # {}

\* What RowsAffected reports, len(rows) of ExecBatch, is what was inserted.
\* The code ignores a failed Flush, so this does not hold.
RowsAffectedIsTrue ==
  \A b \in DOMAIN loaded : pc[b] = "done" /\ result[b] = "ok" =>
    loaded[b] = [i \in 1..size[b] |-> Line(b, i, "whole")]

\* Every call returns.
BatchesReturn == \A b \in Batches : <>(pc[b] = "done")
===============================================================================
