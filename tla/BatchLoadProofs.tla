----------------------------- MODULE BatchLoadProofs ----------------------------
(***************************************************************************)
(* BatchLoad for any number of batches of any size: success means          *)
(* inserted, what is inserted is one whole batch, and temporary files are  *)
(* removed.                                                                *)
(***************************************************************************)
EXTENDS BatchLoad, SequenceTheorems, TLAPS

Places == {"new", "append", "presign", "put", "insert", "poll", "remove", "done"}

\* Rows are torn as they are appended.
TornBefore == \A lost \in torn : lost[2] < row[lost[1]]

\* IsRow for any set of rows whose Flush failed.
RowIs(line, b, i, lost) ==
  /\ line.batch = b /\ line.row = i
  /\ line.text \in {"part", "none"} <=> <<b, i>> \in lost
  /\ line.text = "glued" => <<b, i - 1>> \in lost

\* Lines are the first rows of batch b, damaged as the lost ones tell.
RowsFrom(lines, b, lost) ==
  /\ lines \in Seq(Lines)
  /\ \A i \in 1..Len(lines) : RowIs(lines[i], b, i, lost)

FilesFit == \A b \in DOMAIN files : RowsFrom(files[b], b, torn) /\ Len(files[b]) + 1 = row[b]

\* The stage, and what was inserted from it, hold complete batches.
StageFits ==
  \A b \in DOMAIN stage :
    row[b] = size[b] + 1 /\ RowsFrom(stage[b], b, torn) /\ Len(stage[b]) = size[b]

LoadedFits ==
  \A b \in DOMAIN loaded :
    row[b] = size[b] + 1 /\ RowsFrom(loaded[b], b, torn) /\ Len(loaded[b]) = size[b]

\* What a call relies on.  Its file is there from PrepareBatch on until it is
\* removed, and complete when it is opened for the upload.  The server knows the
\* query ID of its INSERT only once it was sent, so no INSERT is finished that
\* did not insert.
CallFits(b) ==
  /\ pc[b] = "new" => row[b] = 1 /\ b \notin DOMAIN files
  /\ pc[b] \in {"append", "presign", "put", "insert", "poll"} => b \in DOMAIN files
  /\ pc[b] \in {"presign", "put", "insert", "poll"} => row[b] = size[b] + 1
  /\ pc[b] = "done" /\ b \in DOMAIN files => failed[b] # {}
  /\ InsertID(b) \in known => pc[b] \in {"poll", "remove", "done"}
  /\ stmt[b] = "finished" \/ result[b] = "ok" => b \in DOMAIN loaded

CallsFit == \A b \in Batches : CallFits(b)

\* The inductive invariant.
BatchInvariant == TornBefore /\ FilesFit /\ StageFits /\ LoadedFits /\ CallsFit

-------------------------------------------------------------------------------
(* Stores, and steps of a call.                                            *)

\* A store keeps its lines under the names of batches.
IsStore(store) == DOMAIN store \subseteq Batches /\ store \in [DOMAIN store -> Seq(Lines)]

\* Two stores differ in the lines under a name only.
Written(store, new, b, lines) ==
  /\ DOMAIN new = DOMAIN store \cup {b} /\ new[b] = lines
  /\ \A n \in DOMAIN store : n # b => new[n] = store[n]

LEMMA WriteFacts ==
  ASSUME NEW store, IsStore(store), NEW b \in Batches, NEW lines \in Seq(Lines),
         NEW new, new = Write(store, b, lines)
  PROVE  IsStore(new) /\ Written(store, new, b, lines)
BY DEF Write, IsStore, Written

Removed(store, new, b) ==
  DOMAIN new = DOMAIN store \ {b} /\ \A n \in DOMAIN new : new[n] = store[n]

LEMMA RemoveFacts ==
  ASSUME NEW store, IsStore(store), NEW b, NEW new, new = Remove(store, b)
  PROVE  IsStore(new) /\ Removed(store, new, b)
BY DEF Remove, Restrict, IsStore, Removed

\* The part of the types a step of the call itself changes.
PlaceOK ==
  /\ pc \in [Batches -> Places] /\ result \in [Batches -> {"none", "ok", "error"}]
  /\ \A b \in Batches : result[b] # "none" <=> pc[b] \in {"remove", "done"}

LEMMA GoToFacts ==
  ASSUME PlaceOK, NEW b \in Batches, NEW place \in Places \ {"remove", "done"},
         pc[b] \notin {"remove", "done"}, GoTo(b, place)
  PROVE  /\ PlaceOK' /\ pc'[b] = place /\ result' = result
         /\ \A c \in Batches : c # b => pc'[c] = pc[c]
BY DEF PlaceOK, GoTo, Places

LEMMA ConcludeFacts ==
  ASSUME PlaceOK, NEW b \in Batches, NEW place \in {"remove", "done"}, NEW r \in {"ok", "error"},
         Conclude(b, r, place)
  PROVE  /\ PlaceOK' /\ pc'[b] = place /\ result'[b] = r
         /\ \A c \in Batches : c # b => pc'[c] = pc[c] /\ result'[c] = result[c]
BY DEF PlaceOK, Conclude, Places

LEMMA TypeFacts ==
  ASSUME TypeOK
  PROVE  /\ PlaceOK
         /\ size \in [Batches -> Nat] /\ row \in [Batches -> Nat]
         /\ \A b \in Batches : row[b] \in Nat /\ size[b] \in Nat /\ row[b] \in 1..(size[b] + 1)
         /\ IsStore(files) /\ IsStore(stage) /\ IsStore(loaded)
<1>1. IsStore(files) /\ IsStore(stage) /\ IsStore(loaded)
  BY DEF TypeOK, IsStore, FileNames, FileName
<1>2. QED
  BY <1>1 DEF TypeOK, PlaceOK, Places

LEMMA StoresAreTyped ==
  ASSUME NEW store, IsStore(store)
  PROVE  DOMAIN store \subseteq FileNames /\ store \in [DOMAIN store -> Seq(Lines)]
BY DEF IsStore, FileNames, FileName

LEMMA ContentFacts ==
  ASSUME TypeOK, BatchInvariant, NEW b \in Batches
  PROVE  /\ Content(FileName(b)) \in Seq(Lines)
         /\ pc[b] = "new" => Content(FileName(b)) = <<>>
         /\ b \in DOMAIN files => Content(FileName(b)) = files[b]
<1>1. <<>> \in Seq(Lines)
  BY EmptySeq
<1>2. QED
  BY <1>1, TypeFacts DEF Content, FileName, BatchInvariant, CallsFit, CallFits, IsStore

\* Only a failed Flush leaves a file without the end of a line.
LEMMA UnfinishedFacts ==
  ASSUME NEW b, NEW lost, NEW lines, RowsFrom(lines, b, lost), Unfinished(lines)
  PROVE  <<b, Len(lines)>> \in lost
<1>1. PICK j \in 1..Len(lines) :
        lines[j].text = "part" /\ \A k \in (j + 1)..Len(lines) : lines[k].text = "none"
  BY DEF Unfinished
<1>2. Len(lines) \in Nat /\ Len(lines) \in 1..Len(lines)
  BY <1>1, LenProperties DEF RowsFrom
<1>3. lines[Len(lines)].text \in {"part", "none"}
  BY <1>1, <1>2
<1>4. QED
  BY <1>2, <1>3 DEF RowsFrom, RowIs

-------------------------------------------------------------------------------
(* Types.                                                                  *)

LEMMA InitTypeOK == Init => TypeOK
<1> SUFFICES ASSUME Init PROVE TypeOK
  OBVIOUS
<1>1. \A b \in Batches : MaxRows[b] \in Nat
  BY ConstantsAssumption
<1>2. size \in [Batches -> Nat] /\ \A b \in Batches : size[b] \in Nat /\ size[b] <= MaxRows[b]
  BY <1>1 DEF Init
<1>3. \A b \in Batches : row[b] \in Nat /\ row[b] \in 1..(size[b] + 1)
  BY <1>2 DEF Init
<1>4. /\ DOMAIN Nothing = {} /\ Nothing \in [DOMAIN Nothing -> Seq(Lines)]
  BY DEF Nothing
<1>5. QED
  BY <1>2, <1>3, <1>4 DEF Init, TypeOK

LEMMA DriverTypeOK ==
  ASSUME TypeOK, BatchInvariant, NEW b \in Batches, Driver(b) \/ PollBreaks(b)
  PROVE  TypeOK'
<1>1. /\ PlaceOK /\ size \in [Batches -> Nat] /\ row \in [Batches -> Nat]
      /\ row[b] \in Nat /\ size[b] \in Nat /\ row[b] \in 1..(size[b] + 1)
      /\ IsStore(files) /\ IsStore(stage)
  BY TypeFacts
<1>2. FileName(b) = b /\ Content(b) \in Seq(Lines)
  BY ContentFacts DEF FileName
<1>3. ASSUME PlaceOK', UNCHANGED <<configuration, ctx, row, failed, torn, server>>,
             IsStore(files')
      PROVE  TypeOK'
  BY <1>3, StoresAreTyped DEF TypeOK, PlaceOK, Places, configuration, server
<1>4. ASSUME PrepareBatch(b) PROVE TypeOK'
  <2>1. /\ pc[b] = "new" /\ UNCHANGED <<configuration, ctx, row, failed, torn, server>>
        /\ \/ Conclude(b, "error", "done") /\ UNCHANGED files
           \/ files' = Write(files, b, Content(b)) /\ GoTo(b, "append")
    BY <1>2, <1>4 DEF PrepareBatch
  <2>2. PlaceOK'
    BY <1>1, <2>1, GoToFacts, ConcludeFacts DEF Places
  <2>3. IsStore(files')
    BY <1>1, <1>2, <2>1, WriteFacts
  <2>4. QED
    BY <1>3, <2>1, <2>2, <2>3
<1>5. ASSUME AppendRow(b) PROVE TypeOK'
  <2>1. PICK text \in {"whole", "glued", "part", "none"} :
          /\ pc[b] = "append" /\ row[b] <= size[b]
          /\ files' = Write(files, b, Append(Content(b), Line(b, row[b], text)))
          /\ torn' = IF text \in {"part", "none"} THEN torn \cup {<<b, row[b]>>} ELSE torn
          /\ row' = [row EXCEPT ![b] = row[b] + 1]
          /\ UNCHANGED <<configuration, ctx, pc, result, failed, server>>
    BY <1>2, <1>5 DEF AppendRow, Flushes
  <2>2. Line(b, row[b], text) \in Lines
    BY <1>1 DEF Line, Lines
  <2>3. Append(Content(b), Line(b, row[b], text)) \in Seq(Lines)
    BY <1>2, <2>2, AppendProperties
  <2>4. IsStore(files')
    BY <1>1, <1>2, <2>1, <2>3, WriteFacts
  <2>5. torn' \subseteq Batches \X Nat
    BY <1>1, <2>1 DEF TypeOK
  <2>6. row' \in [Batches -> Nat] /\ \A c \in Batches : row'[c] \in 1..(size[c] + 1)
    <3>1. row[b] + 1 \in Nat /\ row[b] + 1 \in 1..(size[b] + 1)
      BY <1>1, <2>1
    <3>2. QED
      BY <1>1, <2>1, <3>1, TypeFacts
  <2>7. QED
    BY <2>1, <2>4, <2>5, <2>6, StoresAreTyped DEF TypeOK, configuration, server
<1>6. ASSUME AppendFails(b) PROVE TypeOK'
  <2>1. PlaceOK'
    BY <1>1, <1>6, ConcludeFacts DEF AppendFails
  <2>2. failed' \in [Batches -> SUBSET {"append", "remove"}]
    BY <1>6 DEF AppendFails, TypeOK
  <2>3. QED
    BY <1>6, <2>1, <2>2 DEF AppendFails, TypeOK, PlaceOK, Places, configuration, server
<1>7. ASSUME OpenFile(b) PROVE TypeOK'
  <2>1. PlaceOK'
    BY <1>1, <1>7, GoToFacts, ConcludeFacts DEF OpenFile, Places
  <2>2. UNCHANGED <<configuration, ctx, row, failed, torn, files, server>>
    BY <1>7 DEF OpenFile
  <2>3. QED
    BY <1>1, <1>3, <2>1, <2>2
<1>8. ASSUME Presign(b) PROVE TypeOK'
  <2>1. PlaceOK'
    BY <1>1, <1>8, GoToFacts, ConcludeFacts DEF Presign, Places
  <2>2. known' \subseteq {"user", "session", "fresh"} \X Batches
    BY <1>8 DEF Presign, PresignID, TypeOK
  <2>3. QED
    BY <1>8, <2>1, <2>2 DEF Presign, TypeOK, PlaceOK, Places, configuration
<1>9. ASSUME Put(b) PROVE TypeOK'
  <2>1. PlaceOK'
    BY <1>1, <1>9, GoToFacts, ConcludeFacts DEF Put, Places
  <2>2. IsStore(stage')
    <3>1. stage' = stage \/ stage' = Write(stage, b, Content(b))
      BY <1>2, <1>9 DEF Put
    <3>2. QED
      BY <1>1, <1>2, <3>1, WriteFacts
  <2>3. QED
    BY <1>9, <2>1, <2>2, StoresAreTyped DEF Put, TypeOK, PlaceOK, Places, configuration
<1>10. ASSUME InsertWithStage(b) PROVE TypeOK'
  <2>1. PlaceOK'
    BY <1>1, <1>10, GoToFacts, ConcludeFacts DEF InsertWithStage, Places
  <2>2. known' \subseteq {"user", "session", "fresh"} \X Batches
    <3>1. idFrom \in [Batches -> {"user", "session"}] /\ known \subseteq {"user", "session", "fresh"} \X Batches
      BY DEF TypeOK
    <3>2. InsertID(b) \in {"user", "session", "fresh"} \X Batches
      BY <3>1 DEF InsertID
    <3>3. known' = known \/ known' = known \cup {InsertID(b)}
      BY <1>10 DEF InsertWithStage
    <3>4. QED
      BY <3>1, <3>2, <3>3
  <2>3. stmt' \in [Batches -> {"none", "running", "finished", "failed"}]
    <3>1. stmt \in [Batches -> {"none", "running", "finished", "failed"}]
      BY DEF TypeOK
    <3>2. \/ stmt' = stmt
          \/ \E s \in {"running", "finished"} : stmt' = [stmt EXCEPT ![b] = s]
      BY <1>10 DEF InsertWithStage
    <3>3. QED
      BY <3>1, <3>2
  <2>4. QED
    BY <1>10, <2>1, <2>2, <2>3 DEF InsertWithStage, TypeOK, PlaceOK, Places, configuration
<1>11. ASSUME PollFinished(b) \/ PollEnds(b) \/ PollBreaks(b) PROVE TypeOK'
  <2>1. PlaceOK'
    BY <1>1, <1>11, ConcludeFacts DEF PollFinished, PollEnds, PollBreaks
  <2>2. UNCHANGED <<configuration, ctx, row, failed, torn, files, server>>
    BY <1>11 DEF PollFinished, PollEnds, PollBreaks
  <2>3. QED
    BY <1>1, <1>3, <2>1, <2>2
<1>12. ASSUME RemoveFile(b) PROVE TypeOK'
  <2>1. PlaceOK'
    BY <1>1, <1>12 DEF RemoveFile, PlaceOK, Places
  <2>2. IsStore(files')
    <3>1. files' = files \/ files' = Remove(files, b)
      BY <1>2, <1>12 DEF RemoveFile
    <3>2. QED
      BY <1>1, <3>1, RemoveFacts
  <2>3. failed' \in [Batches -> SUBSET {"append", "remove"}]
    <3>1. failed \in [Batches -> SUBSET {"append", "remove"}]
      BY DEF TypeOK
    <3>2. failed' = failed \/ failed' = [failed EXCEPT ![b] = failed[b] \cup {"remove"}]
      BY <1>12 DEF RemoveFile
    <3>3. QED
      BY <3>1, <3>2
  <2>4. QED
    BY <1>12, <2>1, <2>2, <2>3, StoresAreTyped DEF RemoveFile, TypeOK, PlaceOK, Places, configuration, server
<1>13. QED
  BY <1>4, <1>5, <1>6, <1>7, <1>8, <1>9, <1>10, <1>11, <1>12 DEF Driver

LEMMA OtherTypeOK ==
  ASSUME TypeOK, NEW b \in Batches, ContextEnds(b) \/ Server(b)
  PROVE  TypeOK'
<1>1. ASSUME ContextEnds(b) PROVE TypeOK'
  BY <1>1 DEF ContextEnds, TypeOK, configuration, calls, server
<1>2. ASSUME ServerFails(b) PROVE TypeOK'
  BY <1>2 DEF ServerFails, TypeOK, configuration, calls
<1>3. ASSUME ServerInserts(b) PROVE TypeOK'
  <2>1. /\ b \in DOMAIN stage /\ loaded' = Write(loaded, b, stage[b])
        /\ stage' = Remove(stage, b) /\ stmt' = [stmt EXCEPT ![b] = "finished"]
        /\ UNCHANGED <<configuration, ctx, calls, torn, files, known>>
    BY <1>3 DEF ServerInserts, FileName
  <2>2. IsStore(stage) /\ IsStore(loaded)
    BY TypeFacts
  <2>3. stage[b] \in Seq(Lines)
    BY <2>1, <2>2 DEF IsStore
  <2>4. IsStore(stage')
    BY <2>1, <2>2, RemoveFacts
  <2>5. IsStore(loaded')
    BY <2>1, <2>2, <2>3, WriteFacts
  <2>6. DOMAIN loaded' \subseteq Batches /\ loaded' \in [DOMAIN loaded' -> Seq(Lines)]
    BY <2>5 DEF IsStore
  <2>7. QED
    BY <2>1, <2>4, <2>6, StoresAreTyped DEF TypeOK, configuration, calls
<1>4. QED
  BY <1>1, <1>2, <1>3 DEF Server
-------------------------------------------------------------------------------
(* Steps that leave the rows, or the calls but one, alone.                 *)

LEMMA RowsStay ==
  ASSUME BatchInvariant, row' = row, torn' = torn, size' = size
  PROVE  /\ TornBefore'
         /\ files' = files => FilesFit'
         /\ stage' = stage => StageFits'
         /\ loaded' = loaded => LoadedFits'
BY DEF BatchInvariant, TornBefore, FilesFit, StageFits, LoadedFits

\* Nothing happens to call c.
Unmoved(c) ==
  /\ pc'[c] = pc[c] /\ row'[c] = row[c] /\ size'[c] = size[c] /\ result'[c] = result[c]
  /\ failed'[c] = failed[c] /\ idFrom'[c] = idFrom[c] /\ stmt'[c] = stmt[c]
  /\ c \in DOMAIN files' <=> c \in DOMAIN files
  /\ c \in DOMAIN loaded => c \in DOMAIN loaded'
  /\ InsertID(c) \in known' => InsertID(c) \in known

LEMMA UnmovedCallsFit ==
  ASSUME NEW b \in Batches, CallsFit, \A c \in Batches \ {b} : Unmoved(c), CallFits(b)'
  PROVE  CallsFit'
<1>1. ASSUME NEW c \in Batches, c # b
      PROVE  CallFits(c)'
  <2>1. CallFits(c) /\ Unmoved(c)
    BY <1>1 DEF CallsFit
  <2>2. QED
    BY <2>1 DEF CallFits, Unmoved, InsertID
<1>2. QED
  BY <1>1 DEF CallsFit

LEMMA PrepareBatchFits ==
  ASSUME TypeOK, BatchInvariant, NEW b \in Batches, PrepareBatch(b)
  PROVE  BatchInvariant'
<1>1. /\ PlaceOK /\ IsStore(files) /\ FileName(b) = b /\ row[b] \in Nat
  BY TypeFacts DEF FileName
<1>2. /\ pc[b] = "new" /\ UNCHANGED <<configuration, ctx, row, failed, torn, server>>
      /\ \/ Conclude(b, "error", "done") /\ UNCHANGED files
         \/ files' = Write(files, b, Content(b)) /\ GoTo(b, "append")
  BY <1>1 DEF PrepareBatch
<1>3. CallFits(b) /\ row[b] = 1 /\ b \notin DOMAIN files
  BY <1>2 DEF BatchInvariant, CallsFit, CallFits
<1>4. Content(b) = <<>> /\ <<>> \in Seq(Lines)
  BY <1>1, <1>2, ContentFacts
<1>5. TornBefore' /\ StageFits' /\ LoadedFits' /\ (files' = files => FilesFit')
  BY <1>2, RowsStay DEF configuration, server
<1>6. CASE Conclude(b, "error", "done") /\ UNCHANGED files
  <2>1. /\ pc'[b] = "done" /\ result'[b] = "error"
        /\ \A c \in Batches : c # b => pc'[c] = pc[c] /\ result'[c] = result[c]
    BY <1>1, <1>6, ConcludeFacts
  <2>2. \A c \in Batches \ {b} : Unmoved(c)
    BY <1>2, <1>6, <2>1 DEF Unmoved, configuration, server, InsertID
  <2>3. CallFits(b)'
    BY <1>2, <1>3, <1>6, <2>1 DEF CallFits, configuration, server, InsertID
  <2>4. QED
    BY <1>5, <1>6, <2>2, <2>3, UnmovedCallsFit DEF BatchInvariant
<1>7. CASE files' = Write(files, b, Content(b)) /\ GoTo(b, "append")
  <2>1. /\ pc'[b] = "append" /\ result' = result
        /\ \A c \in Batches : c # b => pc'[c] = pc[c]
    BY <1>1, <1>2, <1>7, GoToFacts DEF Places
  <2>2. /\ DOMAIN files' = DOMAIN files \cup {b} /\ files'[b] = <<>>
        /\ \A n \in DOMAIN files : n # b => files'[n] = files[n]
    <3>1. files' = Write(files, b, <<>>)
      BY <1>4, <1>7
    <3>2. Written(files, files', b, <<>>)
      BY <1>1, <1>4, <3>1, WriteFacts
    <3>3. QED
      BY <3>2 DEF Written
  <2>3. \A c \in Batches \ {b} : Unmoved(c)
    BY <1>2, <2>1, <2>2 DEF Unmoved, configuration, server, InsertID
  <2>4. CallFits(b)'
    BY <1>2, <1>3, <2>1, <2>2 DEF CallFits, configuration, server, InsertID
  <2>5. FilesFit'
    <3>1. RowsFrom(<<>>, b, torn) /\ Len(<<>>) + 1 = row[b]
      BY <1>3, <1>4 DEF RowsFrom
    <3>2. \A c \in DOMAIN files : RowsFrom(files[c], c, torn) /\ Len(files[c]) + 1 = row[c]
      BY DEF BatchInvariant, FilesFit
    <3>3. QED
      BY <1>2, <2>2, <3>1, <3>2 DEF FilesFit
  <2>6. QED
    BY <1>5, <2>3, <2>4, <2>5, UnmovedCallsFit DEF BatchInvariant
<1>8. QED
  BY <1>2, <1>6, <1>7

LEMMA AppendRowFits ==
  ASSUME TypeOK, BatchInvariant, NEW b \in Batches, AppendRow(b)
  PROVE  BatchInvariant'
<1>1. /\ IsStore(files) /\ FileName(b) = b /\ row \in [Batches -> Nat] /\ row[b] \in Nat /\ size[b] \in Nat
      /\ \A c \in Batches : row[c] \in Nat /\ size[c] \in Nat
  BY TypeFacts DEF FileName
<1>2. PICK text \in {"whole", "glued", "part", "none"} :
        /\ pc[b] = "append" /\ row[b] <= size[b]
        /\ text = "glued" => Unfinished(Content(b))
        /\ files' = Write(files, b, Append(Content(b), Line(b, row[b], text)))
        /\ torn' = IF text \in {"part", "none"} THEN torn \cup {<<b, row[b]>>} ELSE torn
        /\ row' = [row EXCEPT ![b] = row[b] + 1]
        /\ UNCHANGED <<configuration, ctx, pc, result, failed, server>>
  BY <1>1 DEF AppendRow, Flushes
<1>3. b \in DOMAIN files /\ CallFits(b) /\ Content(b) = files[b] /\ files[b] \in Seq(Lines)
  BY <1>1, <1>2, ContentFacts DEF BatchInvariant, CallsFit, CallFits, IsStore
<1>4. /\ row'[b] = row[b] + 1 /\ size' = size
      /\ \A c \in Batches \ {b} : row'[c] = row[c]
  BY <1>1, <1>2 DEF configuration
\* Only the row that is appended may become torn.
<1>5. /\ torn \subseteq torn' /\ (<<b, row[b]>> \in torn' <=> text \in {"part", "none"})
      /\ \A c \in Batches, i \in Nat : c # b \/ i # row[b] => (<<c, i>> \in torn' <=> <<c, i>> \in torn)
  <2>1. \A lost \in torn : lost[2] < row[lost[1]]
    BY DEF BatchInvariant, TornBefore
  <2>2. <<b, row[b]>> \notin torn
    <3>1. <<b, row[b]>>[1] = b /\ <<b, row[b]>>[2] = row[b] /\ ~(row[b] < row[b])
      BY <1>1
    <3>2. QED
      BY <2>1, <3>1
  <2>3. QED
    BY <1>2, <2>2
<1>6. TornBefore'
  <2>1. torn \subseteq Batches \X Nat
    BY DEF TypeOK
  <2>2. ASSUME NEW lost \in torn PROVE lost[2] < row'[lost[1]]
    <3>1. lost[1] \in Batches /\ lost[2] \in Nat /\ lost[2] < row[lost[1]]
      BY <2>1 DEF BatchInvariant, TornBefore
    <3>2. QED
      BY <1>1, <1>4, <3>1
  <2>3. <<b, row[b]>>[2] < row'[<<b, row[b]>>[1]]
    BY <1>1, <1>4
  <2>4. QED
    BY <1>2, <2>2, <2>3 DEF TornBefore
\* Lines of other batches, and rows appended earlier, stay what they were.
<1>7. ASSUME NEW c \in Batches \ {b}, NEW lines, RowsFrom(lines, c, torn)
      PROVE  RowsFrom(lines, c, torn')
  <2>1. lines \in Seq(Lines) /\ Len(lines) \in Nat
    BY <1>7, LenProperties DEF RowsFrom
  <2>2. ASSUME NEW i \in 1..Len(lines) PROVE <<c, i>> \in torn' <=> <<c, i>> \in torn
    BY <1>1, <1>5, <1>7, <2>1
  <2>3. QED
    BY <1>5, <1>7, <2>2 DEF RowsFrom, RowIs
<1>8. FilesFit'
  <2> DEFINE line == Line(b, row[b], text)
             new == Append(files[b], line)
  <2>1. line \in Lines
    BY <1>1 DEF Line, Lines
  <2>2. /\ new \in Seq(Lines) /\ Len(new) = Len(files[b]) + 1 /\ Len(files[b]) \in Nat
        /\ new[Len(files[b]) + 1] = line
        /\ \A i \in 1..Len(files[b]) : new[i] = files[b][i]
    BY <1>3, <2>1, AppendProperties, LenProperties
  <2>3. files' = Write(files, b, new)
    BY <1>2, <1>3
  <2> HIDE DEF new
  <2>4. Written(files, files', b, new)
    BY <1>1, <2>2, <2>3, WriteFacts
  <2>5. /\ DOMAIN files' = DOMAIN files /\ files'[b] = new
        /\ \A n \in DOMAIN files : n # b => files'[n] = files[n]
    BY <1>3, <2>4 DEF Written
  <2>6. RowsFrom(files[b], b, torn) /\ Len(files[b]) + 1 = row[b]
    BY <1>3 DEF BatchInvariant, FilesFit
  <2>7. \A i \in 1..Len(files[b]) : RowIs(files[b][i], b, i, torn')
    <3>1. ASSUME NEW i \in 1..Len(files[b]) PROVE <<b, i>> \in torn' <=> <<b, i>> \in torn
      BY <1>1, <1>5, <2>2, <2>6
    <3>2. QED
      BY <1>5, <2>6, <3>1 DEF RowsFrom, RowIs
  <2>8. RowIs(line, b, row[b], torn')
    <3>1. text = "glued" => <<b, row[b] - 1>> \in torn
      <4>1. row[b] - 1 = Len(files[b])
        BY <2>2, <2>6
      <4>2. QED
        BY <1>2, <1>3, <2>6, <4>1, UnfinishedFacts
    <3>2. QED
      BY <1>5, <3>1 DEF RowIs, Line
  <2>9. \A i \in 1..Len(new) : RowIs(new[i], b, i, torn')
    <3>1. \A i \in 1..Len(new) : i \in 1..Len(files[b]) \/ i = row[b]
      BY <2>2, <2>6
    <3>2. ASSUME NEW i \in 1..Len(files[b])
          PROVE  RowIs(new[i], b, i, torn')
      BY <2>2, <2>7
    <3>3. new[row[b]] = line
      BY <2>2, <2>6
    <3>4. QED
      BY <2>8, <3>1, <3>2, <3>3
  <2>10. RowsFrom(new, b, torn') /\ Len(new) + 1 = row'[b]
    BY <1>4, <2>2, <2>6, <2>9 DEF RowsFrom
  <2>11. ASSUME NEW c \in DOMAIN files, c # b
         PROVE  RowsFrom(files[c], c, torn') /\ Len(files[c]) + 1 = row'[c]
    <3>1. c \in Batches \ {b} /\ RowsFrom(files[c], c, torn) /\ Len(files[c]) + 1 = row[c]
      BY <1>1, <2>11 DEF BatchInvariant, FilesFit, IsStore
    <3>2. QED
      BY <1>4, <1>7, <3>1
  <2>12. QED
    BY <2>5, <2>10, <2>11 DEF FilesFit
\* Complete batches are not this one.
<1>9. ASSUME NEW store, IsStore(store), NEW c \in DOMAIN store,
             row[c] = size[c] + 1, RowsFrom(store[c], c, torn)
      PROVE  row'[c] = size[c] + 1 /\ RowsFrom(store[c], c, torn')
  <2>1. c \in Batches \ {b}
    BY <1>1, <1>2, <1>9 DEF IsStore
  <2>2. QED
    BY <1>4, <1>7, <1>9, <2>1
<1>10. StageFits'
  <2>1. ASSUME NEW c \in DOMAIN stage
        PROVE  row'[c] = size[c] + 1 /\ RowsFrom(stage[c], c, torn') /\ Len(stage[c]) = size[c]
    <3>1. row[c] = size[c] + 1 /\ RowsFrom(stage[c], c, torn) /\ Len(stage[c]) = size[c] /\ IsStore(stage)
      BY TypeFacts DEF BatchInvariant, StageFits
    <3>2. QED
      BY <1>9, <3>1
  <2>2. QED
    BY <1>2, <1>4, <2>1 DEF StageFits, server
<1>11. LoadedFits'
  <2>1. ASSUME NEW c \in DOMAIN loaded
        PROVE  row'[c] = size[c] + 1 /\ RowsFrom(loaded[c], c, torn') /\ Len(loaded[c]) = size[c]
    <3>1. row[c] = size[c] + 1 /\ RowsFrom(loaded[c], c, torn) /\ Len(loaded[c]) = size[c] /\ IsStore(loaded)
      BY TypeFacts DEF BatchInvariant, LoadedFits
    <3>2. QED
      BY <1>9, <3>1
  <2>2. QED
    BY <1>2, <1>4, <2>1 DEF LoadedFits, server
<1>12. CallsFit'
  <2>1. DOMAIN files' = DOMAIN files
    <3>1. Line(b, row[b], text) \in Lines
      BY <1>1 DEF Line, Lines
    <3>2. Append(files[b], Line(b, row[b], text)) \in Seq(Lines)
      BY <1>3, <3>1, AppendProperties
    <3>3. Written(files, files', b, Append(files[b], Line(b, row[b], text)))
      BY <1>1, <1>2, <1>3, <3>2, WriteFacts
    <3>4. QED
      BY <1>3, <3>3 DEF Written
  <2>2. \A c \in Batches \ {b} : Unmoved(c)
    BY <1>2, <1>4, <2>1 DEF Unmoved, configuration, server, InsertID
  <2>3. CallFits(b)'
    BY <1>2, <1>3, <2>1 DEF CallFits, configuration, server, InsertID
  <2>4. QED
    BY <2>2, <2>3, UnmovedCallsFit DEF BatchInvariant
<1>13. QED
  BY <1>6, <1>8, <1>10, <1>11, <1>12 DEF BatchInvariant

\* The other steps of the driver that leave the files and the server's tables
\* alone.
LEMMA QuietDriverFits ==
  ASSUME TypeOK, BatchInvariant, NEW b \in Batches,
         \/ AppendFails(b) \/ OpenFile(b) \/ Presign(b) \/ InsertWithStage(b)
         \/ PollFinished(b) \/ PollEnds(b) \/ PollBreaks(b)
  PROVE  BatchInvariant'
<1>1. /\ PlaceOK /\ FileName(b) = b /\ row[b] \in Nat /\ size[b] \in Nat
      /\ row[b] \in 1..(size[b] + 1)
  BY TypeFacts DEF FileName
<1>2. CallFits(b)
  BY DEF BatchInvariant, CallsFit
<1>3. /\ UNCHANGED <<configuration, ctx, row, torn, files, stage, loaded>>
  BY DEF AppendFails, OpenFile, Presign, InsertWithStage, PollFinished, PollEnds, PollBreaks, server
<1>4. TornBefore' /\ FilesFit' /\ StageFits' /\ LoadedFits'
  BY <1>3, RowsStay DEF configuration
<1>5. /\ stmt \in [Batches -> {"none", "running", "finished", "failed"}]
      /\ failed \in [Batches -> SUBSET {"append", "remove"}]
      /\ \A c \in Batches : idFrom[c] \in {"user", "session"}
  BY DEF TypeOK
<1>6. SUFFICES (\A c \in Batches \ {b} : Unmoved(c)) /\ CallFits(b)'
  BY <1>4, UnmovedCallsFit DEF BatchInvariant
<1> DEFINE Others == \A c \in Batches : c # b => pc'[c] = pc[c] /\ result'[c] = result[c]
<1>7. CASE AppendFails(b)
  <2>1. /\ pc'[b] = "done" /\ result'[b] = "error" /\ Others
    BY <1>1, <1>7, ConcludeFacts DEF AppendFails
  <2>2. failed' = [failed EXCEPT ![b] = failed[b] \cup {"append"}] /\ UNCHANGED <<stmt, known>>
    BY <1>7 DEF AppendFails, server
  <2>3. failed'[b] # {} /\ \A c \in Batches : c # b => failed'[c] = failed[c]
    BY <1>5, <2>2
  <2>4. \A c \in Batches \ {b} : Unmoved(c)
    BY <1>3, <2>1, <2>2, <2>3 DEF Unmoved, configuration, InsertID
  <2>5. CallFits(b)'
    BY <1>2, <1>3, <2>1, <2>2, <2>3 DEF CallFits, configuration, InsertID
  <2>6. QED
    BY <2>4, <2>5
<1>8. CASE OpenFile(b)
  <2>1. /\ pc[b] = "append" /\ row[b] > size[b] /\ UNCHANGED <<failed, stmt, known>>
        /\ \/ Conclude(b, "error", "remove")
           \/ \E place \in {"presign", "put"} : GoTo(b, place)
    BY <1>8 DEF OpenFile, server
  <2>2. /\ pc'[b] \in {"remove", "presign", "put"} /\ result'[b] \in {"error", result[b]} /\ Others
    BY <1>1, <2>1, GoToFacts, ConcludeFacts DEF Places
  <2>3. row[b] = size[b] + 1
    BY <1>1, <2>1
  <2>4. \A c \in Batches \ {b} : Unmoved(c)
    BY <1>3, <2>1, <2>2 DEF Unmoved, configuration, InsertID
  <2>5. CallFits(b)'
    BY <1>2, <1>3, <2>1, <2>2, <2>3 DEF CallFits, configuration, InsertID
  <2>6. QED
    BY <2>4, <2>5
<1>9. CASE Presign(b)
  <2>1. /\ pc[b] = "presign" /\ UNCHANGED <<failed, stmt>>
        /\ Conclude(b, "error", "remove") \/ GoTo(b, "put")
        /\ known' \subseteq known \cup {PresignID(b)}
    BY <1>9 DEF Presign
  <2>2. /\ pc'[b] \in {"remove", "put"} /\ result'[b] \in {"error", result[b]} /\ Others
    BY <1>1, <2>1, GoToFacts, ConcludeFacts DEF Places
  <2>3. \A c \in Batches : InsertID(c) \in known' => InsertID(c) \in known
    BY <1>5, <2>1 DEF InsertID, PresignID
  <2>4. \A c \in Batches \ {b} : Unmoved(c)
    BY <1>3, <2>1, <2>2, <2>3 DEF Unmoved, configuration
  <2>5. CallFits(b)'
    BY <1>2, <1>3, <2>1, <2>2, <2>3 DEF CallFits, configuration, InsertID
  <2>6. QED
    BY <2>4, <2>5
<1>10. CASE InsertWithStage(b)
  <2>1. InsertID(b) \notin known /\ pc[b] = "insert"
    BY <1>2, <1>10 DEF CallFits, InsertWithStage
  <2>2. /\ UNCHANGED failed
        /\ \/ Conclude(b, "error", "remove") /\ UNCHANGED <<stmt, known>>
           \/ /\ known' = known \cup {InsertID(b)} /\ stmt' = [stmt EXCEPT ![b] = "running"]
              /\ Conclude(b, "error", "remove") \/ GoTo(b, "poll")
    BY <1>10, <2>1 DEF InsertWithStage
  <2>3. /\ pc'[b] \in {"remove", "poll"} /\ result'[b] \in {"error", result[b]} /\ Others
    BY <1>1, <2>1, <2>2, GoToFacts, ConcludeFacts DEF Places
  <2>4. /\ \A c \in Batches : c # b => stmt'[c] = stmt[c]
        /\ stmt'[b] \in {"running", stmt[b]}
    BY <1>5, <2>2
  <2>5. \A c \in Batches : c # b => (InsertID(c) \in known' => InsertID(c) \in known)
    BY <2>2 DEF InsertID
  <2>6. \A c \in Batches \ {b} : Unmoved(c)
    BY <1>3, <2>2, <2>3, <2>4, <2>5 DEF Unmoved, configuration
  <2>7. CallFits(b)'
    BY <1>2, <1>3, <2>1, <2>2, <2>3, <2>4 DEF CallFits, configuration, InsertID
  <2>8. QED
    BY <2>6, <2>7
<1>11. CASE PollFinished(b) \/ PollEnds(b) \/ PollBreaks(b)
  <2>1. /\ pc[b] = "poll" /\ UNCHANGED <<failed, stmt, known>>
        /\ \/ stmt[b] = "finished" /\ Conclude(b, "ok", "remove")
           \/ Conclude(b, "error", "remove")
    BY <1>11 DEF PollFinished, PollEnds, PollBreaks, server
  <2>2. /\ pc'[b] = "remove" /\ Others
        /\ result'[b] = "error" \/ (result'[b] = "ok" /\ stmt[b] = "finished")
    <3>1. CASE stmt[b] = "finished" /\ Conclude(b, "ok", "remove")
      BY <1>1, <3>1, ConcludeFacts
    <3>2. CASE Conclude(b, "error", "remove")
      BY <1>1, <3>2, ConcludeFacts
    <3>3. QED
      BY <2>1, <3>1, <3>2
  <2>3. \A c \in Batches \ {b} : Unmoved(c)
    BY <1>3, <2>1, <2>2 DEF Unmoved, configuration, InsertID
  <2>4. CallFits(b)'
    BY <1>2, <1>3, <2>1, <2>2 DEF CallFits, configuration, InsertID
  <2>5. QED
    BY <2>3, <2>4
<1>12. QED
  BY <1>7, <1>8, <1>9, <1>10, <1>11

LEMMA PutFits ==
  ASSUME TypeOK, BatchInvariant, NEW b \in Batches, Put(b)
  PROVE  BatchInvariant'
<1>1. PlaceOK /\ IsStore(files) /\ IsStore(stage) /\ FileName(b) = b
  BY TypeFacts DEF FileName
<1>2. /\ pc[b] = "put" /\ UNCHANGED <<configuration, ctx, row, failed, torn, files, stmt, known, loaded>>
      /\ stage' = stage \/ stage' = Write(stage, b, Content(b))
      /\ Conclude(b, "error", "remove") \/ GoTo(b, "insert")
  BY <1>1 DEF Put
<1>3. CallFits(b) /\ b \in DOMAIN files /\ row[b] = size[b] + 1
  BY <1>2 DEF BatchInvariant, CallsFit, CallFits
<1>4. Content(b) = files[b] /\ files[b] \in Seq(Lines) /\ size[b] \in Nat
  BY <1>1, <1>3, ContentFacts, TypeFacts
<1>5. TornBefore' /\ FilesFit' /\ LoadedFits' /\ (stage' = stage => StageFits')
  BY <1>2, RowsStay DEF configuration
<1>6. StageFits'
  <2>1. CASE stage' = Write(stage, b, Content(b))
    <3>1. stage' = Write(stage, b, files[b])
      BY <1>4, <2>1
    <3>2. Written(stage, stage', b, files[b])
      BY <1>1, <1>4, <3>1, WriteFacts
    <3>3. /\ RowsFrom(files[b], b, torn) /\ Len(files[b]) = size[b]
      <4>1. RowsFrom(files[b], b, torn) /\ Len(files[b]) + 1 = row[b] /\ Len(files[b]) \in Nat
        BY <1>3, <1>4, LenProperties DEF BatchInvariant, FilesFit
      <4>2. QED
        BY <1>3, <1>4, <4>1
    <3>4. \A c \in DOMAIN stage :
            row[c] = size[c] + 1 /\ RowsFrom(stage[c], c, torn) /\ Len(stage[c]) = size[c]
      BY DEF BatchInvariant, StageFits
    <3>5. QED
      BY <1>2, <1>3, <3>2, <3>3, <3>4 DEF StageFits, Written, configuration
  <2>2. QED
    BY <1>2, <1>5, <2>1
<1>7. /\ pc'[b] \in {"remove", "insert"} /\ result'[b] \in {"error", result[b]}
      /\ \A c \in Batches : c # b => pc'[c] = pc[c] /\ result'[c] = result[c]
  BY <1>1, <1>2, GoToFacts, ConcludeFacts DEF Places
<1>8. \A c \in Batches \ {b} : Unmoved(c)
  BY <1>2, <1>7 DEF Unmoved, configuration, InsertID
<1>9. CallFits(b)'
  BY <1>2, <1>3, <1>7 DEF CallFits, configuration, InsertID
<1>10. QED
  BY <1>5, <1>6, <1>8, <1>9, UnmovedCallsFit DEF BatchInvariant

LEMMA RemoveFileFits ==
  ASSUME TypeOK, BatchInvariant, NEW b \in Batches, RemoveFile(b)
  PROVE  BatchInvariant'
<1>1. PlaceOK /\ IsStore(files) /\ FileName(b) = b /\ CallFits(b)
  BY TypeFacts DEF FileName, BatchInvariant, CallsFit
<1>2. /\ pc[b] = "remove" /\ pc' = [pc EXCEPT ![b] = "done"]
      /\ \/ files' = Remove(files, b) /\ failed' = failed
         \/ files' = files /\ failed' = [failed EXCEPT ![b] = failed[b] \cup {"remove"}]
      /\ UNCHANGED <<configuration, ctx, row, result, torn, server>>
  BY <1>1 DEF RemoveFile
<1>3. TornBefore' /\ StageFits' /\ LoadedFits' /\ (files' = files => FilesFit')
  BY <1>2, RowsStay DEF configuration, server
<1>4. pc'[b] = "done" /\ \A c \in Batches : c # b => pc'[c] = pc[c]
  BY <1>1, <1>2 DEF PlaceOK
<1>5. /\ FilesFit'
      /\ b \in DOMAIN files' => failed'[b] # {}
      /\ \A c \in Batches \ {b} : (c \in DOMAIN files' <=> c \in DOMAIN files) /\ failed'[c] = failed[c]
  <2>1. CASE files' = Remove(files, b) /\ failed' = failed
    <3>1. Removed(files, files', b)
      BY <1>1, <2>1, RemoveFacts
    <3>2. FilesFit'
      BY <1>2, <3>1 DEF BatchInvariant, FilesFit, Removed
    <3>3. QED
      BY <2>1, <3>1, <3>2 DEF Removed
  <2>2. CASE files' = files /\ failed' = [failed EXCEPT ![b] = failed[b] \cup {"remove"}]
    <3>1. failed \in [Batches -> SUBSET {"append", "remove"}]
      BY DEF TypeOK
    <3>2. QED
      BY <1>3, <2>2, <3>1
  <2>3. QED
    BY <1>2, <2>1, <2>2
<1>6. \A c \in Batches \ {b} : Unmoved(c)
  BY <1>2, <1>4, <1>5 DEF Unmoved, configuration, server, InsertID
<1>7. CallFits(b)'
  BY <1>1, <1>2, <1>4, <1>5 DEF CallFits, configuration, server, InsertID
<1>8. QED
  BY <1>3, <1>5, <1>6, <1>7, UnmovedCallsFit DEF BatchInvariant

\* The environment moves no call.
LEMMA EnvironmentFits ==
  ASSUME TypeOK, BatchInvariant, NEW b \in Batches, ContextEnds(b) \/ Server(b)
  PROVE  BatchInvariant'
<1>1. /\ IsStore(stage) /\ IsStore(loaded) /\ CallFits(b)
      /\ stmt \in [Batches -> {"none", "running", "finished", "failed"}]
  BY TypeFacts DEF TypeOK, BatchInvariant, CallsFit
<1>2. UNCHANGED <<configuration, calls, torn, files, known>>
  BY DEF ContextEnds, Server, ServerInserts, ServerFails, server
<1>3. /\ TornBefore' /\ FilesFit'
      /\ (stage' = stage => StageFits') /\ (loaded' = loaded => LoadedFits')
  BY <1>2, RowsStay DEF configuration, calls
<1>4. CASE ContextEnds(b)
  <2>1. UNCHANGED server
    BY <1>4 DEF ContextEnds
  <2>2. CallsFit'
    BY <1>2, <2>1 DEF BatchInvariant, CallsFit, CallFits, InsertID, configuration, calls, server
  <2>3. QED
    BY <1>3, <2>1, <2>2 DEF BatchInvariant, server
<1>5. CASE ServerFails(b)
  <2>1. stmt' = [stmt EXCEPT ![b] = "failed"] /\ UNCHANGED <<stage, loaded>>
    BY <1>5 DEF ServerFails
  <2>2. \A c \in Batches \ {b} : Unmoved(c)
    BY <1>1, <1>2, <2>1 DEF Unmoved, InsertID, configuration, calls
  <2>3. CallFits(b)'
    BY <1>1, <1>2, <2>1 DEF CallFits, InsertID, configuration, calls
  <2>4. QED
    BY <1>3, <2>1, <2>2, <2>3, UnmovedCallsFit DEF BatchInvariant
<1>6. CASE ServerInserts(b)
  <2>1. /\ b \in DOMAIN stage /\ stmt' = [stmt EXCEPT ![b] = "finished"]
        /\ loaded' = Write(loaded, b, stage[b]) /\ stage' = Remove(stage, b)
    BY <1>6 DEF ServerInserts, FileName
  <2>2. stage[b] \in Seq(Lines)
    BY <1>1, <2>1 DEF IsStore
  <2>3. Written(loaded, loaded', b, stage[b])
    BY <1>1, <2>1, <2>2, WriteFacts
  <2>4. Removed(stage, stage', b)
    BY <1>1, <2>1, RemoveFacts
  <2>5. StageFits'
    BY <1>2, <2>4 DEF BatchInvariant, StageFits, Removed, configuration, calls
  <2>6. row[b] = size[b] + 1 /\ RowsFrom(stage[b], b, torn) /\ Len(stage[b]) = size[b]
    BY <2>1 DEF BatchInvariant, StageFits
  <2>7. LoadedFits'
    BY <1>2, <2>3, <2>6 DEF BatchInvariant, LoadedFits, Written, configuration, calls
  <2>8. \A c \in Batches \ {b} : Unmoved(c)
    BY <1>1, <1>2, <2>1, <2>3 DEF Unmoved, Written, InsertID, configuration, calls
  <2>9. CallFits(b)'
    BY <1>1, <1>2, <2>1, <2>3 DEF CallFits, Written, InsertID, configuration, calls
  <2>10. QED
    BY <1>3, <2>5, <2>7, <2>8, <2>9, UnmovedCallsFit DEF BatchInvariant
<1>7. QED
  BY <1>4, <1>5, <1>6 DEF Server

-------------------------------------------------------------------------------
(* The theorems.                                                           *)

LEMMA InitFits == Init => BatchInvariant
BY DEF Init, BatchInvariant, TornBefore, FilesFit, StageFits, LoadedFits, CallsFit, CallFits, Nothing

\* BatchInvariant is inductive: batches meet only in their directory, stage and
\* server, and not even there.
THEOREM Invariance == Spec => [](TypeOK /\ BatchInvariant)
<1>1. Init => TypeOK /\ BatchInvariant
  BY InitTypeOK, InitFits
<1>2. TypeOK /\ BatchInvariant /\ [Next]_vars => (TypeOK /\ BatchInvariant)'
  <2> SUFFICES ASSUME TypeOK, BatchInvariant, [Next]_vars
               PROVE  TypeOK' /\ BatchInvariant'
    OBVIOUS
  <2>1. ASSUME NEW b \in Batches, Driver(b) \/ PollBreaks(b)
        PROVE  TypeOK' /\ BatchInvariant'
    BY <2>1, DriverTypeOK, PrepareBatchFits, AppendRowFits, QuietDriverFits, PutFits,
       RemoveFileFits DEF Driver
  <2>2. ASSUME NEW b \in Batches, ContextEnds(b) \/ Server(b)
        PROVE  TypeOK' /\ BatchInvariant'
    BY <2>2, OtherTypeOK, EnvironmentFits
  <2>3. CASE UNCHANGED vars
    <3>1. TypeOK'
      BY <2>3 DEF TypeOK, vars, configuration, calls, server
    <3>2. BatchInvariant'
      BY <2>3 DEF BatchInvariant, TornBefore, FilesFit, StageFits, LoadedFits, CallsFit,
                  CallFits, InsertID, vars, configuration, calls, server
    <3>3. QED
      BY <3>1, <3>2
  <2>4. QED
    BY <2>1, <2>2, <2>3 DEF Next
<1>3. QED
  BY <1>1, <1>2, PTL DEF Spec

\* The variables keep their types, rows of any batch are appended once each and
\* a call is decided exactly when it stops (ExecBatch, httpBatch).
THEOREM TypeCorrect == Spec => []TypeOK
BY Invariance, PTL

\* A call of ExecBatch that returns nil has inserted: no other statement of the
\* batches bears the query ID of its INSERT, so the server did not answer from
\* memory, and the staged file is the one it uploaded.
THEOREM OKMeansInserted == Spec => []SuccessMeansInserted
<1>1. BatchInvariant => SuccessMeansInserted
  BY DEF BatchInvariant, CallsFit, CallFits, SuccessMeansInserted
<1>2. QED
  BY <1>1, Invariance, PTL

\* What an INSERT puts into the table is one whole batch, its rows in order,
\* whatever the other batches do with their files at the time; only a failed
\* Flush damages a row, its own or the one behind it.
THEOREM InsertsAreWhole == Spec => []WholeBatches
<1>1. TypeOK /\ BatchInvariant => WholeBatches
  <2> SUFFICES ASSUME TypeOK, BatchInvariant, NEW b \in DOMAIN loaded
               PROVE  Len(loaded[b]) = size[b] /\ \A i \in 1..size[b] : IsRow(loaded[b][i], b, i)
    BY DEF WholeBatches
  <2>1. RowsFrom(loaded[b], b, torn) /\ Len(loaded[b]) = size[b]
    BY DEF BatchInvariant, LoadedFits
  <2>2. QED
    BY <2>1 DEF RowsFrom, RowIs, IsRow
<1>2. QED
  BY <1>1, Invariance, PTL

\* A call that ends leaves a temporary file behind only if appending a row or
\* removing the file failed (the deferred os.RemoveAll of BatchInsert).
THEOREM NoFilesLeftBehind == Spec => []FilesAreRemoved
<1>1. TypeOK /\ BatchInvariant => FilesAreRemoved
  BY DEF BatchInvariant, CallsFit, CallFits, FilesAreRemoved, FileName
<1>2. QED
  BY <1>1, Invariance, PTL
===============================================================================
