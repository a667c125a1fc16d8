-------------------------------- MODULE Storage --------------------------------
(******************************************************************************)
(* The object store of packages/storage: one bucket, its object rows and the  *)
(* bytes the rows point at.                                                   *)
(*                                                                            *)
(* The database and the blob adapter are two systems with no common           *)
(* transaction.  StorageService keeps them in step with a state machine on    *)
(* the row (staging, ready, deleting, corrupt) and the order of its awaits.   *)
(* Every await of the service is one step here, so requests interleave at     *)
(* exactly the points where the event loop may switch, and a request may stop *)
(* at every one of them (an error thrown by an adapter, or a killed process). *)
(*                                                                            *)
(* A row, its op_id, its version and its final key (bucket/name#version) are  *)
(* minted together by upload() and never reused, so one number, the version,  *)
(* identifies all four.                                                       *)
(*                                                                            *)
(* A premise: every statement commits by itself.  On the connection that the  *)
(* requests of a SQLite process share one may join the open transaction of    *)
(* another request, such as a refresh, and go with its ROLLBACK.  Adapter has *)
(* such rollbacks; a row whose statement is undone by one is not modelled.    *)
(******************************************************************************)
EXTENDS Integers, FiniteSets

CONSTANTS
  Clients,         \* concurrent requests
  Paths,           \* canonical object paths of the bucket
  MaxUploads,      \* bound: uploads started in a behaviour
  Ops,             \* the operations clients may request
  Adapter,         \* the BlobAdapter: "fs", "s3" or "opfs"
  BlobFaults,      \* may blob.open, blob.stat and blob.delete fail transiently?
  OnlineRecovery,  \* may recover() run while requests are being served?
  NoPath           \* the path of a version that no upload has taken yet

AllOps == {"upload", "upsert", "remove", "download", "copy", "move",
           "create", "empty", "drop"}

Adapters == {"fs", "s3", "opfs"}

ASSUME ClientsAssumption == Clients # {}
ASSUME PathsAssumption   == Paths # {} /\ NoPath \notin Paths
ASSUME BoundAssumption   == MaxUploads \in Nat \ {0}
ASSUME OptionsAssumption == /\ Ops \subseteq AllOps
                            /\ Adapter \in Adapters
                            /\ BlobFaults \in BOOLEAN
                            /\ OnlineRecovery \in BOOLEAN

Versions == 1..MaxUploads
NoRow    == 0

RowStates  == {"none", "staging", "ready", "deleting", "corrupt"}
BlobStates == {"none", "empty", "whole"}

VARIABLES
  bucket,     \* does the bucket row exist
  state,      \* state column of each object row, "none" when there is no row
  path,       \* name column
  created,    \* created_at column
  final,      \* bytes at each final key
  staged,     \* versions whose op_id has bytes at the staged key
  used,       \* versions handed out
  req,        \* the local state of each request, see Idle
  rpc, rtodo, rstaging, rcur, \* recover(): place, rows left, snapshot, row in hand
  reaped,     \* staged blobs recover() counts as deleted
  newest,     \* history: the newest version that became ready on each path
  condemned   \* history: versions a delete or an integrity check took away

rowVars     == <<bucket, state, path, created>>
blobVars    == <<final, staged>>
recoverVars == <<rpc, rtodo, rstaging, rcur, reaped>>
historyVars == <<newest, condemned>>
vars == <<rowVars, blobVars, used, req, recoverVars, historyVars>>

\* A request: the next await (pc), the operation, the path it works on, the
\* source path of a copy or move, the row it looked up, the version it uploads
\* and the rows emptyBucket has still to clear of bytes.
Idle == [pc |-> "idle", op |-> "none", at |-> NoPath, src |-> NoPath,
         prior |-> NoRow, ver |-> NoRow, todo |-> {}]

Init ==
  /\ bucket    = TRUE
  /\ state     = [v \in Versions |-> "none"]
  /\ path      = [v \in Versions |-> NoPath]
  /\ created   = [v \in Versions |-> 0]
  /\ final     = [v \in Versions |-> "none"]
  /\ staged    = {}
  /\ used      = 0
  /\ req       = [c \in Clients |-> Idle]
  /\ rpc       = "off"
  /\ rtodo     = {}
  /\ rstaging  = {}
  /\ rcur      = NoRow
  /\ reaped    = {}
  /\ newest    = [p \in Paths |-> NoRow]
  /\ condemned = {}

--------------------------------------------------------------------------------
(* Queries and single-statement writes.                                       *)

Rows == {v \in Versions : state[v] # "none"}

RowsIn(s) == {v \in Versions : state[v] \in s}

\* currentReady(): a ready row of the path with the greatest created_at.  Two
\* uploads of one millisecond tie, and the query does not order ties.
CurrentReady(p) ==
  LET ready == {v \in RowsIn({"ready"}) : path[v] = p}
  IN  {v \in ready : \A w \in ready : created[w] <= created[v]}

\* The first row of a result, or none.
FirstOf(result) == IF result = {} THEN {NoRow} ELSE result

\* UPDATE ... SET state = s WHERE id = v: no effect when the row is gone.
UpdateById(v, s) ==
  state' = IF v \in Rows THEN [state EXCEPT ![v] = s] ELSE state

\* DELETE ... WHERE id = v.
DeleteById(v) == state' = [state EXCEPT ![v] = "none"]

\* blob.delete(finalKey(v)).catch(() => undefined): an error is swallowed.
DeleteFinal(v) ==
  \/ final' = [final EXCEPT ![v] = "none"]
  \/ BlobFaults /\ final' = final

Goto(c, l) == req' = [req EXCEPT ![c].pc = l]
Finish(c)  == req' = [req EXCEPT ![c] = Idle]

\* A row becomes visible: the history remembers the newest one of its path.
BecomesReady(v) ==
  /\ state' = [state EXCEPT ![v] = "ready"]
  /\ newest' = [newest EXCEPT ![path[v]] = IF @ < v THEN v ELSE @]

Condemn(S) == condemned' = condemned \cup S

\* recover() is run on a quiet service unless OnlineRecovery.
Quiet    == \A c \in Clients : req[c].pc = "idle"
MayServe == OnlineRecovery \/ rpc \in {"off", "done"}

\* A new request ends the period in which the last recovery speaks for the store.
LeaveRecovered == rpc' = IF rpc = "done" THEN "off" ELSE rpc

--------------------------------------------------------------------------------
(* Requests start: getBucket() and authorize() read only.                     *)

Begin(c, o, p, q, l, rows) ==
  /\ req[c].pc = "idle" /\ o \in Ops /\ MayServe
  /\ req' = [req EXCEPT ![c] = [Idle EXCEPT !.pc = l, !.op = o, !.at = p, !.src = q,
                                           !.todo = rows]]
  /\ LeaveRecovered
  /\ UNCHANGED <<rowVars, blobVars, used, rtodo, rstaging, rcur, reaped, historyVars>>

\* upload(), with opts.upsert or without.
StartUpload(c) ==
  /\ bucket
  /\ \E p \in Paths, o \in {"upload", "upsert"} : Begin(c, o, p, p, "prior", {})

\* remove(), download() and its signed and public variants.
StartOnObject(c) ==
  /\ bucket
  /\ \E p \in Paths, o \in {"remove", "download"} : Begin(c, o, p, p, "find", {})

\* copy() and move(): the lookup is of the source, the upload of the target.
StartCopy(c) ==
  /\ bucket
  /\ \E p, q \in Paths, o \in {"copy", "move"} : Begin(c, o, q, p, "find", {})

\* emptyBucket(): SELECT every row of the bucket, whatever its state.
StartEmpty(c) ==
  /\ bucket
  /\ Begin(c, "empty", NoPath, NoPath, "emptying", Rows)

\* deleteBucket(): refuses when the SELECT finds a ready row.
StartDrop(c) ==
  /\ bucket /\ RowsIn({"ready"}) = {}
  /\ Begin(c, "drop", NoPath, NoPath, "drop", {})

\* createBucket(): the name is free when the INSERT runs (it is UNIQUE).
CreateBucket(c) ==
  /\ req[c].pc = "idle" /\ "create" \in Ops /\ MayServe
  /\ ~bucket
  /\ bucket' = TRUE
  /\ LeaveRecovered
  /\ UNCHANGED <<state, path, created, blobVars, used, req, rtodo, rstaging, rcur,
                 reaped, historyVars>>

--------------------------------------------------------------------------------
(* upload().                                                                  *)

\* The clock has the millisecond of the last upload still, or a later one.
ClockReadings ==
  IF used = 0 THEN {0} ELSE {created[used], created[used] + 1}

\* The lookup of the object to replace; then, before the next await, op_id,
\* version, id and created_at are minted.
ReadPrior(c) ==
  /\ req[c].pc = "prior" /\ used < MaxUploads
  /\ req[c].op = "upload" => CurrentReady(req[c].at) = {}
  /\ \E v \in FirstOf(CurrentReady(req[c].at)) :
       req' = [req EXCEPT ![c].pc = "reserve", ![c].prior = v, ![c].ver = used + 1]
  /\ used' = used + 1
  /\ path' = [path EXCEPT ![used + 1] = req[c].at]
  /\ \E t \in ClockReadings : created' = [created EXCEPT ![used + 1] = t]
  /\ UNCHANGED <<bucket, state, blobVars, recoverVars, historyVars>>

\* if (prior && !opts.upsert) throw objectExists()
RefuseExisting(c) ==
  /\ req[c].pc = "prior" /\ req[c].op = "upload" /\ CurrentReady(req[c].at) # {}
  /\ Finish(c)
  /\ UNCHANGED <<rowVars, blobVars, used, recoverVars, historyVars>>

\* 1. INSERT the staging row: its foreign key fails when the bucket is gone.
Reserve(c) ==
  /\ req[c].pc = "reserve"
  /\ IF bucket
     THEN state' = [state EXCEPT ![req[c].ver] = "staging"] /\ Goto(c, "put")
     ELSE state' = state /\ Finish(c)
  /\ UNCHANGED <<bucket, path, created, blobVars, used, recoverVars, historyVars>>

\* 2/3. putStaged() succeeds, or throws (size, hash, stream or write error) and
\* may leave a partial staged blob behind.
PutStaged(c) ==
  /\ req[c].pc = "put"
  /\ \/ staged' = staged \cup {req[c].ver} /\ Goto(c, "promote")
     \/ staged' \in {staged, staged \cup {req[c].ver}} /\ Goto(c, "unreserve")
  /\ UNCHANGED <<rowVars, final, used, recoverVars, historyVars>>

Unreserve(c) ==
  /\ req[c].pc = "unreserve"
  /\ DeleteById(req[c].ver)
  /\ Finish(c)
  /\ UNCHANGED <<bucket, path, created, blobVars, used, recoverVars, historyVars>>

\* 4. promote(): a rename on the file system; on S3 a copy, then a delete of the
\* staged object whose failure is swallowed; on OPFS the final file is first
\* created empty.  Without staged bytes promote() throws.
Promote(c) ==
  /\ req[c].pc = "promote" /\ req[c].ver \in staged
  /\ IF Adapter = "opfs"
     THEN /\ final' = [final EXCEPT ![req[c].ver] = "empty"]
          /\ staged' = staged
          /\ Goto(c, "fill")
     ELSE /\ final' = [final EXCEPT ![req[c].ver] = "whole"]
          /\ \/ staged' = staged \ {req[c].ver}
             \/ Adapter = "s3" /\ BlobFaults /\ staged' = staged
          /\ Goto(c, "commit")
  /\ UNCHANGED <<rowVars, used, recoverVars, historyVars>>

\* OPFS: the writable stream is closed, then the staged entry removed.
Fill(c) ==
  /\ req[c].pc = "fill"
  /\ final' = [final EXCEPT ![req[c].ver] = "whole"]
  /\ staged' = staged \ {req[c].ver}
  /\ Goto(c, "commit")
  /\ UNCHANGED <<rowVars, used, recoverVars, historyVars>>

\* Mutant: the UPDATE to ready lacks "AND state = 'staging'".
CommitReadyUnguarded(c) ==
  /\ req[c].pc = "commit"
  /\ \/ /\ req[c].ver \in Rows
        /\ BecomesReady(req[c].ver)
        /\ Goto(c, IF req[c].prior = NoRow THEN "respond" ELSE "mark")
     \/ /\ req[c].ver \notin Rows
        /\ UNCHANGED <<state, newest>>
        /\ Goto(c, "discard")
  /\ UNCHANGED <<bucket, path, created, blobVars, used, recoverVars, condemned>>

\* 5. the compare-and-set staging -> ready, by row count.
CommitReady(c) ==
  /\ req[c].pc = "commit"
  /\ \/ /\ state[req[c].ver] = "staging"
        /\ BecomesReady(req[c].ver)
        /\ Goto(c, IF req[c].prior = NoRow THEN "respond" ELSE "mark")
     \/ /\ state[req[c].ver] # "staging"
        /\ UNCHANGED <<state, newest>>
        /\ Goto(c, "discard")
  /\ UNCHANGED <<bucket, path, created, blobVars, used, recoverVars, condemned>>

\* The row was taken away meanwhile: drop the promoted bytes and throw.
Discard(c) ==
  /\ req[c].pc = "discard"
  /\ DeleteFinal(req[c].ver)
  /\ Finish(c)
  /\ UNCHANGED <<rowVars, staged, used, recoverVars, historyVars>>

\* The answer re-reads the object; move() goes on to remove the source.
Respond(c) ==
  /\ req[c].pc = "respond"
  /\ IF req[c].op = "move" /\ CurrentReady(req[c].at) # {}
     THEN req' = [req EXCEPT ![c] = [Idle EXCEPT !.pc = "find", !.op = "remove",
                                                 !.at = req[c].src, !.src = req[c].src]]
     ELSE Finish(c)
  /\ UNCHANGED <<rowVars, blobVars, used, recoverVars, historyVars>>

--------------------------------------------------------------------------------
(* Deleting a looked-up row: step 6 of upload() on the replaced object, and   *)
(* remove().                                                                  *)

FindTarget(c) ==
  /\ req[c].pc = "find"
  /\ LET p == IF req[c].op \in {"copy", "move"} THEN req[c].src ELSE req[c].at
     IN  \/ CurrentReady(p) = {} /\ Finish(c)
         \/ \E v \in CurrentReady(p) :
              req' = [req EXCEPT ![c].prior = v,
                                 ![c].pc = IF req[c].op = "remove" THEN "mark" ELSE "open"]
  /\ UNCHANGED <<rowVars, blobVars, used, recoverVars, historyVars>>

\* Mutant: the bytes are deleted without first hiding the row.
MarkDeletingSkipped(c) ==
  /\ req[c].pc = "mark"
  /\ Condemn(IF req[c].op = "remove" THEN {req[c].prior} ELSE {})
  /\ Goto(c, "bytes")
  /\ UNCHANGED <<rowVars, blobVars, used, recoverVars, newest>>

\* Mutant: the object to retire is looked up again after the commit.
MarkDeletingLookup(c) ==
  /\ req[c].pc = "mark"
  /\ \E v \in FirstOf(CurrentReady(req[c].at)) :
       /\ UpdateById(v, "deleting")
       /\ Condemn(IF req[c].op = "remove" THEN {v} ELSE {})
       /\ req' = [req EXCEPT ![c].pc = "bytes", ![c].prior = v]
  /\ UNCHANGED <<bucket, path, created, blobVars, used, recoverVars, newest>>

\* Mutant: a state name the readers of the column do not know.
MarkDeletingMistyped(c) ==
  /\ req[c].pc = "mark"
  /\ UpdateById(req[c].prior, "deleted")
  /\ Condemn(IF req[c].op = "remove" THEN {req[c].prior} ELSE {})
  /\ Goto(c, "bytes")
  /\ UNCHANGED <<bucket, path, created, blobVars, used, recoverVars, newest>>

MarkDeleting(c) ==
  /\ req[c].pc = "mark"
  /\ UpdateById(req[c].prior, "deleting")
  /\ Condemn(IF req[c].op = "remove" THEN {req[c].prior} ELSE {})
  /\ Goto(c, "bytes")
  /\ UNCHANGED <<bucket, path, created, blobVars, used, recoverVars, newest>>

DeleteBytes(c) ==
  /\ req[c].pc = "bytes"
  /\ DeleteFinal(req[c].prior)
  /\ Goto(c, "row")
  /\ UNCHANGED <<rowVars, staged, used, recoverVars, historyVars>>

DeleteRow(c) ==
  /\ req[c].pc = "row"
  /\ DeleteById(req[c].prior)
  /\ IF req[c].op = "remove" THEN Finish(c) ELSE Goto(c, "respond")
  /\ UNCHANGED <<bucket, path, created, blobVars, used, recoverVars, historyVars>>

--------------------------------------------------------------------------------
(* Reading bytes: serveBytes() of a download, blob.open() of a copy.          *)

\* Bytes are served, or a copy goes on to upload them with upsert.
OpenBytes(c) ==
  /\ req[c].pc = "open" /\ final[req[c].prior] # "none"
  /\ IF req[c].op = "download" THEN Finish(c) ELSE Goto(c, "prior")
  /\ UNCHANGED <<rowVars, blobVars, used, recoverVars, historyVars>>

\* open() throws: the bytes are missing, or the adapter failed to read them.
OpenFails(c) ==
  /\ req[c].pc = "open" /\ (final[req[c].prior] = "none" \/ BlobFaults)
  /\ IF req[c].op = "download" THEN Goto(c, "flag") ELSE Finish(c)
  /\ UNCHANGED <<rowVars, blobVars, used, recoverVars, historyVars>>

\* UPDATE ... SET state = 'corrupt' WHERE id = ?, then 500.
FlagCorrupt(c) ==
  /\ req[c].pc = "flag"
  /\ UpdateById(req[c].prior, "corrupt")
  /\ Condemn({req[c].prior})
  /\ Finish(c)
  /\ UNCHANGED <<bucket, path, created, blobVars, used, recoverVars, newest>>

--------------------------------------------------------------------------------
(* Bucket-wide deletes.                                                       *)

EmptyBytes(c) ==
  /\ req[c].pc = "emptying"
  /\ \E v \in req[c].todo :
       /\ DeleteFinal(v)
       /\ req' = [req EXCEPT ![c].todo = @ \ {v}]
  /\ UNCHANGED <<rowVars, staged, used, recoverVars, historyVars>>

EmptyRows(c) ==
  /\ req[c].pc = "emptying" /\ req[c].todo = {}
  /\ state' = [v \in Versions |-> "none"]
  /\ Condemn(Rows)
  /\ Finish(c)
  /\ UNCHANGED <<bucket, path, created, blobVars, used, recoverVars, newest>>

\* DELETE of the bucket cascades to every object row that exists by now.
DropBucket(c) ==
  /\ req[c].pc = "drop"
  /\ bucket' = FALSE
  /\ state' = [v \in Versions |-> "none"]
  /\ Condemn(Rows)
  /\ Finish(c)
  /\ UNCHANGED <<path, created, blobVars, used, recoverVars, newest>>

\* An adapter call rejects, a fault point fires or the process is killed: the
\* request ends where it is and what it did stays.
Stop(c) ==
  /\ req[c].pc # "idle"
  /\ Finish(c)
  /\ UNCHANGED <<rowVars, blobVars, used, recoverVars, historyVars>>

--------------------------------------------------------------------------------
(* recover().                                                                 *)

\* Mutant: recovery resumes uploads only, not interrupted deletes.
RecoverStartUploads ==
  /\ rpc \in {"off", "done"} /\ (OnlineRecovery \/ Quiet)
  /\ rtodo' = RowsIn({"staging"})
  /\ rstaging' = RowsIn({"staging"})
  /\ rpc' = "rows"
  /\ UNCHANGED <<rowVars, blobVars, used, req, rcur, reaped, historyVars>>

\* SELECT the rows in an intermediate state.  Corrupt rows are selected too, and
\* nothing is done about them.
RecoverStart ==
  /\ rpc \in {"off", "done"} /\ (OnlineRecovery \/ Quiet)
  /\ rtodo' = RowsIn({"staging", "deleting"})
  /\ rstaging' = RowsIn({"staging"})
  /\ rpc' = "rows"
  /\ UNCHANGED <<rowVars, blobVars, used, req, rcur, reaped, historyVars>>

\* stat(finalKey).catch(() => null): an error counts as missing bytes.
RecoverStat(v) ==
  /\ rpc = "rows" /\ v \in rtodo
  /\ rtodo' = rtodo \ {v} /\ rcur' = v
  /\ \/ v \in rstaging /\ final[v] # "none" /\ rpc' = "promote"
     \/ v \in rstaging /\ (final[v] = "none" \/ BlobFaults) /\ rpc' = "abort"
     \/ v \notin rstaging /\ rpc' = "bytes"
  /\ UNCHANGED <<rowVars, blobVars, used, req, rstaging, reaped, historyVars>>

\* The same compare-and-set as upload().
RecoverPromote ==
  /\ rpc = "promote"
  /\ IF state[rcur] = "staging" THEN BecomesReady(rcur) ELSE UNCHANGED <<state, newest>>
  /\ rpc' = "rows" /\ rcur' = NoRow
  /\ UNCHANGED <<bucket, path, created, blobVars, used, req, rtodo, rstaging, reaped,
                 condemned>>

\* DELETE by id, whatever the state has become.
RecoverAbort ==
  /\ rpc = "abort"
  /\ DeleteById(rcur)
  /\ rpc' = "rows" /\ rcur' = NoRow
  /\ UNCHANGED <<bucket, path, created, blobVars, used, req, rtodo, rstaging, reaped,
                 historyVars>>

RecoverDeleteBytes ==
  /\ rpc = "bytes"
  /\ DeleteFinal(rcur)
  /\ rpc' = "row"
  /\ UNCHANGED <<rowVars, staged, used, req, rtodo, rstaging, rcur, reaped,
                 historyVars>>

RecoverDeleteRow ==
  /\ rpc = "row"
  /\ DeleteById(rcur)
  /\ rpc' = "rows" /\ rcur' = NoRow
  /\ UNCHANGED <<bucket, path, created, blobVars, used, req, rtodo, rstaging, reaped,
                 historyVars>>

\* The second SELECT: every ready row.
RecoverReady ==
  /\ rpc = "rows" /\ rtodo = {}
  /\ rtodo' = RowsIn({"ready"})
  /\ rpc' = "ready" /\ rstaging' = {}
  /\ UNCHANGED <<rowVars, blobVars, used, req, rcur, reaped, historyVars>>

RecoverCheck(v) ==
  /\ rpc = "ready" /\ v \in rtodo
  /\ rtodo' = rtodo \ {v}
  /\ \/ final[v] # "none" /\ UNCHANGED <<rpc, rcur>>
     \/ (final[v] = "none" \/ BlobFaults) /\ rpc' = "flag" /\ rcur' = v
  /\ UNCHANGED <<rowVars, blobVars, used, req, rstaging, reaped, historyVars>>

RecoverFlag ==
  /\ rpc = "flag"
  /\ UpdateById(rcur, "corrupt")
  /\ Condemn({rcur})
  /\ rpc' = "ready" /\ rcur' = NoRow
  /\ UNCHANGED <<bucket, path, created, blobVars, used, req, rtodo, rstaging, reaped,
                 newest>>

\* listStaged(cutoff): the staged blobs that are old enough.
RecoverList ==
  /\ rpc = "ready" /\ rtodo = {}
  /\ rtodo' \in SUBSET staged
  /\ rpc' = "staged"
  /\ UNCHANGED <<rowVars, blobVars, used, req, rstaging, rcur, reaped, historyVars>>

\* Mutant: the owner of a staged blob is not looked up.
RecoverReapUnowned(v) ==
  /\ rpc = "staged" /\ v \in rtodo
  /\ rtodo' = rtodo \ {v}
  /\ reaped' = reaped \cup {v}
  /\ staged' = IF Adapter = "s3" THEN staged \ {v} ELSE staged
  /\ UNCHANGED <<rowVars, final, used, req, rpc, rstaging, rcur, historyVars>>

\* Mutant: the S3 adapter too resolves the staged key among the final objects.
RecoverReapWrongKey(v) ==
  /\ rpc = "staged" /\ v \in rtodo
  /\ rtodo' = rtodo \ {v}
  /\ reaped' = IF v \in Rows THEN reaped ELSE reaped \cup {v}
  /\ UNCHANGED <<rowVars, final, staged, used, req, rpc, rstaging, rcur, historyVars>>

\* A staged blob no row owns is deleted by its staged key.  Only the S3 adapter
\* deletes that object: the others look for the key among the final objects.
RecoverReap(v) ==
  /\ rpc = "staged" /\ v \in rtodo
  /\ rtodo' = rtodo \ {v}
  /\ IF v \in Rows
     THEN UNCHANGED <<staged, reaped>>
     ELSE /\ reaped' = reaped \cup {v}
          /\ \/ staged' = IF Adapter = "s3" THEN staged \ {v} ELSE staged
             \/ BlobFaults /\ staged' = staged
  /\ UNCHANGED <<rowVars, final, used, req, rpc, rstaging, rcur, historyVars>>

RecoverDone ==
  /\ rpc = "staged" /\ rtodo = {}
  /\ rpc' = "done"
  /\ UNCHANGED <<rowVars, blobVars, used, req, rtodo, rstaging, rcur, reaped,
                 historyVars>>

\* recover() itself is interrupted.
RecoverStop ==
  /\ rpc \notin {"off", "done"}
  /\ rpc' = "off" /\ rtodo' = {} /\ rstaging' = {} /\ rcur' = NoRow
  /\ UNCHANGED <<rowVars, blobVars, used, req, reaped, historyVars>>

--------------------------------------------------------------------------------

Start(c) ==
  \/ StartUpload(c) \/ StartOnObject(c) \/ StartCopy(c)
  \/ StartEmpty(c)  \/ StartDrop(c)     \/ CreateBucket(c)

Step(c) ==
  \/ ReadPrior(c)    \/ RefuseExisting(c) \/ Reserve(c)    \/ PutStaged(c)
  \/ Unreserve(c)    \/ Promote(c)        \/ Fill(c)       \/ CommitReady(c)
  \/ Discard(c)      \/ Respond(c)        \/ FindTarget(c) \/ MarkDeleting(c)
  \/ DeleteBytes(c)  \/ DeleteRow(c)      \/ OpenBytes(c)  \/ OpenFails(c)
  \/ FlagCorrupt(c)  \/ EmptyBytes(c)     \/ EmptyRows(c)  \/ DropBucket(c)

Recover ==
  \/ RecoverStart       \/ RecoverPromote   \/ RecoverAbort \/ RecoverDeleteBytes
  \/ RecoverDeleteRow   \/ RecoverReady     \/ RecoverFlag  \/ RecoverList
  \/ RecoverDone        \/ RecoverStop
  \/ \E v \in Versions : RecoverStat(v) \/ RecoverCheck(v) \/ RecoverReap(v)

Next == (\E c \in Clients : Start(c) \/ Step(c) \/ Stop(c)) \/ Recover

Spec == Init /\ [][Next]_vars

--------------------------------------------------------------------------------
(* Properties.                                                                *)

PcLabels == {"idle", "prior", "reserve", "put", "unreserve", "promote", "fill",
             "commit", "discard", "respond", "find", "mark", "bytes", "row", "open",
             "flag", "emptying", "drop"}

RpcLabels == {"off", "rows", "promote", "abort", "bytes", "row", "ready", "flag",
              "staged", "done"}

RequestRecords ==
  [pc : PcLabels, op : AllOps \cup {"none"},
   at : Paths \cup {NoPath}, src : Paths \cup {NoPath},
   prior : Versions \cup {NoRow}, ver : Versions \cup {NoRow},
   todo : SUBSET Versions]

\* Type invariant of the store, the requests and the recovery.
TypeOK ==
  /\ bucket \in BOOLEAN
  /\ state \in [Versions -> RowStates]
  /\ path \in [Versions -> Paths \cup {NoPath}]
  /\ created \in [Versions -> Nat]
  /\ final \in [Versions -> BlobStates]
  /\ staged \subseteq Versions
  /\ used \in 0..MaxUploads
  /\ req \in [Clients -> RequestRecords]
  /\ rpc \in RpcLabels
  /\ rtodo \subseteq Versions
  /\ rstaging \subseteq Versions
  /\ rcur \in Versions \cup {NoRow}
  /\ reaped \subseteq Versions
  /\ newest \in [Paths -> Versions \cup {NoRow}]
  /\ condemned \subseteq Versions

\* A visible row always has its complete bytes: no order of uploads, upserts,
\* removes, copies and interrupted requests, and no recovery between them, shows
\* metadata whose bytes were never promoted or are already deleted.
ReadyBacked == \A v \in Versions : state[v] = "ready" => final[v] = "whole"

\* The newest version that ever became ready on a path is still the visible one
\* unless a remove, a bucket-wide delete or an integrity check hit that very
\* version: an upsert, also one that raced or was interrupted, retires only
\* older objects, so a replaced object is visible until its successor is.
NewestStands ==
  \A p \in Paths :
    newest[p] # NoRow => state[newest[p]] = "ready" \/ newest[p] \in condemned

\* When recover() has finished on a quiet service nothing is half done: no row
\* is left in staging or deleting, every ready row has bytes and every final key
\* has a row that accounts for it.
RecoveredClean ==
  rpc = "done" =>
    \A v \in Versions :
      /\ state[v] \notin {"staging", "deleting"}
      /\ state[v] = "ready" => final[v] # "none"
      /\ final[v] # "none" => state[v] # "none"

\* A version that has left the visible state (replaced, removed, flagged or
\* dropped) never becomes visible again, whatever raced with it.
NoResurrection ==
  [][\A v \in Versions :
       /\ state[v] \in {"deleting", "corrupt"} => state'[v] # "ready"
       /\ v \in condemned /\ state[v] # "ready" => state'[v] # "ready"]_vars

\* A request whose staging row stands never loses its staged bytes to the
\* garbage collection of a recovery that runs beside it.
LiveStagedKept ==
  \A c \in Clients :
    req[c].pc = "promote" /\ state[req[c].ver] = "staging" => req[c].ver \in staged

\* A staged blob that recover() counts as deleted is gone, and no upload that was
\* under way brings it back.
ReapedGone == reaped \cap staged = {}

\* An upsert that has retired what it replaced, with no other request under way,
\* leaves one ready row on its path: a retry after an interruption does not
\* duplicate the object.
RetryNotDuplicated ==
  \A c \in Clients :
    /\ req[c].pc = "respond" /\ req[c].op = "upsert"
    /\ \A d \in Clients \ {c} : req[d].pc = "idle"
    => \A v, w \in RowsIn({"ready"}) : path[v] = req[c].at /\ path[w] = req[c].at => v = w

================================================================================
