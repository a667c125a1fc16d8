----------------------------- MODULE StorageProofs -----------------------------
(******************************************************************************)
(* Proofs about Storage, for every number of requests, paths and uploads.     *)
(*                                                                            *)
(* The two safety invariants hold when recover() runs on a quiet service;     *)
(* ReadyBacked needs in addition that nobody empties the bucket and that the  *)
(* adapter promotes atomically.  They follow from one inductive invariant,    *)
(* whose heart is ownership: the version a request is uploading belongs to    *)
(* that request alone, has never been visible, and is nobody's target.        *)
(******************************************************************************)
EXTENDS Storage, TLAPS

\* Places of upload() at which its version has not been committed.
Pre == {"reserve", "put", "unreserve", "promote", "fill", "commit", "discard"}

Deleting == {"mark", "bytes", "row"}

Uploading(c) == req[c].pc \in Pre

\* Versions not handed out yet have left no trace.
Unused ==
  \A v \in Versions : v > used => state[v] = "none" /\ \A p \in Paths : newest[p] # v

\* A request owns the version it uploads: it has never been visible.
Own(c) ==
  Uploading(c) =>
    /\ req[c].ver \in 1..used
    /\ req[c].op # "remove"
    /\ path[req[c].ver] = req[c].at
    /\ state[req[c].ver] \in {"none", "staging"}
    /\ req[c].pc \in {"reserve", "discard"} => state[req[c].ver] = "none"
    /\ \A p \in Paths : newest[p] # req[c].ver

\* No two requests upload one version, and nobody's target is being uploaded.
Distinct ==
  \A c, d \in Clients : Uploading(c) =>
    /\ Uploading(d) /\ req[d].ver = req[c].ver => c = d
    /\ req[d].prior # req[c].ver

\* A row that was looked up has been visible, and is hidden before its bytes go.
Found(c) ==
  /\ req[c].prior # NoRow => req[c].prior \in 1..used /\ state[req[c].prior] # "staging"
  /\ req[c].pc \in Deleting \cup {"open", "flag"} => req[c].prior # NoRow
  /\ req[c].pc \in {"bytes", "row"} => state[req[c].prior] # "ready"

\* What a request may delete: a removed version is condemned, a replaced one is
\* older than the newest of its path.
Retire(c) ==
  /\ Uploading(c) /\ req[c].prior # NoRow =>
       req[c].prior < req[c].ver /\ path[req[c].prior] = req[c].at
  /\ req[c].pc \in Deleting /\ req[c].op # "remove" =>
       /\ path[req[c].prior] = req[c].at
       /\ req[c].prior < newest[req[c].at]
  /\ req[c].pc \in {"bytes", "row"} /\ req[c].op = "remove" => req[c].prior \in condemned
  /\ req[c].pc \notin {"idle", "emptying", "drop"} =>
       req[c].at \in Paths /\ req[c].src \in Paths
  /\ req[c].pc \in {"prior", "open", "respond"} => req[c].op # "remove"

Staging ==
  \A v \in Versions : state[v] = "staging" => path[v] \in Paths /\ \A p \in Paths : newest[p] # v

NewestPath == \A p \in Paths : newest[p] # NoRow => path[newest[p]] = p

\* Recovery runs alone, and its snapshot stays accurate.
Recovering ==
  /\ rpc \notin {"off", "done"} => \A c \in Clients : req[c].pc = "idle"
  /\ rpc \in {"rows", "promote", "abort", "bytes", "row"} =>
       \A v \in rtodo : state[v] = IF v \in rstaging THEN "staging" ELSE "deleting"
  /\ rpc \in {"promote", "abort"} => rcur \in Versions /\ state[rcur] = "staging"
  /\ rpc \in {"bytes", "row"} => rcur \in Versions /\ state[rcur] = "deleting"
  /\ rpc \in {"promote", "abort", "bytes", "row"} => rcur \notin rtodo
  /\ rpc = "flag" => rcur \in Versions

Targets ==
  /\ \A c \in Clients :
       /\ Uploading(c) => req[c].ver \in Versions
       /\ req[c].pc \in Deleting \cup {"open", "flag"} => req[c].prior \in Versions
  /\ rpc = "flag" => rcur \in Versions

TypeInv == TypeOK /\ Targets

Ordered ==
  /\ Unused /\ Distinct /\ Staging /\ NewestPath /\ Recovering
  /\ \A c \in Clients : Own(c) /\ Found(c) /\ Retire(c)

OrderInv == TypeInv /\ Ordered /\ NewestStands

\* Bytes: promoted as a whole before the commit, and deleted only behind a
\* hidden row.
Bytes ==
  /\ \A v \in Versions : final[v] # "empty"
  /\ \A c \in Clients : req[c].pc # "emptying" /\ req[c].pc # "fill"
  /\ \A c \in Clients : req[c].pc = "commit" => final[req[c].ver] = "whole"
  /\ rpc = "promote" => final[rcur] = "whole"

BytesInv == Bytes /\ ReadyBacked

--------------------------------------------------------------------------------
(* Type correctness.  Inductive only together with the fact that a request    *)
(* that is about to write names a version.                                    *)

USE DEF vars, rowVars, blobVars, recoverVars, historyVars

LEMMA IdleType == Idle \in RequestRecords
  BY DEF Idle, RequestRecords, PcLabels, NoRow

LEMMA TypeInit == Init => TypeInv
<1> SUFFICES ASSUME Init PROVE TypeInv
  OBVIOUS
<1>1. TypeOK
  BY IdleType, BoundAssumption
  DEF Init, TypeOK, Versions, RowStates, BlobStates, RpcLabels, NoRow
<1>2. Targets
  BY DEF Init, Targets, Uploading, Pre, Deleting, Idle
<1> QED
  BY <1>1, <1>2 DEF TypeInv

\* The two ways a request's record changes when only its place does.
LEMMA GotoType ==
  ASSUME NEW c \in Clients, NEW l \in PcLabels, req \in [Clients -> RequestRecords], Goto(c, l)
  PROVE  /\ req' \in [Clients -> RequestRecords]
         /\ req'[c].pc = l
         /\ req'[c].op = req[c].op /\ req'[c].at = req[c].at /\ req'[c].src = req[c].src
         /\ req'[c].prior = req[c].prior /\ req'[c].ver = req[c].ver
         /\ \A d \in Clients : d # c => req'[d] = req[d]
<1>1. req' = [req EXCEPT ![c] = [req[c] EXCEPT !.pc = l]]
  BY DEF Goto
<1>2. req[c] \in RequestRecords /\ [req[c] EXCEPT !.pc = l] \in RequestRecords
  BY DEF RequestRecords
<1> QED
  BY <1>1, <1>2 DEF RequestRecords

LEMMA FinishType ==
  ASSUME NEW c \in Clients, req \in [Clients -> RequestRecords], Finish(c)
  PROVE  /\ req' \in [Clients -> RequestRecords]
         /\ req'[c] = Idle
         /\ \A d \in Clients : d # c => req'[d] = req[d]
  BY IdleType DEF Finish

LEMMA TypeStart ==
  ASSUME NEW c \in Clients, TypeInv, Start(c)
  PROVE  TypeInv'
<1> USE OptionsAssumption
<1>1. ASSUME NEW o \in AllOps, NEW p \in Paths \cup {NoPath}, NEW q \in Paths \cup {NoPath},
             NEW l \in {"prior", "find", "emptying", "drop"}, NEW rows \in SUBSET Versions,
             Begin(c, o, p, q, l, rows)
      PROVE  TypeInv'
  <2> DEFINE r == [Idle EXCEPT !.pc = l, !.op = o, !.at = p, !.src = q, !.todo = rows]
  <2>1. r \in RequestRecords /\ r.pc = l
    BY IdleType DEF RequestRecords, Idle, PcLabels
  <2>2. req' = [req EXCEPT ![c] = r]
    BY <1>1 DEF Begin
  <2>3. rpc' \in RpcLabels /\ (rpc' = "flag" => rpc = "flag")
    BY <1>1 DEF Begin, LeaveRecovered, TypeInv, TypeOK, RpcLabels
  <2> HIDE DEF r
  <2>4. TypeOK'
    BY <1>1, <2>1, <2>2, <2>3 DEF Begin, TypeInv, TypeOK
  <2>5. Targets'
    BY <1>1, <2>1, <2>2, <2>3 DEF Begin, TypeInv, TypeOK, Targets, Uploading, Pre, Deleting
  <2> QED
    BY <2>4, <2>5 DEF TypeInv
<1>2. CASE StartUpload(c)
  BY <1>1, <1>2 DEF StartUpload, AllOps
<1>3. CASE StartOnObject(c)
  BY <1>1, <1>3 DEF StartOnObject, AllOps
<1>4. CASE StartCopy(c)
  BY <1>1, <1>4 DEF StartCopy, AllOps
<1>5. CASE StartEmpty(c)
  BY <1>1, <1>5 DEF StartEmpty, AllOps, Rows
<1>6. CASE StartDrop(c)
  BY <1>1, <1>6 DEF StartDrop, AllOps
<1>7. CASE CreateBucket(c)
  BY <1>7 DEF CreateBucket, LeaveRecovered, TypeInv, TypeOK, RpcLabels, Targets, Uploading
<1> QED
  BY <1>2, <1>3, <1>4, <1>5, <1>6, <1>7 DEF Start

LEMMA TypeUpload ==
  ASSUME NEW c \in Clients, TypeInv,
         \/ ReadPrior(c) \/ RefuseExisting(c) \/ Reserve(c) \/ PutStaged(c)
         \/ Unreserve(c) \/ Promote(c) \/ Fill(c) \/ CommitReady(c) \/ Discard(c)
         \/ Respond(c)
  PROVE  TypeInv'
<1> USE DEF TypeInv, TypeOK, Targets, Uploading, Pre, Deleting
<1>a. ASSUME Finish(c), rpc' = rpc, rcur' = rcur
      PROVE  req' \in [Clients -> RequestRecords] /\ Targets'
  BY <1>a, FinishType DEF Idle
<1>b. ASSUME NEW l \in PcLabels, Goto(c, l), rpc' = rpc, rcur' = rcur,
             l \in Pre => req[c].ver \in Versions,
             l \in Deleting \cup {"open", "flag"} => req[c].prior \in Versions
      PROVE  req' \in [Clients -> RequestRecords] /\ Targets'
  BY <1>b, GotoType
<1>1. CASE ReadPrior(c)
  <2>1. used + 1 \in Versions /\ used + 1 \in 0..MaxUploads
    <3>1. used \in 0..MaxUploads /\ used < MaxUploads
      BY <1>1 DEF ReadPrior
    <3> QED
      BY <3>1, BoundAssumption DEF Versions
  <2>2. PICK v \in FirstOf(CurrentReady(req[c].at)) :
          req' = [req EXCEPT ![c].pc = "reserve", ![c].prior = v, ![c].ver = used + 1]
    BY <1>1 DEF ReadPrior
  <2>3. v \in Versions \cup {NoRow}
    BY <2>2 DEF FirstOf, CurrentReady, RowsIn
  <2> DEFINE r == [req[c] EXCEPT !.pc = "reserve", !.prior = v, !.ver = used + 1]
  <2>4. req' = [req EXCEPT ![c] = r]
    BY <2>2
  <2>5. r \in RequestRecords /\ r.pc = "reserve" /\ r.ver = used + 1
    BY <2>1, <2>3, ZenonT(60) DEF RequestRecords, PcLabels
  <2> HIDE DEF r
  <2>8. req' \in [Clients -> RequestRecords] /\ Targets'
    BY <1>1, <2>1, <2>4, <2>5 DEF ReadPrior
  <2>6. created' \in [Versions -> Nat]
    <3>1. PICK t \in ClockReadings : created' = [created EXCEPT ![used + 1] = t]
      BY <1>1 DEF ReadPrior
    <3>2. used # 0 => used \in Versions
      BY DEF Versions
    <3>3. t \in Nat
      BY <3>1, <3>2 DEF ClockReadings
    <3> QED
      BY <3>1, <3>3
  <2>7. path' \in [Versions -> Paths \cup {NoPath}]
    BY <1>1 DEF ReadPrior, RequestRecords
  <2> QED
    BY <1>1, <2>1, <2>6, <2>7, <2>8 DEF ReadPrior
<1>2. CASE RefuseExisting(c)
  BY <1>2, <1>a DEF RefuseExisting
<1>3. CASE Reserve(c)
  BY <1>3, <1>a, <1>b DEF Reserve, RowStates, PcLabels
<1>4. CASE PutStaged(c)
  BY <1>4, <1>b DEF PutStaged, PcLabels
<1>5. CASE Unreserve(c)
  BY <1>5, <1>a DEF Unreserve, DeleteById, RowStates
<1>6. CASE Promote(c)
  BY <1>6, <1>b DEF Promote, BlobStates, PcLabels
<1>7. CASE Fill(c)
  BY <1>7, <1>b DEF Fill, BlobStates, PcLabels
<1>8. CASE CommitReady(c)
  <2>1. req[c].ver \in Versions /\ req[c].prior \in Versions \cup {NoRow}
    BY <1>8 DEF CommitReady, RequestRecords
  <2>2. req' \in [Clients -> RequestRecords] /\ Targets'
    BY <1>8, <2>1, <1>b DEF CommitReady, PcLabels
  <2>3. newest' \in [Paths -> Versions \cup {NoRow}] /\ state' \in [Versions -> RowStates]
    BY <1>8, <2>1 DEF CommitReady, BecomesReady, RowStates
  <2> QED
    BY <1>8, <2>2, <2>3 DEF CommitReady
<1>9. CASE Discard(c)
  BY <1>9, <1>a DEF Discard, DeleteFinal, BlobStates
<1>10. CASE Respond(c)
  <2>1. CASE Finish(c)
    BY <1>10, <2>1, <1>a DEF Respond
  <2>2. CASE ~Finish(c)
    <3> DEFINE r == [Idle EXCEPT !.pc = "find", !.op = "remove", !.at = req[c].src,
                                 !.src = req[c].src]
    <3>1. req' = [req EXCEPT ![c] = r]
      BY <1>10, <2>2 DEF Respond
    <3>2. r \in RequestRecords /\ r.pc = "find"
      BY IdleType DEF RequestRecords, Idle, PcLabels, AllOps
    <3> HIDE DEF r
    <3> QED
      BY <1>10, <3>1, <3>2 DEF Respond
  <2> QED
    BY <2>1, <2>2
<1> QED
  BY <1>1, <1>2, <1>3, <1>4, <1>5, <1>6, <1>7, <1>8, <1>9, <1>10

LEMMA TypeObject ==
  ASSUME NEW c \in Clients, TypeInv,
         \/ FindTarget(c) \/ MarkDeleting(c) \/ DeleteBytes(c) \/ DeleteRow(c)
         \/ OpenBytes(c) \/ OpenFails(c) \/ FlagCorrupt(c) \/ EmptyBytes(c)
         \/ EmptyRows(c) \/ DropBucket(c) \/ Stop(c)
  PROVE  TypeInv'
<1> USE DEF TypeInv, TypeOK, Targets, Uploading, Pre, Deleting
<1>a. ASSUME Finish(c), rpc' = rpc, rcur' = rcur
      PROVE  req' \in [Clients -> RequestRecords] /\ Targets'
  BY <1>a, FinishType DEF Idle
<1>b. ASSUME NEW l \in PcLabels, Goto(c, l), rpc' = rpc, rcur' = rcur,
             l \in Pre => req[c].ver \in Versions,
             l \in Deleting \cup {"open", "flag"} => req[c].prior \in Versions
      PROVE  req' \in [Clients -> RequestRecords] /\ Targets'
  BY <1>b, GotoType
<1>c. Rows \subseteq Versions
  BY DEF Rows
<1>1. CASE FindTarget(c)
  <2>1. CASE Finish(c)
    BY <1>1, <2>1, <1>a DEF FindTarget
  <2>2. ASSUME NEW p, NEW v \in CurrentReady(p), NEW l \in {"mark", "open"},
               req' = [req EXCEPT ![c].prior = v, ![c].pc = l]
        PROVE  req' \in [Clients -> RequestRecords] /\ Targets'
    <3> DEFINE r == [req[c] EXCEPT !.prior = v, !.pc = l]
    <3>1. req' = [req EXCEPT ![c] = r]
      BY <2>2
    <3>2. v \in Versions
      BY <2>2 DEF CurrentReady, RowsIn
    <3>3. r \in RequestRecords /\ r.pc = l /\ r.prior = v
      BY <3>2, ZenonT(60) DEF RequestRecords, PcLabels
    <3> HIDE DEF r
    <3> QED
      BY <1>1, <3>1, <3>2, <3>3 DEF FindTarget
  <2>3. req' \in [Clients -> RequestRecords] /\ Targets'
    BY <1>1, <2>1, <2>2 DEF FindTarget
  <2> QED
    BY <1>1, <2>3 DEF FindTarget
<1>2. CASE MarkDeleting(c)
  BY <1>2, <1>b, <1>c DEF MarkDeleting, UpdateById, Condemn, RowStates, PcLabels
<1>3. CASE DeleteBytes(c)
  BY <1>3, <1>b DEF DeleteBytes, DeleteFinal, BlobStates, PcLabels
<1>4. CASE DeleteRow(c)
  BY <1>4, <1>a, <1>b DEF DeleteRow, DeleteById, RowStates, PcLabels
<1>5. CASE OpenBytes(c)
  BY <1>5, <1>a, <1>b DEF OpenBytes, PcLabels
<1>6. CASE OpenFails(c)
  BY <1>6, <1>a, <1>b DEF OpenFails, PcLabels
<1>7. CASE FlagCorrupt(c)
  BY <1>7, <1>a, <1>c DEF FlagCorrupt, UpdateById, Condemn, RowStates
<1>8. CASE EmptyBytes(c)
  <2>1. PICK v \in req[c].todo : /\ DeleteFinal(v)
                                 /\ req' = [req EXCEPT ![c].todo = @ \ {v}]
    BY <1>8 DEF EmptyBytes
  <2> DEFINE r == [req[c] EXCEPT !.todo = req[c].todo \ {v}]
  <2>2. req' = [req EXCEPT ![c] = r]
    BY <2>1
  <2>3. r \in RequestRecords /\ r.pc = "emptying"
    BY <1>8 DEF EmptyBytes, RequestRecords
  <2> HIDE DEF r
  <2>4. req' \in [Clients -> RequestRecords] /\ Targets'
    BY <1>8, <2>2, <2>3 DEF EmptyBytes
  <2>5. final' \in [Versions -> BlobStates]
    BY <2>1 DEF DeleteFinal, BlobStates
  <2> QED
    BY <1>8, <2>4, <2>5 DEF EmptyBytes
<1>9. CASE EmptyRows(c)
  BY <1>9, <1>a, <1>c DEF EmptyRows, Condemn, RowStates
<1>10. CASE DropBucket(c)
  BY <1>10, <1>a, <1>c DEF DropBucket, Condemn, RowStates
<1>11. CASE Stop(c)
  BY <1>11, <1>a DEF Stop
<1> QED
  BY <1>1, <1>2, <1>3, <1>4, <1>5, <1>6, <1>7, <1>8, <1>9, <1>10, <1>11

LEMMA TypeRecover ==
  ASSUME TypeInv, Recover
  PROVE  TypeInv'
<1> USE DEF TypeInv, TypeOK, Targets, Uploading, RpcLabels
<1>1. CASE RecoverStart \/ RecoverReady \/ RecoverList \/ RecoverDone \/ RecoverStop
  BY <1>1 DEF RecoverStart, RecoverReady, RecoverList, RecoverDone, RecoverStop, RowsIn, NoRow
<1>2. CASE RecoverPromote
  <2>1. state' \in [Versions -> RowStates] /\ newest' \in [Paths -> Versions \cup {NoRow}]
    BY <1>2 DEF RecoverPromote, BecomesReady, RowStates
  <2> QED
    BY <1>2, <2>1 DEF RecoverPromote, NoRow
<1>3. CASE RecoverAbort \/ RecoverDeleteRow
  BY <1>3 DEF RecoverAbort, RecoverDeleteRow, DeleteById, RowStates, NoRow
<1>4. CASE RecoverDeleteBytes
  BY <1>4 DEF RecoverDeleteBytes, DeleteFinal, BlobStates
<1>5. CASE RecoverFlag
  BY <1>5 DEF RecoverFlag, UpdateById, Condemn, RowStates, NoRow
<1>6. ASSUME NEW v \in Versions, RecoverStat(v)
      PROVE  TypeInv'
  BY <1>6 DEF RecoverStat
<1>7. ASSUME NEW v \in Versions, RecoverCheck(v)
      PROVE  TypeInv'
  BY <1>7 DEF RecoverCheck
<1>8. ASSUME NEW v \in Versions, RecoverReap(v)
      PROVE  TypeInv'
  BY <1>8 DEF RecoverReap
<1> QED
  BY <1>1, <1>2, <1>3, <1>4, <1>5, <1>6, <1>7, <1>8 DEF Recover

LEMMA TypeNext == TypeInv /\ [Next]_vars => TypeInv'
<1> SUFFICES ASSUME TypeInv, [Next]_vars
             PROVE  TypeInv'
  OBVIOUS
<1>1. ASSUME NEW c \in Clients, Start(c) \/ Step(c) \/ Stop(c)
      PROVE  TypeInv'
  BY <1>1, TypeStart, TypeUpload, TypeObject DEF Step
<1>2. CASE Recover
  BY <1>2, TypeRecover
<1>3. CASE UNCHANGED vars
  BY <1>3 DEF TypeInv, TypeOK, Targets, Uploading
<1> QED
  BY <1>1, <1>2, <1>3 DEF Next

\* Type correctness of the store, the requests and the recovery, in every profile.
THEOREM StorageTypeCorrect == Spec => []TypeOK
<1>1. TypeInv => TypeOK
  BY DEF TypeInv
<1> QED
  BY TypeInit, TypeNext, <1>1, PTL DEF Spec

--------------------------------------------------------------------------------
(* The inductive invariant, when recover() runs on a quiet service.           *)

USE DEF OrderInv, TypeInv

LEMMA OrderInit == Init => OrderInv
<1> SUFFICES ASSUME Init PROVE OrderInv
  OBVIOUS
<1>1. Ordered
  BY BoundAssumption, PathsAssumption
  DEF Init, Ordered, Unused, Distinct, Staging, NewestPath, Recovering, Own, Found, Retire,
      Uploading, Pre, Deleting, Idle, Versions, NoRow
<1>2. NewestStands
  BY DEF Init, NewestStands, NoRow
<1> QED
  BY <1>1, <1>2, TypeInit

\* While a request is at work, or is let in, recover() is not running.
LEMMA Serving ==
  ASSUME OrderInv, ~OnlineRecovery, NEW c \in Clients, req[c].pc # "idle" \/ MayServe
  PROVE  rpc \in {"off", "done"}
  BY DEF Ordered, Recovering, MayServe, Idle

\* A step that changes nothing but one request's record, and takes neither a new
\* version nor a new target, keeps the invariant if the record itself is right.
LEMMA RequestOnly ==
  ASSUME OrderInv, TypeInv', NEW c \in Clients,
         rpc \in {"off", "done"}, rpc' \in {"off", "done"},
         UNCHANGED <<state, path, used, newest>>, condemned \subseteq condemned',
         \A d \in Clients : d # c => req'[d] = req[d],
         Uploading(c)' => Uploading(c) /\ req'[c].ver = req[c].ver,
         req'[c].prior \in {NoRow, req[c].prior},
         Own(c)' /\ Found(c)' /\ Retire(c)'
  PROVE  OrderInv'
<1>1. \A d \in Clients : Own(d)' /\ Found(d)' /\ Retire(d)'
  <2> SUFFICES ASSUME NEW d \in Clients, d # c
               PROVE  Own(d)' /\ Found(d)' /\ Retire(d)'
    OBVIOUS
  <2>1. req'[d] = req[d] /\ Own(d) /\ Found(d) /\ Retire(d)
    BY DEF Ordered
  <2> QED
    BY <2>1 DEF Own, Found, Retire, Uploading
<1>2. Distinct'
  <2>1. \A d \in Clients : Uploading(d)' => Uploading(d) /\ req'[d].ver = req[d].ver
    BY DEF Uploading
  <2>2. \A d \in Clients : req'[d].prior \in {NoRow, req[d].prior}
    OBVIOUS
  <2>3. \A d \in Clients : Uploading(d) => req[d].ver # NoRow
    BY DEF Targets, Versions, NoRow
  <2> QED
    BY <2>1, <2>2, <2>3 DEF Ordered, Distinct
<1>3. Unused' /\ Staging' /\ NewestPath' /\ NewestStands'
  BY DEF Ordered, Unused, Staging, NewestPath, NewestStands
<1>4. Recovering'
  BY DEF Recovering
<1> QED
  BY <1>1, <1>2, <1>3, <1>4 DEF Ordered

LEMMA OrderStart ==
  ASSUME OrderInv, ~OnlineRecovery, NEW c \in Clients, Start(c)
  PROVE  OrderInv'
<1>0. TypeInv'
  BY TypeStart
<1>1. ASSUME NEW o \in AllOps, NEW p, NEW q, NEW rows,
             NEW l \in {"prior", "find", "emptying", "drop"},
             Begin(c, o, p, q, l, rows),
             l \in {"prior", "find"} => p \in Paths /\ q \in Paths,
             l = "prior" => o # "remove"
      PROVE  OrderInv'
  <2> DEFINE r == [Idle EXCEPT !.pc = l, !.op = o, !.at = p, !.src = q, !.todo = rows]
  <2>1. r.pc = l /\ r.op = o /\ r.at = p /\ r.src = q /\ r.prior = NoRow
    BY DEF Idle
  <2>2. req' = [req EXCEPT ![c] = r]
    BY <1>1 DEF Begin
  <2> HIDE DEF r
  <2>3. req'[c] = r /\ \A d \in Clients : d # c => req'[d] = req[d]
    BY <2>2 DEF TypeOK
  <2>4. rpc \in {"off", "done"} /\ rpc' \in {"off", "done"}
    BY <1>1, Serving DEF Begin, LeaveRecovered
  <2>5. Own(c)' /\ Found(c)' /\ Retire(c)' /\ ~Uploading(c)'
    BY <1>1, <2>1, <2>3 DEF Own, Found, Retire, Uploading, Pre, Deleting, NoRow
  <2> QED
    BY <1>0, <1>1, <2>1, <2>3, <2>4, <2>5, RequestOnly DEF Begin
<1>2. CASE StartUpload(c)
  BY <1>1, <1>2 DEF StartUpload, AllOps
<1>3. CASE StartOnObject(c)
  BY <1>1, <1>3 DEF StartOnObject, AllOps
<1>4. CASE StartCopy(c)
  BY <1>1, <1>4 DEF StartCopy, AllOps
<1>5. CASE StartEmpty(c)
  BY <1>1, <1>5 DEF StartEmpty, AllOps
<1>6. CASE StartDrop(c)
  BY <1>1, <1>6 DEF StartDrop, AllOps
<1>7. CASE CreateBucket(c)
  <2>1. rpc \in {"off", "done"} /\ rpc' \in {"off", "done"}
    BY <1>7, Serving DEF CreateBucket, LeaveRecovered
  <2> QED
    BY <1>0, <1>7, <2>1, RequestOnly
    DEF CreateBucket, Ordered, Own, Found, Retire, Uploading
<1> QED
  BY <1>2, <1>3, <1>4, <1>5, <1>6, <1>7 DEF Start

\* A request ends and leaves the rows alone.
LEMMA OrderFinish ==
  ASSUME OrderInv, ~OnlineRecovery, NEW c \in Clients, Finish(c), TypeInv',
         req[c].pc # "idle", UNCHANGED <<rpc, state, path, used, newest, condemned>>
  PROVE  OrderInv'
<1>1. req'[c] = Idle /\ \A d \in Clients : d # c => req'[d] = req[d]
  BY FinishType DEF TypeOK
<1>2. Own(c)' /\ Found(c)' /\ Retire(c)' /\ ~Uploading(c)' /\ req'[c].prior = NoRow
  BY <1>1 DEF Own, Found, Retire, Uploading, Pre, Deleting, Idle
<1> QED
  BY <1>1, <1>2, Serving, RequestOnly

\* A request moves on and leaves the rows alone.
LEMMA OrderGoto ==
  ASSUME OrderInv, ~OnlineRecovery, NEW c \in Clients, NEW l \in PcLabels, Goto(c, l), TypeInv',
         req[c].pc \notin {"idle", "emptying", "drop"},
         UNCHANGED <<rpc, state, path, used, newest, condemned>>,
         l \in Pre => /\ Uploading(c)
                      /\ l \in {"reserve", "discard"} => state[req[c].ver] = "none",
         l \in {"open", "flag"} => req[c].prior # NoRow,
         l \in Deleting => req[c].pc \in Deleting /\ (req[c].pc = "mark" => l = "mark"),
         l \in {"prior", "open", "respond"} => req[c].op # "remove"
  PROVE  OrderInv'
<1>1. /\ req'[c].pc = l
      /\ req'[c].op = req[c].op /\ req'[c].at = req[c].at /\ req'[c].src = req[c].src
      /\ req'[c].prior = req[c].prior /\ req'[c].ver = req[c].ver
      /\ \A d \in Clients : d # c => req'[d] = req[d]
  BY GotoType DEF TypeOK
<1>2. Own(c) /\ Found(c) /\ Retire(c)
  BY DEF Ordered
<1>3. Own(c)'
  BY <1>1, <1>2 DEF Own, Uploading
<1>4. Found(c)'
  BY <1>1, <1>2 DEF Found, Deleting
<1>5. Retire(c)'
  BY <1>1, <1>2 DEF Retire, Uploading, Deleting
<1>6. Uploading(c)' => Uploading(c)
  BY <1>1 DEF Uploading
<1> QED
  BY <1>1, <1>3, <1>4, <1>5, <1>6, Serving, RequestOnly

\* A row is hidden or deleted: allowed when it is nobody's upload unless it
\* goes altogether, and when it is not the newest visible one of its path.
LEMMA RowHidden ==
  ASSUME OrderInv, TypeInv', NEW c \in Clients, NEW v \in Versions,
         NEW x \in {"none", "deleting", "corrupt"},
         rpc \in {"off", "done"}, UNCHANGED rpc,
         state' = [state EXCEPT ![v] = x],
         x = "none" \/ state[v] \notin {"none", "staging"},
         UNCHANGED <<path, used, newest>>, condemned \subseteq condemned',
         \A p \in Paths : newest[p] = v => v \in condemned' \/ state[v] # "ready",
         \A d \in Clients : d # c => req'[d] = req[d],
         Uploading(c)' => Uploading(c) /\ req'[c].ver = req[c].ver,
         req'[c].prior \in {NoRow, req[c].prior},
         Own(c)' /\ Found(c)' /\ Retire(c)'
  PROVE  OrderInv'
<1>a. /\ state'[v] = x
      /\ \A w \in Versions : w # v => state'[w] = state[w]
  BY DEF TypeOK
<1>b. \A n \in 1..used : n \in Versions
  BY BoundAssumption DEF TypeOK, Versions
<1>1. \A d \in Clients : Own(d)' /\ Found(d)' /\ Retire(d)'
  <2> SUFFICES ASSUME NEW d \in Clients, d # c
               PROVE  Own(d)' /\ Found(d)' /\ Retire(d)'
    OBVIOUS
  <2>1. req'[d] = req[d] /\ Own(d) /\ Found(d) /\ Retire(d)
    BY DEF Ordered
  <2>2. Own(d)'
    BY <1>a, <1>b, <2>1 DEF Own, Uploading
  <2>3. Found(d)'
    BY <1>a, <1>b, <2>1, BoundAssumption DEF Found, Deleting, NoRow
  <2>4. Retire(d)'
    BY <2>1 DEF Retire, Uploading
  <2> QED
    BY <2>2, <2>3, <2>4
<1>2. Distinct'
  <2>1. \A d \in Clients : Uploading(d)' => Uploading(d) /\ req'[d].ver = req[d].ver
    BY DEF Uploading
  <2>2. \A d \in Clients : req'[d].prior \in {NoRow, req[d].prior}
    OBVIOUS
  <2>3. \A d \in Clients : Uploading(d) => req[d].ver # NoRow
    BY DEF Targets, Versions, NoRow
  <2> QED
    BY <2>1, <2>2, <2>3 DEF Ordered, Distinct
<1>3. Unused' /\ Staging' /\ NewestPath'
  BY <1>a DEF Ordered, Unused, Staging, NewestPath
<1>4. NewestStands'
  BY <1>a DEF NewestStands, TypeOK
<1>5. Recovering'
  BY DEF Recovering
<1> QED
  BY <1>1, <1>2, <1>3, <1>4, <1>5 DEF Ordered

LEMMA OrderMark ==
  ASSUME OrderInv, ~OnlineRecovery, NEW c \in Clients, MarkDeleting(c)
  PROVE  OrderInv'
<1>0. TypeInv' /\ rpc \in {"off", "done"} /\ rpc' = rpc /\ req[c].prior \in Versions
  BY TypeObject, Serving DEF MarkDeleting, Targets, Deleting
<1> DEFINE v == req[c].prior
<1>1. /\ req'[c].pc = "bytes"
      /\ req'[c].op = req[c].op /\ req'[c].at = req[c].at /\ req'[c].src = req[c].src
      /\ req'[c].prior = v
      /\ \A d \in Clients : d # c => req'[d] = req[d]
  BY GotoType DEF MarkDeleting, TypeOK, PcLabels
<1>2. Own(c) /\ Found(c) /\ Retire(c)
  BY DEF Ordered
<1>3. state'[v] \in {"none", "deleting"}
  BY <1>0 DEF MarkDeleting, UpdateById, Rows, TypeOK
<1>4. Own(c)' /\ ~Uploading(c)'
  BY <1>1 DEF Own, Uploading, Pre
<1>5. Found(c)'
  BY <1>1, <1>2, <1>3 DEF MarkDeleting, Found, Deleting
<1>6. Retire(c)'
  BY <1>1, <1>2 DEF MarkDeleting, Retire, Uploading, Deleting, Pre, Condemn
<1>7. \A p \in Paths : newest[p] = v => v \in condemned'
  <2> SUFFICES ASSUME NEW p \in Paths, newest[p] = v, req[c].op # "remove"
               PROVE  FALSE
    BY DEF MarkDeleting, Condemn
  <2>1. path[v] = req[c].at /\ v < newest[req[c].at]
    BY <1>2 DEF Retire, MarkDeleting, Deleting
  <2>2. path[newest[p]] = p
    BY <1>0, BoundAssumption DEF Ordered, NewestPath, Versions, NoRow
  <2> QED
    BY <1>0, <2>1, <2>2, BoundAssumption DEF Versions
<1>8. condemned \subseteq condemned' /\ UNCHANGED <<path, used, newest>>
  BY DEF MarkDeleting, Condemn
<1>9. CASE v \in Rows
  <2>1. state' = [state EXCEPT ![v] = "deleting"] /\ state[v] \notin {"none", "staging"}
    BY <1>0, <1>2, <1>9, BoundAssumption
    DEF MarkDeleting, UpdateById, Rows, Found, Versions, NoRow
  <2> QED
    BY <1>0, <1>1, <1>4, <1>5, <1>6, <1>7, <1>8, <2>1, RowHidden, ZenonT(60)
<1>10. CASE v \notin Rows
  <2>1. state' = state
    BY <1>10 DEF MarkDeleting, UpdateById
  <2> QED
    BY <1>0, <1>1, <1>4, <1>5, <1>6, <1>8, <2>1, RequestOnly
<1> QED
  BY <1>9, <1>10

LEMMA OrderDelete ==
  ASSUME OrderInv, ~OnlineRecovery, NEW c \in Clients,
         DeleteRow(c) \/ FlagCorrupt(c) \/ Unreserve(c)
  PROVE  OrderInv'
<1>0. TypeInv' /\ rpc \in {"off", "done"} /\ rpc' = rpc
  BY TypeObject, TypeUpload, Serving DEF DeleteRow, FlagCorrupt, Unreserve
<1>1. Own(c) /\ Found(c) /\ Retire(c)
  BY DEF Ordered
<1>2. condemned \subseteq condemned' /\ UNCHANGED <<path, used, newest>>
  BY DEF DeleteRow, FlagCorrupt, Unreserve, Condemn
<1>a. ASSUME Finish(c)
      PROVE  /\ Own(c)' /\ Found(c)' /\ Retire(c)' /\ ~Uploading(c)' /\ req'[c].prior = NoRow
             /\ \A d \in Clients : d # c => req'[d] = req[d]
  BY <1>a, FinishType DEF TypeOK, Own, Found, Retire, Uploading, Pre, Deleting, Idle
<1>3. CASE DeleteRow(c)
  <2> DEFINE v == req[c].prior
  <2>1. v \in Versions /\ state[v] # "ready" /\ state' = [state EXCEPT ![v] = "none"]
    BY <1>1, <1>3 DEF DeleteRow, DeleteById, Targets, Deleting, Found
  <2>2. CASE Finish(c)
    BY <1>0, <1>2, <1>a, <2>1, <2>2, RowHidden
  <2>3. CASE req[c].op # "remove" /\ Goto(c, "respond")
    <3>1. /\ req'[c].pc = "respond"
          /\ req'[c].op = req[c].op /\ req'[c].at = req[c].at /\ req'[c].src = req[c].src
          /\ req'[c].prior = v
          /\ \A d \in Clients : d # c => req'[d] = req[d]
      BY <2>3, GotoType DEF TypeOK, PcLabels
    <3>2. state'[v] = "none"
      BY <2>1 DEF TypeOK
    <3>3. Own(c)' /\ ~Uploading(c)'
      BY <3>1 DEF Own, Uploading, Pre
    <3>4. Found(c)'
      BY <1>1, <1>2, <3>1, <3>2 DEF Found, Deleting
    <3>5. Retire(c)'
      BY <1>1, <1>3, <2>3, <3>1 DEF DeleteRow, Retire, Uploading, Deleting, Pre
    <3> QED
      BY <1>0, <1>2, <2>1, <3>1, <3>3, <3>4, <3>5, RowHidden
  <2> QED
    BY <1>3, <2>2, <2>3 DEF DeleteRow
<1>4. CASE FlagCorrupt(c)
  <2> DEFINE v == req[c].prior
  <2>1. v \in Versions /\ v \in condemned' /\ Finish(c) /\ state[v] # "staging"
    BY <1>1, <1>4, BoundAssumption
    DEF FlagCorrupt, Condemn, Targets, Found, Versions, NoRow
  <2>2. CASE v \in Rows
    <3>1. state' = [state EXCEPT ![v] = "corrupt"] /\ state[v] # "none"
      BY <1>4, <2>2 DEF FlagCorrupt, UpdateById, Rows
    <3> QED
      BY <1>0, <1>2, <1>a, <2>1, <3>1, RowHidden
  <2>3. CASE v \notin Rows
    <3>1. state' = state
      BY <1>4, <2>3 DEF FlagCorrupt, UpdateById
    <3> QED
      BY <1>0, <1>2, <1>a, <2>1, <3>1, RequestOnly
  <2> QED
    BY <2>2, <2>3
<1>5. CASE Unreserve(c)
  <2> DEFINE v == req[c].ver
  <2>1. v \in Versions /\ state' = [state EXCEPT ![v] = "none"] /\ Finish(c)
    BY <1>5 DEF Unreserve, DeleteById, Targets, Uploading, Pre
  <2>2. \A p \in Paths : newest[p] # v
    BY <1>1, <1>5 DEF Own, Unreserve, Uploading, Pre
  <2> QED
    BY <1>0, <1>2, <1>a, <2>1, <2>2, RowHidden
<1> QED
  BY <1>3, <1>4, <1>5

\* A bucket-wide delete takes every row, and condemns all that were visible.
LEMMA OrderWipe ==
  ASSUME OrderInv, ~OnlineRecovery, NEW c \in Clients, EmptyRows(c) \/ DropBucket(c)
  PROVE  OrderInv'
<1>0. TypeInv' /\ rpc \in {"off", "done"} /\ rpc' = rpc /\ Finish(c)
  BY TypeObject, Serving DEF EmptyRows, DropBucket
<1>1. /\ req'[c] = Idle
      /\ \A d \in Clients : d # c => req'[d] = req[d]
  BY <1>0, FinishType DEF TypeOK
<1>2. /\ \A w \in Versions : state'[w] = "none"
      /\ condemned' = condemned \cup Rows
      /\ UNCHANGED <<path, used, newest>>
  BY DEF EmptyRows, DropBucket, Condemn
<1>b. \A n \in 1..used : n \in Versions
  BY BoundAssumption DEF TypeOK, Versions
<1>3. Own(c)' /\ Found(c)' /\ Retire(c)' /\ ~Uploading(c)' /\ req'[c].prior = NoRow
  BY <1>1 DEF Own, Found, Retire, Uploading, Pre, Deleting, Idle
<1>4. ASSUME NEW d \in Clients, d # c
      PROVE  Own(d)' /\ Found(d)' /\ Retire(d)'
  <2>1. req'[d] = req[d] /\ Own(d) /\ Found(d) /\ Retire(d)
    BY <1>1, <1>4 DEF Ordered
  <2>2. Own(d)'
    BY <1>2, <1>b, <2>1 DEF Own, Uploading
  <2>3. Found(d)'
    BY <1>2, <1>b, <2>1, BoundAssumption DEF Found, Deleting, NoRow
  <2>4. Retire(d)'
    BY <1>2, <2>1 DEF Retire, Uploading
  <2> QED
    BY <2>2, <2>3, <2>4
<1>5. Distinct'
  <2>1. \A d \in Clients : Uploading(d)' => Uploading(d) /\ req'[d].ver = req[d].ver
    BY <1>1, <1>3 DEF Uploading
  <2>2. \A d \in Clients : req'[d].prior \in {NoRow, req[d].prior}
    BY <1>1, <1>3
  <2>3. \A d \in Clients : Uploading(d) => req[d].ver # NoRow
    BY DEF Targets, Versions, NoRow
  <2> QED
    BY <2>1, <2>2, <2>3 DEF Ordered, Distinct
<1>6. Unused' /\ Staging' /\ NewestPath' /\ Recovering'
  BY <1>0, <1>2 DEF Ordered, Unused, Staging, NewestPath, Recovering
<1>7. NewestStands'
  <2> SUFFICES ASSUME NEW p \in Paths, newest[p] # NoRow
               PROVE  newest[p] \in condemned'
    BY <1>2 DEF NewestStands
  <2> QED
    BY <1>2 DEF NewestStands, Rows, TypeOK
<1> QED
  BY <1>0, <1>3, <1>4, <1>5, <1>6, <1>7 DEF Ordered

\* A visible row has been handed out, and nobody is uploading it.
LEMMA ReadyKnown ==
  ASSUME OrderInv, NEW v \in Versions, state[v] = "ready"
  PROVE  v \in 1..used /\ \A d \in Clients : Uploading(d) => req[d].ver # v
<1>1. v \in 1..used
  BY BoundAssumption DEF Ordered, Unused, TypeOK, Versions
<1>2. \A d \in Clients : Uploading(d) => req[d].ver # v
  BY DEF Ordered, Own
<1> QED
  BY <1>1, <1>2

LEMMA OrderPrior ==
  ASSUME OrderInv, ~OnlineRecovery, NEW c \in Clients, ReadPrior(c)
  PROVE  OrderInv'
<1> DEFINE n == used + 1
<1>0. TypeInv' /\ rpc \in {"off", "done"} /\ rpc' = rpc
  BY TypeUpload, Serving DEF ReadPrior
<1>1. n \in Versions /\ used' = n /\ used \in Nat
  BY BoundAssumption DEF ReadPrior, TypeOK, Versions
<1>2. PICK v \in FirstOf(CurrentReady(req[c].at)) :
        req' = [req EXCEPT ![c].pc = "reserve", ![c].prior = v, ![c].ver = n]
  BY DEF ReadPrior
<1>3. /\ req'[c].pc = "reserve" /\ req'[c].prior = v /\ req'[c].ver = n
      /\ req'[c].op = req[c].op /\ req'[c].at = req[c].at /\ req'[c].src = req[c].src
      /\ \A d \in Clients : d # c => req'[d] = req[d]
  <2> DEFINE r == [req[c] EXCEPT !.pc = "reserve", !.prior = v, !.ver = n]
  <2>1. req' = [req EXCEPT ![c] = r]
    BY <1>2
  <2>2. /\ r.pc = "reserve" /\ r.prior = v /\ r.ver = n
        /\ r.op = req[c].op /\ r.at = req[c].at /\ r.src = req[c].src
    BY DEF TypeOK, RequestRecords
  <2> HIDE DEF r
  <2> QED
    BY <2>1, <2>2 DEF TypeOK
<1>4. /\ path'[n] = req[c].at
      /\ \A w \in Versions : w # n => path'[w] = path[w]
      /\ UNCHANGED <<state, newest, condemned>>
  BY <1>1 DEF ReadPrior, TypeOK
<1>5. v # NoRow => v \in Versions /\ v \in 1..used /\ state[v] = "ready" /\ path[v] = req[c].at
                   /\ \A d \in Clients : Uploading(d) => req[d].ver # v
  BY ReadyKnown DEF FirstOf, CurrentReady, RowsIn
<1>6. /\ state[n] = "none"
      /\ \A p \in Paths : newest[p] # n
  BY <1>1 DEF Ordered, Unused
<1>7. \A k \in 1..used : k \in Versions /\ k # n /\ k \in 1..used'
  BY <1>1, BoundAssumption DEF TypeOK, Versions
<1> HIDE DEF n
<1>8. req[c].at \in Paths /\ req[c].src \in Paths /\ req[c].op # "remove"
  BY DEF Ordered, Retire, ReadPrior
<1>9. Own(c)'
  BY <1>1, <1>3, <1>4, <1>6, <1>8 DEF Own, Uploading, n
<1>10. Found(c)'
  BY <1>3, <1>4, <1>5, <1>7 DEF Found, Deleting
<1>11. Retire(c)'
  <2>1. v # NoRow => v < n /\ path'[v] = req[c].at
    BY <1>1, <1>4, <1>5, <1>7 DEF n
  <2> QED
    BY <1>3, <1>8, <2>1 DEF Retire, Deleting
<1>12. ASSUME NEW d \in Clients, d # c
       PROVE  Own(d)' /\ Found(d)' /\ Retire(d)'
  <2>1. req'[d] = req[d] /\ Own(d) /\ Found(d) /\ Retire(d)
    BY <1>3, <1>12 DEF Ordered
  <2>2. Own(d)'
    BY <1>4, <1>7, <2>1 DEF Own, Uploading
  <2>3. Found(d)'
    BY <1>4, <1>7, <2>1 DEF Found
  <2>4. Retire(d)'
    BY <1>4, <1>7, <2>1 DEF Retire, Found, Uploading
  <2> QED
    BY <2>2, <2>3, <2>4
<1>13. Distinct'
  <2>1. ASSUME NEW d \in Clients, NEW e \in Clients, Uploading(d)',
               Uploading(e)', req'[e].ver = req'[d].ver
        PROVE  d = e
    <3>1. \A k \in Clients : k # c /\ Uploading(k)' => Uploading(k) /\ req'[k] = req[k]
                                                      /\ req'[k].ver # n
      BY <1>3, <1>7 DEF Uploading, Ordered, Own
    <3> QED
      BY <1>3, <2>1, <3>1 DEF Ordered, Distinct
  <2>2. ASSUME NEW d \in Clients, NEW e \in Clients, Uploading(d)'
        PROVE  req'[e].prior # req'[d].ver
    <3>1. \A k \in Clients : req'[k].prior # n
      <4> SUFFICES ASSUME NEW k \in Clients PROVE req'[k].prior # n
        OBVIOUS
      <4>1. n # NoRow
        BY <1>1 DEF Versions, NoRow
      <4>2. Found(k)
        BY DEF Ordered
      <4> QED
        BY <1>3, <1>5, <1>7, <4>1, <4>2 DEF Found
    <3>2. CASE d = c
      BY <1>3, <3>1, <3>2
    <3>3. CASE d # c
      <4>1. Uploading(d) /\ req'[d] = req[d] /\ req[d].ver # NoRow
        BY <1>3, <2>2, <3>3 DEF Uploading, Targets, Versions, NoRow
      <4>2. req[e].prior # req[d].ver /\ v # req[d].ver
        BY <1>5, <4>1 DEF Ordered, Distinct
      <4> QED
        BY <1>3, <4>1, <4>2
    <3> QED
      BY <3>2, <3>3
  <2> QED
    BY <2>1, <2>2 DEF Distinct
<1>14. Unused'
  BY <1>1, <1>4 DEF Ordered, Unused, Versions, n
<1>15. Staging' /\ NewestPath' /\ NewestStands'
  BY <1>4, <1>6 DEF Ordered, Staging, NewestPath, NewestStands, TypeOK
<1>16. Recovering'
  BY <1>0 DEF Recovering
<1> QED
  BY <1>0, <1>9, <1>10, <1>11, <1>12, <1>13, <1>14, <1>15, <1>16 DEF Ordered

LEMMA OrderFind ==
  ASSUME OrderInv, ~OnlineRecovery, NEW c \in Clients, FindTarget(c)
  PROVE  OrderInv'
<1>0. TypeInv' /\ rpc \in {"off", "done"} /\ rpc' = rpc
  BY TypeObject, Serving DEF FindTarget
<1>1. CASE Finish(c)
  BY <1>0, <1>1, OrderFinish DEF FindTarget
<1>2. ASSUME NEW p, NEW v \in CurrentReady(p), NEW l \in {"mark", "open"},
             l = IF req[c].op = "remove" THEN "mark" ELSE "open",
             req' = [req EXCEPT ![c].prior = v, ![c].pc = l]
      PROVE  OrderInv'
  <2>1. /\ req'[c].pc = l /\ req'[c].prior = v
        /\ req'[c].op = req[c].op /\ req'[c].at = req[c].at /\ req'[c].src = req[c].src
        /\ \A d \in Clients : d # c => req'[d] = req[d]
    <3> DEFINE r == [req[c] EXCEPT !.prior = v, !.pc = l]
    <3>1. req' = [req EXCEPT ![c] = r]
      BY <1>2
    <3>2. /\ r.pc = l /\ r.prior = v
          /\ r.op = req[c].op /\ r.at = req[c].at /\ r.src = req[c].src
      BY DEF TypeOK, RequestRecords
    <3> HIDE DEF r
    <3> QED
      BY <3>1, <3>2 DEF TypeOK
  <2>2. /\ v \in Versions /\ v \in 1..used /\ state[v] = "ready"
        /\ \A d \in Clients : Uploading(d) => req[d].ver # v
    BY <1>2, ReadyKnown DEF CurrentReady, RowsIn
  <2>3. UNCHANGED <<state, path, used, newest, condemned>>
    BY DEF FindTarget
  <2>4. Own(c)' /\ ~Uploading(c)'
    BY <2>1 DEF Own, Uploading, Pre
  <2>5. Found(c)'
    BY <2>1, <2>2, <2>3, BoundAssumption DEF Found, Deleting, NoRow, Versions
  <2>6. Retire(c)'
    <3>1. req[c].at \in Paths /\ req[c].src \in Paths
      BY DEF Ordered, Retire, FindTarget
    <3> QED
      BY <1>2, <2>1, <3>1 DEF Retire, Deleting, Uploading, Pre
  <2>7. \A d \in Clients : d # c => Own(d)' /\ Found(d)' /\ Retire(d)'
    BY <2>1, <2>3 DEF Ordered, Own, Found, Retire, Uploading
  <2>8. Distinct'
    BY <2>1, <2>2, <2>4 DEF Ordered, Distinct, Uploading
  <2>9. Unused' /\ Staging' /\ NewestPath' /\ NewestStands' /\ Recovering'
    BY <1>0, <2>3 DEF Ordered, Unused, Staging, NewestPath, NewestStands, Recovering
  <2> QED
    BY <1>0, <2>4, <2>5, <2>6, <2>7, <2>8, <2>9 DEF Ordered
<1> QED
  BY <1>1, <1>2 DEF FindTarget

LEMMA OrderReserve ==
  ASSUME OrderInv, ~OnlineRecovery, NEW c \in Clients, Reserve(c)
  PROVE  OrderInv'
<1>0. TypeInv' /\ rpc \in {"off", "done"} /\ rpc' = rpc
  BY TypeUpload, Serving DEF Reserve
<1>1. CASE Finish(c) /\ state' = state
  BY <1>0, <1>1, OrderFinish DEF Reserve
<1>2. CASE Goto(c, "put") /\ state' = [state EXCEPT ![req[c].ver] = "staging"]
  <2> DEFINE n == req[c].ver
  <2>1. Uploading(c) /\ n \in Versions
    BY DEF Reserve, Uploading, Pre, Targets
  <2>2. /\ req'[c].pc = "put" /\ req'[c].prior = req[c].prior /\ req'[c].ver = n
        /\ req'[c].op = req[c].op /\ req'[c].at = req[c].at /\ req'[c].src = req[c].src
        /\ \A d \in Clients : d # c => req'[d] = req[d]
    BY <1>2, GotoType DEF TypeOK, PcLabels
  <2>3. /\ state'[n] = "staging"
        /\ \A w \in Versions : w # n => state'[w] = state[w]
        /\ UNCHANGED <<path, used, newest, condemned>>
    BY <1>2, <2>1 DEF Reserve, TypeOK
  <2>4. \A k \in 1..used : k \in Versions
    BY BoundAssumption DEF TypeOK, Versions
  <2>5. /\ n \in 1..used /\ path[n] = req[c].at /\ req[c].at \in Paths /\ req[c].src \in Paths
        /\ \A p \in Paths : newest[p] # n
    BY <2>1 DEF Ordered, Own, Retire, Reserve
  <2>6. \A d \in Clients : req[d].prior # n /\ (d # c /\ Uploading(d) => req[d].ver # n)
    BY <2>1 DEF Ordered, Distinct
  <2> HIDE DEF n
  <2>7. Own(c) /\ Found(c) /\ Retire(c)
    BY DEF Ordered
  <2>8. Own(c)'
    BY <2>1, <2>2, <2>3, <2>7 DEF Own, Uploading, n
  <2>9. Found(c)'
    BY <2>2, <2>3, <2>4, <2>6, <2>7 DEF Found, Deleting
  <2>10. Retire(c)'
    BY <2>1, <2>2, <2>3, <2>5, <2>7 DEF Retire, Deleting, Uploading, n
  <2>11. ASSUME NEW d \in Clients, d # c
         PROVE  Own(d)' /\ Found(d)' /\ Retire(d)'
    <3>1. req'[d] = req[d] /\ Own(d) /\ Found(d) /\ Retire(d)
      BY <2>2, <2>11 DEF Ordered
    <3>2. Own(d)'
      BY <2>3, <2>4, <2>6, <2>11, <3>1 DEF Own, Uploading
    <3>3. Found(d)'
      BY <2>3, <2>4, <2>6, <3>1 DEF Found, Deleting
    <3>4. Retire(d)'
      BY <2>3, <3>1 DEF Retire, Uploading
    <3> QED
      BY <3>2, <3>3, <3>4
  <2>12. Distinct'
    <3>1. \A d \in Clients : /\ Uploading(d)' => Uploading(d)
                             /\ req'[d].ver = req[d].ver /\ req'[d].prior = req[d].prior
      BY <2>1, <2>2 DEF Uploading, n
    <3> QED
      BY <3>1 DEF Ordered, Distinct
  <2>13. Unused' /\ NewestPath' /\ Recovering'
    <3>1. \A w \in Versions : w > used => w # n
      BY <2>5 DEF TypeOK, Versions
    <3> QED
      BY <1>0, <2>3, <3>1 DEF Ordered, Unused, NewestPath, Recovering
  <2>14. Staging' /\ NewestStands'
    BY <2>3, <2>5 DEF Ordered, Staging, NewestStands, TypeOK
  <2> QED
    BY <1>0, <2>8, <2>9, <2>10, <2>11, <2>12, <2>13, <2>14 DEF Ordered
<1> QED
  BY <1>1, <1>2 DEF Reserve

\* A version becomes visible on its path, and is from then on the newest there
\* unless a later one already is.
LEMMA Newer ==
  ASSUME TypeOK, NEW n \in Versions, path[n] \in Paths, BecomesReady(n)
  PROVE  /\ state'[n] = "ready"
         /\ \A w \in Versions : w # n => state'[w] = state[w]
         /\ n <= newest'[path[n]]
         /\ \A p \in Paths : newest[p] <= newest'[p]
         /\ \A p \in Paths : newest'[p] = newest[p] \/ (p = path[n] /\ newest'[p] = n)
<1>1. \A p \in Paths : newest[p] \in Nat
  BY BoundAssumption DEF TypeOK, Versions, NoRow
<1>2. n \in Nat
  BY BoundAssumption DEF Versions
<1>3. /\ state'[n] = "ready"
      /\ \A w \in Versions : w # n => state'[w] = state[w]
  BY DEF BecomesReady, TypeOK
<1>4. /\ newest'[path[n]] = IF newest[path[n]] < n THEN n ELSE newest[path[n]]
      /\ \A p \in Paths : p # path[n] => newest'[p] = newest[p]
  BY DEF BecomesReady, TypeOK
<1> QED
  BY <1>1, <1>2, <1>3, <1>4

LEMMA OrderCommit ==
  ASSUME OrderInv, ~OnlineRecovery, NEW c \in Clients, CommitReady(c)
  PROVE  OrderInv'
<1> DEFINE n == req[c].ver
           l == IF req[c].prior = NoRow THEN "respond" ELSE "mark"
<1>0. TypeInv' /\ rpc \in {"off", "done"} /\ rpc' = rpc
  BY TypeUpload, Serving DEF CommitReady
<1>1. Uploading(c) /\ n \in Versions
  BY DEF CommitReady, Uploading, Pre, Targets
<1>2. Own(c) /\ Found(c) /\ Retire(c)
  BY DEF Ordered
<1>3. CASE state' = state /\ newest' = newest /\ Goto(c, "discard") /\ state[n] # "staging"
  <2>1. state[n] = "none"
    BY <1>1, <1>2, <1>3 DEF Own
  <2> QED
    BY <1>0, <1>1, <1>3, <2>1, OrderGoto DEF CommitReady, PcLabels, Pre, Deleting
<1>4. CASE BecomesReady(n) /\ Goto(c, l)
  <2>1. /\ req'[c].pc = l /\ req'[c].prior = req[c].prior
        /\ req'[c].op = req[c].op /\ req'[c].at = req[c].at /\ req'[c].src = req[c].src
        /\ \A d \in Clients : d # c => req'[d] = req[d]
    <3>1. l \in PcLabels
      BY DEF PcLabels
    <3> HIDE DEF l
    <3> QED
      BY <1>4, <3>1, GotoType DEF TypeOK
  <2>2. path[n] = req[c].at /\ req[c].at \in Paths /\ req[c].src \in Paths /\ n \in 1..used
    BY <1>1, <1>2 DEF Own, Retire, CommitReady
  <2>3. /\ state'[n] = "ready"
        /\ \A w \in Versions : w # n => state'[w] = state[w]
        /\ n <= newest'[req[c].at]
        /\ \A p \in Paths : newest[p] <= newest'[p]
        /\ \A p \in Paths : newest'[p] = newest[p] \/ (p = req[c].at /\ newest'[p] = n)
    BY <1>1, <1>4, <2>2, Newer
  <2>4. UNCHANGED <<path, used, condemned>>
    BY DEF CommitReady
  <2>5. \A d \in Clients : req[d].prior # n /\ (d # c /\ Uploading(d) => req[d].ver # n)
    BY <1>1 DEF Ordered, Distinct
  <2>6. \A k \in 1..used : k \in Versions
    BY BoundAssumption DEF TypeOK, Versions
  <2>7. \A p \in Paths : newest[p] # n
    BY <1>1, <1>2 DEF Own
  <2>8. /\ \A p \in Paths : newest[p] \in Int /\ newest'[p] \in Int
        /\ \A d \in Clients : req[d].prior \in Int
        /\ n \in Int /\ n # NoRow
    BY <1>0, <1>1, BoundAssumption DEF TypeOK, Versions, NoRow, RequestRecords
  <2> HIDE DEF n
  <2>9. Own(c)' /\ ~Uploading(c)'
    BY <2>1 DEF Own, Uploading, Pre
  <2>10. Found(c)'
    BY <1>2, <2>1, <2>3, <2>4, <2>5, <2>6 DEF Found, Deleting
  <2>11. Retire(c)'
    <3>1. req[c].prior # NoRow => req[c].prior < n /\ path[req[c].prior] = req[c].at
      BY <1>1, <1>2 DEF Retire, n
    <3>2. req[c].prior # NoRow => req[c].prior < newest'[req[c].at]
      BY <2>2, <2>3, <2>8, <3>1
    <3>3. req[c].op # "remove"
      BY <1>1, <1>2 DEF Own
    <3> QED
      BY <2>1, <2>2, <2>4, <3>1, <3>2, <3>3 DEF Retire, Uploading, Deleting, Pre
  <2>12. ASSUME NEW d \in Clients, d # c
         PROVE  Own(d)' /\ Found(d)' /\ Retire(d)'
    <3>1. req'[d] = req[d] /\ Own(d) /\ Found(d) /\ Retire(d)
      BY <2>1, <2>12 DEF Ordered
    <3>2. Own(d)'
      BY <2>3, <2>4, <2>5, <2>6, <2>12, <3>1 DEF Own, Uploading
    <3>3. Found(d)'
      BY <2>3, <2>4, <2>5, <2>6, <3>1 DEF Found, Deleting
    <3>4. req[d].at \in Paths /\ req[d].prior < newest[req[d].at] =>
            req[d].prior < newest'[req[d].at]
      BY <2>3, <2>8
    <3>5. Retire(d)'
      BY <2>4, <3>1, <3>4 DEF Retire, Uploading, Deleting
    <3> QED
      BY <3>2, <3>3, <3>5
  <2>13. Distinct'
    BY <2>1, <2>9 DEF Ordered, Distinct, Uploading
  <2>14. Unused'
    <3>1. \A w \in Versions : w > used => w # n
      BY <2>2 DEF TypeOK, Versions
    <3> QED
      BY <2>3, <2>4, <3>1 DEF Ordered, Unused
  <2>15. Staging' /\ NewestPath'
    BY <2>2, <2>3, <2>4 DEF Ordered, Staging, NewestPath
  <2>16. NewestStands'
    BY <2>3, <2>4, <2>7 DEF NewestStands, TypeOK
  <2>17. Recovering'
    BY <1>0 DEF Recovering
  <2> QED
    BY <1>0, <2>9, <2>10, <2>11, <2>12, <2>13, <2>14, <2>15, <2>16, <2>17 DEF Ordered
<1> QED
  BY <1>3, <1>4 DEF CommitReady

\* The steps that touch at most the bytes.
LEMMA OrderSteps ==
  ASSUME OrderInv, ~OnlineRecovery, NEW c \in Clients,
         \/ RefuseExisting(c) \/ PutStaged(c) \/ Promote(c) \/ Fill(c) \/ Discard(c)
         \/ Respond(c) \/ DeleteBytes(c) \/ OpenBytes(c) \/ OpenFails(c) \/ EmptyBytes(c)
         \/ Stop(c)
  PROVE  OrderInv'
<1>0. TypeInv' /\ UNCHANGED <<rpc, state, path, used, newest, condemned>>
  BY TypeUpload, TypeObject
  DEF RefuseExisting, PutStaged, Promote, Fill, Discard, Respond, DeleteBytes, OpenBytes,
      OpenFails, EmptyBytes, Stop
<1>a. ASSUME Finish(c), req[c].pc # "idle" PROVE OrderInv'
  BY <1>0, <1>a, OrderFinish
<1>b. ASSUME NEW l \in {"promote", "unreserve", "fill", "commit"}, Goto(c, l),
             req[c].pc \in {"put", "promote", "fill"}
      PROVE  OrderInv'
  BY <1>0, <1>b, OrderGoto DEF PcLabels, Uploading, Pre, Deleting
<1>1. CASE RefuseExisting(c) \/ Discard(c) \/ Stop(c)
  BY <1>1, <1>a DEF RefuseExisting, Discard, Stop
<1>2. CASE PutStaged(c) \/ Promote(c) \/ Fill(c)
  BY <1>2, <1>b DEF PutStaged, Promote, Fill
<1>3. CASE DeleteBytes(c)
  BY <1>0, <1>3, OrderGoto DEF DeleteBytes, PcLabels, Pre, Deleting
<1>4. CASE OpenBytes(c) \/ OpenFails(c)
  <2>1. req[c].prior # NoRow /\ req[c].op # "remove"
    BY <1>4 DEF OpenBytes, OpenFails, Ordered, Found, Retire
  <2> QED
    BY <1>0, <1>4, <1>a, <2>1, OrderGoto DEF OpenBytes, OpenFails, PcLabels, Pre, Deleting
<1>5. CASE Respond(c)
  <2>1. CASE Finish(c)
    BY <1>5, <2>1, <1>a DEF Respond
  <2>2. CASE ~Finish(c)
    <3> DEFINE r == [Idle EXCEPT !.pc = "find", !.op = "remove", !.at = req[c].src,
                                 !.src = req[c].src]
    <3>1. req' = [req EXCEPT ![c] = r]
      BY <1>5, <2>2 DEF Respond
    <3>2. r.pc = "find" /\ r.at = req[c].src /\ r.src = req[c].src /\ r.prior = NoRow
      BY DEF Idle
    <3> HIDE DEF r
    <3>3. req'[c] = r /\ \A d \in Clients : d # c => req'[d] = req[d]
      BY <3>1 DEF TypeOK
    <3>4. req[c].src \in Paths
      BY <1>5 DEF Respond, Ordered, Retire
    <3>5. Own(c)' /\ Found(c)' /\ Retire(c)' /\ ~Uploading(c)'
      BY <3>2, <3>3, <3>4 DEF Own, Found, Retire, Uploading, Pre, Deleting
    <3> QED
      BY <1>0, <1>5, <3>2, <3>3, <3>5, Serving, RequestOnly DEF Respond
  <2> QED
    BY <2>1, <2>2
<1>6. CASE EmptyBytes(c)
  <2>1. PICK v \in req[c].todo : req' = [req EXCEPT ![c].todo = @ \ {v}]
    BY <1>6 DEF EmptyBytes
  <2> DEFINE r == [req[c] EXCEPT !.todo = req[c].todo \ {v}]
  <2>2. req' = [req EXCEPT ![c] = r]
    BY <2>1
  <2>3. r.pc = "emptying" /\ r.prior = req[c].prior
    BY <1>6 DEF EmptyBytes, TypeOK, RequestRecords
  <2> HIDE DEF r
  <2>4. req'[c] = r /\ \A d \in Clients : d # c => req'[d] = req[d]
    BY <2>2 DEF TypeOK
  <2>5. Own(c)' /\ Found(c)' /\ Retire(c)' /\ ~Uploading(c)'
    BY <1>0, <2>3, <2>4 DEF Ordered, Own, Found, Retire, Uploading, Pre, Deleting
  <2> QED
    BY <1>0, <1>6, <2>3, <2>4, <2>5, Serving, RequestOnly DEF EmptyBytes
<1> QED
  BY <1>1, <1>2, <1>3, <1>4, <1>5, <1>6

\* While nobody is served, no step of recover() can break what requests rely on.
LEMMA NobodyServed ==
  ASSUME OrderInv, TypeInv', \A c \in Clients : req[c].pc = "idle",
         UNCHANGED <<req, path, used>>,
         \A w \in Versions : state'[w] = "staging" => state[w] = "staging"
  PROVE  Distinct' /\ \A c \in Clients : Own(c)' /\ Found(c)' /\ Retire(c)'
<1>1. \A k \in 1..used : k \in Versions
  BY BoundAssumption DEF TypeOK, Versions
<1>2. \A c \in Clients : Found(c)'
  BY <1>1 DEF Ordered, Found, Deleting
<1> QED
  BY <1>2 DEF Distinct, Own, Retire, Uploading, Pre, Deleting

LEMMA OrderRecover ==
  ASSUME OrderInv, ~OnlineRecovery, Recover
  PROVE  OrderInv'
<1>0. TypeInv' /\ UNCHANGED <<req, path, used>>
  BY TypeRecover
  DEF Recover, RecoverStart, RecoverStat, RecoverPromote, RecoverAbort, RecoverDeleteBytes,
      RecoverDeleteRow, RecoverReady, RecoverCheck, RecoverFlag, RecoverList, RecoverReap,
      RecoverDone, RecoverStop
<1>1. \A c \in Clients : req[c].pc = "idle"
  BY DEF Recover, RecoverStart, RecoverStat, RecoverPromote, RecoverAbort, RecoverDeleteBytes,
         RecoverDeleteRow, RecoverReady, RecoverCheck, RecoverFlag, RecoverList, RecoverReap,
         RecoverDone, RecoverStop, Quiet, Ordered, Recovering
<1>2. ASSUME Unused', Staging', NewestPath', Recovering', NewestStands',
             \A w \in Versions : state'[w] = "staging" => state[w] = "staging"
      PROVE  OrderInv'
  BY <1>0, <1>1, <1>2, NobodyServed DEF Ordered
<1>3. ASSUME UNCHANGED <<state, newest, condemned>>, Recovering'
      PROVE  OrderInv'
  <2>1. Unused' /\ Staging' /\ NewestPath' /\ NewestStands'
    BY <1>0, <1>3 DEF Ordered, Unused, Staging, NewestPath, NewestStands
  <2> QED
    BY <1>2, <1>3, <2>1
<1>4. ASSUME NEW x \in {"none", "corrupt"}, rcur \in Versions,
             state' = [state EXCEPT ![rcur] = x], UNCHANGED newest,
             condemned \subseteq condemned', Recovering',
             \A p \in Paths : newest[p] = rcur => rcur \in condemned' \/ state[rcur] # "ready",
             x = "none" \/ state[rcur] # "none"
      PROVE  OrderInv'
  <2>1. /\ state'[rcur] = x
        /\ \A w \in Versions : w # rcur => state'[w] = state[w]
    BY <1>4 DEF TypeOK
  <2>2. Unused' /\ Staging' /\ NewestPath'
    BY <1>0, <1>4, <2>1 DEF Ordered, Unused, Staging, NewestPath
  <2>3. NewestStands'
    BY <1>4, <2>1 DEF NewestStands, TypeOK
  <2> QED
    BY <1>2, <1>4, <2>1, <2>2, <2>3
<1>5. CASE RecoverStart
  BY <1>0, <1>1, <1>3, <1>5 DEF RecoverStart, Recovering, RowsIn
<1>6. CASE RecoverReady \/ RecoverList \/ RecoverDone \/ RecoverStop
  BY <1>0, <1>1, <1>3, <1>6
  DEF RecoverReady, RecoverList, RecoverDone, RecoverStop, Recovering
<1>7. ASSUME NEW v \in Versions, RecoverStat(v) PROVE OrderInv'
  BY <1>0, <1>1, <1>3, <1>7 DEF RecoverStat, Ordered, Recovering
<1>8. ASSUME NEW v \in Versions, RecoverCheck(v) PROVE OrderInv'
  BY <1>0, <1>1, <1>3, <1>8 DEF RecoverCheck, Recovering
<1>9. ASSUME NEW v \in Versions, RecoverReap(v) PROVE OrderInv'
  BY <1>0, <1>1, <1>3, <1>9 DEF RecoverReap, Recovering
<1>10. CASE RecoverDeleteBytes
  BY <1>0, <1>1, <1>3, <1>10 DEF RecoverDeleteBytes, Ordered, Recovering
<1>11. CASE RecoverAbort \/ RecoverDeleteRow
  <2>1. rcur \in Versions /\ state[rcur] # "ready" /\ rcur \notin rtodo
    BY <1>11 DEF RecoverAbort, RecoverDeleteRow, Ordered, Recovering
  <2>2. state' = [state EXCEPT ![rcur] = "none"] /\ UNCHANGED <<newest, condemned>>
    BY <1>11 DEF RecoverAbort, RecoverDeleteRow, DeleteById
  <2>3. Recovering'
    BY <1>0, <1>1, <1>11, <2>1, <2>2
    DEF RecoverAbort, RecoverDeleteRow, Ordered, Recovering, TypeOK
  <2> QED
    BY <1>4, <2>1, <2>2, <2>3
<1>12. CASE RecoverFlag
  <2>1. rcur \in Versions /\ Recovering' /\ rcur \in condemned' /\ condemned \subseteq condemned'
        /\ UNCHANGED newest
    BY <1>0, <1>1, <1>12 DEF RecoverFlag, Ordered, Recovering, Condemn
  <2>2. CASE rcur \in Rows
    BY <1>4, <1>12, <2>1, <2>2 DEF RecoverFlag, UpdateById, Rows
  <2>3. CASE rcur \notin Rows
    <3>1. state' = state
      BY <1>12, <2>3 DEF RecoverFlag, UpdateById
    <3>2. Unused' /\ Staging' /\ NewestPath' /\ NewestStands'
      BY <1>0, <2>1, <3>1 DEF Ordered, Unused, Staging, NewestPath, NewestStands
    <3> QED
      BY <1>2, <2>1, <3>1, <3>2
  <2> QED
    BY <2>2, <2>3
<1>13. CASE RecoverPromote
  <2>1. rcur \in Versions /\ state[rcur] = "staging" /\ rcur \notin rtodo /\ path[rcur] \in Paths
        /\ \A p \in Paths : newest[p] # rcur
    BY <1>13 DEF RecoverPromote, Ordered, Recovering, Staging
  <2>2. /\ state'[rcur] = "ready"
        /\ \A w \in Versions : w # rcur => state'[w] = state[w]
        /\ \A p \in Paths : newest'[p] = newest[p] \/ (p = path[rcur] /\ newest'[p] = rcur)
    BY <1>13, <2>1, Newer DEF RecoverPromote
  <2>3. UNCHANGED condemned
    BY <1>13 DEF RecoverPromote
  <2>4. Recovering'
    BY <1>0, <1>1, <1>13, <2>1, <2>2 DEF RecoverPromote, Ordered, Recovering, TypeOK
  <2>5. Unused'
    BY <1>0, <2>1, <2>2 DEF Ordered, Unused
  <2>6. Staging' /\ NewestPath'
    BY <1>0, <2>1, <2>2 DEF Ordered, Staging, NewestPath
  <2>7. NewestStands'
    BY <2>1, <2>2, <2>3 DEF NewestStands, TypeOK
  <2> QED
    BY <1>2, <2>2, <2>4, <2>5, <2>6, <2>7
<1> QED
  BY <1>5, <1>6, <1>7, <1>8, <1>9, <1>10, <1>11, <1>12, <1>13 DEF Recover

LEMMA OrderNext ==
  ASSUME OrderInv, ~OnlineRecovery, [Next]_vars
  PROVE  OrderInv'
<1>1. ASSUME NEW c \in Clients, Start(c) PROVE OrderInv'
  BY <1>1, OrderStart
<1>2. ASSUME NEW c \in Clients, Step(c) \/ Stop(c) PROVE OrderInv'
  BY <1>2, OrderPrior, OrderFind, OrderReserve, OrderCommit, OrderSteps, OrderMark,
     OrderDelete, OrderWipe
  DEF Step
<1>3. CASE Recover
  BY <1>3, OrderRecover
<1>4. CASE UNCHANGED vars
  BY <1>4
  DEF TypeOK, Targets, Ordered, Unused, Distinct, Staging, NewestPath, Recovering, Own, Found,
      Retire, Uploading, NewestStands
<1> QED
  BY <1>1, <1>2, <1>3, <1>4 DEF Next

\* For every number of requests, paths and uploads, for every adapter and all
\* operations: when recover() runs on a quiet service, an upsert, also one that
\* raced with others or was interrupted, never hides the newest object.
THEOREM StorageNewestStands == ~OnlineRecovery => (Spec => []NewestStands)
<1> SUFFICES ASSUME ~OnlineRecovery PROVE Spec => []NewestStands
  OBVIOUS
<1>1. OrderInv => NewestStands
  OBVIOUS
<1>2. OrderInv /\ [Next]_vars => OrderInv'
  BY OrderNext
<1> QED
  BY OrderInit, <1>1, <1>2, PTL DEF Spec

--------------------------------------------------------------------------------
(* Bytes.  emptyBucket deletes bytes behind visible rows, recover() beside a  *)
(* request may delete what it has just promoted, and the OPFS adapter shows a *)
(* final file before it is written: without these three, every visible row    *)
(* has its bytes.                                                             *)

SafeProfile == "empty" \notin Ops /\ ~OnlineRecovery /\ Adapter # "opfs"

USE DEF BytesInv

LEMMA BytesInit == Init => BytesInv
  BY DEF Init, Bytes, ReadyBacked, Idle

\* A step that makes no row visible, brings no request to its commit and leaves
\* the bytes of visible and of promoted versions alone.
LEMMA BytesKept ==
  ASSUME BytesInv, TypeInv, rpc' # "promote" \/ (rpc' = rpc /\ rcur' = rcur),
         \A w \in Versions : final'[w] # final[w] =>
            /\ final'[w] = "none" /\ state[w] # "ready" /\ rpc' # "promote"
            /\ \A d \in Clients : req[d].pc = "commit" => req[d].ver # w,
         \A w \in Versions : state'[w] = "ready" => state[w] = "ready",
         \A d \in Clients : /\ req'[d].pc \notin {"emptying", "fill"}
                            /\ req'[d].pc = "commit" =>
                                 req[d].pc = "commit" /\ req'[d].ver = req[d].ver,
         rpc = "promote" => rcur \in Versions
  PROVE  BytesInv'
<1>1. \A d \in Clients : req[d].pc = "commit" => req[d].ver \in Versions
  BY DEF Targets, Uploading, Pre
<1>2. \A w \in Versions : final'[w] # "empty"
  BY DEF Bytes
<1>3. \A d \in Clients : req'[d].pc = "commit" => final'[req'[d].ver] = "whole"
  BY <1>1 DEF Bytes
<1>4. rpc' = "promote" => final'[rcur'] = "whole"
  BY DEF Bytes
<1>5. ReadyBacked'
  BY DEF ReadyBacked
<1> QED
  BY <1>2, <1>3, <1>4, <1>5 DEF Bytes

LEMMA BytesStart ==
  ASSUME OrderInv, BytesInv, SafeProfile, NEW c \in Clients, Start(c)
  PROVE  BytesInv'
<1>0. rpc \in {"off", "done"}
  BY Serving DEF Start, StartUpload, StartOnObject, StartCopy, StartEmpty, StartDrop,
                 CreateBucket, Begin, SafeProfile
<1>1. ASSUME NEW o, NEW p, NEW q, NEW rows, NEW l \in {"prior", "find", "drop"},
             Begin(c, o, p, q, l, rows)
      PROVE  BytesInv'
  <2> DEFINE r == [Idle EXCEPT !.pc = l, !.op = o, !.at = p, !.src = q, !.todo = rows]
  <2>1. r.pc = l
    BY DEF Idle
  <2>2. req' = [req EXCEPT ![c] = r]
    BY <1>1 DEF Begin
  <2> HIDE DEF r
  <2>3. \A d \in Clients : req'[d] = IF d = c THEN r ELSE req[d]
    BY <2>2 DEF TypeOK
  <2>4. UNCHANGED <<state, final>> /\ rpc' # "promote"
    BY <1>0, <1>1 DEF Begin, LeaveRecovered
  <2> QED
    BY <1>0, <2>1, <2>3, <2>4, BytesKept DEF Bytes
<1>2. CASE StartUpload(c)
  BY <1>1, <1>2 DEF StartUpload
<1>3. CASE StartOnObject(c)
  BY <1>1, <1>3 DEF StartOnObject
<1>4. CASE StartCopy(c)
  BY <1>1, <1>4 DEF StartCopy
<1>5. CASE StartEmpty(c)
  BY <1>5 DEF StartEmpty, Begin, SafeProfile
<1>6. CASE StartDrop(c)
  BY <1>1, <1>6 DEF StartDrop
<1>7. CASE CreateBucket(c)
  BY <1>0, <1>7, BytesKept DEF CreateBucket, LeaveRecovered, Bytes
<1> QED
  BY <1>2, <1>3, <1>4, <1>5, <1>6, <1>7 DEF Start

\* A request's step changes its own record only, and sets out to commit only
\* from promote().
LEMMA StepPlace ==
  ASSUME OrderInv, BytesInv, SafeProfile, NEW c \in Clients, Step(c) \/ Stop(c),
         ~Promote(c)
  PROVE  \A d \in Clients : /\ req'[d].pc \notin {"emptying", "fill"}
                            /\ req'[d].pc = "commit" =>
                                 req[d].pc = "commit" /\ req'[d].ver = req[d].ver
<1>1. req[c].pc # "emptying" /\ req[c].pc # "fill"
  BY DEF Bytes
<1>2. \A d \in Clients : d # c => req[d].pc \notin {"emptying", "fill"}
  BY DEF Bytes
<1>a. ASSUME Finish(c)
      PROVE  /\ req'[c].pc = "idle"
             /\ \A d \in Clients : d # c => req'[d] = req[d]
  BY <1>a, FinishType DEF TypeOK, Idle
<1>b. ASSUME NEW l \in PcLabels \ {"emptying", "fill", "commit"}, Goto(c, l)
      PROVE  /\ req'[c].pc = l
             /\ \A d \in Clients : d # c => req'[d] = req[d]
  BY <1>b, GotoType DEF TypeOK
<1>3. CASE ReadPrior(c)
  <2>1. PICK v \in FirstOf(CurrentReady(req[c].at)) :
          req' = [req EXCEPT ![c].pc = "reserve", ![c].prior = v, ![c].ver = used + 1]
    BY <1>3 DEF ReadPrior
  <2> DEFINE r == [req[c] EXCEPT !.pc = "reserve", !.prior = v, !.ver = used + 1]
  <2>2. req' = [req EXCEPT ![c] = r]
    BY <2>1
  <2>3. r.pc = "reserve"
    BY DEF TypeOK, RequestRecords
  <2> HIDE DEF r
  <2> QED
    BY <1>2, <2>2, <2>3 DEF TypeOK
<1>4. CASE FindTarget(c)
  <2>1. ASSUME NEW v, NEW l \in {"mark", "open"},
               req' = [req EXCEPT ![c].prior = v, ![c].pc = l]
        PROVE  req'[c].pc = l /\ \A d \in Clients : d # c => req'[d] = req[d]
    <3> DEFINE r == [req[c] EXCEPT !.prior = v, !.pc = l]
    <3>1. req' = [req EXCEPT ![c] = r]
      BY <2>1
    <3>2. r.pc = l
      BY DEF TypeOK, RequestRecords
    <3> HIDE DEF r
    <3> QED
      BY <3>1, <3>2 DEF TypeOK
  <2> QED
    BY <1>2, <1>4, <1>a, <2>1 DEF FindTarget
<1>5. CASE Respond(c)
  <2> DEFINE r == [Idle EXCEPT !.pc = "find", !.op = "remove", !.at = req[c].src,
                               !.src = req[c].src]
  <2>1. Finish(c) \/ req' = [req EXCEPT ![c] = r]
    BY <1>5 DEF Respond
  <2>2. r.pc = "find"
    BY DEF Idle
  <2> HIDE DEF r
  <2> QED
    BY <1>2, <1>a, <2>1, <2>2 DEF TypeOK
<1>6. CASE \/ RefuseExisting(c) \/ Unreserve(c) \/ Discard(c) \/ FlagCorrupt(c) \/ Stop(c)
           \/ EmptyRows(c) \/ DropBucket(c)
  BY <1>2, <1>6, <1>a
  DEF RefuseExisting, Unreserve, Discard, FlagCorrupt, Stop, EmptyRows, DropBucket
<1>7. CASE Reserve(c) \/ PutStaged(c) \/ MarkDeleting(c) \/ DeleteBytes(c)
  BY <1>2, <1>7, <1>a, <1>b DEF Reserve, PutStaged, MarkDeleting, DeleteBytes, PcLabels
<1>8. CASE DeleteRow(c) \/ OpenBytes(c) \/ OpenFails(c)
  BY <1>2, <1>8, <1>a, <1>b DEF DeleteRow, OpenBytes, OpenFails, PcLabels
<1>9. CASE CommitReady(c)
  <2> DEFINE l == IF req[c].prior = NoRow THEN "respond" ELSE "mark"
  <2>1. Goto(c, l) \/ Goto(c, "discard")
    BY <1>9 DEF CommitReady
  <2>2. {l, "discard"} \subseteq PcLabels \ {"emptying", "fill", "commit"} /\ l # "commit"
        /\ l \notin {"emptying", "fill"}
    BY DEF PcLabels
  <2> HIDE DEF l
  <2> QED
    BY <1>2, <1>b, <2>1, <2>2
<1>10. CASE Fill(c) \/ EmptyBytes(c)
  BY <1>1, <1>10 DEF Fill, EmptyBytes
<1> QED
  BY <1>3, <1>4, <1>5, <1>6, <1>7, <1>8, <1>9, <1>10 DEF Step

LEMMA BytesStep ==
  ASSUME OrderInv, BytesInv, SafeProfile, NEW c \in Clients, Step(c) \/ Stop(c)
  PROVE  BytesInv'
<1>0. ~OnlineRecovery
  BY DEF SafeProfile
<1>1. req[c].pc \notin {"idle", "emptying", "fill"}
  BY DEF Bytes, Stop, Step, ReadPrior, RefuseExisting, Reserve, PutStaged, Unreserve, Promote,
         Fill, CommitReady, Discard, Respond, FindTarget, MarkDeleting, DeleteBytes, DeleteRow,
         OpenBytes, OpenFails, FlagCorrupt, EmptyBytes, EmptyRows, DropBucket
<1>2. rpc' = rpc /\ rpc \notin {"promote"} /\ rcur' = rcur
  BY <1>0, <1>1, Serving
  DEF Stop, Step, ReadPrior, RefuseExisting, Reserve, PutStaged, Unreserve, Promote,
      Fill, CommitReady, Discard, Respond, FindTarget, MarkDeleting, DeleteBytes, DeleteRow,
      OpenBytes, OpenFails, FlagCorrupt, EmptyBytes, EmptyRows, DropBucket
<1>3. ASSUME ~Promote(c),
             \A w \in Versions : final'[w] # final[w] =>
               /\ final'[w] = "none" /\ state[w] # "ready"
               /\ \A d \in Clients : req[d].pc = "commit" => req[d].ver # w,
             \A w \in Versions : state'[w] = "ready" => state[w] = "ready"
      PROVE  BytesInv'
  BY <1>2, <1>3, StepPlace, BytesKept
<1>4. CASE Promote(c)
  <2> DEFINE n == req[c].ver
  <2>1. Goto(c, "commit") /\ final' = [final EXCEPT ![n] = "whole"] /\ state' = state
    BY <1>4 DEF Promote, SafeProfile
  <2>2. n \in Versions
    BY <1>4 DEF Promote, Targets, Uploading, Pre
  <2>3. /\ final'[n] = "whole"
        /\ \A w \in Versions : w # n => final'[w] = final[w]
    BY <2>1, <2>2 DEF TypeOK
  <2>4. /\ req'[c].pc = "commit" /\ req'[c].ver = n
        /\ \A d \in Clients : d # c => req'[d] = req[d]
    BY <2>1, GotoType DEF TypeOK, PcLabels
  <2>5. \A d \in Clients : req[d].pc = "commit" => req[d].ver \in Versions
    BY DEF Targets, Uploading, Pre
  <2> HIDE DEF n
  <2>6. Bytes'
    BY <1>2, <2>3, <2>4, <2>5 DEF Bytes
  <2>7. ReadyBacked'
    BY <2>1, <2>3 DEF ReadyBacked
  <2> QED
    BY <2>6, <2>7
<1>5. CASE CommitReady(c) /\ UNCHANGED state
  BY <1>3, <1>5 DEF CommitReady, Promote
<1>6. CASE CommitReady(c) /\ BecomesReady(req[c].ver)
  <2> DEFINE n == req[c].ver
  <2>1. n \in Versions /\ final[n] = "whole" /\ UNCHANGED final
    BY <1>6 DEF CommitReady, Targets, Uploading, Pre, Bytes
  <2>2. \A w \in Versions : state'[w] = "ready" => w = n \/ state[w] = "ready"
    BY <1>6 DEF BecomesReady, TypeOK
  <2> HIDE DEF n
  <2>3. ~Promote(c)
    BY <1>6 DEF CommitReady, Promote
  <2>4. Bytes'
    BY <1>2, <2>1, <2>3, StepPlace DEF Bytes
  <2>5. ReadyBacked'
    BY <2>1, <2>2 DEF ReadyBacked
  <2> QED
    BY <2>4, <2>5
<1>7. CASE DeleteBytes(c)
  <2> DEFINE v == req[c].prior
  <2>1. v \in Versions /\ state[v] # "ready" /\ DeleteFinal(v) /\ state' = state /\ ~Promote(c)
    BY <1>7 DEF DeleteBytes, Targets, Deleting, Ordered, Found, Promote
  <2>2. \A d \in Clients : req[d].pc = "commit" => req[d].ver # v
    BY DEF Ordered, Distinct, Uploading, Pre
  <2> HIDE DEF v
  <2>3. \A w \in Versions : final'[w] # final[w] => w = v /\ final'[w] = "none"
    BY <2>1 DEF DeleteFinal, TypeOK
  <2> QED
    BY <1>3, <2>1, <2>2, <2>3
<1>8. CASE Discard(c)
  <2> DEFINE v == req[c].ver
  <2>1. v \in Versions /\ state[v] # "ready" /\ DeleteFinal(v) /\ state' = state /\ ~Promote(c)
    BY <1>8 DEF Discard, Targets, Uploading, Pre, Ordered, Own, Promote
  <2>2. \A d \in Clients : req[d].pc = "commit" => req[d].ver # v
    BY <1>8 DEF Discard, Ordered, Distinct, Uploading, Pre
  <2> HIDE DEF v
  <2>3. \A w \in Versions : final'[w] # final[w] => w = v /\ final'[w] = "none"
    BY <2>1 DEF DeleteFinal, TypeOK
  <2> QED
    BY <1>3, <2>1, <2>2, <2>3
<1>9. CASE \/ ReadPrior(c) \/ RefuseExisting(c) \/ PutStaged(c) \/ Respond(c) \/ FindTarget(c)
           \/ OpenBytes(c) \/ OpenFails(c) \/ Stop(c)
  <2>1. UNCHANGED <<state, final>>
    BY <1>9 DEF ReadPrior, RefuseExisting, PutStaged, Respond, FindTarget, OpenBytes, OpenFails,
                Stop
  <2>2. CASE ~Promote(c)
    BY <1>3, <2>1, <2>2
  <2> QED
    BY <1>4, <2>2
<1>10. CASE \/ Reserve(c) \/ Unreserve(c) \/ MarkDeleting(c) \/ DeleteRow(c) \/ FlagCorrupt(c)
            \/ EmptyRows(c) \/ DropBucket(c)
  <2>1. UNCHANGED final
    BY <1>10 DEF Reserve, Unreserve, MarkDeleting, DeleteRow, FlagCorrupt, EmptyRows, DropBucket
  <2>2. \A w \in Versions : state'[w] = "ready" => state[w] = "ready"
    BY <1>10
    DEF Reserve, Unreserve, MarkDeleting, DeleteRow, FlagCorrupt, EmptyRows, DropBucket,
        DeleteById, UpdateById, TypeOK
  <2>3. CASE ~Promote(c)
    BY <1>3, <2>1, <2>2, <2>3
  <2> QED
    BY <1>4, <2>3
<1>11. CASE Fill(c) \/ EmptyBytes(c)
  BY <1>1, <1>11 DEF Fill, EmptyBytes
<1> QED
  BY <1>4, <1>5, <1>6, <1>7, <1>8, <1>9, <1>10, <1>11 DEF Step, CommitReady

LEMMA BytesRecover ==
  ASSUME OrderInv, BytesInv, SafeProfile, Recover
  PROVE  BytesInv'
<1>1. UNCHANGED req /\ \A c \in Clients : req[c].pc = "idle"
  BY DEF Recover, RecoverStart, RecoverStat, RecoverPromote, RecoverAbort, RecoverDeleteBytes,
         RecoverDeleteRow, RecoverReady, RecoverCheck, RecoverFlag, RecoverList, RecoverReap,
         RecoverDone, RecoverStop, Quiet, Ordered, Recovering, SafeProfile
<1>2. rpc = "promote" => rcur \in Versions
  BY DEF Ordered, Recovering
<1>3. ASSUME rpc' # "promote",
             \A w \in Versions : final'[w] # final[w] => final'[w] = "none" /\ state[w] # "ready",
             \A w \in Versions : state'[w] = "ready" => state[w] = "ready"
      PROVE  BytesInv'
  BY <1>1, <1>2, <1>3, BytesKept
<1>4. ASSUME NEW v \in Versions, RecoverStat(v) PROVE BytesInv'
  <2>1. rpc' = "promote" => rcur' = v /\ final[v] = "whole"
    BY <1>4 DEF RecoverStat, Bytes, TypeOK, BlobStates
  <2>2. UNCHANGED <<state, final>>
    BY <1>4 DEF RecoverStat
  <2> QED
    BY <1>1, <2>1, <2>2 DEF Bytes, ReadyBacked
<1>5. CASE RecoverPromote
  <2>1. rcur \in Versions /\ final[rcur] = "whole" /\ UNCHANGED final /\ rpc' = "rows"
    BY <1>2, <1>5 DEF RecoverPromote, Bytes
  <2>2. \A w \in Versions : state'[w] = "ready" => w = rcur \/ state[w] = "ready"
    BY <1>5, <2>1 DEF RecoverPromote, BecomesReady, TypeOK
  <2> QED
    BY <1>1, <2>1, <2>2 DEF Bytes, ReadyBacked
<1>6. CASE RecoverDeleteBytes
  <2>1. rcur \in Versions /\ state[rcur] # "ready" /\ UNCHANGED state /\ rpc' = "row"
    BY <1>6 DEF RecoverDeleteBytes, Ordered, Recovering
  <2>2. \A w \in Versions : final'[w] # final[w] => w = rcur /\ final'[w] = "none"
    BY <1>6, <2>1 DEF RecoverDeleteBytes, DeleteFinal, TypeOK
  <2> QED
    BY <1>3, <2>1, <2>2
<1>7. CASE RecoverAbort \/ RecoverDeleteRow \/ RecoverFlag
  <2>1. UNCHANGED final /\ rpc' # "promote"
    BY <1>7 DEF RecoverAbort, RecoverDeleteRow, RecoverFlag
  <2>2. \A w \in Versions : state'[w] = "ready" => state[w] = "ready"
    BY <1>7
    DEF RecoverAbort, RecoverDeleteRow, RecoverFlag, DeleteById, UpdateById, TypeOK
  <2> QED
    BY <1>3, <2>1, <2>2
<1>8. CASE RecoverStart \/ RecoverReady \/ RecoverList \/ RecoverDone \/ RecoverStop
  BY <1>3, <1>8 DEF RecoverStart, RecoverReady, RecoverList, RecoverDone, RecoverStop
<1>9. ASSUME NEW v \in Versions, RecoverCheck(v) \/ RecoverReap(v) PROVE BytesInv'
  BY <1>3, <1>9 DEF RecoverCheck, RecoverReap
<1> QED
  BY <1>4, <1>5, <1>6, <1>7, <1>8, <1>9 DEF Recover

\* For every number of requests, paths and uploads on an adapter that promotes
\* atomically: no order of uploads, replacements, removals, moves, dropped
\* buckets, interruptions and recoveries shows a row without its bytes.
THEOREM StorageReadyBacked == SafeProfile => (Spec => []ReadyBacked)
<1> SUFFICES ASSUME SafeProfile PROVE Spec => []ReadyBacked
  OBVIOUS
<1>1. Init => OrderInv /\ BytesInv
  BY OrderInit, BytesInit
<1>2. OrderInv /\ BytesInv /\ [Next]_vars => (OrderInv /\ BytesInv)'
  <2> SUFFICES ASSUME OrderInv, BytesInv, [Next]_vars PROVE (OrderInv /\ BytesInv)'
    OBVIOUS
  <2>1. OrderInv'
    BY OrderNext DEF SafeProfile
  <2>2. CASE UNCHANGED vars
    BY <2>1, <2>2 DEF Bytes, ReadyBacked
  <2> QED
    BY <2>1, <2>2, BytesStart, BytesStep, BytesRecover DEF Next
<1>3. OrderInv /\ BytesInv => ReadyBacked
  OBVIOUS
<1> QED
  BY <1>1, <1>2, <1>3, PTL DEF Spec

--------------------------------------------------------------------------------
(* What has been seen stays seen, in every profile and also with a recovery   *)
(* beside requests: a version that a lookup, a recovery or a delete has come  *)
(* upon is past its time in staging, and only a staging row becomes visible.  *)

\* A version that was in staging, if ever, and will not be again.
Beyond(v) ==
  /\ v \in 1..used
  /\ state[v] # "staging"
  /\ \A c \in Clients : req[c].pc = "reserve" => req[c].ver # v

\* A request that is about to insert its staging row is the only one to do so.
Reserving(c) ==
  req[c].pc = "reserve" =>
    /\ req[c].ver \in 1..used
    /\ state[req[c].ver] = "none"
    /\ \A d \in Clients : req[d].pc = "reserve" /\ req[d].ver = req[c].ver => c = d

NoTrace == \A v \in Versions : v > used => state[v] = "none"

Seen ==
  /\ \A c \in Clients : req[c].prior # NoRow => Beyond(req[c].prior)
  /\ \A v \in condemned : Beyond(v)
  /\ rpc = "flag" => Beyond(rcur)
  /\ rpc \in {"ready", "flag"} => \A v \in rtodo : Beyond(v)

SeenInv == TypeInv /\ NoTrace /\ Seen /\ \A c \in Clients : Reserving(c)

\* A step after which no row is new and none is back in staging.
Calm ==
  \A v \in Versions : /\ state'[v] = "staging" => state[v] = "staging"
                      /\ state[v] = "none" => state'[v] = "none"

\* Nobody comes to insert a staging row.
NoneComes ==
  \A c \in Clients : req'[c].pc = "reserve" => req[c].pc = "reserve" /\ req'[c].ver = req[c].ver

LEMMA SeenInit == Init => SeenInv
  BY TypeInit DEF Init, SeenInv, NoTrace, Seen, Reserving, Idle, NoRow

LEMMA UsedVersions == TypeInv => 1..used \subseteq Versions
  BY BoundAssumption DEF TypeOK, Versions

LEMMA BeyondKept ==
  ASSUME TypeInv, Calm, NoneComes, used' = used, NEW v, Beyond(v)
  PROVE  Beyond(v)'
<1>1. v \in Versions
  BY UsedVersions DEF Beyond
<1> QED
  BY <1>1 DEF Beyond, Calm, NoneComes

LEMMA ReadyBeyond ==
  ASSUME SeenInv, NEW v \in Versions, state[v] \notin {"none", "staging"}
  PROVE  Beyond(v)
<1>1. v \in Nat /\ v >= 1 /\ used \in Nat
  BY BoundAssumption DEF SeenInv, Versions, TypeOK
<1>2. v <= used
  BY <1>1 DEF SeenInv, NoTrace
<1> QED
  BY <1>1, <1>2 DEF SeenInv, Reserving, Beyond

LEMMA SeenKept ==
  ASSUME SeenInv, TypeInv', Calm, NoneComes, used' = used,
         \A c \in Clients :
           req'[c].prior \in {NoRow, req[c].prior} \/ Beyond(req'[c].prior),
         \A v \in condemned' : v \in condemned \/ Beyond(v) \/ Beyond(v)',
         rpc' = "flag" => Beyond(rcur'),
         rpc' \in {"ready", "flag"} => \A v \in rtodo' : Beyond(v)
  PROVE  SeenInv'
<1>1. \A v : Beyond(v) => Beyond(v)'
  BY BeyondKept DEF SeenInv
<1>2. NoTrace'
  BY DEF SeenInv, NoTrace, Calm
<1>3. Seen'
  BY <1>1 DEF SeenInv, Seen
<1>4. ASSUME NEW c \in Clients PROVE Reserving(c)'
  <2> SUFFICES ASSUME req'[c].pc = "reserve"
               PROVE  /\ req'[c].ver \in 1..used
                      /\ state'[req'[c].ver] = "none"
                      /\ \A d \in Clients :
                           req'[d].pc = "reserve" /\ req'[d].ver = req'[c].ver => c = d
    BY DEF Reserving
  <2>1. req[c].pc = "reserve" /\ req'[c].ver = req[c].ver
    BY DEF NoneComes
  <2>2. /\ req[c].ver \in 1..used /\ state[req[c].ver] = "none"
        /\ \A d \in Clients : req[d].pc = "reserve" /\ req[d].ver = req[c].ver => c = d
    BY <2>1 DEF SeenInv, Reserving
  <2> QED
    BY <2>1, <2>2, UsedVersions DEF SeenInv, Calm, NoneComes
<1> QED
  BY <1>2, <1>3, <1>4 DEF SeenInv

\* A step of one request that leaves recover() where it is, or ends its say.
LEMMA SeenMove ==
  ASSUME SeenInv, TypeInv', Calm, used' = used, NEW c \in Clients,
         \A d \in Clients : d # c => req'[d] = req[d],
         req'[c].pc # "reserve",
         req'[c].prior \in {NoRow, req[c].prior} \/ Beyond(req'[c].prior),
         \A v \in condemned' : v \in condemned \/ Beyond(v) \/ Beyond(v)',
         rpc' \in {rpc, "off"}, UNCHANGED <<rtodo, rcur>>
  PROVE  SeenInv'
<1>1. NoneComes
  BY DEF NoneComes
<1>2. \A d \in Clients : req'[d].prior \in {NoRow, req[d].prior} \/ Beyond(req'[d].prior)
  OBVIOUS
<1>3. /\ rpc' = "flag" => Beyond(rcur')
      /\ rpc' \in {"ready", "flag"} => \A v \in rtodo' : Beyond(v)
  BY DEF SeenInv, Seen
<1> QED
  BY <1>1, <1>2, <1>3, SeenKept

LEMMA SeenStart ==
  ASSUME SeenInv, NEW c \in Clients, Start(c)
  PROVE  SeenInv'
<1>0. TypeInv'
  BY TypeStart DEF SeenInv
<1>1. ASSUME NEW o, NEW p, NEW q, NEW l \in {"prior", "find", "emptying", "drop"}, NEW rows,
             Begin(c, o, p, q, l, rows)
      PROVE  SeenInv'
  <2> DEFINE r == [Idle EXCEPT !.pc = l, !.op = o, !.at = p, !.src = q, !.todo = rows]
  <2>1. r.pc = l /\ r.prior = NoRow
    BY DEF Idle
  <2>2. req' = [req EXCEPT ![c] = r]
    BY <1>1 DEF Begin
  <2> HIDE DEF r
  <2>3. req'[c] = r /\ \A d \in Clients : d # c => req'[d] = req[d]
    BY <2>2 DEF SeenInv, TypeOK
  <2>4. rpc' \in {rpc, "off"} /\ UNCHANGED <<rtodo, rcur, used, condemned>> /\ Calm
    BY <1>1 DEF Begin, LeaveRecovered, Calm
  <2> QED
    BY <1>0, <2>1, <2>3, <2>4, SeenMove
<1>2. CASE CreateBucket(c)
  <2>1. rpc' \in {rpc, "off"} /\ UNCHANGED <<rtodo, rcur, used, condemned, req>> /\ Calm
    BY <1>2 DEF CreateBucket, LeaveRecovered, Calm
  <2>2. req[c].pc # "reserve"
    BY <1>2 DEF CreateBucket
  <2> QED
    BY <1>0, <2>1, <2>2, SeenMove
<1> QED
  BY <1>1, <1>2
  DEF Start, StartUpload, StartOnObject, StartCopy, StartEmpty, StartDrop

\* The steps of a request other than the lookup of what to replace and the INSERT.
LEMMA SeenSteps ==
  ASSUME SeenInv, NEW c \in Clients, Step(c) \/ Stop(c), ~ReadPrior(c), ~Reserve(c)
  PROVE  SeenInv'
<1>0. TypeInv' /\ req \in [Clients -> RequestRecords] /\ state \in [Versions -> RowStates]
  BY TypeUpload, TypeObject DEF SeenInv, Step, TypeOK
<1>1. rpc' = rpc /\ UNCHANGED <<rtodo, rcur, used>>
  BY DEF Step, RefuseExisting, PutStaged, Unreserve, Promote, Fill, CommitReady, Discard,
         Respond, FindTarget, MarkDeleting, DeleteBytes, DeleteRow, OpenBytes, OpenFails,
         FlagCorrupt, EmptyBytes, EmptyRows, DropBucket, Stop
<1>2. Calm
  BY <1>0
  DEF Step, RefuseExisting, PutStaged, Unreserve, Promote, Fill, CommitReady, BecomesReady,
      Discard, Respond, FindTarget, MarkDeleting, DeleteBytes, DeleteRow, OpenBytes, OpenFails,
      FlagCorrupt, EmptyBytes, EmptyRows, DropBucket, Stop, UpdateById, DeleteById, Rows, Calm
<1>3. ASSUME UNCHANGED condemned, NEW l \in PcLabels \ {"reserve"}, Goto(c, l)
      PROVE  SeenInv'
  BY <1>0, <1>1, <1>2, <1>3, GotoType, SeenMove
<1>4. ASSUME Finish(c), \A v \in condemned' : v \in condemned \/ Beyond(v) \/ Beyond(v)'
      PROVE  SeenInv'
  <2>1. req'[c] = Idle /\ \A d \in Clients : d # c => req'[d] = req[d]
    BY <1>0, <1>4, FinishType
  <2>2. req'[c].pc # "reserve" /\ req'[c].prior = NoRow
    BY <2>1 DEF Idle
  <2> QED
    BY <1>0, <1>1, <1>2, <1>4, <2>1, <2>2, SeenMove
<1>5. CASE RefuseExisting(c) \/ Unreserve(c) \/ Discard(c) \/ Stop(c)
  BY <1>4, <1>5 DEF RefuseExisting, Unreserve, Discard, Stop
<1>6. CASE PutStaged(c) \/ Promote(c) \/ Fill(c) \/ CommitReady(c)
  BY <1>3, <1>6 DEF PutStaged, Promote, Fill, CommitReady, PcLabels
<1>7. CASE DeleteBytes(c) \/ DeleteRow(c) \/ OpenBytes(c) \/ OpenFails(c)
  BY <1>3, <1>4, <1>7 DEF DeleteBytes, DeleteRow, OpenBytes, OpenFails, PcLabels
<1>8. CASE Respond(c)
  <2>1. CASE Finish(c)
    BY <1>4, <1>8, <2>1 DEF Respond
  <2>2. CASE ~Finish(c)
    <3> DEFINE r == [Idle EXCEPT !.pc = "find", !.op = "remove", !.at = req[c].src,
                                 !.src = req[c].src]
    <3>1. req' = [req EXCEPT ![c] = r] /\ UNCHANGED condemned
      BY <1>8, <2>2 DEF Respond
    <3>2. r.pc = "find" /\ r.prior = NoRow
      BY DEF Idle
    <3> HIDE DEF r
    <3>3. req'[c] = r /\ \A d \in Clients : d # c => req'[d] = req[d]
      BY <1>0, <3>1
    <3> QED
      BY <1>0, <1>1, <1>2, <3>1, <3>2, <3>3, SeenMove
  <2> QED
    BY <2>1, <2>2
<1>9. CASE FindTarget(c)
  <2>1. CASE Finish(c)
    BY <1>4, <1>9, <2>1 DEF FindTarget
  <2>2. CASE ~Finish(c)
    <3> DEFINE p == IF req[c].op \in {"copy", "move"} THEN req[c].src ELSE req[c].at
    <3>1. PICK v \in CurrentReady(p) :
            req' = [req EXCEPT ![c].prior = v,
                               ![c].pc = IF req[c].op = "remove" THEN "mark" ELSE "open"]
      BY <1>9, <2>2 DEF FindTarget
    <3>2. v \in Versions /\ Beyond(v)
      BY ReadyBeyond DEF CurrentReady, RowsIn
    <3>3. /\ req'[c].prior = v /\ req'[c].pc # "reserve"
          /\ \A d \in Clients : d # c => req'[d] = req[d]
      BY <1>0, <3>1 DEF RequestRecords
    <3> QED
      BY <1>0, <1>1, <1>2, <1>9, <3>2, <3>3, SeenMove DEF FindTarget
  <2> QED
    BY <2>1, <2>2
<1>10. CASE MarkDeleting(c) \/ FlagCorrupt(c)
  <2>1. req[c].prior # NoRow
    BY <1>10, BoundAssumption
    DEF MarkDeleting, FlagCorrupt, SeenInv, Targets, Deleting, Versions, NoRow
  <2>2. Beyond(req[c].prior)
    BY <2>1 DEF SeenInv, Seen
  <2>3. \A v \in condemned' : v \in condemned \/ Beyond(v)
    BY <1>10, <2>2 DEF MarkDeleting, FlagCorrupt, Condemn
  <2>4. CASE FlagCorrupt(c)
    BY <1>4, <2>3, <2>4 DEF FlagCorrupt
  <2>5. CASE MarkDeleting(c)
    BY <1>0, <1>1, <1>2, <2>3, <2>5, GotoType, SeenMove DEF MarkDeleting, PcLabels
  <2> QED
    BY <1>10, <2>4, <2>5
<1>11. CASE EmptyBytes(c)
  <2>1. PICK v \in req[c].todo : req' = [req EXCEPT ![c].todo = @ \ {v}]
    BY <1>11 DEF EmptyBytes
  <2>2. /\ req'[c].prior = req[c].prior /\ req'[c].pc = "emptying"
        /\ \A d \in Clients : d # c => req'[d] = req[d]
    BY <1>0, <1>11, <2>1 DEF EmptyBytes, RequestRecords
  <2> QED
    BY <1>0, <1>1, <1>2, <1>11, <2>2, SeenMove DEF EmptyBytes
<1>12. CASE EmptyRows(c) \/ DropBucket(c)
  <2>1. Finish(c) /\ condemned' = condemned \cup Rows /\ state' = [v \in Versions |-> "none"]
    BY <1>12 DEF EmptyRows, DropBucket, Condemn
  <2>2. \A d \in Clients : req'[d].pc = "reserve" => req[d].pc = "reserve" /\ req'[d].ver = req[d].ver
    BY <1>0, <2>1, FinishType DEF Idle
  <2>3. ASSUME NEW v \in Rows PROVE Beyond(v)'
    <3>1. v \in Versions /\ state[v] # "none" /\ v \in 1..used
      BY BoundAssumption DEF Rows, SeenInv, NoTrace, Versions, TypeOK
    <3>2. \A d \in Clients : req[d].pc = "reserve" => req[d].ver # v
      BY <3>1 DEF SeenInv, Reserving
    <3> QED
      BY <1>1, <2>1, <2>2, <3>1, <3>2 DEF Beyond
  <2> QED
    BY <1>4, <2>1, <2>3
<1> QED
  BY <1>5, <1>6, <1>7, <1>8, <1>9, <1>10, <1>11, <1>12 DEF Step

LEMMA SeenMint ==
  ASSUME SeenInv, NEW c \in Clients, ReadPrior(c)
  PROVE  SeenInv'
<1>0. TypeInv' /\ req \in [Clients -> RequestRecords] /\ used \in Nat
  BY TypeUpload DEF SeenInv, TypeOK
<1>1. PICK v \in FirstOf(CurrentReady(req[c].at)) :
        req' = [req EXCEPT ![c].pc = "reserve", ![c].prior = v, ![c].ver = used + 1]
  BY DEF ReadPrior
<1>2. /\ req'[c].pc = "reserve" /\ req'[c].prior = v /\ req'[c].ver = used + 1
      /\ \A d \in Clients : d # c => req'[d] = req[d]
  BY <1>0, <1>1 DEF RequestRecords
<1>3. used' = used + 1 /\ UNCHANGED <<state, rpc, rtodo, rcur, condemned>>
  BY DEF ReadPrior
<1>4. \A w : Beyond(w) => Beyond(w)'
  BY <1>0, <1>2, <1>3 DEF Beyond
<1>5. v = NoRow \/ Beyond(v)
  BY ReadyBeyond DEF FirstOf, CurrentReady, RowsIn
<1>6. Seen'
  BY <1>2, <1>3, <1>4, <1>5 DEF SeenInv, Seen
<1>7. NoTrace'
  BY <1>0, <1>3 DEF SeenInv, NoTrace, Versions
<1>8. used + 1 \in Versions /\ state[used + 1] = "none"
  BY <1>0, BoundAssumption DEF ReadPrior, SeenInv, NoTrace, Versions
<1>9. ASSUME NEW d \in Clients PROVE Reserving(d)'
  BY <1>0, <1>2, <1>3, <1>8 DEF SeenInv, Reserving
<1> QED
  BY <1>0, <1>6, <1>7, <1>9 DEF SeenInv

LEMMA SeenReserve ==
  ASSUME SeenInv, NEW c \in Clients, Reserve(c)
  PROVE  SeenInv'
<1>0. TypeInv' /\ req \in [Clients -> RequestRecords] /\ used \in Nat
      /\ state \in [Versions -> RowStates]
  BY TypeUpload DEF SeenInv, TypeOK
<1> DEFINE n == req[c].ver
<1>1. /\ req[c].pc = "reserve" /\ n \in 1..used /\ n \in Versions
      /\ \A d \in Clients : req[d].pc = "reserve" /\ req[d].ver = n => c = d
  BY UsedVersions DEF Reserve, SeenInv, Reserving
<1>2. UNCHANGED <<used, rpc, rtodo, rcur, condemned>>
  BY DEF Reserve
<1>3. /\ req'[c].pc # "reserve" /\ req'[c].prior \in {NoRow, req[c].prior}
      /\ \A d \in Clients : d # c => req'[d] = req[d]
  <2>1. CASE bucket
    BY <1>0, <2>1, GotoType DEF Reserve, PcLabels
  <2>2. CASE ~bucket
    BY <1>0, <2>2, FinishType DEF Reserve, Idle
  <2> QED
    BY <2>1, <2>2
<1>4. \A w \in Versions : w # n => state'[w] = state[w]
  BY <1>0, <1>1 DEF Reserve
<1>5. ASSUME NEW w, Beyond(w) PROVE Beyond(w)'
  <2>1. w # n /\ w \in Versions
    BY <1>1, <1>5, UsedVersions DEF Beyond, SeenInv
  <2> QED
    BY <1>2, <1>3, <1>4, <1>5, <2>1 DEF Beyond
<1>6. Seen'
  BY <1>2, <1>3, <1>5 DEF SeenInv, Seen
<1>7. NoTrace'
  BY <1>0, <1>1, <1>2, <1>4 DEF SeenInv, NoTrace
<1>8. ASSUME NEW d \in Clients PROVE Reserving(d)'
  <2> SUFFICES ASSUME req'[d].pc = "reserve" PROVE Reserving(d)'
    BY DEF Reserving
  <2>1. d # c /\ req'[d] = req[d] /\ req[d].ver # n
    BY <1>1, <1>3
  <2>2. req[d].ver \in Versions
    BY <2>1, UsedVersions DEF SeenInv, Reserving
  <2> QED
    BY <1>2, <1>3, <1>4, <2>1, <2>2 DEF SeenInv, Reserving
<1> QED
  BY <1>0, <1>6, <1>7, <1>8 DEF SeenInv

LEMMA SeenRecover ==
  ASSUME SeenInv, Recover
  PROVE  SeenInv'
<1>0. TypeInv' /\ UNCHANGED <<req, used>> /\ state \in [Versions -> RowStates]
  BY TypeRecover
  DEF SeenInv, TypeOK, Recover, RecoverStart, RecoverStat, RecoverPromote, RecoverAbort,
      RecoverDeleteBytes, RecoverDeleteRow, RecoverReady, RecoverCheck, RecoverFlag, RecoverList,
      RecoverReap, RecoverDone, RecoverStop
<1>1. NoneComes
  BY <1>0 DEF NoneComes
<1>2. ASSUME Calm, \A v \in condemned' : v \in condemned \/ Beyond(v),
             rpc' = "flag" => Beyond(rcur'),
             rpc' \in {"ready", "flag"} => \A v \in rtodo' : Beyond(v)
      PROVE  SeenInv'
  BY <1>0, <1>1, <1>2, SeenKept
<1>3. CASE \/ RecoverStart \/ RecoverDeleteBytes \/ RecoverList \/ RecoverDone \/ RecoverStop
           \/ \E v \in Versions : RecoverStat(v) \/ RecoverReap(v)
  <2>1. /\ UNCHANGED <<state, condemned>> /\ rpc' \notin {"ready", "flag"}
    BY <1>3
    DEF RecoverStart, RecoverStat, RecoverDeleteBytes, RecoverList, RecoverReap, RecoverDone,
        RecoverStop
  <2> QED
    BY <1>2, <2>1 DEF Calm
<1>4. CASE RecoverPromote \/ RecoverAbort \/ RecoverDeleteRow
  <2>1. UNCHANGED condemned /\ rpc' = "rows"
    BY <1>4 DEF RecoverPromote, RecoverAbort, RecoverDeleteRow
  <2>2. Calm
    BY <1>0, <1>4
    DEF RecoverPromote, RecoverAbort, RecoverDeleteRow, BecomesReady, DeleteById, Calm
  <2> QED
    BY <1>2, <2>1, <2>2
<1>5. CASE RecoverReady
  BY <1>2, <1>5, ReadyBeyond DEF RecoverReady, RowsIn, Calm
<1>6. ASSUME NEW v \in Versions, RecoverCheck(v) PROVE SeenInv'
  <2>1. \A w \in rtodo : Beyond(w)
    BY <1>6 DEF RecoverCheck, SeenInv, Seen
  <2> QED
    BY <1>2, <1>6, <2>1 DEF RecoverCheck, Calm
<1>7. CASE RecoverFlag
  <2>1. Beyond(rcur) /\ \A w \in rtodo : Beyond(w)
    BY <1>7 DEF RecoverFlag, SeenInv, Seen
  <2>2. Calm
    BY <1>0, <1>7 DEF RecoverFlag, UpdateById, Rows, Calm
  <2> QED
    BY <1>2, <1>7, <2>1, <2>2 DEF RecoverFlag, Condemn
<1> QED
  BY <1>3, <1>4, <1>5, <1>6, <1>7 DEF Recover

LEMMA SeenNext == SeenInv /\ [Next]_vars => SeenInv'
<1> SUFFICES ASSUME SeenInv, [Next]_vars PROVE SeenInv'
  OBVIOUS
<1>1. CASE UNCHANGED vars
  <2>1. TypeInv' /\ Calm /\ NoneComes
    BY <1>1, TypeNext DEF SeenInv, Calm, NoneComes
  <2> QED
    BY <1>1, <2>1, SeenKept DEF SeenInv, Seen
<1> QED
  BY <1>1, SeenStart, SeenSteps, SeenMint, SeenReserve, SeenRecover DEF Next

\* A row becomes visible by the compare-and-set on "staging", and otherwise only
\* keeps or loses its visibility.
LEMMA OnlyStagingShows ==
  ASSUME TypeInv, [Next]_vars, NEW v \in Versions, state'[v] = "ready"
  PROVE  state[v] \in {"ready", "staging"}
<1>0. state \in [Versions -> RowStates]
  BY DEF TypeOK
<1>1. ASSUME NEW c \in Clients, Start(c) \/ Step(c) \/ Stop(c)
      PROVE  state[v] \in {"ready", "staging"}
  BY <1>0, <1>1
  DEF Start, StartUpload, StartOnObject, StartCopy, StartEmpty, StartDrop, CreateBucket, Begin,
      Step, ReadPrior, RefuseExisting, Reserve, PutStaged, Unreserve, Promote, Fill, CommitReady,
      BecomesReady, Discard, Respond, FindTarget, MarkDeleting, DeleteBytes, DeleteRow,
      OpenBytes, OpenFails, FlagCorrupt, EmptyBytes, EmptyRows, DropBucket, Stop, UpdateById,
      DeleteById
<1>2. CASE Recover
  BY <1>0, <1>2
  DEF Recover, RecoverStart, RecoverStat, RecoverPromote, RecoverAbort, RecoverDeleteBytes,
      RecoverDeleteRow, RecoverReady, RecoverCheck, RecoverFlag, RecoverList, RecoverReap,
      RecoverDone, RecoverStop, BecomesReady, UpdateById, DeleteById
<1>3. CASE UNCHANGED vars
  BY <1>3
<1> QED
  BY <1>1, <1>2, <1>3 DEF Next

\* In every profile, also with a recovery beside requests and failing deletes: a
\* version that was hidden, flagged or deleted never becomes visible again.
THEOREM StorageNoResurrection == Spec => NoResurrection
<1>1. SeenInv /\ [Next]_vars =>
        [\A v \in Versions :
           /\ state[v] \in {"deleting", "corrupt"} => state'[v] # "ready"
           /\ v \in condemned /\ state[v] # "ready" => state'[v] # "ready"]_vars
  BY OnlyStagingShows DEF SeenInv, Seen, Beyond
<1> QED
  BY SeenInit, SeenNext, <1>1, PTL DEF Spec, NoResurrection

--------------------------------------------------------------------------------
(* What recover() leaves.  Bucket-wide deletes and failing deletes of bytes   *)
(* leave final keys without a row, which recover() does not look for; without *)
(* them, and on a quiet service, nothing is half done when it has finished.   *)

CleanProfile == Ops \cap {"empty", "drop"} = {} /\ ~OnlineRecovery /\ ~BlobFaults

HalfDone == RowsIn({"staging", "deleting"})

\* How far recover() has come: no row in an intermediate state is forgotten.
Accounted ==
  /\ rpc = "done" => \A c \in Clients : req[c].pc = "idle"
  /\ rpc = "rows" => HalfDone \subseteq rtodo
  /\ rpc \in {"promote", "abort", "bytes", "row"} => HalfDone \subseteq rtodo \cup {rcur}
  /\ rpc \in {"ready", "flag", "staged", "done"} => HalfDone = {}
  /\ rpc = "ready" => \A v \in RowsIn({"ready"}) : v \in rtodo \/ final[v] # "none"
  /\ rpc = "flag" => \A v \in RowsIn({"ready"}) : v \in rtodo \cup {rcur} \/ final[v] # "none"
  /\ rpc \in {"staged", "done"} => \A v \in RowsIn({"ready"}) : final[v] # "none"

\* Bytes at a final key have a row that accounts for them.
Owned == \A v \in Versions : state[v] = "none" => final[v] = "none"

\* A request deletes a row only when its bytes are gone, and the row of an upload
\* under way stands.
Tidy(c) ==
  /\ req[c].pc = "unreserve" => final[req[c].ver] = "none"
  /\ req[c].pc = "row" => final[req[c].prior] = "none"
  /\ req[c].pc \in {"put", "promote", "fill", "commit"} => state[req[c].ver] = "staging"
  /\ req[c].pc \in {"put", "promote"} => final[req[c].ver] = "none"
  /\ req[c].pc \notin {"emptying", "drop", "discard"}

CleanInv ==
  /\ OrderInv /\ Accounted /\ Owned
  /\ \A c \in Clients : Tidy(c)
  /\ rpc \in {"abort", "row"} => final[rcur] = "none"

LEMMA CleanInit == Init => CleanInv
  BY OrderInit DEF Init, CleanInv, Accounted, Owned, Tidy, Idle

\* A step of a request touches at most one version, and not one that another
\* request is uploading.
LEMMA CleanKept ==
  ASSUME CleanInv, OrderInv', NEW c \in Clients, NEW n,
         rpc' = "off", \A d \in Clients : d # c => req'[d] = req[d],
         \A v \in Versions : v # n => state'[v] = state[v] /\ final'[v] = final[v],
         n \in Versions =>
           /\ state'[n] = "none" => final'[n] = "none"
           /\ \A d \in Clients : d # c => /\ Uploading(d) => req[d].ver # n
                                          /\ req[d].prior = n => final'[n] \in {"none", final[n]},
         Tidy(c)'
  PROVE  CleanInv'
<1>1. Accounted'
  BY DEF Accounted
<1>2. Owned'
  BY DEF CleanInv, Owned
<1>3. ASSUME NEW d \in Clients, d # c PROVE Tidy(d)'
  <2>1. /\ req'[d] = req[d] /\ Tidy(d)
        /\ Uploading(d) => req[d].ver \in Versions /\ req[d].ver # n
        /\ req[d].pc = "row" => req[d].prior \in Versions
    BY <1>3 DEF CleanInv, Targets, Deleting
  <2> QED
    BY <2>1 DEF Tidy, Uploading, Pre
<1> QED
  BY <1>1, <1>2, <1>3 DEF CleanInv

LEMMA CleanStill ==
  ASSUME CleanInv, OrderInv', NEW c \in Clients, rpc' = "off", UNCHANGED <<state, final>>,
         \A d \in Clients : d # c => req'[d] = req[d], Tidy(c)'
  PROVE  CleanInv'
<1>1. NoRow \notin Versions
  BY DEF NoRow, Versions
<1>2. \A v \in Versions : v # NoRow => state'[v] = state[v] /\ final'[v] = final[v]
  OBVIOUS
<1> QED
  BY <1>1, <1>2, CleanKept

\* Whoever is at work, or is let in, ends what the last recovery says.
LEMMA CleanServing ==
  ASSUME CleanInv, CleanProfile, NEW c \in Clients
  PROVE  /\ req[c].pc # "idle" => rpc = "off"
         /\ MayServe => rpc \in {"off", "done"}
  BY Serving DEF CleanInv, CleanProfile, Accounted, MayServe

LEMMA CleanStart ==
  ASSUME CleanInv, CleanProfile, OrderInv', NEW c \in Clients, Start(c)
  PROVE  CleanInv'
<1>1. ASSUME NEW o, NEW p, NEW q, NEW rows, NEW l \in {"prior", "find"},
             Begin(c, o, p, q, l, rows)
      PROVE  CleanInv'
  <2> DEFINE r == [Idle EXCEPT !.pc = l, !.op = o, !.at = p, !.src = q, !.todo = rows]
  <2>1. r.pc = l
    BY DEF Idle
  <2>2. req' = [req EXCEPT ![c] = r]
    BY <1>1 DEF Begin
  <2> HIDE DEF r
  <2>3. req'[c] = r /\ \A d \in Clients : d # c => req'[d] = req[d]
    BY <2>2 DEF CleanInv, TypeOK
  <2>4. UNCHANGED <<state, final>> /\ rpc' = "off"
    BY <1>1, CleanServing DEF Begin, LeaveRecovered
  <2>5. Tidy(c)'
    BY <2>1, <2>3 DEF Tidy
  <2> QED
    BY <2>3, <2>4, <2>5, CleanStill
<1>2. CASE StartUpload(c) \/ StartOnObject(c) \/ StartCopy(c)
  BY <1>1, <1>2 DEF StartUpload, StartOnObject, StartCopy
<1>3. CASE StartEmpty(c) \/ StartDrop(c)
  BY <1>3 DEF StartEmpty, StartDrop, Begin, CleanProfile
<1>4. CASE CreateBucket(c)
  <2>1. UNCHANGED <<state, final, req>> /\ rpc' = "off"
    BY <1>4, CleanServing DEF CreateBucket, LeaveRecovered
  <2>2. Tidy(c)'
    BY <2>1 DEF CleanInv, Tidy
  <2> QED
    BY <2>1, <2>2, CleanStill
<1> QED
  BY <1>2, <1>3, <1>4 DEF Start

LEMMA CleanStep ==
  ASSUME CleanInv, CleanProfile, OrderInv', NEW c \in Clients, Step(c) \/ Stop(c)
  PROVE  CleanInv'
<1>0. /\ req \in [Clients -> RequestRecords] /\ state \in [Versions -> RowStates]
      /\ final \in [Versions -> BlobStates] /\ Tidy(c)
      /\ Uploading(c) => req[c].ver \in Versions
      /\ req[c].pc \in Deleting \cup {"open", "flag"} => req[c].prior \in Versions
      /\ req[c].pc \in Deleting => state[req[c].prior] # "staging"
  BY UsedVersions DEF CleanInv, TypeOK, Targets, Ordered, Found, Deleting
<1>1. rpc' = "off"
  BY CleanServing
  DEF Step, ReadPrior, RefuseExisting, Reserve, PutStaged, Unreserve, Promote, Fill,
      CommitReady, Discard, Respond, FindTarget, MarkDeleting, DeleteBytes, DeleteRow,
      OpenBytes, OpenFails, FlagCorrupt, EmptyBytes, EmptyRows, DropBucket, Stop
\* Steps that leave rows and bytes alone.
<1>2. ASSUME UNCHANGED <<state, final>>, \A d \in Clients : d # c => req'[d] = req[d], Tidy(c)'
      PROVE  CleanInv'
  BY <1>1, <1>2, CleanStill
<1>3. ASSUME UNCHANGED <<state, final>>, Finish(c) PROVE CleanInv'
  BY <1>0, <1>2, <1>3, FinishType DEF Tidy, Idle
<1>4. ASSUME UNCHANGED <<state, final>>, Goto(c, "mark") \/ Goto(c, "flag") \/ Goto(c, "prior")
      PROVE  CleanInv'
  BY <1>0, <1>2, <1>4, GotoType DEF Tidy, PcLabels
\* Steps on the version that the request is uploading.
<1>5. ASSUME Uploading(c), \A d \in Clients : d # c => req'[d] = req[d], Tidy(c)',
             \A v \in Versions : v # req[c].ver => state'[v] = state[v] /\ final'[v] = final[v],
             state'[req[c].ver] = "none" => final'[req[c].ver] = "none"
      PROVE  CleanInv'
  <2>1. \A d \in Clients : d # c => /\ Uploading(d) => req[d].ver # req[c].ver
                                    /\ req[d].prior # req[c].ver
    BY <1>5 DEF CleanInv, Ordered, Distinct
  <2> QED
    BY <1>1, <1>5, <2>1, CleanKept
\* Steps on the version that the request has looked up.
<1>6. ASSUME req[c].pc \in Deleting \cup {"flag"}, \A d \in Clients : d # c => req'[d] = req[d],
             Tidy(c)',
             \A v \in Versions : v # req[c].prior => state'[v] = state[v] /\ final'[v] = final[v],
             state'[req[c].prior] = "none" => final'[req[c].prior] = "none",
             final'[req[c].prior] \in {"none", final[req[c].prior]}
      PROVE  CleanInv'
  <2>1. \A d \in Clients : Uploading(d) => req[d].ver # req[c].prior
    BY <1>6 DEF CleanInv, Ordered, Distinct
  <2> QED
    BY <1>1, <1>6, <2>1, CleanKept
<1>7. CASE RefuseExisting(c) \/ OpenBytes(c) \/ OpenFails(c) \/ Stop(c)
  BY <1>3, <1>4, <1>7 DEF RefuseExisting, OpenBytes, OpenFails, Stop
<1>8. CASE Discard(c) \/ EmptyBytes(c) \/ EmptyRows(c) \/ DropBucket(c)
  BY <1>0, <1>8 DEF Discard, EmptyBytes, EmptyRows, DropBucket, Tidy
<1>9. CASE ReadPrior(c)
  <2>1. PICK v : req' = [req EXCEPT ![c].pc = "reserve", ![c].prior = v, ![c].ver = used + 1]
    BY <1>9 DEF ReadPrior
  <2>2. req'[c].pc = "reserve" /\ \A d \in Clients : d # c => req'[d] = req[d]
    BY <1>0, <2>1 DEF RequestRecords
  <2>3. Tidy(c)'
    BY <2>2 DEF Tidy
  <2> QED
    BY <1>2, <1>9, <2>2, <2>3 DEF ReadPrior
<1>10. CASE Respond(c) /\ ~Finish(c)
  <2> DEFINE r == [Idle EXCEPT !.pc = "find", !.op = "remove", !.at = req[c].src,
                               !.src = req[c].src]
  <2>1. req' = [req EXCEPT ![c] = r]
    BY <1>10 DEF Respond
  <2>2. r.pc = "find"
    BY DEF Idle
  <2> HIDE DEF r
  <2>3. req'[c] = r /\ \A d \in Clients : d # c => req'[d] = req[d]
    BY <1>0, <2>1
  <2>4. Tidy(c)'
    BY <2>2, <2>3 DEF Tidy
  <2> QED
    BY <1>2, <1>10, <2>3, <2>4 DEF Respond
<1>11. CASE FindTarget(c) /\ ~Finish(c)
  <2>1. PICK v : req' = [req EXCEPT ![c].prior = v,
                            ![c].pc = IF req[c].op = "remove" THEN "mark" ELSE "open"]
    BY <1>11 DEF FindTarget
  <2>2. req'[c].pc \in {"mark", "open"} /\ \A d \in Clients : d # c => req'[d] = req[d]
    BY <1>0, <2>1 DEF RequestRecords
  <2>3. Tidy(c)'
    BY <2>2 DEF Tidy
  <2> QED
    BY <1>2, <1>11, <2>2, <2>3 DEF FindTarget
<1>12. CASE Reserve(c)
  <2>1. CASE ~bucket
    BY <1>3, <1>12, <2>1 DEF Reserve
  <2>2. CASE bucket
    <3>1. /\ Uploading(c) /\ state' = [state EXCEPT ![req[c].ver] = "staging"] /\ final' = final
          /\ Goto(c, "put")
      BY <1>12, <2>2 DEF Reserve, Uploading, Pre
    <3>2. final[req[c].ver] = "none"
      BY <1>0, <1>12, <3>1 DEF Reserve, CleanInv, Ordered, Own, Owned
    <3>3. /\ req'[c].pc = "put" /\ req'[c].ver = req[c].ver
          /\ \A d \in Clients : d # c => req'[d] = req[d]
      BY <1>0, <3>1, GotoType DEF PcLabels
    <3>4. Tidy(c)'
      BY <1>0, <3>1, <3>2, <3>3 DEF Tidy
    <3> QED
      BY <1>0, <1>5, <3>1, <3>3, <3>4
  <2> QED
    BY <2>1, <2>2
<1>13. CASE PutStaged(c)
  <2>1. UNCHANGED <<state, final>> /\ req[c].pc = "put"
        /\ (Goto(c, "promote") \/ Goto(c, "unreserve"))
    BY <1>13 DEF PutStaged
  <2>2. /\ req'[c].pc \in {"promote", "unreserve"} /\ req'[c].ver = req[c].ver
        /\ \A d \in Clients : d # c => req'[d] = req[d]
    BY <1>0, <2>1, GotoType DEF PcLabels
  <2>3. Tidy(c)'
    BY <1>0, <2>1, <2>2 DEF Tidy
  <2> QED
    BY <1>2, <2>1, <2>2, <2>3
<1>14. CASE Unreserve(c)
  <2>1. /\ Uploading(c) /\ state' = [state EXCEPT ![req[c].ver] = "none"] /\ final' = final
        /\ final[req[c].ver] = "none" /\ Finish(c)
    BY <1>0, <1>14 DEF Unreserve, DeleteById, Uploading, Pre, Tidy
  <2>2. req'[c] = Idle /\ \A d \in Clients : d # c => req'[d] = req[d]
    BY <1>0, <2>1, FinishType
  <2>3. Tidy(c)'
    BY <2>2 DEF Tidy, Idle
  <2> QED
    BY <1>0, <1>5, <2>1, <2>2, <2>3
<1>15. CASE Promote(c) \/ Fill(c)
  <2>1. PICK x \in {"empty", "whole"}, l \in {"fill", "commit"} :
          final' = [final EXCEPT ![req[c].ver] = x] /\ Goto(c, l)
    BY <1>15 DEF Promote, Fill
  <2>2. Uploading(c) /\ state' = state /\ state[req[c].ver] = "staging"
    BY <1>0, <1>15 DEF Promote, Fill, Uploading, Pre, Tidy
  <2>3. /\ req'[c].pc \in {"fill", "commit"} /\ req'[c].ver = req[c].ver
        /\ \A d \in Clients : d # c => req'[d] = req[d]
    BY <1>0, <2>1, GotoType DEF PcLabels
  <2>4. Tidy(c)'
    BY <2>2, <2>3 DEF Tidy
  <2> QED
    BY <1>0, <1>5, <2>1, <2>2, <2>3, <2>4
<1>16. CASE CommitReady(c)
  <2>1. /\ Uploading(c) /\ state' = [state EXCEPT ![req[c].ver] = "ready"] /\ final' = final
        /\ (Goto(c, "respond") \/ Goto(c, "mark"))
    BY <1>0, <1>16 DEF CommitReady, BecomesReady, Uploading, Pre, Tidy
  <2>2. req'[c].pc \in {"respond", "mark"} /\ \A d \in Clients : d # c => req'[d] = req[d]
    BY <1>0, <2>1, GotoType DEF PcLabels
  <2>3. Tidy(c)'
    BY <2>2 DEF Tidy
  <2> QED
    BY <1>0, <1>5, <2>1, <2>2, <2>3
<1>17. CASE MarkDeleting(c) \/ FlagCorrupt(c)
  <2>1. /\ req[c].pc \in {"mark", "flag"} /\ final' = final
        /\ Goto(c, "bytes") \/ Finish(c)
        /\ state' = state \/ (req[c].prior \in Rows /\ \E x \in {"deleting", "corrupt"} :
                                 state' = [state EXCEPT ![req[c].prior] = x])
    BY <1>17 DEF MarkDeleting, FlagCorrupt, UpdateById
  <2>2. req'[c].pc \in {"bytes", "idle"} /\ \A d \in Clients : d # c => req'[d] = req[d]
    BY <1>0, <2>1, GotoType, FinishType DEF PcLabels, Idle
  <2>3. Tidy(c)'
    BY <2>2 DEF Tidy
  <2> QED
    BY <1>0, <1>6, <2>1, <2>2, <2>3 DEF CleanInv, Owned, Deleting
<1>18. CASE DeleteBytes(c)
  <2>1. /\ req[c].pc = "bytes" /\ final' = [final EXCEPT ![req[c].prior] = "none"]
        /\ state' = state /\ Goto(c, "row")
    BY <1>18 DEF DeleteBytes, DeleteFinal, CleanProfile
  <2>2. /\ req'[c].pc = "row" /\ req'[c].prior = req[c].prior
        /\ \A d \in Clients : d # c => req'[d] = req[d]
    BY <1>0, <2>1, GotoType DEF PcLabels
  <2>3. Tidy(c)'
    BY <1>0, <2>1, <2>2 DEF Tidy, Deleting
  <2> QED
    BY <1>0, <1>6, <2>1, <2>2, <2>3 DEF Deleting
<1>19. CASE DeleteRow(c)
  <2>1. /\ req[c].pc = "row" /\ state' = [state EXCEPT ![req[c].prior] = "none"]
        /\ final' = final /\ final[req[c].prior] = "none" /\ (Finish(c) \/ Goto(c, "respond"))
    BY <1>0, <1>19 DEF DeleteRow, DeleteById, Tidy
  <2>2. req'[c].pc \in {"idle", "respond"} /\ \A d \in Clients : d # c => req'[d] = req[d]
    BY <1>0, <2>1, GotoType, FinishType DEF PcLabels, Idle
  <2>3. Tidy(c)'
    BY <2>2 DEF Tidy
  <2> QED
    BY <1>0, <1>6, <2>1, <2>2, <2>3 DEF Deleting
<1>20. CASE (Respond(c) \/ FindTarget(c)) /\ Finish(c)
  BY <1>3, <1>20 DEF Respond, FindTarget
<1> QED
  BY <1>7, <1>8, <1>9, <1>10, <1>11, <1>12, <1>13, <1>14, <1>15, <1>16, <1>17, <1>18, <1>19,
     <1>20
  DEF Step

LEMMA CleanRecover ==
  ASSUME CleanInv, CleanProfile, OrderInv', Recover
  PROVE  CleanInv'
<1>0. /\ UNCHANGED req /\ \A c \in Clients : req[c].pc = "idle"
      /\ state \in [Versions -> RowStates] /\ final \in [Versions -> BlobStates]
  BY DEF Recover, RecoverStart, RecoverStat, RecoverPromote, RecoverAbort, RecoverDeleteBytes,
         RecoverDeleteRow, RecoverReady, RecoverCheck, RecoverFlag, RecoverList, RecoverReap,
         RecoverDone, RecoverStop, Quiet, CleanInv, Ordered, Recovering, CleanProfile, TypeOK
<1>1. \A c \in Clients : Tidy(c)'
  BY <1>0 DEF Tidy
<1>2. ASSUME UNCHANGED <<state, final>>, Accounted',
             rpc' \in {"abort", "row"} => final[rcur'] = "none"
      PROVE  CleanInv'
  <2>1. Owned'
    BY <1>2 DEF CleanInv, Owned
  <2> QED
    BY <1>1, <1>2, <2>1 DEF CleanInv
<1>3. CASE RecoverStart
  <2>1. Accounted'
    BY <1>3 DEF RecoverStart, CleanInv, Accounted, HalfDone, RowsIn, Ordered, Recovering
  <2> QED
    BY <1>2, <1>3, <2>1 DEF RecoverStart
<1>4. ASSUME NEW v \in Versions, RecoverStat(v) PROVE CleanInv'
  <2>1. /\ UNCHANGED <<state, final>> /\ rpc = "rows" /\ rcur' = v
        /\ rtodo' = rtodo \ {v} /\ rpc' \in {"promote", "abort", "bytes"}
        /\ rpc' = "abort" => final[v] = "none"
    BY <1>4 DEF RecoverStat, CleanProfile, CleanInv, Accounted
  <2>2. Accounted'
    BY <2>1 DEF CleanInv, Accounted, HalfDone, RowsIn
  <2> QED
    BY <1>2, <2>1, <2>2
<1>5. CASE RecoverReady \/ RecoverList \/ RecoverDone \/ RecoverStop
  <2>1. UNCHANGED <<state, final>> /\ rpc' \notin {"abort", "row"}
    BY <1>5 DEF RecoverReady, RecoverList, RecoverDone, RecoverStop
  <2>2. Accounted'
    BY <1>0, <1>5, <2>1
    DEF RecoverReady, RecoverList, RecoverDone, RecoverStop, CleanInv, Accounted, HalfDone,
        RowsIn
  <2> QED
    BY <1>2, <2>1, <2>2
<1>6. ASSUME NEW v \in Versions, RecoverCheck(v) PROVE CleanInv'
  <2>1. Accounted'
    BY <1>6 DEF RecoverCheck, CleanInv, Accounted, HalfDone, RowsIn
  <2> QED
    BY <1>2, <1>6, <2>1 DEF RecoverCheck
<1>7. ASSUME NEW v \in Versions, RecoverReap(v) PROVE CleanInv'
  <2>1. Accounted'
    BY <1>7 DEF RecoverReap, CleanInv, Accounted, HalfDone, RowsIn
  <2> QED
    BY <1>2, <1>7, <2>1 DEF RecoverReap
<1>8. CASE RecoverDeleteBytes
  <2>1. /\ rpc = "bytes" /\ rcur \in Versions /\ final' = [final EXCEPT ![rcur] = "none"]
        /\ rpc' = "row" /\ UNCHANGED <<state, rcur, rtodo>>
    BY <1>8 DEF RecoverDeleteBytes, DeleteFinal, CleanProfile, CleanInv, Ordered, Recovering
  <2>2. Accounted'
    BY <2>1 DEF CleanInv, Accounted, HalfDone, RowsIn
  <2>3. Owned' /\ final'[rcur'] = "none"
    BY <1>0, <2>1 DEF CleanInv, Owned
  <2> QED
    BY <1>1, <2>2, <2>3 DEF CleanInv
<1>9. CASE RecoverPromote
  <2>1. /\ rpc = "promote" /\ rcur \in Versions /\ state' = [state EXCEPT ![rcur] = "ready"]
        /\ rpc' = "rows" /\ rcur' = NoRow /\ UNCHANGED <<final, rtodo>>
    BY <1>9 DEF RecoverPromote, BecomesReady, CleanInv, Ordered, Recovering
  <2>2. Accounted'
    BY <1>0, <2>1 DEF CleanInv, Accounted, HalfDone, RowsIn
  <2>3. Owned'
    BY <1>0, <2>1 DEF CleanInv, Owned
  <2> QED
    BY <1>1, <2>1, <2>2, <2>3 DEF CleanInv
<1>10. CASE RecoverAbort \/ RecoverDeleteRow
  <2>1. /\ rpc \in {"abort", "row"} /\ rcur \in Versions /\ final[rcur] = "none"
        /\ state' = [state EXCEPT ![rcur] = "none"]
        /\ rpc' = "rows" /\ rcur' = NoRow /\ UNCHANGED <<final, rtodo>>
    BY <1>10
    DEF RecoverAbort, RecoverDeleteRow, DeleteById, CleanInv, Ordered, Recovering
  <2>2. Accounted'
    BY <1>0, <2>1 DEF CleanInv, Accounted, HalfDone, RowsIn
  <2>3. Owned'
    BY <1>0, <2>1 DEF CleanInv, Owned
  <2> QED
    BY <1>1, <2>1, <2>2, <2>3 DEF CleanInv
<1>11. CASE RecoverFlag
  <2>1. /\ rpc = "flag" /\ rcur \in Versions
        /\ \/ state' = [state EXCEPT ![rcur] = "corrupt"]
           \/ state' = state /\ state[rcur] = "none"
        /\ rpc' = "ready" /\ rcur' = NoRow /\ UNCHANGED <<final, rtodo>>
    BY <1>11 DEF RecoverFlag, UpdateById, Rows, CleanInv, Ordered, Recovering
  <2>2. Accounted'
    BY <1>0, <2>1 DEF CleanInv, Accounted, HalfDone, RowsIn
  <2>3. Owned'
    BY <1>0, <1>11, <2>1 DEF RecoverFlag, UpdateById, Rows, CleanInv, Owned
  <2> QED
    BY <1>1, <2>1, <2>2, <2>3 DEF CleanInv
<1> QED
  BY <1>3, <1>4, <1>5, <1>6, <1>7, <1>8, <1>9, <1>10, <1>11 DEF Recover

LEMMA CleanNext ==
  ASSUME CleanInv, CleanProfile, [Next]_vars
  PROVE  CleanInv'
<1>0. OrderInv'
  BY OrderNext DEF CleanInv, CleanProfile
<1>1. CASE UNCHANGED vars
  BY <1>0, <1>1 DEF CleanInv, Accounted, HalfDone, RowsIn, Owned, Tidy
<1> QED
  BY <1>0, <1>1, CleanStart, CleanStep, CleanRecover DEF Next

\* For every number of requests, paths and uploads and for every adapter: when
\* recover() has finished, no row is half done, every ready row has bytes, and
\* every final key has its row, whatever requests were interrupted before.
THEOREM StorageRecoveredClean == CleanProfile => (Spec => []RecoveredClean)
<1> SUFFICES ASSUME CleanProfile PROVE Spec => []RecoveredClean
  OBVIOUS
<1>1. CleanInv => RecoveredClean
  BY DEF CleanInv, RecoveredClean, Accounted, HalfDone, RowsIn, Owned
<1>2. CleanInv /\ [Next]_vars => CleanInv'
  BY CleanNext
<1> QED
  BY CleanInit, <1>1, <1>2, PTL DEF Spec

--------------------------------------------------------------------------------
(* Staged bytes, with a recovery beside requests.  The garbage collection     *)
(* spares a key whose row stands, and a key is written before it is listed:   *)
(* an upload that is still to write its bytes has a version the collection    *)
(* has never come upon.                                                       *)

\* The version that is being uploaded has been handed out, and to one request.
Apart(c) ==
  Uploading(c) =>
    /\ req[c].ver \in 1..used
    /\ \A d \in Clients : Uploading(d) /\ req[d].ver = req[c].ver => c = d

StagedInv == TypeInv /\ LiveStagedKept /\ \A c \in Clients : Apart(c)

\* Staged keys that hold bytes, or that the collection has in hand or behind it.
Touched == staged \cup reaped \cup (IF rpc = "staged" THEN rtodo ELSE {})

GoneInv ==
  /\ StagedInv /\ ReapedGone
  /\ Touched \subseteq 1..used
  /\ \A c \in Clients : req[c].pc \in {"reserve", "put"} => req[c].ver \notin Touched

\* Where a request stands after a step other than the one that mints a version.
LEMMA UploadPlace ==
  ASSUME TypeInv, NEW c \in Clients, Start(c) \/ Step(c) \/ Stop(c), ~ReadPrior(c)
  PROVE  /\ \A d \in Clients : d # c => req'[d] = req[d]
         /\ Uploading(c)' => Uploading(c) /\ req'[c].ver = req[c].ver
         /\ req'[c].pc # "reserve"
         /\ req'[c].pc = "put" => req[c].pc = "reserve"
         /\ req'[c].pc = "promote" => req'[c].ver \in staged'
<1> USE DEF Uploading, Pre
<1>0. req \in [Clients -> RequestRecords]
  BY DEF TypeInv, TypeOK
<1>1. ASSUME NEW r, req' = [req EXCEPT ![c] = r], r.pc \notin Pre
      PROVE  /\ \A d \in Clients : d # c => req'[d] = req[d]
             /\ req'[c].pc \notin Pre
  BY <1>0, <1>1
<1>2. CASE Start(c)
  <2>1. CASE CreateBucket(c)
    BY <2>1 DEF CreateBucket
  <2>2. ASSUME NEW o, NEW p, NEW q, NEW l \in {"prior", "find", "emptying", "drop"}, NEW rows,
               Begin(c, o, p, q, l, rows)
        PROVE  \E r : req' = [req EXCEPT ![c] = r] /\ r.pc \notin Pre
    <3> DEFINE r == [Idle EXCEPT !.pc = l, !.op = o, !.at = p, !.src = q, !.todo = rows]
    <3>1. req' = [req EXCEPT ![c] = r] /\ r.pc \notin Pre
      BY <2>2 DEF Begin, Idle
    <3> QED
      BY <3>1
  <2> QED
    BY <1>1, <1>2, <2>1, <2>2
    DEF Start, StartUpload, StartOnObject, StartCopy, StartEmpty, StartDrop
<1>3. ASSUME Finish(c)
      PROVE  /\ \A d \in Clients : d # c => req'[d] = req[d]
             /\ req'[c].pc \notin Pre
  BY <1>0, <1>3, FinishType DEF Idle
<1>4. CASE \/ RefuseExisting(c) \/ Unreserve(c) \/ Discard(c) \/ FlagCorrupt(c) \/ EmptyRows(c)
           \/ DropBucket(c) \/ Stop(c)
  BY <1>3, <1>4
  DEF RefuseExisting, Unreserve, Discard, FlagCorrupt, EmptyRows, DropBucket, Stop
<1>5. CASE MarkDeleting(c) \/ DeleteBytes(c) \/ DeleteRow(c) \/ OpenBytes(c) \/ OpenFails(c)
  BY <1>0, <1>3, <1>5, GotoType
  DEF MarkDeleting, DeleteBytes, DeleteRow, OpenBytes, OpenFails, PcLabels
<1>6. CASE Reserve(c) \/ PutStaged(c)
  BY <1>0, <1>3, <1>6, GotoType DEF Reserve, PutStaged, PcLabels
<1>7. CASE Promote(c) \/ Fill(c) \/ CommitReady(c)
  BY <1>0, <1>7, GotoType DEF Promote, Fill, CommitReady, PcLabels
<1>8. CASE Respond(c)
  <2>1. CASE Finish(c)
    BY <1>3, <2>1
  <2>2. CASE ~Finish(c)
    <3> DEFINE r == [Idle EXCEPT !.pc = "find", !.op = "remove", !.at = req[c].src,
                                 !.src = req[c].src]
    <3>1. req' = [req EXCEPT ![c] = r] /\ r.pc \notin Pre
      BY <1>8, <2>2 DEF Respond, Idle
    <3> QED
      BY <1>1, <3>1
  <2> QED
    BY <2>1, <2>2
<1>9. CASE FindTarget(c)
  <2>1. ASSUME NEW v, NEW l \in {"mark", "open"}, req' = [req EXCEPT ![c].prior = v, ![c].pc = l]
        PROVE  \E r : req' = [req EXCEPT ![c] = r] /\ r.pc \notin Pre
    <3> DEFINE r == [req[c] EXCEPT !.prior = v, !.pc = l]
    <3>1. req' = [req EXCEPT ![c] = r]
      BY <2>1
    <3>2. r.pc = l
      BY <1>0 DEF RequestRecords
    <3> QED
      BY <3>1, <3>2
  <2> QED
    BY <1>1, <1>3, <1>9, <2>1 DEF FindTarget
<1>10. CASE EmptyBytes(c)
  BY <1>0, <1>10 DEF EmptyBytes, RequestRecords
<1> QED
  BY <1>2, <1>4, <1>5, <1>6, <1>7, <1>8, <1>9, <1>10 DEF Step

\* What a step of a request does to rows in staging and to staged bytes concerns
\* the version it uploads, and nothing else.
LEMMA StagedOwn ==
  ASSUME TypeInv, NEW c \in Clients, Start(c) \/ Step(c) \/ Stop(c), NEW v \in Versions
  PROVE  /\ state'[v] = "staging" /\ state[v] # "staging" => Reserve(c) /\ v = req[c].ver
         /\ v \in staged /\ v \notin staged' => Uploading(c) /\ v = req[c].ver
         /\ v \in staged' /\ v \notin staged => PutStaged(c) /\ v = req[c].ver
         /\ UNCHANGED <<reaped, rtodo>> /\ rpc' \in {rpc, "off"}
         /\ used' = used \/ ReadPrior(c)
<1>0. state \in [Versions -> RowStates]
  BY DEF TypeInv, TypeOK
<1>1. CASE Start(c)
  <2>1. UNCHANGED <<state, staged, reaped, rtodo, used>> /\ rpc' \in {rpc, "off"}
    BY <1>1
    DEF Start, StartUpload, StartOnObject, StartCopy, StartEmpty, StartDrop, CreateBucket,
        Begin, LeaveRecovered
  <2> QED
    BY <2>1
<1>2. CASE ReadPrior(c) \/ RefuseExisting(c) \/ Respond(c) \/ FindTarget(c) \/ Stop(c)
  <2>1. UNCHANGED <<state, staged, reaped, rtodo, rpc>> /\ (used' = used \/ ReadPrior(c))
    BY <1>2 DEF RefuseExisting, Respond, FindTarget, Stop, ReadPrior
  <2> QED
    BY <2>1
<1>3. CASE Reserve(c) \/ PutStaged(c) \/ Promote(c) \/ Fill(c)
  BY <1>0, <1>3 DEF Reserve, PutStaged, Promote, Fill, Uploading, Pre
<1>4. CASE Unreserve(c) \/ CommitReady(c) \/ Discard(c)
  BY <1>0, <1>4 DEF Unreserve, CommitReady, Discard, BecomesReady, DeleteById
<1>5. CASE \/ MarkDeleting(c) \/ DeleteBytes(c) \/ DeleteRow(c) \/ OpenBytes(c) \/ OpenFails(c)
           \/ FlagCorrupt(c)
  BY <1>0, <1>5
  DEF MarkDeleting, DeleteBytes, DeleteRow, OpenBytes, OpenFails, FlagCorrupt, UpdateById,
      DeleteById
<1>6. CASE EmptyBytes(c) \/ EmptyRows(c) \/ DropBucket(c)
  BY <1>6 DEF EmptyBytes, EmptyRows, DropBucket
<1> QED
  BY <1>1, <1>2, <1>3, <1>4, <1>5, <1>6 DEF Step

\* The lookup that mints a version hands out one nobody has.
LEMMA MintPlace ==
  ASSUME TypeInv, NEW c \in Clients, ReadPrior(c)
  PROVE  /\ \A d \in Clients : d # c => req'[d] = req[d]
         /\ req'[c].pc = "reserve" /\ req'[c].ver = used + 1
         /\ used \in Nat /\ used' = used + 1
<1>1. PICK v \in FirstOf(CurrentReady(req[c].at)) :
        req' = [req EXCEPT ![c].pc = "reserve", ![c].prior = v, ![c].ver = used + 1]
  BY DEF ReadPrior
<1>2. /\ \A d \in Clients : d # c => req'[d] = req[d]
      /\ req'[c].pc = "reserve" /\ req'[c].ver = used + 1
  BY <1>1 DEF TypeInv, TypeOK, RequestRecords
<1> QED
  BY <1>2 DEF ReadPrior, TypeInv, TypeOK

LEMMA StagedInit == Init => StagedInv
  BY TypeInit DEF Init, StagedInv, LiveStagedKept, Apart, Uploading, Pre, Idle

LEMMA StagedRequest ==
  ASSUME StagedInv, NEW c \in Clients, Start(c) \/ Step(c) \/ Stop(c)
  PROVE  StagedInv'
<1>0. TypeInv' /\ 1..used \subseteq Versions /\ TypeInv
  BY TypeNext, UsedVersions DEF Next, StagedInv
<1>1. CASE ReadPrior(c)
  <2>1. ASSUME NEW d \in Clients PROVE Apart(d)'
    BY <1>1, MintPlace DEF StagedInv, Apart, Uploading
  <2>2. LiveStagedKept'
    <3>1. UNCHANGED <<state, staged>>
      BY <1>1 DEF ReadPrior
    <3> QED
      BY <1>0, <1>1, <3>1, MintPlace DEF StagedInv, LiveStagedKept
  <2> QED
    BY <1>0, <2>1, <2>2 DEF StagedInv
<1>2. CASE ~ReadPrior(c)
  <2>1. used' = used
    BY <1>0, <1>2, StagedOwn, BoundAssumption DEF Versions
  <2>2. \A d \in Clients : Uploading(d)' => Uploading(d) /\ req'[d].ver = req[d].ver
    BY <1>0, <1>2, UploadPlace DEF Uploading
  <2>3. ASSUME NEW d \in Clients PROVE Apart(d)'
    BY <2>1, <2>2 DEF StagedInv, Apart
  <2>4. ASSUME NEW d \in Clients, req'[d].pc = "promote", state'[req'[d].ver] = "staging"
        PROVE  req'[d].ver \in staged'
    <3>1. CASE d = c
      BY <1>0, <1>2, <2>4, <3>1, UploadPlace
    <3>2. CASE d # c
      <4>1. req'[d] = req[d] /\ Uploading(d)
        BY <1>0, <1>2, <2>4, <3>2, UploadPlace DEF Uploading, Pre
      <4>2. req[d].ver \in Versions /\ (Uploading(c) => req[c].ver # req[d].ver)
        BY <1>0, <3>2, <4>1 DEF StagedInv, Apart
      <4>3. Reserve(c) => Uploading(c)
        BY DEF Reserve, Uploading, Pre
      <4>4. state[req[d].ver] = "staging"
        BY <1>0, <2>4, <4>1, <4>2, <4>3, StagedOwn
      <4>5. req[d].ver \in staged
        BY <2>4, <4>1, <4>4 DEF StagedInv, LiveStagedKept
      <4> QED
        BY <1>0, <4>1, <4>2, <4>5, StagedOwn
    <3> QED
      BY <3>1, <3>2
  <2> QED
    BY <1>0, <2>3, <2>4 DEF StagedInv, LiveStagedKept
<1> QED
  BY <1>1, <1>2

LEMMA StagedRecover ==
  ASSUME StagedInv, Recover
  PROVE  StagedInv'
<1>0. TypeInv' /\ UNCHANGED <<req, used>> /\ state \in [Versions -> RowStates]
  BY TypeRecover
  DEF StagedInv, TypeInv, TypeOK, Recover, RecoverStart, RecoverStat, RecoverPromote,
      RecoverAbort, RecoverDeleteBytes, RecoverDeleteRow, RecoverReady, RecoverCheck,
      RecoverFlag, RecoverList, RecoverReap, RecoverDone, RecoverStop
<1>1. ASSUME NEW v \in Versions, state'[v] = "staging"
      PROVE  state[v] = "staging" /\ (v \in staged => v \in staged')
  BY <1>0, <1>1
  DEF Recover, RecoverStart, RecoverStat, RecoverPromote, RecoverAbort, RecoverDeleteBytes,
      RecoverDeleteRow, RecoverReady, RecoverCheck, RecoverFlag, RecoverList, RecoverReap,
      RecoverDone, RecoverStop, BecomesReady, DeleteById, UpdateById, Rows
<1>2. ASSUME NEW c \in Clients PROVE Apart(c)'
  BY <1>0 DEF StagedInv, Apart, Uploading
<1>3. LiveStagedKept'
  BY <1>0, <1>1 DEF StagedInv, TypeInv, Targets, Uploading, Pre, LiveStagedKept
<1> QED
  BY <1>0, <1>2, <1>3 DEF StagedInv

LEMMA StagedNext == StagedInv /\ [Next]_vars => StagedInv'
<1> SUFFICES ASSUME StagedInv, [Next]_vars PROVE StagedInv'
  OBVIOUS
<1>1. CASE UNCHANGED vars
  BY <1>1, TypeNext DEF StagedInv, LiveStagedKept, Apart, Uploading
<1> QED
  BY <1>1, StagedRequest, StagedRecover DEF Next

\* For every number of requests, in every profile and with every adapter: the
\* garbage collection of a recovery that runs beside it never takes the staged
\* bytes of an upload whose row stands.
THEOREM StorageLiveStagedKept == Spec => []LiveStagedKept
<1>1. StagedInv => LiveStagedKept
  BY DEF StagedInv
<1> QED
  BY StagedInit, StagedNext, <1>1, PTL DEF Spec

LEMMA GoneInit == Init => GoneInv
  BY StagedInit DEF Init, GoneInv, Touched, ReapedGone, Idle

LEMMA GoneRequest ==
  ASSUME GoneInv, NEW c \in Clients, Start(c) \/ Step(c) \/ Stop(c)
  PROVE  GoneInv'
<1>0. StagedInv' /\ TypeInv /\ TypeInv' /\ 1..used \subseteq Versions
  BY StagedRequest, UsedVersions DEF GoneInv, StagedInv
<1>1. CASE ReadPrior(c)
  <2>1. Touched' = Touched /\ ReapedGone'
    BY <1>1 DEF ReadPrior, Touched, GoneInv, ReapedGone
  <2>2. used + 1 \notin 1..used /\ 1..used \subseteq 1..used'
    BY <1>0, <1>1, MintPlace
  <2> QED
    BY <1>0, <1>1, <2>1, <2>2, MintPlace DEF GoneInv
<1>2. CASE ~ReadPrior(c)
  <2>1. used' = used
    BY <1>0, <1>2, StagedOwn, BoundAssumption DEF Versions
  <2>2. staged' \subseteq Versions /\ staged \subseteq Versions
    BY <1>0 DEF TypeInv, TypeOK
  <2>3. ASSUME NEW v \in staged', v \notin staged PROVE PutStaged(c) /\ v = req[c].ver
    BY <1>0, <2>2, <2>3, StagedOwn
  <2>4. reaped' = reaped /\ rtodo' = rtodo /\ rpc' \in {rpc, "off"}
    BY <1>0, StagedOwn, BoundAssumption DEF Versions
  <2>5. ASSUME NEW v \in Touched', v \notin Touched PROVE PutStaged(c) /\ v = req[c].ver
    BY <2>3, <2>4, <2>5 DEF Touched
  <2>6. PutStaged(c) => /\ req[c].ver \in 1..used
                        /\ req[c].ver \notin Touched
                        /\ Uploading(c)
    BY DEF PutStaged, GoneInv, StagedInv, Apart, Uploading, Pre
  <2>7. ReapedGone'
    BY <2>3, <2>4, <2>6 DEF GoneInv, ReapedGone, Touched
  <2>8. ASSUME NEW d \in Clients, req'[d].pc \in {"reserve", "put"}
        PROVE  req'[d].ver \notin Touched'
    <3>1. /\ req[d].pc \in {"reserve", "put"} /\ req'[d].ver = req[d].ver
          /\ d = c => req[c].pc = "reserve"
      BY <1>0, <1>2, <2>8, UploadPlace DEF Uploading, Pre
    <3>2. req[d].ver \notin Touched /\ Uploading(d)
      BY <3>1 DEF GoneInv, Uploading, Pre
    <3>3. PutStaged(c) => d # c
      BY <3>1 DEF PutStaged
    <3> QED
      BY <2>5, <2>6, <3>1, <3>2, <3>3 DEF GoneInv, StagedInv, Apart
  <2> QED
    BY <1>0, <2>1, <2>5, <2>6, <2>7, <2>8 DEF GoneInv
<1> QED
  BY <1>1, <1>2

LEMMA GoneRecover ==
  ASSUME GoneInv, Adapter = "s3", ~BlobFaults, Recover
  PROVE  GoneInv'
<1>0. StagedInv' /\ UNCHANGED <<req, used>>
  BY StagedRecover
  DEF GoneInv, Recover, RecoverStart, RecoverStat, RecoverPromote, RecoverAbort,
      RecoverDeleteBytes, RecoverDeleteRow, RecoverReady, RecoverCheck, RecoverFlag, RecoverList,
      RecoverReap, RecoverDone, RecoverStop
<1>1. Touched' \subseteq Touched
  BY DEF Touched, Recover, RecoverStart, RecoverStat, RecoverPromote, RecoverAbort,
         RecoverDeleteBytes, RecoverDeleteRow, RecoverReady, RecoverCheck, RecoverFlag,
         RecoverList, RecoverReap, RecoverDone, RecoverStop
<1>2. ReapedGone'
  BY DEF GoneInv, ReapedGone, Recover, RecoverStart, RecoverStat, RecoverPromote, RecoverAbort,
         RecoverDeleteBytes, RecoverDeleteRow, RecoverReady, RecoverCheck, RecoverFlag,
         RecoverList, RecoverReap, RecoverDone, RecoverStop
<1> QED
  BY <1>0, <1>1, <1>2 DEF GoneInv

\* For every number of requests and uploads, on S3 when its calls do not fail: a
\* staged blob that recover() counts as deleted is gone, and no upload that was
\* under way writes it again.
THEOREM StorageReapedGone == Adapter = "s3" /\ ~BlobFaults => (Spec => []ReapedGone)
<1> SUFFICES ASSUME Adapter = "s3", ~BlobFaults PROVE Spec => []ReapedGone
  OBVIOUS
<1>1. GoneInv /\ [Next]_vars => GoneInv'
  <2> SUFFICES ASSUME GoneInv, [Next]_vars PROVE GoneInv'
    OBVIOUS
  <2>1. CASE UNCHANGED vars
    BY <2>1, StagedNext DEF GoneInv, Touched, ReapedGone
  <2> QED
    BY <2>1, GoneRequest, GoneRecover DEF Next
<1>2. GoneInv => ReapedGone
  BY DEF GoneInv
<1> QED
  BY GoneInit, <1>1, <1>2, PTL DEF Spec

================================================================================
