---------------------------- MODULE AdaptersProofs -----------------------------
(******************************************************************************)
(* What the adapters below the kernel promise: KeptOrGone and                 *)
(* StallsOnlyOutside of Adapter, for every database adapter, any number of    *)
(* requests, any pool and any number of statements; ReadsTrue of Blobs, for   *)
(* every blob adapter, any uploads, callers and sizes.                        *)
(******************************************************************************)
EXTENDS Adapter, Blobs, TLAPS

--------------------------------------------------------------------------------
(* The adapters of the database.  A transaction that is open has one          *)
(* connection to itself, where all it wrote is; what else stands there was    *)
(* acknowledged.  A shared connection has one transaction at most.            *)

Answers == {"none", "ok", "thrown", "SK_DB_BUSY", "SQLITE_BUSY", "SK_DB_NESTED_TX", "SK_DB_CLOSED"}
ReqRecord  == [pc : {"new", "tx", "outside", "answered"}, n : Nat, tx : BOOLEAN, answer : Answers]
ConnRecord == [by : Requests \cup {Nobody}, writes : SUBSET (Requests \X Nat)]

AdapterType ==
  /\ kind \in Kinds /\ isOpen \in BOOLEAN /\ txDepth \in Nat
  /\ conn \in [1..PoolSize -> ConnRecord] /\ locked \in BOOLEAN
  /\ committed \subseteq Requests \X Nat /\ joined \subseteq Requests \X Nat
  /\ work \in [Requests -> ReqRecord]

Within(r) == work[r].pc \in {"tx", "outside"}

\* What is said of a request by itself.
ReqOf(r) ==
  /\ work[r].pc = "new" => work[r].n = 0
  /\ work[r].answer = "ok" => work[r].pc = "answered" /\ Writes(r) \subseteq committed \cup joined
  /\ kind = "atomic-batch" /\ Within(r) => Writes(r) \subseteq committed

\* A connection is held by a transaction under way, which has no other.
HolderInv ==
  \A i \in 1..PoolSize :
    conn[i].by # Nobody =>
      Within(conn[i].by) /\ \A j \in 1..PoolSize : conn[j].by = conn[i].by => i = j

\* The counter of the SQLite adapters lets one in.
DepthInv ==
  kind \notin Pools =>
    \A r \in Requests : Within(r) => txDepth = 1 /\ \A s \in Requests : Within(s) => r = s

\* As long as the adapter is open, a transaction has its writes on its connection.
OwnInv ==
  isOpen /\ kind # "atomic-batch" =>
    \A r \in Requests :
      Within(r) => \E i \in Conns : conn[i].by = r /\ Writes(r) \subseteq conn[i].writes

\* Writes on a connection are of the transaction, or were acknowledged; so are those kept.
WritesInv ==
  \A r \in Requests, n \in Nat :
    /\ \A i \in 1..PoolSize :
         <<r, n>> \in conn[i].writes => conn[i].by = r \/ work[r].answer = "ok"
    /\ <<r, n>> \in committed => kind = "atomic-batch" \/ work[r].answer = "ok"

RequestsInv == \A r \in Requests : ReqOf(r)

AdapterInv ==
  AdapterType /\ RequestsInv /\ HolderInv /\ DepthInv /\ OwnInv /\ WritesInv

--------------------------------------------------------------------------------
(* How a request moves.                                                       *)

\* One request has moved, within its type.
Moved(r) ==
  /\ work' \in [Requests -> ReqRecord]
  /\ \A s \in Requests : s # r => work'[s] = work[s]

LEMMA ItAnswers ==
  ASSUME AdapterType, NEW r \in Requests, NEW a \in Answers, Answer(r, a)
  PROVE  /\ Moved(r)
         /\ work'[r].pc = "answered" /\ work'[r].answer = a /\ work'[r].n = work[r].n
         /\ work'[r].tx = work[r].tx
<1> DEFINE k == [work[r] EXCEPT !.pc = "answered", !.answer = a]
<1>1. work[r] \in ReqRecord
  BY DEF AdapterType
<1>2. k \in ReqRecord /\ k.pc = "answered" /\ k.answer = a /\ k.n = work[r].n /\ k.tx = work[r].tx
  BY ONLY <1>1, a \in Answers DEF ReqRecord
<1>3. work' = [work EXCEPT ![r] = k]
  BY DEF Answer, AdapterType
<1> HIDE DEF k
<1> QED
  BY <1>2, <1>3 DEF AdapterType, Moved

LEMMA ItAcknowledges ==
  ASSUME AdapterType, NEW r \in Requests, NEW n \in Nat, Acknowledge(r, n)
  PROVE  /\ Moved(r)
         /\ work'[r].pc = "answered" /\ work'[r].answer = "ok" /\ work'[r].n = n
<1> DEFINE k == [work[r] EXCEPT !.pc = "answered", !.n = n, !.answer = "ok"]
<1>1. work[r] \in ReqRecord
  BY DEF AdapterType
<1>2. k \in ReqRecord /\ k.pc = "answered" /\ k.answer = "ok" /\ k.n = n
  BY ONLY <1>1, n \in Nat DEF ReqRecord, Answers
<1>3. work' = [work EXCEPT ![r] = k]
  BY DEF Acknowledge, AdapterType
<1> HIDE DEF k
<1> QED
  BY <1>2, <1>3 DEF AdapterType, Moved

LEMMA ItEnters ==
  ASSUME AdapterType, NEW r \in Requests, Enter(r)
  PROVE  /\ Moved(r)
         /\ work'[r].pc = "tx" /\ work'[r].answer = work[r].answer /\ work'[r].n = work[r].n
<1> DEFINE k == [work[r] EXCEPT !.pc = "tx", !.tx = TRUE]
<1>1. work[r] \in ReqRecord
  BY DEF AdapterType
<1>2. k \in ReqRecord /\ k.pc = "tx" /\ k.answer = work[r].answer /\ k.n = work[r].n
  BY ONLY <1>1 DEF ReqRecord
<1>3. work' = [work EXCEPT ![r] = k]
  BY DEF Enter, AdapterType
<1> HIDE DEF k
<1> QED
  BY <1>2, <1>3 DEF AdapterType, Moved

--------------------------------------------------------------------------------
(* What a step leaves true of the rest.                                       *)

LEMMA WritesStay ==
  ASSUME NEW r, work'[r].n = work[r].n
  PROVE  Writes(r)' = Writes(r)
  BY DEF Writes

LEMMA ConnsStay == kind' = kind => Conns' = Conns
  BY DEF Conns

LEMMA ConnsKnown == AdapterAssumption => Conns \subseteq 1..PoolSize
  BY DEF AdapterAssumption, Conns

\* What is kept grows, and so do the autocommits that were joined.
Grown ==
  /\ kind' = kind /\ committed \subseteq committed' /\ joined \subseteq joined'

LEMMA OthersKeep ==
  ASSUME AdapterInv, NEW r \in Requests, Moved(r), Grown, ReqOf(r)'
  PROVE  RequestsInv'
<1> SUFFICES ASSUME NEW s \in Requests, s # r PROVE ReqOf(s)'
  BY DEF RequestsInv
<1>1. work'[s] = work[s] /\ Writes(s)' = Writes(s)
  BY WritesStay DEF Moved
<1> QED
  BY <1>1 DEF AdapterInv, RequestsInv, ReqOf, Within, Grown

LEMMA AdapterStarts == AdapterAssumption /\ AdapterInit => AdapterInv
<1> SUFFICES ASSUME AdapterAssumption, AdapterInit PROVE AdapterInv
  OBVIOUS
<1>1. AdapterType
  <2>1. NoTx \in ConnRecord
    BY DEF NoTx, ConnRecord
  <2>2. [pc |-> "new", n |-> 0, tx |-> FALSE, answer |-> "none"] \in ReqRecord
    BY DEF ReqRecord, Answers
  <2> QED
    BY <2>1, <2>2 DEF AdapterInit, AdapterType
<1>2. RequestsInv /\ DepthInv /\ OwnInv
  BY DEF AdapterInit, RequestsInv, ReqOf, Within, DepthInv, OwnInv
<1>3. HolderInv /\ WritesInv
  BY DEF AdapterInit, HolderInv, WritesInv, NoTx
<1> QED
  BY <1>1, <1>2, <1>3 DEF AdapterInv

\* A statement, or a refusal, that is answered at once.
LEMMA AtOnce ==
  ASSUME AdapterInv, NEW r \in Requests, work[r].pc = "new", Moved(r), Grown,
         UNCHANGED <<isOpen, locked>>,
         work'[r].pc = "answered",
         work'[r].answer = "ok" => Writes(r)' \subseteq committed' \cup joined',
         committed' \subseteq Requests \X Nat, joined' \subseteq Requests \X Nat,
         \A s \in Requests, n \in Nat :
           <<s, n>> \in committed' => <<s, n>> \in committed \/ (s = r /\ work'[r].answer = "ok"),
         conn' \in [1..PoolSize -> ConnRecord],
         \A i \in 1..PoolSize :
           /\ conn'[i].by = conn[i].by /\ conn[i].writes \subseteq conn'[i].writes
           /\ \A s \in Requests, n \in Nat :
                <<s, n>> \in conn'[i].writes =>
                  <<s, n>> \in conn[i].writes \/ (s = r /\ work'[r].answer = "ok"),
         txDepth' \in Nat, txDepth' = txDepth \/ \A s \in Requests : ~Within(s),
         AdapterAssumption
  PROVE  AdapterInv'
<1>1. AdapterType'
  BY DEF AdapterInv, AdapterType, Moved, Grown
<1>2. RequestsInv'
  <2>1. ReqOf(r)'
    BY DEF ReqOf, Within
  <2> QED
    BY <2>1, OthersKeep
<1>3. ASSUME NEW s \in Requests, Within(s)'
      PROVE  s # r /\ Within(s) /\ Writes(s)' = Writes(s)
  <2>1. s # r
    BY <1>3 DEF Within
  <2> QED
    BY <1>3, <2>1, WritesStay DEF Moved, Within
<1>4. HolderInv'
  <2> SUFFICES ASSUME NEW i \in 1..PoolSize, conn'[i].by # Nobody
               PROVE  /\ work'[conn'[i].by].pc \in {"tx", "outside"}
                      /\ \A j \in 1..PoolSize : conn'[j].by = conn'[i].by => i = j
    BY DEF HolderInv, Within
  <2>1. /\ conn'[i].by = conn[i].by /\ conn[i].by \in Requests /\ Within(conn[i].by)
        /\ \A j \in 1..PoolSize : conn[j].by = conn[i].by => i = j
    BY DEF AdapterInv, AdapterType, ConnRecord, HolderInv
  <2>2. conn[i].by # r
    BY <2>1 DEF Within
  <2> QED
    BY <2>1, <2>2 DEF Within, Moved
<1>5. DepthInv'
  BY <1>3 DEF AdapterInv, DepthInv, Grown
<1>6. OwnInv'
  <2> SUFFICES ASSUME isOpen, kind # "atomic-batch", NEW s \in Requests, Within(s)'
               PROVE  \E i \in Conns : conn'[i].by = s /\ Writes(s)' \subseteq conn'[i].writes
    BY ConnsStay DEF OwnInv, Grown
  <2>1. PICK i \in Conns : conn[i].by = s /\ Writes(s) \subseteq conn[i].writes
    BY <1>3 DEF AdapterInv, OwnInv
  <2> QED
    BY <1>3, <2>1, ConnsKnown
<1>7. WritesInv'
  <2>1. ASSUME NEW s \in Requests, work[s].answer = "ok" PROVE work'[s].answer = "ok"
    BY <2>1 DEF AdapterInv, RequestsInv, ReqOf, Moved
  <2>2. ASSUME NEW s \in Requests, NEW n \in Nat, NEW i \in 1..PoolSize,
               <<s, n>> \in conn'[i].writes
        PROVE  conn'[i].by = s \/ work'[s].answer = "ok"
    BY <2>1, <2>2 DEF AdapterInv, WritesInv
  <2>3. ASSUME NEW s \in Requests, NEW n \in Nat, <<s, n>> \in committed'
        PROVE  kind' = "atomic-batch" \/ work'[s].answer = "ok"
    BY <2>1, <2>3 DEF AdapterInv, WritesInv, Grown
  <2> QED
    BY <2>2, <2>3 DEF WritesInv
<1> QED
  BY <1>1, <1>2, <1>4, <1>5, <1>6, <1>7 DEF AdapterInv

LEMMA ExecuteKeeps ==
  ASSUME AdapterAssumption, AdapterInv, NEW r \in Requests, Execute(r)
  PROVE  AdapterInv'
<1>1. /\ work[r].pc = "new" /\ kind = "interactive"
      /\ UNCHANGED <<kind, isOpen, txDepth, locked>> /\ AdapterType
      /\ conn[1] \in ConnRecord /\ 1 \in 1..PoolSize
  BY DEF Execute, At, AdapterInv, AdapterType, AdapterAssumption
<1>2. CASE Acknowledge(r, 1) /\ committed' = committed \cup {<<r, 1>>} /\ UNCHANGED <<conn, joined>>
  <2>1. /\ Moved(r) /\ work'[r].pc = "answered" /\ work'[r].answer = "ok" /\ work'[r].n = 1
    BY <1>1, <1>2, ItAcknowledges
  <2>2. Writes(r)' \subseteq committed'
    BY <1>2, <2>1 DEF Writes
  <2> QED
    BY <1>1, <1>2, <2>1, <2>2, AtOnce DEF AdapterType, Grown
<1>3. CASE /\ Acknowledge(r, 1) /\ conn' = [conn EXCEPT ![1].writes = @ \cup {<<r, 1>>}]
           /\ joined' = joined \cup {<<r, 1>>} /\ UNCHANGED committed
  <2>1. /\ Moved(r) /\ work'[r].pc = "answered" /\ work'[r].answer = "ok" /\ work'[r].n = 1
    BY <1>1, <1>3, ItAcknowledges
  <2>2. Writes(r)' \subseteq joined'
    BY <1>3, <2>1 DEF Writes
  <2> DEFINE k == [conn[1] EXCEPT !.writes = @ \cup {<<r, 1>>}]
  <2>3. k \in ConnRecord /\ k.by = conn[1].by /\ k.writes = conn[1].writes \cup {<<r, 1>>}
    BY ONLY <1>1, r \in Requests DEF ConnRecord
  <2>4. conn' = [conn EXCEPT ![1] = k]
    BY <1>3
  <2> HIDE DEF k
  <2>5. /\ conn' \in [1..PoolSize -> ConnRecord]
        /\ \A i \in 1..PoolSize :
             /\ conn'[i].by = conn[i].by /\ conn[i].writes \subseteq conn'[i].writes
             /\ conn'[i].writes \subseteq conn[i].writes \cup {<<r, 1>>}
    BY <1>1, <2>3, <2>4 DEF AdapterType
  <2>6. \A i \in 1..PoolSize :
          /\ conn'[i].by = conn[i].by /\ conn[i].writes \subseteq conn'[i].writes
          /\ \A s \in Requests, n \in Nat :
               <<s, n>> \in conn'[i].writes =>
                 <<s, n>> \in conn[i].writes \/ (s = r /\ work'[r].answer = "ok")
    BY ONLY <2>1, <2>5
  <2>7. Grown /\ joined' \subseteq Requests \X Nat /\ committed' \subseteq Requests \X Nat
    BY <1>1, <1>3 DEF AdapterType, Grown
  <2>8. /\ UNCHANGED <<isOpen, locked>> /\ txDepth' \in Nat /\ txDepth' = txDepth
        /\ committed' = committed
    BY <1>1, <1>3 DEF AdapterType
  <2>9. Writes(r)' \subseteq committed' \cup joined'
    BY <2>2
  <2> QED
    BY ONLY AdapterAssumption, AdapterInv, r \in Requests, <1>1, <2>1, <2>5, <2>6, <2>7, <2>8,
            <2>9, AtOnce
<1>4. CASE Answer(r, "SK_DB_BUSY") /\ UNCHANGED <<conn, committed, joined>>
  <2>1. /\ Moved(r) /\ work'[r].pc = "answered" /\ work'[r].answer = "SK_DB_BUSY"
    BY <1>1, <1>4, ItAnswers DEF Answers
  <2> QED
    BY <1>1, <1>4, <2>1, AtOnce DEF AdapterType, Grown
<1> QED
  BY <1>2, <1>3, <1>4 DEF Execute

\* Autocommits of D1 and of a pool.
LEMMA AutocommitKeeps ==
  ASSUME AdapterAssumption, AdapterInv, NEW r \in Requests, NEW n \in Nat, work[r].pc = "new",
         Acknowledge(r, n), committed' = committed \cup {<<r, i>> : i \in 1..n},
         UNCHANGED <<kind, isOpen, txDepth, conn, locked, joined>>
  PROVE  AdapterInv'
<1>1. AdapterType
  BY DEF AdapterInv
<1>2. /\ Moved(r) /\ work'[r].pc = "answered" /\ work'[r].answer = "ok" /\ work'[r].n = n
  BY <1>1, ItAcknowledges
<1>3. Writes(r)' \subseteq committed'
  BY <1>2 DEF Writes
<1>4. committed' \subseteq Requests \X Nat /\ committed \subseteq committed'
  BY <1>1 DEF AdapterType
<1> QED
  BY <1>1, <1>2, <1>3, <1>4, AtOnce DEF AdapterType, Grown

LEMMA RefusedKeeps ==
  ASSUME AdapterAssumption, AdapterInv, NEW r \in Requests, NEW a \in Answers \ {"ok"},
         work[r].pc = "new", Answer(r, a), txDepth' \in Nat,
         txDepth' = txDepth \/ \A s \in Requests : ~Within(s),
         UNCHANGED <<kind, isOpen, conn, locked, committed, joined>>
  PROVE  AdapterInv'
<1>1. AdapterType
  BY DEF AdapterInv
<1>2. Moved(r) /\ work'[r].pc = "answered" /\ work'[r].answer = a
  BY <1>1, ItAnswers
<1> QED
  BY <1>1, <1>2, AtOnce DEF AdapterType, Grown

--------------------------------------------------------------------------------
(* Transactions: how one begins.                                              *)

\* On a connection of its own, or on D1, where the counter is the only one to know.
LEMMA EnterKeeps ==
  ASSUME AdapterAssumption, AdapterInv, NEW r \in Requests, work[r].pc = "new", Enter(r),
         UNCHANGED <<kind, isOpen, locked, committed, joined>>,
         \/ kind = "atomic-batch" /\ UNCHANGED conn
         \/ \E i \in Conns : conn[i].by = Nobody /\ conn' = [conn EXCEPT ![i].by = r],
         \/ kind \in Pools /\ txDepth' = txDepth
         \/ txDepth' = 1 /\ \A s \in Requests : ~Within(s)
  PROVE  AdapterInv'
<1>1. AdapterType
  BY DEF AdapterInv
<1>2. Moved(r) /\ work'[r].pc = "tx" /\ work'[r].answer = work[r].answer /\ work'[r].n = work[r].n
  BY <1>1, ItEnters
<1>3. ReqOf(r) /\ work[r].n = 0 /\ work[r].answer # "ok"
  BY DEF AdapterInv, RequestsInv, ReqOf
<1>4. Writes(r)' = {}
  BY <1>2, <1>3 DEF Writes
<1> DEFINE Taken ==
             /\ conn' \in [1..PoolSize -> ConnRecord]
             /\ \A i \in 1..PoolSize :
                  /\ conn'[i].writes = conn[i].writes
                  /\ conn'[i].by = conn[i].by \/ (conn[i].by = Nobody /\ conn'[i].by = r)
                  /\ conn'[i].by = r => \A j \in 1..PoolSize : conn'[j].by = r => i = j
             /\ kind # "atomic-batch" => \E i \in Conns : conn'[i].by = r
<1>5. Taken
  <2>1. \A i \in 1..PoolSize : conn[i].by # r
    BY <1>1 DEF AdapterInv, HolderInv, Within, AdapterAssumption
  <2>2. CASE kind = "atomic-batch" /\ UNCHANGED conn
    BY <1>1, <2>1, <2>2 DEF AdapterType
  <2>3. ASSUME NEW i \in Conns, conn[i].by = Nobody, conn' = [conn EXCEPT ![i].by = r]
        PROVE  Taken
    <3> DEFINE k == [conn[i] EXCEPT !.by = r]
    <3>1. i \in 1..PoolSize /\ conn[i] \in ConnRecord
      BY <1>1, ConnsKnown DEF AdapterType
    <3>2. k \in ConnRecord /\ k.by = r /\ k.writes = conn[i].writes
      BY ONLY <3>1, r \in Requests DEF ConnRecord
    <3>3. conn' = [conn EXCEPT ![i] = k]
      BY <2>3
    <3> HIDE DEF k
    <3> QED
      BY <1>1, <2>1, <2>3, <3>1, <3>2, <3>3 DEF AdapterType
  <2> QED
    BY <2>2, <2>3
<1> HIDE DEF Taken
<1>6. AdapterType'
  <2>1. txDepth' \in Nat
    BY <1>1 DEF AdapterType
  <2>2. conn' \in [1..PoolSize -> ConnRecord] /\ work' \in [Requests -> ReqRecord]
    BY <1>2, <1>5 DEF Taken, Moved
  <2> QED
    BY <1>1, <2>1, <2>2 DEF AdapterType
<1>7. RequestsInv'
  <2>1. ReqOf(r)'
    BY <1>2, <1>3, <1>4 DEF ReqOf, Within
  <2>2. Grown
    BY DEF Grown
  <2> QED
    BY <1>2, <2>1, <2>2, OthersKeep
<1>8. ASSUME NEW s \in Requests, Within(s)', s # r
      PROVE  Within(s) /\ Writes(s)' = Writes(s)
  BY <1>2, <1>8, WritesStay DEF Moved, Within
<1>9. HolderInv'
  <2> SUFFICES ASSUME NEW i \in 1..PoolSize, conn'[i].by # Nobody
               PROVE  /\ work'[conn'[i].by].pc \in {"tx", "outside"}
                      /\ \A j \in 1..PoolSize : conn'[j].by = conn'[i].by => i = j
    BY DEF HolderInv, Within
  <2>1. CASE conn'[i].by = r
    BY <1>2, <1>5, <2>1 DEF Taken
  <2>2. CASE conn'[i].by # r
    <3>1. /\ conn'[i].by = conn[i].by /\ conn[i].by \in Requests /\ Within(conn[i].by)
          /\ \A j \in 1..PoolSize : conn[j].by = conn[i].by => i = j
      BY <1>1, <1>5, <2>2 DEF Taken, AdapterInv, AdapterType, ConnRecord, HolderInv
    <3> QED
      BY <1>2, <1>5, <2>2, <3>1 DEF Taken, Within, Moved
  <2> QED
    BY <2>1, <2>2
<1>10. DepthInv'
  <2> SUFFICES ASSUME kind \notin Pools, NEW s \in Requests, Within(s)'
               PROVE  txDepth' = 1 /\ \A t \in Requests : Within(t)' => s = t
    BY DEF DepthInv
  <2> QED
    BY <1>8
<1>11. OwnInv'
  <2> SUFFICES ASSUME isOpen, kind # "atomic-batch", NEW s \in Requests, Within(s)'
               PROVE  \E i \in Conns : conn'[i].by = s /\ Writes(s)' \subseteq conn'[i].writes
    BY ConnsStay DEF OwnInv
  <2>1. CASE s = r
    BY <1>4, <1>5, <2>1 DEF Taken
  <2>2. CASE s # r
    <3>1. PICK i \in Conns : conn[i].by = s /\ Writes(s) \subseteq conn[i].writes
      BY <1>8, <2>2 DEF AdapterInv, OwnInv
    <3>2. i \in 1..PoolSize /\ s # Nobody
      BY ConnsKnown DEF AdapterAssumption
    <3> QED
      BY <1>5, <1>8, <2>2, <3>1, <3>2 DEF Taken
  <2> QED
    BY <2>1, <2>2
<1>12. WritesInv'
  <2>1. \A s \in Requests : work'[s].answer = work[s].answer /\ s # Nobody
    BY <1>2 DEF Moved, AdapterAssumption
  <2>2. ASSUME NEW s \in Requests, NEW n \in Nat, NEW i \in 1..PoolSize,
               <<s, n>> \in conn'[i].writes
        PROVE  conn'[i].by = s \/ work'[s].answer = "ok"
    BY <1>5, <2>1, <2>2 DEF Taken, AdapterInv, WritesInv
  <2>3. ASSUME NEW s \in Requests, NEW n \in Nat, <<s, n>> \in committed
        PROVE  kind = "atomic-batch" \/ work'[s].answer = "ok"
    BY <2>1, <2>3 DEF AdapterInv, WritesInv
  <2> QED
    BY <2>2, <2>3 DEF WritesInv
<1> QED
  BY <1>6, <1>7, <1>9, <1>10, <1>11, <1>12 DEF AdapterInv

LEMMA NobodyWithin ==
  ASSUME AdapterInv, kind \notin Pools, txDepth = 0
  PROVE  \A s \in Requests : ~Within(s)
  BY DEF AdapterInv, DepthInv

LEMMA BeginKeeps ==
  ASSUME AdapterAssumption, AdapterInv, NEW r \in Requests, BeginShared(r)
  PROVE  AdapterInv'
<1>1. /\ work[r].pc = "new" /\ kind = "interactive" /\ kind \notin Pools /\ txDepth \in Nat
      /\ UNCHANGED <<kind, isOpen, locked, committed, joined>>
  BY DEF BeginShared, At, Pools, AdapterInv, AdapterType
<1>2. CASE Answer(r, "SK_DB_NESTED_TX") /\ UNCHANGED <<txDepth, conn>>
  BY <1>1, <1>2, RefusedKeeps DEF Answers
<1>3. CASE txDepth = 0 /\ txDepth' = 1 /\ Answer(r, "SQLITE_BUSY") /\ UNCHANGED conn
  BY <1>1, <1>3, RefusedKeeps, NobodyWithin DEF Answers
<1>4. CASE txDepth = 0 /\ txDepth' = 1 /\ Enter(r) /\ conn' = [conn EXCEPT ![1].by = r]
  <2>1. \A s \in Requests : ~Within(s)
    BY <1>1, <1>4, NobodyWithin
  <2>2. 1 \in Conns /\ 1 \in 1..PoolSize
    BY <1>1 DEF Conns, AdapterAssumption
  <2>3. conn[1].by = Nobody
    BY <2>1, <2>2 DEF AdapterInv, AdapterType, ConnRecord, HolderInv
  <2> QED
    BY <1>1, <1>4, <2>1, <2>2, <2>3, EnterKeeps
<1> QED
  BY <1>2, <1>3, <1>4 DEF BeginShared

LEMMA BeginD1Keeps ==
  ASSUME AdapterAssumption, AdapterInv, NEW r \in Requests, BeginD1(r)
  PROVE  AdapterInv'
<1>1. /\ work[r].pc = "new" /\ kind = "atomic-batch" /\ kind \notin Pools /\ txDepth \in Nat
      /\ UNCHANGED <<kind, isOpen, conn, locked, committed, joined>>
  BY DEF BeginD1, At, Pools, AdapterInv, AdapterType
<1>2. CASE Answer(r, "SK_DB_NESTED_TX") /\ UNCHANGED txDepth
  BY <1>1, <1>2, RefusedKeeps DEF Answers
<1>3. CASE txDepth = 0 /\ txDepth' = 1 /\ Enter(r)
  BY <1>1, <1>3, NobodyWithin, EnterKeeps
<1> QED
  BY <1>2, <1>3 DEF BeginD1

LEMMA BeginPoolKeeps ==
  ASSUME AdapterAssumption, AdapterInv, NEW r \in Requests, BeginPool(r)
  PROVE  AdapterInv'
  BY EnterKeeps DEF BeginPool, At, IdleConns

--------------------------------------------------------------------------------
(* Transactions: what one does.                                               *)

\* Its connection is found again.
LEMMA Held ==
  ASSUME AdapterAssumption, AdapterInv, NEW r \in Requests, Within(r), isOpen, kind # "atomic-batch"
  PROVE  /\ HeldBy(r) \in Conns /\ HeldBy(r) \in 1..PoolSize
         /\ conn[HeldBy(r)].by = r /\ Writes(r) \subseteq conn[HeldBy(r)].writes
<1>1. PICK i \in Conns : conn[i].by = r /\ Writes(r) \subseteq conn[i].writes
  BY DEF AdapterInv, OwnInv
<1>2. HeldBy(r) \in Conns /\ conn[HeldBy(r)].by = r
  BY <1>1 DEF HeldBy
<1>3. HeldBy(r) = i
  BY <1>1, <1>2, ConnsKnown DEF AdapterInv, HolderInv, AdapterAssumption
<1> QED
  BY <1>1, <1>2, <1>3, ConnsKnown

LEMMA TxExecuteKeeps ==
  ASSUME AdapterAssumption, AdapterInv, NEW r \in Requests, TxExecute(r)
  PROVE  AdapterInv'
<1> DEFINE n == work[r].n + 1
           w == <<r, n>>
           i == HeldBy(r)
<1>1. /\ work[r].pc = "tx" /\ Within(r) /\ isOpen /\ AdapterType /\ work[r] \in ReqRecord
      /\ n \in Nat /\ UNCHANGED <<kind, isOpen, txDepth, locked, joined>>
  BY DEF TxExecute, At, Within, AdapterInv, AdapterType, ReqRecord
<1>2. /\ Moved(r) /\ work'[r].pc = "tx" /\ work'[r].answer = work[r].answer /\ work'[r].n = n
  <2> DEFINE k == [work[r] EXCEPT !.n = n]
  <2>1. k \in ReqRecord /\ k.pc = work[r].pc /\ k.answer = work[r].answer /\ k.n = n
    BY ONLY <1>1 DEF ReqRecord
  <2>2. work' = [work EXCEPT ![r] = k]
    BY DEF TxExecute
  <2> HIDE DEF k, n
  <2> QED
    BY <1>1, <2>1, <2>2 DEF AdapterType, Moved
<1>3. Writes(r)' = Writes(r) \cup {w}
  BY <1>1, <1>2 DEF Writes, ReqRecord
<1>4. work[r].answer # "ok"
  BY <1>1 DEF AdapterInv, RequestsInv, ReqOf
<1> DEFINE Written ==
             /\ conn' \in [1..PoolSize -> ConnRecord]
             /\ committed' \subseteq Requests \X Nat /\ committed \subseteq committed'
             /\ \A j \in 1..PoolSize :
                  /\ conn'[j].by = conn[j].by /\ conn[j].writes \subseteq conn'[j].writes
                  /\ \A s \in Requests, m \in Nat :
                       <<s, m>> \in conn'[j].writes =>
                         <<s, m>> \in conn[j].writes \/ (s = r /\ conn[j].by = r)
             /\ kind # "atomic-batch" =>
                  /\ committed' = committed
                  /\ \A j \in 1..PoolSize : conn[j].by = r => w \in conn'[j].writes
             /\ kind = "atomic-batch" => w \in committed'
<1>5. Written
  <2> w \in Requests \X Nat
    BY <1>1
  <2>1. CASE kind = "atomic-batch"
    <3>1. committed' = committed \cup {w} /\ UNCHANGED conn
      BY <2>1 DEF TxExecute
    <3> HIDE DEF w
    <3> QED
      BY <1>1, <2>1, <3>1 DEF AdapterType
  <2>2. CASE kind # "atomic-batch"
    <3>1. /\ i \in 1..PoolSize /\ conn[i].by = r /\ conn[i] \in ConnRecord
          /\ \A j \in 1..PoolSize : conn[j].by = r => i = j
      BY <1>1, <2>2, Held DEF AdapterInv, AdapterType, HolderInv, AdapterAssumption
    <3> DEFINE k == [conn[i] EXCEPT !.writes = @ \cup {w}]
    <3>2. conn' = [conn EXCEPT ![i] = k] /\ committed' = committed
      BY <2>2 DEF TxExecute
    <3> HIDE DEF i
    <3>3. k \in ConnRecord /\ k.by = r /\ k.writes = conn[i].writes \cup {w}
      <4> HIDE DEF w
      <4> QED
        BY ONLY <3>1, w \in Requests \X Nat DEF ConnRecord
    <3> HIDE DEF k
    <3>4. /\ conn' \in [1..PoolSize -> ConnRecord] /\ conn'[i] = k
          /\ \A j \in 1..PoolSize : j # i => conn'[j] = conn[j]
      BY <1>1, <3>1, <3>2, <3>3 DEF AdapterType
    <3> QED
      BY <1>1, <2>2, <3>1, <3>2, <3>3, <3>4 DEF AdapterType
  <2> QED
    BY <2>1, <2>2
<1> HIDE DEF Written, i, w, n
<1>6. AdapterType'
  BY <1>1, <1>2, <1>5 DEF Written, Moved, AdapterType
<1>7. RequestsInv'
  <2>1. ReqOf(r)'
    BY <1>1, <1>2, <1>3, <1>4, <1>5 DEF AdapterInv, RequestsInv, ReqOf, Within, Written
  <2>2. Grown
    BY <1>1, <1>5 DEF Grown, Written
  <2> QED
    BY <1>2, <2>1, <2>2, OthersKeep
<1>8. ASSUME NEW s \in Requests
      PROVE  Within(s)' = Within(s) /\ work'[s].answer = work[s].answer
  BY <1>1, <1>2 DEF Moved, Within
<1>9. HolderInv'
  <2> SUFFICES ASSUME NEW j \in 1..PoolSize, conn'[j].by # Nobody
               PROVE  /\ work'[conn'[j].by].pc \in {"tx", "outside"}
                      /\ \A m \in 1..PoolSize : conn'[m].by = conn'[j].by => j = m
    BY DEF HolderInv, Within
  <2>1. /\ conn'[j].by = conn[j].by /\ conn[j].by \in Requests /\ Within(conn[j].by)
        /\ \A m \in 1..PoolSize : conn[m].by = conn[j].by => j = m
    BY <1>1, <1>5 DEF Written, AdapterInv, AdapterType, ConnRecord, HolderInv
  <2> QED
    BY <1>2, <1>5, <2>1 DEF Written, Within, Moved
<1>10. DepthInv'
  BY <1>1, <1>8 DEF AdapterInv, DepthInv
<1>11. OwnInv'
  <2> SUFFICES ASSUME kind # "atomic-batch", NEW s \in Requests, Within(s)
               PROVE  \E j \in Conns : conn'[j].by = s /\ Writes(s)' \subseteq conn'[j].writes
    BY <1>1, <1>8, ConnsStay DEF OwnInv
  <2>1. PICK j \in Conns : conn[j].by = s /\ Writes(s) \subseteq conn[j].writes
    BY <1>1 DEF AdapterInv, OwnInv
  <2>2. j \in 1..PoolSize /\ conn'[j].by = s /\ conn[j].writes \subseteq conn'[j].writes
    BY <1>5, <2>1, ConnsKnown DEF Written
  <2>3. Writes(s)' \subseteq conn'[j].writes
    <3>1. CASE s = r
      BY <1>3, <1>5, <2>1, <2>2, <3>1 DEF Written
    <3>2. CASE s # r
      BY <1>2, <2>1, <2>2, <3>2, WritesStay DEF Moved
    <3> QED
      BY <3>1, <3>2
  <2> QED
    BY <2>2, <2>3
<1>12. WritesInv'
  <2>1. ASSUME NEW s \in Requests, NEW m \in Nat, NEW j \in 1..PoolSize,
               <<s, m>> \in conn'[j].writes
        PROVE  conn'[j].by = s \/ work'[s].answer = "ok"
    BY <1>5, <1>8, <2>1 DEF Written, AdapterInv, WritesInv
  <2>2. ASSUME NEW s \in Requests, NEW m \in Nat, <<s, m>> \in committed'
        PROVE  kind' = "atomic-batch" \/ work'[s].answer = "ok"
    BY <1>1, <1>5, <1>8, <2>2 DEF Written, AdapterInv, WritesInv
  <2> QED
    BY <2>1, <2>2 DEF WritesInv
<1> QED
  BY <1>6, <1>7, <1>9, <1>10, <1>11, <1>12 DEF AdapterInv

\* A read through the adapter from within a transaction, and back.
LEMMA TurnKeeps ==
  ASSUME AdapterAssumption, AdapterInv, NEW r \in Requests, Within(r),
         NEW l \in {"tx", "outside"}, work' = [work EXCEPT ![r].pc = l],
         UNCHANGED <<kind, isOpen, txDepth, conn, locked, committed, joined>>
  PROVE  AdapterInv'
<1> DEFINE k == [work[r] EXCEPT !.pc = l]
<1>1. AdapterType /\ work[r] \in ReqRecord /\ work[r].answer # "ok"
  BY DEF AdapterInv, AdapterType, RequestsInv, ReqOf, Within
<1>2. k \in ReqRecord /\ k.pc = l /\ k.answer = work[r].answer /\ k.n = work[r].n
  BY ONLY <1>1, l \in {"tx", "outside"} DEF ReqRecord
<1>3. work' = [work EXCEPT ![r] = k]
  OBVIOUS
<1> HIDE DEF k
<1>4. /\ Moved(r) /\ work'[r].pc = l /\ work'[r].answer = work[r].answer /\ work'[r].n = work[r].n
  BY <1>1, <1>2, <1>3 DEF AdapterType, Moved
<1>5. ASSUME NEW s \in Requests
      PROVE  /\ Within(s)' = Within(s) /\ work'[s].answer = work[s].answer
             /\ Writes(s)' = Writes(s)
  BY <1>4, WritesStay DEF Moved, Within
<1>6. AdapterType'
  BY <1>1, <1>4 DEF AdapterType, Moved
<1>7. RequestsInv'
  <2>1. ReqOf(r)'
    BY <1>1, <1>4, <1>5 DEF AdapterInv, RequestsInv, ReqOf, Within
  <2> QED
    BY <1>4, <2>1, OthersKeep DEF Grown
<1>8. HolderInv'
  <2> SUFFICES ASSUME NEW i \in 1..PoolSize, conn[i].by # Nobody
               PROVE  /\ work'[conn[i].by].pc \in {"tx", "outside"}
                      /\ \A j \in 1..PoolSize : conn[j].by = conn[i].by => i = j
    BY DEF HolderInv, Within
  <2>1. /\ conn[i].by \in Requests /\ Within(conn[i].by)
        /\ \A j \in 1..PoolSize : conn[j].by = conn[i].by => i = j
    BY <1>1 DEF AdapterInv, AdapterType, ConnRecord, HolderInv
  <2> QED
    BY <1>4, <2>1 DEF Within, Moved
<1>9. DepthInv'
  BY <1>5 DEF AdapterInv, DepthInv
<1>10. OwnInv'
  BY <1>5, ConnsStay DEF AdapterInv, OwnInv
<1>11. WritesInv'
  BY <1>5 DEF AdapterInv, WritesInv
<1> QED
  BY <1>6, <1>7, <1>8, <1>9, <1>10, <1>11 DEF AdapterInv

\* The connection goes back with what is on it, and the counter with the only one it let in.
LEMMA LeaveKeeps ==
  ASSUME AdapterAssumption, AdapterInv, NEW r \in Requests, Within(r), Release(r),
         NEW a \in {"ok", "thrown"}, Answer(r, a), UNCHANGED <<kind, isOpen, locked, joined>>,
         committed \subseteq committed', committed' \subseteq Requests \X Nat,
         a = "ok" => Writes(r) \subseteq committed',
         \A s \in Requests, n \in Nat :
           <<s, n>> \in committed' =>
             kind = "atomic-batch" \/ work[s].answer = "ok" \/ (s = r /\ a = "ok")
  PROVE  AdapterInv'
<1>1. AdapterType /\ work[r].answer # "ok"
  BY DEF AdapterInv, RequestsInv, ReqOf, Within
<1>2. Moved(r) /\ work'[r].pc = "answered" /\ work'[r].answer = a /\ work'[r].n = work[r].n
  BY <1>1, ItAnswers DEF Answers
<1>3. ASSUME NEW s \in Requests, Within(s)'
      PROVE  s # r /\ Within(s) /\ Writes(s)' = Writes(s)
  <2>1. s # r
    BY <1>2, <1>3 DEF Within
  <2> QED
    BY <1>2, <1>3, <2>1, WritesStay DEF Moved, Within
<1>4. /\ conn' \in [1..PoolSize -> ConnRecord]
      /\ \A i \in 1..PoolSize :
           IF conn[i].by = r THEN conn'[i].by = Nobody /\ conn'[i].writes = {}
                             ELSE conn'[i] = conn[i]
  <2>1. NoTx \in ConnRecord /\ NoTx.by = Nobody /\ NoTx.writes = {}
    BY DEF NoTx, ConnRecord
  <2> QED
    BY <1>1, <2>1 DEF AdapterType, Release
<1>5. txDepth' \in Nat
  <2>1. kind \notin Pools => txDepth = 1
    BY DEF AdapterInv, DepthInv
  <2> QED
    BY <1>1, <2>1 DEF AdapterType, Release
<1>6. AdapterType'
  BY <1>1, <1>2, <1>4, <1>5 DEF AdapterType, Moved
<1>7. RequestsInv'
  <2>1. ReqOf(r)'
    BY <1>2, WritesStay DEF ReqOf, Within
  <2>2. Grown
    BY DEF Grown
  <2> QED
    BY <1>2, <2>1, <2>2, OthersKeep
<1>8. HolderInv'
  <2> SUFFICES ASSUME NEW i \in 1..PoolSize, conn'[i].by # Nobody
               PROVE  /\ work'[conn'[i].by].pc \in {"tx", "outside"}
                      /\ \A j \in 1..PoolSize : conn'[j].by = conn'[i].by => i = j
    BY DEF HolderInv, Within
  <2>1. /\ conn[i].by # r /\ conn'[i].by = conn[i].by
        /\ conn[i].by \in Requests /\ Within(conn[i].by)
        /\ \A j \in 1..PoolSize : conn[j].by = conn[i].by => i = j
    BY <1>1, <1>4 DEF AdapterInv, AdapterType, ConnRecord, HolderInv
  <2> QED
    BY <1>2, <1>4, <2>1 DEF Within, Moved
<1>9. DepthInv'
  <2> SUFFICES ASSUME kind \notin Pools, NEW s \in Requests, Within(s)' PROVE FALSE
    BY DEF DepthInv
  <2> QED
    BY <1>3 DEF AdapterInv, DepthInv
<1>10. OwnInv'
  <2> SUFFICES ASSUME isOpen, kind # "atomic-batch", NEW s \in Requests, Within(s)'
               PROVE  \E i \in Conns : conn'[i].by = s /\ Writes(s)' \subseteq conn'[i].writes
    BY ConnsStay DEF OwnInv
  <2>1. PICK i \in Conns : conn[i].by = s /\ Writes(s) \subseteq conn[i].writes
    BY <1>3 DEF AdapterInv, OwnInv
  <2>2. i \in 1..PoolSize
    BY ConnsKnown
  <2> QED
    BY <1>3, <1>4, <2>1, <2>2
<1>11. WritesInv'
  <2>1. ASSUME NEW s \in Requests, work[s].answer = "ok" PROVE work'[s].answer = "ok"
    BY <1>1, <1>2, <2>1 DEF Moved
  <2>2. ASSUME NEW s \in Requests, NEW n \in Nat, NEW i \in 1..PoolSize,
               <<s, n>> \in conn'[i].writes
        PROVE  conn'[i].by = s \/ work'[s].answer = "ok"
    BY <1>4, <2>1, <2>2 DEF AdapterInv, WritesInv
  <2>3. ASSUME NEW s \in Requests, NEW n \in Nat, <<s, n>> \in committed'
        PROVE  kind' = "atomic-batch" \/ work'[s].answer = "ok"
    BY <1>2, <2>1, <2>3
  <2> QED
    BY <2>2, <2>3 DEF WritesInv
<1> QED
  BY <1>6, <1>7, <1>8, <1>9, <1>10, <1>11 DEF AdapterInv

LEMMA CommitKeeps ==
  ASSUME AdapterAssumption, AdapterInv, NEW r \in Requests, Commit(r)
  PROVE  AdapterInv'
<1>1. /\ Within(r) /\ isOpen /\ Release(r) /\ Answer(r, "ok") /\ AdapterType
      /\ UNCHANGED <<kind, isOpen, locked, joined>>
  BY DEF Commit, At, Within, AdapterInv
<1>2. CASE kind = "atomic-batch"
  <2>1. committed' = committed /\ Writes(r) \subseteq committed
    BY <1>1, <1>2 DEF Commit, AdapterInv, RequestsInv, ReqOf
  <2> QED
    BY <1>1, <1>2, <2>1, LeaveKeeps DEF AdapterType
<1>3. CASE kind # "atomic-batch"
  <2> DEFINE i == HeldBy(r)
  <2>1. i \in 1..PoolSize /\ conn[i].by = r /\ Writes(r) \subseteq conn[i].writes
    BY <1>1, <1>3, Held
  <2>2. committed' = committed \cup conn[i].writes
    BY <1>3 DEF Commit
  <2> HIDE DEF i
  <2>3. committed' \subseteq Requests \X Nat
    BY <1>1, <2>1, <2>2 DEF AdapterType, ConnRecord
  <2>4. \A s \in Requests, n \in Nat :
          <<s, n>> \in committed' => work[s].answer = "ok" \/ s = r
    BY <1>3, <2>1, <2>2 DEF AdapterInv, WritesInv
  <2> QED
    BY <1>1, <2>1, <2>2, <2>3, <2>4, LeaveKeeps
<1> QED
  BY <1>2, <1>3

LEMMA RollbackKeepsIt ==
  ASSUME AdapterAssumption, AdapterInv, NEW r \in Requests, Rollback(r)
  PROVE  AdapterInv'
<1>1. /\ Within(r) /\ Release(r) /\ Answer(r, "thrown") /\ AdapterType
      /\ UNCHANGED <<kind, isOpen, locked, joined, committed>>
  BY DEF Rollback, At, Within, AdapterInv
<1>2. \A s \in Requests, n \in Nat :
        <<s, n>> \in committed' => kind = "atomic-batch" \/ work[s].answer = "ok"
  BY <1>1 DEF AdapterInv, WritesInv
<1> QED
  BY <1>1, <1>2, LeaveKeeps DEF AdapterType

--------------------------------------------------------------------------------
LEMMA CloseKeeps ==
  ASSUME AdapterAssumption, AdapterInv, Close
  PROVE  AdapterInv'
<1>1. /\ isOpen' = FALSE /\ UNCHANGED <<kind, txDepth, locked, committed, work, joined>>
      /\ conn' = [i \in DOMAIN conn |-> NoTx] /\ AdapterType
  BY DEF Close, AdapterInv
<1>2. NoTx \in ConnRecord /\ NoTx.by = Nobody /\ NoTx.writes = {}
  BY DEF NoTx, ConnRecord
<1>3. /\ conn' \in [1..PoolSize -> ConnRecord]
      /\ \A i \in 1..PoolSize : conn'[i].by = Nobody /\ conn'[i].writes = {}
  BY <1>1, <1>2 DEF AdapterType
<1>4. AdapterType'
  BY <1>1, <1>3 DEF AdapterType
<1>5. RequestsInv' /\ DepthInv'
  BY <1>1 DEF AdapterInv, RequestsInv, ReqOf, DepthInv, Within, Writes
<1>6. HolderInv' /\ OwnInv'
  BY <1>1, <1>3 DEF HolderInv, OwnInv
<1>7. WritesInv'
  BY <1>1, <1>3 DEF AdapterInv, WritesInv
<1> QED
  BY <1>4, <1>5, <1>6, <1>7 DEF AdapterInv

\* The lock of another process touches nothing else.
LEMMA LockKeeps ==
  ASSUME AdapterInv, locked' \in BOOLEAN,
         UNCHANGED <<kind, isOpen, txDepth, conn, committed, work, joined>>
  PROVE  AdapterInv'
<1>1. AdapterType'
  BY DEF AdapterInv, AdapterType
<1>2. RequestsInv' /\ HolderInv' /\ DepthInv'
  BY DEF AdapterInv, RequestsInv, ReqOf, Within, Writes, HolderInv, DepthInv
<1>3. OwnInv' /\ WritesInv'
  BY ConnsStay DEF AdapterInv, OwnInv, Within, Writes, WritesInv
<1> QED
  BY <1>1, <1>2, <1>3 DEF AdapterInv

LEMMA AdapterSteps ==
  ASSUME AdapterAssumption, AdapterInv, [AdapterNext]_adapterVars
  PROVE  AdapterInv'
<1>1. CASE UNCHANGED adapterVars
  BY <1>1, LockKeeps DEF adapterVars, AdapterInv, AdapterType
<1>2. CASE OtherLocks \/ OtherUnlocks
  BY <1>2, LockKeeps DEF OtherLocks, OtherUnlocks
<1>3. CASE Close
  BY <1>3, CloseKeeps
<1>4. ASSUME NEW r \in Requests, RequestNext(r) PROVE AdapterInv'
  <2>1. CASE Execute(r) \/ TxExecute(r) \/ Commit(r) \/ Rollback(r)
    BY <2>1, ExecuteKeeps, TxExecuteKeeps, CommitKeeps, RollbackKeepsIt
  <2>2. CASE BeginShared(r) \/ BeginD1(r) \/ BeginPool(r)
    BY <2>2, BeginKeeps, BeginD1Keeps, BeginPoolKeeps
  <2>3. CASE ExecuteD1(r) \/ ExecutePool(r)
    <3>1. {<<r, i>> : i \in 1..1} = {<<r, 1>>}
      OBVIOUS
    <3> QED
      BY <2>3, <3>1, AutocommitKeeps DEF ExecuteD1, ExecutePool, At
  <2>4. CASE Batch(r)
    BY <2>4, AutocommitKeeps DEF Batch, At, AdapterAssumption
  <2>5. CASE RefuseClosed(r)
    <3>1. txDepth' = txDepth /\ txDepth \in Nat
      BY <2>5 DEF RefuseClosed, AdapterInv, AdapterType
    <3> QED
      BY <2>5, <3>1, RefusedKeeps DEF RefuseClosed, At, Answers
  <2>6. CASE ReadOutside(r)
    BY <2>6, TurnKeeps DEF ReadOutside, At, Within
  <2>7. CASE ReadAnswered(r)
    BY <2>7, TurnKeeps DEF ReadAnswered, At, Within
  <2> QED
    BY <1>4, <2>1, <2>2, <2>3, <2>4, <2>5, <2>6, <2>7 DEF RequestNext
<1> QED
  BY <1>1, <1>2, <1>3, <1>4 DEF AdapterNext

LEMMA AdapterAlways == AdapterAssumption => (AdapterSpec => []AdapterInv)
<1> SUFFICES ASSUME AdapterAssumption PROVE AdapterSpec => []AdapterInv
  OBVIOUS
<1>1. AdapterInit => AdapterInv
  BY AdapterStarts
<1>2. AdapterInv /\ [AdapterNext]_adapterVars => AdapterInv'
  BY AdapterSteps
<1> QED
  BY <1>1, <1>2, PTL DEF AdapterSpec

\* execute() and transaction() of the five adapters, whatever the requests and the pool: what
\* was acknowledged is kept, but for autocommits that joined a transaction on the shared
\* SQLite connection, and a transaction that was not committed leaves nothing, but on D1.
THEOREM AdapterKeptOrGone == AdapterAssumption => (AdapterSpec => []KeptOrGone)
<1> SUFFICES ASSUME AdapterAssumption PROVE AdapterSpec => []KeptOrGone
  OBVIOUS
<1>1. AdapterInv => KeptOrGone
  <2> SUFFICES ASSUME AdapterInv, NEW r \in Requests
               PROVE  /\ work[r].answer = "ok" => Writes(r) \subseteq committed \cup joined
                      /\ work[r].tx /\ work[r].answer # "ok" /\ kind # "atomic-batch" =>
                           Writes(r) \cap committed = {}
    BY DEF KeptOrGone
  <2>1. work[r].answer = "ok" => Writes(r) \subseteq committed \cup joined
    BY DEF AdapterInv, RequestsInv, ReqOf
  <2>2. ASSUME work[r].answer # "ok", kind # "atomic-batch" PROVE Writes(r) \cap committed = {}
    BY <2>2 DEF AdapterInv, WritesInv, Writes
  <2> QED
    BY <2>1, <2>2
<1> QED
  BY <1>1, AdapterAlways, PTL

\* The pools of db-postgres and db-pglite, of any size: when no connection is free, a
\* transaction that holds one can go on, unless every holder waits for a further one.
THEOREM AdapterStallsOnlyOutside == AdapterAssumption => (AdapterSpec => []StallsOnlyOutside)
<1> SUFFICES ASSUME AdapterAssumption PROVE AdapterSpec => []StallsOnlyOutside
  OBVIOUS
<1>1. AdapterInv => StallsOnlyOutside
  <2> SUFFICES ASSUME AdapterInv, IdleConns = {}, ~\E i \in Conns : At(conn[i].by, "tx"),
                      NEW i \in Conns
               PROVE  conn[i].by \in {r \in Requests : At(r, "outside")}
    BY DEF StallsOnlyOutside
  <2>1. i \in 1..PoolSize /\ conn[i].by # Nobody
    BY ConnsKnown DEF IdleConns
  <2>2. conn[i].by \in Requests /\ Within(conn[i].by)
    BY <2>1 DEF AdapterInv, AdapterType, ConnRecord, HolderInv
  <2> QED
    BY <2>2 DEF Within, At
<1> QED
  BY <1>1, AdapterAlways, PTL

--------------------------------------------------------------------------------
(* The blob adapters.  An upload is begun once, so while its call is under    *)
(* way nobody else touches its staged bytes; what is promoted is the whole    *)
(* body, which had passed the limit; and whoever reads takes the length of    *)
(* an object that was promoted so, or of OPFS's file before it is filled.     *)

Uploading == {"body", "takeBack", "fill", "staged", "sidecar", "pour", "put", "unstage"}
Places    == Uploading \cup {"idle", "drop", "open", "list"}

BlobCallRecord == [pc : Places, op : OpIds \cup {"none"}, got : Nat, total : Nat, range : Ranges,
                   names : SUBSET OpIds]
FileRecord == [there : BOOLEAN, bytes : Nat]

BlobsType ==
  /\ body \in [OpIds -> Nat] /\ limit \in Nat
  /\ drafts \in [OpIds -> FileRecord] /\ object \in [OpIds -> FileRecord]
  /\ begun \subseteq OpIds
  /\ blobCall \in [BlobCallers -> BlobCallRecord]

\* The lengths a reader may meet.
Measured(o, n) == (n = body[o] /\ body[o] <= limit) \/ (adapter = "opfs" /\ n = 0)

\* What a call has established for the operation it works on.
Sound(k) ==
  /\ k.pc \in Uploading => k.op \in begun
  /\ k.pc = "body" => k.got <= body[k.op] /\ k.got <= limit
  /\ k.pc = "fill" => body[k.op] <= limit
  /\ k.pc \in {"staged", "pour", "put"} => drafts[k.op] = File(body[k.op]) /\ body[k.op] <= limit
  /\ k.pc = "open" => k.op \in OpIds /\ Measured(k.op, k.total)

AloneInv ==
  \A c, d \in BlobCallers : blobCall[c].pc \in Uploading /\ blobCall[d].pc \in Uploading /\ c # d =>
                              blobCall[c].op # blobCall[d].op

ObjectInv == \A o \in OpIds : object[o].there => Measured(o, object[o].bytes)

\* An answer is that for an object of a length it can have.
Shown(r) ==
  /\ r.op \in OpIds /\ r.range \in Ranges /\ r.total \in Nat /\ Measured(r.op, r.total)
  /\ r.status = AnswerFor(r.range, r.total).status /\ r.bytes = AnswerFor(r.range, r.total).bytes

ShownInv == read.op # "none" => Shown(read)

BlobsInv ==
  /\ BlobsType /\ (\A c \in BlobCallers : Sound(blobCall[c]))
  /\ AloneInv /\ ObjectInv /\ ShownInv

--------------------------------------------------------------------------------
LEMMA FileType == \A n \in Nat : /\ File(n) \in FileRecord /\ File(n).there /\ File(n).bytes = n
                                 /\ Absent \in FileRecord /\ ~Absent.there
  BY DEF File, Absent, FileRecord

LEMMA AnyRange == NoRange \in Ranges
  BY DEF Ranges

LEMMA NoBlobCallType == NoBlobCall \in BlobCallRecord /\ NoBlobCall.pc = "idle"
  BY AnyRange DEF NoBlobCall, BlobCallRecord, Places

\* One call goes on as k; what it changes of its own operation is not another call's.
LEMMA OneGoesOn ==
  ASSUME BlobsInv, NEW c \in BlobCallers, NEW k \in BlobCallRecord, blobCall' = [blobCall EXCEPT ![c] = k],
         UNCHANGED <<adapter, body, limit>>, begun \subseteq begun', begun' \subseteq OpIds,
         drafts' \in [OpIds -> FileRecord], object' \in [OpIds -> FileRecord],
         \A o \in OpIds : \/ drafts'[o] = drafts[o] \/ o \notin begun
                          \/ blobCall[c].pc \in Uploading /\ blobCall[c].op = o,
         \A o \in OpIds : object'[o].there => object'[o] = object[o] \/ Measured(o, object'[o].bytes),
         k.pc \in Uploading => \/ k.op \in begun' \ begun
                               \/ blobCall[c].pc \in Uploading /\ blobCall[c].op = k.op,
         Sound(k)', ShownInv'
  PROVE  BlobsInv'
<1> USE DEF BlobsInv
<1>1. /\ blobCall' \in [BlobCallers -> BlobCallRecord] /\ blobCall'[c] = k
      /\ \A d \in BlobCallers \ {c} : blobCall'[d] = blobCall[d]
  BY DEF BlobsType
<1>2. BlobsType'
  BY <1>1 DEF BlobsType
<1>3. \A o, n : Measured(o, n)' <=> Measured(o, n)
  BY DEF Measured
<1>4. ASSUME NEW d \in BlobCallers PROVE Sound(blobCall[d])'
  <2>1. CASE d = c
    <3>1. Sound(k)'
      OBVIOUS
    <3> QED
      BY <1>1, <2>1, <3>1 DEF Sound
  <2>2. CASE d # c
    <3>1. Sound(blobCall[d]) /\ blobCall'[d] = blobCall[d]
      BY <1>1, <2>2
    <3>2. blobCall[d].pc \in Uploading => /\ blobCall[d].op \in begun /\ blobCall[d].op \in OpIds
                                          /\ drafts'[blobCall[d].op] = drafts[blobCall[d].op]
      BY <2>2, <3>1 DEF Sound, AloneInv, BlobsType
    <3> QED
      BY <1>3, <3>1, <3>2 DEF Sound, Uploading
  <2> QED
    BY <2>1, <2>2
<1>5. AloneInv'
  <2>1. ASSUME NEW d \in BlobCallers \ {c}, k.pc \in Uploading, blobCall[d].pc \in Uploading
        PROVE  blobCall[d].op # k.op
    <3>1. Sound(blobCall[d])
      OBVIOUS
    <3> QED
      BY <2>1, <3>1 DEF Sound, AloneInv
  <2> QED
    BY <1>1, <2>1 DEF AloneInv
<1>6. ObjectInv'
  BY <1>3 DEF ObjectInv
<1> QED
  BY <1>2, <1>4, <1>5, <1>6

\* As above, of a call that only moves.
LEMMA MovesOn ==
  ASSUME BlobsType, NEW c \in BlobCallers, NEW l \in Places, BlobGoesOn(c, l)
  PROVE  \E k \in BlobCallRecord :
           /\ blobCall' = [blobCall EXCEPT ![c] = k] /\ k.pc = l
           /\ k.op = blobCall[c].op /\ k.got = blobCall[c].got /\ k.total = blobCall[c].total
<1> DEFINE k == [blobCall[c] EXCEPT !.pc = l]
<1>1. blobCall[c] \in BlobCallRecord
  BY DEF BlobsType
<1>2. /\ k \in BlobCallRecord /\ k.pc = l
      /\ k.op = blobCall[c].op /\ k.got = blobCall[c].got /\ k.total = blobCall[c].total
  BY ONLY <1>1, l \in Places DEF BlobCallRecord
<1>3. blobCall' = [blobCall EXCEPT ![c] = k]
  BY DEF BlobGoesOn
<1> QED
  BY <1>2, <1>3

LEMMA ShownStays ==
  ASSUME ShownInv, UNCHANGED <<adapter, body, limit, read>>
  PROVE  ShownInv'
<1>1. \A r, n : AnswerFor(r, n)' = AnswerFor(r, n)
  BY DEF AnswerFor
<1> QED
  BY <1>1 DEF ShownInv, Shown, Measured

LEMMA ReturnsKeep ==
  ASSUME BlobsInv, NEW c \in BlobCallers, Returns(c),
         UNCHANGED <<adapter, body, limit, object, begun, read>>, drafts' \in [OpIds -> FileRecord],
         \A o \in OpIds : \/ drafts'[o] = drafts[o]
                          \/ blobCall[c].pc \in Uploading /\ blobCall[c].op = o
  PROVE  BlobsInv'
<1>1. blobCall' = [blobCall EXCEPT ![c] = NoBlobCall]
  BY DEF Returns
<1>2. Sound(NoBlobCall)'
  BY DEF Sound, NoBlobCall, Uploading
<1>3. NoBlobCall.pc \notin Uploading
  BY DEF NoBlobCall, Uploading
<1>4. ShownInv'
  BY ShownStays DEF BlobsInv
<1>5. object' \in [OpIds -> FileRecord] /\ begun' \subseteq OpIds
  BY DEF BlobsInv, BlobsType
<1> QED
  BY <1>1, <1>2, <1>3, <1>4, <1>5, NoBlobCallType, OneGoesOn

LEMMA MovesKeep ==
  ASSUME BlobsInv, NEW c \in BlobCallers, blobCall[c].pc \in Uploading,
         NEW l \in Uploading \ {"body"}, BlobGoesOn(c, l),
         UNCHANGED <<adapter, body, limit, begun, read>>,
         drafts' \in [OpIds -> FileRecord], object' \in [OpIds -> FileRecord],
         \A o \in OpIds : drafts'[o] = drafts[o] \/ blobCall[c].op = o,
         \A o \in OpIds : object'[o].there => object'[o] = object[o] \/ Measured(o, object'[o].bytes),
         l \in {"fill", "staged", "pour", "put"} => body[blobCall[c].op] <= limit,
         l \in {"staged", "pour", "put"} => drafts'[blobCall[c].op] = File(body[blobCall[c].op])
  PROVE  BlobsInv'
<1>1. PICK k \in BlobCallRecord : /\ blobCall' = [blobCall EXCEPT ![c] = k] /\ k.pc = l
                                  /\ k.op = blobCall[c].op
  BY MovesOn DEF BlobsInv, Places
<1>2. Sound(k)'
  <2>1. blobCall[c].op \in begun
    BY DEF BlobsInv, Sound
  <2> QED
    BY <1>1, <2>1 DEF Sound, Uploading
<1>3. ShownInv'
  BY ShownStays DEF BlobsInv
<1>4. begun' \subseteq OpIds
  BY DEF BlobsInv, BlobsType
<1> QED
  BY <1>1, <1>2, <1>3, <1>4, OneGoesOn

\* What is known of a call of an upload.
LEMMA OfUpload ==
  ASSUME BlobsInv, NEW c \in BlobCallers, blobCall[c].pc \in Uploading
  PROVE  LET o == blobCall[c].op IN
         /\ o \in OpIds /\ o \in begun /\ body[o] \in Nat /\ limit \in Nat
         /\ drafts[o] \in FileRecord /\ object[o] \in FileRecord
         /\ blobCall[c].pc = "body" => /\ blobCall[c].got \in Nat /\ blobCall[c].got <= body[o]
                                       /\ blobCall[c].got <= limit
         /\ blobCall[c].pc = "fill" => body[o] <= limit
         /\ blobCall[c].pc \in {"staged", "pour", "put"} => /\ drafts[o] = File(body[o]) /\ body[o] <= limit
                                                            /\ drafts[o].there /\ drafts[o].bytes = body[o]
<1>1. Sound(blobCall[c])
  BY DEF BlobsInv
<1>2. blobCall[c].op \in begun /\ blobCall[c].op \in OpIds /\ blobCall[c] \in BlobCallRecord
  BY <1>1 DEF BlobsInv, BlobsType, Sound
<1> QED
  BY <1>1, <1>2, FileType DEF BlobsInv, BlobsType, Sound, BlobCallRecord

--------------------------------------------------------------------------------
LEMMA BlobsStart ==
  ASSUME BlobsAssumption, BlobsInit
  PROVE  BlobsInv
<1>1. BlobsType
  <2>1. body \in [OpIds -> Nat] /\ limit \in Nat
    BY DEF BlobsInit, BlobsAssumption
  <2>2. drafts \in [OpIds -> FileRecord] /\ object \in [OpIds -> FileRecord]
    BY FileType DEF BlobsInit
  <2>3. begun \subseteq OpIds /\ blobCall \in [BlobCallers -> BlobCallRecord]
    BY NoBlobCallType DEF BlobsInit
  <2> QED
    BY <2>1, <2>2, <2>3 DEF BlobsType
<1>2. \A c \in BlobCallers : blobCall[c] = NoBlobCall
  BY DEF BlobsInit
<1>3. \A o \in OpIds : ~object[o].there
  BY FileType DEF BlobsInit
<1> QED
  BY <1>1, <1>2, <1>3 DEF BlobsInit, BlobsInv, Sound, AloneInv, ObjectInv, ShownInv, NoRead, NoBlobCall,
                         Uploading

LEMMA BeginsKeeps ==
  ASSUME BlobsInv, NEW c \in BlobCallers, NEW o \in OpIds, PutDraft(c, o) \/ Collect(c, o)
  PROVE  BlobsInv'
<1> DEFINE k == [NoBlobCall EXCEPT !.pc = "body", !.op = o]
<1>1. k \in BlobCallRecord /\ k.pc = "body" /\ k.op = o /\ k.got = 0
  BY AnyRange DEF NoBlobCall, BlobCallRecord, Places, Uploading
<1>2. /\ blobCall' = [blobCall EXCEPT ![c] = k] /\ o \notin begun /\ begun' = begun \cup {o}
      /\ UNCHANGED <<adapter, body, limit, object, sidecar, read>>
      /\ drafts' = [drafts EXCEPT ![o] = File(0)] \/ UNCHANGED drafts
  BY DEF PutDraft, Collect, Begins
<1> HIDE DEF k
<1>3. /\ drafts' \in [OpIds -> FileRecord] /\ object' \in [OpIds -> FileRecord] /\ begun' \subseteq OpIds
      /\ \A p \in OpIds \ {o} : drafts'[p] = drafts[p]
  BY <1>2, FileType DEF BlobsInv, BlobsType
<1>4. Sound(k)'
  BY <1>1, <1>2 DEF Sound, Uploading, BlobsInv, BlobsType
<1>5. ShownInv'
  BY <1>2, ShownStays DEF BlobsInv
<1>6. k.op \in begun' \ begun /\ begun \subseteq begun'
  BY <1>1, <1>2
<1>7. \A p \in OpIds : drafts'[p] = drafts[p] \/ p \notin begun
  BY <1>2, <1>3
<1>8. \A p \in OpIds : object'[p].there => object'[p] = object[p]
  BY <1>2
<1> QED
  BY <1>1, <1>2, <1>3, <1>4, <1>5, <1>6, <1>7, <1>8, OneGoesOn

LEMMA ChunkKeeps ==
  ASSUME BlobsInv, NEW c \in BlobCallers, Chunk(c)
  PROVE  BlobsInv'
<1> DEFINE o == blobCall[c].op
           n == blobCall[c].got + 1
           r == [blobCall[c] EXCEPT !.got = n]
<1>1. /\ blobCall[c].pc = "body" /\ n <= body[o] /\ n <= limit
      /\ blobCall' = [blobCall EXCEPT ![c].got = n]
      /\ drafts' = drafts \/ drafts' = [drafts EXCEPT ![o] = File(n)]
      /\ UNCHANGED <<adapter, body, limit, object, sidecar, begun, read>>
  BY DEF Chunk, BlobAt
<1>2. o \in OpIds /\ o \in begun /\ n \in Nat /\ blobCall[c] \in BlobCallRecord
  BY <1>1, OfUpload DEF Uploading, BlobsInv, BlobsType
<1> HIDE DEF n
<1>3. PICK k \in BlobCallRecord : k = r /\ k.pc = "body" /\ k.op = o /\ k.got = n
  <2>1. r \in BlobCallRecord /\ r.pc = "body" /\ r.op = o /\ r.got = n
    BY ONLY <1>1, <1>2 DEF BlobCallRecord
  <2> QED
    BY <2>1
<1>4. blobCall' = [blobCall EXCEPT ![c] = k]
  BY <1>1, <1>3
<1>5. /\ drafts' \in [OpIds -> FileRecord] /\ object' \in [OpIds -> FileRecord] /\ begun' \subseteq OpIds
      /\ \A p \in OpIds \ {o} : drafts'[p] = drafts[p]
  BY <1>1, <1>2, FileType DEF BlobsInv, BlobsType
<1>6. Sound(k)'
  BY <1>1, <1>2, <1>3 DEF Sound, Uploading
<1>7. ShownInv'
  BY <1>1, ShownStays DEF BlobsInv
<1> QED
  BY <1>1, <1>3, <1>4, <1>5, <1>6, <1>7, OneGoesOn DEF Uploading

LEMMA PutKeeps ==
  ASSUME BlobsInv, NEW c \in BlobCallers,
         TooLarge(c) \/ Mismatch(c) \/ Accept(c) \/ FillStaged(c) \/ TakeBack(c)
  PROVE  BlobsInv'
<1> DEFINE o == blobCall[c].op
<1>0. drafts \in [OpIds -> FileRecord] /\ object \in [OpIds -> FileRecord]
  BY DEF BlobsInv, BlobsType
<1>1. CASE TooLarge(c) \/ Mismatch(c)
  <2>1. /\ blobCall[c].pc = "body" /\ (Returns(c) \/ BlobGoesOn(c, "takeBack"))
        /\ UNCHANGED <<adapter, body, limit, drafts, object, sidecar, begun, read>>
    BY <1>1 DEF TooLarge, Mismatch, AllRead, BlobAt
  <2> QED
    BY <1>0, <2>1, ReturnsKeep, MovesKeep DEF Uploading
<1>2. CASE Accept(c)
  <2>1. /\ blobCall[c].pc = "body" /\ blobCall[c].got = body[o]
        /\ \/ BlobGoesOn(c, "fill") /\ drafts' = [drafts EXCEPT ![o] = File(0)]
           \/ BlobGoesOn(c, "staged") /\ drafts' = [drafts EXCEPT ![o] = File(body[o])]
        /\ UNCHANGED <<adapter, body, limit, object, sidecar, begun, read>>
    BY <1>2 DEF Accept, AllRead, BlobAt
  <2>2. o \in OpIds /\ body[o] \in Nat /\ body[o] <= limit
    BY <2>1, OfUpload DEF Uploading
  <2> HIDE DEF o
  <2>3. drafts' \in [OpIds -> FileRecord] /\ \A p \in OpIds \ {o} : drafts'[p] = drafts[p]
    BY <1>0, <2>1, <2>2, FileType
  <2>4. drafts' = [drafts EXCEPT ![o] = File(body[o])] => drafts'[o] = File(body[o])
    BY <1>0, <2>2
  <2> QED
    BY <1>0, <2>1, <2>2, <2>3, <2>4, MovesKeep DEF Uploading, o
<1>3. CASE FillStaged(c)
  <2>1. /\ blobCall[c].pc = "fill" /\ BlobGoesOn(c, "staged")
        /\ drafts' = [drafts EXCEPT ![o] = File(body[o])]
        /\ UNCHANGED <<adapter, body, limit, object, sidecar, begun, read>>
    BY <1>3 DEF FillStaged, BlobAt
  <2>2. o \in OpIds /\ body[o] \in Nat /\ body[o] <= limit
    BY <2>1, OfUpload DEF Uploading
  <2> HIDE DEF o
  <2>3. /\ drafts' \in [OpIds -> FileRecord] /\ \A p \in OpIds \ {o} : drafts'[p] = drafts[p]
        /\ drafts'[o] = File(body[o])
    BY <1>0, <2>1, <2>2, FileType
  <2> QED
    BY <1>0, <2>1, <2>2, <2>3, MovesKeep DEF Uploading, o
<1>4. CASE TakeBack(c)
  <2>1. /\ blobCall[c].pc = "takeBack" /\ Returns(c) /\ drafts' = [drafts EXCEPT ![o] = Absent]
        /\ UNCHANGED <<adapter, body, limit, object, sidecar, begun, read>>
    BY <1>4 DEF TakeBack, BlobAt
  <2> HIDE DEF o
  <2>2. drafts' \in [OpIds -> FileRecord] /\ \A p \in OpIds \ {o} : drafts'[p] = drafts[p]
    BY <1>0, <2>1, FileType
  <2> QED
    BY <1>0, <2>1, <2>2, ReturnsKeep DEF Uploading, o
<1> QED
  BY <1>1, <1>2, <1>3, <1>4

\* What a promotion leaves at the final key is the whole body.
LEMMA PromoteKeeps ==
  ASSUME BlobsInv, NEW c \in BlobCallers,
         \/ PromoteFs(c) \/ PromoteOpfs(c) \/ PromoteS3(c) \/ PromoteR2(c) \/ Pour(c)
         \/ WriteSidecar(c) \/ PutFinal(c) \/ Unstage(c)
  PROVE  BlobsInv'
<1> DEFINE o == blobCall[c].op
<1>0. drafts \in [OpIds -> FileRecord] /\ object \in [OpIds -> FileRecord]
  BY DEF BlobsInv, BlobsType
<1>1. CASE PromoteFs(c) \/ PromoteS3(c) \/ PutFinal(c)
  <2>1. /\ blobCall[c].pc \in {"staged", "put"} /\ (BlobGoesOn(c, "sidecar") \/ BlobGoesOn(c, "unstage"))
        /\ object' = [object EXCEPT ![o] = drafts[o]]
        /\ drafts' = drafts \/ drafts' = [drafts EXCEPT ![o] = Absent]
        /\ UNCHANGED <<adapter, body, limit, begun, read>>
    BY <1>1 DEF PromoteFs, PromoteS3, PutFinal, BlobAt
  <2>2. o \in OpIds /\ body[o] <= limit /\ drafts[o] \in FileRecord /\ drafts[o].bytes = body[o]
    BY <2>1, OfUpload DEF Uploading
  <2> HIDE DEF o
  <2>3. /\ drafts' \in [OpIds -> FileRecord] /\ object' \in [OpIds -> FileRecord]
        /\ \A p \in OpIds \ {o} : drafts'[p] = drafts[p] /\ object'[p] = object[p]
        /\ object'[o] = drafts[o]
    BY <1>0, <2>1, <2>2, FileType
  <2>4. \A p \in OpIds : object'[p].there => object'[p] = object[p] \/ Measured(p, object'[p].bytes)
    BY <2>2, <2>3 DEF Measured
  <2> QED
    BY <2>1, <2>3, <2>4, MovesKeep DEF Uploading, o
<1>2. CASE PromoteOpfs(c)
  <2>1. /\ adapter = "opfs" /\ blobCall[c].pc = "staged" /\ BlobGoesOn(c, "pour")
        /\ object' = object \/ object' = [object EXCEPT ![o] = File(0)]
        /\ UNCHANGED <<adapter, body, limit, drafts, begun, read>>
    BY <1>2 DEF PromoteOpfs, BlobAt
  <2>2. o \in OpIds /\ body[o] <= limit /\ drafts[o] = File(body[o])
    BY <2>1, OfUpload DEF Uploading
  <2> HIDE DEF o
  <2>3. /\ object' \in [OpIds -> FileRecord]
        /\ \A p \in OpIds : object'[p] = object[p] \/ object'[p] = File(0)
    BY <1>0, <2>1, <2>2, FileType
  <2>4. \A p \in OpIds : object'[p].there => object'[p] = object[p] \/ Measured(p, object'[p].bytes)
    BY <2>1, <2>3, FileType DEF Measured
  <2> QED
    BY <1>0, <2>1, <2>2, <2>3, <2>4, MovesKeep DEF Uploading, o
<1>3. CASE PromoteR2(c)
  <2>1. /\ blobCall[c].pc = "staged" /\ BlobGoesOn(c, "put")
        /\ UNCHANGED <<adapter, body, limit, object, drafts, begun, read>>
    BY <1>3 DEF PromoteR2, BlobAt
  <2>2. body[o] <= limit /\ drafts[o] = File(body[o])
    BY <2>1, OfUpload DEF Uploading
  <2> QED
    BY <1>0, <2>1, <2>2, MovesKeep DEF Uploading
<1>4. CASE Pour(c)
  <2>1. /\ blobCall[c].pc = "pour" /\ UNCHANGED <<adapter, body, limit, drafts, begun, read>>
        /\ \/ BlobGoesOn(c, "sidecar") /\ object' = [object EXCEPT ![o] = File(drafts[o].bytes)]
           \/ Returns(c) /\ UNCHANGED object
    BY <1>4 DEF Pour, BlobAt
  <2>2. /\ o \in OpIds /\ body[o] <= limit /\ body[o] \in Nat /\ drafts[o].bytes = body[o]
    BY <2>1, OfUpload DEF Uploading
  <2> HIDE DEF o
  <2>3. CASE BlobGoesOn(c, "sidecar") /\ object' = [object EXCEPT ![o] = File(drafts[o].bytes)]
    <3>1. /\ object' \in [OpIds -> FileRecord] /\ object'[o].bytes = body[o]
          /\ \A p \in OpIds \ {o} : object'[p] = object[p]
      BY <1>0, <2>2, <2>3, FileType
    <3>2. \A p \in OpIds : object'[p].there => object'[p] = object[p] \/ Measured(p, object'[p].bytes)
      BY <2>2, <3>1 DEF Measured
    <3> QED
      BY <1>0, <2>1, <2>3, <3>1, <3>2, MovesKeep DEF Uploading, o
  <2> QED
    BY <1>0, <2>1, <2>3, ReturnsKeep
<1>5. CASE WriteSidecar(c)
  <2>1. /\ blobCall[c].pc = "sidecar" /\ (BlobGoesOn(c, "unstage") \/ Returns(c))
        /\ UNCHANGED <<adapter, body, limit, object, drafts, begun, read>>
    BY <1>5 DEF WriteSidecar, BlobAt
  <2> QED
    BY <1>0, <2>1, ReturnsKeep, MovesKeep DEF Uploading
<1>6. CASE Unstage(c)
  <2>1. /\ blobCall[c].pc = "unstage" /\ Returns(c)
        /\ drafts' = drafts \/ drafts' = [drafts EXCEPT ![o] = Absent]
        /\ UNCHANGED <<adapter, body, limit, object, begun, read>>
    BY <1>6 DEF Unstage, BlobAt
  <2> HIDE DEF o
  <2>2. drafts' \in [OpIds -> FileRecord] /\ \A p \in OpIds \ {o} : drafts'[p] = drafts[p]
    BY <1>0, <2>1, FileType
  <2> QED
    BY <1>0, <2>1, <2>2, ReturnsKeep DEF Uploading, o
<1> QED
  BY <1>1, <1>2, <1>3, <1>4, <1>5, <1>6

--------------------------------------------------------------------------------
(* Deletions, readers, listings and a process that dies.                      *)

\* A call that is no upload starts, from rest.
LEMMA StartsKeep ==
  ASSUME BlobsInv, NEW c \in BlobCallers, blobCall[c].pc = "idle",
         NEW k \in BlobCallRecord, k.pc \notin Uploading, blobCall' = [blobCall EXCEPT ![c] = k],
         k.pc = "open" => k.op \in OpIds /\ Measured(k.op, k.total),
         UNCHANGED <<adapter, body, limit, drafts, begun, read>>, object' \in [OpIds -> FileRecord],
         \A o \in OpIds : object'[o].there => object'[o] = object[o]
  PROVE  BlobsInv'
<1>1. Sound(k)'
  BY DEF Sound, Measured, Uploading
<1>2. ShownInv'
  BY ShownStays DEF BlobsInv
<1>3. drafts' \in [OpIds -> FileRecord] /\ begun' \subseteq OpIds
  BY DEF BlobsInv, BlobsType
<1> QED
  BY <1>1, <1>2, <1>3, OneGoesOn

LEMMA DeleteKeeps ==
  ASSUME BlobsInv, NEW c \in BlobCallers, NEW o \in OpIds, Delete(c, o) \/ DeleteObject(c, o)
  PROVE  BlobsInv'
<1>1. /\ blobCall[c].pc = "idle" /\ object' = [object EXCEPT ![o] = Absent]
      /\ UNCHANGED <<adapter, body, limit, drafts, begun, read>>
  BY DEF Delete, DeleteObject, BlobAt
<1>2. /\ object' \in [OpIds -> FileRecord] /\ \A p \in OpIds : object'[p].there => object'[p] = object[p]
  BY <1>1, FileType DEF BlobsInv, BlobsType
<1>3. CASE Delete(c, o)
  <2> DEFINE k == [NoBlobCall EXCEPT !.pc = "drop", !.op = o]
  <2>1. k \in BlobCallRecord /\ k.pc = "drop"
    BY AnyRange DEF NoBlobCall, BlobCallRecord, Places
  <2>2. blobCall' = [blobCall EXCEPT ![c] = k]
    BY <1>3 DEF Delete
  <2> HIDE DEF k
  <2> QED
    BY <1>1, <1>2, <2>1, <2>2, StartsKeep DEF Uploading
<1>4. CASE DeleteObject(c, o)
  <2>1. PICK k \in BlobCallRecord : k = blobCall[c]
    BY DEF BlobsInv, BlobsType
  <2>2. blobCall' = [blobCall EXCEPT ![c] = k]
    BY <1>4, <2>1 DEF DeleteObject, BlobsInv, BlobsType
  <2> QED
    BY <1>1, <1>2, <2>1, <2>2, StartsKeep DEF Uploading
<1> QED
  BY <1>3, <1>4

LEMMA ReturnsFrom ==
  ASSUME BlobsInv, NEW c \in BlobCallers, Returns(c), UNCHANGED <<adapter, body, limit, object, drafts, begun, read>>
  PROVE  BlobsInv'
  BY ReturnsKeep DEF BlobsInv, BlobsType

LEMMA ListKeeps ==
  ASSUME BlobsInv, NEW c \in BlobCallers, DropSidecar(c) \/ ListNames(c) \/ ListOne(c)
  PROVE  BlobsInv'
<1>0. blobCall[c] \in BlobCallRecord /\ object \in [OpIds -> FileRecord]
  BY DEF BlobsInv, BlobsType
<1>1. CASE DropSidecar(c)
  BY <1>1, ReturnsFrom DEF DropSidecar
<1>2. CASE ListNames(c)
  <2>1. PICK k : k = [NoBlobCall EXCEPT !.pc = "list", !.names = {o \in OpIds : drafts[o].there}]
    OBVIOUS
  <2>2. k \in BlobCallRecord /\ k.pc = "list"
    BY <2>1, AnyRange DEF NoBlobCall, BlobCallRecord, Places
  <2> QED
    BY <1>0, <1>2, <2>1, <2>2, StartsKeep DEF ListNames, BlobAt, Uploading
<1>3. CASE ListOne(c)
  <2>1. PICK o \in blobCall[c].names :
          /\ blobCall[c].pc = "list"
          /\ Returns(c) \/ blobCall' = [blobCall EXCEPT ![c].names = @ \ {o}]
          /\ UNCHANGED <<adapter, body, limit, drafts, object, sidecar, begun, read>>
    BY <1>3 DEF ListOne, BlobAt
  <2>2. CASE Returns(c)
    BY <2>1, <2>2, ReturnsFrom
  <2>3. CASE blobCall' = [blobCall EXCEPT ![c].names = @ \ {o}]
    <3>1. PICK k : k = [blobCall[c] EXCEPT !.names = blobCall[c].names \ {o}]
      OBVIOUS
    <3>2. k \in BlobCallRecord /\ k.pc = "list" /\ k.op = blobCall[c].op
      BY ONLY <1>0, <2>1, <3>1 DEF BlobCallRecord
    <3>3. blobCall' = [blobCall EXCEPT ![c] = k]
      BY <2>3, <3>1
    <3>4. Sound(k)'
      BY <3>2 DEF Sound, Uploading
    <3>5. ShownInv'
      BY <2>1, ShownStays DEF BlobsInv
    <3>6. drafts' \in [OpIds -> FileRecord] /\ object' \in [OpIds -> FileRecord] /\ begun' \subseteq OpIds
      BY <2>1 DEF BlobsInv, BlobsType
    <3> QED
      BY <2>1, <3>2, <3>3, <3>4, <3>5, <3>6, OneGoesOn DEF Uploading
  <2> QED
    BY <2>1, <2>2, <2>3
<1> QED
  BY <1>1, <1>2, <1>3

LEMMA OpenKeeps ==
  ASSUME BlobsInv, NEW c \in BlobCallers, NEW o \in OpIds, OpenSize(c, o) \/ OpenAtOnce(c, o)
  PROVE  BlobsInv'
<1>0. /\ blobCall[c] \in BlobCallRecord /\ object \in [OpIds -> FileRecord] /\ object[o].bytes \in Nat
      /\ object[o].there => Measured(o, object[o].bytes)
  BY DEF BlobsInv, BlobsType, ObjectInv, FileRecord
<1>1. CASE OpenSize(c, o)
  <2>1. PICK range \in Ranges :
          blobCall' = [blobCall EXCEPT ![c] = [NoBlobCall EXCEPT !.pc = "open", !.op = o,
                                                 !.range = range, !.total = object[o].bytes]]
    BY <1>1 DEF OpenSize
  <2>2. PICK n : n = object[o].bytes
    OBVIOUS
  <2> DEFINE k == [NoBlobCall EXCEPT !.pc = "open", !.op = o, !.range = range, !.total = n]
  <2>3. k \in BlobCallRecord /\ k.pc = "open" /\ k.op = o /\ k.total = n
    BY <1>0, <2>2 DEF NoBlobCall, BlobCallRecord, Places
  <2>4. blobCall' = [blobCall EXCEPT ![c] = k]
    BY <2>1, <2>2
  <2> HIDE DEF k
  <2> QED
    BY <1>0, <1>1, <2>2, <2>3, <2>4, StartsKeep DEF OpenSize, BlobAt, Uploading
<1>2. CASE OpenAtOnce(c, o)
  <2>1. PICK range \in Ranges : read' = Opened(o, range, object[o].bytes)
    BY <1>2 DEF OpenAtOnce
  <2>2. /\ object[o].there /\ blobCall[c].pc = "idle"
        /\ UNCHANGED <<adapter, body, limit, drafts, object, begun, blobCall>>
    BY <1>2 DEF OpenAtOnce, BlobAt
  <2>3. ShownInv'
    BY <1>0, <2>1, <2>2 DEF ShownInv, Shown, Opened, AnswerFor, Measured
  <2>4. \A d \in BlobCallers : Sound(blobCall[d])'
    BY <2>2 DEF BlobsInv, Sound, Measured
  <2>5. BlobsType' /\ AloneInv' /\ ObjectInv'
    BY <2>2 DEF BlobsInv, BlobsType, AloneInv, ObjectInv, Measured
  <2> QED
    BY <2>3, <2>4, <2>5 DEF BlobsInv
<1> QED
  BY <1>1, <1>2

LEMMA OpenRestKeeps ==
  ASSUME BlobsInv, NEW c \in BlobCallers, OpenRest(c)
  PROVE  BlobsInv'
<1> DEFINE k == blobCall[c]
<1>1. /\ k.pc = "open" /\ Returns(c) /\ UNCHANGED <<adapter, body, limit, drafts, object, begun>>
      /\ read' = NoRead \/ read' = Opened(k.op, k.range, k.total)
  BY DEF OpenRest, BlobAt
<1>2. k.op \in OpIds /\ k.range \in Ranges /\ k.total \in Nat /\ Measured(k.op, k.total)
  BY <1>1 DEF BlobsInv, BlobsType, BlobCallRecord, Sound
<1> HIDE DEF k
<1>3. ShownInv'
  <2>1. Shown(Opened(k.op, k.range, k.total))
    BY <1>2 DEF Shown, Opened
  <2>2. \A r : Shown(r)' <=> Shown(r)
    BY <1>1 DEF Shown, Measured, AnswerFor
  <2> QED
    BY <1>1, <2>1, <2>2 DEF ShownInv, NoRead
<1>4. /\ blobCall' = [blobCall EXCEPT ![c] = NoBlobCall] /\ NoBlobCall.pc \notin Uploading
      /\ Sound(NoBlobCall)'
  BY <1>1 DEF Returns, NoBlobCall, Uploading, Sound
<1>5. drafts' \in [OpIds -> FileRecord] /\ object' \in [OpIds -> FileRecord] /\ begun' \subseteq OpIds
  BY <1>1 DEF BlobsInv, BlobsType
<1> QED
  BY <1>1, <1>3, <1>4, <1>5, NoBlobCallType, OneGoesOn

LEMMA DieKeeps ==
  ASSUME BlobsInv, Die
  PROVE  BlobsInv'
<1>1. /\ blobCall' = [c \in BlobCallers |-> NoBlobCall] /\ read' = NoRead
      /\ UNCHANGED <<adapter, body, limit, drafts, object, sidecar, begun>>
  BY DEF Die
<1>2. BlobsType' /\ ObjectInv'
  BY <1>1, NoBlobCallType DEF BlobsInv, BlobsType, ObjectInv, Measured
<1> QED
  BY <1>1, <1>2 DEF BlobsInv, Sound, AloneInv, ShownInv, NoRead, NoBlobCall, Uploading

LEMMA BlobsSteps ==
  ASSUME BlobsInv, [BlobsNext]_blobsVars
  PROVE  BlobsInv'
<1>1. CASE UNCHANGED blobsVars
  <2>1. UNCHANGED <<adapter, body, limit, drafts, object, begun, blobCall, read>>
    BY <1>1 DEF blobsVars
  <2>2. ShownInv'
    BY <2>1, ShownStays DEF BlobsInv
  <2> QED
    BY <2>1, <2>2 DEF BlobsInv, BlobsType, Sound, AloneInv, ObjectInv, Measured
<1> QED
  BY <1>1, BeginsKeeps, ChunkKeeps, PutKeeps, PromoteKeeps, DeleteKeeps, ListKeeps, OpenKeeps,
     OpenRestKeeps, DieKeeps DEF BlobsNext

--------------------------------------------------------------------------------
\* The answer to a range cut to an object, unless the adapter cannot be held to it.
LEMMA Resolved ==
  ASSUME NEW range \in Ranges, NEW n \in Nat, range.kind \in {"closed", "open"},
         ~(range.kind = "closed" /\ range.first > range.last) \/ adapter # "s3"
  PROVE  LET a == AnswerFor(range, n)
         IN  a.bytes = Wanted(range, n) /\ a.status # "error" /\ (a.status = "416" <=> a.bytes = {})
<1> DEFINE cut == Resolve(range, n)
<1>1. /\ range.first \in Nat /\ range.last \in Int /\ (range.kind = "open" => range.last = -1)
      /\ (range.kind = "closed" => range.last \in Nat)
  BY DEF Ranges, NoRange
<1>2. cut.first = range.first /\ cut.last = IF range.last = -1 \/ range.last >= n THEN n - 1 ELSE range.last
  BY <1>1 DEF Resolve
<1>3. cut.kind = "unsatisfiable" <=> cut.first > cut.last \/ cut.first >= n
  BY DEF Resolve
<1>4. AnswerFor(range, n) = IF cut.kind = "unsatisfiable" THEN [status |-> "416", bytes |-> {}]
                            ELSE [status |-> "206", bytes |-> cut.first..cut.last]
  BY DEF AnswerFor, Malformed
<1> HIDE DEF cut
<1>5. Wanted(range, n) = {i \in 0..(n - 1) : cut.first <= i /\ i <= cut.last}
  <2>1. CASE range.kind = "closed"
    BY <1>1, <1>2, <2>1 DEF Wanted
  <2>2. CASE range.kind = "open"
    BY <1>1, <1>2, <2>2 DEF Wanted
  <2> QED
    BY <2>1, <2>2
<1>6. cut.first \in Nat /\ cut.last \in Int /\ cut.last <= n - 1
  BY <1>1, <1>2
<1>7. CASE cut.kind = "unsatisfiable"
  BY <1>3, <1>4, <1>5, <1>6, <1>7
<1>8. CASE cut.kind # "unsatisfiable"
  <2>1. cut.first..cut.last = {i \in 0..(n - 1) : cut.first <= i /\ i <= cut.last}
    BY <1>6
  <2>2. cut.first \in cut.first..cut.last
    BY <1>3, <1>6, <1>8
  <2> QED
    BY <1>4, <1>5, <1>8, <2>1, <2>2
<1> QED
  BY <1>7, <1>8

\* For any number of uploads and calls, bodies and limits of any length, on each of the adapters,
\* and wherever a process dies: an open() is answered for the whole body, within its limit, and
\* with exactly the bytes asked for; but OPFS may show a file that is not filled yet (putStaged,
\* promote, delete, open of the blob adapters).
THEOREM BlobsReadsTrue == BlobsAssumption => (BlobsSpec => []ReadsTrue)
<1> SUFFICES ASSUME BlobsAssumption PROVE BlobsSpec => []ReadsTrue
  OBVIOUS
<1>1. BlobsInv => ReadsTrue
  <2> SUFFICES ASSUME BlobsInv, read.op # "none", ~KnownLimit(read)
               PROVE  /\ read.bytes = Wanted(read.range, read.total) /\ read.status # "error"
                      /\ read.range.kind # "none" => (read.status = "416" <=> read.bytes = {})
    BY DEF ReadsTrue, BlobsInv, ShownInv, Shown, Measured
  <2>1. Shown(read)
    BY DEF BlobsInv, ShownInv
  <2>2. read.range \in Ranges /\ read.total \in Nat
    BY <2>1 DEF Shown
  <2>3. read.range.kind \in {"none", "closed", "open", "suffix"}
    BY <2>2 DEF Ranges, NoRange
  <2>4. CASE read.range.kind = "none"
    BY <2>1, <2>2, <2>4 DEF Shown, AnswerFor, Wanted, KnownLimit
  <2>5. CASE read.range.kind \in {"closed", "open"}
    <3>1. ~(read.range.kind = "closed" /\ read.range.first > read.range.last) \/ adapter # "s3"
      BY DEF KnownLimit, Malformed
    <3> QED
      BY <2>1, <2>2, <2>5, <3>1, Resolved DEF Shown
  <2> QED
    BY <2>3, <2>4, <2>5 DEF KnownLimit
<1> QED
  BY <1>1, BlobsStart, BlobsSteps, PTL DEF BlobsSpec

================================================================================
