----------------------------- MODULE RealtimeProofs -----------------------------
(******************************************************************************)
(* Proofs about Realtime on SQLite, for every number of writers, connections, *)
(* topics, tokens and changes, every page and every queue.                    *)
(*                                                                            *)
(* SQLite runs one writer at a time, so changes commit in the order of their  *)
(* sequence numbers, and a page that was read keeps all rows up to its last   *)
(* one, whatever commits while the page is on its way.  Everything else       *)
(* follows from that: what is ahead of the watermark stays in the outbox, and *)
(* what is not has been handed out.                                           *)
(******************************************************************************)
EXTENDS Realtime, FiniteSetTheorems, WellFoundedInduction, TLAPS

Committed == Range(log)
Pumps     == Loops \cup {Drain}

\* The sets of the variables that say what is committed, read and owed.
FeedType ==
  /\ writing \in [Writers -> 0..MaxSeq] /\ lastSeq \in 0..MaxSeq
  /\ log \in Seq(Seqs) /\ watermark \in 0..MaxSeq
  /\ pump \in [Pumps -> SUBSET Seqs]
  /\ owed \in [Conns -> SUBSET (Topics \X Seqs)]

\* One writer at a time: the next number to commit is greater than every other.
Serial ==
  /\ \A w, v \in Writers : writing[w] # 0 /\ writing[v] # 0 => w = v
  /\ \A w \in Writers : writing[w] # 0 => writing[w] = lastSeq /\ lastSeq \notin Committed
  /\ \A s \in Committed : s <= lastSeq

\* What is read was committed.
Stored ==
  /\ outbox \subseteq Committed
  /\ \A l \in Pumps : pump[l] \subseteq Committed
  /\ watermark \in Committed \cup {0}

SerialInv == FeedType /\ Serial /\ Stored

\* A change that is owed is ahead of the watermark, and no page that is on its
\* way passes it over.
OwedAhead ==
  phase # "disposed" =>
    \A c \in Conns : \A o \in owed[c] :
      /\ o[2] > watermark /\ o[2] \in outbox
      /\ \A l \in Pumps : \A r \in pump[l] : o[2] <= r => o[2] \in pump[l]

OwedInv == SerialInv /\ OwedAhead

\* What left the outbox, or is behind the watermark, has been handed out.
Kept ==
  /\ seen \subseteq Committed
  /\ Committed \subseteq outbox \cup seen
  /\ handed \in Committed \cup {0}
  /\ phase # "disposed" => watermark = handed /\ \A m \in Committed : m <= watermark => m \in seen

\* The page a pump has read is new, and lacks nothing up to its last row.
Whole ==
  \A l \in Loops : \A r \in pump[l] :
    r > handed /\ \A m \in Committed : m <= r => m \in seen \cup pump[l]

FeedInv == SerialInv /\ Kept /\ Whole

--------------------------------------------------------------------------------
(* Lemmas about pages and the log.                                            *)

USE DEF vars, dbVars, feedVars, connVars, Pumps

\* The last row of a page.
LEMMA MaxOfPage ==
  ASSUME NEW S \in SUBSET Seqs, S # {}
  PROVE  Max(S) \in S /\ \A s \in S : s <= Max(S)
<1> USE DEF Seqs
<1>0. MaxSeq \in Nat
  BY BoundAssumption
<1> DEFINE T == {n \in Nat : MaxSeq - n \in S}
<1>1. T \subseteq Nat /\ T # {}
  <2>1. PICK s \in S : TRUE
    OBVIOUS
  <2>2. s \in 1..MaxSeq
    OBVIOUS
  <2>3. MaxSeq - s \in Nat /\ MaxSeq - (MaxSeq - s) = s
    BY <1>0, <2>2
  <2> QED
    BY <2>1, <2>3
<1>2. PICK n \in T : \A m \in T : ~(<<m, n>> \in OpToRel(<, Nat))
  <2> HIDE DEF T
  <2> QED
    BY <1>1, NatLessThanWellFounded, WFMin
<1>3. \A m \in T : ~(m < n)
  BY <1>1, <1>2 DEF OpToRel
<1>4. MaxSeq - n \in S /\ \A s \in S : s <= MaxSeq - n
  <2>1. n \in Nat /\ MaxSeq - n \in S
    OBVIOUS
  <2>2. ASSUME NEW s \in S PROVE s <= MaxSeq - n
    <3>1. s \in 1..MaxSeq
      OBVIOUS
    <3>2. MaxSeq - s \in T
      <4>1. MaxSeq - s \in Nat /\ MaxSeq - (MaxSeq - s) = s
        BY <1>0, <3>1
      <4> QED
        BY <4>1
    <3> QED
      BY <1>0, <1>3, <2>1, <3>1, <3>2
  <2> QED
    BY <2>1, <2>2
<1>5. \A s \in S : MaxSeq - n >= s
  BY <1>0, <1>4
<1>6. Max(S) \in S /\ \A s \in S : Max(S) >= s
  BY <1>4, <1>5 DEF Max
<1> QED
  BY <1>0, <1>6

\* A page lacks no row before one of its own.
LEMMA PageWhole ==
  ASSUME outbox \subseteq Seqs, watermark \in 0..MaxSeq,
         NEW r \in Unread, NEW m \in outbox, m > watermark, m <= r
  PROVE  m \in Unread
<1> USE DEF Seqs
<1>0. Page \in Nat /\ MaxSeq \in Nat
  BY BoundAssumption
<1> DEFINE unread == {s \in outbox : s > watermark}
           Before(s) == {t \in unread : t < s}
<1>1. r \in outbox /\ Cardinality(Before(r)) < Page
  BY DEF Unread
<1>2. IsFiniteSet(Before(r))
  <2>1. Before(r) \in SUBSET (1..MaxSeq)
    OBVIOUS
  <2>2. IsFiniteSet(1..MaxSeq)
    BY <1>0, FS_Interval
  <2> HIDE DEF Before
  <2> QED
    BY <2>1, <2>2, FS_Subset
<1>3. Before(m) \in SUBSET Before(r)
  <2>1. m \in 1..MaxSeq /\ r \in 1..MaxSeq
    BY <1>1
  <2>2. \A t \in unread : t \in 1..MaxSeq
    OBVIOUS
  <2>3. \A t \in unread : t < m => t < r
    BY <1>0, <2>1, <2>2
  <2> QED
    BY <2>3
<1>4. Cardinality(Before(m)) <= Cardinality(Before(r))
  BY <1>2, <1>3, FS_Subset
<1>5. Cardinality(Before(m)) \in Nat /\ Cardinality(Before(r)) \in Nat
  BY <1>2, <1>3, FS_Subset, FS_CardinalityType
<1>6. Cardinality(Before(m)) < Page
  BY <1>0, <1>1, <1>4, <1>5
<1> QED
  BY <1>6 DEF Unread

LEMMA UnreadRows == Unread \subseteq outbox /\ \A r \in Unread : r > watermark
  BY DEF Unread

LEMMA LogAppended ==
  ASSUME log \in Seq(Seqs), NEW n \in Seqs, log' = Append(log, n)
  PROVE  log' \in Seq(Seqs) /\ Committed' = Committed \cup {n}
<1>1. log' \in Seq(Seqs) /\ Len(log') = Len(log) + 1 /\ Len(log) \in Nat
  OBVIOUS
<1>2. DOMAIN log = 1..Len(log) /\ DOMAIN log' = 1..(Len(log) + 1)
  BY <1>1
<1>3. log'[Len(log) + 1] = n /\ \A i \in 1..Len(log) : log'[i] = log[i]
  OBVIOUS
<1> QED
  BY <1>1, <1>2, <1>3 DEF Committed, Range

LEMMA CommittedSeqs == log \in Seq(Seqs) => Committed \subseteq Seqs
<1> SUFFICES ASSUME log \in Seq(Seqs) PROVE Committed \subseteq Seqs
  OBVIOUS
<1>1. DOMAIN log = 1..Len(log) /\ \A i \in 1..Len(log) : log[i] \in Seqs
  OBVIOUS
<1> QED
  BY <1>1 DEF Committed, Range

--------------------------------------------------------------------------------
(* Lemmas about the actions.                                                  *)

OwedType == [Conns -> SUBSET (Topics \X Seqs)]

\* A step that leaves the log and the writers alone.
LEMMA SerialKept ==
  ASSUME SerialInv, UNCHANGED <<writing, lastSeq, log>>, outbox' \subseteq outbox,
         pump' \in [Pumps -> SUBSET Seqs], \A l \in Pumps : pump'[l] \subseteq Committed,
         watermark' \in Committed \cup {0}, owed' \in OwedType
  PROVE  SerialInv'
<1>1. Committed' = Committed /\ Committed \subseteq Seqs
  BY CommittedSeqs DEF SerialInv, FeedType, Committed
<1>2. watermark' \in 0..MaxSeq
  BY <1>1, BoundAssumption DEF Seqs
<1>3. FeedType'
  BY <1>2 DEF SerialInv, FeedType, OwedType
<1>4. Serial' /\ Stored'
  BY <1>1 DEF SerialInv, Serial, Stored
<1> QED
  BY <1>3, <1>4 DEF SerialInv

\* A step of a connection touches no table and no pump, and owes nothing new.
LEMMA ClientEffect ==
  ASSUME owed \in OwedType, NEW c \in Conns, Client(c)
  PROVE  /\ UNCHANGED <<dbVars, feedVars, phase>>
         /\ owed' \in OwedType /\ \A d \in Conns : owed'[d] \subseteq owed[d]
<1>1. ASSUME NEW ts, Forget(c, ts)
      PROVE  owed' \in OwedType /\ \A d \in Conns : owed'[d] \subseteq owed[d]
  BY <1>1 DEF Forget, OwedType
<1>2. \/ UNCHANGED owed
      \/ \E ts : Forget(c, ts)
  BY DEF Client, Connect, Join, Leave, Present, Verified, Refused, Tick, Acknowledge
<1>3. UNCHANGED <<dbVars, feedVars, phase>>
  BY DEF Client, Connect, Join, Leave, Present, Verified, Refused, Tick, Acknowledge
<1> QED
  BY <1>1, <1>2, <1>3

\* An answered page moves the watermark to its last row and clears what it held.
LEMMA AnswerEffect ==
  ASSUME SerialInv, NEW l \in Loops, PumpAnswer(l)
  PROVE  /\ UNCHANGED <<dbVars, publish, phase>>
         /\ pump[l] # {} /\ pump[l] \in SUBSET Seqs
         /\ watermark' = Max(pump[l]) /\ handed' = Max(pump[l]) /\ seen' = seen \cup pump[l]
         /\ Max(pump[l]) \in pump[l] /\ \A r \in pump[l] : r <= Max(pump[l])
         /\ pump' \in [Pumps -> SUBSET Seqs] /\ pump' = [pump EXCEPT ![l] = {}]
         /\ owed' \in OwedType
         /\ \A c \in Conns : owed'[c] \subseteq {o \in owed[c] : o[2] \notin pump[l]}
<1>1. pump[l] # {} /\ pump[l] \in SUBSET Seqs
  BY DEF PumpAnswer, SerialInv, FeedType
<1>2. Max(pump[l]) \in pump[l] /\ \A r \in pump[l] : r <= Max(pump[l])
  BY <1>1, MaxOfPage
<1>3. /\ UNCHANGED <<dbVars, publish, phase>>
      /\ watermark' = Max(pump[l]) /\ handed' = Max(pump[l]) /\ seen' = seen \cup pump[l]
      /\ pump' = [pump EXCEPT ![l] = {}]
  BY DEF PumpAnswer
<1>4. pump' \in [Pumps -> SUBSET Seqs]
  BY <1>3 DEF SerialInv, FeedType
<1>5. /\ owed' \in OwedType
      /\ \A c \in Conns : owed'[c] \subseteq {o \in owed[c] : o[2] \notin pump[l]}
  BY DEF PumpAnswer, SerialInv, FeedType, OwedType
<1> QED
  BY <1>1, <1>2, <1>3, <1>4, <1>5

\* A commit: on SQLite its number is greater than every committed one.
LEMMA CommitEffect ==
  ASSUME SerialInv, Db = "sqlite", NEW w \in Writers, Commit(w)
  PROVE  /\ writing[w] \in Seqs /\ writing[w] = lastSeq
         /\ \A m \in Committed : m < writing[w]
         /\ Committed' = Committed \cup {writing[w]} /\ log' \in Seq(Seqs)
         /\ log' = Append(log, writing[w])
         /\ outbox' = outbox \cup {writing[w]}
         /\ UNCHANGED <<lastSeq, feedVars, phase>>
         /\ owed' \in OwedType
         /\ \A c \in Conns : \A o \in owed'[c] : o \in owed[c] \/ o[2] = writing[w]
<1>1. writing[w] \in Seqs /\ writing[w] = lastSeq /\ lastSeq \notin Committed
  BY BoundAssumption DEF Commit, SerialInv, FeedType, Serial, Seqs
<1>2. \A m \in Committed : m \in Seqs /\ m <= lastSeq
  BY CommittedSeqs DEF SerialInv, FeedType, Serial
<1>3. \A m \in Committed : m < writing[w]
  BY <1>1, <1>2 DEF Seqs
<1>4. log \in Seq(Seqs) /\ log' = Append(log, writing[w])
  BY DEF Commit, SerialInv, FeedType
<1>5. Committed' = Committed \cup {writing[w]} /\ log' \in Seq(Seqs)
  BY <1>1, <1>4, LogAppended
<1>6. outbox' = outbox \cup {writing[w]} /\ UNCHANGED <<lastSeq, feedVars, phase>>
  BY DEF Commit
<1>7. owed' = [c \in Conns |-> owed[c] \cup
                {<<t, writing[w]>> : t \in {u \in Topics : Joined(c, u) /\ Public(writing[w])}}]
  BY DEF Commit
<1>8. /\ owed' \in OwedType
      /\ \A c \in Conns : \A o \in owed'[c] : o \in owed[c] \/ o[2] = writing[w]
  BY <1>1, <1>7 DEF SerialInv, FeedType, OwedType
<1> QED
  BY <1>1, <1>3, <1>4, <1>5, <1>6, <1>8

\* The steps that end a transaction without a commit.
LEMMA UndoneEffect ==
  ASSUME SerialInv, Db = "sqlite", Restart \/ \E w \in Writers : Rollback(w)
  PROVE  /\ writing' \in [Writers -> {0}] /\ lastSeq' \in 0..MaxSeq
         /\ \A s \in Committed : s <= lastSeq'
         /\ UNCHANGED <<log, outbox>>
<1>0. MaxSeq \in Nat /\ lastSeq \in 0..MaxSeq /\ \A m \in Committed : m \in 1..MaxSeq
  BY BoundAssumption, CommittedSeqs DEF SerialInv, FeedType, Seqs
<1>1. ASSUME NEW w \in Writers, writing[w] # 0
      PROVE  lastSeq - 1 \in 0..MaxSeq /\ \A s \in Committed : s <= lastSeq - 1
  <2>1. lastSeq # 0 /\ lastSeq \notin Committed /\ \A s \in Committed : s <= lastSeq
    BY <1>1 DEF SerialInv, Serial
  <2> QED
    BY <1>0, <2>1
<1>2. CASE Restart
  BY <1>0, <1>1, <1>2 DEF Restart, SerialInv, Serial
<1>3. ASSUME NEW w \in Writers, Rollback(w)
      PROVE  /\ writing' \in [Writers -> {0}] /\ lastSeq' \in 0..MaxSeq
             /\ \A s \in Committed : s <= lastSeq'
             /\ UNCHANGED <<log, outbox>>
  <2>1. writing[w] # 0 /\ lastSeq' = lastSeq - 1 /\ UNCHANGED <<log, outbox>>
        /\ writing' = [writing EXCEPT ![w] = 0]
    BY <1>3 DEF Rollback
  <2>2. \A v \in Writers : writing'[v] = 0
    BY <2>1 DEF SerialInv, FeedType, Serial
  <2>3. writing' \in [Writers -> {0}]
    BY <2>1, <2>2 DEF SerialInv, FeedType
  <2> QED
    BY <1>1, <2>1, <2>3
<1> QED
  BY <1>2, <1>3

LEMMA RangeEmpty == Range(<<>>) = {}
  BY DEF Range

LEMMA SerialInit == Init => SerialInv
<1> SUFFICES ASSUME Init PROVE SerialInv
  OBVIOUS
<1>1. Committed = {}
  BY RangeEmpty DEF Init, Committed
<1>2. FeedType
  BY BoundAssumption DEF Init, FeedType
<1>3. Serial /\ Stored
  BY <1>1 DEF Init, Serial, Stored
<1> QED
  BY <1>2, <1>3 DEF SerialInv

LEMMA SerialNext ==
  ASSUME SerialInv, Db = "sqlite", [Next]_vars
  PROVE  SerialInv'
<1>0. /\ writing \in [Writers -> 0..MaxSeq] /\ lastSeq \in 0..MaxSeq /\ MaxSeq \in Nat
      /\ pump \in [Pumps -> SUBSET Seqs] /\ owed \in OwedType
      /\ \A l \in Pumps : pump[l] \subseteq Committed
      /\ outbox \subseteq Committed /\ watermark \in Committed \cup {0}
  BY BoundAssumption DEF SerialInv, FeedType, OwedType, Stored
<1>1. ASSUME NEW w \in Writers, NEW k \in Kinds, Write(w, k) PROVE SerialInv'
  <2>1. /\ \A v \in Writers : writing[v] = 0
        /\ lastSeq' = lastSeq + 1 /\ writing' = [writing EXCEPT ![w] = lastSeq + 1]
        /\ UNCHANGED <<outbox, log, watermark, pump, owed>> /\ lastSeq < MaxSeq
    BY <1>1 DEF Write
  <2>2. Committed' = Committed /\ Committed \subseteq Seqs
    BY <2>1, CommittedSeqs DEF Committed, SerialInv, FeedType
  <2>3. FeedType'
    BY <1>0, <2>1 DEF SerialInv, FeedType
  <2>4. Serial'
    BY <1>0, <2>1, <2>2 DEF SerialInv, Serial, Seqs
  <2>5. Stored'
    BY <2>1, <2>2 DEF SerialInv, Stored
  <2> QED
    BY <2>3, <2>4, <2>5 DEF SerialInv
<1>2. ASSUME NEW w \in Writers, Commit(w) PROVE SerialInv'
  <2>1. writing' = [writing EXCEPT ![w] = 0]
    BY <1>2 DEF Commit
  <2>2. /\ writing[w] \in Seqs /\ writing[w] = lastSeq
        /\ \A m \in Committed : m < writing[w]
        /\ Committed' = Committed \cup {writing[w]} /\ log' \in Seq(Seqs)
        /\ outbox' = outbox \cup {writing[w]}
        /\ UNCHANGED <<lastSeq, feedVars>> /\ owed' \in OwedType
    BY <1>2, CommitEffect
  <2>3. \A v \in Writers : writing'[v] = 0
    BY <1>0, <2>1, <2>2 DEF SerialInv, Serial, Seqs
  <2>4. FeedType'
    BY <1>0, <2>1, <2>2 DEF SerialInv, FeedType, OwedType
  <2>5. Serial'
    BY <1>0, <2>2, <2>3, CommittedSeqs DEF SerialInv, FeedType, Serial, Seqs
  <2>6. Stored'
    BY <2>2 DEF SerialInv, Stored
  <2> QED
    BY <2>4, <2>5, <2>6 DEF SerialInv
<1>3. CASE Restart \/ \E w \in Writers : Rollback(w)
  <2>1. /\ writing' \in [Writers -> {0}] /\ lastSeq' \in 0..MaxSeq
        /\ \A s \in Committed : s <= lastSeq'
        /\ UNCHANGED <<log, outbox>>
    BY <1>3, UndoneEffect
  <2>2. Committed' = Committed
    BY <2>1 DEF Committed
  <2>3. /\ pump' \in [Pumps -> SUBSET Seqs] /\ \A l \in Pumps : pump'[l] \subseteq Committed
        /\ watermark' \in {watermark, 0} /\ owed' \in OwedType
    BY <1>0, <1>3 DEF Restart, Rollback, OwedType
  <2>4. watermark' \in 0..MaxSeq
    BY <1>0, <2>3 DEF SerialInv, FeedType
  <2>5. FeedType'
    BY <1>0, <2>1, <2>3, <2>4 DEF SerialInv, FeedType, OwedType
  <2>6. Serial' /\ Stored'
    BY <1>0, <2>1, <2>2, <2>3 DEF Serial, Stored
  <2> QED
    BY <2>5, <2>6 DEF SerialInv
<1>4. CASE DropTrigger \/ CheckDrift \/ Gc
  BY <1>0, <1>4, SerialKept DEF DropTrigger, CheckDrift, Gc
<1>5. ASSUME NEW l \in Loops, PumpRead(l) PROVE SerialInv'
  <2>1. pump' = [pump EXCEPT ![l] = Unread] /\ Unread \subseteq Committed
        /\ UNCHANGED <<writing, lastSeq, log, outbox, watermark, owed>>
    BY <1>0, <1>5, UnreadRows DEF PumpRead
  <2>2. Unread \subseteq Seqs
    BY <2>1, CommittedSeqs DEF SerialInv, FeedType
  <2> QED
    BY <1>0, <2>1, <2>2, SerialKept
<1>6. ASSUME NEW l \in Loops, PumpAnswer(l) PROVE SerialInv'
  BY <1>0, <1>6, AnswerEffect, SerialKept
<1>7. ASSUME NEW l \in Pumps, PumpFail(l) PROVE SerialInv'
  BY <1>0, <1>7, SerialKept DEF PumpFail
<1>8. ASSUME NEW c \in Conns, Client(c) PROVE SerialInv'
  BY <1>0, <1>8, ClientEffect, SerialKept
<1>9. ASSUME NEW tok \in Tokens, Expire(tok) PROVE SerialInv'
  BY <1>0, <1>9, SerialKept DEF Expire
<1>10. CASE Dispose
  <2>1. Unread \subseteq Committed /\ Unread \subseteq Seqs
    BY <1>0, UnreadRows, CommittedSeqs DEF SerialInv, FeedType
  <2> QED
    BY <1>0, <1>10, <2>1, SerialKept DEF Dispose
<1>11. CASE Disposed
  <2>1. watermark' \in Committed \cup {0}
    BY <1>0, <1>11, MaxOfPage DEF Disposed
  <2> QED
    BY <1>0, <1>11, <2>1, SerialKept DEF Disposed
<1>12. CASE UNCHANGED vars
  BY <1>0, <1>12, SerialKept
<1> QED
  BY <1>1, <1>2, <1>3, <1>4, <1>5, <1>6, <1>7, <1>8, <1>9, <1>10, <1>11, <1>12 DEF Next

--------------------------------------------------------------------------------
(* Nothing is skipped, for any number of overlapping pumps.                   *)

LEMMA OwedInit == Init => OwedInv
  BY SerialInit DEF Init, OwedInv, OwedAhead

\* A step that owes nothing new, and neither moves the watermark nor reads.
LEMMA OwedKept ==
  ASSUME OwedInv, phase' \in {phase, "draining", "disposed"},
         phase # "disposed" \/ phase' = "disposed",
         phase' # "disposed" => outbox' = outbox /\ watermark' = watermark,
         \A l \in Pumps : pump'[l] \in {pump[l], {}},
         \A c \in Conns : owed'[c] \subseteq owed[c]
  PROVE  OwedAhead'
  BY DEF OwedInv, OwedAhead

\* A step that only reads a page.
LEMMA OwedRead ==
  ASSUME OwedInv, UNCHANGED <<outbox, watermark, owed>>, phase # "disposed",
         \A l \in Pumps : pump'[l] \in {pump[l], {}, Unread}
  PROVE  OwedAhead'
<1>0. outbox \subseteq Seqs /\ watermark \in 0..MaxSeq
  BY CommittedSeqs DEF OwedInv, SerialInv, FeedType, Stored
<1>1. ASSUME NEW c \in Conns, NEW o \in owed'[c]
      PROVE  /\ o[2] > watermark' /\ o[2] \in outbox'
             /\ \A l \in Pumps : \A r \in pump'[l] : o[2] <= r => o[2] \in pump'[l]
  <2>1. /\ o[2] > watermark /\ o[2] \in outbox
        /\ \A l \in Pumps : \A r \in pump[l] : o[2] <= r => o[2] \in pump[l]
    BY <1>1 DEF OwedInv, OwedAhead
  <2>2. \A r \in Unread : o[2] <= r => o[2] \in Unread
    BY <1>0, <2>1, PageWhole
  <2> QED
    BY <2>1, <2>2
<1> QED
  BY <1>1 DEF OwedAhead

LEMMA OwedNext ==
  ASSUME OwedInv, Db = "sqlite", [Next]_vars
  PROVE  OwedInv'
<1>0. SerialInv /\ SerialInv' /\ owed \in OwedType /\ pump \in [Pumps -> SUBSET Seqs]
  BY SerialNext DEF OwedInv, SerialInv, FeedType, OwedType
<1> SUFFICES OwedAhead'
  BY <1>0 DEF OwedInv
<1>1. CASE \/ DropTrigger \/ CheckDrift \/ UNCHANGED vars
           \/ \E w \in Writers, k \in Kinds : Write(w, k)
           \/ \E w \in Writers : Rollback(w)
           \/ \E tok \in Tokens : Expire(tok)
  <2>1. UNCHANGED <<phase, outbox, watermark, pump, owed>>
    BY <1>1 DEF DropTrigger, CheckDrift, Write, Rollback, Expire
  <2> QED
    BY <2>1, OwedKept
<1>2. ASSUME NEW w \in Writers, Commit(w) PROVE OwedAhead'
  <2>1. /\ outbox' = outbox \cup {writing[w]} /\ UNCHANGED <<feedVars, phase>>
        /\ writing[w] \in Seqs /\ \A m \in Committed : m < writing[w]
        /\ \A c \in Conns : \A o \in owed'[c] : o \in owed[c] \/ o[2] = writing[w]
    BY <1>0, <1>2, CommitEffect
  <2>2. writing[w] > watermark /\ \A l \in Pumps : \A r \in pump[l] : ~(writing[w] <= r)
    <3>1. \A l \in Pumps : \A r \in pump[l] : r \in Seqs /\ r < writing[w]
      BY <1>0, <2>1 DEF SerialInv, Stored
    <3>2. watermark \in 0..MaxSeq /\ (watermark = 0 \/ watermark < writing[w])
      BY <1>0, <2>1 DEF SerialInv, FeedType, Stored
    <3> QED
      BY <2>1, <3>1, <3>2 DEF Seqs
  <2> QED
    BY <2>1, <2>2 DEF OwedInv, OwedAhead
<1>3. CASE Gc
  <2>1. /\ UNCHANGED <<phase, watermark, pump, owed>>
        /\ \A s \in outbox : s > watermark => s \in outbox'
    BY <1>3 DEF Gc
  <2> QED
    BY <2>1 DEF OwedInv, OwedAhead
<1>4. ASSUME NEW l \in Loops, PumpRead(l) PROVE OwedAhead'
  <2>1. UNCHANGED <<outbox, watermark, owed>> /\ phase # "disposed"
        /\ pump' = [pump EXCEPT ![l] = Unread]
    BY <1>4 DEF PumpRead
  <2>2. \A m \in Pumps : pump'[m] \in {pump[m], Unread}
    BY <1>0, <2>1
  <2> QED
    BY <2>1, <2>2, OwedRead
<1>5. ASSUME NEW l \in Loops, PumpAnswer(l) PROVE OwedAhead'
  <2>1. /\ UNCHANGED <<outbox, phase>> /\ pump[l] \in SUBSET Seqs
        /\ watermark' = Max(pump[l]) /\ Max(pump[l]) \in pump[l]
        /\ pump' = [pump EXCEPT ![l] = {}]
        /\ \A c \in Conns : owed'[c] \subseteq {o \in owed[c] : o[2] \notin pump[l]}
    BY <1>0, <1>5, AnswerEffect
  <2>2. \A m \in Pumps : pump'[m] \in {pump[m], {}}
    BY <1>0, <2>1
  <2>3. ASSUME phase # "disposed", NEW c \in Conns, NEW o \in owed'[c]
        PROVE  o[2] > watermark' /\ o[2] \in outbox'
    <3>1. o \in owed[c] /\ o[2] \notin pump[l]
      BY <2>1
    <3>2. o[2] \in outbox /\ (o[2] <= Max(pump[l]) => o[2] \in pump[l])
      BY <2>1, <2>3, <3>1 DEF OwedInv, OwedAhead
    <3>3. o[2] \in Seqs /\ Max(pump[l]) \in Seqs
      BY <1>0, <2>1, <3>2, CommittedSeqs DEF SerialInv, FeedType, Stored
    <3> QED
      BY <2>1, <3>1, <3>2, <3>3 DEF Seqs
  <2>4. ASSUME phase # "disposed", NEW c \in Conns, NEW o \in owed'[c], NEW m \in Pumps,
               NEW r \in pump'[m], o[2] <= r
        PROVE  o[2] \in pump'[m]
    BY <2>1, <2>2, <2>4 DEF OwedInv, OwedAhead
  <2> QED
    BY <2>1, <2>3, <2>4 DEF OwedAhead
<1>6. ASSUME NEW l \in Pumps, PumpFail(l) PROVE OwedAhead'
  <2>1. UNCHANGED <<phase, outbox, watermark, owed>> /\ pump' = [pump EXCEPT ![l] = {}]
    BY <1>6 DEF PumpFail
  <2>2. \A m \in Pumps : pump'[m] \in {pump[m], {}}
    BY <1>0, <2>1
  <2> QED
    BY <2>1, <2>2, OwedKept
<1>7. ASSUME NEW c \in Conns, Client(c) PROVE OwedAhead'
  <2>1. UNCHANGED <<phase, outbox, watermark, pump>>
        /\ \A d \in Conns : owed'[d] \subseteq owed[d]
    BY <1>0, <1>7, ClientEffect
  <2> QED
    BY <2>1, OwedKept
<1>8. CASE Dispose
  <2>1. /\ UNCHANGED <<outbox, watermark, owed>> /\ phase = "up"
        /\ pump' = [pump EXCEPT ![Drain] = IF publish THEN Unread ELSE {}]
    BY <1>8 DEF Dispose
  <2>2. \A m \in Pumps : pump'[m] \in {pump[m], {}, Unread}
    BY <1>0, <2>1
  <2> QED
    BY <2>1, <2>2, OwedRead
<1>9. CASE Disposed
  BY <1>9 DEF Disposed, OwedAhead
<1>10. CASE Restart
  BY <1>10 DEF Restart, OwedAhead
<1> QED
  BY <1>1, <1>2, <1>3, <1>4, <1>5, <1>6, <1>7, <1>8, <1>9, <1>10 DEF Next

\* On SQLite, for every number of connections, topics and changes, also when pumps
\* overlap, fail or are slow: while the kernel is up, a change that a channel is
\* still to receive is in the outbox and ahead of the dispatcher's watermark.
THEOREM RealtimeNothingSkipped == Db = "sqlite" => (Spec => []NothingSkipped)
<1> SUFFICES ASSUME Db = "sqlite" PROVE Spec => []NothingSkipped
  OBVIOUS
<1>1. OwedInv => NothingSkipped
  BY DEF OwedInv, OwedAhead, NothingSkipped
<1>2. OwedInv /\ [Next]_vars => OwedInv'
  BY OwedNext
<1> QED
  BY OwedInit, <1>1, <1>2, PTL DEF Spec

--------------------------------------------------------------------------------
(* The dispatcher implements the feed, when its pumps do not overlap.  (Two   *)
(* that overlap may hand one page out twice, the later one first.)            *)

OnePump == \A l, m \in Loops : l = m

LEMMA FeedInit == Init => FeedInv
  BY SerialInit, RangeEmpty DEF Init, FeedInv, Kept, Whole, Committed

\* A step that neither commits, reads nor hands out.
LEMMA FeedKept ==
  ASSUME FeedInv, UNCHANGED <<log, seen, handed>>,
         \A l \in Loops : pump'[l] \in {pump[l], {}},
         phase' # "disposed" => phase # "disposed" /\ watermark' = watermark,
         \A s \in outbox : s \in outbox' \/ s \in seen
  PROVE  Kept' /\ Whole'
<1>1. Committed' = Committed
  BY DEF Committed
<1> QED
  BY <1>1 DEF FeedInv, Kept, Whole

\* A step that only reads pages.
LEMMA FeedRead ==
  ASSUME FeedInv, UNCHANGED <<log, outbox, watermark, seen, handed>>, phase # "disposed",
         \A l \in Loops : pump'[l] \in {pump[l], Unread}
  PROVE  Kept' /\ Whole'
<1>0. outbox \subseteq Seqs /\ watermark \in 0..MaxSeq /\ Committed \subseteq Seqs
  BY CommittedSeqs DEF FeedInv, SerialInv, FeedType, Stored
<1>1. Committed' = Committed
  BY DEF Committed
<1>2. Kept'
  BY <1>1 DEF FeedInv, Kept
<1>3. ASSUME NEW r \in Unread
      PROVE  r > handed /\ \A m \in Committed : m <= r => m \in seen \cup Unread
  <2>1. r > handed
    BY <1>3, UnreadRows DEF FeedInv, Kept
  <2>2. ASSUME NEW m \in Committed, m <= r PROVE m \in seen \cup Unread
    <3>1. CASE m \in seen
      BY <3>1
    <3>2. CASE m \notin seen
      <4>1. m \in outbox /\ ~(m <= watermark)
        BY <3>2 DEF FeedInv, Kept
      <4>2. m > watermark
        BY <1>0, <4>1 DEF Seqs
      <4> QED
        BY <1>0, <2>2, <4>1, <4>2, PageWhole
    <3> QED
      BY <3>1, <3>2
  <2> QED
    BY <2>1, <2>2
<1>4. Whole'
  BY <1>1, <1>3 DEF FeedInv, Whole
<1> QED
  BY <1>2, <1>4

LEMMA FeedNext ==
  ASSUME FeedInv, Db = "sqlite", OnePump, [Next]_vars
  PROVE  FeedInv'
<1>0. /\ SerialInv /\ SerialInv' /\ owed \in OwedType /\ pump \in [Pumps -> SUBSET Seqs]
      /\ Committed \subseteq Seqs /\ handed \in Committed \cup {0} /\ Drain \notin Loops
  BY SerialNext, CommittedSeqs, NamesAssumption
  DEF FeedInv, SerialInv, FeedType, OwedType, Kept
<1> SUFFICES Kept' /\ Whole'
  BY <1>0 DEF FeedInv
<1>1. CASE \/ DropTrigger \/ CheckDrift \/ UNCHANGED vars
           \/ \E w \in Writers, k \in Kinds : Write(w, k)
           \/ \E w \in Writers : Rollback(w)
           \/ \E tok \in Tokens : Expire(tok)
           \/ \E c \in Conns : Client(c)
  <2>1. UNCHANGED <<phase, log, outbox, watermark, pump, seen, handed>>
    BY <1>0, <1>1, ClientEffect DEF DropTrigger, CheckDrift, Write, Rollback, Expire
  <2> QED
    BY <2>1, FeedKept
<1>2. ASSUME NEW w \in Writers, Commit(w) PROVE Kept' /\ Whole'
  <2>1. /\ outbox' = outbox \cup {writing[w]} /\ UNCHANGED <<feedVars, phase>>
        /\ writing[w] \in Seqs /\ \A m \in Committed : m < writing[w]
        /\ Committed' = Committed \cup {writing[w]}
    BY <1>0, <1>2, CommitEffect
  <2>2. /\ watermark \in 0..MaxSeq /\ (watermark = 0 \/ watermark < writing[w])
        /\ \A l \in Loops : \A r \in pump[l] : r \in Seqs /\ r < writing[w]
    BY <1>0, <2>1 DEF SerialInv, FeedType, Stored
  <2>3. ~(writing[w] <= watermark) /\ \A l \in Loops : \A r \in pump[l] : ~(writing[w] <= r)
    BY <2>1, <2>2 DEF Seqs
  <2> QED
    BY <2>1, <2>3 DEF FeedInv, Kept, Whole
<1>3. CASE Gc
  <2>1. /\ UNCHANGED <<phase, log, watermark, pump, seen, handed>> /\ phase # "disposed"
        /\ \A s \in outbox : s \in outbox' \/ ~(s > watermark)
    BY <1>3 DEF Gc
  <2>2. \A s \in outbox : s \in Committed /\ s \in Seqs /\ watermark \in 0..MaxSeq
    BY <1>0 DEF SerialInv, FeedType, Stored
  <2>3. \A s \in outbox : s \in outbox' \/ s <= watermark
    BY <2>1, <2>2 DEF Seqs
  <2>4. \A s \in outbox : s \in outbox' \/ s \in seen
    BY <2>1, <2>2, <2>3 DEF FeedInv, Kept
  <2> QED
    BY <2>1, <2>4, FeedKept
<1>4. ASSUME NEW l \in Loops, PumpRead(l) PROVE Kept' /\ Whole'
  <2>1. UNCHANGED <<log, outbox, watermark, seen, handed>> /\ phase # "disposed"
        /\ pump' = [pump EXCEPT ![l] = Unread]
    BY <1>4 DEF PumpRead
  <2>2. \A m \in Loops : pump'[m] \in {pump[m], Unread}
    BY <1>0, <2>1
  <2> QED
    BY <2>1, <2>2, FeedRead DEF PumpRead
<1>5. ASSUME NEW l \in Loops, PumpAnswer(l) PROVE Kept' /\ Whole'
  <2>1. /\ UNCHANGED <<log, outbox, phase>>
        /\ watermark' = Max(pump[l]) /\ handed' = Max(pump[l]) /\ seen' = seen \cup pump[l]
        /\ Max(pump[l]) \in pump[l] /\ pump' = [pump EXCEPT ![l] = {}]
    BY <1>0, <1>5, AnswerEffect
  <2>2. Committed' = Committed /\ pump[l] \subseteq Committed
    BY <1>0, <2>1 DEF Committed, SerialInv, Stored
  <2>3. Max(pump[l]) \in Committed /\
        \A m \in Committed : m <= Max(pump[l]) => m \in seen \cup pump[l]
    BY <2>1, <2>2 DEF FeedInv, Whole
  <2>4. Kept'
    BY <2>1, <2>2, <2>3 DEF FeedInv, Kept
  <2>5. \A m \in Loops : pump'[m] = {}
    BY <1>0, <2>1 DEF OnePump
  <2> QED
    BY <2>4, <2>5 DEF Whole
<1>6. ASSUME NEW l \in Pumps, PumpFail(l) PROVE Kept' /\ Whole'
  <2>1. UNCHANGED <<phase, log, outbox, watermark, seen, handed>>
        /\ pump' = [pump EXCEPT ![l] = {}]
    BY <1>6 DEF PumpFail
  <2>2. \A m \in Loops : pump'[m] \in {pump[m], {}}
    BY <1>0, <2>1
  <2> QED
    BY <2>1, <2>2, FeedKept
<1>7. CASE Dispose \/ Disposed
  <2>1. UNCHANGED <<log, outbox, seen, handed>> /\ \A m \in Loops : pump'[m] = pump[m]
    BY <1>0, <1>7 DEF Dispose, Disposed
  <2>2. phase' # "disposed" => phase # "disposed" /\ watermark' = watermark
    BY <1>7 DEF Dispose, Disposed
  <2> QED
    BY <2>1, <2>2, FeedKept
<1>8. CASE Restart
  <2>1. /\ UNCHANGED <<log, outbox, seen>> /\ watermark' = 0 /\ handed' = 0
        /\ pump' = [l \in Pumps |-> {}] /\ Committed' = Committed
    BY <1>8 DEF Restart, Committed
  <2>2. \A m \in Committed : ~(m <= 0)
    BY <1>0 DEF Seqs
  <2>3. Kept'
    BY <2>1, <2>2 DEF FeedInv, Kept
  <2>4. Whole'
    BY <2>1 DEF Whole
  <2> QED
    BY <2>3, <2>4
<1> QED
  BY <1>1, <1>2, <1>3, <1>4, <1>5, <1>6, <1>7, <1>8 DEF Next

\* Every step of the dispatcher is a step of the feed, or none.
LEMMA FeedStep ==
  ASSUME FeedInv, Db = "sqlite", OnePump, [Next]_vars
  PROVE  [Feed!Next]_<<log, handed, seen>>
<1>0. /\ SerialInv /\ owed \in OwedType /\ Feed!Committed = Committed
      /\ Committed \subseteq Seqs /\ handed \in Committed \cup {0}
  BY CommittedSeqs
  DEF FeedInv, SerialInv, FeedType, OwedType, Feed!Committed, Committed, Range, Kept
<1>1. ASSUME NEW w \in Writers, Commit(w) PROVE Feed!Publish
  <2>1. /\ writing[w] \in Seqs /\ \A m \in Committed : m < writing[w]
        /\ log' = Append(log, writing[w]) /\ UNCHANGED <<handed, seen>>
    BY <1>0, <1>1, CommitEffect
  <2> QED
    BY <1>0, <2>1 DEF Feed!Publish
<1>2. ASSUME NEW l \in Loops, PumpAnswer(l) PROVE Feed!HandOut
  <2>1. /\ log' = log /\ handed' = Max(pump[l]) /\ seen' = seen \cup pump[l]
        /\ Max(pump[l]) \in pump[l] /\ \A r \in pump[l] : r <= Max(pump[l])
    BY <1>0, <1>2, AnswerEffect
  <2>2. pump[l] \subseteq Committed
    BY <1>0 DEF SerialInv, Stored
  <2>3. /\ Max(pump[l]) > handed
        /\ \A m \in Committed : m <= Max(pump[l]) => m \in seen \cup pump[l]
    BY <2>1 DEF FeedInv, Whole
  <2>4. handed < Max(pump[l])
    BY <1>0, <2>1, <2>2, <2>3 DEF Seqs
  <2>5. seen' = seen \cup {m \in Committed : m <= Max(pump[l])}
    BY <2>1, <2>2, <2>3
  <2> QED
    BY <1>0, <2>1, <2>2, <2>4, <2>5 DEF Feed!HandOut
<1>3. ASSUME Restart PROVE Feed!Restart
  <2>1. handed' = 0 /\ log' = log /\ seen' = seen
    BY <1>3 DEF Restart
  <2> QED
    BY <2>1 DEF Feed!Restart
<1>4. CASE \/ DropTrigger \/ CheckDrift \/ Gc \/ Dispose \/ Disposed \/ UNCHANGED vars
           \/ \E w \in Writers, k \in Kinds : Write(w, k)
           \/ \E w \in Writers : Rollback(w)
           \/ \E l \in Loops : PumpRead(l)
           \/ \E l \in Pumps : PumpFail(l)
           \/ \E tok \in Tokens : Expire(tok)
           \/ \E c \in Conns : Client(c)
  BY <1>0, <1>4, ClientEffect
  DEF DropTrigger, CheckDrift, Gc, Dispose, Disposed, Write, Rollback, PumpRead, PumpFail, Expire
<1> QED
  BY <1>1, <1>2, <1>3, <1>4 DEF Next, Feed!Next

\* On SQLite, with a host that awaits a pump before it starts the next: the
\* dispatcher implements ChangeFeed.  Changes become visible in the order of their
\* numbers, are handed out in that order, and none before every smaller one.
THEOREM RealtimeFeed == Db = "sqlite" /\ OnePump => (Spec => FeedSpec)
<1> SUFFICES ASSUME Db = "sqlite", OnePump PROVE Spec => FeedSpec
  OBVIOUS
<1>1. Init => Feed!Init
  BY DEF Init, Feed!Init
<1>2. FeedInv /\ [Next]_vars => FeedInv'
  BY FeedNext
<1>3. FeedInv /\ [Next]_vars => [Feed!Next]_<<log, handed, seen>>
  BY FeedStep
<1> QED
  BY FeedInit, <1>1, <1>2, <1>3, PTL DEF Spec, FeedSpec, Feed!Spec

================================================================================
