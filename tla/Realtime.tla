-------------------------------- MODULE Realtime --------------------------------
(******************************************************************************)
(* Change capture and delivery: the outbox its triggers fill, the dispatcher  *)
(* that reads it after commit, the connections that pass changes on to their  *)
(* channels, and the kernel's disposal (packages/realtime, packages/kernel).  *)
(*                                                                            *)
(* The host awaits dispatcher.pump() and hands every event it returned to     *)
(* every connection before it awaits anything else, so a pump is two steps:   *)
(* the SELECT, and the rest.  Frames of one socket are handled as they        *)
(* arrive: a frame that awaits a token is overtaken by those behind it.       *)
(*                                                                            *)
(* A pump sees committed rows only.  On the connection that a SQLite process  *)
(* shares this is a premise: the drivers are synchronous, a transaction that  *)
(* writes rows awaits nothing but them, and a timer starts the pump.          *)
(*                                                                            *)
(* Which changes the bindings and the policies let through to a principal is  *)
(* the constant Sees: module Policy says how rules decide on a row.           *)
(******************************************************************************)
EXTENDS Integers, Sequences, FiniteSets, FiniteSetsExt, Functions

CONSTANTS
  Db,         \* "sqlite" (one writer at a time) or "postgres"
  Writers,    \* transactions that change managed rows
  Conns, Topics,
  Tokens,     \* access tokens
  Key,        \* the principal of the connection's apikey
  Loops,      \* concurrent calls of pump()
  Drain,      \* the call dispose() makes
  Kinds,      \* what distinguishes changes for the policies
  Sees,       \* pairs of a principal and a kind it receives
  Page,       \* the LIMIT of pump()
  QueueMax,   \* QUEUE_MAX_EVENTS
  MaxSeq,     \* bound: sequence numbers handed out
  MaxFlight,  \* bound: frames of one connection that await a token
  MaxFaults   \* bound: failed pumps and crashes

Principals == Tokens \cup {Key}
NoChannel  == "none"
NoKind     == "none"
Seqs       == 1..MaxSeq
Frames     == {"join", "bad join", "token"}

ASSUME DbAssumption    == Db \in {"sqlite", "postgres"}
ASSUME SeesAssumption  == Sees \subseteq Principals \X Kinds
ASSUME NamesAssumption == Key \notin Tokens /\ NoChannel \notin Principals /\ Drain \notin Loops
ASSUME BoundAssumption == /\ Page \in Nat \ {0} /\ QueueMax \in Nat /\ MaxSeq \in Nat
                          /\ MaxFlight \in Nat /\ MaxFaults \in Nat

VARIABLES
  writing,    \* the sequence number of each open transaction, 0 if it has none
  lastSeq,    \* the table's sequence
  kind,       \* the kind of each change
  outbox,     \* committed rows
  log,        \* history: sequence numbers in the order of their commits
  triggers,   \* the outbox triggers are installed
  watermark, publish,  \* the dispatcher
  handed,     \* history: the change this process handed out last
  seen,       \* history: every change handed out
  pump,       \* rows each pump() call has read, {} when it is not running
  phase,      \* the kernel: "up", "draining", "disposed"
  conn,       \* connections
  flight,     \* frames that await verifyToken()
  expired,    \* tokens past their exp
  owed,       \* history: pairs of a joined topic and a change it is to receive
  faults

dbVars   == <<writing, lastSeq, kind, outbox, log, triggers>>
feedVars == <<watermark, publish, handed, seen, pump>>
connVars == <<conn, flight, expired, owed>>
vars     == <<dbVars, feedVars, connVars, phase, faults>>

Connected == [up |-> TRUE, chan |-> [t \in Topics |-> NoChannel], tok |-> Key, queued |-> 0]

Init ==
  /\ writing = [w \in Writers |-> 0] /\ lastSeq = 0
  /\ kind = [s \in Seqs |-> NoKind]
  /\ outbox = {} /\ log = <<>> /\ triggers = TRUE
  /\ watermark = 0 /\ publish = TRUE /\ handed = 0 /\ seen = {}
  /\ pump = [l \in Loops \cup {Drain} |-> {}]
  /\ phase = "up"
  /\ conn = [c \in Conns |-> Connected] /\ flight = [c \in Conns |-> {}]
  /\ expired = {} /\ owed = [c \in Conns |-> {}] /\ faults = 0

Joined(c, t) == conn[c].up /\ conn[c].chan[t] # NoChannel
Public(s)    == \A p \in Principals : <<p, kind[s]>> \in Sees

--------------------------------------------------------------------------------
(* Transactions.  The trigger writes the outbox row in the transaction of the *)
(* change.  SQLite runs one writer at a time, and rolls its AUTOINCREMENT     *)
(* back with the rest; an identity column of Postgres does neither.           *)

Write(w, k) ==
  /\ triggers /\ writing[w] = 0 /\ lastSeq < MaxSeq
  /\ Db = "sqlite" => \A v \in Writers : writing[v] = 0
  /\ lastSeq' = lastSeq + 1
  /\ writing' = [writing EXCEPT ![w] = lastSeq + 1]
  /\ kind' = [kind EXCEPT ![lastSeq + 1] = k]
  /\ UNCHANGED <<outbox, log, triggers, feedVars, connVars, phase, faults>>

Commit(w) ==
  /\ writing[w] # 0
  /\ outbox' = outbox \cup {writing[w]}
  /\ log' = Append(log, writing[w])
  /\ owed' = [c \in Conns |-> owed[c] \cup
                {<<t, writing[w]>> : t \in {u \in Topics : Joined(c, u) /\ Public(writing[w])}}]
  /\ writing' = [writing EXCEPT ![w] = 0]
  /\ UNCHANGED <<lastSeq, kind, triggers, feedVars, conn, flight, expired, phase, faults>>

Rollback(w) ==
  /\ writing[w] # 0
  /\ lastSeq' = IF Db = "sqlite" THEN lastSeq - 1 ELSE lastSeq
  /\ kind' = [kind EXCEPT ![writing[w]] = NoKind]
  /\ writing' = [writing EXCEPT ![w] = 0]
  /\ UNCHANGED <<outbox, log, triggers, feedVars, connVars, phase, faults>>

\* Somebody drops a trigger; checkDrift() notices and disables publishing for good.
DropTrigger ==
  /\ triggers /\ triggers' = FALSE
  /\ UNCHANGED <<writing, lastSeq, kind, outbox, log, feedVars, connVars, phase, faults>>

CheckDrift ==
  /\ ~triggers /\ publish /\ phase # "disposed"
  /\ publish' = FALSE
  /\ UNCHANGED <<dbVars, watermark, handed, seen, pump, connVars, phase, faults>>

--------------------------------------------------------------------------------
(* The dispatcher.                                                            *)

\* Mutant: the newest rows first.
UnreadNewest ==
  LET unread == {s \in outbox : s > watermark}
  IN  {s \in unread : Cardinality({t \in unread : t > s}) < Page}

\* SELECT * FROM outbox WHERE seq > watermark ORDER BY seq LIMIT Page.  The events of a
\* page are handed on in one go, so a page is the set of its rows.
Unread ==
  LET unread == {s \in outbox : s > watermark}
  IN  {s \in unread : Cardinality({t \in unread : t < s}) < Page}

PumpRead(l) ==
  /\ publish /\ phase # "disposed" /\ pump[l] = {} /\ Unread # {}
  /\ pump' = [pump EXCEPT ![l] = Unread]
  /\ UNCHANGED <<dbVars, watermark, publish, handed, seen, connVars, phase, faults>>

Receivers(k, s) == {t \in Topics : k.chan[t] # NoChannel /\ <<k.chan[t], kind[s]>> \in Sees}

\* deliver() of each event of a page: the counters grow first; past the limit the frames
\* are replaced by a system frame and the host closes the socket.
Deliver(k, rows) ==
  LET n == MapThenSumSet(LAMBDA s : Cardinality(Receivers(k, s)), rows)
  IN  IF ~k.up \/ n = 0 THEN k
      ELSE [k EXCEPT !.queued = @ + n, !.up = k.queued + n <= QueueMax]

\* A closed socket takes its channels with it.
Settle(k) == IF k.up THEN k ELSE [Connected EXCEPT !.up = FALSE]

\* Mutant: the events are returned and the watermark stays.
PumpAnswerStays(l) ==
  LET rows == pump[l]
      To(c) == Deliver(conn[c], rows)
  IN  /\ l # Drain /\ rows # {}
      /\ handed' = Max(rows) /\ seen' = seen \cup rows
      /\ pump' = [pump EXCEPT ![l] = {}]
      /\ conn' = [c \in Conns |-> Settle(To(c))]
      /\ owed' = [c \in Conns |-> IF To(c).up THEN {o \in owed[c] : o[2] \notin rows}
                                  ELSE {}]
      /\ flight' = [c \in Conns |-> IF To(c).up THEN flight[c] ELSE {}]
      /\ UNCHANGED <<dbVars, watermark, publish, expired, phase, faults>>

PumpAnswer(l) ==
  LET rows == pump[l]
      To(c) == Deliver(conn[c], rows)
  IN  /\ l # Drain /\ rows # {}
      /\ watermark' = Max(rows)
      /\ handed' = Max(rows) /\ seen' = seen \cup rows
      /\ pump' = [pump EXCEPT ![l] = {}]
      /\ conn' = [c \in Conns |-> Settle(To(c))]
      /\ owed' = [c \in Conns |-> IF To(c).up THEN {o \in owed[c] : o[2] \notin rows}
                                  ELSE {}]
      /\ flight' = [c \in Conns |-> IF To(c).up THEN flight[c] ELSE {}]
      /\ UNCHANGED <<dbVars, publish, expired, phase, faults>>

\* The query fails, or a fault port throws before the watermark moves.
PumpFail(l) ==
  /\ pump[l] # {} /\ faults < MaxFaults
  /\ pump' = [pump EXCEPT ![l] = {}]
  /\ faults' = faults + 1
  /\ UNCHANGED <<dbVars, watermark, publish, handed, seen, connVars, phase>>

\* Mutant: the boundary is the caller's cursor alone.
GcAhead ==
  \E least \in Seqs, aged \in SUBSET outbox :
    /\ phase # "disposed"
    /\ outbox' = {s \in outbox : s > least \/ s \notin aged}
    /\ outbox' # outbox
    /\ UNCHANGED <<writing, lastSeq, kind, log, triggers, feedVars, connVars, phase, faults>>

\* gc(minActiveCursor): below the watermark and every cursor, and past the retention window.
Gc ==
  \E least \in Seqs, aged \in SUBSET outbox :
    /\ phase # "disposed"
    /\ outbox' = {s \in outbox : s > least \/ s > watermark \/ s \notin aged}
    /\ outbox' # outbox
    /\ UNCHANGED <<writing, lastSeq, kind, log, triggers, feedVars, connVars, phase, faults>>

--------------------------------------------------------------------------------
(* Connections: handleFrame(), tick(), drain().                               *)

SetConn(c, k) == conn' = [conn EXCEPT ![c] = k]
Forget(c, ts) == owed' = [owed EXCEPT ![c] = {o \in owed[c] : o[1] \notin ts}]

Connect(c) ==
  /\ ~conn[c].up /\ phase # "disposed"
  /\ SetConn(c, Connected)
  /\ UNCHANGED <<dbVars, feedVars, flight, expired, owed, phase, faults>>

\* onJoin() without a token: no await.  A topic joined again is replaced.
Join(c, t) ==
  /\ conn[c].up
  /\ SetConn(c, [conn[c] EXCEPT !.chan[t] = conn[c].tok])
  /\ Forget(c, {t})
  /\ UNCHANGED <<dbVars, feedVars, flight, expired, phase, faults>>

\* phx_join with a token, and access_token: applyToken() awaits verifyToken().  The
\* bindings of a join are looked at only afterwards: "bad join" is one they refuse.
Present(c, op, t, tok) ==
  /\ conn[c].up /\ Cardinality(flight[c]) < MaxFlight
  /\ flight' = [flight EXCEPT ![c] = @ \cup {[op |-> op, topic |-> t, tok |-> tok]}]
  /\ UNCHANGED <<dbVars, feedVars, conn, expired, owed, phase, faults>>

\* The channels a frame gives its token to, once that is the connection's: a join sets up
\* its own, access_token serves all there are.
Given(c, f) ==
  {t \in Topics : \/ f.op = "join" /\ t = f.topic
                  \/ f.op = "token" /\ conn[c].chan[t] # NoChannel}

\* A token that verifies becomes the connection's, also if the join is refused then.
Verified(c, f) ==
  /\ f \in flight[c] /\ f.tok \notin expired
  /\ flight' = [flight EXCEPT ![c] = @ \ {f}]
  /\ SetConn(c, [conn[c] EXCEPT !.tok = f.tok,
       !.chan = [t \in Topics |-> IF t \in Given(c, f) THEN f.tok ELSE conn[c].chan[t]]])
  /\ Forget(c, IF f.op = "join" THEN {f.topic} ELSE {})
  /\ UNCHANGED <<dbVars, feedVars, expired, phase, faults>>

\* verifyToken() refuses: an error reply, and no other effect.
Refused(c, f) ==
  /\ f \in flight[c] /\ f.tok \in expired
  /\ flight' = [flight EXCEPT ![c] = @ \ {f}]
  /\ UNCHANGED <<dbVars, feedVars, conn, expired, owed, phase, faults>>

Leave(c, t) ==
  /\ Joined(c, t)
  /\ SetConn(c, [conn[c] EXCEPT !.chan[t] = NoChannel])
  /\ Forget(c, {t})
  /\ UNCHANGED <<dbVars, feedVars, flight, expired, phase, faults>>

Expire(tok) ==
  /\ tok \notin expired /\ expired' = expired \cup {tok}
  /\ UNCHANGED <<dbVars, feedVars, conn, flight, owed, phase, faults>>

\* tick(): all channels go when the token accepted last has expired.
Tick(c) ==
  /\ conn[c].up /\ conn[c].tok \in expired /\ \E t \in Topics : Joined(c, t)
  /\ SetConn(c, [conn[c] EXCEPT !.chan = [t \in Topics |-> NoChannel]])
  /\ Forget(c, Topics)
  /\ UNCHANGED <<dbVars, feedVars, flight, expired, phase, faults>>

\* drain(): the consumer says how much it has read of what was sent.
Acknowledge(c) ==
  \E n \in 1..QueueMax :
    /\ SetConn(c, [conn[c] EXCEPT !.queued = IF @ > n THEN @ - n ELSE 0])
    /\ UNCHANGED <<dbVars, feedVars, flight, expired, owed, phase, faults>>

--------------------------------------------------------------------------------
(* The kernel.  dispose() pumps once more, for nobody, and closes the adapter. *)

Dispose ==
  /\ phase = "up" /\ phase' = "draining"
  /\ pump' = [pump EXCEPT ![Drain] = IF publish THEN Unread ELSE {}]
  /\ UNCHANGED <<dbVars, watermark, publish, handed, seen, connVars, faults>>

Disposed ==
  /\ phase = "draining" /\ phase' = "disposed"
  /\ watermark' = IF pump[Drain] = {} THEN watermark ELSE Max(pump[Drain])
  /\ pump' = [pump EXCEPT ![Drain] = {}]
  /\ UNCHANGED <<dbVars, publish, handed, seen, connVars, faults>>

\* The process ends and another takes over, without installing the schema anew: a new
\* dispatcher starts from zero, and no socket survives.  Open transactions roll back.
Restart ==
  /\ faults < MaxFaults /\ faults' = faults + 1
  /\ writing' = [w \in Writers |-> 0]
  /\ lastSeq' = IF Db = "sqlite" /\ \E w \in Writers : writing[w] # 0 THEN lastSeq - 1 ELSE lastSeq
  /\ watermark' = 0 /\ publish' = TRUE /\ handed' = 0
  /\ pump' = [l \in Loops \cup {Drain} |-> {}]
  /\ phase' = "up"
  /\ conn' = [c \in Conns |-> [Connected EXCEPT !.up = FALSE]]
  /\ flight' = [c \in Conns |-> {}] /\ owed' = [c \in Conns |-> {}]
  /\ kind' = [s \in Seqs |-> IF s \in Range(log) THEN kind[s] ELSE NoKind]
  /\ UNCHANGED <<outbox, log, triggers, seen, expired>>

--------------------------------------------------------------------------------

Client(c) ==
  \/ Connect(c)
  \/ \E t \in Topics : Join(c, t) \/ Leave(c, t)
  \/ \E op \in Frames, t \in Topics, tok \in Tokens : Present(c, op, t, tok)
  \/ \E f \in flight[c] : Verified(c, f) \/ Refused(c, f)
  \/ Tick(c)
  \/ Acknowledge(c)

Next ==
  \/ \E w \in Writers, k \in Kinds : Write(w, k)
  \/ \E w \in Writers : Commit(w) \/ Rollback(w)
  \/ DropTrigger \/ CheckDrift \/ Gc
  \/ \E l \in Loops : PumpRead(l) \/ PumpAnswer(l)
  \/ \E l \in Loops \cup {Drain} : PumpFail(l)
  \/ \E c \in Conns : Client(c)
  \/ \E tok \in Tokens : Expire(tok)
  \/ Dispose \/ Disposed \/ Restart

\* The host pumps on a timer, and its database answers.
Fairness == \A l \in Loops : WF_vars(PumpRead(l)) /\ WF_vars(PumpAnswer(l))

Spec == Init /\ [][Next]_vars /\ Fairness

--------------------------------------------------------------------------------

\* Every variable stays in its set, and the rows a pump holds are past commits.
TypeOK ==
  /\ writing \in [Writers -> 0..MaxSeq] /\ lastSeq \in 0..MaxSeq /\ kind \in [Seqs -> Kinds \cup {NoKind}]
  /\ outbox \subseteq Seqs /\ log \in Seq(Seqs) /\ triggers \in BOOLEAN
  /\ {watermark, handed} \subseteq 0..MaxSeq /\ seen \subseteq Seqs /\ publish \in BOOLEAN
  /\ pump \in [Loops \cup {Drain} -> SUBSET Range(log)]
  /\ phase \in {"up", "draining", "disposed"} /\ faults \in 0..MaxFaults
  /\ conn \in [Conns -> [up: BOOLEAN, chan: [Topics -> Principals \cup {NoChannel}],
                         tok: Principals, queued: Nat]]
  /\ flight \in [Conns -> SUBSET [op: Frames, topic: Topics, tok: Tokens]]
  /\ expired \subseteq Tokens /\ owed \in [Conns -> SUBSET (Topics \X Seqs)]

\* At-least-once within a connection: while the kernel is up, a change that a joined channel
\* is still to receive is in the outbox, ahead of the watermark, so a later pump finds it.
\* Neither garbage collection, nor a failed or a slow pump, nor a full queue passes it over.
NothingSkipped ==
  phase = "up" => \A c \in Conns : \A o \in owed[c] : o[2] > watermark /\ o[2] \in outbox

\* The dispatcher implements the feed: total order by sequence number, nothing left out.
Feed == INSTANCE ChangeFeed WITH Ids <- Seqs, last <- handed

FeedSpec == Feed!Spec

\* A change owed to a channel is delivered, or the channel is closed or left, unless
\* publishing is disabled or the kernel goes down.
Delivered ==
  \A c \in Conns, t \in Topics, s \in Seqs :
    <<t, s>> \in owed[c] ~> (<<t, s>> \notin owed[c] \/ ~publish \/ phase # "up")
================================================================================
