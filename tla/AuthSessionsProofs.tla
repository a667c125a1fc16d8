--------------------------- MODULE AuthSessionsProofs ---------------------------
(******************************************************************************)
(* Proofs about AuthSessions, for every number of requests, adapter           *)
(* instances, sessions and tokens, and every grace window.                    *)
(*                                                                            *)
(* The chain of a family is kept by a compare-and-set: the request that used  *)
(* a token up owns it, and the family has no live token until that request    *)
(* inserts its child.  On SQLite every statement may be undone by a ROLLBACK, *)
(* so what is said of the tables is said of db and of saved.                  *)
(******************************************************************************)
EXTENDS AuthSessions, TLAPS

TxPlaces == {"read", "cas", "insert", "cache", "replay", "revoke", "end", "commit"}

\* Places of rotateRefresh() behind the SELECT of the presented token.
Rotating == {"cas", "insert", "cache", "replay", "revoke", "end"}

\* What a request at a place has at hand.
Placed(r) ==
  /\ r.pc \in TxPlaces => r.token \in Tokens /\ r.on \in Instances
  /\ r.pc \in Rotating \cup {"root", "tokens"} => r.session \in Sessions
  /\ r.pc = "commit" /\ r.reply # "not_found" => r.session \in Sessions
  /\ r.reply = "ok" \/ r.pc = "cache" => r.child \in Tokens
  /\ r.pc \in {"revoke", "end"} => r.reply \in Reuse

TypeInv == TypeOK /\ \A c \in Clients : Placed(req[c])

Others(c) == \A d \in Clients : d # c => req'[d] = req[d]

--------------------------------------------------------------------------------
(* Lemmas about the writes: what each leaves alone.                           *)

USE DEF vars, history

LEMMA IdleType == Idle \in Requests
  BY DEF Idle, Requests, Places, None

LEMMA NewRequest ==
  ASSUME NEW c \in Clients, NEW r \in Requests, req \in [Clients -> Requests],
         req' = [req EXCEPT ![c] = r]
  PROVE  req' \in [Clients -> Requests] /\ req'[c] = r /\ Others(c)
  BY DEF Others

LEMMA GotoEffect ==
  ASSUME NEW c \in Clients, NEW l \in Places, req \in [Clients -> Requests], Goto(c, l)
  PROVE  /\ req' \in [Clients -> Requests] /\ Others(c)
         /\ req'[c].pc = l
         /\ req'[c].on = req[c].on /\ req'[c].token = req[c].token
         /\ req'[c].session = req[c].session /\ req'[c].at = req[c].at
         /\ req'[c].child = req[c].child /\ req'[c].reply = req[c].reply
         /\ req'[c].todo = req[c].todo /\ req'[c].done = req[c].done
<1> DEFINE r == [req[c] EXCEPT !.pc = l]
<1>1. req' = [req EXCEPT ![c] = r]
  BY DEF Goto
<1>2. r \in Requests
  BY DEF Requests
<1>3. req' \in [Clients -> Requests] /\ req'[c] = r /\ Others(c)
  BY <1>1, <1>2, NewRequest
<1> QED
  BY <1>3 DEF Requests

\* What Goto(c, l) does, as one fact.
GotoTo(c, l) ==
  /\ req' \in [Clients -> Requests] /\ Others(c) /\ req'[c].pc = l
  /\ req'[c].on = req[c].on /\ req'[c].token = req[c].token
  /\ req'[c].session = req[c].session /\ req'[c].child = req[c].child
  /\ req'[c].reply = req[c].reply

LEMMA FinishEffect ==
  ASSUME NEW c \in Clients, req \in [Clients -> Requests], Finish(c)
  PROVE  req' \in [Clients -> Requests] /\ req'[c] = Idle /\ Others(c)
  BY IdleType, NewRequest DEF Finish

LEMMA TokenWritten ==
  ASSUME db \in Databases, NEW n \in Tokens, NEW row \in TokenRows,
         db' = [db EXCEPT !.token[n] = row]
  PROVE  /\ db' \in Databases
         /\ db'.session = db.session /\ db'.child = db.child /\ db'.until = db.until
         /\ db'.token = [db.token EXCEPT ![n] = row]
  BY DEF Databases

LEMMA RevokeEffect ==
  ASSUME db \in Databases, NEW s \in Sessions, RevokeTokens(s)
  PROVE  /\ db' \in Databases
         /\ db'.session = db.session /\ db'.child = db.child /\ db'.until = db.until
         /\ \A t \in Tokens :
              /\ db'.token[t].session = db.token[t].session
              /\ db'.token[t].parent = db.token[t].parent
              /\ db'.token[t].used = db.token[t].used
              /\ db.token[t].revoked => db'.token[t].revoked
              /\ db.token[t].session = s => db'.token[t].revoked
<1> DEFINE row(t) == IF Row(t).session = s THEN [Row(t) EXCEPT !.revoked = TRUE] ELSE Row(t)
<1>1. \A t \in Tokens : row(t) \in TokenRows
  BY DEF Databases, Row, TokenRows
<1>2. db' = [db EXCEPT !.token = [t \in Tokens |-> row(t)]]
  BY DEF RevokeTokens
<1>3. /\ db'.token = [t \in Tokens |-> row(t)]
      /\ db'.session = db.session /\ db'.child = db.child /\ db'.until = db.until
  BY <1>2 DEF Databases
<1>4. db' \in Databases
  <2> HIDE DEF row
  <2> QED
    BY <1>1, <1>2 DEF Databases
<1> QED
  BY <1>1, <1>3, <1>4 DEF Databases, Row, TokenRows

LEMMA EndEffect ==
  ASSUME db \in Databases, NEW s \in Sessions, EndSession(s)
  PROVE  /\ db' \in Databases
         /\ db'.token = db.token /\ db'.child = db.child /\ db'.until = db.until
         /\ \A x \in Sessions : db'.session[x] =
              IF x = s /\ db.session[s] # "none" THEN "ended" ELSE db.session[x]
  BY DEF EndSession, Databases, SessionStates

LEMMA CloseEffect ==
  ASSUME NEW c \in Clients, saved \in Databases, open \subseteq Instances, CloseTx(c),
         EmptyDb \in Databases
  PROVE  saved' \in Databases /\ open' \subseteq Instances
  BY DEF CloseTx

LEMMA EmptyType == EmptyDb \in Databases
  BY DEF EmptyDb, Databases, SessionStates, NoTokenRow, TokenRows, None

--------------------------------------------------------------------------------
(* Lemmas about the actions: the record of the request that moved, and the    *)
(* rows that were written.                                                    *)

LEMMA LoginEffect ==
  ASSUME TypeInv, NEW c \in Clients, Login(c)
  PROVE  /\ req' \in [Clients -> Requests] /\ Others(c)
         /\ opened' = opened + 1 /\ opened' \in Sessions
         /\ req'[c] = [Idle EXCEPT !.pc = "root", !.session = opened']
         /\ db' \in Databases
         /\ db'.token = db.token /\ db'.child = db.child
         /\ db'.session = [db.session EXCEPT ![opened'] = "open"]
<1>1. opened' = opened + 1 /\ opened' \in Sessions /\ opened' \in 0..MaxSessions
  BY LimitAssumption DEF Login, TypeInv, TypeOK, Sessions
<1> DEFINE r == [Idle EXCEPT !.pc = "root", !.session = opened']
<1>2. r \in Requests
  BY <1>1, IdleType DEF Requests, Places
<1>3. req' = [req EXCEPT ![c] = r]
  BY <1>1 DEF Login
<1>4. db' = [db EXCEPT !.session[opened'] = "open"]
  BY <1>1 DEF Login
<1>5. req' \in [Clients -> Requests] /\ req'[c] = r /\ Others(c)
  <2> HIDE DEF r
  <2> QED
    BY <1>2, <1>3, NewRequest DEF TypeInv, TypeOK
<1> QED
  BY <1>1, <1>4, <1>5 DEF TypeInv, TypeOK, Databases, SessionStates

LEMMA RootEffect ==
  ASSUME TypeInv, NEW c \in Clients, InsertRoot(c)
  PROVE  /\ req' \in [Clients -> Requests] /\ Others(c) /\ req'[c] = Idle
         /\ minted' = minted + 1 /\ minted' \in Tokens
         /\ db' \in Databases
         /\ db'.session = db.session /\ db'.child = db.child
         /\ \/ db'.token = db.token /\ given' = given
            \/ /\ db.session[req[c].session] # "none"
               /\ db'.token = [db.token EXCEPT ![minted'] =
                    [session |-> req[c].session, parent |-> None, used |-> FALSE,
                     revoked |-> FALSE]]
         /\ given' \in SUBSET (Tokens \X Sessions)
<1>1. minted' = minted + 1 /\ minted' \in Tokens /\ req[c].session \in Sessions
  BY LimitAssumption DEF InsertRoot, TypeInv, TypeOK, Tokens, Placed
<1> DEFINE row == [session |-> req[c].session, parent |-> None, used |-> FALSE,
                   revoked |-> FALSE]
<1>2. row \in TokenRows
  BY <1>1 DEF TokenRows
<1>3. req' \in [Clients -> Requests] /\ req'[c] = Idle /\ Others(c)
  BY FinishEffect DEF InsertRoot, TypeInv, TypeOK
<1>4. given' \in SUBSET (Tokens \X Sessions)
  BY <1>1 DEF InsertRoot, TypeInv, TypeOK
<1>5. CASE db.session[req[c].session] = "none"
  BY <1>1, <1>3, <1>4, <1>5 DEF InsertRoot, TypeInv, TypeOK
<1>6. CASE db.session[req[c].session] # "none"
  <2>1. db' = [db EXCEPT !.token[minted'] = row]
    BY <1>1, <1>6 DEF InsertRoot, InsertToken
  <2> HIDE DEF row
  <2>2. /\ db' \in Databases
        /\ db'.session = db.session /\ db'.child = db.child
        /\ db'.token = [db.token EXCEPT ![minted'] = row]
    BY <1>1, <1>2, <2>1, TokenWritten DEF TypeInv, TypeOK
  <2> QED
    BY <1>1, <1>3, <1>4, <1>6, <2>2 DEF row
<1> QED
  BY <1>5, <1>6

LEMMA BeginEffect ==
  ASSUME TypeInv, NEW c \in Clients, Begin(c)
  PROVE  /\ req' \in [Clients -> Requests] /\ Others(c) /\ req[c].pc = "idle"
         /\ \E g \in given, i \in Instances \ open :
              /\ req'[c] = [Idle EXCEPT !.pc = "read", !.token = g[1], !.on = i]
              /\ g[1] \in Tokens
              /\ open' = open \cup {i}
<1>1. PICK g \in given, i \in Instances \ open :
        /\ req' = [req EXCEPT ![c] = [Idle EXCEPT !.pc = "read", !.token = g[1], !.on = i]]
        /\ open' = open \cup {i}
  BY DEF Begin
<1> DEFINE r == [Idle EXCEPT !.pc = "read", !.token = g[1], !.on = i]
<1>2. g[1] \in Tokens
  BY DEF TypeInv, TypeOK
<1>3. r \in Requests
  BY <1>2, IdleType DEF Requests, Places
<1>4. req' \in [Clients -> Requests] /\ req'[c] = r /\ Others(c)
  <2> HIDE DEF r
  <2> QED
    BY <1>1, <1>3, NewRequest DEF TypeInv, TypeOK, r
<1> QED
  BY <1>1, <1>2, <1>4 DEF Begin

LEMMA ReadEffect ==
  ASSUME TypeInv, NEW c \in Clients, ReadToken(c)
  PROVE  LET row == Row(req[c].token) IN
         /\ req' \in [Clients -> Requests] /\ Others(c) /\ req[c].pc = "read"
         /\ req'[c].on = req[c].on /\ req'[c].token = req[c].token
         /\ req'[c].session = row.session /\ req'[c].child = req[c].child
         /\ \/ /\ req'[c].pc = "commit" /\ req'[c].reply = "not_found"
               /\ row.session = None
            \/ /\ req'[c].pc = "replay" /\ req'[c].reply = "none"
               /\ row.session \in Sessions /\ (row.used \/ row.revoked)
            \/ /\ req'[c].pc = "cas" /\ req'[c].reply = "none" /\ row.session \in Sessions
<1> DEFINE row == Row(req[c].token)
           l == IF row.session = None THEN "commit"
                ELSE IF row.used \/ row.revoked THEN "replay" ELSE "cas"
           y == IF l = "commit" THEN "not_found" ELSE "none"
           r == [req[c] EXCEPT !.pc = l, !.session = row.session, !.at = now, !.reply = y]
<1>1. req[c].token \in Tokens /\ req[c] \in Requests /\ row \in TokenRows /\ now \in Nat
  <2>1. req[c].pc = "read" /\ req \in [Clients -> Requests] /\ now \in Nat
    BY DEF ReadToken, TypeInv, TypeOK
  <2>2. req[c].token \in Tokens
    BY <2>1 DEF TypeInv, Placed, TxPlaces
  <2>3. Row(req[c].token) \in TokenRows
    BY <2>2 DEF TypeInv, TypeOK, Row, Databases
  <2> QED
    BY <2>1, <2>2, <2>3
<1>2. row.session \in Sessions \cup {None}
  BY <1>1 DEF TokenRows
<1>3. l \in {"commit", "replay", "cas"} /\ y \in {"not_found", "none"}
  OBVIOUS
<1>4. req' = [req EXCEPT ![c] = r]
  BY DEF ReadToken
<1>5. r \in Requests
  <2> HIDE DEF row, l, y
  <2> QED
    BY <1>1, <1>2, <1>3 DEF Requests, Places
<1>6. req' \in [Clients -> Requests] /\ req'[c] = r /\ Others(c)
  <2> HIDE DEF r
  <2> QED
    BY <1>4, <1>5, NewRequest DEF TypeInv, TypeOK
<1>7. /\ r.pc = l /\ r.session = row.session /\ r.reply = y /\ r.on = req[c].on
      /\ r.token = req[c].token /\ r.child = req[c].child
  <2> HIDE DEF row, l, y
  <2> QED
    BY <1>1 DEF Requests
<1> QED
  BY <1>2, <1>6, <1>7 DEF ReadToken

\* The compare-and-set succeeds exactly on a live token, and then uses it up.
LEMMA CasEffect ==
  ASSUME TypeInv, NEW c \in Clients, CompareAndSet(c)
  PROVE  /\ req' \in [Clients -> Requests] /\ Others(c) /\ req[c].pc = "cas"
         /\ req'[c].on = req[c].on /\ req'[c].token = req[c].token
         /\ req'[c].session = req[c].session /\ req'[c].child = req[c].child
         /\ req'[c].reply = req[c].reply
         /\ db' \in Databases /\ db'.session = db.session /\ db'.child = db.child
         /\ \/ ~Active(req[c].token) /\ db' = db /\ req'[c].pc = "replay"
            \/ /\ Active(req[c].token) /\ req'[c].pc = "insert"
               /\ db'.token = [db.token EXCEPT ![req[c].token].used = TRUE]
<1>1. req[c].token \in Tokens /\ db \in Databases /\ req \in [Clients -> Requests]
  BY DEF CompareAndSet, TypeInv, TypeOK, Placed, TxPlaces
<1>2. CASE Active(req[c].token)
  <2> DEFINE row == [db.token[req[c].token] EXCEPT !.used = TRUE]
  <2>1. row \in TokenRows
    <3>1. db.token[req[c].token] \in TokenRows
      BY <1>1 DEF Databases
    <3> QED
      BY <3>1 DEF TokenRows
  <2>2. db' = [db EXCEPT !.token[req[c].token] = row]
    BY <1>2 DEF CompareAndSet
  <2> HIDE DEF row
  <2>3. /\ db' \in Databases
        /\ db'.session = db.session /\ db'.child = db.child
        /\ db'.token = [db.token EXCEPT ![req[c].token] = row]
    BY <1>1, <2>1, <2>2, TokenWritten
  <2>4. Goto(c, "insert")
    BY <1>2 DEF CompareAndSet
  <2>5. GotoTo(c, "insert")
    BY <1>1, <2>4, GotoEffect DEF GotoTo, Places
  <2> QED
    BY <1>2, <2>3, <2>5 DEF row, CompareAndSet, GotoTo
<1>3. CASE ~Active(req[c].token)
  <2>1. Goto(c, "replay") /\ db' = db
    BY <1>3 DEF CompareAndSet
  <2>2. GotoTo(c, "replay")
    BY <1>1, <2>1, GotoEffect DEF GotoTo, Places
  <2> QED
    BY <1>1, <1>3, <2>1, <2>2 DEF CompareAndSet, GotoTo
<1> QED
  BY <1>2, <1>3

LEMMA ChildEffect ==
  ASSUME TypeInv, NEW c \in Clients, InsertChild(c)
  PROVE  /\ req' \in [Clients -> Requests] /\ Others(c) /\ req[c].pc = "insert"
         /\ minted' = minted + 1 /\ minted' \in Tokens
         /\ req'[c].pc = "cache" /\ req'[c].child = minted'
         /\ req'[c].on = req[c].on /\ req'[c].token = req[c].token
         /\ req'[c].session = req[c].session /\ req'[c].reply = req[c].reply
         /\ db' \in Databases /\ db'.session = db.session /\ db'.child = db.child
         /\ db'.token = [db.token EXCEPT ![minted'] =
              [session |-> req[c].session, parent |-> req[c].token, used |-> FALSE,
               revoked |-> FALSE]]
<1>1. /\ req[c].token \in Tokens /\ req[c].session \in Sessions /\ req[c].pc = "insert"
      /\ db \in Databases /\ req \in [Clients -> Requests] /\ req[c] \in Requests
  BY DEF InsertChild, TypeInv, TypeOK, Placed, TxPlaces, Rotating
<1>2. minted' = minted + 1 /\ minted' \in Tokens
  BY LimitAssumption DEF InsertChild, TypeInv, TypeOK, Tokens
<1> DEFINE row == [session |-> req[c].session, parent |-> req[c].token, used |-> FALSE,
                   revoked |-> FALSE]
           r == [req[c] EXCEPT !.pc = "cache", !.child = minted']
<1>3. row \in TokenRows /\ r \in Requests
  BY <1>1, <1>2 DEF TokenRows, Requests, Places
<1>4. db' = [db EXCEPT !.token[minted'] = row] /\ req' = [req EXCEPT ![c] = r]
  BY <1>2 DEF InsertChild, InsertToken
<1>5. /\ db' \in Databases
      /\ db'.session = db.session /\ db'.child = db.child
      /\ db'.token = [db.token EXCEPT ![minted'] = row]
  <2> HIDE DEF row
  <2> QED
    BY <1>1, <1>2, <1>3, <1>4, TokenWritten
<1>6. req' \in [Clients -> Requests] /\ req'[c] = r /\ Others(c)
  <2> HIDE DEF r
  <2> QED
    BY <1>1, <1>3, <1>4, NewRequest
<1> QED
  BY <1>1, <1>2, <1>5, <1>6 DEF Requests

LEMMA CacheEffect ==
  ASSUME TypeInv, NEW c \in Clients, CacheChild(c)
  PROVE  /\ req' \in [Clients -> Requests] /\ Others(c) /\ req[c].pc = "cache"
         /\ req'[c].pc = "commit" /\ req'[c].reply = "ok" /\ req'[c].child = req[c].child
         /\ req'[c].on = req[c].on /\ req'[c].token = req[c].token
         /\ req'[c].session = req[c].session
         /\ db' \in Databases /\ db'.session = db.session /\ db'.token = db.token
         /\ db'.child = [db.child EXCEPT ![req[c].token] = req[c].child]
<1>1. /\ req[c].token \in Tokens /\ req[c].child \in Tokens /\ req[c].pc = "cache"
      /\ db \in Databases /\ req \in [Clients -> Requests] /\ req[c] \in Requests
      /\ req[c].at \in Nat /\ req[c].at + Grace \in Nat
  BY LimitAssumption DEF CacheChild, TypeInv, TypeOK, Placed, TxPlaces, Requests
<1> DEFINE r == [req[c] EXCEPT !.pc = "commit", !.reply = "ok", !.at = 0]
<1>2. r \in Requests
  BY <1>1 DEF Requests, Places
<1>3. req' = [req EXCEPT ![c] = r]
  BY DEF CacheChild
<1>4. req' \in [Clients -> Requests] /\ req'[c] = r /\ Others(c)
  <2> HIDE DEF r
  <2> QED
    BY <1>1, <1>2, <1>3, NewRequest
<1>5. /\ db' \in Databases /\ db'.session = db.session /\ db'.token = db.token
      /\ db'.child = [db.child EXCEPT ![req[c].token] = req[c].child]
  BY <1>1 DEF CacheChild, Databases
<1> QED
  BY <1>1, <1>4, <1>5 DEF Requests

LEMMA ReplayEffect ==
  ASSUME TypeInv, NEW c \in Clients, Replay(c)
  PROVE  /\ req' \in [Clients -> Requests] /\ Others(c) /\ req[c].pc = "replay"
         /\ req'[c].on = req[c].on /\ req'[c].token = req[c].token
         /\ req'[c].session = req[c].session
         /\ \/ /\ req'[c].pc = "commit" /\ req'[c].reply = "ok"
               /\ req'[c].child = db.child[req[c].token] /\ req'[c].child \in Tokens
            \/ /\ req'[c].pc = "revoke" /\ req'[c].reply \in Reuse
               /\ req'[c].child = req[c].child
<1>1. /\ req[c].token \in Tokens /\ req[c].pc = "replay" /\ db \in Databases
      /\ req \in [Clients -> Requests] /\ req[c] \in Requests
  BY DEF Replay, TypeInv, TypeOK, Placed, TxPlaces
<1>2. CASE Cached(c)
  <2> DEFINE r == [req[c] EXCEPT !.pc = "commit", !.reply = "ok", !.at = 0,
                                 !.child = db.child[req[c].token]]
  <2>1. db.child[req[c].token] \in Tokens
    BY <1>1, <1>2 DEF Cached, Databases
  <2>2. r \in Requests
    BY <1>1, <2>1 DEF Requests, Places
  <2>3. req' = [req EXCEPT ![c] = r]
    BY <1>2 DEF Replay
  <2>4. req' \in [Clients -> Requests] /\ req'[c] = r /\ Others(c)
    <3> HIDE DEF r
    <3> QED
      BY <1>1, <2>2, <2>3, NewRequest
  <2> QED
    BY <1>1, <2>1, <2>4 DEF Requests
<1>3. CASE ~Cached(c)
  <2> DEFINE y == IF db.child[req[c].token] = None THEN "uncached" ELSE "expired"
             r == [req[c] EXCEPT !.pc = "revoke", !.at = 0, !.reply = y]
  <2>1. y \in Reuse
    BY DEF Reuse
  <2>2. r \in Requests
    <3> HIDE DEF y
    <3> QED
      BY <1>1, <2>1 DEF Requests, Places
  <2>3. req' = [req EXCEPT ![c] = r]
    BY <1>3 DEF Replay
  <2>4. req' \in [Clients -> Requests] /\ req'[c] = r /\ Others(c)
    <3> HIDE DEF r
    <3> QED
      BY <1>1, <2>2, <2>3, NewRequest
  <2> HIDE DEF y
  <2> QED
    BY <1>1, <2>1, <2>4 DEF Requests
<1> QED
  BY <1>2, <1>3

LEMMA SignOutEffect ==
  ASSUME TypeInv, NEW c \in Clients, SignOut(c)
  PROVE  /\ req' \in [Clients -> Requests] /\ Others(c) /\ req[c].pc = "idle"
         /\ req'[c].pc = "targets" /\ req'[c].reply = "none"
         /\ req'[c].done = req'[c].todo
         /\ \A s \in req'[c].todo : s \in Sessions /\ db.session[s] # "none"
<1>1. PICK s \in {g[2] : g \in given}, scope \in Scopes :
        /\ db.session[s] = "open"
        /\ LET all == {x \in Sessions : db.session[x] # "none"}
               targets == CASE scope = "local" -> {s} [] scope = "global" -> all
                            [] scope = "others" -> all \ {s}
           IN  req' = [req EXCEPT ![c] = [Idle EXCEPT !.pc = "targets", !.todo = targets,
                                                      !.done = targets]]
  BY DEF SignOut
<1> DEFINE all == {x \in Sessions : db.session[x] # "none"}
           targets == CASE scope = "local" -> {s} [] scope = "global" -> all
                        [] scope = "others" -> all \ {s}
           r == [Idle EXCEPT !.pc = "targets", !.todo = targets, !.done = targets]
<1>2. s \in Sessions /\ s \in all
  BY <1>1 DEF TypeInv, TypeOK
<1>3. targets \subseteq all
  BY <1>2 DEF Scopes
<1>4. req' = [req EXCEPT ![c] = r]
  BY <1>1
<1> HIDE DEF targets
<1>5. r \in Requests /\ r.pc = "targets" /\ r.reply = "none" /\ r.done = targets /\ r.todo = targets
  BY <1>3, IdleType DEF Requests, Places, Idle
<1> HIDE DEF r
<1>6. req' \in [Clients -> Requests] /\ req'[c] = r /\ Others(c)
  BY <1>4, <1>5, NewRequest DEF TypeInv, TypeOK
<1> QED
  BY <1>3, <1>5, <1>6 DEF SignOut

LEMMA TargetEffect ==
  ASSUME TypeInv, NEW c \in Clients, EndTarget(c)
  PROVE  /\ req' \in [Clients -> Requests] /\ Others(c) /\ req[c].pc = "targets"
         /\ req'[c].pc = "tokens" /\ req'[c].reply = req[c].reply
         /\ req'[c].child = req[c].child
         /\ req'[c].done = req[c].done
         /\ req'[c].session \in req[c].todo /\ req'[c].session \in Sessions
         /\ req'[c].todo = req[c].todo \ {req'[c].session}
         /\ db' \in Databases /\ db'.token = db.token /\ db'.child = db.child
         /\ \A x \in Sessions : db'.session[x] =
              IF x = req'[c].session /\ db.session[x] # "none" THEN "ended" ELSE db.session[x]
<1>1. PICK s \in req[c].todo :
        /\ EndSession(s)
        /\ req' = [req EXCEPT ![c].pc = "tokens", ![c].session = s, ![c].todo = @ \ {s}]
  BY DEF EndTarget
<1>2. req[c] \in Requests /\ s \in Sessions /\ db \in Databases /\ req[c].pc = "targets"
  BY DEF TypeInv, TypeOK, Requests, EndTarget
<1> DEFINE r == [req[c] EXCEPT !.pc = "tokens", !.session = s, !.todo = req[c].todo \ {s}]
<1>3. /\ r \in Requests /\ r.pc = "tokens" /\ r.session = s /\ r.todo = req[c].todo \ {s}
      /\ r.done = req[c].done /\ r.reply = req[c].reply /\ r.child = req[c].child
  BY <1>2 DEF Requests, Places
<1>4. req' = [req EXCEPT ![c] = r]
  BY <1>1
<1> HIDE DEF r
<1>5. req' \in [Clients -> Requests] /\ req'[c] = r /\ Others(c)
  BY <1>3, <1>4, NewRequest DEF TypeInv, TypeOK
<1> QED
  BY <1>1, <1>2, <1>3, <1>5, EndEffect

--------------------------------------------------------------------------------
(* Type correctness.                                                          *)

LEMMA TypeInit == Init => TypeInv
<1> SUFFICES ASSUME Init PROVE TypeInv
  OBVIOUS
<1>1. TypeOK
  BY EmptyType, IdleType, LimitAssumption DEF Init, TypeOK
<1>2. \A c \in Clients : Placed(req[c])
  BY DEF Init, Placed, Idle, TxPlaces, Rotating
<1> QED
  BY <1>1, <1>2 DEF TypeInv

\* What the steps that return an answer write outside the tables.
LEMMA DeliverType ==
  ASSUME TypeInv, NEW c \in Clients, req[c].pc = "commit",
         Deliver(c) \/ UNCHANGED <<given, answers, reused>>
  PROVE  /\ given' \in SUBSET (Tokens \X Sessions)
         /\ answers' \in [Tokens -> SUBSET Tokens]
         /\ reused' \subseteq Sessions \X Reuse
<1>1. CASE UNCHANGED <<given, answers, reused>>
  BY <1>1 DEF TypeInv, TypeOK
<1>2. CASE Deliver(c)
  <2>1. /\ req[c].token \in Tokens
        /\ req[c].reply = "ok" => req[c].child \in Tokens
        /\ req[c].reply # "not_found" => req[c].session \in Sessions
    BY DEF TypeInv, Placed, TxPlaces
  <2>2. /\ given \in SUBSET (Tokens \X Sessions) /\ answers \in [Tokens -> SUBSET Tokens]
        /\ reused \subseteq Sessions \X Reuse
    BY DEF TypeInv, TypeOK
  <2>3. given' \in SUBSET (Tokens \X Sessions)
    BY <1>2, <2>1, <2>2 DEF Deliver
  <2>4. answers' \in [Tokens -> SUBSET Tokens]
    BY <1>2, <2>1, <2>2 DEF Deliver
  <2>5. reused' \subseteq Sessions \X Reuse
    BY <1>2, <2>1, <2>2 DEF Deliver, Reuse
  <2> QED
    BY <2>3, <2>4, <2>5
<1> QED
  BY <1>1, <1>2

LEMMA TypeStep ==
  ASSUME TypeInv, NEW c \in Clients,
         IssueSession(c) \/ Rotate(c) \/ RevokeSessions(c) \/ Fail(c)
  PROVE  TypeInv'
<1> USE DEF TypeInv
<1>a. ASSUME Others(c), Placed(req'[c])
      PROVE  \A d \in Clients : Placed(req'[d])
  BY <1>a DEF Others
<1>b. Placed(Idle)
  BY DEF Placed, Idle, TxPlaces, Rotating
<1>1. CASE Login(c)
  <2>1. opened' \in 0..MaxSessions /\ opened' \in Sessions
    BY <1>1, LoginEffect, LimitAssumption DEF Sessions
  <2>2. req'[c] = [Idle EXCEPT !.pc = "root", !.session = opened']
    BY <1>1, LoginEffect
  <2>3. Placed(req'[c])
    BY <2>1, <2>2 DEF Placed, TxPlaces, Rotating, Idle
  <2> QED
    BY <1>1, <1>a, <2>1, <2>3, LoginEffect DEF Login, TypeOK
<1>2. CASE InsertRoot(c)
  <2>0. minted' \in Tokens
    BY <1>2, RootEffect
  <2>1. minted' \in 0..MaxTokens
    BY <2>0, LimitAssumption DEF Tokens
  <2> QED
    BY <1>2, <1>a, <1>b, <2>1, RootEffect DEF InsertRoot, TypeOK
<1>3. CASE Begin(c)
  <2>0. PICK g \in given, i \in Instances \ open :
          /\ req'[c] = [Idle EXCEPT !.pc = "read", !.token = g[1], !.on = i]
          /\ g[1] \in Tokens
          /\ open' = open \cup {i}
    BY <1>3, BeginEffect
  <2>1. req' \in [Clients -> Requests] /\ Others(c) /\ open' \subseteq Instances
    BY <1>3, <2>0, BeginEffect DEF TypeOK
  <2>2. Placed(req'[c])
    BY <2>0 DEF Placed, TxPlaces, Rotating, Idle
  <2> QED
    BY <1>3, <1>a, <2>1, <2>2 DEF Begin, TypeOK
<1>4. CASE ReadToken(c)
  <2>1. req' \in [Clients -> Requests] /\ Others(c)
    BY <1>4, ReadEffect
  <2>2. Placed(req'[c])
    BY <1>4, ReadEffect DEF Placed, TxPlaces, Rotating
  <2> QED
    BY <1>4, <1>a, <2>1, <2>2 DEF ReadToken, TypeOK
<1>5. CASE CompareAndSet(c)
  BY <1>5, <1>a, CasEffect DEF CompareAndSet, TypeOK, Placed, TxPlaces, Rotating
<1>6. CASE InsertChild(c)
  <2>0. minted' \in Tokens
    BY <1>6, ChildEffect
  <2>1. minted' \in 0..MaxTokens
    BY <2>0, LimitAssumption DEF Tokens
  <2>2. Placed(req'[c])
    BY <1>6, ChildEffect DEF Placed, TxPlaces, Rotating
  <2> QED
    BY <1>6, <1>a, <2>1, <2>2, ChildEffect DEF InsertChild, TypeOK
<1>7. CASE CacheChild(c)
  BY <1>7, <1>a, CacheEffect DEF CacheChild, TypeOK, Placed, TxPlaces, Rotating
<1>8. CASE Replay(c)
  <2>1. req[c].token \in Tokens /\ req[c].on \in Instances /\ req[c].session \in Sessions
    BY <1>8 DEF Replay, Placed, TxPlaces, Rotating
  <2>2. /\ req'[c].on = req[c].on /\ req'[c].token = req[c].token
        /\ req'[c].session = req[c].session
        /\ \/ req'[c].pc = "commit" /\ req'[c].child \in Tokens
           \/ req'[c].pc = "revoke" /\ req'[c].reply \in Reuse
    BY <1>8, ReplayEffect
  <2>4. Placed(req'[c])
    BY <2>1, <2>2 DEF Placed, TxPlaces, Rotating, Reuse
  <2> QED
    BY <1>8, <1>a, <2>4, ReplayEffect DEF Replay, TypeOK
<1>9. CASE RevokeFamily(c) \/ RevokeTarget(c)
  <2>1. req[c].session \in Sessions
    BY <1>9 DEF RevokeFamily, RevokeTarget, Placed, Rotating
  <2>2. db' \in Databases
    BY <1>9, <2>1, RevokeEffect DEF RevokeFamily, RevokeTarget, TypeOK
  <2>3. req' \in [Clients -> Requests] /\ Others(c) /\ Placed(req'[c])
    BY <1>9, <2>1, GotoEffect
    DEF RevokeFamily, RevokeTarget, TypeOK, Placed, TxPlaces, Rotating, Places
  <2> QED
    BY <1>9, <1>a, <2>2, <2>3 DEF RevokeFamily, RevokeTarget, TypeOK
<1>10. CASE EndFamily(c)
  <2>1. req[c].session \in Sessions
    BY <1>10 DEF EndFamily, Placed, Rotating
  <2>2. db' \in Databases
    BY <1>10, <2>1, EndEffect DEF EndFamily, TypeOK
  <2>3. req' \in [Clients -> Requests] /\ Others(c) /\ Placed(req'[c])
    BY <1>10, <2>1, GotoEffect DEF EndFamily, TypeOK, Placed, TxPlaces, Rotating, Places
  <2> QED
    BY <1>10, <1>a, <2>2, <2>3 DEF EndFamily, TypeOK
<1>11. CASE Commit(c)
  <2>1. saved' \in Databases /\ open' \subseteq Instances
    BY <1>11, EmptyType, CloseEffect DEF Commit, TypeOK
  <2>2. /\ given' \in SUBSET (Tokens \X Sessions) /\ answers' \in [Tokens -> SUBSET Tokens]
        /\ reused' \subseteq Sessions \X Reuse
    BY <1>11, DeliverType DEF Commit
  <2> QED
    BY <1>11, <1>a, <1>b, <2>1, <2>2, FinishEffect DEF Commit, TypeOK
<1>12. CASE SignOut(c)
  BY <1>12, <1>a, SignOutEffect DEF SignOut, TypeOK, Placed, TxPlaces, Rotating
<1>13. CASE EndTarget(c)
  <2>1. /\ req' \in [Clients -> Requests] /\ Others(c) /\ db' \in Databases
        /\ req'[c].pc = "tokens" /\ req'[c].reply = req[c].reply
        /\ req'[c].child = req[c].child /\ req'[c].session \in Sessions
    BY <1>13, TargetEffect
  <2>2. Placed(req'[c])
    BY <2>1 DEF Placed, TxPlaces, Rotating
  <2> QED
    BY <1>13, <1>a, <2>1, <2>2 DEF EndTarget, TypeOK
<1>14. CASE AnswerSignOut(c)
  BY <1>14, <1>a, <1>b, FinishEffect DEF AnswerSignOut, TypeOK, Requests
<1>15. CASE Fail(c)
  <2>1. saved' \in Databases /\ open' \subseteq Instances
    BY <1>15, EmptyType, CloseEffect DEF Fail, TypeOK
  <2> QED
    BY <1>15, <1>a, <1>b, <2>1, FinishEffect DEF Fail, TypeOK
<1> QED
  BY <1>1, <1>2, <1>3, <1>4, <1>5, <1>6, <1>7, <1>8, <1>9, <1>10, <1>11, <1>12, <1>13, <1>14,
     <1>15 DEF IssueSession, Rotate, RevokeSessions

\* Type correctness, and with it that every request has at hand what its next
\* statement names: for every number of requests, sessions and tokens, on SQLite
\* and on D1.
THEOREM AuthTypeCorrect == Spec => []TypeOK
<1>1. TypeInv /\ [Next]_vars => TypeInv'
  <2> SUFFICES ASSUME TypeInv, [Next]_vars PROVE TypeInv'
    OBVIOUS
  <2>1. CASE Tick
    BY <2>1, LimitAssumption DEF Tick, TypeInv, TypeOK
  <2>2. CASE UNCHANGED vars
    BY <2>2 DEF TypeInv, TypeOK
  <2> QED
    BY <2>1, <2>2, TypeStep DEF Next
<1>2. TypeInv => TypeOK
  BY DEF TypeInv
<1> QED
  BY TypeInit, <1>1, <1>2, PTL DEF Spec

--------------------------------------------------------------------------------
(* Transactions: an instance has at most one open, and on SQLite there is one *)
(* instance.                                                                  *)

TxInv ==
  /\ \A c \in Clients : InTx(c) => req[c].on \in open
  /\ \A c, d \in Clients : InTx(c) /\ InTx(d) /\ req[c].on = req[d].on => c = d
  /\ Db = "d1" => saved = EmptyDb

\* The steps between BEGIN and the end of a transaction, and those outside of one.
Inner(c) ==
  \/ IssueSession(c) \/ RevokeSessions(c) \/ ReadToken(c) \/ CompareAndSet(c)
  \/ InsertChild(c) \/ CacheChild(c) \/ Replay(c) \/ RevokeFamily(c) \/ EndFamily(c)

LEMMA InnerEffect ==
  ASSUME TypeInv, NEW c \in Clients, Inner(c)
  PROVE  /\ Others(c) /\ open' = open /\ saved' = saved
         /\ InTx(c)' => InTx(c) /\ req'[c].on = req[c].on
<1>0. TypeInv /\ req \in [Clients -> Requests]
  BY DEF TypeInv, TypeOK
<1>1. CASE Login(c)
  <2>1. req'[c] = [Idle EXCEPT !.pc = "root", !.session = opened'] /\ Others(c)
    BY <1>1, LoginEffect
  <2> QED
    BY <1>1, <2>1 DEF Login, InTx, Idle
<1>2. CASE InsertRoot(c)
  <2>1. req'[c] = Idle /\ Others(c)
    BY <1>2, RootEffect
  <2> QED
    BY <1>2, <2>1 DEF InsertRoot, InTx, Idle
<1>3. CASE ReadToken(c)
  <2>1. Others(c) /\ req[c].pc = "read" /\ req'[c].on = req[c].on
    BY <1>3, ReadEffect
  <2> QED
    BY <1>3, <2>1 DEF ReadToken, InTx
<1>4. CASE CompareAndSet(c)
  <2>1. Others(c) /\ req[c].pc = "cas" /\ req'[c].on = req[c].on
    BY <1>4, CasEffect
  <2> QED
    BY <1>4, <2>1 DEF CompareAndSet, InTx
<1>5. CASE InsertChild(c)
  <2>1. Others(c) /\ req[c].pc = "insert" /\ req'[c].on = req[c].on
    BY <1>5, ChildEffect
  <2> QED
    BY <1>5, <2>1 DEF InsertChild, InTx
<1>6. CASE CacheChild(c)
  <2>1. Others(c) /\ req[c].pc = "cache" /\ req'[c].on = req[c].on
    BY <1>6, CacheEffect
  <2> QED
    BY <1>6, <2>1 DEF CacheChild, InTx
<1>7. CASE Replay(c)
  <2>1. Others(c) /\ req[c].pc = "replay" /\ req'[c].on = req[c].on
    BY <1>7, ReplayEffect
  <2> QED
    BY <1>7, <2>1 DEF Replay, InTx
<1>8. CASE RevokeFamily(c) \/ EndFamily(c)
  <2>1. Others(c) /\ req'[c].on = req[c].on /\ req[c].pc \in {"revoke", "end"}
    BY <1>0, <1>8, GotoEffect DEF RevokeFamily, EndFamily, Places
  <2> QED
    BY <1>8, <2>1 DEF RevokeFamily, EndFamily, InTx
<1>9. CASE SignOut(c)
  <2>1. Others(c) /\ req'[c].pc = "targets"
    BY <1>9, SignOutEffect
  <2> QED
    BY <1>9, <2>1 DEF SignOut, InTx
<1>10. CASE EndTarget(c)
  <2>1. Others(c) /\ req'[c].pc = "tokens"
    BY <1>10, TargetEffect
  <2> QED
    BY <1>10, <2>1 DEF EndTarget, InTx
<1>11. CASE RevokeTarget(c)
  <2>1. Others(c) /\ req'[c].pc = "targets"
    BY <1>0, <1>11, GotoEffect DEF RevokeTarget, Places
  <2> QED
    BY <1>11, <2>1 DEF RevokeTarget, InTx
<1>12. CASE AnswerSignOut(c)
  <2>1. Others(c) /\ req'[c] = Idle
    BY <1>0, <1>12, FinishEffect DEF AnswerSignOut
  <2> QED
    BY <1>12, <2>1 DEF AnswerSignOut, InTx, Idle
<1> QED
  BY <1>1, <1>2, <1>3, <1>4, <1>5, <1>6, <1>7, <1>8, <1>9, <1>10, <1>11, <1>12
  DEF Inner, IssueSession, RevokeSessions

LEMMA TxStep ==
  ASSUME TypeInv, TxInv, NEW c \in Clients, Inner(c) \/ Begin(c) \/ Commit(c) \/ Fail(c)
  PROVE  TxInv'
<1>0. req \in [Clients -> Requests]
  BY DEF TypeInv, TypeOK
<1>1. CASE Inner(c)
  <2>1. /\ Others(c) /\ open' = open /\ saved' = saved
        /\ InTx(c)' => InTx(c) /\ req'[c].on = req[c].on
    BY <1>1, InnerEffect
  <2>2. \A d \in Clients : InTx(d)' => InTx(d) /\ req'[d].on = req[d].on
    BY <2>1 DEF Others, InTx
  <2> QED
    BY <2>1, <2>2 DEF TxInv
<1>2. CASE Begin(c)
  <2>1. PICK i \in Instances \ open : Others(c) /\ req'[c].on = i /\ open' = open \cup {i}
    BY <1>2, BeginEffect, IdleType, ZenonT(60) DEF Requests
  <2>2. \A d \in Clients : d # c /\ InTx(d)' => InTx(d) /\ req'[d].on = req[d].on
    BY <2>1 DEF Others, InTx
  <2>3. Db = "d1" => saved' = saved
    BY <1>2 DEF Begin
  <2> QED
    BY <2>1, <2>2, <2>3 DEF TxInv
<1>3. CASE Commit(c) \/ Fail(c)
  <2>1. Others(c) /\ req'[c] = Idle
    BY <1>0, <1>3, FinishEffect DEF Commit, Fail
  <2>2. \A d \in Clients : InTx(d)' => d # c /\ InTx(d) /\ req'[d].on = req[d].on
    BY <2>1 DEF Others, InTx, Idle
  <2>3. CASE InTx(c)
    <3>1. open' = open \ {req[c].on} /\ (Db = "d1" => saved' = saved)
      BY <1>3, <2>3 DEF Commit, Fail, CloseTx
    <3> QED
      BY <2>2, <2>3, <3>1 DEF TxInv
  <2>4. CASE ~InTx(c)
    <3>1. open' = open /\ saved' = saved
      BY <1>3, <2>4 DEF Commit, Fail, InTx
    <3> QED
      BY <2>2, <3>1 DEF TxInv
  <2> QED
    BY <2>3, <2>4
<1> QED
  BY <1>1, <1>2, <1>3

LEMMA OneTransaction ==
  ASSUME TypeInv, TxInv, Db = "sqlite"
  PROVE  /\ \A c, d \in Clients : InTx(c) /\ InTx(d) => c = d
         /\ \A c \in Clients : InTx(c) => open # {} /\ open \ {req[c].on} = {}
         /\ \A c \in Clients : (\E i \in Instances : i \notin open) => ~InTx(c)
<1>1. \A c \in Clients : InTx(c) => req[c].on \in Instances
  BY DEF InTx, TypeInv, Placed, TxPlaces
<1>2. open \subseteq Instances /\ \A i, j \in Instances : i = j
  BY OneProcess DEF TypeInv, TypeOK
<1> QED
  BY <1>1, <1>2 DEF TxInv

--------------------------------------------------------------------------------
(* The tables.  D is what the connection sees, or what a ROLLBACK restores; o *)
(* sessions and m tokens have been handed out, and R are the requests.        *)

\* Rows were handed out, a token row has its session row, and what has a cached
\* child was used.
Keyed(D, o, m) ==
  /\ \A s \in Sessions : D.session[s] # "none" => s <= o
  /\ \A t \in Tokens : D.token[t].session # None =>
       t <= m /\ D.session[D.token[t].session] # "none"
  /\ \A t \in Tokens : D.child[t] # None => D.token[t].session # None /\ D.token[t].used

\* A family has at most one token that was not used.
OneUnused(D) ==
  \A t, u \in Tokens :
    /\ D.token[t].session # None /\ D.token[t].session = D.token[u].session
    /\ ~D.token[t].used /\ ~D.token[u].used
    => t = u

\* A session whose first token is still to be inserted has none.
RootFree(D, R) ==
  \A c \in Clients : R[c].pc = "root" => \A t \in Tokens : D.token[t].session # R[c].session

Tables(D, o, m, R) == Keyed(D, o, m) /\ OneUnused(D) /\ RootFree(D, R)

\* No two requests insert the first token of one session.
Roots(o, R) ==
  \A c, d \in Clients : R[c].pc = "root" =>
    /\ R[c].session <= o
    /\ R[d].pc = "root" /\ R[d].session = R[c].session => c = d

LEMMA TablesEmpty ==
  ASSUME NEW o, NEW m, NEW R, \A c \in Clients : R[c].pc = "root" => R[c].session \in Sessions
  PROVE  Tables(EmptyDb, o, m, R)
<1>1. /\ \A t \in Tokens : EmptyDb.token[t].session = None /\ EmptyDb.child[t] = None
      /\ \A s \in Sessions : EmptyDb.session[s] = "none"
  BY DEF EmptyDb, NoTokenRow
<1>2. None \notin Sessions
  BY DEF None, Sessions
<1> QED
  BY <1>1, <1>2 DEF Tables, Keyed, OneUnused, RootFree

\* Rows are marked, cached or added to the sessions: no token row comes or goes.
Marked(D, E, p) ==
  /\ \A s \in Sessions : D.session[s] # "none" => E.session[s] # "none"
  /\ \A s \in Sessions : E.session[s] # "none" => D.session[s] # "none" \/ s <= p
  /\ \A t \in Tokens : E.token[t].session = D.token[t].session
  /\ \A t \in Tokens : D.token[t].used => E.token[t].used
  /\ \A t \in Tokens : E.child[t] # None =>
       D.child[t] # None \/ (D.token[t].session # None /\ E.token[t].used)

\* A token row is inserted into a family of which every token was used.
Inserted(D, E, n, row) ==
  /\ E.session = D.session /\ E.child = D.child /\ E.token = [D.token EXCEPT ![n] = row]
  /\ row.session \in Sessions /\ D.session[row.session] # "none"
  /\ \A t \in Tokens : D.token[t].session = row.session => D.token[t].used

\* A request that waits to insert a first token has waited, or has a new session.
RootsFrom(o, R, S) ==
  \A c \in Clients : S[c].pc = "root" =>
    S[c].session > o \/ (R[c].pc = "root" /\ R[c].session = S[c].session)

LEMMA TablesMarked ==
  ASSUME NEW D \in Databases, NEW E \in Databases, NEW o \in Nat, NEW m \in Nat,
         NEW p \in Nat, NEW n \in Nat, NEW R, NEW S,
         Tables(D, o, m, R), o <= p, m <= n, Marked(D, E, p), RootsFrom(o, R, S)
  PROVE  Tables(E, p, n, S)
<1> USE DEF Marked, RootsFrom
<1>1. \A t \in Tokens : D.token[t].session # None => D.token[t].session \in Sessions
  BY DEF Databases, TokenRows
<1>2. \A t \in Tokens : D.token[t].session # None => D.token[t].session <= o
  BY <1>1 DEF Tables, Keyed
<1>3. Keyed(E, p, n)
  BY <1>1 DEF Tables, Keyed, Sessions, Tokens
<1>4. OneUnused(E)
  BY DEF Tables, OneUnused
<1>5. RootFree(E, S)
  <2> SUFFICES ASSUME NEW c \in Clients, S[c].pc = "root", NEW t \in Tokens,
                      D.token[t].session = S[c].session
               PROVE  FALSE
    BY DEF RootFree
  <2>1. CASE R[c].pc = "root" /\ R[c].session = S[c].session
    BY <2>1 DEF Tables, RootFree
  <2>2. CASE S[c].session > o
    BY <1>1, <1>2, <2>2 DEF Sessions, None
  <2> QED
    BY <2>1, <2>2
<1> QED
  BY <1>3, <1>4, <1>5 DEF Tables

LEMMA TablesKept ==
  ASSUME NEW D \in Databases, NEW o \in Nat, NEW m \in Nat, NEW p \in Nat, NEW n \in Nat,
         NEW R, NEW S, Tables(D, o, m, R), o <= p, m <= n, RootsFrom(o, R, S)
  PROVE  Tables(D, p, n, S)
<1>1. Marked(D, D, p)
  BY DEF Marked
<1> QED
  BY <1>1, TablesMarked

\* The pending logins are among the earlier ones, and none is for session s.
RootsBut(R, S, s) ==
  \A c \in Clients : S[c].pc = "root" =>
    R[c].pc = "root" /\ R[c].session = S[c].session /\ S[c].session # s

LEMMA TablesInserted ==
  ASSUME NEW D \in Databases, NEW E \in Databases, NEW o \in Nat, NEW m \in Nat,
         NEW R, NEW S, NEW row \in TokenRows,
         Tables(D, o, m, R), m + 1 \in Tokens, Inserted(D, E, m + 1, row),
         RootsBut(R, S, row.session)
  PROVE  Tables(E, o, m + 1, S)
<1> USE DEF Inserted, RootsBut
<1>1. /\ E.token[m + 1] = row
      /\ \A t \in Tokens : t # m + 1 => E.token[t] = D.token[t]
  BY DEF Databases
<1>2. D.token[m + 1].session = None /\ D.child[m + 1] = None
  BY DEF Tables, Keyed
<1>3. Keyed(E, o, m + 1)
  BY <1>1, <1>2 DEF Tables, Keyed, Tokens
<1>4. OneUnused(E)
  BY <1>1, <1>2 DEF Tables, OneUnused, Sessions, None
<1>5. RootFree(E, S)
  BY <1>1 DEF Tables, RootFree
<1> QED
  BY <1>3, <1>4, <1>5 DEF Tables

TablesInv ==
  /\ Tables(db, opened, minted, req) /\ Tables(saved, opened, minted, req)
  /\ Roots(opened, req)

\* What a rotation knows of the rows it works on.
Held(D, r) ==
  /\ r.pc \in Rotating => D.token[r.token].session = r.session
  /\ r.pc = "insert" => \A t \in Tokens : D.token[t].session = r.session => D.token[t].used
  /\ r.pc \in {"insert", "cache"} => D.token[r.token].used /\ D.child[r.token] = None
  /\ r.pc = "commit" /\ r.reply = "ok" => D.child[r.token] = r.child

\* A used token has one request that makes its child, and a family one.
Apart(R) ==
  \A c, d \in Clients :
    /\ R[c].pc = "insert" /\ R[d].pc = "insert" /\ R[c].session = R[d].session => c = d
    /\ /\ R[c].pc \in {"insert", "cache"} /\ R[d].pc \in {"insert", "cache"}
       /\ R[c].token = R[d].token
       => c = d

HeldInv == (\A c \in Clients : Held(db, req[c])) /\ Apart(req)

\* Every child that was answered is the cached one, and stays that.
Answered(A, D) == \A t \in Tokens : \A n \in A[t] : n = D.child[t] /\ n # None

AnswerInv ==
  /\ Answered(answers, db)
  /\ Db = "sqlite" /\ open # {} => Answered(answers, saved)

ChainInv == TypeInv /\ TxInv /\ TablesInv /\ HeldInv /\ AnswerInv

LEMMA ChainInit == Init => ChainInv
<1> SUFFICES ASSUME Init PROVE ChainInv
  OBVIOUS
<1>1. TypeInv
  BY TypeInit
<1>2. \A c \in Clients : req[c] = Idle /\ req[c].pc = "idle"
  BY DEF Init, Idle
<1>3. TxInv
  BY <1>2 DEF Init, TxInv, InTx
<1>4. TablesInv
  BY <1>2, TablesEmpty DEF Init, TablesInv, Roots
<1>5. HeldInv
  BY <1>2 DEF HeldInv, Held, Apart, Rotating
<1>6. AnswerInv
  BY DEF Init, AnswerInv, Answered
<1> QED
  BY <1>1, <1>3, <1>4, <1>5, <1>6 DEF ChainInv

\* Rows are marked, inserted elsewhere, or cached for other tokens: a request
\* keeps what it knows.
Undisturbed(D, E, r) ==
  /\ \A t \in Tokens : D.token[t].session # None => E.token[t].session = D.token[t].session
  /\ \A t \in Tokens : D.token[t].session # None /\ D.token[t].used => E.token[t].used
  /\ r.pc = "insert" => \A t \in Tokens :
       E.token[t].session = r.session => D.token[t].session = r.session \/ E.token[t].used
  /\ \A t \in Tokens : E.child[t] # D.child[t] => D.child[t] = None
  /\ r.pc \in {"insert", "cache"} => E.child[r.token] = D.child[r.token]

LEMMA HeldKept ==
  ASSUME NEW D \in Databases, NEW E \in Databases, NEW r \in Requests, Placed(r), Held(D, r),
         Undisturbed(D, E, r)
  PROVE  Held(E, r)
<1> USE DEF Undisturbed
<1>1. None \notin Sessions /\ None \notin Tokens
  BY DEF None, Sessions, Tokens
<1>2. CASE r.pc \in Rotating
  <2>1. r.token \in Tokens /\ r.session \in Sessions /\ r.pc # "commit"
    BY <1>2 DEF Placed, Rotating, TxPlaces
  <2> QED
    BY <1>1, <1>2, <2>1 DEF Held, Rotating
<1>3. CASE r.pc = "commit" /\ r.reply = "ok"
  <2>1. r.token \in Tokens /\ r.child \in Tokens
    BY <1>3 DEF Placed, TxPlaces
  <2> QED
    BY <1>1, <1>3, <2>1 DEF Held, Rotating
<1> QED
  BY <1>2, <1>3 DEF Held, Rotating

LEMMA TablesStep ==
  ASSUME ChainInv, NEW c \in Clients,
         IssueSession(c) \/ Rotate(c) \/ RevokeSessions(c) \/ Fail(c), TypeInv'
  PROVE  TablesInv'
<1>0. /\ TypeInv /\ db \in Databases /\ saved \in Databases /\ opened \in Nat /\ minted \in Nat
      /\ req \in [Clients -> Requests] /\ Tables(db, opened, minted, req)
      /\ Tables(saved, opened, minted, req) /\ Roots(opened, req)
  BY DEF ChainInv, TypeInv, TypeOK, TablesInv
<1>1. /\ db' \in Databases /\ saved' \in Databases /\ opened' \in Nat /\ minted' \in Nat
      /\ \A d \in Clients : req'[d].pc = "root" => req'[d].session \in Sessions
  BY DEF TypeInv, TypeOK, Placed, Rotating
\* No request sets out for a first token.
<1>a. ASSUME Others(c), req'[c].pc # "root", opened' = opened,
             minted' = minted \/ minted' = minted + 1
      PROVE  /\ \A d \in Clients : req'[d].pc = "root" =>
                  d # c /\ req[d].pc = "root" /\ req[d].session = req'[d].session
             /\ RootsFrom(opened, req, req')
             /\ Roots(opened', req')
             /\ saved' = saved => Tables(saved', opened', minted', req')
             /\ saved' = EmptyDb => Tables(saved', opened', minted', req')
  <2>1. \A d \in Clients : req'[d].pc = "root" =>
                  d # c /\ req[d].pc = "root" /\ req[d].session = req'[d].session
    BY <1>a DEF Others
  <2>2. Roots(opened', req')
    BY <1>0, <1>a, <2>1 DEF Roots
  <2>3. opened <= opened' /\ minted <= minted' /\ RootsFrom(opened, req, req')
    BY <1>0, <1>a, <2>1 DEF RootsFrom
  <2>4. ASSUME saved' = saved PROVE Tables(saved', opened', minted', req')
    BY <1>0, <1>1, <2>3, <2>4, TablesKept
  <2>5. ASSUME saved' = EmptyDb PROVE Tables(saved', opened', minted', req')
    BY <1>1, <2>5, TablesEmpty
  <2> QED
    BY <2>1, <2>2, <2>3, <2>4, <2>5
\* The tables are as they were.
<1>b. ASSUME Others(c), req'[c].pc # "root", opened' = opened, minted' = minted, db' = db
      PROVE  Tables(db', opened', minted', req')
  BY <1>0, <1>1, <1>a, <1>b, TablesKept
\* Rows are marked.
<1>c. ASSUME Others(c), req'[c].pc # "root", opened' = opened, minted' = minted, saved' = saved,
             \A s \in Sessions : db'.session[s] = db.session[s] \/
                                  (db.session[s] # "none" /\ db'.session[s] # "none"),
             \A t \in Tokens : db'.token[t].session = db.token[t].session,
             \A t \in Tokens : db.token[t].used => db'.token[t].used,
             \A t \in Tokens : db'.child[t] # None =>
               db.child[t] # None \/ (db.token[t].session # None /\ db'.token[t].used)
      PROVE  TablesInv'
  <2>1. Marked(db, db', opened')
    BY <1>c DEF Marked
  <2>2. Tables(db', opened', minted', req')
    BY <1>0, <1>1, <1>a, <1>c, <2>1, TablesMarked
  <2> QED
    BY <1>a, <1>c, <2>2 DEF TablesInv
<1>2. CASE Login(c)
  <2>0. req'[c] = [Idle EXCEPT !.pc = "root", !.session = opened']
    BY <1>0, <1>2, LoginEffect
  <2>1. /\ Others(c) /\ opened' = opened + 1 /\ opened' \in Sessions
        /\ db'.token = db.token /\ db'.child = db.child
        /\ db'.session = [db.session EXCEPT ![opened'] = "open"]
        /\ minted' = minted /\ saved' = saved
    BY <1>0, <1>2, LoginEffect DEF Login
  <2>2. req'[c].pc = "root" /\ req'[c].session = opened' /\ req'[c].session > opened
    BY <1>0, <2>0, <2>1 DEF Idle
  <2>3. \A d \in Clients : req'[d].pc = "root" =>
          \/ req'[d].session > opened /\ d = c
          \/ req[d].pc = "root" /\ req[d].session = req'[d].session /\ d # c
    BY <1>0, <2>1, <2>2 DEF Others
  <2>4. Roots(opened', req')
    BY <1>0, <1>1, <2>1, <2>2, <2>3 DEF Roots, Sessions
  <2>5. opened <= opened' /\ minted <= minted' /\ RootsFrom(opened, req, req')
    BY <1>0, <2>1, <2>3 DEF RootsFrom
  <2>6. Tables(saved', opened', minted', req')
    BY <1>0, <1>1, <2>1, <2>5, TablesKept
  <2>7. Marked(db, db', opened')
    BY <1>0, <1>1, <2>1 DEF Marked, Databases, Sessions
  <2>8. Tables(db', opened', minted', req')
    BY <1>0, <1>1, <2>5, <2>7, TablesMarked
  <2> QED
    BY <2>4, <2>6, <2>8 DEF TablesInv
<1>3. CASE InsertRoot(c)
  <2>1. /\ Others(c) /\ req'[c] = Idle /\ minted' = minted + 1 /\ minted' \in Tokens
        /\ db'.session = db.session /\ db'.child = db.child
        /\ opened' = opened /\ saved' = saved /\ req[c].pc = "root"
    BY <1>0, <1>3, RootEffect DEF InsertRoot
  <2>2. req'[c].pc # "root"
    BY <2>1 DEF Idle
  <2>3. req[c].session \in Sessions
    BY <1>0, <2>1 DEF TypeInv, Placed
  <2>4. CASE db'.token = db.token
    <3>1. \A t \in Tokens : db'.token[t] = db.token[t] /\ db'.child[t] = db.child[t]
      BY <2>1, <2>4
    <3>2. \A s \in Sessions : db'.session[s] = db.session[s]
      BY <2>1
    <3>3. minted <= minted' /\ opened <= opened' /\ RootsFrom(opened, req, req')
      BY <1>0, <1>a, <2>1, <2>2
    <3>4. Marked(db, db', opened')
      BY <3>1, <3>2 DEF Marked
    <3>5. Tables(db', opened', minted', req')
      BY <1>0, <1>1, <3>3, <3>4, TablesMarked
    <3> QED
      BY <1>a, <2>1, <2>2, <3>5 DEF TablesInv
  <2>5. CASE db'.token # db.token
    <3> DEFINE row == [session |-> req[c].session, parent |-> None, used |-> FALSE,
                       revoked |-> FALSE]
    <3>1. /\ db.session[req[c].session] # "none"
          /\ db'.token = [db.token EXCEPT ![minted + 1] = row]
      BY <1>0, <1>3, <2>1, <2>5, RootEffect
    <3>2. row \in TokenRows /\ row.session = req[c].session
      BY <2>3 DEF TokenRows
    <3> HIDE DEF row
    <3>3. \A t \in Tokens : db.token[t].session # req[c].session
      BY <1>0, <2>1 DEF Tables, RootFree
    <3>4. RootsBut(req, req', row.session)
      BY <1>0, <1>a, <2>1, <2>2, <3>2 DEF Roots, RootsBut
    <3>5. minted + 1 \in Tokens /\ Inserted(db, db', minted + 1, row)
      BY <2>1, <2>3, <3>1, <3>2, <3>3 DEF Inserted
    <3>6. /\ db \in Databases /\ db' \in Databases /\ opened \in Nat /\ minted \in Nat
          /\ Tables(db, opened, minted, req)
      BY <1>0, <1>1
    <3>7. Tables(db', opened, minted + 1, req')
      BY <3>2, <3>4, <3>5, <3>6, TablesInserted
    <3> QED
      BY <1>a, <2>1, <2>2, <3>7 DEF TablesInv
  <2> QED
    BY <2>4, <2>5
<1>4. CASE Begin(c)
  <2>1. PICK i \in Instances \ open, g \in given :
          Others(c) /\ req'[c] = [Idle EXCEPT !.pc = "read", !.token = g[1], !.on = i]
    BY <1>0, <1>4, BeginEffect
  <2>2. req'[c].pc # "root"
    BY <2>1 DEF Idle
  <2>3. db' = db /\ opened' = opened /\ minted' = minted /\ saved' \in {db, saved}
    BY <1>4 DEF Begin
  <2> QED
    BY <1>a, <1>b, <2>1, <2>2, <2>3 DEF TablesInv
<1>5. CASE ReadToken(c) \/ Replay(c) \/ SignOut(c) \/ AnswerSignOut(c)
  <2>1. Others(c) /\ req'[c].pc # "root"
    BY <1>0, <1>5, ReadEffect, ReplayEffect, SignOutEffect, FinishEffect
    DEF AnswerSignOut, Idle
  <2> QED
    BY <1>5, <1>a, <1>b, <2>1 DEF ReadToken, Replay, SignOut, AnswerSignOut, TablesInv
<1>6. CASE CompareAndSet(c)
  <2>1. /\ Others(c) /\ req[c].token \in Tokens /\ req'[c].pc \in {"replay", "insert"}
        /\ db'.session = db.session /\ db'.child = db.child
        /\ \/ db' = db
           \/ db'.token = [db.token EXCEPT ![req[c].token].used = TRUE]
    BY <1>0, <1>6, CasEffect DEF TypeInv, Placed, TxPlaces
  <2>2. /\ req'[c].pc # "root"
        /\ \A t \in Tokens : db'.token[t].session = db.token[t].session
        /\ \A t \in Tokens : db.token[t].used => db'.token[t].used
        /\ \A s \in Sessions : db'.session[s] = db.session[s]
        /\ \A t \in Tokens : db'.child[t] = db.child[t]
    BY <1>0, <2>1 DEF Databases, TokenRows
  <2>3. opened' = opened /\ minted' = minted /\ saved' = saved
    BY <1>6 DEF CompareAndSet
  <2> QED
    BY <1>0, <1>c, <2>1, <2>2, <2>3
<1>7. CASE InsertChild(c)
  <2> DEFINE row == [session |-> req[c].session, parent |-> req[c].token, used |-> FALSE,
                     revoked |-> FALSE]
  <2>1. /\ Others(c) /\ req'[c].pc = "cache" /\ minted' = minted + 1 /\ minted' \in Tokens
        /\ db'.session = db.session /\ db'.child = db.child
        /\ db'.token = [db.token EXCEPT ![minted + 1] = row]
        /\ opened' = opened /\ saved' = saved /\ req[c].pc = "insert"
    BY <1>0, <1>7, ChildEffect DEF InsertChild
  <2>2. req[c].session \in Sessions /\ req[c].token \in Tokens
    BY <1>0, <2>1 DEF TypeInv, Placed, Rotating, TxPlaces
  <2>3. row \in TokenRows /\ row.session = req[c].session
    BY <2>2 DEF TokenRows
  <2> HIDE DEF row
  <2>4. /\ db.token[req[c].token].session = req[c].session
        /\ \A t \in Tokens : db.token[t].session = req[c].session => db.token[t].used
    BY <2>1 DEF ChainInv, HeldInv, Held, Rotating
  <2>5. db.session[req[c].session] # "none"
    BY <1>0, <2>2, <2>4 DEF Tables, Keyed, Sessions, None
  <2>a. \A d \in Clients : req'[d].pc = "root" =>
          req[d].pc = "root" /\ req[d].session = req'[d].session
    BY <1>a, <2>1
  <2>6. RootsBut(req, req', row.session)
    BY <1>0, <2>a, <2>2, <2>3, <2>4 DEF Tables, RootFree, RootsBut
  <2>7. minted + 1 \in Tokens /\ Inserted(db, db', minted + 1, row)
    BY <2>1, <2>2, <2>3, <2>4, <2>5 DEF Inserted
  <2>8. /\ db \in Databases /\ db' \in Databases /\ opened \in Nat /\ minted \in Nat
        /\ Tables(db, opened, minted, req)
    BY <1>0, <1>1
  <2>9. Tables(db', opened, minted + 1, req')
    BY <2>3, <2>6, <2>7, <2>8, TablesInserted
  <2> QED
    BY <1>a, <2>1, <2>9 DEF TablesInv
<1>8. CASE CacheChild(c)
  <2>1. /\ Others(c) /\ req'[c].pc = "commit" /\ req[c].pc = "cache"
        /\ db'.session = db.session /\ db'.token = db.token
        /\ db'.child = [db.child EXCEPT ![req[c].token] = req[c].child]
    BY <1>0, <1>8, CacheEffect
  <2>2. req[c].token \in Tokens /\ req[c].session \in Sessions
    BY <1>0, <2>1 DEF TypeInv, Placed, TxPlaces, Rotating
  <2>3. db.token[req[c].token].session # None /\ db.token[req[c].token].used
    BY <2>1, <2>2 DEF ChainInv, HeldInv, Held, Rotating, Sessions, None
  <2>4. \A t \in Tokens : db'.child[t] # None =>
               db.child[t] # None \/ (db.token[t].session # None /\ db'.token[t].used)
    BY <1>0, <2>1, <2>2, <2>3 DEF Databases
  <2>5. opened' = opened /\ minted' = minted /\ saved' = saved
    BY <1>8 DEF CacheChild
  <2> QED
    BY <1>c, <2>1, <2>4, <2>5
<1>9. CASE RevokeFamily(c) \/ RevokeTarget(c)
  <2>1. req[c].session \in Sessions
    BY <1>0, <1>9 DEF RevokeFamily, RevokeTarget, TypeInv, Placed, Rotating
  <2>2. Others(c) /\ req'[c].pc # "root"
    BY <1>0, <1>9, GotoEffect DEF RevokeFamily, RevokeTarget, Places
  <2>3. /\ db'.session = db.session /\ db'.child = db.child
        /\ \A t \in Tokens : db'.token[t].session = db.token[t].session
        /\ \A t \in Tokens : db.token[t].used => db'.token[t].used
    BY <1>0, <1>9, <2>1, RevokeEffect DEF RevokeFamily, RevokeTarget
  <2>4. opened' = opened /\ minted' = minted /\ saved' = saved
    BY <1>9 DEF RevokeFamily, RevokeTarget
  <2> QED
    BY <1>c, <2>2, <2>3, <2>4
<1>10. CASE EndFamily(c) \/ EndTarget(c)
  <2>1. Others(c) /\ req'[c].pc # "root"
    BY <1>0, <1>10, GotoEffect, TargetEffect DEF EndFamily, Places
  <2>2. \E s \in Sessions : EndSession(s)
    BY <1>0, <1>10 DEF EndFamily, EndTarget, TypeInv, TypeOK, Placed, Rotating, Requests
  <2>3. /\ db'.token = db.token /\ db'.child = db.child
        /\ \A s \in Sessions : db'.session[s] = db.session[s] \/
                                  (db.session[s] # "none" /\ db'.session[s] # "none")
    BY <1>0, <2>2, EndEffect
  <2>4. opened' = opened /\ minted' = minted /\ saved' = saved
    BY <1>10 DEF EndFamily, EndTarget
  <2> QED
    BY <1>c, <2>1, <2>3, <2>4
<1>11. CASE Commit(c)
  <2>1. Others(c) /\ req'[c].pc # "root"
    BY <1>0, <1>11, FinishEffect DEF Commit, Idle
  <2>2. db' = db /\ opened' = opened /\ minted' = minted /\ saved' \in {EmptyDb, saved}
    BY <1>11 DEF Commit, CloseTx
  <2> QED
    BY <1>a, <1>b, <2>1, <2>2 DEF TablesInv
<1>12. CASE Fail(c)
  <2>1. Others(c) /\ req'[c].pc # "root"
    BY <1>0, <1>12, FinishEffect DEF Fail, Idle
  <2>2. /\ db' \in {db, saved} /\ opened' = opened /\ minted' = minted
        /\ saved' \in {EmptyDb, saved}
    BY <1>12 DEF Fail, CloseTx
  <2>3. CASE db' = saved
    <3>1. RootsFrom(opened, req, req')
      BY <1>a, <2>1, <2>2
    <3>2. Tables(db', opened', minted', req')
      BY <1>0, <2>2, <2>3, <3>1, TablesKept
    <3> QED
      BY <1>a, <2>1, <2>2, <3>2 DEF TablesInv
  <2> QED
    BY <1>a, <1>b, <2>1, <2>2, <2>3 DEF TablesInv
<1> QED
  BY <1>2, <1>3, <1>4, <1>5, <1>6, <1>7, <1>8, <1>9, <1>10, <1>11, <1>12
  DEF IssueSession, Rotate, RevokeSessions

LEMMA HeldStep ==
  ASSUME ChainInv, NEW c \in Clients,
         IssueSession(c) \/ Rotate(c) \/ RevokeSessions(c) \/ Fail(c), TypeInv'
  PROVE  HeldInv'
<1>0. /\ TypeInv /\ TxInv /\ db \in Databases /\ db' \in Databases
      /\ req \in [Clients -> Requests] /\ Tables(db, opened, minted, req)
      /\ (\A d \in Clients : Held(db, req[d]) /\ Placed(req[d])) /\ Apart(req)
      /\ req[c] \in Requests
  BY DEF ChainInv, TypeInv, TypeOK, TablesInv, HeldInv
<1>1. None \notin Sessions /\ None \notin Tokens
  BY DEF None, Sessions, Tokens
<1>2. /\ req[c].pc \in TxPlaces => req[c].token \in Tokens
      /\ req[c].pc \in Rotating \cup {"root", "tokens"} => req[c].session \in Sessions
  BY <1>0 DEF Placed
\* The others keep what they know.
<1>a. ASSUME Others(c), \A d \in Clients : d # c => Undisturbed(db, db', req[d]),
             Held(db', req'[c]), Apart(req')
      PROVE  HeldInv'
  <2>1. \A d \in Clients : d # c => Held(db', req[d])
    BY <1>0, <1>a, HeldKept
  <2>2. \A d \in Clients : Held(db', req'[d])
    BY <1>a, <2>1 DEF Others
  <2> QED
    BY <1>a, <2>2 DEF HeldInv
\* No request sets out to make a child.
<1>b. ASSUME Others(c),
             req'[c].pc = "insert" => FALSE,
             req'[c].pc = "cache" => req[c].pc = "insert" /\ req'[c].token = req[c].token
      PROVE  Apart(req')
  <2>1. \A d \in Clients : d # c => req'[d] = req[d]
    BY <1>b DEF Others
  <2> QED
    BY <1>0, <1>b, <2>1 DEF Apart
\* A request that holds nothing.
<1>c. ASSUME NEW r, r.pc \notin Rotating, r.pc = "commit" => r.reply # "ok"
      PROVE  Held(db', r)
  BY <1>c DEF Held, Rotating
<1>d. ASSUME \A t \in Tokens : db'.token[t].session = db.token[t].session,
             \A t \in Tokens : db.token[t].used => db'.token[t].used,
             db'.child = db.child
      PROVE  \A d \in Clients : Undisturbed(db, db', req[d])
  BY <1>d DEF Undisturbed
<1>3. CASE Login(c)
  <2>1. Others(c) /\ req'[c] = [Idle EXCEPT !.pc = "root", !.session = opened']
    BY <1>0, <1>3, LoginEffect
  <2>2. db'.token = db.token /\ db'.child = db.child
    BY <1>0, <1>3, LoginEffect
  <2>3. req'[c].pc = "root"
    BY <2>1 DEF Idle
  <2>4. Held(db', req'[c])
    BY <1>c, <2>3 DEF Rotating
  <2> QED
    BY <1>a, <1>b, <1>d, <2>1, <2>2, <2>3, <2>4
<1>4. CASE InsertRoot(c)
  <2>1. Others(c) /\ req'[c] = Idle /\ minted' \in Tokens /\ minted' = minted + 1
    BY <1>0, <1>4, RootEffect
  <2>2. req'[c].pc = "idle" /\ Held(db', req'[c])
    BY <1>c, <2>1 DEF Idle, Rotating
  <2>3. CASE db'.token = db.token
    BY <1>0, <1>4, <1>a, <1>b, <1>d, <2>1, <2>2, <2>3, RootEffect
  <2>4. CASE db'.token # db.token
    <3> DEFINE row == [session |-> req[c].session, parent |-> None, used |-> FALSE,
                       revoked |-> FALSE]
    <3>1. db'.token = [db.token EXCEPT ![minted'] = row] /\ db'.child = db.child
      BY <1>0, <1>4, <2>4, RootEffect
    <3>2. row.session = req[c].session
      OBVIOUS
    <3> HIDE DEF row
    <3>3. db.token[minted'].session = None
      BY <1>0, <2>1 DEF Tables, Keyed, ChainInv, TypeInv, TypeOK
    <3>4. /\ db'.token[minted'] = row
          /\ \A t \in Tokens : t # minted' => db'.token[t] = db.token[t]
      BY <1>0, <2>1, <3>1 DEF Databases
    <3>5. ASSUME NEW d \in Clients, req[d].pc = "insert" PROVE req[d].session # req[c].session
      <4>1. req[d].token \in Tokens /\ db.token[req[d].token].session = req[d].session
        BY <1>0, <3>5 DEF Held, Placed, Rotating, TxPlaces
      <4> QED
        BY <1>0, <1>4, <4>1 DEF Tables, RootFree, InsertRoot
    <3>6. \A d \in Clients : Undisturbed(db, db', req[d])
      BY <3>1, <3>2, <3>3, <3>4, <3>5 DEF Undisturbed
    <3> QED
      BY <1>a, <1>b, <2>1, <2>2, <3>6
  <2> QED
    BY <2>3, <2>4
<1>5. CASE Begin(c)
  <2>1. PICK i \in Instances \ open, g \in given :
          Others(c) /\ req'[c] = [Idle EXCEPT !.pc = "read", !.token = g[1], !.on = i]
    BY <1>0, <1>5, BeginEffect, ZenonT(60)
  <2>2. req'[c].pc = "read"
    BY <2>1 DEF Idle
  <2>3. db' = db
    BY <1>5 DEF Begin
  <2> QED
    BY <1>a, <1>b, <1>c, <1>d, <2>1, <2>2, <2>3 DEF Rotating
<1>6. CASE ReadToken(c)
  <2>1. /\ Others(c) /\ req'[c].token = req[c].token /\ req'[c].pc \in {"commit", "replay", "cas"}
        /\ req'[c].session = db.token[req[c].token].session
        /\ req'[c].pc = "commit" => req'[c].reply = "not_found"
    BY <1>0, <1>6, ReadEffect DEF Row
  <2>2. db' = db
    BY <1>6 DEF ReadToken
  <2>3. Held(db', req'[c])
    BY <2>1, <2>2 DEF Held, Rotating
  <2> QED
    BY <1>a, <1>b, <1>d, <2>1, <2>2, <2>3
<1>7. CASE CompareAndSet(c)
  <2>1. /\ Others(c) /\ req[c].pc = "cas" /\ req'[c].token = req[c].token
        /\ req'[c].session = req[c].session /\ db'.child = db.child
        /\ \/ ~Active(req[c].token) /\ db' = db /\ req'[c].pc = "replay"
           \/ /\ Active(req[c].token) /\ req'[c].pc = "insert"
              /\ db'.token = [db.token EXCEPT ![req[c].token].used = TRUE]
    BY <1>0, <1>7, CasEffect
  <2>2. req[c].token \in Tokens /\ db.token[req[c].token].session = req[c].session
    BY <1>0, <1>2, <2>1 DEF Held, Rotating, TxPlaces
  <2>3. CASE db' = db /\ req'[c].pc = "replay"
    <3>1. Held(db', req'[c])
      BY <2>1, <2>2, <2>3 DEF Held, Rotating
    <3> QED
      BY <1>a, <1>b, <1>d, <2>1, <2>3, <3>1
  <2>4. CASE /\ Active(req[c].token) /\ req'[c].pc = "insert"
             /\ db'.token = [db.token EXCEPT ![req[c].token].used = TRUE]
    <3>1. /\ db'.token[req[c].token].used
          /\ \A t \in Tokens : /\ db'.token[t].session = db.token[t].session
                               /\ db.token[t].used => db'.token[t].used
                               /\ t # req[c].token => db'.token[t] = db.token[t]
      BY <1>0, <2>2, <2>4 DEF Databases, TokenRows
    <3>2. ~db.token[req[c].token].used /\ db.token[req[c].token].session # None
      BY <2>4 DEF Active, Row
    <3>3. \A t \in Tokens : db'.token[t].session = req[c].session => db'.token[t].used
      BY <1>0, <2>2, <3>1, <3>2 DEF Tables, OneUnused
    <3>4. db'.child[req[c].token] = None
      BY <1>0, <2>1, <2>2, <3>2 DEF Tables, Keyed
    <3>5. Held(db', req'[c])
      BY <2>1, <2>2, <2>4, <3>1, <3>3, <3>4 DEF Held, Rotating
    <3>6. \A d \in Clients : req[d].pc = "insert" => req[d].session # req[c].session
      BY <1>0, <2>2, <3>2 DEF Held
    <3>7. \A d \in Clients : req[d].pc \in {"insert", "cache"} => req[d].token # req[c].token
      BY <1>0, <3>2 DEF Held
    <3>8. \A d \in Clients : d # c => req'[d] = req[d]
      BY <2>1 DEF Others
    <3>9. Apart(req')
      BY <1>0, <2>1, <2>4, <3>6, <3>7, <3>8 DEF Apart
    <3> QED
      BY <1>a, <1>d, <2>1, <3>1, <3>5, <3>9
  <2> QED
    BY <2>1, <2>3, <2>4
<1>8. CASE InsertChild(c)
  <2> DEFINE row == [session |-> req[c].session, parent |-> req[c].token, used |-> FALSE,
                     revoked |-> FALSE]
  <2>1. /\ Others(c) /\ req[c].pc = "insert" /\ req'[c].pc = "cache"
        /\ req'[c].token = req[c].token /\ req'[c].session = req[c].session
        /\ db'.child = db.child /\ minted' \in Tokens /\ minted' = minted + 1
        /\ db'.token = [db.token EXCEPT ![minted'] = row]
    BY <1>0, <1>8, ChildEffect
  <2>2. row.session = req[c].session
    OBVIOUS
  <2> HIDE DEF row
  <2>3. req[c].token \in Tokens /\ req[c].session \in Sessions
    BY <1>2, <2>1 DEF Rotating, TxPlaces
  <2>4. db.token[minted'].session = None
    BY <1>0, <2>1 DEF Tables, Keyed, ChainInv, TypeInv, TypeOK
  <2>5. /\ db'.token[minted'] = row
        /\ \A t \in Tokens : t # minted' => db'.token[t] = db.token[t]
    BY <1>0, <2>1 DEF Databases
  <2>6. \A d \in Clients : d # c => (req[d].pc = "insert" => req[d].session # req[c].session)
    BY <1>0, <2>1 DEF Apart
  <2>7. \A d \in Clients : d # c => Undisturbed(db, db', req[d])
    BY <2>1, <2>2, <2>4, <2>5, <2>6 DEF Undisturbed
  <2>8. /\ db.token[req[c].token].session = req[c].session
        /\ db.token[req[c].token].used /\ db.child[req[c].token] = None
    BY <1>0, <2>1 DEF Held, Rotating
  <2>9. req[c].token # minted'
    BY <1>1, <2>3, <2>4, <2>8
  <2>10. Held(db', req'[c])
    BY <2>1, <2>3, <2>5, <2>8, <2>9 DEF Held, Rotating
  <2> QED
    BY <1>a, <1>b, <2>1, <2>7, <2>10
<1>9. CASE CacheChild(c)
  <2>1. /\ Others(c) /\ req[c].pc = "cache" /\ req'[c].pc = "commit"
        /\ req'[c].token = req[c].token /\ req'[c].child = req[c].child
        /\ db'.token = db.token /\ db'.child = [db.child EXCEPT ![req[c].token] = req[c].child]
    BY <1>0, <1>9, CacheEffect
  <2>2. req[c].token \in Tokens /\ db.child[req[c].token] = None
    BY <1>0, <1>2, <2>1 DEF Held, Rotating, TxPlaces
  <2>3. /\ db'.child[req[c].token] = req[c].child
        /\ \A t \in Tokens : t # req[c].token => db'.child[t] = db.child[t]
    BY <1>0, <2>1, <2>2 DEF Databases
  <2>4. \A d \in Clients : d # c /\ req[d].pc \in {"insert", "cache"} => req[d].token # req[c].token
    BY <1>0, <2>1 DEF Apart
  <2>5. \A d \in Clients : req[d].pc \in {"insert", "cache"} => req[d].token \in Tokens
    BY <1>0 DEF Placed, TxPlaces
  <2>6. \A d \in Clients : d # c => Undisturbed(db, db', req[d])
    BY <2>1, <2>2, <2>3, <2>4, <2>5 DEF Undisturbed
  <2>7. Held(db', req'[c])
    BY <2>1, <2>3 DEF Held, Rotating
  <2> QED
    BY <1>a, <1>b, <2>1, <2>6, <2>7
<1>10. CASE Replay(c)
  <2>1. /\ Others(c) /\ req[c].pc = "replay" /\ req'[c].token = req[c].token
        /\ req'[c].session = req[c].session
        /\ \/ req'[c].pc = "commit" /\ req'[c].child = db.child[req[c].token]
           \/ req'[c].pc = "revoke"
    BY <1>0, <1>10, ReplayEffect
  <2>2. db' = db /\ db.token[req[c].token].session = req[c].session
    BY <1>0, <1>10, <2>1 DEF Replay, Held, Rotating
  <2>3. Held(db', req'[c])
    BY <2>1, <2>2 DEF Held, Rotating
  <2> QED
    BY <1>a, <1>b, <1>d, <2>1, <2>2, <2>3
<1>11. CASE RevokeFamily(c) \/ RevokeTarget(c)
  <2>1. /\ Others(c) /\ req'[c].pc \in {"end", "targets"}
        /\ req'[c].token = req[c].token /\ req'[c].session = req[c].session
        /\ req'[c].pc = "end" => req[c].pc = "revoke"
    BY <1>0, <1>11, GotoEffect DEF RevokeFamily, RevokeTarget, Places
  <2>2. req[c].session \in Sessions
    BY <1>2, <1>11 DEF RevokeFamily, RevokeTarget, Rotating
  <2>3. /\ db'.child = db.child
        /\ \A t \in Tokens : db'.token[t].session = db.token[t].session
        /\ \A t \in Tokens : db.token[t].used => db'.token[t].used
    BY <1>0, <1>11, <2>2, RevokeEffect DEF RevokeFamily, RevokeTarget
  <2>4. req'[c].pc = "end" =>
          req[c].token \in Tokens /\ db.token[req[c].token].session = req[c].session
    BY <1>0, <1>2, <2>1 DEF Held, Rotating, TxPlaces
  <2>5. Held(db', req'[c])
    BY <2>1, <2>3, <2>4 DEF Held, Rotating
  <2> QED
    BY <1>a, <1>b, <1>d, <2>1, <2>3, <2>5
<1>12. CASE EndFamily(c)
  <2>1. Others(c) /\ req'[c].pc = "commit" /\ req'[c].reply = req[c].reply
        /\ req'[c].token = req[c].token /\ req'[c].child = req[c].child
    BY <1>0, <1>12, GotoEffect DEF EndFamily, Places
  <2>2. db'.token = db.token /\ db'.child = db.child
    BY <1>0, <1>2, <1>12, EndEffect DEF EndFamily, Rotating
  <2>3. req[c].reply # "ok"
    BY <1>0, <1>12 DEF EndFamily, Placed, Reuse
  <2> QED
    BY <1>a, <1>b, <1>c, <1>d, <2>1, <2>2, <2>3 DEF Rotating
<1>13. CASE EndTarget(c)
  <2>1. Others(c) /\ req'[c].pc = "tokens" /\ db'.token = db.token /\ db'.child = db.child
    BY <1>0, <1>13, TargetEffect
  <2> QED
    BY <1>a, <1>b, <1>c, <1>d, <2>1 DEF Rotating
<1>14. CASE SignOut(c)
  <2>1. Others(c) /\ req'[c].pc = "targets" /\ db' = db
    BY <1>0, <1>14, SignOutEffect DEF SignOut
  <2> QED
    BY <1>a, <1>b, <1>c, <1>d, <2>1 DEF Rotating
<1>15. CASE AnswerSignOut(c) \/ Commit(c)
  <2>1. Others(c) /\ req'[c] = Idle /\ db' = db
    BY <1>0, <1>15, FinishEffect DEF AnswerSignOut, Commit
  <2>2. req'[c].pc = "idle"
    BY <2>1 DEF Idle
  <2> QED
    BY <1>a, <1>b, <1>c, <1>d, <2>1, <2>2 DEF Rotating
<1>16. CASE Fail(c)
  <2>1. Others(c) /\ req'[c] = Idle
    BY <1>0, <1>16, FinishEffect DEF Fail
  <2>2. req'[c].pc = "idle"
    BY <2>1 DEF Idle
  <2>3. Held(db', req'[c]) /\ Apart(req')
    BY <1>b, <1>c, <2>1, <2>2 DEF Rotating
  <2>4. CASE db' = db
    BY <1>a, <1>d, <2>1, <2>3, <2>4
  <2>5. CASE InTx(c) /\ Db = "sqlite"
    <3>1. \A d \in Clients : d # c => ~InTx(d)
      BY <1>0, <2>5, OneTransaction
    <3>2. \A d \in Clients : d # c => Held(db', req'[d])
      BY <2>1, <3>1 DEF Others, InTx, Held, Rotating
    <3> QED
      BY <2>3, <3>2 DEF HeldInv
  <2> QED
    BY <1>16, <2>4, <2>5 DEF Fail
<1> QED
  BY <1>3, <1>4, <1>5, <1>6, <1>7, <1>8, <1>9, <1>10, <1>11, <1>12, <1>13, <1>14, <1>15, <1>16
  DEF IssueSession, Rotate, RevokeSessions

LEMMA AnswerStep ==
  ASSUME ChainInv, NEW c \in Clients,
         IssueSession(c) \/ Rotate(c) \/ RevokeSessions(c) \/ Fail(c)
  PROVE  AnswerInv'
<1>0. /\ TypeInv /\ TxInv /\ db \in Databases /\ AnswerInv /\ answers \in [Tokens -> SUBSET Tokens]
      /\ \A d \in Clients : Held(db, req[d]) /\ Placed(req[d])
      /\ req \in [Clients -> Requests]
  BY DEF ChainInv, TypeInv, TypeOK, HeldInv
<1>1. None \notin Tokens
  BY DEF None, Tokens
<1>2. CASE Inner(c)
  <2>1. open' = open /\ saved' = saved
    BY <1>0, <1>2, InnerEffect
  <2>2. answers' = answers
    BY <1>2 DEF Inner, IssueSession, RevokeSessions, Login, InsertRoot, SignOut, EndTarget,
                RevokeTarget, AnswerSignOut, ReadToken, CompareAndSet, InsertChild, CacheChild,
                Replay, RevokeFamily, EndFamily
  <2>3. CASE CacheChild(c)
    <3>1. req[c].pc = "cache" /\ db'.child = [db.child EXCEPT ![req[c].token] = req[c].child]
      BY <1>0, <2>3, CacheEffect
    <3>2. req[c].token \in Tokens /\ db.child[req[c].token] = None
      BY <1>0, <3>1 DEF Held, Placed, TxPlaces
    <3>3. \A t \in Tokens : db.child[t] # None => db'.child[t] = db.child[t]
      BY <1>0, <3>1, <3>2 DEF Databases
    <3> QED
      BY <1>0, <2>1, <2>2, <3>3 DEF AnswerInv, Answered
  <2>4. CASE ~CacheChild(c)
    <3>1. req[c].pc \in Rotating \cup {"root", "tokens"} => req[c].session \in Sessions
      BY <1>0 DEF Placed
    <3>2. db'.child = db.child
      <4>1. CASE Login(c)
        BY <1>0, <4>1, LoginEffect
      <4>2. CASE InsertRoot(c)
        BY <1>0, <4>2, RootEffect
      <4>3. CASE CompareAndSet(c)
        BY <1>0, <4>3, CasEffect
      <4>4. CASE InsertChild(c)
        BY <1>0, <4>4, ChildEffect
      <4>5. CASE RevokeFamily(c) \/ RevokeTarget(c)
        BY <1>0, <3>1, <4>5, RevokeEffect DEF RevokeFamily, RevokeTarget, Rotating
      <4>6. CASE EndFamily(c)
        BY <1>0, <3>1, <4>6, EndEffect DEF EndFamily, Rotating
      <4>7. CASE EndTarget(c)
        BY <1>0, <4>7, TargetEffect
      <4>8. CASE ReadToken(c) \/ Replay(c) \/ SignOut(c) \/ AnswerSignOut(c)
        BY <4>8 DEF ReadToken, Replay, SignOut, AnswerSignOut
      <4> QED
        BY <1>2, <2>4, <4>1, <4>2, <4>3, <4>4, <4>5, <4>6, <4>7, <4>8
        DEF Inner, IssueSession, RevokeSessions
    <3> QED
      BY <1>0, <2>1, <2>2, <3>2 DEF AnswerInv, Answered
  <2> QED
    BY <2>3, <2>4
<1>3. CASE Begin(c)
  <2>1. answers' = answers /\ db' = db /\ (Db = "sqlite" => saved' = db)
    BY <1>3 DEF Begin
  <2> QED
    BY <1>0, <2>1 DEF AnswerInv
<1>4. CASE Commit(c)
  <2>1. req[c].pc = "commit" /\ db' = db /\ open' = open \ {req[c].on}
        /\ (Deliver(c) \/ UNCHANGED answers)
    BY <1>4 DEF Commit, CloseTx
  <2>2. Answered(answers', db)
    <3>1. CASE req[c].reply = "ok" /\ Deliver(c)
      <4>1. /\ req[c].token \in Tokens /\ req[c].child \in Tokens
            /\ db.child[req[c].token] = req[c].child
        BY <1>0, <2>1, <3>1 DEF Held, Placed, TxPlaces
      <4>2. answers' = [answers EXCEPT ![req[c].token] = @ \cup {req[c].child}]
        BY <3>1 DEF Deliver
      <4> QED
        BY <1>0, <1>1, <4>1, <4>2 DEF AnswerInv, Answered
    <3>2. CASE answers' = answers
      BY <1>0, <3>2 DEF AnswerInv
    <3> QED
      BY <2>1, <3>1, <3>2 DEF Deliver
  <2>3. Db = "sqlite" => open' = {}
    BY <1>0, <2>1, OneTransaction DEF InTx
  <2> QED
    BY <2>1, <2>2, <2>3 DEF AnswerInv
<1>5. CASE Fail(c)
  <2>1. answers' = answers
    BY <1>5 DEF Fail
  <2>2. CASE InTx(c) /\ Db = "sqlite"
    <3>1. db' = saved /\ open' = open \ {req[c].on}
      BY <1>5, <2>2 DEF Fail, CloseTx
    <3>2. open # {} /\ open' = {}
      BY <1>0, <2>2, <3>1, OneTransaction
    <3> QED
      BY <1>0, <2>1, <2>2, <3>1, <3>2 DEF AnswerInv
  <2>3. CASE ~InTx(c) \/ Db # "sqlite"
    <3>1. db' = db /\ (Db = "sqlite" => UNCHANGED <<open, saved>>)
      BY <1>5, <2>3 DEF Fail
    <3> QED
      BY <1>0, <2>1, <3>1 DEF AnswerInv
  <2> QED
    BY <2>2, <2>3
<1> QED
  BY <1>2, <1>3, <1>4, <1>5 DEF IssueSession, Rotate, RevokeSessions, Inner

LEMMA ChainNext == ChainInv /\ [Next]_vars => ChainInv'
<1> SUFFICES ASSUME ChainInv, [Next]_vars PROVE ChainInv'
  OBVIOUS
<1>1. TypeInv /\ TxInv
  BY DEF ChainInv
<1>2. ASSUME NEW c \in Clients, IssueSession(c) \/ Rotate(c) \/ RevokeSessions(c) \/ Fail(c)
      PROVE  ChainInv'
  <2>1. TypeInv'
    BY <1>1, <1>2, TypeStep
  <2>2. TxInv'
    BY <1>1, <1>2, TxStep DEF Rotate, Inner
  <2>3. TablesInv' /\ HeldInv' /\ AnswerInv'
    BY <1>2, <2>1, TablesStep, HeldStep, AnswerStep
  <2> QED
    BY <2>1, <2>2, <2>3 DEF ChainInv
<1>3. CASE Tick \/ UNCHANGED vars
  <2>1. TypeInv'
    BY <1>1, <1>3, LimitAssumption DEF Tick, TypeInv, TypeOK
  <2>2. UNCHANGED <<db, saved, open, opened, minted, req, answers>>
    BY <1>3 DEF Tick
  <2>3. TxInv' /\ TablesInv' /\ HeldInv' /\ AnswerInv'
    BY <2>2 DEF ChainInv, TxInv, InTx, TablesInv, HeldInv, AnswerInv
  <2> QED
    BY <2>1, <2>3 DEF ChainInv
<1> QED
  BY <1>2, <1>3 DEF Next

\* For every number of requests, adapter instances, sessions and tokens, on
\* SQLite and on D1: however many clients refresh with one token at a time, and
\* wherever a rotation breaks off or is rolled back, rotateRefresh() leaves at
\* most one token of a family that can be rotated next.
THEOREM AuthOneActive == Spec => []OneActive
<1>1. ChainInv => OneActive
  <2> SUFFICES ASSUME ChainInv, NEW s \in Sessions, NEW t \in Family(s), NEW u \in Family(s),
                      Active(t), Active(u)
               PROVE  t = u
    BY DEF OneActive
  <2> QED
    BY DEF ChainInv, TablesInv, Tables, OneUnused, Family, Active, Row
<1> QED
  BY ChainInit, ChainNext, <1>1, PTL DEF Spec

\* And all answers rotateRefresh() gives to one presented token carry the same
\* child, retries inside the grace window and races included.
THEOREM AuthSameChild == Spec => []SameChild
<1>1. ChainInv => SameChild
  BY DEF ChainInv, AnswerInv, Answered, SameChild
<1> QED
  BY ChainInit, ChainNext, <1>1, PTL DEF Spec

--------------------------------------------------------------------------------
(* Ended sessions and torn rotations.                                         *)

\* What a statement never undoes: only a ROLLBACK does.
RowsKept(D, E) ==
  /\ \A s \in Sessions : /\ D.session[s] # "none" => E.session[s] # "none"
                         /\ D.session[s] = "ended" => E.session[s] = "ended"
  /\ \A t \in Tokens : D.token[t].session # None =>
       /\ E.token[t].session = D.token[t].session /\ E.token[t].parent = D.token[t].parent
       /\ D.token[t].used => E.token[t].used
       /\ D.token[t].revoked => E.token[t].revoked

\* What is new after a step of c: its token row, the token it used, the child it
\* cached.
RowsNew(c) ==
  /\ \A t \in Tokens : db'.token[t].session # db.token[t].session =>
       /\ req[c].pc \in {"root", "insert"} /\ db'.token[t].session = req[c].session
       /\ ~db'.token[t].used
  /\ \A t \in Tokens : db'.token[t].used /\ ~db.token[t].used =>
       t = req[c].token /\ Active(t) /\ req[c].pc = "cas" /\ req'[c].pc = "insert"
  /\ \A t \in Tokens : db'.child[t] # db.child[t] =>
       /\ t = req[c].token /\ req[c].pc = "cache" /\ db'.child[t] = req[c].child

LEMMA RowsStep ==
  ASSUME ChainInv, NEW c \in Clients, Inner(c)
  PROVE  RowsKept(db, db') /\ RowsNew(c)
<1>0. /\ TypeInv /\ db \in Databases /\ Tables(db, opened, minted, req) /\ Placed(req[c])
      /\ opened \in Nat /\ minted \in Nat /\ req \in [Clients -> Requests]
  BY DEF ChainInv, TypeInv, TypeOK, TablesInv
<1>1. req[c].pc \in Rotating \cup {"root", "tokens"} => req[c].session \in Sessions
  BY <1>0 DEF Placed
<1>2. CASE Login(c)
  <2>1. /\ db'.token = db.token /\ db'.child = db.child /\ opened' = opened + 1
        /\ db'.session = [db.session EXCEPT ![opened'] = "open"]
    BY <1>0, <1>2, LoginEffect
  <2>2. \A s \in Sessions : db.session[s] # "none" => s # opened'
    BY <1>0, <2>1 DEF Tables, Keyed, Sessions
  <2> QED
    BY <1>0, <2>1, <2>2 DEF RowsKept, RowsNew, Databases
<1>3. CASE InsertRoot(c)
  <2>1. /\ db'.session = db.session /\ db'.child = db.child
        /\ minted' = minted + 1 /\ minted' \in Tokens /\ req[c].pc = "root"
    BY <1>0, <1>3, RootEffect DEF InsertRoot
  <2>2. CASE db'.token = db.token
    BY <2>1, <2>2 DEF RowsKept, RowsNew
  <2>3. CASE db'.token # db.token
    <3> DEFINE row == [session |-> req[c].session, parent |-> None, used |-> FALSE,
                       revoked |-> FALSE]
    <3>1. db'.token = [db.token EXCEPT ![minted'] = row]
      BY <1>0, <1>3, <2>3, RootEffect
    <3>2. row.session = req[c].session /\ ~row.used
      OBVIOUS
    <3> HIDE DEF row
    <3>3. db.token[minted'].session = None
      BY <1>0, <2>1 DEF Tables, Keyed
    <3> QED
      BY <1>0, <2>1, <3>1, <3>2, <3>3 DEF RowsKept, RowsNew, Databases
  <2> QED
    BY <2>2, <2>3
<1>4. CASE ReadToken(c) \/ Replay(c) \/ SignOut(c) \/ AnswerSignOut(c)
  <2>1. db' = db
    BY <1>4 DEF ReadToken, Replay, SignOut, AnswerSignOut
  <2> QED
    BY <2>1 DEF RowsKept, RowsNew
<1>5. CASE CompareAndSet(c)
  <2>1. /\ req[c].pc = "cas" /\ db'.session = db.session /\ db'.child = db.child
        /\ \/ db' = db
           \/ /\ Active(req[c].token) /\ req'[c].pc = "insert"
              /\ db'.token = [db.token EXCEPT ![req[c].token].used = TRUE]
    BY <1>0, <1>5, CasEffect
  <2>2. req[c].token \in Tokens
    BY <1>0, <2>1 DEF Placed, TxPlaces
  <2>3. /\ \A t \in Tokens : /\ db'.token[t].session = db.token[t].session
                             /\ db'.token[t].parent = db.token[t].parent
                             /\ db'.token[t].revoked = db.token[t].revoked
                             /\ db.token[t].used => db'.token[t].used
        /\ \A t \in Tokens : db'.token[t].used /\ ~db.token[t].used =>
             t = req[c].token /\ Active(t) /\ req'[c].pc = "insert"
    BY <1>0, <2>1, <2>2 DEF Databases, TokenRows
  <2> QED
    BY <2>1, <2>3 DEF RowsKept, RowsNew
<1>6. CASE InsertChild(c)
  <2> DEFINE row == [session |-> req[c].session, parent |-> req[c].token, used |-> FALSE,
                     revoked |-> FALSE]
  <2>1. /\ req[c].pc = "insert" /\ db'.session = db.session /\ db'.child = db.child
        /\ minted' \in Tokens /\ minted' = minted + 1
        /\ db'.token = [db.token EXCEPT ![minted'] = row]
    BY <1>0, <1>6, ChildEffect
  <2>2. row.session = req[c].session /\ ~row.used
    OBVIOUS
  <2> HIDE DEF row
  <2>3. db.token[minted'].session = None
    BY <1>0, <2>1 DEF Tables, Keyed
  <2> QED
    BY <1>0, <2>1, <2>2, <2>3 DEF RowsKept, RowsNew, Databases
<1>7. CASE CacheChild(c)
  <2>1. /\ req[c].pc = "cache" /\ db'.session = db.session /\ db'.token = db.token
        /\ db'.child = [db.child EXCEPT ![req[c].token] = req[c].child]
    BY <1>0, <1>7, CacheEffect
  <2> QED
    BY <1>0, <2>1 DEF RowsKept, RowsNew, Databases
<1>8. CASE RevokeFamily(c) \/ RevokeTarget(c)
  <2>1. /\ db'.session = db.session /\ db'.child = db.child
        /\ \A t \in Tokens : /\ db'.token[t].session = db.token[t].session
                             /\ db'.token[t].parent = db.token[t].parent
                             /\ db'.token[t].used = db.token[t].used
                             /\ db.token[t].revoked => db'.token[t].revoked
    BY <1>0, <1>1, <1>8, RevokeEffect DEF RevokeFamily, RevokeTarget, Rotating
  <2> QED
    BY <2>1 DEF RowsKept, RowsNew
<1>9. CASE EndFamily(c) \/ EndTarget(c)
  <2>1. \E s \in Sessions : EndSession(s)
    BY <1>0, <1>1, <1>9 DEF EndFamily, EndTarget, Rotating, Requests
  <2>2. /\ db'.token = db.token /\ db'.child = db.child
        /\ \A x \in Sessions : db'.session[x] = db.session[x]
                               \/ (db.session[x] # "none" /\ db'.session[x] = "ended")
    BY <1>0, <2>1, EndEffect
  <2> QED
    BY <2>2 DEF RowsKept, RowsNew
<1> QED
  BY <1>2, <1>3, <1>4, <1>5, <1>6, <1>7, <1>8, <1>9 DEF Inner, IssueSession, RevokeSessions

--------------------------------------------------------------------------------
(* Signing out on D1, where nothing is rolled back: what a request has ended  *)
(* stays ended, and what it has not is among what it has to do.               *)

EndedInv ==
  /\ \A s \in signedOut : db.session[s] = "ended"
  /\ \A c \in Clients : req[c].pc \in {"targets", "tokens"} =>
       \A s \in req[c].done :
         (s \in req[c].todo /\ db.session[s] # "none") \/ db.session[s] = "ended"

LEMMA EndedStep ==
  ASSUME ChainInv, EndedInv, Db = "d1", NEW c \in Clients,
         IssueSession(c) \/ Rotate(c) \/ RevokeSessions(c) \/ Fail(c)
  PROVE  EndedInv'
<1>0. /\ TypeInv /\ req \in [Clients -> Requests] /\ signedOut \subseteq Sessions
      /\ \A d \in Clients : req[d].done \subseteq Sessions
  BY DEF ChainInv, TypeInv, TypeOK, Requests
<1>1. RowsKept(db, db')
  <2>1. CASE Inner(c)
    BY <2>1, RowsStep
  <2>2. CASE Begin(c) \/ Commit(c) \/ Fail(c)
    <3>1. db' = db
      BY <2>2 DEF Begin, Commit, Fail
    <3> QED
      BY <3>1 DEF RowsKept
  <2> QED
    BY <2>1, <2>2 DEF Inner, Rotate
<1>a. ASSUME Others(c), signedOut' = signedOut, req'[c].pc \notin {"targets", "tokens"}
      PROVE  EndedInv'
  BY <1>0, <1>1, <1>a DEF EndedInv, RowsKept, Others
<1>2. CASE IssueSession(c) \/ Rotate(c) \/ Fail(c)
  <2>1. signedOut' = signedOut
    BY <1>2 DEF IssueSession, Rotate, Login, InsertRoot, Begin, ReadToken, CompareAndSet,
                InsertChild, CacheChild, Replay, RevokeFamily, EndFamily, Commit, Fail
  <2>2. Others(c) /\ req'[c].pc \notin {"targets", "tokens"}
    <3>1. CASE Login(c)
      BY <1>0, <3>1, LoginEffect DEF Idle
    <3>2. CASE InsertRoot(c) \/ Commit(c) \/ Fail(c)
      BY <1>0, <3>2, FinishEffect DEF InsertRoot, Commit, Fail, Idle
    <3>3. CASE Begin(c)
      BY <1>0, <3>3, BeginEffect, ZenonT(60) DEF Idle
    <3>4. CASE ReadToken(c)
      BY <1>0, <3>4, ReadEffect
    <3>5. CASE CompareAndSet(c)
      BY <1>0, <3>5, CasEffect
    <3>6. CASE InsertChild(c)
      BY <1>0, <3>6, ChildEffect
    <3>7. CASE CacheChild(c)
      BY <1>0, <3>7, CacheEffect
    <3>8. CASE Replay(c)
      BY <1>0, <3>8, ReplayEffect
    <3>9. CASE RevokeFamily(c) \/ EndFamily(c)
      BY <1>0, <3>9, GotoEffect DEF RevokeFamily, EndFamily, Places
    <3> QED
      BY <1>2, <3>1, <3>2, <3>3, <3>4, <3>5, <3>6, <3>7, <3>8, <3>9 DEF IssueSession, Rotate
  <2> QED
    BY <1>a, <2>1, <2>2
<1>3. CASE SignOut(c)
  <2>1. /\ Others(c) /\ req'[c].done = req'[c].todo
        /\ \A s \in req'[c].todo : s \in Sessions /\ db.session[s] # "none"
    BY <1>0, <1>3, SignOutEffect
  <2>2. db' = db /\ signedOut' = signedOut
    BY <1>3 DEF SignOut
  <2> QED
    BY <2>1, <2>2 DEF EndedInv, Others
<1>4. CASE EndTarget(c)
  <2>1. /\ Others(c) /\ req[c].pc = "targets" /\ req'[c].done = req[c].done
        /\ req'[c].session \in req[c].todo
        /\ req'[c].todo = req[c].todo \ {req'[c].session}
        /\ \A x \in Sessions : db'.session[x] =
              IF x = req'[c].session /\ db.session[x] # "none" THEN "ended" ELSE db.session[x]
    BY <1>0, <1>4, TargetEffect
  <2>2. signedOut' = signedOut
    BY <1>4 DEF EndTarget
  <2>3. \A s \in req'[c].done :
         (s \in req'[c].todo /\ db'.session[s] # "none") \/ db'.session[s] = "ended"
    BY <1>0, <2>1 DEF EndedInv
  <2>4. \A d \in Clients : d # c /\ req'[d].pc \in {"targets", "tokens"} =>
          \A s \in req'[d].done :
            (s \in req'[d].todo /\ db'.session[s] # "none") \/ db'.session[s] = "ended"
    BY <1>0, <1>1, <2>1 DEF EndedInv, RowsKept, Others
  <2>5. \A s \in signedOut' : db'.session[s] = "ended"
    BY <1>0, <1>1, <2>2 DEF EndedInv, RowsKept
  <2> QED
    BY <2>3, <2>4, <2>5 DEF EndedInv
<1>5. CASE RevokeTarget(c)
  <2>1. /\ Others(c) /\ req[c].pc = "tokens" /\ req'[c].done = req[c].done
        /\ req'[c].todo = req[c].todo /\ signedOut' = signedOut
    BY <1>0, <1>5, GotoEffect DEF RevokeTarget, Places
  <2> QED
    BY <1>0, <1>1, <2>1 DEF EndedInv, RowsKept, Others
<1>6. CASE AnswerSignOut(c)
  <2>1. /\ Others(c) /\ req'[c] = Idle /\ db' = db /\ req[c].pc = "targets"
        /\ req[c].todo = {} /\ signedOut' = signedOut \cup req[c].done
    BY <1>0, <1>6, FinishEffect DEF AnswerSignOut
  <2>2. req'[c].pc = "idle"
    BY <2>1 DEF Idle
  <2> QED
    BY <2>1, <2>2 DEF EndedInv, Others
<1> QED
  BY <1>2, <1>3, <1>4, <1>5, <1>6 DEF RevokeSessions

\* On D1, for every number of requests, isolates, sessions and tokens: a session
\* whose logout or revocation was answered stays ended, whatever rotations of its
\* tokens were under way.  On SQLite the ROLLBACK of another request's rotation
\* can undo it.
THEOREM AuthSignedOutStays == Db = "d1" => (Spec => []SignedOutStays)
<1> SUFFICES ASSUME Db = "d1" PROVE Spec => []SignedOutStays
  OBVIOUS
<1>1. Init => EndedInv
  BY DEF Init, EndedInv, Idle
<1>2. ChainInv /\ EndedInv /\ [Next]_vars => EndedInv'
  <2> SUFFICES ASSUME ChainInv, EndedInv, [Next]_vars PROVE EndedInv'
    OBVIOUS
  <2>1. CASE Tick \/ UNCHANGED vars
    BY <2>1 DEF Tick, EndedInv
  <2> QED
    BY <2>1, EndedStep DEF Next
<1>3. EndedInv => SignedOutStays
  BY DEF EndedInv, SignedOutStays
<1> QED
  BY ChainInit, ChainNext, <1>1, <1>2, <1>3, PTL DEF Spec

--------------------------------------------------------------------------------
(* Rotations on SQLite, where a transaction is undone as a whole.             *)

\* A family that reuse has killed.
Dead(D, s) ==
  /\ D.session[s] = "ended"
  /\ \E t \in Tokens : D.token[t].session = s
  /\ \A t \in Tokens : D.token[t].session = s => D.token[t].used \/ D.token[t].revoked

\* A used token has its child, and the cache says so.
Whole(D, t) ==
  /\ D.child[t] # None
  /\ D.token[D.child[t]].parent = t /\ D.token[D.child[t]].session = D.token[t].session

\* How far the transaction of a request has come.
Halfway(D, r) ==
  /\ r.pc = "insert" => \A g \in reused : g[1] # r.session
  /\ r.pc = "cache" => /\ D.token[r.child].parent = r.token
                       /\ D.token[r.child].session = r.session
  /\ r.pc = "end" => \A t \in Tokens :
       D.token[t].session = r.session => D.token[t].used \/ D.token[t].revoked
  /\ r.pc = "commit" /\ r.reply \in Reuse => Dead(D, r.session)

KilledDead == \A g \in reused : Dead(db, g[1]) /\ (open # {} => Dead(saved, g[1]))
AllHalfway == \A c \in Clients : Halfway(db, req[c])
SavedWhole ==
  \A t \in Tokens : saved.token[t].session # None /\ saved.token[t].used => Whole(saved, t)
UsedWhole ==
  \A t \in Tokens : db.token[t].session # None /\ db.token[t].used =>
    \/ Whole(db, t)
    \/ \E c \in Clients : req[c].pc \in {"insert", "cache"} /\ req[c].token = t

TornInv == KilledDead /\ AllHalfway /\ SavedWhole /\ UsedWhole

LEMMA DeadKept ==
  ASSUME NEW D \in Databases, NEW E \in Databases, NEW s \in Sessions, Dead(D, s), RowsKept(D, E),
         \A t \in Tokens : E.token[t].session = s => D.token[t].session = s
  PROVE  Dead(E, s)
<1>1. None \notin Sessions
  BY DEF None, Sessions
<1> QED
  BY <1>1 DEF Dead, RowsKept

LEMMA WholeKept ==
  ASSUME NEW D \in Databases, NEW E \in Databases, NEW t \in Tokens, Whole(D, t),
         D.token[t].session # None, RowsKept(D, E), E.child[t] = D.child[t]
  PROVE  Whole(E, t)
<1>1. D.child[t] \in Tokens
  BY DEF Whole, Databases, None
<1>2. D.token[D.child[t]].session # None
  BY DEF Whole
<1> QED
  BY <1>1, <1>2 DEF Whole, RowsKept

\* No statement adds a token to a family that reuse has killed.
LEMMA DeadStep ==
  ASSUME ChainInv, TornInv, Db = "sqlite", NEW c \in Clients, Inner(c), TypeInv'
  PROVE  \A g \in reused : Dead(db', g[1])
<1>0. /\ TypeInv /\ db \in Databases /\ db' \in Databases /\ Tables(db, opened, minted, req)
      /\ reused \subseteq Sessions \X Reuse
  BY DEF ChainInv, TypeInv, TypeOK, TablesInv
<1> SUFFICES ASSUME NEW g \in reused PROVE Dead(db', g[1])
  OBVIOUS
<1>1. g[1] \in Sessions /\ Dead(db, g[1])
  BY <1>0 DEF TornInv, KilledDead
<1>2. RowsKept(db, db') /\ RowsNew(c)
  BY RowsStep
<1>3. req[c].pc \in {"root", "insert"} => req[c].session # g[1]
  BY <1>0, <1>1 DEF TornInv, AllHalfway, Halfway, Dead, Tables, RootFree
<1>4. \A t \in Tokens : db'.token[t].session = g[1] => db.token[t].session = g[1]
  BY <1>2, <1>3 DEF RowsNew
<1> QED
  BY <1>0, <1>1, <1>2, <1>4, DeadKept

\* Requests outside of a transaction leave the one that is in one where it is.
LEMMA HalfwayOthers ==
  ASSUME ChainInv, TornInv, Db = "sqlite", NEW c \in Clients, Inner(c), TypeInv',
         NEW d \in Clients, d # c
  PROVE  Halfway(db', req'[d])
<1>0. /\ TypeInv /\ TxInv /\ db \in Databases /\ db' \in Databases
      /\ Tables(db, opened, minted, req) /\ Held(db, req[d]) /\ Placed(req[d])
      /\ Halfway(db, req[d]) /\ req[d] \in Requests
  BY DEF ChainInv, TypeInv, TypeOK, TablesInv, HeldInv, TornInv, AllHalfway
<1>1. req'[d] = req[d]
  BY <1>0, InnerEffect DEF Others
<1>2. RowsKept(db, db') /\ RowsNew(c)
  BY RowsStep
<1>3. None \notin Sessions /\ None \notin Tokens
  BY DEF None, Sessions, Tokens
<1>4. CASE ~InTx(d)
  BY <1>1, <1>4 DEF Halfway, InTx
<1>5. CASE InTx(d)
  <2>1. ~InTx(c)
    BY <1>0, <1>5, OneTransaction
  <2>2. reused' = reused
    BY <2>1 DEF Inner, IssueSession, RevokeSessions, InTx, Login, InsertRoot, SignOut, EndTarget,
         RevokeTarget, AnswerSignOut, ReadToken, CompareAndSet, InsertChild, CacheChild, Replay,
         RevokeFamily, EndFamily
  <2>3. \A t \in Tokens : db'.token[t].session # db.token[t].session =>
          req[c].pc = "root" /\ db'.token[t].session = req[c].session
    BY <1>2, <2>1 DEF RowsNew, InTx
  <2>4. CASE req[d].pc = "insert"
    BY <1>0, <1>1, <2>2, <2>4 DEF Halfway
  <2>5. CASE req[d].pc = "cache"
    <3>1. req[d].child \in Tokens /\ req[d].session \in Sessions
      BY <1>0, <2>5 DEF Placed, Rotating
    <3> QED
      BY <1>0, <1>1, <1>2, <1>3, <2>5, <3>1 DEF Halfway, RowsKept
  <2>6. CASE req[d].pc = "end"
    <3>1. /\ req[d].token \in Tokens /\ req[d].session \in Sessions
          /\ db.token[req[d].token].session = req[d].session
      BY <1>0, <2>6 DEF Placed, Rotating, TxPlaces, Held
    <3>2. \A t \in Tokens : db'.token[t].session = req[d].session =>
            db.token[t].session = req[d].session
      BY <1>0, <2>3, <3>1 DEF Tables, RootFree
    <3> QED
      BY <1>0, <1>1, <1>2, <1>3, <2>6, <3>1, <3>2 DEF Halfway, RowsKept
  <2>7. CASE req[d].pc = "commit" /\ req[d].reply \in Reuse
    <3>1. req[d].session \in Sessions /\ Dead(db, req[d].session)
      BY <1>0, <2>7 DEF Placed, Halfway, Reuse
    <3>2. \A t \in Tokens : db'.token[t].session = req[d].session =>
            db.token[t].session = req[d].session
      BY <1>0, <2>3, <3>1 DEF Tables, RootFree, Dead
    <3>3. Dead(db', req[d].session)
      BY <1>0, <1>2, <3>1, <3>2, DeadKept
    <3> QED
      BY <1>1, <2>7, <3>3 DEF Halfway
  <2> QED
    BY <1>1, <2>4, <2>5, <2>6, <2>7 DEF Halfway
<1> QED
  BY <1>4, <1>5

\* The request that moves.
LEMMA HalfwaySelf ==
  ASSUME ChainInv, TornInv, Db = "sqlite", NEW c \in Clients, Inner(c), TypeInv'
  PROVE  Halfway(db', req'[c])
<1>0. /\ TypeInv /\ TxInv /\ db \in Databases /\ db' \in Databases
      /\ Tables(db, opened, minted, req) /\ Held(db, req[c]) /\ Placed(req[c])
      /\ Halfway(db, req[c]) /\ req[c] \in Requests /\ req \in [Clients -> Requests]
      /\ reused \subseteq Sessions \X Reuse
  BY DEF ChainInv, TypeInv, TypeOK, TablesInv, HeldInv, TornInv, AllHalfway
<1>1. reused' = reused
  BY DEF Inner, IssueSession, RevokeSessions, Login, InsertRoot, SignOut, EndTarget, RevokeTarget,
         AnswerSignOut, ReadToken, CompareAndSet, InsertChild, CacheChild, Replay, RevokeFamily,
         EndFamily
<1>2. /\ req[c].pc \in TxPlaces => req[c].token \in Tokens
      /\ req[c].pc \in Rotating \cup {"root", "tokens"} => req[c].session \in Sessions
  BY <1>0 DEF Placed
<1>3. None \notin Sessions
  BY DEF None, Sessions
<1>4. CASE Login(c) \/ InsertRoot(c) \/ AnswerSignOut(c)
  <2>1. CASE Login(c)
    <3>1. req'[c] = [Idle EXCEPT !.pc = "root", !.session = opened']
      BY <1>0, <2>1, LoginEffect
    <3> QED
      BY <3>1 DEF Idle, Halfway
  <2>2. CASE InsertRoot(c)
    <3>1. req'[c] = Idle
      BY <1>0, <2>2, RootEffect
    <3> QED
      BY <3>1 DEF Idle, Halfway
  <2>3. CASE AnswerSignOut(c)
    <3>1. req'[c] = Idle
      BY <1>0, <2>3, FinishEffect DEF AnswerSignOut
    <3> QED
      BY <3>1 DEF Idle, Halfway
  <2> QED
    BY <1>4, <2>1, <2>2, <2>3
<1>5. CASE SignOut(c) \/ EndTarget(c) \/ RevokeTarget(c)
  <2>1. req'[c].pc \in {"targets", "tokens"}
    BY <1>0, <1>5, SignOutEffect, TargetEffect, GotoEffect DEF RevokeTarget, Places
  <2> QED
    BY <2>1 DEF Halfway
<1>6. CASE ReadToken(c)
  <2>1. req'[c].pc \in {"replay", "cas"} \/ (req'[c].pc = "commit" /\ req'[c].reply = "not_found")
    BY <1>0, <1>6, ReadEffect
  <2> QED
    BY <2>1 DEF Halfway, Reuse
<1>7. CASE CompareAndSet(c)
  <2>1. /\ req[c].pc = "cas" /\ req'[c].session = req[c].session
        /\ req'[c].pc = "replay" \/ (req'[c].pc = "insert" /\ Active(req[c].token))
    BY <1>0, <1>7, CasEffect
  <2>2. req[c].token \in Tokens /\ db.token[req[c].token].session = req[c].session
    BY <1>0, <1>2, <2>1 DEF Held, Rotating, TxPlaces
  <2>3. Active(req[c].token) => \A g \in reused : g[1] # req[c].session
    BY <2>2 DEF TornInv, KilledDead, Dead, Active, Row
  <2> QED
    BY <1>1, <2>1, <2>3 DEF Halfway
<1>8. CASE InsertChild(c)
  <2>1. /\ req[c].pc = "insert" /\ req'[c].pc = "cache" /\ req'[c].child = minted'
        /\ req'[c].token = req[c].token /\ req'[c].session = req[c].session
        /\ minted' \in Tokens
        /\ db'.token = [db.token EXCEPT ![minted'] =
              [session |-> req[c].session, parent |-> req[c].token, used |-> FALSE,
               revoked |-> FALSE]]
    BY <1>0, <1>8, ChildEffect
  <2>2. db'.token[minted'].session = req[c].session /\ db'.token[minted'].parent = req[c].token
    BY <1>0, <2>1 DEF Databases
  <2> QED
    BY <2>1, <2>2 DEF Halfway
<1>9. CASE CacheChild(c)
  <2>1. req'[c].pc = "commit" /\ req'[c].reply = "ok"
    BY <1>0, <1>9, CacheEffect
  <2> QED
    BY <2>1 DEF Halfway, Reuse
<1>10. CASE Replay(c)
  <2>1. req'[c].pc = "revoke" \/ (req'[c].pc = "commit" /\ req'[c].reply = "ok")
    BY <1>0, <1>10, ReplayEffect
  <2> QED
    BY <2>1 DEF Halfway, Reuse
<1>11. CASE RevokeFamily(c)
  <2>1. req[c].pc = "revoke" /\ req'[c].pc = "end" /\ req'[c].session = req[c].session
    BY <1>0, <1>11, GotoEffect DEF RevokeFamily, Places
  <2>2. \A t \in Tokens : /\ db'.token[t].session = db.token[t].session
                          /\ db.token[t].session = req[c].session => db'.token[t].revoked
    BY <1>0, <1>2, <1>11, <2>1, RevokeEffect DEF RevokeFamily, Rotating
  <2> QED
    BY <2>1, <2>2 DEF Halfway
<1>12. CASE EndFamily(c)
  <2>1. /\ req[c].pc = "end" /\ req'[c].pc = "commit" /\ req'[c].session = req[c].session
    BY <1>0, <1>12, GotoEffect DEF EndFamily, Places
  <2>2. /\ req[c].token \in Tokens /\ req[c].session \in Sessions
        /\ db.token[req[c].token].session = req[c].session
    BY <1>0, <1>2, <2>1 DEF Held, Rotating, TxPlaces
  <2>3. db.session[req[c].session] # "none"
    BY <1>0, <1>3, <2>2 DEF Tables, Keyed
  <2>4. db'.token = db.token /\ db'.session[req[c].session] = "ended"
    BY <1>0, <1>12, <2>2, <2>3, EndEffect DEF EndFamily
  <2>5. Dead(db', req[c].session)
    BY <1>0, <2>1, <2>2, <2>4 DEF Dead, Halfway
  <2> QED
    BY <2>1, <2>5 DEF Halfway
<1> QED
  BY <1>4, <1>5, <1>6, <1>7, <1>8, <1>9, <1>10, <1>11, <1>12
  DEF Inner, IssueSession, RevokeSessions

LEMMA TornStep ==
  ASSUME ChainInv, TornInv, Db = "sqlite", TypeInv', NEW c \in Clients,
         IssueSession(c) \/ Rotate(c) \/ RevokeSessions(c) \/ Fail(c)
  PROVE  TornInv'
<1>0. /\ TypeInv /\ TxInv /\ db \in Databases /\ db' \in Databases /\ req \in [Clients -> Requests]
      /\ Held(db, req[c]) /\ Placed(req[c]) /\ Apart(req) /\ Tables(db, opened, minted, req)
  BY DEF ChainInv, TypeInv, TypeOK, HeldInv, TablesInv
<1>1. CASE Inner(c)
  <2>1. open' = open /\ saved' = saved /\ Others(c)
    BY <1>0, <1>1, InnerEffect
  <2>2. reused' = reused
    BY <1>1
    DEF Inner, IssueSession, RevokeSessions, Login, InsertRoot, SignOut, EndTarget, RevokeTarget,
        AnswerSignOut, ReadToken, CompareAndSet, InsertChild, CacheChild, Replay, RevokeFamily,
        EndFamily
  <2>3. \A g \in reused' : Dead(db', g[1]) /\ (open' # {} => Dead(saved', g[1]))
    BY <1>1, <2>1, <2>2, DeadStep DEF TornInv, KilledDead
  <2>4. \A d \in Clients : Halfway(db', req'[d])
    BY <1>1, HalfwayOthers, HalfwaySelf
  <2>5. RowsKept(db, db') /\ RowsNew(c)
    BY <1>1, RowsStep
  <2>6. ASSUME NEW t \in Tokens, db'.token[t].session # None, db'.token[t].used
        PROVE  \/ Whole(db', t)
               \/ \E d \in Clients : req'[d].pc \in {"insert", "cache"} /\ req'[d].token = t
    <3>1. db.token[t].session # None /\ db.token[t].session = db'.token[t].session
      BY <2>5, <2>6 DEF RowsNew, RowsKept
    <3>2. CASE ~db.token[t].used
      <4>1. /\ t = req[c].token /\ req[c].pc = "cas" /\ req'[c].pc = "insert"
        BY <2>5, <2>6, <3>2 DEF RowsNew
      <4>2. CompareAndSet(c)
        BY <1>1, <4>1
        DEF Inner, IssueSession, RevokeSessions, Login, InsertRoot, SignOut, EndTarget,
            RevokeTarget, AnswerSignOut, ReadToken, CompareAndSet, InsertChild, CacheChild,
            Replay, RevokeFamily, EndFamily
      <4>3. req'[c].token = t
        BY <1>0, <4>1, <4>2, CasEffect
      <4> QED
        BY <4>1, <4>3
    <3>3. CASE db.token[t].used /\ Whole(db, t)
      <4>1. db'.child[t] = db.child[t]
        <5>1. req[c].pc = "cache" => db.child[req[c].token] = None
          BY <1>0 DEF Held
        <5> QED
          BY <2>5, <3>3, <5>1 DEF RowsNew, Whole
      <4> QED
        BY <1>0, <2>5, <3>1, <3>3, <4>1, WholeKept
    <3>4. CASE \E d \in Clients : req[d].pc \in {"insert", "cache"} /\ req[d].token = t
      <4>1. PICK d \in Clients : req[d].pc \in {"insert", "cache"} /\ req[d].token = t
        BY <3>4
      <4>2. CASE d # c
        BY <2>1, <4>1, <4>2 DEF Others
      <4>3. CASE d = c /\ req[c].pc = "insert"
        <5>1. InsertChild(c)
          BY <1>1, <4>3
          DEF Inner, IssueSession, RevokeSessions, Login, InsertRoot, SignOut, EndTarget,
              RevokeTarget, AnswerSignOut, ReadToken, CompareAndSet, InsertChild, CacheChild,
              Replay, RevokeFamily, EndFamily
        <5>2. req'[c].pc = "cache" /\ req'[c].token = req[c].token
          BY <1>0, <5>1, ChildEffect
        <5> QED
          BY <4>1, <4>3, <5>2
      <4>4. CASE d = c /\ req[c].pc = "cache"
        <5>1. CacheChild(c)
          BY <1>1, <4>4
          DEF Inner, IssueSession, RevokeSessions, Login, InsertRoot, SignOut, EndTarget,
              RevokeTarget, AnswerSignOut, ReadToken, CompareAndSet, InsertChild, CacheChild,
              Replay, RevokeFamily, EndFamily
        <5>2. /\ db'.token = db.token /\ db'.child = [db.child EXCEPT ![t] = req[c].child]
          BY <1>0, <4>1, <4>4, <5>1, CacheEffect
        <5>3. /\ req[c].child \in Tokens /\ req[c].child # None
              /\ db.token[req[c].child].parent = t
              /\ db.token[req[c].child].session = req[c].session
              /\ db.token[t].session = req[c].session
          BY <1>0, <4>1, <4>4
          DEF TornInv, AllHalfway, Halfway, Placed, Held, Rotating, None, Tokens
        <5>4. db'.child[t] = req[c].child
          BY <1>0, <5>2 DEF Databases
        <5> QED
          BY <5>2, <5>3, <5>4 DEF Whole
      <4> QED
        BY <4>1, <4>2, <4>3, <4>4
    <3> QED
      BY <2>6, <3>1, <3>2, <3>3, <3>4 DEF TornInv, UsedWhole, RowsKept
  <2>7. KilledDead'
    BY <2>3 DEF KilledDead
  <2>10. AllHalfway'
    BY <2>2, <2>4 DEF AllHalfway, Halfway
  <2>8. SavedWhole'
    BY <2>1 DEF TornInv, SavedWhole, Whole
  <2>9. UsedWhole'
    BY <2>6 DEF UsedWhole
  <2> QED
    BY <2>7, <2>8, <2>9, <2>10 DEF TornInv
<1>2. CASE Begin(c)
  <2>1. PICK i \in Instances \ open, g \in given :
          Others(c) /\ req'[c] = [Idle EXCEPT !.pc = "read", !.token = g[1], !.on = i]
    BY <1>0, <1>2, BeginEffect
  <2>2. req'[c].pc = "read" /\ req[c].pc = "idle"
    BY <1>2, <2>1 DEF Idle, Begin
  <2>3. db' = db /\ saved' = db /\ reused' = reused
    BY <1>2 DEF Begin
  <2>4. \A d \in Clients : ~InTx(d)
    BY <1>0, <2>1, OneTransaction
  <2>5. ASSUME NEW d \in Clients PROVE Halfway(db', req'[d])
    <3>1. CASE d = c
      BY <2>2, <3>1 DEF Halfway
    <3>2. CASE d # c
      <4>1. req'[d] = req[d] /\ Halfway(db, req[d])
        BY <2>1, <3>2 DEF TornInv, AllHalfway, Others
      <4> QED
        BY <2>3, <4>1 DEF Halfway
    <3> QED
      BY <3>1, <3>2
  <2>6. \A t \in Tokens : db.token[t].session # None /\ db.token[t].used => Whole(db, t)
    BY <2>4 DEF TornInv, UsedWhole, InTx
  <2>7. AllHalfway'
    BY <2>3, <2>5 DEF AllHalfway, Halfway
  <2>8. KilledDead'
    BY <2>3 DEF TornInv, KilledDead, Dead
  <2>9. SavedWhole' /\ UsedWhole'
    BY <2>3, <2>6 DEF SavedWhole, UsedWhole, Whole
  <2> QED
    BY <2>7, <2>8, <2>9 DEF TornInv
<1>3. CASE Commit(c)
  <2>1. /\ req[c].pc = "commit" /\ db' = db /\ saved' = EmptyDb /\ open' = open \ {req[c].on}
        /\ Deliver(c) \/ reused' = reused
    BY <1>3 DEF Commit, CloseTx
  <2>2. Others(c) /\ req'[c] = Idle
    BY <1>0, <1>3, FinishEffect DEF Commit
  <2>3. open' = {} /\ \A d \in Clients : d # c => ~InTx(d)
    BY <1>0, <2>1, OneTransaction DEF InTx
  <2>4. \A g \in reused' : Dead(db, g[1])
    BY <2>1 DEF Deliver, TornInv, KilledDead, AllHalfway, Halfway
  <2>5. \A d \in Clients : ~InTx(d)'
    BY <2>2, <2>3 DEF Others, InTx, Idle
  <2>7. \A t \in Tokens : db.token[t].session # None /\ db.token[t].used => Whole(db, t)
    BY <2>1, <2>3 DEF TornInv, UsedWhole, InTx
  <2>8. \A t \in Tokens : EmptyDb.token[t].session = None
    BY DEF EmptyDb, NoTokenRow
  <2>9. KilledDead'
    BY <2>1, <2>3, <2>4 DEF KilledDead, Dead
  <2>10. AllHalfway'
    BY <2>5 DEF AllHalfway, Halfway, InTx
  <2>11. SavedWhole' /\ UsedWhole'
    BY <2>1, <2>7, <2>8 DEF SavedWhole, UsedWhole, Whole
  <2> QED
    BY <2>9, <2>10, <2>11 DEF TornInv
<1>4. CASE Fail(c)
  <2>1. Others(c) /\ req'[c] = Idle /\ reused' = reused
    BY <1>0, <1>4, FinishEffect DEF Fail
  <2>2. CASE InTx(c)
    <3>1. db' = saved /\ saved' = EmptyDb /\ open' = open \ {req[c].on}
      BY <1>4, <2>2 DEF Fail, CloseTx
    <3>2. open # {} /\ open' = {} /\ \A d \in Clients : d # c => ~InTx(d)
      BY <1>0, <2>2, <3>1, OneTransaction
    <3>3. \A d \in Clients : ~InTx(d)'
      BY <2>1, <3>2 DEF Others, InTx, Idle
    <3>5. \A t \in Tokens : EmptyDb.token[t].session = None
      BY DEF EmptyDb, NoTokenRow
    <3>6. KilledDead'
      BY <2>1, <3>1, <3>2 DEF TornInv, KilledDead, Dead
    <3>7. AllHalfway'
      BY <3>3 DEF AllHalfway, Halfway, InTx
    <3>8. SavedWhole' /\ UsedWhole'
      BY <3>1, <3>5 DEF TornInv, SavedWhole, UsedWhole, Whole
    <3> QED
      BY <3>6, <3>7, <3>8 DEF TornInv
  <2>3. CASE ~InTx(c)
    <3>1. db' = db /\ saved' = saved /\ open' = open
      BY <1>4, <2>3 DEF Fail
    <3>2. ~InTx(c)'
      BY <2>1 DEF InTx, Idle
    <3>3. \A d \in Clients : Halfway(db', req'[d])
      BY <2>1, <3>1, <3>2 DEF TornInv, AllHalfway, Halfway, Others, InTx
    <3>4. \A d \in Clients : req[d].pc \in {"insert", "cache"} => req'[d] = req[d]
      BY <2>1, <2>3 DEF Others, InTx
    <3>5. KilledDead'
      BY <2>1, <3>1 DEF TornInv, KilledDead, Dead
    <3>6. AllHalfway'
      BY <2>1, <3>3 DEF AllHalfway, Halfway
    <3>7. SavedWhole'
      BY <3>1 DEF TornInv, SavedWhole, Whole
    <3>8. UsedWhole'
      BY <3>1, <3>4 DEF TornInv, UsedWhole, Whole
    <3> QED
      BY <3>5, <3>6, <3>7, <3>8 DEF TornInv
  <2> QED
    BY <2>2, <2>3
<1> QED
  BY <1>1, <1>2, <1>3, <1>4 DEF Rotate, Inner

LEMMA TornInit == Init => TornInv
<1> SUFFICES ASSUME Init PROVE TornInv
  OBVIOUS
<1>1. \A t \in Tokens : EmptyDb.token[t].session = None
  BY DEF EmptyDb, NoTokenRow
<1>2. \A c \in Clients : req[c].pc = "idle"
  BY DEF Init, Idle
<1> QED
  BY <1>1, <1>2 DEF Init, TornInv, KilledDead, AllHalfway, SavedWhole, UsedWhole, Halfway

LEMMA TornNext == Db = "sqlite" => (ChainInv /\ TornInv /\ [Next]_vars => TornInv')
<1> SUFFICES ASSUME Db = "sqlite", ChainInv, TornInv, [Next]_vars PROVE TornInv'
  OBVIOUS
<1>1. TypeInv'
  BY ChainNext DEF ChainInv
<1>2. CASE Tick \/ UNCHANGED vars
  BY <1>2 DEF Tick, TornInv, KilledDead, AllHalfway, SavedWhole, UsedWhole, Halfway
<1> QED
  BY <1>1, <1>2, TornStep DEF Next

\* On SQLite, for every number of requests, sessions and tokens: once
\* rotateRefresh() has told a client that its token was reused, no token of the
\* family is live and the session is over, whatever other requests do meanwhile.
THEOREM AuthReuseKills == Db = "sqlite" => (Spec => []ReuseKills)
<1> SUFFICES ASSUME Db = "sqlite" PROVE Spec => []ReuseKills
  OBVIOUS
<1>1. TornInv => ReuseKills
  BY DEF TornInv, KilledDead, Dead, ReuseKills, Family, Active, Row
<1>2. ChainInv /\ TornInv /\ [Next]_vars => TornInv'
  BY TornNext
<1> QED
  BY ChainInit, ChainNext, TornInit, <1>1, <1>2, PTL DEF Spec

\* On SQLite a rotation is never torn: between transactions a used token has its
\* child and the cache entry from which a retry is answered.
THEOREM AuthRetryGetsChild == Db = "sqlite" => (Spec => []RetryGetsChild)
<1> SUFFICES ASSUME Db = "sqlite" PROVE Spec => []RetryGetsChild
  OBVIOUS
<1>1. ChainInv /\ TornInv => RetryGetsChild
  <2> SUFFICES ASSUME ChainInv, TornInv, open = {} PROVE
        \A t \in Tokens : Row(t).session # None /\ Row(t).used => Whole(db, t)
    BY DEF RetryGetsChild, Whole, Row
  <2>1. \A c \in Clients : ~InTx(c)
    BY DEF ChainInv, TxInv
  <2> QED
    BY <2>1 DEF TornInv, UsedWhole, InTx, Row
<1>2. ChainInv /\ TornInv /\ [Next]_vars => TornInv'
  BY TornNext
<1> QED
  BY ChainInit, ChainNext, TornInit, <1>1, <1>2, PTL DEF Spec

================================================================================
