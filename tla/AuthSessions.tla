------------------------------ MODULE AuthSessions ------------------------------
(******************************************************************************)
(* Sessions and refresh-token rotation of packages/auth, on the databases of  *)
(* the SQLite family (packages/db-sqlite/src/core.ts).                        *)
(*                                                                            *)
(* A session and the family of its refresh tokens are minted together by      *)
(* issueSession(), and every later token of the family copies both, so one    *)
(* number identifies both.  Tokens are numbered as they are minted.           *)
(*                                                                            *)
(* Each statement is one step.  What a transaction means is the adapter's     *)
(* business:                                                                  *)
(*   "sqlite"  one connection for all requests of the process.  A rotation    *)
(*             runs between BEGIN and COMMIT, but the statements other        *)
(*             requests execute meanwhile go to the same connection, and are  *)
(*             undone with it by a ROLLBACK;                                  *)
(*   "d1"      no interactive transaction: each statement commits at once.    *)
(* Either way an adapter instance refuses a second transaction while one is   *)
(* open.  D1 is reached by several instances (isolates) at a time.            *)
(******************************************************************************)
EXTENDS Integers, FiniteSets

CONSTANTS
  Clients,      \* concurrent requests
  Instances,    \* adapter instances
  Db,           \* "sqlite" or "d1"
  MaxSessions,  \* bound: sessions opened in a behaviour
  MaxTokens,    \* bound: refresh tokens minted in a behaviour
  MaxTime,      \* bound: the clock
  Grace         \* refreshGraceSeconds, in ticks

ASSUME DbAssumption    == Db \in {"sqlite", "d1"}
ASSUME PartsAssumption == Clients # {} /\ Instances # {}
ASSUME OneProcess      == Db = "sqlite" => \A i, j \in Instances : i = j
ASSUME LimitAssumption == /\ MaxSessions \in Nat \ {0} /\ MaxTokens \in Nat \ {0}
                          /\ MaxTime \in Nat /\ Grace \in Nat

Sessions == 1..MaxSessions
Tokens   == 1..MaxTokens
None     == 0

Scopes == {"local", "global", "others"}

\* refresh_token_reused, because the cached child is too old or because there is none.
Reuse == {"expired", "uncached"}

VARIABLES
  db,         \* the committed and the uncommitted rows, as the connection sees them
  saved,      \* what a ROLLBACK of the open SQLite transaction restores
  open,       \* instances whose txDepth is 1
  now,        \* the clock
  opened, minted, \* sessions and tokens handed out
  req,        \* the local state of each request
  given,      \* history: tokens some client has received, with their sessions
  answers,    \* history: the children answered for each presented token
  signedOut,  \* history: sessions whose logout or revocation was answered
  reused      \* history: families for which reuse was answered, and on what grounds

vars == <<db, saved, open, now, opened, minted, req, given, answers, signedOut, reused>>

\* auth_refresh_tokens: a row has a session; no row, no session.
NoTokenRow == [session |-> None, parent |-> None, used |-> FALSE, revoked |-> FALSE]

\* Session rows are "none", "open" (not_after is null) or "ended"; the replay
\* cache maps a parent to its child and an expiry.
EmptyDb == [session |-> [s \in Sessions |-> "none"],
            token   |-> [t \in Tokens |-> NoTokenRow],
            child   |-> [t \in Tokens |-> None],
            until   |-> [t \in Tokens |-> 0]]

Idle == [pc |-> "idle", on |-> None, token |-> None, session |-> None, at |-> 0,
         child |-> None, reply |-> "none", todo |-> {}, done |-> {}]

Init ==
  /\ db = EmptyDb /\ saved = EmptyDb /\ open = {}
  /\ now = 0 /\ opened = 0 /\ minted = 0
  /\ req = [c \in Clients |-> Idle]
  /\ given = {} /\ answers = [t \in Tokens |-> {}] /\ signedOut = {} /\ reused = {}

--------------------------------------------------------------------------------

Row(t)     == db.token[t]
Active(t)  == Row(t).session # None /\ ~Row(t).used /\ ~Row(t).revoked
Family(s)  == {t \in Tokens : Row(t).session = s}
Cached(c)  == db.child[req[c].token] # None /\ db.until[req[c].token] > req[c].at

Goto(c, l)  == req' = [req EXCEPT ![c].pc = l]
Finish(c)   == req' = [req EXCEPT ![c] = Idle]

\* UPDATE auth_refresh_tokens SET revoked = true WHERE session_id = s (or family_id).
RevokeTokens(s) ==
  db' = [db EXCEPT !.token = [t \in Tokens |->
           IF Row(t).session = s THEN [Row(t) EXCEPT !.revoked = TRUE] ELSE Row(t)]]

\* UPDATE auth_sessions SET not_after = now WHERE id = s.
EndSession(s) ==
  db' = IF db.session[s] = "none" THEN db ELSE [db EXCEPT !.session[s] = "ended"]

\* INSERT INTO auth_refresh_tokens.
InsertToken(n, s, p) ==
  db' = [db EXCEPT !.token[n] = [session |-> s, parent |-> p, used |-> FALSE,
                                 revoked |-> FALSE]]

\* The transaction is over: txDepth is 0 and there is nothing to roll back to.
CloseTx(c) ==
  /\ open' = open \ {req[c].on}
  /\ saved' = IF Db = "sqlite" THEN EmptyDb ELSE saved

history == <<given, answers, signedOut, reused>>

--------------------------------------------------------------------------------
(* issueSession(), for a login or a verified one-time token.                  *)

Login(c) ==
  /\ req[c].pc = "idle" /\ opened < MaxSessions
  /\ opened' = opened + 1
  /\ db' = [db EXCEPT !.session[opened + 1] = "open"]
  /\ req' = [req EXCEPT ![c] = [Idle EXCEPT !.pc = "root", !.session = opened + 1]]
  /\ UNCHANGED <<saved, open, now, minted, history>>

\* INSERT the first token (refused when the session row it references was rolled
\* back meanwhile), mintAccess(), and the answer, which the client may not get.
InsertRoot(c) ==
  /\ req[c].pc = "root" /\ minted < MaxTokens
  /\ minted' = minted + 1
  /\ IF db.session[req[c].session] = "none"
     THEN db' = db /\ given' = given
     ELSE /\ InsertToken(minted + 1, req[c].session, None)
          /\ given' \in {given, given \cup {<<minted + 1, req[c].session>>}}
  /\ Finish(c)
  /\ UNCHANGED <<saved, open, now, opened, answers, signedOut, reused>>

--------------------------------------------------------------------------------
(* rotateRefresh().                                                           *)

\* A client presents a token it has been given, for the first time or once more.
\* adapter.transaction() refuses (SK_DB_NESTED_TX) when this instance has one
\* open; otherwise BEGIN IMMEDIATE.
Begin(c) ==
  /\ req[c].pc = "idle"
  /\ \E g \in given, i \in Instances \ open :
       /\ req' = [req EXCEPT ![c] = [Idle EXCEPT !.pc = "read", !.token = g[1], !.on = i]]
       /\ open' = open \cup {i}
  /\ saved' = IF Db = "sqlite" THEN db ELSE saved
  /\ UNCHANGED <<db, now, opened, minted, history>>

\* SELECT the row, read the clock, decide.
ReadToken(c) ==
  /\ req[c].pc = "read"
  /\ LET r == Row(req[c].token)
         l == IF r.session = None THEN "commit" ELSE IF r.used \/ r.revoked THEN "replay" ELSE "cas"
     IN  req' = [req EXCEPT ![c].pc = l, ![c].session = r.session, ![c].at = now,
                            ![c].reply = IF l = "commit" THEN "not_found" ELSE "none"]
  /\ UNCHANGED <<db, saved, open, now, opened, minted, history>>

\* Mutant: the UPDATE does not ask for used = false, or nobody looks at its count.
CompareAndSetBlind(c) ==
  /\ req[c].pc = "cas"
  /\ db' = [db EXCEPT !.token[req[c].token].used = TRUE]
  /\ Goto(c, "insert")
  /\ UNCHANGED <<saved, open, now, opened, minted, history>>

\* UPDATE ... SET used WHERE token_hash AND NOT used AND NOT revoked, by row count.
CompareAndSet(c) ==
  /\ req[c].pc = "cas"
  /\ IF Active(req[c].token)
     THEN db' = [db EXCEPT !.token[req[c].token].used = TRUE] /\ Goto(c, "insert")
     ELSE db' = db /\ Goto(c, "replay")
  /\ UNCHANGED <<saved, open, now, opened, minted, history>>

\* Mutant: refreshing a session makes it last again.
InsertChildReopens(c) ==
  /\ req[c].pc = "insert" /\ minted < MaxTokens
  /\ minted' = minted + 1
  /\ db' = [db EXCEPT !.token[minted + 1] = [session |-> req[c].session,
                        parent |-> req[c].token, used |-> FALSE, revoked |-> FALSE],
                      !.session[req[c].session] = "open"]
  /\ req' = [req EXCEPT ![c].pc = "cache", ![c].child = minted + 1]
  /\ UNCHANGED <<saved, open, now, opened, history>>

\* INSERT the child; then UPDATE refreshed_at, which leaves not_after alone, and
\* mintAccess(), which only reads.
InsertChild(c) ==
  /\ req[c].pc = "insert" /\ minted < MaxTokens
  /\ minted' = minted + 1
  /\ InsertToken(minted + 1, req[c].session, req[c].token)
  /\ req' = [req EXCEPT ![c].pc = "cache", ![c].child = minted + 1]
  /\ UNCHANGED <<saved, open, now, opened, history>>

\* Mutant: the child is answered but not kept for a retry.
CacheChildForgotten(c) ==
  /\ req[c].pc = "cache"
  /\ req' = [req EXCEPT ![c].pc = "commit", ![c].reply = "ok", ![c].at = 0]
  /\ UNCHANGED <<db, saved, open, now, opened, minted, history>>

\* INSERT INTO auth_refresh_replay: the child may be asked for again for a while.
CacheChild(c) ==
  /\ req[c].pc = "cache"
  /\ db' = [db EXCEPT !.child[req[c].token] = req[c].child,
                      !.until[req[c].token] = req[c].at + Grace]
  /\ req' = [req EXCEPT ![c].pc = "commit", ![c].reply = "ok", ![c].at = 0]
  /\ UNCHANGED <<saved, open, now, opened, minted, history>>

\* A used or revoked token: the cached child inside the grace window, or
\* revokeFamily().
Replay(c) ==
  /\ req[c].pc = "replay"
  /\ req' = IF Cached(c)
            THEN [req EXCEPT ![c].pc = "commit", ![c].reply = "ok", ![c].at = 0,
                             ![c].child = db.child[req[c].token]]
            ELSE [req EXCEPT ![c].pc = "revoke", ![c].at = 0,
                             ![c].reply = IF db.child[req[c].token] = None THEN "uncached"
                                          ELSE "expired"]
  /\ UNCHANGED <<db, saved, open, now, opened, minted, history>>

RevokeFamily(c) ==
  /\ req[c].pc = "revoke"
  /\ RevokeTokens(req[c].session)
  /\ Goto(c, "end")
  /\ UNCHANGED <<saved, open, now, opened, minted, history>>

\* The session of every token of the family is ended; there is one.
EndFamily(c) ==
  /\ req[c].pc = "end"
  /\ EndSession(req[c].session)
  /\ Goto(c, "commit")
  /\ UNCHANGED <<saved, open, now, opened, minted, history>>

\* The tokens, or the error, reach the client.
Deliver(c) ==
  /\ given' = IF req[c].reply = "ok" THEN given \cup {<<req[c].child, req[c].session>>}
              ELSE given
  /\ answers' = IF req[c].reply = "ok"
                THEN [answers EXCEPT ![req[c].token] = @ \cup {req[c].child}] ELSE answers
  /\ reused' = IF req[c].reply \in Reuse THEN reused \cup {<<req[c].session, req[c].reply>>}
               ELSE reused

\* Mutant: the error of a reuse is thrown inside the transaction.
CommitThrows(c) ==
  /\ req[c].pc = "commit"
  /\ CloseTx(c)
  /\ db' = IF req[c].reply \in Reuse /\ Db = "sqlite" THEN saved ELSE db
  /\ Deliver(c) \/ UNCHANGED <<given, answers, reused>>
  /\ Finish(c)
  /\ UNCHANGED <<now, opened, minted, signedOut>>

\* COMMIT; then the outcome is returned or thrown, or is lost on the way
\* (fault point auth.after_commit_before_response).
Commit(c) ==
  /\ req[c].pc = "commit"
  /\ CloseTx(c)
  /\ Deliver(c) \/ UNCHANGED <<given, answers, reused>>
  /\ Finish(c)
  /\ UNCHANGED <<db, now, opened, minted, signedOut>>

--------------------------------------------------------------------------------
(* signOut() and the password change of updateUser(): revokeSessions().       *)

\* verifyAccessToken() asks sessionActive(); then SELECT the user's sessions.
SignOut(c) ==
  /\ req[c].pc = "idle"
  /\ \E s \in {g[2] : g \in given}, scope \in Scopes :
       /\ db.session[s] = "open"
       /\ LET all == {x \in Sessions : db.session[x] # "none"}
              targets == CASE scope = "local" -> {s} [] scope = "global" -> all
                           [] scope = "others" -> all \ {s}
          IN  req' = [req EXCEPT ![c] = [Idle EXCEPT !.pc = "targets", !.todo = targets,
                                                     !.done = targets]]
  /\ UNCHANGED <<db, saved, open, now, opened, minted, history>>

EndTarget(c) ==
  /\ req[c].pc = "targets"
  /\ \E s \in req[c].todo :
       /\ EndSession(s)
       /\ req' = [req EXCEPT ![c].pc = "tokens", ![c].session = s, ![c].todo = @ \ {s}]
  /\ UNCHANGED <<saved, open, now, opened, minted, history>>

RevokeTarget(c) ==
  /\ req[c].pc = "tokens"
  /\ RevokeTokens(req[c].session)
  /\ Goto(c, "targets")
  /\ UNCHANGED <<saved, open, now, opened, minted, history>>

\* The audit entry is written and the client is told.
AnswerSignOut(c) ==
  /\ req[c].pc = "targets" /\ req[c].todo = {}
  /\ signedOut' = signedOut \cup req[c].done
  /\ Finish(c)
  /\ UNCHANGED <<db, saved, open, now, opened, minted, given, answers, reused>>

--------------------------------------------------------------------------------

InTx(c) == req[c].pc \in {"read", "cas", "insert", "cache", "replay", "revoke", "end",
                          "commit"}

\* An await rejects, a fault point fires or a D1 isolate goes away.  Inside a
\* transaction SQLite rolls the connection back; on D1 what is done is done.
Fail(c) ==
  /\ req[c].pc # "idle"
  /\ IF InTx(c) THEN CloseTx(c) ELSE UNCHANGED <<open, saved>>
  /\ db' = IF InTx(c) /\ Db = "sqlite" THEN saved ELSE db
  /\ Finish(c)
  /\ UNCHANGED <<now, opened, minted, history>>

Tick ==
  /\ now < MaxTime
  /\ now' = now + 1
  /\ UNCHANGED <<db, saved, open, opened, minted, req, history>>

Rotate(c) ==
  \/ Begin(c) \/ ReadToken(c) \/ CompareAndSet(c) \/ InsertChild(c) \/ CacheChild(c)
  \/ Replay(c) \/ RevokeFamily(c) \/ EndFamily(c)
  \/ Commit(c)

IssueSession(c) == Login(c) \/ InsertRoot(c)

RevokeSessions(c) == SignOut(c) \/ EndTarget(c) \/ RevokeTarget(c) \/ AnswerSignOut(c)

Next ==
  \/ \E c \in Clients : IssueSession(c) \/ Rotate(c) \/ RevokeSessions(c) \/ Fail(c)
  \/ Tick

Spec == Init /\ [][Next]_vars

--------------------------------------------------------------------------------
(* Properties.                                                                *)

SessionStates == {"none", "open", "ended"}

TokenRows == [session : Sessions \cup {None}, parent : Tokens \cup {None},
              used : BOOLEAN, revoked : BOOLEAN]

Databases == [session : [Sessions -> SessionStates], token : [Tokens -> TokenRows],
              child : [Tokens -> Tokens \cup {None}], until : [Tokens -> Nat]]

Places == {"idle", "root", "read", "cas", "insert", "cache", "replay", "revoke", "end",
           "commit", "targets", "tokens"}

Requests == [pc : Places, on : Instances \cup {None}, token : Tokens \cup {None},
             session : Sessions \cup {None}, at : Nat, child : Tokens \cup {None},
             reply : {"none", "ok", "not_found"} \cup Reuse, todo : SUBSET Sessions,
             done : SUBSET Sessions]

\* Type invariant of the tables, the clock and the requests.
TypeOK ==
  /\ db \in Databases /\ saved \in Databases
  /\ open \subseteq Instances
  /\ now \in 0..MaxTime /\ opened \in 0..MaxSessions /\ minted \in 0..MaxTokens
  /\ req \in [Clients -> Requests]
  /\ given \subseteq Tokens \X Sessions /\ answers \in [Tokens -> SUBSET Tokens]
  /\ signedOut \subseteq Sessions /\ reused \subseteq Sessions \X Reuse

\* A family never has two live refresh tokens: however many clients refresh with
\* one token at a time, and wherever a rotation breaks off, at most one token of
\* the chain can be rotated next.
OneActive ==
  \A s \in Sessions : \A t, u \in Family(s) : Active(t) /\ Active(u) => t = u

\* All answers to one presented token carry the same child: a client that
\* retries inside the grace window, or races with itself, does not fork the chain.
SameChild == \A t \in Tokens : \A n, m \in answers[t] : n = m

\* A session whose logout was answered stays ended: no refresh that was under
\* way, and no failure of one, brings a revoked access token back.
SignedOutStays == \A s \in signedOut : db.session[s] = "ended"

\* Once a client was told that its token was reused, no token of the family is
\* live and the session is over, whatever other requests were doing meanwhile.
ReuseKills ==
  \A g \in reused : db.session[g[1]] = "ended" /\ \A t \in Family(g[1]) : ~Active(t)

\* The same of the tokens alone, after a replay outside the grace window: the
\* contract's "replay fuera de grace deja cero tokens activos en family".
ReplayKills ==
  \A g \in reused : g[2] = "expired" => \A t \in Family(g[1]) : ~Active(t)

\* Between transactions a token that is used up has its child and the cache
\* entry from which a retry is answered: a rotation is never torn.
RetryGetsChild ==
  open = {} =>
    \A t \in Tokens : Row(t).session # None /\ Row(t).used =>
      /\ db.child[t] # None
      /\ Row(db.child[t]).parent = t
      /\ Row(db.child[t]).session = Row(t).session
================================================================================
