------------------------------- MODULE Principals -------------------------------
(******************************************************************************)
(* Who a request is served as: the gateway (packages/gateway), and in         *)
(* packages/auth the access token and the session behind it (routes.ts,       *)
(* service.ts), beside the requests that open sessions and those that end     *)
(* them: sign-in, logout, a new password, the deletion of the account.        *)
(*                                                                            *)
(* Each statement is one step.  On D1 and PostgreSQL it commits by itself; on *)
(* the connection that the requests of a SQLite process share, it joins the   *)
(* open transaction of another request and goes with its ROLLBACK.  There is  *)
(* one account; a session carries the one access token it was opened with     *)
(* (rotation is the subject of AuthSessions).  What a sign-in compares        *)
(* (password, ban, confirmation, rate limit) is left out: any sign-in may be  *)
(* refused.                                                                   *)
(******************************************************************************)
EXTENDS Naturals, FiniteSets

CONSTANTS
  Peers,      \* concurrent requests
  Ttl,          \* accessTokenTtlSeconds, in ticks
  MaxSessions,  \* bound: sessions opened
  MaxTime,      \* bound: ticks
  MaxUndos      \* bound: rollbacks of other requests' transactions

PrincipalsAssumption == {Ttl, MaxSessions, MaxTime, MaxUndos} \subseteq Nat

VARIABLES
  account,   \* whether the row of users is there
  session,   \* the rows of sessions and the expiry of their access token
  now,       \* the clock
  request,   \* the local state of each request
  dead,      \* history: sessions whose end was answered, and not undone since
  undos,     \* how many transactions of other requests have been rolled back
  before     \* the rows another request's open transaction goes back to; none if none is open

principalVars == <<account, session, now, request, dead, undos, before>>

Sessions == 1..MaxSessions
Unopened == [state |-> "none", exp |-> 0]
Waiting  == [pc |-> "idle", op |-> "none", key |-> "none", s |-> 0, scope |-> "none",
             todo |-> {}, cut |-> {}, others |-> {}, expired |-> FALSE, ended |-> FALSE,
             undone |-> {}, as |-> "nobody"]

PrincipalsInit ==
  /\ account = TRUE
  /\ session = [s \in Sessions |-> IF s = 1 THEN [state |-> "open", exp |-> Ttl] ELSE Unopened]
  /\ now = 0 /\ request = [c \in Peers |-> Waiting] /\ dead = {}
  /\ undos = 0 /\ before = {}

RequestAt(c, l)     == request[c].pc = l
RequestGoesOn(c, l) == request' = [request EXCEPT ![c].pc = l]
EndRequest(c)          == request' = [request EXCEPT ![c] = Waiting]

--------------------------------------------------------------------------------
(* The gateway, and the routes behind it.                                     *)

\* createGateway(): the preflight first, then the announced length, then the path.
Gate(method, big, path) ==
  CASE method = "OPTIONS" -> "204"
    [] method # "OPTIONS" /\ big -> "413"
    [] OTHER -> CASE path \in {"rest", "auth", "storage", "management"} -> path
                  [] path \in {"system", "wellknown"} /\ method = "GET" -> "management"
                  [] path = "websocket" /\ method = "GET" -> "426"
                  [] OTHER -> "404"

\* What the handlers do with a method and a surface.
OpsOf(method, surface) ==
  CASE surface \in {"rest", "storage"} -> {"serve"}
    [] surface = "auth" /\ method = "GET" -> {"user"}
    [] surface = "auth" /\ method = "PUT" -> {"password", "admin"}
    [] surface = "auth" /\ method = "POST" -> {"signin", "logout"}
    [] surface = "auth" /\ method = "DELETE" -> {"admin"}
    [] OTHER -> {}

\* What some request that passes the gateway asks for.
Reachable == UNION {OpsOf(m, Gate(m, big, p)) :
                      m \in {"GET", "POST", "PUT", "DELETE", "OPTIONS"}, big \in BOOLEAN,
                      p \in {"rest", "auth", "storage", "management", "websocket", "other"}}

\* What a request carries: updateUser() ends the "others", a secret key is no part of a user's call.
Carries(q) ==
  CASE q.op = "serve"  -> q.scope = "none"
    [] q.op = "signin" -> q.key = "publishable" /\ q.s = 0 /\ q.scope = "none"
    [] q.op = "admin"  -> q.scope = "none"
    [] q.op = "user"   -> q.key = "publishable" /\ q.s # 0 /\ q.scope = "none"
    [] q.op = "logout" -> q.key = "publishable" /\ q.s # 0 /\ q.scope # "none"
    [] q.op = "password" -> q.key = "publishable" /\ q.s # 0 /\ q.scope = "others"

Asked == {q \in [op : Reachable, key : {"publishable", "secret"}, s : {0} \cup Sessions,
                 scope : {"none", "local", "global", "others"}] : Carries(q)}

\* requireApiKey(), resolveApiKey(): without the key of some row the answer is 401, and no more.
Arrive(c) ==
  /\ RequestAt(c, "idle")
  /\ \E q \in Asked :
       /\ q.s # 0 => session[q.s].state # "none"
       /\ request' = [request EXCEPT ![c] =
                        [Waiting EXCEPT !.pc = IF q.op = "signin" THEN "open" ELSE "token",
                           !.op = q.op, !.key = q.key, !.s = q.s, !.scope = q.scope,
                           !.expired = q.s # 0 /\ session[q.s].exp <= now,
                           !.ended = q.s \in dead]]
  /\ UNCHANGED <<account, session, now, dead, undos, before>>

--------------------------------------------------------------------------------
(* The principal.                                                             *)

SessionActive(s) == session[s].state = "open"

\* Mutant: the signature is enough.
VerifiedBySignature(s) == s # 0 /\ now < session[s].exp

\* verifyAccessToken(): signature, issuer and audience, the expiry, then the session's row.
Verified(s) == s # 0 /\ now < session[s].exp /\ SessionActive(s)

\* resolvePrincipal(): a bearer token that does not verify is as good as none.
Principal(r) ==
  CASE Verified(r.s) -> "user"
    [] ~Verified(r.s) /\ r.key = "secret" -> "service"
    [] OTHER -> "anonymous"

\* Of a request that is being served, whom it is served as and what it brought.
ServedAs(r, as) ==
  [Waiting EXCEPT !.pc = "served", !.as = as, !.s = r.s, !.expired = r.expired, !.ended = r.ended,
                  !.undone = r.undone \cap {r.s}]

Token(c) ==
  LET r == request[c]
  IN  /\ RequestAt(c, "token")
      /\ CASE r.op = "serve" -> request' = [request EXCEPT ![c] = ServedAs(r, Principal(r))]
           [] r.op = "admin" /\ Principal(r) = "service" ->
                request' = [request EXCEPT ![c] = [Waiting EXCEPT !.pc = "admin", !.op = "admin"]]
           [] r.op = "user" /\ Verified(r.s) ->
                request' = [request EXCEPT ![c] = ServedAs(r, "user")]
           [] r.op \in {"password", "logout"} /\ Verified(r.s) ->
                request' = [request EXCEPT ![c] =
                  [Waiting EXCEPT !.pc = IF r.op = "password" THEN "password" ELSE "targets",
                                  !.op = r.op, !.s = r.s, !.scope = r.scope]]
           [] OTHER -> EndRequest(c)
      /\ UNCHANGED <<account, session, now, dead, undos, before>>

Served(c) ==
  /\ RequestAt(c, "served") /\ EndRequest(c)
  /\ UNCHANGED <<account, session, now, dead, undos, before>>

--------------------------------------------------------------------------------
(* signInWithPassword(), once it has accepted the password it read.           *)

\* issueFullSession(): the foreign key refuses a session of a user who is gone.
Open(c) ==
  /\ RequestAt(c, "open") /\ EndRequest(c)
  /\ IF account
     THEN \E s \in Sessions :
            /\ session[s].state = "none" /\ \A t \in Sessions : t < s => session[t].state # "none"
            /\ session' = [session EXCEPT ![s] = [state |-> "open", exp |-> now + Ttl]]
     ELSE UNCHANGED session
  /\ UNCHANGED <<account, now, dead, undos, before>>

--------------------------------------------------------------------------------
(* signOut() and updateUser(): revokeSessions() reads the account's sessions  *)
(* and ends those in scope one after the other.                               *)

\* UPDATE users; then the sessions that are not the caller's own.
SetPassword(c) ==
  /\ RequestAt(c, "password")
  /\ request' = [request EXCEPT ![c].pc = "targets",
                   ![c].others = {s \in Sessions \ {request[c].s} : SessionActive(s)}]
  /\ UNCHANGED <<account, session, now, dead, undos, before>>

InScope(scope, current, s) ==
  CASE scope = "local" -> s = current
    [] scope = "others" -> s # current
    [] OTHER -> TRUE

\* Mutant: the sessions are read as a local logout reads them.
TargetsOwn(c) ==
  LET r == request[c]
      found == {s \in Sessions : session[s].state \in {"open", "ended"} /\ InScope("local", r.s, s)}
  IN  /\ RequestAt(c, "targets")
      /\ request' = [request EXCEPT ![c] =
                       [Waiting EXCEPT !.pc = "end", !.op = r.op, !.todo = found, !.cut = found,
                          !.others = r.others]]
      /\ UNCHANGED <<account, session, now, dead, undos, before>>

Targets(c) ==
  LET r == request[c]
      found == {s \in Sessions : session[s].state \in {"open", "ended"} /\ InScope(r.scope, r.s, s)}
  IN  /\ RequestAt(c, "targets")
      /\ request' = [request EXCEPT ![c] =
                       [Waiting EXCEPT !.pc = "end", !.op = r.op, !.todo = found, !.cut = found,
                          !.others = r.others]]
      /\ UNCHANGED <<account, session, now, dead, undos, before>>

\* The session is off the list, whatever a rollback has undone before.
Struck(r, s) == [r EXCEPT !.todo = r.todo \ {s}, !.undone = r.undone \ {s}]

EndOne(c) ==
  /\ RequestAt(c, "end")
  /\ \E s \in request[c].todo :
       /\ session' = IF SessionActive(s) THEN [session EXCEPT ![s].state = "ended"] ELSE session
       /\ request' = [request EXCEPT ![c] = Struck(request[c], s)]
  /\ UNCHANGED <<account, now, dead, undos, before>>

Done(c) ==
  /\ RequestAt(c, "end") /\ request[c].todo = {} /\ EndRequest(c)
  /\ dead' = dead \cup (request[c].cut \ request[c].undone)
  /\ UNCHANGED <<account, session, now, undos, before>>

--------------------------------------------------------------------------------
(* The admin routes; the sessions of a deleted user go with the row.          *)

DeleteAccount(c) ==
  /\ RequestAt(c, "admin") /\ EndRequest(c)
  /\ account' = FALSE
  /\ session' = [s \in Sessions |-> IF session[s].state = "none" THEN session[s]
                                    ELSE [session[s] EXCEPT !.state = "gone"]]
  /\ dead' = dead \cup {s \in Sessions : session[s].state # "none"}
  /\ UNCHANGED <<now, undos, before>>

\* The other admin routes end no session: not a ban, nor another password or role.
AdminOther(c) ==
  /\ RequestAt(c, "admin") /\ EndRequest(c)
  /\ UNCHANGED <<account, session, now, dead, undos, before>>

Tick ==
  /\ now < MaxTime /\ now' = now + 1
  /\ UNCHANGED <<account, session, request, dead, undos, before>>

--------------------------------------------------------------------------------
(* The shared SQLite connection: the transaction of another request, such as  *)
(* rotateRefresh().  What falls between its BEGIN and its end is a part of it.*)

RotationBegins ==
  /\ before = {} /\ undos < MaxUndos
  /\ before' = {[account |-> account, session |-> session]}
  /\ UNCHANGED <<account, session, now, request, dead, undos>>

RotationCommits ==
  /\ before # {} /\ before' = {}
  /\ UNCHANGED <<account, session, now, request, dead, undos>>

\* ROLLBACK: a session whose row was inserted since is gone, one that was ended is open again.
RotationRollsBack ==
  /\ \E rows \in before :
       LET back == {s \in Sessions : rows.session[s].state = "open" /\ ~SessionActive(s)}
       IN  /\ account' = rows.account
           /\ session' = [s \in Sessions |->
                IF rows.session[s].state = "none" /\ session[s].state # "none"
                THEN [session[s] EXCEPT !.state = "gone"] ELSE rows.session[s]]
           /\ dead' = dead \ back
           /\ request' = [c \in Peers |-> IF request[c].pc \in {"token", "end"}
                                          THEN [request[c] EXCEPT !.undone = @ \cup back]
                                          ELSE request[c]]
  /\ before' = {} /\ undos' = undos + 1 /\ UNCHANGED now

PrincipalsNext ==
  \/ Tick \/ RotationBegins \/ RotationCommits \/ RotationRollsBack
  \/ \E c \in Peers :
       \/ Arrive(c) \/ Token(c) \/ Served(c) \/ Open(c)
       \/ SetPassword(c) \/ Targets(c) \/ EndOne(c) \/ Done(c)
       \/ DeleteAccount(c) \/ AdminOther(c)

PrincipalsSpec == PrincipalsInit /\ [][PrincipalsNext]_principalVars

--------------------------------------------------------------------------------
\* A request that began after its access token expired is not served as the user; nor is one
\* that began after the end of its session (logout, a new password, deletion of the user) was
\* answered, unless a rollback of another request's transaction, on the shared SQLite connection,
\* has opened the session again: its row is looked at on every request (service.ts,
\* verifyAccessToken, sessionActive).
EndedRefused ==
  \A c \in Peers : RequestAt(c, "served") /\ request[c].as = "user" =>
    ~request[c].expired /\ (request[c].ended => request[c].s \in request[c].undone)

\* When a change of password is about to be answered, every other session that was open when the
\* password was written is ended, whatever requests ran in between (service.ts, updateUser,
\* revokeSessions); but for those that a rollback of another request's transaction, on the
\* shared SQLite connection, has opened again since.
PasswordEndsOthers ==
  \A c \in Peers : RequestAt(c, "end") /\ request[c].op = "password" /\ request[c].todo = {} =>
    \A s \in request[c].others : SessionActive(s) => s \in request[c].undone
================================================================================
