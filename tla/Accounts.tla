-------------------------------- MODULE Accounts --------------------------------
(******************************************************************************)
(* Users and one-time tokens of packages/auth/src/service.ts: sign-up with    *)
(* confirmation, password recovery, change of address, verification, and the  *)
(* administration of users.                                                   *)
(*                                                                            *)
(* Each statement is one step.  On D1 and PostgreSQL it commits by itself; on *)
(* the connection that the requests of a SQLite process share, it joins the   *)
(* transaction of another request (a refresh, a write of the Data API) when   *)
(* one is open, and goes with its ROLLBACK.  Passwords, metadata and the      *)
(* audit log are left out; what a session is once issued is the subject of    *)
(* AuthSessions.                                                              *)
(******************************************************************************)
EXTENDS Naturals, FiniteSets

CONSTANTS
  Callers,   \* concurrent requests
  Users,     \* user ids
  Emails,    \* canonical addresses
  AutoConfirm,  \* config.autoConfirm
  MaxOtps,   \* bound: one-time tokens issued
  MaxLogins, \* bound: sessions issued
  MaxRollbacks  \* bound: rollbacks of other requests' transactions

NoOwner == "nobody"
NoMail == "null"

AccountsAssumption ==
  /\ NoOwner \notin Users /\ NoMail \notin Emails /\ AutoConfirm \in BOOLEAN
  /\ {MaxOtps, MaxLogins, MaxRollbacks} \subseteq Nat

OtpTypes == {"confirmation", "recovery", "email_change"}

VARIABLES
  user,      \* users: a row's address, pending address and confirmation
  otps,      \* one_time_tokens
  issuedOtps,  \* how many have been issued
  logins,    \* sessions issued: their user, and the token verified for them, 0 if none (of
             \* sessions that agree in these, one)
  caller,    \* the local state of each request
  answeredOtps,  \* history: tokens a verification was answered for
  dropped,   \* history: users whose deletion was answered
  rollbacks, \* how many transactions of other requests have been rolled back
  saved,     \* the rows another request's open transaction goes back to; none if none is open
  restored,  \* history: users who are back since the rollback of their deletion
  revived    \* history: tokens that are back since the rollback of theirs

accVars == <<user, otps, issuedOtps, logins, caller, answeredOtps, dropped, rollbacks, saved,
             restored, revived>>

txVars == <<rollbacks, saved, restored, revived>>

NoUser  == [there |-> FALSE, email |-> NoMail, change |-> NoMail, confirmed |-> FALSE]
Free    == [pc |-> "idle", op |-> "none", u |-> NoOwner, email |-> NoMail, otp |-> 0,
            late |-> FALSE]

AccInit ==
  /\ user = [u \in Users |-> NoUser] /\ otps = {} /\ issuedOtps = 0 /\ logins = {}
  /\ caller = [c \in Callers |-> Free] /\ answeredOtps = {} /\ dropped = {}
  /\ rollbacks = 0 /\ saved = {} /\ restored = {} /\ revived = {}

CallerAt(c, l)     == caller[c].pc = l
CallerGoesOn(c, l) == caller' = [caller EXCEPT ![c].pc = l]
CallerCloses(c)    == caller' = [caller EXCEPT ![c] = Free]
Known(e)           == \E u \in Users : user[u].there /\ user[u].email = e
OtherHas(u, e)     == \E v \in Users \ {u} : user[v].there /\ user[v].email = e

--------------------------------------------------------------------------------
(* signUp().  The address is looked up, and the UNIQUE column has the last    *)
(* word.                                                                      *)

SignUp(c, e) ==
  /\ CallerAt(c, "idle") /\ ~Known(e)
  /\ \E u \in Users :
       /\ ~user[u].there /\ u \notin dropped /\ \A d \in Callers : caller[d].u # u
       /\ caller' = [caller EXCEPT ![c] = [Free EXCEPT !.pc = "insert", !.op = "signup",
                                             !.u = u, !.email = e]]
  /\ UNCHANGED <<user, otps, issuedOtps, logins, answeredOtps, dropped, txVars>>

InsertUser(c) ==
  /\ CallerAt(c, "insert")
  /\ IF Known(caller[c].email) THEN CallerCloses(c) /\ UNCHANGED user
     ELSE /\ user' = [user EXCEPT ![caller[c].u] =
                        [there |-> TRUE, email |-> caller[c].email, change |-> NoMail,
                         confirmed |-> AutoConfirm]]
          /\ CallerGoesOn(c, IF AutoConfirm THEN "session" ELSE "otp")
  /\ UNCHANGED <<otps, issuedOtps, logins, answeredOtps, dropped, txVars>>

TypeOf(op) == CASE op = "signup" -> "confirmation"
                [] op = "recover" -> "recovery"
                [] op = "update" -> "email_change"

\* issueOneTimeToken(): refused by the foreign key when the user is gone.
IssueOtp(c) ==
  LET n == issuedOtps + 1
      k == caller[c]
  IN  /\ CallerAt(c, "otp") /\ issuedOtps < MaxOtps
      /\ IF user[k.u].there
         THEN /\ otps' = otps \cup {[id |-> n, u |-> k.u, type |-> TypeOf(k.op), to |-> k.email]}
              /\ issuedOtps' = n
         ELSE UNCHANGED <<otps, issuedOtps>>
      /\ CallerCloses(c)
      /\ UNCHANGED <<user, logins, answeredOtps, dropped, txVars>>

\* recover(): no answer tells whether the address is known.
RequestRecovery(c, e) ==
  /\ CallerAt(c, "idle")
  /\ \E u \in Users :
       /\ user[u].there /\ user[u].email = e
       /\ caller' = [caller EXCEPT ![c] = [Free EXCEPT !.pc = "otp", !.op = "recover",
                                             !.u = u, !.email = e]]
  /\ UNCHANGED <<user, otps, issuedOtps, logins, answeredOtps, dropped, txVars>>

\* updateUser() with another address: the new one waits in email_change.
ChangeEmail(c, u, e) ==
  /\ CallerAt(c, "idle") /\ user[u].there /\ ~OtherHas(u, e)
  /\ caller' = [caller EXCEPT ![c] = [Free EXCEPT !.pc = "change", !.op = "update",
                                        !.u = u, !.email = e]]
  /\ UNCHANGED <<user, otps, issuedOtps, logins, answeredOtps, dropped, txVars>>

\* UPDATE users SET email_change, or email when autoConfirm is on (UNIQUE may refuse it).
StoreChange(c) ==
  LET k == caller[c]
  IN  /\ CallerAt(c, "change")
      /\ CASE AutoConfirm /\ OtherHas(k.u, k.email) -> UNCHANGED user /\ CallerCloses(c)
           [] AutoConfirm /\ ~OtherHas(k.u, k.email) ->
                /\ user' = IF user[k.u].there THEN [user EXCEPT ![k.u].email = k.email] ELSE user
                /\ CallerCloses(c)
           [] OTHER ->
                /\ user' = IF user[k.u].there THEN [user EXCEPT ![k.u].change = k.email] ELSE user
                /\ CallerGoesOn(c, "otp")
      /\ UNCHANGED <<otps, issuedOtps, logins, answeredOtps, dropped, txVars>>

--------------------------------------------------------------------------------
(* verify(): the token is read, then deleted, then acted upon.                *)

ReadOtp(c, o) ==
  /\ CallerAt(c, "idle") /\ o \in otps
  /\ caller' = [caller EXCEPT ![c] = [pc |-> "delete", op |-> o.type, u |-> o.u, email |-> o.to,
                                      otp |-> o.id, late |-> o.id \in answeredOtps \ revived]]
  /\ UNCHANGED <<user, otps, issuedOtps, logins, answeredOtps, dropped, txVars>>

\* Mutant: the row stays when the type is recovery.
DeleteOtpUnlessRecovery(c) ==
  /\ CallerAt(c, "delete")
  /\ otps' = {o \in otps : o.id # caller[c].otp \/ o.type = "recovery"}
  /\ revived' = revived \ {caller[c].otp}
  /\ CallerGoesOn(c, IF caller[c].op = "recovery" THEN "session" ELSE "apply")
  /\ UNCHANGED <<user, issuedOtps, logins, answeredOtps, dropped, rollbacks, saved, restored>>

\* DELETE FROM one_time_tokens: how many rows went is not looked at.
DeleteOtp(c) ==
  /\ CallerAt(c, "delete")
  /\ otps' = {o \in otps : o.id # caller[c].otp}
  /\ revived' = revived \ {caller[c].otp}
  /\ CallerGoesOn(c, IF caller[c].op = "recovery" THEN "session" ELSE "apply")
  /\ UNCHANGED <<user, issuedOtps, logins, answeredOtps, dropped, rollbacks, saved, restored>>

\* Confirm the user, or move email_change to email (UNIQUE may refuse it).
Apply(c) ==
  LET u == caller[c].u
      change == caller[c].op = "email_change"
  IN  /\ CallerAt(c, "apply")
      /\ IF change /\ user[u].change # NoMail /\ OtherHas(u, user[u].change)
         THEN CallerCloses(c) /\ UNCHANGED user
         ELSE /\ user' = CASE ~user[u].there -> user
                           [] change -> [user EXCEPT ![u].email = user[u].change, ![u].change = NoMail]
                           [] OTHER  -> [user EXCEPT ![u].confirmed = TRUE]
              /\ CallerGoesOn(c, "session")
      /\ UNCHANGED <<otps, issuedOtps, logins, answeredOtps, dropped, txVars>>

\* Mutant: sessions do not reference users.
IssueAnyway(c) ==
  /\ CallerAt(c, "session") /\ Cardinality(logins) < MaxLogins
  /\ logins' = logins \cup {[u |-> caller[c].u, otp |-> caller[c].otp,
                             late |-> caller[c].late]}
  /\ answeredOtps' = answeredOtps \cup ({caller[c].otp} \ {0})
  /\ CallerCloses(c)
  /\ UNCHANGED <<user, otps, issuedOtps, dropped, txVars>>

\* issueFullSession(): refused by the foreign key when the user is gone.
Issue(c) ==
  /\ CallerAt(c, "session") /\ Cardinality(logins) < MaxLogins
  /\ IF user[caller[c].u].there
     THEN /\ logins' = logins \cup {[u |-> caller[c].u, otp |-> caller[c].otp,
                                     late |-> caller[c].late]}
          /\ answeredOtps' = answeredOtps \cup ({caller[c].otp} \ {0})
     ELSE UNCHANGED <<logins, answeredOtps>>
  /\ CallerCloses(c)
  /\ UNCHANGED <<user, otps, issuedOtps, dropped, txVars>>

\* signInWithPassword(): the row is read, the password is checked, a session follows.
SignIn(c, u) ==
  /\ CallerAt(c, "idle") /\ user[u].there /\ user[u].email # NoMail
  /\ user[u].confirmed \/ AutoConfirm
  /\ caller' = [caller EXCEPT ![c] = [Free EXCEPT !.pc = "session", !.op = "signin", !.u = u]]
  /\ UNCHANGED <<user, otps, issuedOtps, logins, answeredOtps, dropped, txVars>>

--------------------------------------------------------------------------------
(* admin: the caller holds the secret key.                                    *)

AdminCreate(u, e, confirm) ==
  /\ ~user[u].there /\ u \notin dropped /\ ~Known(e) /\ \A c \in Callers : caller[c].u # u
  /\ user' = [user EXCEPT ![u] = [there |-> TRUE, email |-> e, change |-> NoMail,
                                  confirmed |-> confirm]]
  /\ UNCHANGED <<otps, issuedOtps, logins, caller, answeredOtps, dropped, txVars>>

AdminSetEmail(u, e) ==
  /\ user[u].there /\ ~OtherHas(u, e)
  /\ user' = [user EXCEPT ![u].email = e]
  /\ UNCHANGED <<otps, issuedOtps, logins, caller, answeredOtps, dropped, txVars>>

\* Tokens and sessions go with the user (ON DELETE CASCADE).
AdminDelete(u) ==
  /\ user[u].there
  /\ user' = [user EXCEPT ![u] = NoUser]
  /\ otps' = {o \in otps : o.u # u}
  /\ logins' = {s \in logins : s.u # u}
  /\ dropped' = dropped \cup {u} /\ restored' = restored \ {u}
  /\ UNCHANGED <<issuedOtps, caller, answeredOtps, rollbacks, saved, revived>>

\* A statement fails, or the process dies: what is done stays done.
GiveUp(c) ==
  /\ ~CallerAt(c, "idle") /\ CallerCloses(c)
  /\ UNCHANGED <<user, otps, issuedOtps, logins, answeredOtps, dropped, txVars>>

--------------------------------------------------------------------------------
(* The shared SQLite connection: the transaction of another request, such as  *)
(* rotateRefresh().  What falls between its BEGIN and its end is a part of it.*)

OtherBegins ==
  /\ saved = {} /\ rollbacks < MaxRollbacks
  /\ saved' = {[user |-> user, otps |-> otps, logins |-> logins]}
  /\ UNCHANGED <<user, otps, issuedOtps, logins, caller, answeredOtps, dropped, rollbacks, restored,
                 revived>>

OtherCommits ==
  /\ saved # {} /\ saved' = {}
  /\ UNCHANGED <<user, otps, issuedOtps, logins, caller, answeredOtps, dropped, rollbacks, restored,
                 revived>>

\* Its callback threw (a refresh whose user was deleted meanwhile fails on a foreign key): ROLLBACK
\* takes the statements of every request back with its own.
OtherRollsBack ==
  /\ \E rows \in saved :
       /\ user' = rows.user /\ otps' = rows.otps /\ logins' = rows.logins
       /\ restored' = restored \cup {u \in dropped : rows.user[u].there /\ ~user[u].there}
       /\ revived' = revived \cup {o.id : o \in rows.otps \ otps}
  /\ saved' = {} /\ rollbacks' = rollbacks + 1
  /\ UNCHANGED <<issuedOtps, caller, answeredOtps, dropped>>

AccNext ==
  \/ OtherBegins \/ OtherCommits \/ OtherRollsBack
  \/ \E c \in Callers :
       \/ \E e \in Emails : SignUp(c, e) \/ RequestRecovery(c, e)
       \/ \E u \in Users, e \in Emails : ChangeEmail(c, u, e)
       \/ InsertUser(c) \/ IssueOtp(c) \/ StoreChange(c)
       \/ \E o \in otps : ReadOtp(c, o)
       \/ DeleteOtp(c) \/ Apply(c) \/ Issue(c)
       \/ \E u \in Users : SignIn(c, u)
       \/ GiveUp(c)
  \/ \E u \in Users, e \in Emails, b \in BOOLEAN : AdminCreate(u, e, b)
  \/ \E u \in Users, e \in Emails : AdminSetEmail(u, e)
  \/ \E u \in Users : AdminDelete(u)

AccSpec == AccInit /\ [][AccNext]_accVars

--------------------------------------------------------------------------------

\* A token a verification was answered for is spent: no later verification starts with it, unless
\* a rollback of another request's transaction has brought its row back since it was deleted.
\* (Two that have both read it before either deletes it do both succeed.)
SpentForGood == \A s \in logins : ~s.late

\* A user whose deletion was answered gets no session, not even from a sign-in or a verification
\* that had already read its row; except one that a rollback of another request's transaction, on
\* the shared SQLite connection, has brought back since (core.ts, transaction()).
NoGhostSession == \A s \in logins : s.u \in dropped => s.u \in restored
================================================================================
