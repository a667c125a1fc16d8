----------------------------- MODULE AccessProofs ------------------------------
(******************************************************************************)
(* What a project of any size can rely on of its accounts and principals:     *)
(* SpentForGood and NoGhostSession of Accounts, EndedRefused and              *)
(* PasswordEndsOthers of Principals, Throttled of RateLimit.                  *)
(******************************************************************************)
EXTENDS Accounts, Principals, RateLimit, TLAPS

--------------------------------------------------------------------------------
(* The accounts.  A token that was answered for has no row any more, and no   *)
(* new row takes its number; a user who was deleted is not there again,       *)
(* because whoever is about to insert a row has an id of its own.             *)

UserRecord == [there : BOOLEAN, email : Emails \cup {NoMail}, change : Emails \cup {NoMail},
               confirmed : BOOLEAN]
OtpRecord  == [id : Nat, u : Users, type : OtpTypes, to : Emails \cup {NoMail}]
CallRecord ==
  [pc : {"idle", "insert", "otp", "change", "delete", "apply", "session"},
   op : {"none", "signup", "recover", "update", "signin"} \cup OtpTypes,
   u : Users \cup {NoOwner}, email : Emails \cup {NoMail}, otp : Nat, late : BOOLEAN]
LoginRecord == [u : Users, otp : Nat, late : BOOLEAN]
SavedRows   == [user : [Users -> UserRecord], otps : SUBSET OtpRecord, logins : SUBSET LoginRecord]

AccType ==
  /\ user \in [Users -> UserRecord] /\ otps \subseteq OtpRecord /\ issuedOtps \in Nat
  /\ logins \subseteq LoginRecord /\ caller \in [Callers -> CallRecord]
  /\ answeredOtps \subseteq Nat /\ dropped \subseteq Users
  /\ rollbacks \in Nat /\ saved \subseteq SavedRows /\ restored \subseteq Users /\ revived \subseteq Nat

\* What is said of a request that is under way.
CallOf(c) ==
  /\ caller[c].pc # "idle" => caller[c].u \in Users
  /\ caller[c].pc = "otp" => caller[c].op \in {"signup", "recover", "update"}
  /\ caller[c].pc = "insert" => caller[c].op = "signup"
  /\ caller[c].pc = "change" => caller[c].op = "update"
  /\ caller[c].pc \in {"insert", "otp", "change"} => caller[c].otp = 0
  /\ ~caller[c].late /\ caller[c].otp <= issuedOtps
  /\ caller[c].pc \in {"apply", "session"} =>
       \A o \in otps : o.id = caller[c].otp => o.id \in revived
  /\ caller[c].pc = "insert" =>
       /\ ~user[caller[c].u].there /\ caller[c].u \notin dropped
       /\ \A d \in Callers : caller[d].pc = "insert" /\ d # c => caller[d].u # caller[c].u

\* Rows of tokens: of users who are there, numbered, and not answered for before they came back.
TokenInv ==
  /\ \A o \in otps : /\ o.id \in 1..issuedOtps /\ user[o.u].there
                     /\ o.id \in answeredOtps => o.id \in revived
  /\ \A n \in answeredOtps : n <= issuedOtps

\* A user who was deleted is gone or was brought back, and sessions are of users who are there; no
\* session came of a token answered for.
LoginInv ==
  /\ \A u \in dropped : user[u].there => u \in restored
  /\ \A s \in logins : user[s.u].there /\ ~s.late

\* The rows a transaction goes back to refer to each other, and to no user yet to be inserted.
SavedInv ==
  \A rows \in saved :
    /\ \A o \in rows.otps : o.id \in 1..issuedOtps /\ rows.user[o.u].there
    /\ \A s \in rows.logins : rows.user[s.u].there /\ ~s.late
    /\ \A u \in Users : rows.user[u].there => user[u].there \/ u \in dropped

AccInv == AccType /\ TokenInv /\ LoginInv /\ SavedInv /\ \A c \in Callers : CallOf(c)

USE DEF txVars

--------------------------------------------------------------------------------
LEMMA FreeType == Free \in CallRecord
  BY DEF Free, CallRecord

LEMMA FreeFields == Free.pc = "idle" /\ ~Free.late /\ Free.otp = 0
  BY DEF Free

LEMMA FreeCall ==
  ASSUME AccType, NEW c \in Callers, CallerCloses(c)
  PROVE  /\ caller' \in [Callers -> CallRecord] /\ caller'[c] = Free
         /\ \A d \in Callers : d # c => caller'[d] = caller[d]
  BY FreeType DEF AccType, CallerCloses

LEMMA AccWentOn ==
  ASSUME AccType, NEW c \in Callers, NEW l \in {"otp", "apply", "session"}, CallerGoesOn(c, l)
  PROVE  /\ caller' \in [Callers -> CallRecord]
         /\ caller'[c].pc = l /\ caller'[c].u = caller[c].u /\ caller'[c].otp = caller[c].otp
         /\ caller'[c].op = caller[c].op /\ caller'[c].late = caller[c].late
         /\ \A d \in Callers : d # c => caller'[d] = caller[d]
  BY DEF AccType, CallRecord, CallerGoesOn

\* A row of one_time_tokens has a number of its own and a user.
LEMMA TokenFacts ==
  ASSUME AccInv, NEW o \in otps
  PROVE  /\ o \in OtpRecord /\ o.id \in Nat /\ o.id # 0 /\ o.id <= issuedOtps /\ issuedOtps \in Nat
         /\ o.u \in Users /\ user[o.u].there /\ (o.id \in answeredOtps => o.id \in revived)
<1>1. o \in OtpRecord /\ issuedOtps \in Nat
  BY DEF AccInv, AccType
<1>2. o.id \in 1..issuedOtps /\ user[o.u].there /\ (o.id \in answeredOtps => o.id \in revived)
  BY DEF AccInv, TokenInv
<1>3. o.u \in Users
  BY <1>1 DEF OtpRecord
<1> QED
  BY <1>1, <1>2, <1>3

LEMMA AccStarts == AccountsAssumption /\ AccInit => AccInv
<1> SUFFICES ASSUME AccountsAssumption, AccInit PROVE AccInv
  OBVIOUS
<1>1. AccType
  <2>1. NoUser \in UserRecord
    BY DEF NoUser, UserRecord
  <2> QED
    BY <2>1, FreeType DEF AccInit, AccType
<1>2. TokenInv /\ LoginInv /\ SavedInv
  BY DEF AccInit, TokenInv, LoginInv, SavedInv
<1>3. ASSUME NEW c \in Callers PROVE CallOf(c)
  BY DEF AccInit, CallOf, Free
<1> QED
  BY <1>1, <1>2, <1>3 DEF AccInv

\* What a step may do under the eyes of a request it does not move.
Beside(c) ==
  /\ \A d \in Callers : d # c => caller'[d] = caller[d]
  /\ issuedOtps <= issuedOtps'
  /\ \A o \in otps' : \/ o \in otps /\ (o.id \in revived => o.id \in revived')
                      \/ o.id = issuedOtps + 1
  /\ \A d \in Callers : d # c /\ caller[d].pc = "insert" =>
       /\ ~user'[caller[d].u].there /\ caller[d].u \notin dropped'
       /\ caller'[c].pc = "insert" => caller'[c].u # caller[d].u

LEMMA Bystanders ==
  ASSUME AccInv, AccType', NEW c \in Callers, Beside(c)
  PROVE  \A d \in Callers : d # c => CallOf(d)'
<1> SUFFICES ASSUME NEW d \in Callers, d # c PROVE CallOf(d)'
  OBVIOUS
<1>1. caller'[d] = caller[d] /\ CallOf(d) /\ caller[d] \in CallRecord /\ issuedOtps \in Nat
      /\ issuedOtps' \in Nat
  BY DEF AccInv, AccType, Beside
<1>2. caller[d].otp <= issuedOtps' /\ caller[d].otp # issuedOtps + 1
  BY <1>1 DEF Beside, CallOf, CallRecord
<1>3. caller[d].pc \in {"apply", "session"} =>
        \A o \in otps' : o.id = caller[d].otp => o.id \in revived'
  BY <1>1, <1>2 DEF Beside, CallOf
<1>4. ASSUME caller[d].pc = "insert"
      PROVE  /\ ~user'[caller[d].u].there /\ caller[d].u \notin dropped'
             /\ \A e \in Callers : caller'[e].pc = "insert" /\ e # d => caller'[e].u # caller[d].u
  BY <1>1, <1>4 DEF Beside, CallOf
<1> QED
  BY <1>1, <1>2, <1>3, <1>4 DEF CallOf

\* A step that moves one request.
LEMMA AccMoves ==
  ASSUME AccInv, AccType', TokenInv', LoginInv', SavedInv', NEW c \in Callers, Beside(c), CallOf(c)'
  PROVE  AccInv'
  BY Bystanders DEF AccInv

\* A step beside the open transaction of another request.
LEMMA SavedStays ==
  ASSUME AccInv, AccType', UNCHANGED saved, issuedOtps <= issuedOtps', dropped \subseteq dropped',
         \A u \in Users : user[u].there => user'[u].there \/ u \in dropped'
  PROVE  SavedInv'
<1> SUFFICES ASSUME NEW rows \in saved
             PROVE  /\ \A o \in rows.otps : o.id \in 1..issuedOtps' /\ rows.user[o.u].there
                    /\ \A s \in rows.logins : rows.user[s.u].there /\ ~s.late
                    /\ \A u \in Users : rows.user[u].there => user'[u].there \/ u \in dropped'
  BY DEF SavedInv
<1>1. issuedOtps \in Nat /\ issuedOtps' \in Nat
  BY DEF AccInv, AccType
<1> QED
  BY <1>1 DEF AccInv, SavedInv

--------------------------------------------------------------------------------
(* Requests that begin, and those that end without having changed a row.      *)

\* A request that has only read.
LEMMA ReadOnly ==
  ASSUME AccInv, NEW c \in Callers,
         UNCHANGED <<user, otps, issuedOtps, logins, answeredOtps, dropped, txVars>>,
         caller' \in [Callers -> CallRecord],
         \A d \in Callers : d # c => caller'[d] = caller[d],
         caller'[c].pc = "insert" => \A d \in Callers : caller[d].u # caller'[c].u,
         CallOf(c)'
  PROVE  AccInv'
<1>1. AccType' /\ TokenInv' /\ LoginInv' /\ SavedInv'
  BY DEF AccInv, AccType, TokenInv, LoginInv, SavedInv
<1>2. Beside(c)
  BY DEF AccInv, AccType, Beside, CallOf
<1> QED
  BY <1>1, <1>2, AccMoves

LEMMA SignUpKeeps ==
  ASSUME AccInv, NEW c \in Callers, NEW e \in Emails, SignUp(c, e)
  PROVE  AccInv'
<1>1. PICK u \in Users :
        /\ ~user[u].there /\ u \notin dropped /\ \A d \in Callers : caller[d].u # u
        /\ caller' = [caller EXCEPT ![c] =
             [Free EXCEPT !.pc = "insert", !.op = "signup", !.u = u, !.email = e]]
  BY DEF SignUp
<1>0. ~user[u].there /\ u \notin dropped /\ \A d \in Callers : caller[d].u # u
  BY <1>1
<1>2. UNCHANGED <<user, otps, issuedOtps, logins, answeredOtps, dropped, txVars>>
  BY DEF SignUp
<1> DEFINE k == [Free EXCEPT !.pc = "insert", !.op = "signup", !.u = u, !.email = e]
<1>3. k \in CallRecord
  BY ONLY FreeType DEF CallRecord
<1>4. k.pc = "insert" /\ k.op = "signup" /\ k.u = u /\ ~k.late /\ k.otp = 0
  BY ONLY FreeType, FreeFields DEF CallRecord
<1>5. caller' = [caller EXCEPT ![c] = k]
  BY <1>1
<1> HIDE DEF k
<1>6. /\ caller' \in [Callers -> CallRecord] /\ caller'[c] = k
      /\ \A d \in Callers : d # c => caller'[d] = caller[d]
  BY <1>3, <1>5 DEF AccInv, AccType
<1>7. CallOf(c)'
  BY <1>0, <1>2, <1>4, <1>6 DEF AccInv, AccType, CallOf
<1> QED
  BY <1>0, <1>2, <1>4, <1>6, <1>7, ReadOnly

LEMMA RecoverKeeps ==
  ASSUME AccInv, NEW c \in Callers, NEW e \in Emails, RequestRecovery(c, e)
  PROVE  AccInv'
<1>1. PICK u \in Users :
        /\ user[u].there
        /\ caller' = [caller EXCEPT ![c] =
             [Free EXCEPT !.pc = "otp", !.op = "recover", !.u = u, !.email = e]]
  BY DEF RequestRecovery
<1>2. UNCHANGED <<user, otps, issuedOtps, logins, answeredOtps, dropped, txVars>>
  BY DEF RequestRecovery
<1> DEFINE k == [Free EXCEPT !.pc = "otp", !.op = "recover", !.u = u, !.email = e]
<1>3. k \in CallRecord
  BY ONLY FreeType DEF CallRecord
<1>4. k.pc = "otp" /\ k.op = "recover" /\ k.u = u /\ ~k.late /\ k.otp = 0
  BY ONLY FreeType, FreeFields DEF CallRecord
<1>5. caller' = [caller EXCEPT ![c] = k]
  BY <1>1
<1> HIDE DEF k
<1>6. /\ caller' \in [Callers -> CallRecord] /\ caller'[c] = k
      /\ \A d \in Callers : d # c => caller'[d] = caller[d]
  BY <1>3, <1>5 DEF AccInv, AccType
<1>7. CallOf(c)'
  BY <1>2, <1>4, <1>6 DEF AccInv, AccType, CallOf
<1> QED
  BY <1>2, <1>4, <1>6, <1>7, ReadOnly

LEMMA ChangeEmailKeeps ==
  ASSUME AccInv, NEW c \in Callers, NEW u \in Users, NEW e \in Emails, ChangeEmail(c, u, e)
  PROVE  AccInv'
<1>2. UNCHANGED <<user, otps, issuedOtps, logins, answeredOtps, dropped, txVars>>
  BY DEF ChangeEmail
<1> DEFINE k == [Free EXCEPT !.pc = "change", !.op = "update", !.u = u, !.email = e]
<1>3. k \in CallRecord
  BY ONLY FreeType DEF CallRecord
<1>4. k.pc = "change" /\ k.op = "update" /\ k.u = u /\ ~k.late /\ k.otp = 0
  BY ONLY FreeType, FreeFields DEF CallRecord
<1>5. caller' = [caller EXCEPT ![c] = k]
  BY DEF ChangeEmail
<1> HIDE DEF k
<1>6. /\ caller' \in [Callers -> CallRecord] /\ caller'[c] = k
      /\ \A d \in Callers : d # c => caller'[d] = caller[d]
  BY <1>3, <1>5 DEF AccInv, AccType
<1>7. CallOf(c)'
  BY <1>2, <1>4, <1>6 DEF AccInv, AccType, CallOf
<1> QED
  BY <1>2, <1>4, <1>6, <1>7, ReadOnly

LEMMA SignInKeeps ==
  ASSUME AccInv, NEW c \in Callers, NEW u \in Users, SignIn(c, u)
  PROVE  AccInv'
<1>2. UNCHANGED <<user, otps, issuedOtps, logins, answeredOtps, dropped, txVars>>
  BY DEF SignIn
<1> DEFINE k == [Free EXCEPT !.pc = "session", !.op = "signin", !.u = u]
<1>3. k \in CallRecord
  BY ONLY FreeType DEF CallRecord
<1>4. k.pc = "session" /\ k.u = u /\ ~k.late /\ k.otp = 0
  BY ONLY FreeType, FreeFields DEF CallRecord
<1>5. caller' = [caller EXCEPT ![c] = k]
  BY DEF SignIn
<1> HIDE DEF k
<1>6. /\ caller' \in [Callers -> CallRecord] /\ caller'[c] = k
      /\ \A d \in Callers : d # c => caller'[d] = caller[d]
  BY <1>3, <1>5 DEF AccInv, AccType
<1>7. CallOf(c)'
  <2>1. issuedOtps \in Nat /\ \A o \in otps : o.id # 0
    BY TokenFacts DEF AccInv, AccType
  <2> QED
    BY <1>2, <1>4, <1>6, <2>1 DEF CallOf
<1> QED
  BY <1>2, <1>4, <1>6, <1>7, ReadOnly

\* The row that is read has not been answered for.
LEMMA ReadOtpKeeps ==
  ASSUME AccInv, NEW c \in Callers, NEW o \in otps, ReadOtp(c, o)
  PROVE  AccInv'
<1>1. /\ o \in OtpRecord /\ o.id <= issuedOtps /\ issuedOtps \in Nat
      /\ o.id \notin answeredOtps \ revived
  BY TokenFacts
<1>2. UNCHANGED <<user, otps, issuedOtps, logins, answeredOtps, dropped, txVars>>
  BY DEF ReadOtp
<1> DEFINE k == [pc |-> "delete", op |-> o.type, u |-> o.u, email |-> o.to, otp |-> o.id,
                 late |-> FALSE]
<1>3. k \in CallRecord
  BY ONLY <1>1 DEF CallRecord, OtpRecord
<1>4. k.pc = "delete" /\ k.u \in Users /\ ~k.late /\ k.otp = o.id
  BY ONLY <1>1 DEF OtpRecord
<1>5. caller' = [caller EXCEPT ![c] = k]
  <2>1. (o.id \in answeredOtps \ revived) = FALSE
    BY <1>1
  <2> QED
    BY <2>1 DEF ReadOtp
<1> HIDE DEF k
<1>6. /\ caller' \in [Callers -> CallRecord] /\ caller'[c] = k
      /\ \A d \in Callers : d # c => caller'[d] = caller[d]
  BY <1>3, <1>5 DEF AccInv, AccType
<1>7. CallOf(c)'
  BY <1>1, <1>2, <1>4, <1>6 DEF CallOf
<1> QED
  BY <1>2, <1>4, <1>6, <1>7, ReadOnly

\* A request that ends with nothing done.
LEMMA ClosesOnly ==
  ASSUME AccInv, NEW c \in Callers, CallerCloses(c),
         UNCHANGED <<user, otps, issuedOtps, logins, answeredOtps, dropped, txVars>>
  PROVE  AccInv'
<1>1. /\ caller' \in [Callers -> CallRecord] /\ caller'[c] = Free
      /\ \A d \in Callers : d # c => caller'[d] = caller[d]
  BY FreeCall DEF AccInv
<1>2. CallOf(c)'
  BY <1>1, FreeFields DEF AccInv, AccType, CallOf
<1> QED
  BY <1>1, <1>2, ReadOnly, FreeFields

LEMMA GiveUpKeeps ==
  ASSUME AccInv, NEW c \in Callers, GiveUp(c)
  PROVE  AccInv'
  BY ClosesOnly DEF GiveUp

--------------------------------------------------------------------------------
(* Requests that write.                                                       *)

\* A row of users that keeps being there, or not, keeps what is said of the others.
LEMMA RowStays ==
  ASSUME AccInv, NEW c \in Callers, user' \in [Users -> UserRecord],
         \A u \in Users : user'[u].there = user[u].there,
         UNCHANGED <<issuedOtps, logins, answeredOtps, dropped, rollbacks, saved, restored>>,
         otps' \subseteq otps, revived' \subseteq revived,
         \A o \in otps' : o.id \in revived => o.id \in revived',
         caller' \in [Callers -> CallRecord],
         \A d \in Callers : d # c => caller'[d] = caller[d],
         caller'[c].pc # "insert", CallOf(c)'
  PROVE  AccInv'
<1>1. AccType'
  BY DEF AccInv, AccType
<1>2. TokenInv'
  <2>1. ASSUME NEW o \in otps'
        PROVE  o.id \in 1..issuedOtps /\ user'[o.u].there /\ (o.id \in answeredOtps => o.id \in revived')
    <3>1. o \in otps
      OBVIOUS
    <3> QED
      BY <3>1, TokenFacts
  <2> QED
    BY <2>1 DEF AccInv, TokenInv
<1>3. LoginInv'
  BY DEF AccInv, AccType, LoginInv, LoginRecord
<1>5. SavedInv'
  <2>1. issuedOtps <= issuedOtps'
    BY DEF AccInv, AccType
  <2> QED
    BY <1>1, <2>1, SavedStays
<1>4. Beside(c)
  BY DEF AccInv, AccType, CallOf, Beside
<1> QED
  BY <1>1, <1>2, <1>3, <1>4, <1>5, AccMoves

LEMMA InsertUserKeeps ==
  ASSUME AccountsAssumption, AccInv, NEW c \in Callers, InsertUser(c)
  PROVE  AccInv'
<1>1. CASE Known(caller[c].email)
  BY <1>1, ClosesOnly DEF InsertUser
<1>2. CASE ~Known(caller[c].email)
  <2> DEFINE u == caller[c].u
             l == IF AutoConfirm THEN "session" ELSE "otp"
             k == [there |-> TRUE, email |-> caller[c].email, change |-> NoMail,
                   confirmed |-> AutoConfirm]
  <2>1. /\ caller[c].pc = "insert" /\ user' = [user EXCEPT ![u] = k] /\ CallerGoesOn(c, l)
        /\ UNCHANGED <<otps, issuedOtps, logins, answeredOtps, dropped, txVars>>
    BY <1>2 DEF InsertUser, CallerAt
  <2>2. /\ CallOf(c) /\ u \in Users /\ ~user[u].there /\ u \notin dropped /\ caller[c].op = "signup"
        /\ caller[c].otp = 0
        /\ \A d \in Callers : caller[d].pc = "insert" /\ d # c => caller[d].u # u
    BY <2>1 DEF AccInv, CallOf
  <2>3. k \in UserRecord /\ k.there
    BY DEF AccountsAssumption, AccInv, AccType, CallRecord, UserRecord
  <2>4. l \in {"otp", "session"}
    OBVIOUS
  <2> HIDE DEF k, l
  <2>5. /\ user' \in [Users -> UserRecord] /\ user'[u] = k
        /\ \A v \in Users : v # u => user'[v] = user[v]
    BY <2>1, <2>2, <2>3 DEF AccInv, AccType
  <2>6. /\ caller' \in [Callers -> CallRecord]
        /\ caller'[c].pc = l /\ caller'[c].u = u /\ caller'[c].otp = 0
        /\ caller'[c].op = "signup" /\ caller'[c].late = caller[c].late
        /\ \A d \in Callers : d # c => caller'[d] = caller[d]
    BY <2>1, <2>2, <2>4, AccWentOn DEF AccInv
  <2> HIDE DEF u
  <2>7. AccType'
    BY <2>1, <2>5, <2>6 DEF AccInv, AccType
  <2>8. TokenInv'
    <3>1. ASSUME NEW o \in otps PROVE user'[o.u].there
      BY <2>3, <2>5, TokenFacts
    <3> QED
      BY <2>1, <3>1 DEF AccInv, TokenInv
  <2>9. LoginInv'
    BY <2>1, <2>2, <2>5 DEF AccInv, AccType, LoginInv, LoginRecord
  <2>12. SavedInv'
    <3>1. issuedOtps <= issuedOtps'
      BY <2>1 DEF AccInv, AccType
    <3> QED
      BY <2>1, <2>3, <2>5, <2>7, <3>1, SavedStays
  <2>10. CallOf(c)'
    <3>1. \A o \in otps : o.id # 0
      BY TokenFacts
    <3> QED
      BY <2>1, <2>2, <2>4, <2>6, <3>1 DEF CallOf
  <2>11. Beside(c)
    <3>1. issuedOtps <= issuedOtps'
      BY <2>1 DEF AccInv, AccType
    <3>2. ASSUME NEW d \in Callers, d # c, caller[d].pc = "insert"
          PROVE  ~user'[caller[d].u].there /\ caller[d].u \notin dropped'
      BY <2>1, <2>2, <2>5, <3>2 DEF AccInv, CallOf
    <3> QED
      BY <2>1, <2>4, <2>6, <3>1, <3>2 DEF Beside
  <2> QED
    BY <2>7, <2>8, <2>9, <2>10, <2>11, <2>12, AccMoves
<1> QED
  BY <1>1, <1>2

LEMMA IssueOtpKeeps ==
  ASSUME AccInv, NEW c \in Callers, IssueOtp(c)
  PROVE  AccInv'
<1>1. CASE ~user[caller[c].u].there
  BY <1>1, ClosesOnly DEF IssueOtp
<1>2. CASE user[caller[c].u].there
  <2> DEFINE n == issuedOtps + 1
             o == [id |-> n, u |-> caller[c].u, type |-> TypeOf(caller[c].op),
                   to |-> caller[c].email]
  <2>1. /\ caller[c].pc = "otp" /\ otps' = otps \cup {o} /\ issuedOtps' = n /\ CallerCloses(c)
        /\ UNCHANGED <<user, logins, answeredOtps, dropped, txVars>>
    BY <1>2 DEF IssueOtp, CallerAt
  <2>2. /\ caller' \in [Callers -> CallRecord] /\ caller'[c] = Free
        /\ \A d \in Callers : d # c => caller'[d] = caller[d]
    BY <2>1, FreeCall DEF AccInv
  <2>3. o \in OtpRecord /\ o.id = n /\ o.u = caller[c].u
    <3>1. TypeOf(caller[c].op) \in OtpTypes
      BY <2>1 DEF AccInv, CallOf, TypeOf, OtpTypes
    <3>2. n \in Nat /\ caller[c].u \in Users /\ caller[c].email \in Emails \cup {NoMail}
      BY <2>1 DEF AccInv, AccType, CallOf, CallRecord
    <3> QED
      BY <3>1, <3>2 DEF OtpRecord
  <2> HIDE DEF o
  <2>4. AccType'
    BY <2>1, <2>2, <2>3 DEF AccInv, AccType
  <2>5. TokenInv'
    <3>1. issuedOtps \in Nat /\ \A m \in answeredOtps : m \in Nat /\ m <= issuedOtps
      BY DEF AccInv, AccType, TokenInv
    <3>2. ASSUME NEW x \in otps'
          PROVE  x.id \in 1..n /\ (x.id \in answeredOtps => x.id \in revived) /\ user[x.u].there
      <4>1. CASE x \in otps
        BY <3>1, <4>1, TokenFacts
      <4>2. CASE x = o
        <5>1. n \notin answeredOtps /\ n \in 1..n
          BY <3>1
        <5> QED
          BY <1>2, <2>3, <4>2, <5>1
      <4> QED
        BY <2>1, <4>1, <4>2
    <3> QED
      BY <2>1, <3>1, <3>2 DEF TokenInv
  <2>6. LoginInv'
    BY <2>1 DEF AccInv, LoginInv
  <2>9. SavedInv'
    <3>1. issuedOtps <= issuedOtps'
      BY <2>1 DEF AccInv, AccType
    <3> QED
      BY <2>1, <2>4, <3>1, SavedStays
  <2>7. CallOf(c)'
    BY <2>1, <2>2, FreeFields DEF AccInv, AccType, CallOf
  <2>8. Beside(c)
    BY <2>1, <2>2, <2>3, FreeFields DEF AccInv, AccType, CallOf, Beside
  <2> QED
    BY <2>4, <2>5, <2>6, <2>7, <2>8, <2>9, AccMoves
<1> QED
  BY <1>1, <1>2

LEMMA StoreChangeKeeps ==
  ASSUME AccountsAssumption, AccInv, NEW c \in Callers, StoreChange(c)
  PROVE  AccInv'
<1> DEFINE u == caller[c].u
           e == caller[c].email
<1>1. /\ caller[c].pc = "change" /\ u \in Users /\ e \in Emails \cup {NoMail} /\ CallOf(c)
      /\ UNCHANGED <<otps, issuedOtps, logins, answeredOtps, dropped, txVars>>
  BY DEF AccInv, AccType, CallOf, CallRecord, StoreChange, CallerAt
<1>2. \/ UNCHANGED user
      \/ user' = [user EXCEPT ![u].email = e]
      \/ user' = [user EXCEPT ![u].change = e]
  BY DEF StoreChange, AccountsAssumption
<1>3. CallerCloses(c) \/ CallerGoesOn(c, "otp")
  BY DEF StoreChange, AccountsAssumption
<1> HIDE DEF u, e
<1>4. /\ user' \in [Users -> UserRecord]
      /\ \A v \in Users : user'[v].there = user[v].there
  BY <1>1, <1>2 DEF AccInv, AccType, UserRecord
<1>5. CASE CallerCloses(c)
  <2>1. /\ caller' \in [Callers -> CallRecord] /\ caller'[c] = Free
        /\ \A d \in Callers : d # c => caller'[d] = caller[d]
    BY <1>5, FreeCall DEF AccInv
  <2>2. CallOf(c)'
    BY <1>1, <2>1, FreeFields DEF AccInv, AccType, CallOf
  <2> QED
    BY <1>1, <1>4, <2>1, <2>2, FreeFields, RowStays
<1>6. CASE CallerGoesOn(c, "otp")
  <2>1. /\ caller' \in [Callers -> CallRecord]
        /\ caller'[c].pc = "otp" /\ caller'[c].u = u /\ caller'[c].otp = caller[c].otp
        /\ caller'[c].op = caller[c].op /\ caller'[c].late = caller[c].late
        /\ \A d \in Callers : d # c => caller'[d] = caller[d]
    BY <1>6, AccWentOn DEF AccInv, u
  <2>2. CallOf(c)'
    BY <1>1, <2>1 DEF CallOf
  <2> QED
    BY <1>1, <1>4, <2>1, <2>2, RowStays
<1> QED
  BY <1>3, <1>5, <1>6

LEMMA DeleteOtpKeeps ==
  ASSUME AccInv, NEW c \in Callers, DeleteOtp(c)
  PROVE  AccInv'
<1> DEFINE l == IF caller[c].op = "recovery" THEN "session" ELSE "apply"
<1>1. /\ caller[c].pc = "delete" /\ CallOf(c) /\ CallerGoesOn(c, l)
      /\ otps' = {o \in otps : o.id # caller[c].otp}
      /\ revived' = revived \ {caller[c].otp}
      /\ UNCHANGED <<user, issuedOtps, logins, answeredOtps, dropped, rollbacks, saved, restored>>
  BY DEF AccInv, DeleteOtp, CallerAt
<1>2. l \in {"apply", "session"}
  OBVIOUS
<1> HIDE DEF l
<1>3. /\ caller' \in [Callers -> CallRecord]
      /\ caller'[c].pc = l /\ caller'[c].u = caller[c].u /\ caller'[c].otp = caller[c].otp
      /\ caller'[c].op = caller[c].op /\ caller'[c].late = caller[c].late
      /\ \A d \in Callers : d # c => caller'[d] = caller[d]
  BY <1>1, <1>2, AccWentOn DEF AccInv
<1>4. CallOf(c)'
  BY <1>1, <1>2, <1>3 DEF CallOf
<1> QED
  BY <1>1, <1>2, <1>3, <1>4, RowStays DEF AccInv, AccType

LEMMA ApplyKeeps ==
  ASSUME AccInv, NEW c \in Callers, Apply(c)
  PROVE  AccInv'
<1> DEFINE u == caller[c].u
<1>1. /\ caller[c].pc = "apply" /\ u \in Users /\ CallOf(c) /\ user[u] \in UserRecord
      /\ UNCHANGED <<otps, issuedOtps, logins, answeredOtps, dropped, txVars>>
  BY DEF AccInv, AccType, CallOf, Apply, CallerAt
<1>2. \/ UNCHANGED user
      \/ user' = [user EXCEPT ![u].email = user[u].change, ![u].change = NoMail]
      \/ user' = [user EXCEPT ![u].confirmed = TRUE]
  BY Zenon DEF Apply
<1>3. (CallerCloses(c) /\ UNCHANGED user) \/ CallerGoesOn(c, "session")
  BY DEF Apply
<1> HIDE DEF u
<1>4. /\ user' \in [Users -> UserRecord]
      /\ \A v \in Users : user'[v].there = user[v].there
  <2>1. CASE user' = [user EXCEPT ![u].email = user[u].change, ![u].change = NoMail]
    <3> DEFINE k == [user[u] EXCEPT !.email = user[u].change, !.change = NoMail]
    <3>1. k \in UserRecord /\ k.there = user[u].there
      BY ONLY <1>1 DEF UserRecord
    <3>2. user' = [user EXCEPT ![u] = k]
      BY <1>1, <2>1 DEF AccInv, AccType
    <3> HIDE DEF k
    <3> QED
      BY <1>1, <3>1, <3>2 DEF AccInv, AccType
  <2>2. CASE user' = [user EXCEPT ![u].confirmed = TRUE]
    <3> DEFINE k == [user[u] EXCEPT !.confirmed = TRUE]
    <3>1. k \in UserRecord /\ k.there = user[u].there
      BY ONLY <1>1 DEF UserRecord
    <3>2. user' = [user EXCEPT ![u] = k]
      BY <2>2
    <3> HIDE DEF k
    <3> QED
      BY <1>1, <3>1, <3>2 DEF AccInv, AccType
  <2>3. CASE UNCHANGED user
    BY <2>3 DEF AccInv, AccType
  <2> QED
    BY <1>2, <2>1, <2>2, <2>3
<1>5. CASE CallerCloses(c) /\ UNCHANGED user
  BY <1>1, <1>5, ClosesOnly
<1>6. CASE CallerGoesOn(c, "session")
  <2>1. /\ caller' \in [Callers -> CallRecord]
        /\ caller'[c].pc = "session" /\ caller'[c].u = u /\ caller'[c].otp = caller[c].otp
        /\ caller'[c].op = caller[c].op /\ caller'[c].late = caller[c].late
        /\ \A d \in Callers : d # c => caller'[d] = caller[d]
    BY <1>6, AccWentOn DEF AccInv, u
  <2>2. CallOf(c)'
    BY <1>1, <2>1 DEF CallOf
  <2> QED
    BY <1>1, <1>4, <2>1, <2>2, RowStays
<1> QED
  BY <1>3, <1>5, <1>6

\* The row of the token is gone before the session is answered.
LEMMA IssueKeeps ==
  ASSUME AccInv, NEW c \in Callers, Issue(c)
  PROVE  AccInv'
<1>1. CASE ~user[caller[c].u].there
  BY <1>1, ClosesOnly DEF Issue
<1>2. CASE user[caller[c].u].there
  <2> DEFINE s == [u |-> caller[c].u, otp |-> caller[c].otp, late |-> caller[c].late]
  <2>1. /\ caller[c].pc = "session" /\ logins' = logins \cup {s} /\ CallerCloses(c)
        /\ answeredOtps' = answeredOtps \cup ({caller[c].otp} \ {0})
        /\ UNCHANGED <<user, otps, issuedOtps, dropped, txVars>>
    BY <1>2 DEF Issue, CallerAt
  <2>2. /\ caller[c].u \in Users /\ caller[c] \in CallRecord /\ ~caller[c].late
        /\ caller[c].otp <= issuedOtps 
        /\ \A o \in otps : o.id = caller[c].otp => o.id \in revived
    BY <2>1 DEF AccInv, AccType, CallOf
  <2>3. s \in LoginRecord /\ s.u = caller[c].u /\ ~s.late
    BY <2>2 DEF LoginRecord, CallRecord
  <2> HIDE DEF s
  <2>4. /\ caller' \in [Callers -> CallRecord] /\ caller'[c] = Free
        /\ \A d \in Callers : d # c => caller'[d] = caller[d]
    BY <2>1, FreeCall DEF AccInv
  <2>5. caller[c].otp \in Nat
    BY <2>2 DEF CallRecord
  <2>6. AccType'
    BY <2>1, <2>3, <2>4, <2>5 DEF AccInv, AccType
  <2>7. TokenInv'
    BY <2>1, <2>2 DEF AccInv, TokenInv
  <2>8. LoginInv'
    BY <1>2, <2>1, <2>2, <2>3 DEF AccInv, LoginInv
  <2>11. SavedInv'
    <3>1. issuedOtps <= issuedOtps'
      BY <2>1 DEF AccInv, AccType
    <3> QED
      BY <2>1, <2>6, <3>1, SavedStays
  <2>9. CallOf(c)'
    BY <2>1, <2>4, FreeFields DEF AccInv, AccType, CallOf
  <2>10. Beside(c)
    BY <2>1, <2>4, FreeFields DEF AccInv, AccType, CallOf, Beside
  <2> QED
    BY <2>6, <2>7, <2>8, <2>9, <2>10, <2>11, AccMoves
<1> QED
  BY <1>1, <1>2

--------------------------------------------------------------------------------
(* Administration of users.                                                   *)

LEMMA AdminCreateKeeps ==
  ASSUME AccInv, NEW u \in Users, NEW e \in Emails, NEW b \in BOOLEAN, AdminCreate(u, e, b)
  PROVE  AccInv'
<1> DEFINE k == [there |-> TRUE, email |-> e, change |-> NoMail, confirmed |-> b]
<1>1. /\ ~user[u].there /\ u \notin dropped /\ \A c \in Callers : caller[c].u # u
      /\ user' = [user EXCEPT ![u] = k]
      /\ UNCHANGED <<otps, issuedOtps, logins, caller, answeredOtps, dropped, txVars>>
  BY DEF AdminCreate
<1>2. k \in UserRecord /\ k.there
  BY DEF UserRecord
<1> HIDE DEF k
<1>3. /\ user' \in [Users -> UserRecord] /\ user'[u] = k
      /\ \A v \in Users : v # u => user'[v] = user[v]
  BY <1>1, <1>2 DEF AccInv, AccType
<1>4. AccType'
  BY <1>1, <1>3 DEF AccInv, AccType
<1>5. TokenInv'
  <2>1. ASSUME NEW o \in otps PROVE user'[o.u].there
    BY <1>2, <1>3, TokenFacts
  <2> QED
    BY <1>1, <2>1 DEF AccInv, TokenInv
<1>6. LoginInv'
  BY <1>1, <1>3 DEF AccInv, AccType, LoginInv
<1>8. SavedInv'
  <2>1. issuedOtps <= issuedOtps'
    BY <1>1 DEF AccInv, AccType
  <2> QED
    BY <1>1, <1>2, <1>3, <1>4, <2>1, SavedStays
<1>7. ASSUME NEW c \in Callers PROVE CallOf(c)'
  BY <1>1, <1>3 DEF AccInv, CallOf
<1> QED
  BY <1>4, <1>5, <1>6, <1>7, <1>8 DEF AccInv

LEMMA AdminSetEmailKeeps ==
  ASSUME AccInv, NEW u \in Users, NEW e \in Emails, AdminSetEmail(u, e)
  PROVE  AccInv'
<1>1. /\ user' = [user EXCEPT ![u].email = e]
      /\ UNCHANGED <<otps, issuedOtps, logins, caller, answeredOtps, dropped, txVars>>
  BY DEF AdminSetEmail
<1>2. /\ user' \in [Users -> UserRecord]
      /\ \A v \in Users : user'[v].there = user[v].there
  BY <1>1 DEF AccInv, AccType, UserRecord
<1>3. AccType'
  BY <1>1, <1>2 DEF AccInv, AccType
<1>4. TokenInv' /\ LoginInv'
  BY <1>1, <1>2 DEF AccInv, AccType, TokenInv, LoginInv, OtpRecord
<1>6. SavedInv'
  <2>1. issuedOtps <= issuedOtps'
    BY <1>1 DEF AccInv, AccType
  <2> QED
    BY <1>1, <1>2, <1>3, <2>1, SavedStays
<1>5. ASSUME NEW c \in Callers PROVE CallOf(c)'
  BY <1>1, <1>2 DEF AccInv, CallOf
<1> QED
  BY <1>3, <1>4, <1>5, <1>6 DEF AccInv

\* Whoever is about to insert a row is about to insert another.
LEMMA AccAdminDeleteKeeps ==
  ASSUME AccInv, NEW u \in Users, AdminDelete(u)
  PROVE  AccInv'
<1>1. /\ user[u].there /\ user' = [user EXCEPT ![u] = NoUser]
      /\ otps' = {o \in otps : o.u # u} /\ logins' = {s \in logins : s.u # u}
      /\ dropped' = dropped \cup {u} /\ restored' = restored \ {u}
      /\ UNCHANGED <<issuedOtps, caller, answeredOtps, rollbacks, saved, revived>>
  BY DEF AdminDelete
<1>2. NoUser \in UserRecord /\ ~NoUser.there
  BY DEF NoUser, UserRecord
<1>3. /\ user' \in [Users -> UserRecord] /\ ~user'[u].there
      /\ \A v \in Users : v # u => user'[v] = user[v]
  BY <1>1, <1>2 DEF AccInv, AccType
<1>4. AccType'
  BY <1>1, <1>3 DEF AccInv, AccType
<1>5. TokenInv'
  <2>1. ASSUME NEW o \in otps' PROVE o \in otps /\ user'[o.u].there
    BY <1>1, <1>3, TokenFacts
  <2> QED
    BY <1>1, <2>1 DEF AccInv, TokenInv
<1>6. LoginInv'
  <2>1. ASSUME NEW s \in logins' PROVE user'[s.u].there /\ ~s.late
    <3>1. s \in logins /\ s.u # u /\ s.u \in Users
      BY <1>1 DEF AccInv, AccType, LoginRecord
    <3> QED
      BY <1>3, <3>1 DEF AccInv, LoginInv
  <2>2. ASSUME NEW v \in dropped', user'[v].there PROVE v \in restored'
    <3>1. v # u /\ v \in dropped /\ v \in Users
      BY <1>1, <1>3, <2>2 DEF AccInv, AccType
    <3> QED
      BY <1>1, <1>3, <2>2, <3>1 DEF AccInv, LoginInv
  <2> QED
    BY <2>1, <2>2 DEF LoginInv
<1>8. SavedInv'
  <2>1. issuedOtps <= issuedOtps'
    BY <1>1 DEF AccInv, AccType
  <2> QED
    BY <1>1, <1>2, <1>3, <1>4, <2>1, SavedStays
<1>7. ASSUME NEW c \in Callers PROVE CallOf(c)'
  BY <1>1, <1>3 DEF AccInv, CallOf
<1> QED
  BY <1>4, <1>5, <1>6, <1>7, <1>8 DEF AccInv

--------------------------------------------------------------------------------
(* The transaction of another request on the shared connection.               *)

LEMMA OtherBeginsKeeps ==
  ASSUME AccInv, OtherBegins
  PROVE  AccInv'
<1> DEFINE rows == [user |-> user, otps |-> otps, logins |-> logins]
<1>1. /\ saved' = {rows}
      /\ UNCHANGED <<user, otps, issuedOtps, logins, caller, answeredOtps, dropped, rollbacks,
                     restored, revived>>
  BY DEF OtherBegins
<1>2. /\ rows \in SavedRows /\ rows.user = user /\ rows.otps = otps /\ rows.logins = logins
  BY DEF AccInv, AccType, SavedRows
<1> HIDE DEF rows
<1>3. AccType'
  BY <1>1, <1>2 DEF AccInv, AccType
<1>4. SavedInv'
  BY <1>1, <1>2 DEF AccInv, TokenInv, LoginInv, SavedInv
<1>5. TokenInv' /\ LoginInv'
  BY <1>1 DEF AccInv, TokenInv, LoginInv
<1>6. ASSUME NEW c \in Callers PROVE CallOf(c)'
  BY <1>1 DEF AccInv, CallOf
<1> QED
  BY <1>3, <1>4, <1>5, <1>6 DEF AccInv

LEMMA OtherCommitsKeeps ==
  ASSUME AccInv, OtherCommits
  PROVE  AccInv'
  BY DEF OtherCommits, AccInv, AccType, TokenInv, LoginInv, SavedInv, CallOf

\* What comes back is counted among what was restored or revived, unless it had never gone.
LEMMA OtherRollsBackKeeps ==
  ASSUME AccInv, OtherRollsBack
  PROVE  AccInv'
<1>1. PICK rows \in saved :
        /\ user' = rows.user /\ otps' = rows.otps /\ logins' = rows.logins
        /\ restored' = restored \cup {u \in dropped : rows.user[u].there /\ ~user[u].there}
        /\ revived' = revived \cup {o.id : o \in rows.otps \ otps}
  BY DEF OtherRollsBack
<1>2. /\ saved' = {} /\ rollbacks' = rollbacks + 1
      /\ UNCHANGED <<issuedOtps, caller, answeredOtps, dropped>>
  BY DEF OtherRollsBack
<1>3. rows \in SavedRows
  BY DEF AccInv, AccType
<1>4. AccType'
  <2>1. {o.id : o \in rows.otps \ otps} \subseteq Nat
    BY <1>3 DEF SavedRows, OtpRecord
  <2> QED
    <3>1. rows.user \in [Users -> UserRecord] /\ rows.otps \subseteq OtpRecord
          /\ rows.logins \subseteq LoginRecord
      BY <1>3 DEF SavedRows
    <3>2. user' \in [Users -> UserRecord] /\ otps' \subseteq OtpRecord /\ logins' \subseteq LoginRecord
      BY <1>1, <3>1
    <3>3. /\ restored \subseteq Users /\ revived \subseteq Nat /\ rollbacks \in Nat
          /\ dropped \subseteq Users
      BY DEF AccInv, AccType
    <3>4. saved' \subseteq SavedRows /\ rollbacks' \in Nat
      BY <1>2, <3>3
    <3>5. restored' \subseteq Users
      BY ONLY <1>1, <3>3
    <3>6. revived' \subseteq Nat
      BY ONLY <1>1, <2>1, <3>3
    <3> QED
      BY <1>2, <3>2, <3>4, <3>5, <3>6 DEF AccInv, AccType
<1>5. \A o \in otps' : o \in otps \/ o.id \in revived'
  BY <1>1
<1>6. TokenInv'
  <2>1. ASSUME NEW o \in otps'
        PROVE  /\ o.id \in 1..issuedOtps /\ user'[o.u].there
               /\ o.id \in answeredOtps => o.id \in revived'
    <3>1. o.id \in 1..issuedOtps /\ user'[o.u].there
      BY <1>1 DEF AccInv, SavedInv
    <3>2. o.id \in answeredOtps => o.id \in revived'
      BY <1>1, <1>5, TokenFacts
    <3> QED
      BY <3>1, <3>2
  <2>2. \A n \in answeredOtps' : n <= issuedOtps'
    BY <1>2 DEF AccInv, TokenInv
  <2> QED
    BY <1>2, <2>1, <2>2 DEF TokenInv
<1>7. LoginInv'
  BY <1>1, <1>2 DEF AccInv, LoginInv, SavedInv
<1>8. SavedInv'
  BY <1>2 DEF SavedInv
<1>9. ASSUME NEW c \in Callers PROVE CallOf(c)'
  <2>1. CallOf(c) /\ caller'[c] = caller[c]
    BY <1>2 DEF AccInv
  <2>2. caller[c].pc = "insert" => ~user'[caller[c].u].there
    <3>1. caller[c].pc = "insert" => /\ caller[c].u \in Users
                                     /\ ~user[caller[c].u].there /\ caller[c].u \notin dropped
      BY <2>1 DEF CallOf
    <3> QED
      BY <1>1, <3>1 DEF AccInv, SavedInv
  <2>3. caller[c].pc \in {"apply", "session"} =>
          \A o \in otps' : o.id = caller[c].otp => o.id \in revived'
    <3>1. revived \subseteq revived'
      BY <1>1
    <3>2. caller[c].pc \in {"apply", "session"} =>
            \A o \in otps : o.id = caller[c].otp => o.id \in revived
      BY <2>1 DEF CallOf
    <3> QED
      BY <1>5, <3>1, <3>2
  <2> QED
    BY <1>2, <2>1, <2>2, <2>3 DEF CallOf
<1> QED
  BY <1>4, <1>6, <1>7, <1>8, <1>9 DEF AccInv

--------------------------------------------------------------------------------
LEMMA AccSteps ==
  ASSUME AccountsAssumption, AccInv, [AccNext]_accVars
  PROVE  AccInv'
<1>1. CASE UNCHANGED accVars
  BY <1>1 DEF accVars, AccInv, AccType, TokenInv, LoginInv, SavedInv, CallOf
<1>2. ASSUME NEW c \in Callers, NEW e \in Emails, SignUp(c, e) \/ RequestRecovery(c, e)
      PROVE  AccInv'
  BY <1>2, SignUpKeeps, RecoverKeeps
<1>3. ASSUME NEW c \in Callers, NEW u \in Users, NEW e \in Emails, ChangeEmail(c, u, e)
      PROVE  AccInv'
  BY <1>3, ChangeEmailKeeps
<1>4. ASSUME NEW c \in Callers,
             \/ InsertUser(c) \/ IssueOtp(c) \/ StoreChange(c) \/ DeleteOtp(c) \/ Apply(c)
             \/ Issue(c) \/ GiveUp(c)
      PROVE  AccInv'
  BY <1>4, InsertUserKeeps, IssueOtpKeeps, StoreChangeKeeps, DeleteOtpKeeps, ApplyKeeps,
     IssueKeeps, GiveUpKeeps
<1>5. ASSUME NEW c \in Callers, NEW o \in otps, ReadOtp(c, o)
      PROVE  AccInv'
  BY <1>5, ReadOtpKeeps
<1>6. ASSUME NEW c \in Callers, NEW u \in Users, SignIn(c, u)
      PROVE  AccInv'
  BY <1>6, SignInKeeps
<1>7. ASSUME NEW u \in Users, NEW e \in Emails, NEW b \in BOOLEAN, AdminCreate(u, e, b)
      PROVE  AccInv'
  BY <1>7, AdminCreateKeeps
<1>8. ASSUME NEW u \in Users, NEW e \in Emails, AdminSetEmail(u, e)
      PROVE  AccInv'
  BY <1>8, AdminSetEmailKeeps
<1>9. ASSUME NEW u \in Users, AdminDelete(u)
      PROVE  AccInv'
  BY <1>9, AccAdminDeleteKeeps
<1>10. CASE OtherBegins \/ OtherCommits \/ OtherRollsBack
  BY <1>10, OtherBeginsKeeps, OtherCommitsKeeps, OtherRollsBackKeeps
<1> QED
  BY <1>1, <1>2, <1>3, <1>4, <1>5, <1>6, <1>7, <1>8, <1>9, <1>10 DEF AccNext

LEMMA AccAlways == AccountsAssumption => (AccSpec => []AccInv)
<1> SUFFICES ASSUME AccountsAssumption PROVE AccSpec => []AccInv
  OBVIOUS
<1>1. AccInit => AccInv
  BY AccStarts
<1>2. AccInv /\ [AccNext]_accVars => AccInv'
  BY AccSteps
<1> QED
  BY <1>1, <1>2, PTL DEF AccSpec

\* verify() of service.ts, whatever the number of requests, users and addresses: once a
\* verification was answered, none that begins later is, because the row went first.
THEOREM AccountsSpentForGood == AccountsAssumption => (AccSpec => []SpentForGood)
<1> SUFFICES ASSUME AccountsAssumption PROVE AccSpec => []SpentForGood
  OBVIOUS
<1>1. AccInv => SpentForGood
  BY DEF AccInv, LoginInv, SpentForGood
<1> QED
  BY <1>1, AccAlways, PTL

\* admin.deleteUser() of service.ts, under the same constants: neither a sign-in nor a
\* verification under way leaves a session of a user whose deletion was answered.
THEOREM AccountsNoGhostSession == AccountsAssumption => (AccSpec => []NoGhostSession)
<1> SUFFICES ASSUME AccountsAssumption PROVE AccSpec => []NoGhostSession
  OBVIOUS
<1>1. AccInv => NoGhostSession
  BY DEF AccInv, LoginInv, NoGhostSession
<1> QED
  BY <1>1, AccAlways, PTL

--------------------------------------------------------------------------------
(* The principals.  A session that has ended is never open again, whoever     *)
(* ends others or opens new ones meanwhile, unless a rollback brings its row  *)
(* back; those that are under way then are told.  So a list of sessions that  *)
(* was read is worked off with each of them ended for good or brought back,   *)
(* and one whose end was answered and stands refuses every token check that   *)
(* comes after.                                                               *)

SessionRecord == [state : {"none", "open", "ended", "gone"}, exp : Nat]

RequestRecord ==
  [pc : {"idle", "open", "token", "served", "admin", "password", "targets", "end"},
   op : {"none", "serve", "signin", "admin", "user", "logout", "password"},
   key : {"none", "publishable", "secret"}, s : {0} \cup Sessions,
   scope : {"none", "local", "global", "others"},
   todo : SUBSET Sessions, cut : SUBSET Sessions, others : SUBSET Sessions,
   expired : BOOLEAN, ended : BOOLEAN, undone : SUBSET Sessions,
   as : {"nobody", "user", "service", "anonymous"}]

PrincipalsType ==
  /\ account \in BOOLEAN /\ now \in Nat /\ dead \subseteq Sessions /\ undos \in Nat
  /\ session \in [Sessions -> SessionRecord]
  /\ request \in [Peers -> RequestRecord]
  /\ before \subseteq [account : BOOLEAN, session : [Sessions -> SessionRecord]]

\* A session that cannot be used again.
Over(s) == session[s].state \in {"ended", "gone"}

\* Sessions whose end was answered, and not undone, are over.
DeadInv == \A s \in dead : Over(s)

\* A session that was there when another's transaction began is there, with the same token.
BeforeInv ==
  \A rows \in before : \A s \in Sessions : rows.session[s].state # "none" =>
    session[s].state # "none" /\ session[s].exp = rows.session[s].exp

\* A request that began late names a token that has expired, or a session that is over or was
\* brought back since.
LateOf(c) ==
  /\ request[c].pc = "token" =>
       /\ request[c].s # 0 => session[request[c].s].state # "none"
       /\ request[c].expired => request[c].s # 0 /\ session[request[c].s].exp <= now
       /\ request[c].ended => request[c].s \in dead \cup request[c].undone
  /\ request[c].pc = "served" /\ request[c].as = "user" =>
       ~request[c].expired /\ (request[c].ended => request[c].s \in request[c].undone)

\* What is read to be ended is there; what is off the list is over, or was brought back.
ListOf(c) ==
  request[c].pc = "end" =>
    /\ request[c].todo \subseteq request[c].cut
    /\ \A s \in request[c].cut : session[s].state # "none"
    /\ \A s \in request[c].cut \ request[c].todo : Over(s) \/ s \in request[c].undone

\* The other sessions a change of password found: there when they are listed, and then either
\* on the list or gone with the user.
OthersOf(c) ==
  request[c].op = "password" =>
    /\ request[c].pc \in {"token", "password", "targets"} => request[c].scope = "others"
    /\ request[c].pc = "targets" =>
         \A s \in request[c].others : s # request[c].s /\ session[s].state # "none"
    /\ request[c].pc = "end" =>
         \A s \in request[c].others : s \in request[c].cut \/ Over(s) \/ s \in request[c].undone

RequestInv(c) == LateOf(c) /\ ListOf(c) /\ OthersOf(c)

PrincipalsInv == PrincipalsType /\ DeadInv /\ BeforeInv /\ \A c \in Peers : RequestInv(c)

--------------------------------------------------------------------------------
(* Whatever a step other than a rollback does to the sessions, it does not    *)
(* bring one back.                                                            *)

Onward ==
  /\ \A s \in Sessions : session[s].state # "none" =>
       session'[s].state # "none" /\ session'[s].exp = session[s].exp
  /\ \A s \in Sessions : Over(s) => Over(s)'
  /\ now <= now' /\ dead \subseteq dead'

\* A request a step does not move keeps what is said of it.
LEMMA Untouched ==
  ASSUME PrincipalsType, PrincipalsType', Onward, NEW c \in Peers, RequestInv(c),
         request'[c] = request[c]
  PROVE  RequestInv(c)'
<1>1. LateOf(c)'
  BY DEF PrincipalsType, RequestRecord, SessionRecord, Onward, RequestInv, LateOf
<1>2. ListOf(c)'
  BY DEF PrincipalsType, RequestRecord, Onward, RequestInv, ListOf
<1>3. OthersOf(c)'
  BY DEF PrincipalsType, RequestRecord, Onward, RequestInv, OthersOf
<1> QED
  BY <1>1, <1>2, <1>3 DEF RequestInv

\* A request that is answered, or only goes on.
LEMMA Responded ==
  ASSUME PrincipalsType, NEW c \in Peers, EndRequest(c)
  PROVE  /\ request' \in [Peers -> RequestRecord] /\ request'[c] = Waiting
         /\ \A d \in Peers : d # c => request'[d] = request[d]
  BY DEF PrincipalsType, RequestRecord, EndRequest, Waiting

LEMMA WaitingInv ==
  ASSUME NEW c \in Peers, request'[c] = Waiting
  PROVE  RequestInv(c)'
  BY DEF RequestInv, LateOf, ListOf, OthersOf, Waiting

\* A step that moves one request, and the sessions only onward.
LEMMA OneMoves ==
  ASSUME PrincipalsInv, PrincipalsType', Onward, DeadInv', UNCHANGED before, NEW c \in Peers,
         \A d \in Peers : d # c => request'[d] = request[d],
         RequestInv(c)'
  PROVE  PrincipalsInv'
<1>1. \A d \in Peers : d # c => RequestInv(d)'
  BY Untouched DEF PrincipalsInv
<1>2. BeforeInv'
  BY DEF PrincipalsInv, PrincipalsType, BeforeInv, Onward
<1> QED
  BY <1>1, <1>2 DEF PrincipalsInv

\* A step that leaves the sessions, the clock and the history alone.
LEMMA OnlyRequests ==
  ASSUME PrincipalsInv, UNCHANGED <<account, session, now, dead, undos, before>>,
         request' \in [Peers -> RequestRecord]
  PROVE  PrincipalsType' /\ Onward /\ DeadInv' /\ UNCHANGED before
  BY DEF PrincipalsInv, PrincipalsType, Onward, DeadInv, Over

--------------------------------------------------------------------------------
LEMMA WaitingType == Waiting \in RequestRecord
  BY DEF Waiting, RequestRecord

LEMMA PrincipalsStarts == PrincipalsAssumption /\ PrincipalsInit => PrincipalsInv
<1> SUFFICES ASSUME PrincipalsAssumption, PrincipalsInit PROVE PrincipalsInv
  OBVIOUS
<1>2. PrincipalsType
  BY WaitingType DEF PrincipalsAssumption, PrincipalsInit, PrincipalsType, Unopened, SessionRecord
<1> QED
  BY <1>2 DEF PrincipalsInit, PrincipalsInv, DeadInv, BeforeInv, RequestInv, LateOf, ListOf, OthersOf, Waiting

\* A request arrives, and is late if its session's end was answered or its token has expired.
LEMMA ArriveKeeps ==
  ASSUME PrincipalsInv, NEW c \in Peers, Arrive(c)
  PROVE  PrincipalsInv'
<1>0. UNCHANGED <<account, session, now, dead, undos, before>>
  BY DEF Arrive
<1>1. PICK q \in Asked :
        /\ q.s # 0 => session[q.s].state # "none"
        /\ request' = [request EXCEPT ![c] =
             [Waiting EXCEPT !.pc = IF q.op = "signin" THEN "open" ELSE "token",
                !.op = q.op, !.key = q.key, !.s = q.s, !.scope = q.scope,
                !.expired = q.s # 0 /\ session[q.s].exp <= now, !.ended = q.s \in dead]]
  <2>1. \E q \in Asked :
        /\ q.s # 0 => session[q.s].state # "none"
        /\ request' = [request EXCEPT ![c] =
             [Waiting EXCEPT !.pc = IF q.op = "signin" THEN "open" ELSE "token",
                !.op = q.op, !.key = q.key, !.s = q.s, !.scope = q.scope,
                !.expired = q.s # 0 /\ session[q.s].exp <= now, !.ended = q.s \in dead]]
    BY ZenonT(60) DEF Arrive
  <2> QED
    BY ONLY <2>1, ZenonT(60)
<1>2. PICK expired \in BOOLEAN : expired <=> q.s # 0 /\ session[q.s].exp <= now
  OBVIOUS
<1>3. PICK ended \in BOOLEAN : ended <=> q.s \in dead
  OBVIOUS
<1>4. PICK l \in {"open", "token"} : l = IF q.op = "signin" THEN "open" ELSE "token"
  OBVIOUS
<1>5. /\ q.op \in {"serve", "signin", "admin", "user", "logout", "password"}
      /\ q.key \in {"publishable", "secret"} /\ q.s \in {0} \cup Sessions
      /\ q.scope \in {"none", "local", "global", "others"}
  BY DEF Asked, Reachable, OpsOf
<1> DEFINE m == [Waiting EXCEPT !.pc = l, !.op = q.op, !.key = q.key, !.s = q.s, !.scope = q.scope]
           k == [m EXCEPT !.expired = expired, !.ended = ended]
<1>6. request' = [request EXCEPT ![c] = k]
  BY <1>1, <1>2, <1>3, <1>4
<1>7. /\ k \in RequestRecord /\ k.pc = l /\ k.op = q.op /\ k.s = q.s /\ k.scope = q.scope
      /\ k.expired = expired /\ k.ended = ended
  <2>1. m \in RequestRecord
    BY ONLY <1>5, WaitingType DEF RequestRecord
  <2>2. m.pc = l /\ m.op = q.op /\ m.s = q.s /\ m.scope = q.scope
    BY ONLY WaitingType DEF RequestRecord
  <2> HIDE DEF m
  <2>3. k \in RequestRecord
    BY ONLY <2>1 DEF RequestRecord
  <2>4. /\ k.pc = m.pc /\ k.op = m.op /\ k.s = m.s /\ k.scope = m.scope
        /\ k.expired = expired /\ k.ended = ended
    BY ONLY <2>1 DEF RequestRecord
  <2> QED
    BY <2>2, <2>3, <2>4
<1> HIDE DEF k, m
<1>8. /\ request' \in [Peers -> RequestRecord] /\ request'[c] = k
      /\ \A d \in Peers : d # c => request'[d] = request[d]
  BY <1>6, <1>7 DEF PrincipalsInv, PrincipalsType
<1>9. PrincipalsType' /\ Onward /\ DeadInv' /\ UNCHANGED before
  BY <1>0, <1>8, OnlyRequests
<1>10. q.op = "password" => q.scope = "others"
  BY DEF Asked, Carries
<1>11. RequestInv(c)'
  BY <1>0, <1>1, <1>2, <1>3, <1>5, <1>7, <1>8, <1>10 DEF RequestInv, LateOf, ListOf, OthersOf
<1> QED
  BY <1>8, <1>9, <1>11, OneMoves

\* A token that verifies has not expired, and belongs to a session whose end was not answered or
\* was undone.
LEMMA VerifiedNotLate ==
  ASSUME PrincipalsInv, NEW c \in Peers, request[c].pc = "token", Verified(request[c].s)
  PROVE  ~request[c].expired /\ (request[c].ended => request[c].s \in request[c].undone)
<1>1. request[c].s \in Sessions /\ session[request[c].s].exp \in Nat /\ now \in Nat
  BY DEF PrincipalsInv, PrincipalsType, RequestRecord, SessionRecord, Verified
<1> QED
  BY <1>1 DEF PrincipalsInv, RequestInv, LateOf, DeadInv, Over, Verified, SessionActive

LEMMA NamedType ==
  \A w \in RequestRecord : \A a \in {"nobody", "user", "service", "anonymous"} :
    [w EXCEPT !.as = a] \in RequestRecord
  BY DEF RequestRecord

\* A request that is served keeps of what it brought what the property asks of it.
LEMMA ServedFields ==
  ASSUME NEW r \in RequestRecord, NEW as \in {"user", "service", "anonymous"}
  PROVE  LET k == ServedAs(r, as)
         IN  /\ k \in RequestRecord /\ k.pc = "served" /\ k.as = as /\ k.op = "none" /\ k.s = r.s
             /\ k.expired = r.expired /\ k.ended = r.ended /\ k.undone = r.undone \cap {r.s}
<1> DEFINE k == ServedAs(r, as)
           blank == [Waiting EXCEPT !.pc = "served", !.as = as, !.s = r.s]
           late == [blank EXCEPT !.expired = r.expired, !.ended = r.ended]
<1>1. /\ as \in {"nobody", "user", "service", "anonymous"} /\ r.s \in {0} \cup Sessions
      /\ r.expired \in BOOLEAN /\ r.ended \in BOOLEAN /\ r.undone \cap {r.s} \in SUBSET Sessions
  BY DEF RequestRecord
<1>2. Waiting.op = "none"
  BY DEF Waiting
<1>3. blank \in RequestRecord
  <2> DEFINE s == r.s
             named == [Waiting EXCEPT !.pc = "served", !.as = as]
  <2>1. s \in {0} \cup Sessions /\ as \in {"nobody", "user", "service", "anonymous"}
    BY <1>1
  <2> HIDE DEF s
  <2>2. named \in RequestRecord
    <3>1. [Waiting EXCEPT !.pc = "served"] \in RequestRecord
      BY ONLY WaitingType DEF RequestRecord
    <3> QED
      BY <2>1, <3>1, NamedType
  <2> HIDE DEF named
  <2>3. [named EXCEPT !.s = s] \in RequestRecord
    BY ONLY <2>1, <2>2 DEF RequestRecord
  <2> QED
    BY <2>3 DEF named, s
<1>4. blank.pc = "served" /\ blank.as = as /\ blank.op = "none" /\ blank.s = r.s
  BY ONLY <1>2, WaitingType DEF RequestRecord
<1>5. k = [late EXCEPT !.undone = r.undone \cap {r.s}]
  BY DEF ServedAs
<1> HIDE DEF blank, k
<1>6. late \in RequestRecord
  BY ONLY <1>1, <1>3 DEF RequestRecord
<1>7. /\ late.pc = blank.pc /\ late.as = blank.as /\ late.op = blank.op /\ late.s = blank.s
      /\ late.expired = r.expired /\ late.ended = r.ended
  BY ONLY <1>3 DEF RequestRecord
<1> HIDE DEF late
<1>8. k \in RequestRecord
  BY ONLY <1>1, <1>5, <1>6 DEF RequestRecord
<1>9. /\ k.pc = late.pc /\ k.as = late.as /\ k.op = late.op /\ k.s = late.s
      /\ k.expired = late.expired /\ k.ended = late.ended /\ k.undone = r.undone \cap {r.s}
  BY ONLY <1>5, <1>6 DEF RequestRecord
<1> QED
  BY <1>4, <1>7, <1>8, <1>9 DEF k

\* The principal is decided.
LEMMA TokenKeeps ==
  ASSUME PrincipalsInv, NEW c \in Peers, Token(c)
  PROVE  PrincipalsInv'
<1> DEFINE r == request[c]
<1>1. r.pc = "token" /\ UNCHANGED <<account, session, now, dead, undos, before>>
  BY DEF Token, RequestAt
<1>0. r \in RequestRecord /\ request \in [Peers -> RequestRecord]
  BY DEF PrincipalsInv, PrincipalsType
<1>2. CASE EndRequest(c)
  <2>1. /\ request' \in [Peers -> RequestRecord] /\ request'[c] = Waiting
        /\ \A d \in Peers : d # c => request'[d] = request[d]
    BY <1>2, Responded DEF PrincipalsInv
  <2>2. PrincipalsType' /\ Onward /\ DeadInv' /\ UNCHANGED before
    BY <1>1, <2>1, OnlyRequests
  <2> QED
    BY <2>1, <2>2, WaitingInv, OneMoves
<1>3. CASE request' = [request EXCEPT ![c] = [Waiting EXCEPT !.pc = "admin", !.op = "admin"]]
  <2> DEFINE k == [Waiting EXCEPT !.pc = "admin", !.op = "admin"]
  <2>1. k \in RequestRecord /\ k.pc = "admin" /\ k.op = "admin"
    BY ONLY WaitingType DEF RequestRecord
  <2> HIDE DEF k
  <2>2. /\ request' \in [Peers -> RequestRecord] /\ request'[c] = k
        /\ \A d \in Peers : d # c => request'[d] = request[d]
    BY <1>0, <1>3, <2>1 DEF k
  <2>3. PrincipalsType' /\ Onward /\ DeadInv' /\ UNCHANGED before
    BY <1>1, <2>2, OnlyRequests
  <2>4. RequestInv(c)'
    BY <2>1, <2>2 DEF RequestInv, LateOf, ListOf, OthersOf
  <2> QED
    BY <2>2, <2>3, <2>4, OneMoves
<1>4. CASE /\ r.op \in {"password", "logout"}
           /\ request' = [request EXCEPT ![c] =
                [Waiting EXCEPT !.pc = IF r.op = "password" THEN "password" ELSE "targets",
                                !.op = r.op, !.s = r.s, !.scope = r.scope]]
  <2>0. PICK l \in {"password", "targets"} : l = IF r.op = "password" THEN "password" ELSE "targets"
    OBVIOUS
  <2> DEFINE k == [Waiting EXCEPT !.pc = l, !.op = r.op, !.s = r.s, !.scope = r.scope]
  <2>1. k \in RequestRecord /\ k.pc = l /\ k.op = r.op /\ k.s = r.s /\ k.scope = r.scope
    <3>1. /\ l \in {"password", "targets"} /\ r.op \in {"password", "logout"}
          /\ r.s \in {0} \cup Sessions /\ r.scope \in {"none", "local", "global", "others"}
      BY <1>0, <1>4 DEF RequestRecord
    <3> HIDE DEF r
    <3>2. k \in RequestRecord
      BY ONLY <3>1, WaitingType DEF RequestRecord
    <3>3. k.pc = l /\ k.op = r.op /\ k.s = r.s /\ k.scope = r.scope
      BY ONLY WaitingType DEF RequestRecord
    <3> QED
      BY <3>2, <3>3
  <2>5. request' = [request EXCEPT ![c] = k]
    BY <1>4, <2>0
  <2> HIDE DEF k
  <2>2. /\ request' \in [Peers -> RequestRecord] /\ request'[c] = k
        /\ \A d \in Peers : d # c => request'[d] = request[d]
    BY <1>0, <2>1, <2>5
  <2>3. PrincipalsType' /\ Onward /\ DeadInv' /\ UNCHANGED before
    BY <1>1, <2>2, OnlyRequests
  <2>4. RequestInv(c)'
    BY <1>1, <1>4, <2>0, <2>1, <2>2 DEF PrincipalsInv, RequestInv, LateOf, ListOf, OthersOf
  <2> QED
    BY <2>2, <2>3, <2>4, OneMoves
<1>5. CASE \E as \in {"user", "service", "anonymous"} :
             request' = [request EXCEPT ![c] = ServedAs(r, as)] /\ (as = "user" => Verified(r.s))
  <2>1. PICK as \in {"user", "service", "anonymous"} :
             request' = [request EXCEPT ![c] = ServedAs(r, as)] /\ (as = "user" => Verified(r.s))
    BY <1>5
  <2> DEFINE k == ServedAs(r, as)
  <2>2. /\ k \in RequestRecord /\ k.pc = "served" /\ k.as = as /\ k.op = "none" /\ k.s = r.s
        /\ k.expired = r.expired /\ k.ended = r.ended /\ k.undone = r.undone \cap {r.s}
    BY <1>0, ServedFields
  <2> HIDE DEF k
  <2>3. /\ request' \in [Peers -> RequestRecord] /\ request'[c] = k
        /\ \A d \in Peers : d # c => request'[d] = request[d]
    BY <1>0, <2>1, <2>2 DEF k
  <2>4. PrincipalsType' /\ Onward /\ DeadInv' /\ UNCHANGED before
    BY <1>1, <2>3, OnlyRequests
  <2>5. as = "user" => ~r.expired /\ (r.ended => r.s \in r.undone)
    BY <1>1, <2>1, VerifiedNotLate
  <2>6. RequestInv(c)'
    BY <2>2, <2>3, <2>5 DEF RequestInv, LateOf, ListOf, OthersOf
  <2> QED
    BY <2>3, <2>4, <2>6, OneMoves
<1> QED
  <2>1. CASE r.op = "serve"
    BY <1>5, <2>1 DEF Token, Principal
  <2>2. CASE r.op # "serve"
    BY <1>2, <1>3, <1>4, <1>5, <2>2 DEF Token
  <2> QED
    BY <2>1, <2>2

\* Requests that are answered without a word about sessions.
LEMMA AnsweredKeeps ==
  ASSUME PrincipalsInv, NEW c \in Peers, Served(c) \/ AdminOther(c)
  PROVE  PrincipalsInv'
<1>1. UNCHANGED <<account, session, now, dead, undos, before>> /\ EndRequest(c)
  BY DEF Served, AdminOther
<1>2. /\ request' \in [Peers -> RequestRecord] /\ request'[c] = Waiting
      /\ \A d \in Peers : d # c => request'[d] = request[d]
  BY <1>1, Responded DEF PrincipalsInv
<1>3. PrincipalsType' /\ Onward /\ DeadInv' /\ UNCHANGED before
  BY <1>1, <1>2, OnlyRequests
<1> QED
  BY <1>2, <1>3, WaitingInv, OneMoves

\* A sign-in opens a session that was not there before.
LEMMA OpenKeeps ==
  ASSUME PrincipalsAssumption, PrincipalsInv, NEW c \in Peers, Open(c)
  PROVE  PrincipalsInv'
<1>1. EndRequest(c) /\ UNCHANGED <<account, now, dead, undos, before>>
  BY DEF Open
<1>2. /\ request' \in [Peers -> RequestRecord] /\ request'[c] = Waiting
      /\ \A d \in Peers : d # c => request'[d] = request[d]
  BY <1>1, Responded DEF PrincipalsInv
<1>3. /\ session' \in [Sessions -> SessionRecord]
      /\ \A s \in Sessions : session[s].state # "none" => session'[s] = session[s]
  <2>1. CASE UNCHANGED session
    BY <2>1 DEF PrincipalsInv, PrincipalsType
  <2>2. CASE \E s \in Sessions :
               /\ session[s].state = "none"
               /\ session' = [session EXCEPT ![s] = [state |-> "open", exp |-> now + Ttl]]
    BY <2>2 DEF PrincipalsAssumption, PrincipalsInv, PrincipalsType, SessionRecord
  <2> QED
    BY <2>1, <2>2 DEF Open
<1>4. PrincipalsType' /\ Onward /\ DeadInv'
  BY <1>1, <1>2, <1>3 DEF PrincipalsInv, PrincipalsType, Onward, DeadInv, Over
<1> QED
  BY <1>1, <1>2, <1>4, WaitingInv, OneMoves

--------------------------------------------------------------------------------
(* The end of sessions.                                                       *)

\* The password is written; the others that are open then are to be ended.
LEMMA SetPasswordKeeps ==
  ASSUME PrincipalsInv, NEW c \in Peers, SetPassword(c)
  PROVE  PrincipalsInv'
<1> DEFINE found == {s \in Sessions \ {request[c].s} : SessionActive(s)}
<1>1. /\ request[c].pc = "password" /\ UNCHANGED <<account, session, now, dead, undos, before>>
      /\ request' = [request EXCEPT ![c].pc = "targets", ![c].others = found]
  BY DEF SetPassword, RequestAt
<1>2. found \subseteq Sessions /\ \A s \in found : s # request[c].s /\ session[s].state # "none"
  BY DEF SessionActive
<1> HIDE DEF found
<1>3. /\ request' \in [Peers -> RequestRecord]
      /\ request'[c].pc = "targets" /\ request'[c].others = found /\ request'[c].s = request[c].s
      /\ request'[c].op = request[c].op /\ request'[c].scope = request[c].scope
      /\ \A d \in Peers : d # c => request'[d] = request[d]
  <2> DEFINE k == [request[c] EXCEPT !.pc = "targets", !.others = found]
  <2>1. request[c] \in RequestRecord
    BY DEF PrincipalsInv, PrincipalsType
  <2>2. k \in RequestRecord
    BY ONLY <1>2, <2>1 DEF RequestRecord
  <2>3. /\ k.pc = "targets" /\ k.others = found /\ k.s = request[c].s /\ k.op = request[c].op
        /\ k.scope = request[c].scope
    BY ONLY <2>1 DEF RequestRecord
  <2>4. request' = [request EXCEPT ![c] = k]
    BY <1>1 DEF PrincipalsInv, PrincipalsType
  <2> HIDE DEF k
  <2> QED
    BY <2>2, <2>3, <2>4 DEF PrincipalsInv, PrincipalsType
<1>4. PrincipalsType' /\ Onward /\ DeadInv' /\ UNCHANGED before
  BY <1>1, <1>3, OnlyRequests
<1>5. RequestInv(c)'
  BY <1>1, <1>2, <1>3 DEF PrincipalsInv, RequestInv, LateOf, ListOf, OthersOf
<1> QED
  BY <1>3, <1>4, <1>5, OneMoves

\* The list of those to end: of the others it misses only what went with the user.
LEMMA TargetsKeeps ==
  ASSUME PrincipalsInv, NEW c \in Peers, Targets(c)
  PROVE  PrincipalsInv'
<1> DEFINE r == request[c]
           found == {s \in Sessions : session[s].state \in {"open", "ended"} /\ InScope(r.scope, r.s, s)}
<1>1. /\ r.pc = "targets" /\ UNCHANGED <<account, session, now, dead, undos, before>>
      /\ request' = [request EXCEPT ![c] =
           [Waiting EXCEPT !.pc = "end", !.op = r.op, !.todo = found, !.cut = found,
              !.others = r.others]]
  BY DEF Targets, RequestAt
<1>2. found \subseteq Sessions /\ \A s \in found : session[s].state # "none"
  OBVIOUS
<1>3. ASSUME r.op = "password", NEW s \in r.others PROVE s \in found \/ Over(s)
  <2>1. s \in Sessions /\ session[s].state \in {"none", "open", "ended", "gone"}
    BY DEF PrincipalsInv, PrincipalsType, RequestRecord, SessionRecord
  <2>2. r.scope = "others" /\ s # r.s /\ session[s].state # "none"
    BY <1>1, <1>3 DEF PrincipalsInv, RequestInv, OthersOf
  <2> QED
    BY <2>1, <2>2 DEF InScope, Over
<1> HIDE DEF found
<1>0. r \in RequestRecord
  BY DEF PrincipalsInv, PrincipalsType
<1> DEFINE k == [Waiting EXCEPT !.pc = "end", !.op = r.op, !.todo = found, !.cut = found,
                   !.others = r.others]
<1>4. /\ k \in RequestRecord /\ k.pc = "end" /\ k.op = r.op /\ k.todo = found /\ k.cut = found
      /\ k.others = r.others
  <2>1. /\ r.op \in {"none", "serve", "signin", "admin", "user", "logout", "password"}
        /\ found \in SUBSET Sessions /\ r.others \in SUBSET Sessions
    BY <1>0, <1>2 DEF RequestRecord
  <2> HIDE DEF r
  <2>2. k \in RequestRecord
    BY ONLY <2>1, WaitingType DEF RequestRecord
  <2>3. k.pc = "end" /\ k.op = r.op /\ k.todo = found /\ k.cut = found /\ k.others = r.others
    BY ONLY WaitingType DEF RequestRecord
  <2> QED
    BY <2>2, <2>3
<1>5. request' = [request EXCEPT ![c] = k]
  BY <1>1
<1> HIDE DEF k
<1>6. /\ request' \in [Peers -> RequestRecord] /\ request'[c] = k
      /\ \A d \in Peers : d # c => request'[d] = request[d]
  BY <1>4, <1>5 DEF PrincipalsInv, PrincipalsType
<1>7. PrincipalsType' /\ Onward /\ DeadInv' /\ UNCHANGED before
  BY <1>1, <1>6, OnlyRequests
<1>8. LateOf(c)' /\ ListOf(c)'
  BY <1>1, <1>2, <1>4, <1>6 DEF LateOf, ListOf
<1>9. OthersOf(c)'
  BY <1>1, <1>3, <1>4, <1>6 DEF OthersOf, Over
<1> QED
  BY <1>6, <1>7, <1>8, <1>9, OneMoves DEF RequestInv

\* One of the list is ended, or was ended before.
LEMMA EndOneKeeps ==
  ASSUME PrincipalsInv, NEW c \in Peers, EndOne(c)
  PROVE  PrincipalsInv'
<1>0. request[c].pc = "end" /\ UNCHANGED <<account, now, dead, undos, before>>
  BY DEF EndOne, RequestAt
<1>1. PICK s \in request[c].todo :
        /\ session' = IF SessionActive(s) THEN [session EXCEPT ![s].state = "ended"] ELSE session
        /\ request' = [request EXCEPT ![c] = Struck(request[c], s)]
  BY DEF EndOne
<1>2. s \in Sessions
  BY DEF PrincipalsInv, PrincipalsType, RequestRecord
<1>3. /\ session' \in [Sessions -> SessionRecord]
      /\ \A t \in Sessions : session'[t].exp = session[t].exp
      /\ \A t \in Sessions : t # s => session'[t].state = session[t].state
      /\ session'[s].state = IF SessionActive(s) THEN "ended" ELSE session[s].state
  BY <1>1, <1>2 DEF PrincipalsInv, PrincipalsType, SessionRecord
<1>4. /\ request' \in [Peers -> RequestRecord]
      /\ request'[c].todo = request[c].todo \ {s} /\ request'[c].cut = request[c].cut
      /\ request'[c].pc = "end" /\ request'[c].op = request[c].op
      /\ request'[c].others = request[c].others /\ request'[c].undone = request[c].undone \ {s}
      /\ \A d \in Peers : d # c => request'[d] = request[d]
  <2> DEFINE k == Struck(request[c], s)
  <2>1. request \in [Peers -> RequestRecord] /\ request[c].pc = "end"
    BY <1>0 DEF PrincipalsInv, PrincipalsType
  <2>2. /\ k \in RequestRecord /\ k.todo = request[c].todo \ {s} /\ k.cut = request[c].cut
        /\ k.pc = request[c].pc /\ k.op = request[c].op
        /\ k.others = request[c].others /\ k.undone = request[c].undone \ {s}
    <3> DEFINE r == request[c]
               h == [r EXCEPT !.todo = r.todo \ {s}]
    <3>1. /\ r \in RequestRecord /\ k = [h EXCEPT !.undone = r.undone \ {s}]
      BY ONLY <2>1 DEF Struck
    <3> HIDE DEF k
    <3>2. /\ h \in RequestRecord /\ h.todo = r.todo \ {s} /\ h.cut = r.cut /\ h.pc = r.pc /\ h.op = r.op
          /\ h.others = r.others /\ h.undone = r.undone
      BY ONLY <3>1 DEF RequestRecord
    <3> HIDE DEF h, r
    <3>3. /\ k \in RequestRecord /\ k.todo = h.todo /\ k.cut = h.cut /\ k.pc = h.pc /\ k.op = h.op
          /\ k.others = h.others /\ k.undone = r.undone \ {s}
      BY ONLY <3>1, <3>2 DEF RequestRecord
    <3> QED BY <3>2, <3>3 DEF r
  <2>3. request' = [request EXCEPT ![c] = k]
    BY <1>1
  <2> HIDE DEF k
  <2> QED
    BY <2>1, <2>2, <2>3
<1>5. PrincipalsType' /\ Onward /\ DeadInv'
  BY <1>0, <1>3, <1>4 DEF PrincipalsInv, PrincipalsType, Onward, DeadInv, Over, SessionActive
<1>6. s \in request[c].cut => Over(s)'
  BY <1>0, <1>2, <1>3
  DEF PrincipalsInv, PrincipalsType, SessionRecord, RequestInv, ListOf, Over, SessionActive
<1>7. LateOf(c)'
  BY <1>4 DEF LateOf
<1>8. ListOf(c)'
  BY <1>0, <1>4, <1>5, <1>6
  DEF PrincipalsInv, PrincipalsType, RequestRecord, RequestInv, ListOf, Onward
<1>9. OthersOf(c)'
  <2>1. \A t \in request[c].others : t \in Sessions
    BY DEF PrincipalsInv, PrincipalsType, RequestRecord
  <2>2. s \in request[c].cut
    BY <1>0 DEF PrincipalsInv, RequestInv, ListOf
  <2>3. ASSUME request[c].op = "password"
        PROVE  \A t \in request[c].others : t \in request'[c].cut \/ Over(t)' \/ t \in request'[c].undone
    <3>1. \A t \in request[c].others : t \in request[c].cut \/ Over(t) \/ t \in request[c].undone
      BY <1>0, <2>3 DEF PrincipalsInv, RequestInv, OthersOf
    <3> QED BY <1>4, <1>5, <2>1, <2>2, <3>1 DEF Onward
  <2> QED BY <1>4, <2>3 DEF OthersOf
<1> QED
  BY <1>0, <1>4, <1>5, <1>7, <1>8, <1>9, OneMoves DEF RequestInv

\* The answer: every session of the list is over, or was brought back.
LEMMA DoneKeeps ==
  ASSUME PrincipalsInv, NEW c \in Peers, Done(c)
  PROVE  PrincipalsInv'
<1>1. /\ request[c].pc = "end" /\ request[c].todo = {} /\ EndRequest(c)
      /\ dead' = dead \cup (request[c].cut \ request[c].undone)
      /\ UNCHANGED <<account, session, now, undos, before>>
  BY DEF Done, RequestAt
<1>2. /\ request' \in [Peers -> RequestRecord] /\ request'[c] = Waiting
      /\ \A d \in Peers : d # c => request'[d] = request[d]
  BY <1>1, Responded DEF PrincipalsInv
<1>3. \A s \in request[c].cut \ request[c].undone : s \in Sessions /\ Over(s)
  BY <1>1 DEF PrincipalsInv, PrincipalsType, RequestRecord, RequestInv, ListOf
<1>4. PrincipalsType' /\ Onward /\ DeadInv'
  BY <1>1, <1>2, <1>3 DEF PrincipalsInv, PrincipalsType, Onward, DeadInv, Over
<1> QED
  BY <1>1, <1>2, <1>4, WaitingInv, OneMoves

\* All sessions go with the user.
LEMMA AdminDeleteKeeps ==
  ASSUME PrincipalsInv, NEW c \in Peers, DeleteAccount(c)
  PROVE  PrincipalsInv'
<1>1. /\ EndRequest(c) /\ account' = FALSE /\ now' = now /\ UNCHANGED <<undos, before>>
      /\ session' = [s \in Sessions |-> IF session[s].state = "none" THEN session[s]
                                        ELSE [session[s] EXCEPT !.state = "gone"]]
      /\ dead' = dead \cup {s \in Sessions : session[s].state # "none"}
  BY DEF DeleteAccount
<1>2. /\ request' \in [Peers -> RequestRecord] /\ request'[c] = Waiting
      /\ \A d \in Peers : d # c => request'[d] = request[d]
  BY <1>1, Responded DEF PrincipalsInv
<1>3. /\ session' \in [Sessions -> SessionRecord]
      /\ \A s \in Sessions : /\ session'[s].exp = session[s].exp
                             /\ session'[s].state = IF session[s].state = "none" THEN "none" ELSE "gone"
  BY <1>1 DEF PrincipalsInv, PrincipalsType, SessionRecord
<1>4. dead' \subseteq Sessions /\ dead \subseteq dead' /\ \A s \in dead' : session[s].state # "none"
  BY <1>1 DEF PrincipalsInv, PrincipalsType, DeadInv, Over
<1>5. PrincipalsType' /\ Onward
  <2>1. account' \in BOOLEAN
    BY <1>1
  <2>2. now' \in Nat /\ now <= now'
    BY <1>1 DEF PrincipalsInv, PrincipalsType
  <2>3. PrincipalsType'
    BY <1>1, <1>2, <1>3, <1>4, <2>1, <2>2 DEF PrincipalsInv, PrincipalsType
  <2>4. Onward
    BY <1>3, <1>4, <2>2 DEF PrincipalsInv, PrincipalsType, Onward, Over
  <2> QED
    BY <2>3, <2>4
<1>6. DeadInv'
  BY <1>3, <1>4 DEF DeadInv, Over
<1> QED
  BY <1>1, <1>2, <1>5, <1>6, WaitingInv, OneMoves

--------------------------------------------------------------------------------
(* The transaction of another request on the shared connection.               *)

LEMMA RotationEndsOrBegins ==
  ASSUME PrincipalsInv, RotationBegins \/ RotationCommits
  PROVE  PrincipalsInv'
<1>1. UNCHANGED <<account, session, now, request, dead, undos>>
  BY DEF RotationBegins, RotationCommits
<1>2. PrincipalsType' /\ BeforeInv'
  <2>1. CASE RotationCommits
    BY <1>1, <2>1 DEF RotationCommits, PrincipalsInv, PrincipalsType, BeforeInv
  <2>2. CASE RotationBegins
    <3> DEFINE rows == [account |-> account, session |-> session]
    <3>1. before' = {rows}
      BY <2>2 DEF RotationBegins
    <3>2. rows \in [account : BOOLEAN, session : [Sessions -> SessionRecord]] /\ rows.session = session
      BY DEF PrincipalsInv, PrincipalsType
    <3> HIDE DEF rows
    <3> QED
      BY <1>1, <3>1, <3>2 DEF PrincipalsInv, PrincipalsType, BeforeInv
  <2> QED
    BY <2>1, <2>2
<1>3. DeadInv' /\ \A c \in Peers : RequestInv(c)'
  BY <1>1 DEF PrincipalsInv, DeadInv, Over, RequestInv, LateOf, ListOf, OthersOf
<1> QED
  BY <1>2, <1>3 DEF PrincipalsInv

\* What a rollback leaves of a session: open again, and told to who is under way, or over as it was.
LEMMA RotationRollsBackKeeps ==
  ASSUME PrincipalsInv, RotationRollsBack
  PROVE  PrincipalsInv'
<1>0. before' = {} /\ undos' = undos + 1 /\ UNCHANGED now
  BY DEF RotationRollsBack
<1>1. PICK rows \in before :
        LET back == {s \in Sessions : rows.session[s].state = "open" /\ ~SessionActive(s)}
        IN  /\ account' = rows.account
            /\ session' = [s \in Sessions |->
                 IF rows.session[s].state = "none" /\ session[s].state # "none"
                 THEN [session[s] EXCEPT !.state = "gone"] ELSE rows.session[s]]
            /\ dead' = dead \ back
            /\ request' = [c \in Peers |-> IF request[c].pc \in {"token", "end"}
                                           THEN [request[c] EXCEPT !.undone = @ \cup back]
                                           ELSE request[c]]
  BY Zenon DEF RotationRollsBack
<1> DEFINE back == {s \in Sessions : rows.session[s].state = "open" /\ ~SessionActive(s)}
<1>2. /\ rows.account \in BOOLEAN /\ rows.session \in [Sessions -> SessionRecord]
      /\ session \in [Sessions -> SessionRecord]
  BY DEF PrincipalsInv, PrincipalsType
<1>3. /\ session' \in [Sessions -> SessionRecord]
      /\ \A s \in Sessions : session[s].state # "none" =>
           session'[s].state # "none" /\ session'[s].exp = session[s].exp
      /\ \A s \in Sessions : Over(s) => Over(s)' \/ s \in back
  <2>1. session' = [s \in Sessions |->
                     IF rows.session[s].state = "none" /\ session[s].state # "none"
                     THEN [session[s] EXCEPT !.state = "gone"] ELSE rows.session[s]]
    BY <1>1
  <2>2. session' \in [Sessions -> SessionRecord]
    BY <1>2, <2>1 DEF SessionRecord
  <2>3. ASSUME NEW s \in Sessions, session[s].state # "none"
        PROVE  session'[s].state # "none" /\ session'[s].exp = session[s].exp
    BY <1>2, <2>1, <2>3 DEF PrincipalsInv, BeforeInv, SessionRecord
  <2>4. ASSUME NEW s \in Sessions, Over(s) PROVE Over(s)' \/ s \in back
    BY <1>2, <2>1, <2>4 DEF Over, SessionRecord, SessionActive
  <2> QED
    BY <2>2, <2>3, <2>4
<1>4. back \subseteq Sessions /\ dead' = dead \ back
  BY <1>1
<1>5. ASSUME NEW c \in Peers, request[c].pc \in {"token", "end"}
      PROVE  /\ request'[c] \in RequestRecord
             /\ request'[c].pc = request[c].pc /\ request'[c].op = request[c].op
             /\ request'[c].s = request[c].s /\ request'[c].scope = request[c].scope
             /\ request'[c].todo = request[c].todo /\ request'[c].cut = request[c].cut
             /\ request'[c].others = request[c].others
             /\ request'[c].expired = request[c].expired /\ request'[c].ended = request[c].ended
             /\ request'[c].undone = request[c].undone \cup back
  <2>1. request'[c] = [request[c] EXCEPT !.undone = request[c].undone \cup back]
    BY <1>1, <1>5
  <2>2. request[c] \in RequestRecord
    BY DEF PrincipalsInv, PrincipalsType
  <2> HIDE DEF back
  <2> QED
    BY <1>4, <2>1, <2>2 DEF RequestRecord
<1>6. ASSUME NEW c \in Peers, request[c].pc \notin {"token", "end"} PROVE request'[c] = request[c]
  BY <1>1, <1>6
<1>7. PrincipalsType'
  <2>1. request' = [c \in Peers |-> request'[c]]
    BY <1>1
  <2>2. \A c \in Peers : request'[c] \in RequestRecord
    BY <1>5, <1>6 DEF PrincipalsInv, PrincipalsType
  <2>3. request' \in [Peers -> RequestRecord]
    BY <2>1, <2>2
  <2>4. account' \in BOOLEAN
    BY <1>1, <1>2
  <2> QED
    BY <1>0, <1>3, <1>4, <2>3, <2>4 DEF PrincipalsInv, PrincipalsType
<1> HIDE DEF back
<1>8. DeadInv' /\ BeforeInv'
  BY <1>0, <1>3, <1>4 DEF PrincipalsInv, PrincipalsType, DeadInv, BeforeInv
<1>9. ASSUME NEW c \in Peers PROVE RequestInv(c)'
  <2>1. CASE request[c].pc = "token"
    <3>1. request[c].s \in {0} \cup Sessions
      BY DEF PrincipalsInv, PrincipalsType, RequestRecord
    <3>2. LateOf(c)'
      BY <1>0, <1>3, <1>4, <1>5, <2>1, <3>1 DEF PrincipalsInv, RequestInv, LateOf
    <3> QED
      BY <1>5, <2>1, <3>2 DEF PrincipalsInv, RequestInv, ListOf, OthersOf
  <2>2. CASE request[c].pc = "end"
    <3>1. request[c].cut \subseteq Sessions /\ request[c].others \subseteq Sessions
      BY DEF PrincipalsInv, PrincipalsType, RequestRecord
    <3>2. ListOf(c)'
      BY <1>3, <1>5, <2>2, <3>1 DEF PrincipalsInv, RequestInv, ListOf
    <3>3. OthersOf(c)'
      BY <1>3, <1>5, <2>2, <3>1 DEF PrincipalsInv, RequestInv, OthersOf
    <3> QED
      BY <1>5, <2>2, <3>2, <3>3 DEF RequestInv, LateOf
  <2>3. CASE request[c].pc \notin {"token", "end"}
    <3>1. request[c].others \subseteq Sessions
      BY DEF PrincipalsInv, PrincipalsType, RequestRecord
    <3> QED
      BY <1>3, <1>6, <2>3, <3>1 DEF PrincipalsInv, RequestInv, LateOf, ListOf, OthersOf
  <2> QED
    BY <2>1, <2>2, <2>3
<1> QED
  BY <1>7, <1>8, <1>9 DEF PrincipalsInv

LEMMA PrincipalsSteps ==
  ASSUME PrincipalsAssumption, PrincipalsInv, [PrincipalsNext]_principalVars
  PROVE  PrincipalsInv'
<1>1. CASE Tick \/ UNCHANGED principalVars
  <2>1. /\ UNCHANGED <<account, session, request, dead, undos, before>> /\ now' \in Nat /\ now <= now'
    BY <1>1 DEF Tick, principalVars, PrincipalsInv, PrincipalsType
  <2>2. PrincipalsType' /\ Onward /\ DeadInv'
    BY <2>1 DEF PrincipalsInv, PrincipalsType, Onward, DeadInv, Over
  <2>3. BeforeInv'
    BY <2>1 DEF PrincipalsInv, BeforeInv
  <2> QED
    BY <2>1, <2>2, <2>3, Untouched DEF PrincipalsInv
<1>2. ASSUME NEW c \in Peers,
             \/ Arrive(c) \/ Token(c) \/ Served(c) \/ Open(c) \/ SetPassword(c) \/ Targets(c)
             \/ EndOne(c) \/ Done(c) \/ DeleteAccount(c) \/ AdminOther(c)
      PROVE  PrincipalsInv'
  BY <1>2, ArriveKeeps, TokenKeeps, AnsweredKeeps, OpenKeeps, SetPasswordKeeps, TargetsKeeps,
     EndOneKeeps, DoneKeeps, AdminDeleteKeeps
<1>3. CASE RotationBegins \/ RotationCommits \/ RotationRollsBack
  BY <1>3, RotationEndsOrBegins, RotationRollsBackKeeps
<1> QED
  BY <1>1, <1>2, <1>3 DEF PrincipalsNext

--------------------------------------------------------------------------------
\* A request that began after the end of its session was answered, or after its token expired, is
\* not served as the user: for any number of requests and sessions, whoever signs in, out, or
\* deletes the account meanwhile (service.ts, verifyAccessToken, sessionActive).
THEOREM PrincipalsEndedRefused == PrincipalsAssumption => (PrincipalsSpec => []EndedRefused)
<1> SUFFICES ASSUME PrincipalsAssumption PROVE PrincipalsSpec => []EndedRefused
  OBVIOUS
<1>1. PrincipalsInit => PrincipalsInv
  BY PrincipalsStarts
<1>2. PrincipalsInv /\ [PrincipalsNext]_principalVars => PrincipalsInv'
  BY PrincipalsSteps
<1>3. PrincipalsInv => EndedRefused
  BY DEF PrincipalsInv, RequestInv, LateOf, EndedRefused, RequestAt
<1> QED
  BY <1>1, <1>2, <1>3, PTL DEF PrincipalsSpec

\* When a change of password is about to be answered, the other sessions that were open when it
\* was written are over, although they were read and ended one by one beside everything else
\* (service.ts, updateUser, revokeSessions).
THEOREM PrincipalsPasswordEndsOthers ==
  PrincipalsAssumption => (PrincipalsSpec => []PasswordEndsOthers)
<1> SUFFICES ASSUME PrincipalsAssumption PROVE PrincipalsSpec => []PasswordEndsOthers
  OBVIOUS
<1>1. PrincipalsInit => PrincipalsInv
  BY PrincipalsStarts
<1>2. PrincipalsInv /\ [PrincipalsNext]_principalVars => PrincipalsInv'
  BY PrincipalsSteps
<1>3. PrincipalsInv => PasswordEndsOthers
  <2> SUFFICES ASSUME PrincipalsInv, NEW c \in Peers, RequestAt(c, "end"), request[c].op = "password",
                      request[c].todo = {}, NEW s \in request[c].others
               PROVE  SessionActive(s) => s \in request[c].undone
    BY DEF PasswordEndsOthers
  <2>1. s \in request[c].cut \/ Over(s) \/ s \in request[c].undone
    BY DEF PrincipalsInv, RequestInv, OthersOf, RequestAt
  <2>2. Over(s) \/ s \in request[c].undone
    BY <2>1 DEF PrincipalsInv, RequestInv, ListOf, RequestAt
  <2> QED
    BY <2>2 DEF Over, SessionActive
<1> QED
  BY <1>1, <1>2, <1>3, PTL DEF PrincipalsSpec

--------------------------------------------------------------------------------
(* The rate limiter.  What was let through since a tick and what the bucket   *)
(* holds now are together at most the capacity and what came back since.      *)

BucketRecord == [tokens : Nat, updated : Nat]

RateType ==
  /\ buckets \in [Ids -> BucketRecord] /\ clock \in Nat
  /\ allowed \in [Ids -> [0..LastTick -> Nat]]
  /\ \A i \in Ids : buckets[i].updated <= clock

\* Nothing has been let through since a tick that is still to come.
Ahead == \A i \in Ids : \A t \in 0..LastTick : t > clock => allowed[i][t] = 0

Share == \A i \in Ids : \A t \in 0..LastTick : t <= clock =>
           allowed[i][t] * Whole + Refilled(i) <= Capacity * Whole + (clock - t) * Refill

RateInv == RateType /\ clock <= LastTick /\ Ahead /\ Share

LEMMA RateNumbers ==
  ASSUME RateLimitAssumption
  PROVE  /\ Capacity \in Nat /\ Refill \in Nat /\ Whole \in Nat /\ LastTick \in Nat
         /\ Capacity * Whole \in Nat
<1>1. Capacity \in Nat /\ Refill \in Nat /\ Whole \in Nat /\ LastTick \in Nat
  BY DEF RateLimitAssumption
<1> QED
  BY <1>1

\* What came back in a while.
LEMMA Product == \A a, b \in Nat : a * b \in Nat
  OBVIOUS

LEMMA Successor == \A a, b \in Nat : (a + 1) * b = a * b + b
  OBVIOUS

LEMMA RefilledBounds ==
  ASSUME RateLimitAssumption, RateType, NEW i \in Ids
  PROVE  /\ Refilled(i) \in Nat /\ Refilled(i) <= Capacity * Whole
         /\ (clock - buckets[i].updated) \in Nat
         /\ (clock - buckets[i].updated) * Refill \in Nat
<1>1. buckets[i].tokens \in Nat /\ (clock - buckets[i].updated) \in Nat
  BY DEF RateType, BucketRecord
<1>2. (clock - buckets[i].updated) * Refill \in Nat
  BY <1>1, RateNumbers, Product
<1>3. Refilled(i) \in Nat /\ Refilled(i) <= Capacity * Whole
  BY <1>1, <1>2, RateNumbers DEF Refilled
<1> QED
  BY <1>1, <1>2, <1>3

\* A bucket that was written at this moment holds what it was given.
LEMMA Written ==
  ASSUME RateLimitAssumption, RateType, RateType', NEW i \in Ids, clock' = clock,
         buckets'[i].updated = clock, buckets'[i].tokens <= Capacity * Whole
  PROVE  Refilled(i)' = buckets'[i].tokens
<1>1. (clock' - buckets'[i].updated) * Refill = 0
  BY RateNumbers DEF RateType
<1>2. buckets'[i].tokens \in Nat
  BY DEF RateType, BucketRecord
<1> QED
  BY <1>1, <1>2, RateNumbers DEF Refilled

LEMMA RateStart ==
  ASSUME RateLimitAssumption, RateInit
  PROVE  RateInv
<1>1. RateType /\ clock <= LastTick /\ Ahead
  BY RateNumbers DEF RateInit, RateType, BucketRecord, Ahead
<1>2. ASSUME NEW i \in Ids, NEW t \in 0..LastTick, t <= clock
      PROVE  allowed[i][t] * Whole + Refilled(i) <= Capacity * Whole + (clock - t) * Refill
  <2>1. allowed[i][t] = 0 /\ clock - t = 0
    BY <1>2 DEF RateInit
  <2>2. 0 * Whole = 0 /\ 0 * Refill = 0
    BY RateNumbers
  <2> QED
    BY <1>1, <2>1, <2>2, RefilledBounds, RateNumbers
<1> QED
  BY <1>1, <1>2 DEF RateInv, Share

LEMMA RatePass ==
  ASSUME RateLimitAssumption, RateInv, Pass
  PROVE  RateInv'
<1>1. clock' = clock + 1 /\ UNCHANGED <<buckets, allowed>> /\ clock \in Nat
  BY DEF Pass, RateInv, RateType
<1>2. RateType' /\ clock' <= LastTick /\ Ahead'
  BY <1>1, RateNumbers DEF Pass, RateInv, RateType, BucketRecord, Ahead
<1>3. ASSUME NEW i \in Ids
      PROVE  /\ Refilled(i)' <= Refilled(i) + Refill /\ Refilled(i) \in Nat
             /\ Refilled(i)' \in Nat /\ Refilled(i)' <= Capacity * Whole
  <2> DEFINE n == clock - buckets[i].updated
  <2>1. n \in Nat /\ clock' - buckets'[i].updated = n + 1 /\ buckets[i].tokens \in Nat
    BY <1>1 DEF RateInv, RateType, BucketRecord
  <2>2. (n + 1) * Refill = n * Refill + Refill /\ n * Refill \in Nat
    BY <2>1, RateNumbers, Successor, Product
  <2> HIDE DEF n
  <2>3. Refilled(i)' = LET sum == buckets[i].tokens + (n + 1) * Refill
                       IN  IF sum < Capacity * Whole THEN sum ELSE Capacity * Whole
    BY <1>1, <2>1 DEF Refilled
  <2>4. Refilled(i) = LET sum == buckets[i].tokens + n * Refill
                      IN  IF sum < Capacity * Whole THEN sum ELSE Capacity * Whole
    BY DEF Refilled, n
  <2> QED
    BY <2>1, <2>2, <2>3, <2>4, RateNumbers
<1>4. ASSUME NEW i \in Ids, NEW t \in 0..LastTick, t <= clock'
      PROVE  allowed'[i][t] * Whole + Refilled(i)' <= Capacity * Whole + (clock' - t) * Refill
  <2>1. Refilled(i)' \in Nat /\ Refilled(i)' <= Capacity * Whole /\ Refilled(i) \in Nat
    BY <1>3
  <2>2. CASE t = clock + 1
    <3>1. allowed'[i][t] = 0 /\ clock' - t = 0
      BY <1>1, <2>2 DEF RateInv, Ahead
    <3>2. 0 * Whole = 0 /\ 0 * Refill = 0
      BY RateNumbers
    <3> QED
      BY <2>1, <3>1, <3>2, RateNumbers
  <2>3. CASE t <= clock
    <3> DEFINE m == clock - t
    <3>0. allowed'[i][t] = allowed[i][t] /\ allowed[i][t] \in Nat
      BY <1>1 DEF RateInv, RateType
    <3>1. m \in Nat /\ clock' - t = m + 1
      BY <1>1, <2>3, RateNumbers
    <3>2. allowed[i][t] * Whole + Refilled(i) <= Capacity * Whole + m * Refill
      BY <2>3 DEF RateInv, Share
    <3>3. (m + 1) * Refill = m * Refill + Refill /\ m * Refill \in Nat
          /\ allowed[i][t] * Whole \in Nat
      BY <3>0, <3>1, RateNumbers, Successor, Product
    <3> HIDE DEF m
    <3> QED
      BY <1>3, <2>1, <3>0, <3>1, <3>2, <3>3, RateNumbers
  <2> QED
    BY <1>1, <1>4, <2>2, <2>3, RateNumbers
<1> QED
  BY <1>2, <1>4 DEF RateInv, Share

LEMMA RateTake ==
  ASSUME RateLimitAssumption, RateInv, NEW i \in Ids, TakeAllowed(i) \/ TakeRefused(i)
  PROVE  RateInv'
<1>0. clock' = clock /\ clock \in Nat /\ Refilled(i) \in Nat /\ Refilled(i) <= Capacity * Whole
  BY RefilledBounds DEF RateInv, RateType, TakeAllowed, TakeRefused
<1>a. allowed[i] \in [0..LastTick -> Nat]
  BY DEF RateInv, RateType
<1>1. PICK spent \in {0, 1} :
        /\ spent * Whole <= Refilled(i)
        /\ buckets' = [buckets EXCEPT ![i] = [tokens  |-> Refilled(i) - spent * Whole,
                                              updated |-> clock]]
        /\ \A j \in Ids : j # i => allowed'[j] = allowed[j]
        /\ allowed' \in [Ids -> [0..LastTick -> Nat]]
        /\ \A t \in 0..LastTick :
             allowed'[i][t] = IF t <= clock THEN allowed[i][t] + spent ELSE allowed[i][t]
  <2>1. 0 * Whole = 0 /\ 1 * Whole = Whole
    BY RateNumbers
  <2>2. CASE TakeAllowed(i)
    <3>1. Refilled(i) >= Whole
      BY <2>2 DEF TakeAllowed
    <3>2. buckets' = [buckets EXCEPT ![i] = [tokens |-> Refilled(i) - Whole, updated |-> clock]]
      BY <2>2 DEF TakeAllowed
    <3> DEFINE f == [t \in 0..LastTick |->
                       IF t <= clock THEN allowed[i][t] + 1 ELSE allowed[i][t]]
    <3>3. allowed' = [allowed EXCEPT ![i] = f]
      BY <2>2 DEF TakeAllowed
    <3>4. f \in [0..LastTick -> Nat]
      <4>1. ASSUME NEW t \in 0..LastTick
            PROVE  (IF t <= clock THEN allowed[i][t] + 1 ELSE allowed[i][t]) \in Nat
        <5>1. allowed[i][t] \in Nat
          BY <1>a
        <5> QED
          BY <5>1
      <4> QED
        BY <4>1
    <3>5. /\ \A j \in Ids : j # i => allowed'[j] = allowed[j]
          /\ allowed' \in [Ids -> [0..LastTick -> Nat]] /\ allowed'[i] = f
      BY <3>3, <3>4 DEF RateInv, RateType
    <3>6. \A t \in 0..LastTick :
            allowed'[i][t] = IF t <= clock THEN allowed[i][t] + 1 ELSE allowed[i][t]
      BY <3>5
    <3> QED
      BY <1>0, <2>1, <3>1, <3>2, <3>5, <3>6, RateNumbers
  <2>3. CASE TakeRefused(i)
    <3>1. buckets' = [buckets EXCEPT ![i] = [tokens |-> Refilled(i), updated |-> clock]]
          /\ allowed' = allowed
      BY <2>3 DEF TakeRefused
    <3>2. /\ \A t \in 0..LastTick : allowed[i][t] + 0 = allowed[i][t]
          /\ Refilled(i) - 0 = Refilled(i) /\ 0 <= Refilled(i)
      <4>1. \A t \in 0..LastTick : allowed[i][t] \in Nat
        BY <1>a
      <4> QED
        BY <1>0, <4>1
    <3>3. allowed' \in [Ids -> [0..LastTick -> Nat]]
      BY <3>1 DEF RateInv, RateType
    <3> QED
      BY <1>0, <2>1, <3>1, <3>2, <3>3
  <2> QED
    BY <2>2, <2>3
<1>2. spent * Whole \in Nat /\ Refilled(i) - spent * Whole \in Nat /\ spent \in Nat
      /\ Refilled(i) - spent * Whole <= Capacity * Whole
  BY <1>0, <1>1, RateNumbers
<1>3. /\ buckets'[i] = [tokens |-> Refilled(i) - spent * Whole, updated |-> clock]
      /\ \A j \in Ids : j # i => buckets'[j] = buckets[j]
  BY <1>1 DEF RateInv, RateType
<1>4. RateType'
  BY <1>0, <1>1, <1>2, <1>3 DEF RateInv, RateType, BucketRecord
<1>5. ASSUME NEW j \in Ids, NEW t \in 0..LastTick, t > clock'
      PROVE  allowed'[j][t] = 0
  <2>1. allowed[j][t] = 0 /\ ~(t <= clock)
    BY <1>0, <1>5, RateNumbers DEF RateInv, Ahead
  <2> QED
    BY <1>1, <2>1
<1>6. ASSUME NEW j \in Ids, NEW t \in 0..LastTick, t <= clock'
      PROVE  allowed'[j][t] * Whole + Refilled(j)' <= Capacity * Whole + (clock' - t) * Refill
  <2>1. allowed[j][t] * Whole + Refilled(j) <= Capacity * Whole + (clock - t) * Refill
    BY <1>0, <1>6 DEF RateInv, Share
  <2>2. CASE j # i
    BY <1>0, <1>1, <1>3, <2>1, <2>2 DEF Refilled
  <2>3. CASE j = i
    <3>1. Refilled(i)' = Refilled(i) - spent * Whole
      BY <1>0, <1>2, <1>3, <1>4, Written DEF RateInv
    <3>2. allowed'[i][t] = allowed[i][t] + spent /\ allowed[i][t] \in Nat
      BY <1>0, <1>1, <1>6 DEF RateInv, RateType
    <3>3. (allowed[i][t] + spent) * Whole = allowed[i][t] * Whole + spent * Whole
      <4>1. CASE spent = 0
        BY <3>2, <4>1, RateNumbers
      <4>2. CASE spent = 1
        BY <3>2, <4>2, RateNumbers, Successor
      <4> QED
        BY <4>1, <4>2
    <3> DEFINE a == allowed[i][t] * Whole
               s == spent * Whole
               w == (clock - t) * Refill
    <3>4. a \in Nat /\ s \in Nat /\ w \in Nat
      BY <1>0, <1>2, <1>6, <3>2, RateNumbers, Product
    <3>5. a + Refilled(i) <= Capacity * Whole + w
      BY <2>1, <2>3
    <3> HIDE DEF a, s, w
    <3>6. (a + s) + (Refilled(i) - s) <= Capacity * Whole + w
      BY <1>0, <3>4, <3>5, RateNumbers
    <3> QED
      BY <1>0, <2>3, <3>1, <3>2, <3>3, <3>6 DEF a, s, w
  <2> QED
    BY <2>2, <2>3
<1> QED
  BY <1>0, <1>4, <1>5, <1>6 DEF RateInv, Share, Ahead

\* For every rule, any number of ids and any spacing of attempts: what take() lets
\* through in a stretch of time is at most the capacity and what came back in it.
THEOREM RateThrottled == RateLimitAssumption => (RateSpec => []Throttled)
<1> SUFFICES ASSUME RateLimitAssumption PROVE RateSpec => []Throttled
  OBVIOUS
<1>1. RateInv => Throttled
  <2> SUFFICES ASSUME RateInv, NEW i \in Ids, NEW from \in 0..clock
               PROVE  allowed[i][from] * Whole <= Capacity * Whole + (clock - from) * Refill
    BY DEF Throttled
  <2>1. from \in 0..LastTick /\ from <= clock /\ clock - from \in Nat
    BY RateNumbers DEF RateInv, RateType
  <2>2. allowed[i][from] * Whole + Refilled(i) <= Capacity * Whole + (clock - from) * Refill
    BY <2>1 DEF RateInv, Share
  <2>3. /\ allowed[i][from] * Whole \in Nat /\ (clock - from) * Refill \in Nat
        /\ Refilled(i) \in Nat
    BY <2>1, RateNumbers, Product, RefilledBounds DEF RateInv, RateType
  <2> QED
    BY <2>2, <2>3, RateNumbers
<1>2. RateInv /\ [RateNext]_rateVars => RateInv'
  <2> SUFFICES ASSUME RateInv, [RateNext]_rateVars PROVE RateInv'
    OBVIOUS
  <2>1. CASE UNCHANGED rateVars
    BY <2>1 DEF rateVars, RateInv, RateType, Ahead, Share, Refilled
  <2> QED
    BY <2>1, RatePass, RateTake DEF RateNext
<1> QED
  BY RateStart, <1>1, <1>2, PTL DEF RateSpec

================================================================================
