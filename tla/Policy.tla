--------------------------------- MODULE Policy ---------------------------------
(******************************************************************************)
(* Row and field policies of one table (packages/policy): how the deployed    *)
(* rules become the security plan of a request, which the data layer applies  *)
(* by itself on SQLite, and the row-level security of PostgreSQL, which the   *)
(* database applies.                                                          *)
(*                                                                            *)
(* A request meets an existing row, "old", and leaves a resulting row, "new". *)
(* A clause is the truth value its expression has for each of the two, under  *)
(* SQL's three-valued logic, for the principal at hand; how expressions are   *)
(* evaluated is the subject of PolicyExprs.                                   *)
(******************************************************************************)
EXTENDS Naturals, FiniteSets, ThreeValued

CONSTANTS
  Columns,    \* of the table
  Offered,    \* the rules that may be deployed
  MaxRules    \* bound: rules deployed together

VARIABLE rules

policyVars == <<rules>>

Rows == {"old", "new"}

\* using: null, check: null.
NoClause == [r \in {} |-> "null"]

Given(clause) == clause # NoClause

Actions == {"select", "insert", "update", "delete", "subscribe"}

\* A clause: what its expression says of each row, if there is one.
Clause == [Rows -> Truth] \cup {NoClause}

PolicyRule ==
  [action : Actions, role : STRING, mode : {"permissive", "restrictive"}, using : Clause,
   check : Clause, read : SUBSET STRING, write : SUBSET STRING, immutable : SUBSET STRING]

PolicyAssumption ==
  Columns \subseteq STRING /\ Offered \subseteq PolicyRule /\ MaxRules \in Nat

UsesUsing(action) == action \in {"select", "update", "delete", "subscribe"}
UsesCheck(action) == action \in {"insert", "update"}

Principals ==
  {[kind |-> "user", role |-> "anon"], [kind |-> "user", role |-> "authenticated"],
   [kind |-> "service", role |-> "service_role"]}

\* isPrivilegedService.
Privileged(p) == p.kind = "service"

Applies(rule, action, p) == rule.action = action /\ rule.role \in {"*", p.role}

\* The rules that govern a request, by their mode.
Of(R, mode, action, p) == {r \in R : r.mode = mode /\ Applies(r, action, p)}

--------------------------------------------------------------------------------
(* deploy.                                                                    *)

\* validatePolicies: a clause only where its action has one, fields that exist.
ValidRule(rule) ==
  /\ Given(rule.using) => UsesUsing(rule.action)
  /\ Given(rule.check) => UsesCheck(rule.action)
  /\ rule.read \cup rule.write \subseteq Columns \cup {"*"} /\ rule.immutable \subseteq Columns

Deploy(rule) ==
  /\ Cardinality(rules) < MaxRules /\ ValidRule(rule)
  /\ rules' = rules \cup {rule}

PolicyInit == rules = {}
PolicyNext == \E rule \in Offered \ rules : Deploy(rule)

PolicySpec == PolicyInit /\ [][PolicyNext]_policyVars

--------------------------------------------------------------------------------
(* The security plan.                                                         *)

\* expandFields: "*" is every column.
ExpandFields(spec) == IF "*" \in spec THEN Columns ELSE spec \cap Columns

\* Mutant: the restrictive rules are alternatives too.
CombineClauseAny(perm, restr, using, row) ==
  LET value(r) == IF using THEN r.using ELSE r.check
  IN  IF perm = {} THEN "false"
      ELSE Or3({IF Given(value(r)) THEN value(r)[row] ELSE "true" : r \in perm \cup restr})

\* A permissive rule without the clause grants, a restrictive one does not restrict.
CombineClause(perm, restr, using, row) ==
  LET value(r) == IF using THEN r.using ELSE r.check
      grants   == {IF Given(value(r)) THEN value(r)[row] ELSE "true" : r \in perm}
      limits   == {value(r)[row] : r \in {q \in restr : Given(value(q))}}
  IN  IF perm = {} THEN "false" ELSE And3({Or3(grants)} \cup limits)

\* combine(): the clauses an action has, over both rows.
Combined(R, action, p) ==
  LET clause(using) == [row \in Rows |-> CombineClause(Of(R, "permissive", action, p),
                                                       Of(R, "restrictive", action, p), using, row)]
  IN  [using |-> IF UsesUsing(action) THEN clause(TRUE) ELSE NoClause,
       check |-> IF UsesCheck(action) THEN clause(FALSE) ELSE NoClause]

Immutable(R, action, p) ==
  IF action = "update" THEN UNION {r.immutable : r \in {q \in R : Applies(q, action, p)}} ELSE {}

\* computeFieldMask.
FieldMask(R, action, p) ==
  LET perm == Of(R, "permissive", action, p)
      restr == Of(R, "restrictive", action, p)
      in(c, spec(_)) == /\ \E r \in perm : c \in ExpandFields(spec(r))
                        /\ \A r \in restr : c \in ExpandFields(spec(r))
  IN  [readable |-> {c \in Columns : in(c, LAMBDA r : r.read)},
       writable |-> {c \in Columns : in(c, LAMBDA r : r.write)} \ Immutable(R, action, p)]

Open == [decision |-> "allow", using |-> NoClause, check |-> NoClause,
         readable |-> Columns, writable |-> Columns]

Denied == [decision |-> "deny", using |-> [row \in Rows |-> "false"],
           check |-> [row \in Rows |-> "false"], readable |-> {}, writable |-> {}]

\* buildSecurityPlan: no rule at all leaves the table open, no permissive one denies.
SecurityPlan(R, action, p) ==
  IF Privileged(p) \/ R = {} THEN Open
  ELSE IF Of(R, "permissive", action, p) = {} THEN Denied
  ELSE LET c == Combined(R, action, p)
           m == FieldMask(R, action, p)
       IN  [decision |-> "allow", using |-> c.using, check |-> c.check,
            readable |-> m.readable, writable |-> m.writable]

\* requestedReadFields, requestedWriteFields.
FieldsRefused(plan, reads, writes) ==
  plan.decision = "allow" /\ (reads \ plan.readable # {} \/ writes \ plan.writable # {})

--------------------------------------------------------------------------------
(* The two ways to apply the policies.                                        *)

\* policyUsingPredicate is spliced into the WHERE of the statement.
SqliteSees(plan, row) == Given(plan.using) => plan.using[row] = "true"

\* checkRowAllowed.
SqliteAccepts(plan) == plan.decision = "allow" /\ (Given(plan.check) => plan.check["new"] = "true")

\* Whether the request has its effect on the row.
SqliteDone(R, action, p) ==
  LET plan == SecurityPlan(R, action, p)
  IN  /\ plan.decision = "allow"
      /\ UsesUsing(action) => SqliteSees(plan, "old")
      /\ UsesCheck(action) => SqliteAccepts(plan)

\* compilePostgresRls: a policy for each rule whose action SQL has.
PgPolicies(R) == {r \in R : r.action \in {"select", "insert", "update", "delete"}}

\* usingFor and checkFor: what the CREATE POLICY says.
UsingFor(r) == IF r.action = "insert" THEN NoClause ELSE r.using
CheckFor(r) == IF r.action \in {"select", "delete"} THEN NoClause ELSE r.check

\* External: PostgreSQL lets a missing WITH CHECK be the USING clause, and knows no
\* permissive policy without the clause.
PgClause(r, check) == IF check /\ Given(CheckFor(r)) THEN CheckFor(r) ELSE UsingFor(r)

PgPasses(R, action, p, check, row) ==
  LET quals(mode) == {PgClause(r, check)[row] :
                        r \in {q \in Of(PgPolicies(R), mode, action, p) : Given(PgClause(q, check))}}
  IN  "true" \in quals("permissive") /\ quals("restrictive") \subseteq {"true"}

\* A statement also has to see, by the select policies, the rows it filters and returns.
PgSees(R, p) == \A row \in Rows : PgPasses(R, "select", p, FALSE, row)

\* The plan's decision is asked first; service_role has BYPASSRLS.
PgDone(R, action, p) ==
  LET plan == SecurityPlan(R, action, p)
  IN  /\ plan.decision = "allow"
      /\ \/ Privileged(p) \/ R = {}
         \/ /\ UsesUsing(action) => PgPasses(R, action, p, FALSE, "old")
            /\ UsesCheck(action) => PgPasses(R, action, p, TRUE, "new")
            /\ action \in {"insert", "update", "delete"} => PgSees(R, p)

\* Realtime's applyPolicy: whether a change is sent to a subscriber, and the columns of its
\* records.  A deletion is judged by the old row, every other change by the new one alone.
EventShown(R, op, p) ==
  LET plan == SecurityPlan(R, "select", p)
  IN  plan.decision = "allow" /\ SqliteSees(plan, IF op = "DELETE" THEN "old" ELSE "new")

EventFields(R, p) == SecurityPlan(R, "select", p).readable

--------------------------------------------------------------------------------

\* The plan decides as the authorization contract is written: the permissive rules that
\* apply are alternatives, one is needed, each restrictive rule is a condition, and the same
\* of the fields, where immutable wins when a row is modified.
DecidesAsWritten ==
  \A p \in Principals, action \in Actions :
    LET perm  == Of(rules, "permissive", action, p)
        restr == Of(rules, "restrictive", action, p)
        holds(clause, row) == Given(clause) => clause[row] = "true"
        plan  == SecurityPlan(rules, action, p)
    IN  ~Privileged(p) /\ rules # {} =>
          /\ SqliteDone(rules, action, p) <=>
               /\ perm # {}
               /\ UsesUsing(action) => /\ \E r \in perm : holds(r.using, "old")
                                       /\ \A r \in restr : holds(r.using, "old")
               /\ UsesCheck(action) => /\ \E r \in perm : holds(r.check, "new")
                                       /\ \A r \in restr : holds(r.check, "new")
          /\ \A c \in plan.writable :
               /\ \E r \in perm : c \in ExpandFields(r.write)
               /\ \A r \in perm \cup restr : action = "update" => c \notin r.immutable

\* PostgreSQL and SQLite let the same requests through, as long as every permissive rule
\* has the clauses its action uses and each restrictive update rule its check, and the role
\* may select the rows it writes.
SameOnPostgres ==
  LET complete(r) == /\ UsesUsing(r.action) /\ r.mode = "permissive" => Given(r.using)
                     /\ UsesCheck(r.action) => Given(r.check) \/ (r.mode = "restrictive" /\ ~Given(r.using))
  IN  \A p \in Principals, action \in Actions \ {"subscribe"} :
        /\ \A r \in rules : complete(r)
        /\ action # "select" => Privileged(p) \/ rules = {} \/ PgSees(rules, p)
        => (SqliteDone(rules, action, p) <=> PgDone(rules, action, p))

\* A change is sent to a subscriber exactly when PostgreSQL would let it select the row that
\* judges it, as long as the permissive rules say which rows; what is sent has only columns
\* that a select rule offers and none withholds.
EventsAsSelected ==
  \A p \in Principals, op \in {"INSERT", "UPDATE", "DELETE"} :
    ~Privileged(p) /\ rules # {} =>
      /\ (\A r \in Of(rules, "permissive", "select", p) : Given(r.using)) =>
           (EventShown(rules, op, p) <=>
              PgPasses(rules, "select", p, FALSE, IF op = "DELETE" THEN "old" ELSE "new"))
      /\ \A c \in EventFields(rules, p) :
           /\ \E r \in Of(rules, "permissive", "select", p) : c \in ExpandFields(r.read)
           /\ \A r \in Of(rules, "restrictive", "select", p) : c \in ExpandFields(r.read)

\* Rules decide alike wherever they are enforced: as the contract is written, on PostgreSQL as
\* on SQLite, and for the changes Realtime sends.
RulesDecide == DecidesAsWritten /\ SameOnPostgres /\ EventsAsSelected
================================================================================
