------------------------------- MODULE RulesProofs ------------------------------
(******************************************************************************)
(* What the rules of a project decide: RulesDecide of Policy, for any rules   *)
(* of any clauses, ShownAsAllowed of Objects, for any storage policies,       *)
(* names, users and pages, and ChecksHold and AnswersTrue of Data, for any    *)
(* rows, requests and interleaving.                                           *)
(******************************************************************************)
EXTENDS Policy, Objects, Data, FiniteSetTheorems, SequenceTheorems, WellFoundedInduction, TLAPS

--------------------------------------------------------------------------------
(* The policies of a table.  A deployed rule is valid, that is all the        *)
(* argument needs of the deployment; the rest is about the three-valued       *)
(* connectives: a conjunction is true when all of it is, a disjunction when   *)
(* some of it is, and a clause that is not given drops out of both.           *)

PolicyInv == rules \subseteq PolicyRule /\ \A r \in rules : ValidRule(r)

LEMMA PolicyTyped == PolicyAssumption => (PolicySpec => []PolicyInv)
<1> SUFFICES ASSUME PolicyAssumption PROVE PolicySpec => []PolicyInv
  OBVIOUS
<1>1. PolicyInit => PolicyInv
  BY DEF PolicyInit, PolicyInv
<1>2. PolicyInv /\ [PolicyNext]_policyVars => PolicyInv'
  BY DEF PolicyInv, PolicyNext, Deploy, PolicyAssumption, ValidRule, policyVars, Given, UsesUsing, UsesCheck
<1> QED
  BY <1>1, <1>2, PTL DEF PolicySpec

--------------------------------------------------------------------------------
\* A disjunction of truth values is true when one of them is, a conjunction when all are.
LEMMA ConnectivesTrue ==
  ASSUME NEW S \in SUBSET Truth
  PROVE  /\ Or3(S) \in Truth /\ And3(S) \in Truth
         /\ Or3(S) = "true" <=> "true" \in S
         /\ And3(S) = "true" <=> S \subseteq {"true"}
  BY DEF Or3, And3, Truth

\* What a row is asked by a combined clause.
LEMMA ClauseTrue ==
  ASSUME NEW perm \in SUBSET PolicyRule, NEW restr \in SUBSET PolicyRule, NEW using \in BOOLEAN,
         NEW row \in Rows
  PROVE  LET value(r) == IF using THEN r.using ELSE r.check
         IN  CombineClause(perm, restr, using, row) = "true" <=>
               /\ \E r \in perm : Given(value(r)) => value(r)[row] = "true"
               /\ \A r \in restr : Given(value(r)) => value(r)[row] = "true"
<1> DEFINE value(r) == IF using THEN r.using ELSE r.check
           permits == {IF Given(value(r)) THEN value(r)[row] ELSE "true" : r \in perm}
           limits == {value(r)[row] : r \in {q \in restr : Given(value(q))}}
<1>1. \A r \in PolicyRule : Given(value(r)) => value(r)[row] \in Truth
  BY DEF PolicyRule, Clause, Given
<1>2. permits \subseteq Truth /\ limits \subseteq Truth
  BY <1>1 DEF Truth
<1>3. Or3(permits) \in Truth /\ (Or3(permits) = "true" <=> "true" \in permits)
  BY <1>2, ConnectivesTrue
<1>4. And3({Or3(permits)} \cup limits) = "true" <=> {Or3(permits)} \cup limits \subseteq {"true"}
  <2> DEFINE all == {Or3(permits)} \cup limits
  <2>1. all \in SUBSET Truth
    BY <1>2, <1>3
  <2> HIDE DEF all
  <2>2. And3(all) = "true" <=> all \subseteq {"true"}
    BY <2>1, ConnectivesTrue
  <2> QED
    BY <2>2 DEF all
<1>5. "true" \in permits <=> \E r \in perm : Given(value(r)) => value(r)[row] = "true"
  OBVIOUS
<1>6. limits \subseteq {"true"} <=> \A r \in restr : Given(value(r)) => value(r)[row] = "true"
  OBVIOUS
<1> HIDE DEF permits, limits
<1>7. CASE perm = {}
  BY <1>7 DEF CombineClause
<1>8. CASE perm # {}
  <2>1. CombineClause(perm, restr, using, row) = And3({Or3(permits)} \cup limits)
    BY <1>8 DEF CombineClause, permits, limits
  <2> QED
    BY <2>1, <1>3, <1>4, <1>5, <1>6
<1> QED
  BY <1>7, <1>8

LEMMA UsingTrue ==
  ASSUME NEW perm \in SUBSET PolicyRule, NEW restr \in SUBSET PolicyRule, NEW row \in Rows
  PROVE  CombineClause(perm, restr, TRUE, row) = "true" <=>
           /\ \E r \in perm : Given(r.using) => r.using[row] = "true"
           /\ \A r \in restr : Given(r.using) => r.using[row] = "true"
  BY ClauseTrue

\* The rules that govern a request are rules.
LEMMA GoverningRules ==
  ASSUME NEW R \in SUBSET PolicyRule, NEW mode, NEW action, NEW p
  PROVE  /\ Of(R, mode, action, p) \in SUBSET PolicyRule
         /\ \A r \in Of(R, mode, action, p) : r \in R /\ r.mode = mode /\ Applies(r, action, p)
  BY DEF Of

\* The columns a plan lets a request read and write.
LEMMA MaskedFields ==
  ASSUME NEW R, NEW action, NEW p
  PROVE  LET mask == FieldMask(R, action, p)
             perm == Of(R, "permissive", action, p)
             restr == Of(R, "restrictive", action, p)
         IN  /\ \A c \in mask.readable : /\ \E r \in perm : c \in ExpandFields(r.read)
                                         /\ \A r \in restr : c \in ExpandFields(r.read)
             /\ \A c \in mask.writable : /\ \E r \in perm : c \in ExpandFields(r.write)
                                         /\ \A r \in restr : c \in ExpandFields(r.write)
                                         /\ c \notin Immutable(R, action, p)
  BY DEF FieldMask

\* The plan of a request that some permissive rule governs.
LEMMA GovernedPlan ==
  ASSUME NEW R \in SUBSET PolicyRule, R # {}, NEW p \in Principals, ~Privileged(p),
         NEW action \in Actions, Of(R, "permissive", action, p) # {}
  PROVE  LET plan == SecurityPlan(R, action, p)
             perm == Of(R, "permissive", action, p)
             restr == Of(R, "restrictive", action, p)
         IN  /\ plan.decision = "allow"
             /\ plan.readable = FieldMask(R, action, p).readable
             /\ plan.writable = FieldMask(R, action, p).writable
             /\ UsesUsing(action) =>
                  /\ Given(plan.using)
                  /\ \A row \in Rows : plan.using[row] = CombineClause(perm, restr, TRUE, row)
             /\ UsesCheck(action) =>
                  /\ Given(plan.check)
                  /\ \A row \in Rows : plan.check[row] = CombineClause(perm, restr, FALSE, row)
<1> DEFINE perm == Of(R, "permissive", action, p)
           restr == Of(R, "restrictive", action, p)
           c(using) == [row \in Rows |-> CombineClause(perm, restr, using, row)]
<1>1. SecurityPlan(R, action, p) =
        [decision |-> "allow", using |-> Combined(R, action, p).using,
         check |-> Combined(R, action, p).check, readable |-> FieldMask(R, action, p).readable,
         writable |-> FieldMask(R, action, p).writable]
  BY DEF SecurityPlan
<1>2. Combined(R, action, p) = [using |-> IF UsesUsing(action) THEN c(TRUE) ELSE NoClause,
                                check |-> IF UsesCheck(action) THEN c(FALSE) ELSE NoClause]
  BY DEF Combined
<1>3. Given(c(TRUE)) /\ Given(c(FALSE))
  BY DEF Given, NoClause, Rows
<1>4. \A row \in Rows : /\ c(TRUE)[row] = CombineClause(perm, restr, TRUE, row)
                        /\ c(FALSE)[row] = CombineClause(perm, restr, FALSE, row)
  OBVIOUS
<1> HIDE DEF perm, restr, c
<1>5. LET plan == SecurityPlan(R, action, p)
      IN  /\ plan.decision = "allow"
          /\ plan.readable = FieldMask(R, action, p).readable
          /\ plan.writable = FieldMask(R, action, p).writable
          /\ UsesUsing(action) => plan.using = c(TRUE)
          /\ UsesCheck(action) => plan.check = c(FALSE)
  <2>1. LET plan == SecurityPlan(R, action, p)
        IN  /\ plan.decision = "allow"
            /\ plan.readable = FieldMask(R, action, p).readable
            /\ plan.writable = FieldMask(R, action, p).writable
            /\ plan.using = Combined(R, action, p).using
            /\ plan.check = Combined(R, action, p).check
    BY <1>1
  <2>2. /\ Combined(R, action, p).using = IF UsesUsing(action) THEN c(TRUE) ELSE NoClause
        /\ Combined(R, action, p).check = IF UsesCheck(action) THEN c(FALSE) ELSE NoClause
    BY <1>2
  <2> QED
    BY <2>1, <2>2
<1> QED
  BY <1>3, <1>4, <1>5 DEF perm, restr

\* What a request that is neither privileged nor on an open table needs.
LEMMA DoneWhen ==
  ASSUME NEW R \in SUBSET PolicyRule, R # {}, NEW p \in Principals, ~Privileged(p),
         NEW action \in Actions
  PROVE  LET perm  == Of(R, "permissive", action, p)
             restr == Of(R, "restrictive", action, p)
             holds(clause, row) == Given(clause) => clause[row] = "true"
         IN  SqliteDone(R, action, p) <=>
               /\ perm # {}
               /\ UsesUsing(action) => /\ \E r \in perm : holds(r.using, "old")
                                       /\ \A r \in restr : holds(r.using, "old")
               /\ UsesCheck(action) => /\ \E r \in perm : holds(r.check, "new")
                                       /\ \A r \in restr : holds(r.check, "new")
<1> DEFINE perm == Of(R, "permissive", action, p)
           restr == Of(R, "restrictive", action, p)
<1>1. perm \in SUBSET PolicyRule /\ restr \in SUBSET PolicyRule
  BY GoverningRules
<1>2. CASE perm = {}
  <2>1. SecurityPlan(R, action, p).decision = "deny"
    BY <1>2 DEF SecurityPlan, Denied
  <2> QED
    BY <1>2, <2>1 DEF SqliteDone
<1>3. CASE perm # {}
  <2> DEFINE plan == SecurityPlan(R, action, p)
  <2>1. /\ plan.decision = "allow"
        /\ UsesUsing(action) =>
             Given(plan.using) /\ plan.using["old"] = CombineClause(perm, restr, TRUE, "old")
        /\ UsesCheck(action) =>
             Given(plan.check) /\ plan.check["new"] = CombineClause(perm, restr, FALSE, "new")
    BY <1>3, GovernedPlan DEF Rows
  <2>2. CombineClause(perm, restr, TRUE, "old") = "true" <=>
          /\ \E r \in perm : Given(r.using) => r.using["old"] = "true"
          /\ \A r \in restr : Given(r.using) => r.using["old"] = "true"
    BY <1>1, ClauseTrue DEF Rows
  <2>3. CombineClause(perm, restr, FALSE, "new") = "true" <=>
          /\ \E r \in perm : Given(r.check) => r.check["new"] = "true"
          /\ \A r \in restr : Given(r.check) => r.check["new"] = "true"
    BY <1>1, ClauseTrue DEF Rows
  <2> HIDE DEF perm, restr, plan
  <2>4. SqliteDone(R, action, p) <=>
          /\ UsesUsing(action) => CombineClause(perm, restr, TRUE, "old") = "true"
          /\ UsesCheck(action) => CombineClause(perm, restr, FALSE, "new") = "true"
    BY <2>1 DEF SqliteDone, SqliteSees, SqliteAccepts, plan
  <2> QED
    BY <1>3, <2>2, <2>3, <2>4 DEF perm, restr
<1> QED
  BY <1>2, <1>3

LEMMA DecidesOnTyped == ASSUME PolicyInv PROVE DecidesAsWritten
<1> SUFFICES ASSUME NEW p \in Principals, NEW action \in Actions, ~Privileged(p), rules # {}
             PROVE  LET perm  == Of(rules, "permissive", action, p)
                        restr == Of(rules, "restrictive", action, p)
                        holds(clause, row) == Given(clause) => clause[row] = "true"
                        plan  == SecurityPlan(rules, action, p)
                    IN  /\ SqliteDone(rules, action, p) <=>
                             /\ perm # {}
                             /\ UsesUsing(action) => /\ \E r \in perm : holds(r.using, "old")
                                                     /\ \A r \in restr : holds(r.using, "old")
                             /\ UsesCheck(action) => /\ \E r \in perm : holds(r.check, "new")
                                                     /\ \A r \in restr : holds(r.check, "new")
                        /\ \A c \in plan.writable :
                             /\ \E r \in perm : c \in ExpandFields(r.write)
                             /\ \A r \in perm \cup restr : action = "update" => c \notin r.immutable
  BY DEF DecidesAsWritten
<1> DEFINE perm == Of(rules, "permissive", action, p)
           restr == Of(rules, "restrictive", action, p)
           plan == SecurityPlan(rules, action, p)
<1>1. rules \in SUBSET PolicyRule
  BY DEF PolicyInv
<1>2. ASSUME NEW c \in plan.writable
      PROVE  /\ \E r \in perm : c \in ExpandFields(r.write)
             /\ \A r \in perm \cup restr : action = "update" => c \notin r.immutable
  <2>1. CASE perm = {}
    <3>1. plan.writable = {}
      BY <2>1 DEF SecurityPlan, Denied
    <3> QED
      BY <3>1
  <2>2. CASE perm # {}
    <3>1. c \in FieldMask(rules, action, p).writable
      BY <1>1, <2>2, GovernedPlan
    <3>2. (\E r \in perm : c \in ExpandFields(r.write)) /\ c \notin Immutable(rules, action, p)
      BY <3>1, MaskedFields
    <3>3. \A r \in perm \cup restr : r \in rules /\ Applies(r, action, p)
      BY <1>1, GoverningRules
    <3> QED
      BY <3>2, <3>3 DEF Immutable
  <2> QED
    BY <2>1, <2>2
<1> QED
  BY <1>1, <1>2, DoneWhen

\* What PostgreSQL asks of a row for an action that SQL has.
LEMMA PgPassesWhen ==
  ASSUME NEW R, NEW p, NEW action \in Actions \ {"subscribe"}, NEW check \in BOOLEAN, NEW row
  PROVE  PgPasses(R, action, p, check, row) <=>
           /\ \E r \in Of(R, "permissive", action, p) :
                Given(PgClause(r, check)) /\ PgClause(r, check)[row] = "true"
           /\ \A r \in Of(R, "restrictive", action, p) :
                Given(PgClause(r, check)) => PgClause(r, check)[row] = "true"
<1>1. \A mode : Of(PgPolicies(R), mode, action, p) = Of(R, mode, action, p)
  BY DEF Of, PgPolicies, Applies, Actions
<1> QED
  BY <1>1 DEF PgPasses

LEMMA SameOnTyped == ASSUME PolicyInv PROVE SameOnPostgres
<1> DEFINE complete(r) ==
             /\ UsesUsing(r.action) /\ r.mode = "permissive" => Given(r.using)
             /\ UsesCheck(r.action) => Given(r.check) \/ (r.mode = "restrictive" /\ ~Given(r.using))
<1> SUFFICES ASSUME NEW p \in Principals, NEW action \in Actions \ {"subscribe"},
                    \A r \in rules : complete(r),
                    action # "select" => Privileged(p) \/ rules = {} \/ PgSees(rules, p)
             PROVE  SqliteDone(rules, action, p) <=> PgDone(rules, action, p)
  BY DEF SameOnPostgres
<1> DEFINE perm == Of(rules, "permissive", action, p)
           restr == Of(rules, "restrictive", action, p)
<1>1. rules \in SUBSET PolicyRule
  BY DEF PolicyInv
<1>2. CASE Privileged(p) \/ rules = {}
  <2>1. SecurityPlan(rules, action, p) = Open
    BY <1>2 DEF SecurityPlan
  <2>2. Open.decision = "allow" /\ ~Given(Open.using) /\ ~Given(Open.check)
    BY DEF Open, Given
  <2>3. SqliteDone(rules, action, p)
    BY <2>1, <2>2 DEF SqliteDone, SqliteSees, SqliteAccepts
  <2>4. PgDone(rules, action, p)
    BY <1>2, <2>1, <2>2 DEF PgDone
  <2> QED
    BY <2>3, <2>4
<1>3. CASE ~Privileged(p) /\ rules # {} /\ perm = {}
  <2>1. SecurityPlan(rules, action, p).decision = "deny"
    BY <1>3 DEF SecurityPlan, Denied
  <2> QED
    BY <2>1 DEF SqliteDone, PgDone
<1>4. CASE ~Privileged(p) /\ rules # {} /\ perm # {}
  <2>1. SecurityPlan(rules, action, p).decision = "allow"
    BY <1>1, <1>4, GovernedPlan
  <2>2. \A r \in perm \cup restr : r \in rules /\ r.action = action
    BY <1>1, GoverningRules DEF Applies
  <2>3. \A r \in perm : r.mode = "permissive"
    BY <1>1, GoverningRules
  <2>4. ASSUME UsesUsing(action)
        PROVE  PgPasses(rules, action, p, FALSE, "old") <=>
                 /\ \E r \in perm : Given(r.using) => r.using["old"] = "true"
                 /\ \A r \in restr : Given(r.using) => r.using["old"] = "true"
    <3>1. \A r \in perm \cup restr : PgClause(r, FALSE) = r.using
      BY <2>2, <2>4 DEF PgClause, UsingFor, UsesUsing
    <3>2. \A r \in perm : Given(r.using)
      BY <2>2, <2>3, <2>4
    <3> HIDE DEF perm, restr, complete
    <3>3. PgPasses(rules, action, p, FALSE, "old") <=>
            /\ \E r \in perm : Given(PgClause(r, FALSE)) /\ PgClause(r, FALSE)["old"] = "true"
            /\ \A r \in restr : Given(PgClause(r, FALSE)) => PgClause(r, FALSE)["old"] = "true"
      BY PgPassesWhen DEF perm, restr
    <3> QED
      BY <3>1, <3>2, <3>3
  <2>5. ASSUME UsesCheck(action)
        PROVE  PgPasses(rules, action, p, TRUE, "new") <=>
                 /\ \E r \in perm : Given(r.check) => r.check["new"] = "true"
                 /\ \A r \in restr : Given(r.check) => r.check["new"] = "true"
    <3>1. \A r \in perm \cup restr : CheckFor(r) = r.check
      BY <2>2, <2>5 DEF CheckFor, UsesCheck
    <3>2. \A r \in perm : Given(r.check)
      BY <2>2, <2>3, <2>5
    <3>3. \A r \in restr : ~Given(r.check) => ~Given(UsingFor(r))
      BY <2>2, <2>5 DEF UsingFor, Given
    <3>4. \A r \in perm : PgClause(r, TRUE) = r.check
      BY <3>1, <3>2 DEF PgClause
    <3>5. \A r \in restr : Given(r.check) => PgClause(r, TRUE) = r.check
      BY <3>1 DEF PgClause
    <3>6. \A r \in restr : ~Given(r.check) => ~Given(PgClause(r, TRUE))
      BY <3>1, <3>3 DEF PgClause
    <3> HIDE DEF perm, restr, complete
    <3>7. PgPasses(rules, action, p, TRUE, "new") <=>
            /\ \E r \in perm : Given(PgClause(r, TRUE)) /\ PgClause(r, TRUE)["new"] = "true"
            /\ \A r \in restr : Given(PgClause(r, TRUE)) => PgClause(r, TRUE)["new"] = "true"
      BY PgPassesWhen DEF perm, restr
    <3> QED
      BY <3>2, <3>4, <3>5, <3>6, <3>7
  <2>6. PgDone(rules, action, p) <=>
          /\ UsesUsing(action) => PgPasses(rules, action, p, FALSE, "old")
          /\ UsesCheck(action) => PgPasses(rules, action, p, TRUE, "new")
    BY <1>4, <2>1 DEF PgDone
  <2> HIDE DEF perm, restr, complete
  <2>7. SqliteDone(rules, action, p) <=>
          /\ UsesUsing(action) => /\ \E r \in perm : Given(r.using) => r.using["old"] = "true"
                                  /\ \A r \in restr : Given(r.using) => r.using["old"] = "true"
          /\ UsesCheck(action) => /\ \E r \in perm : Given(r.check) => r.check["new"] = "true"
                                  /\ \A r \in restr : Given(r.check) => r.check["new"] = "true"
    BY <1>1, <1>4, DoneWhen DEF perm, restr
  <2> QED
    BY <2>4, <2>5, <2>6, <2>7
<1> QED
  BY <1>2, <1>3, <1>4

LEMMA EventsOnTyped == ASSUME PolicyInv PROVE EventsAsSelected
<1> SUFFICES ASSUME NEW p \in Principals, NEW op \in {"INSERT", "UPDATE", "DELETE"},
                    ~Privileged(p), rules # {}
             PROVE  /\ (\A r \in Of(rules, "permissive", "select", p) : Given(r.using)) =>
                         (EventShown(rules, op, p) <=>
                            PgPasses(rules, "select", p, FALSE, IF op = "DELETE" THEN "old" ELSE "new"))
                    /\ \A c \in EventFields(rules, p) :
                         /\ \E r \in Of(rules, "permissive", "select", p) : c \in ExpandFields(r.read)
                         /\ \A r \in Of(rules, "restrictive", "select", p) : c \in ExpandFields(r.read)
  BY DEF EventsAsSelected
<1> DEFINE perm == Of(rules, "permissive", "select", p)
           restr == Of(rules, "restrictive", "select", p)
           plan == SecurityPlan(rules, "select", p)
           row == IF op = "DELETE" THEN "old" ELSE "new"
<1>1. rules \in SUBSET PolicyRule /\ row \in Rows /\ "select" \in Actions \ {"subscribe"}
  BY DEF PolicyInv, Rows, Actions
<1>2. perm \in SUBSET PolicyRule /\ restr \in SUBSET PolicyRule
  BY <1>1, GoverningRules
<1>3. \A r \in perm \cup restr : PgClause(r, FALSE) = r.using
  <2>1. \A r \in perm \cup restr : r.action = "select"
    BY <1>1, GoverningRules DEF Applies
  <2> QED
    BY <2>1 DEF PgClause, UsingFor
<1>4. PgPasses(rules, "select", p, FALSE, row) <=>
        /\ \E r \in perm : Given(PgClause(r, FALSE)) /\ PgClause(r, FALSE)[row] = "true"
        /\ \A r \in restr : Given(PgClause(r, FALSE)) => PgClause(r, FALSE)[row] = "true"
  <2> HIDE DEF row
  <2> QED
    BY <1>1, PgPassesWhen
<1>5. CASE perm = {}
  <2>1. plan.decision = "deny" /\ plan.readable = {}
    BY <1>5 DEF SecurityPlan, Denied
  <2> QED
    BY <1>4, <1>5, <2>1 DEF EventShown, EventFields
<1>6. CASE perm # {}
  <2>1. /\ plan.decision = "allow" /\ plan.readable = FieldMask(rules, "select", p).readable
        /\ Given(plan.using) /\ plan.using[row] = CombineClause(perm, restr, TRUE, row)
    BY <1>1, <1>6, GovernedPlan DEF UsesUsing
  <2>2. CombineClause(perm, restr, TRUE, row) = "true" <=>
          /\ \E r \in perm : Given(r.using) => r.using[row] = "true"
          /\ \A r \in restr : Given(r.using) => r.using[row] = "true"
    <3> HIDE DEF perm, restr, row
    <3> QED
      BY <1>1, <1>2, UsingTrue
  <2>3. EventShown(rules, op, p) <=> CombineClause(perm, restr, TRUE, row) = "true"
    BY <2>1 DEF EventShown, SqliteSees
  <2>4. \A c \in EventFields(rules, p) : /\ \E r \in perm : c \in ExpandFields(r.read)
                                         /\ \A r \in restr : c \in ExpandFields(r.read)
    BY <2>1, MaskedFields DEF EventFields
  <2> HIDE DEF perm, restr, plan, row
  <2>5. (\A r \in perm : Given(r.using)) =>
          (EventShown(rules, op, p) <=> PgPasses(rules, "select", p, FALSE, row))
    BY <1>3, <1>4, <2>2, <2>3
  <2> QED
    BY <2>4, <2>5 DEF perm, restr, row
<1> QED
  BY <1>5, <1>6

\* Rules decide as the authorization contract is written, let through on PostgreSQL what they
\* let through on SQLite, and send the changes a select would show: for any number of rules of
\* any roles, modes and clauses (compile.ts, rls.ts, realtime's applyPolicy).
THEOREM PolicyRulesDecide == PolicyAssumption => (PolicySpec => []RulesDecide)
<1> SUFFICES ASSUME PolicyAssumption PROVE PolicySpec => []RulesDecide
  OBVIOUS
<1>1. PolicyInv => RulesDecide
  BY DecidesOnTyped, SameOnTyped, EventsOnTyped DEF RulesDecide
<1> QED
  BY PolicyTyped, <1>1, PTL

--------------------------------------------------------------------------------
(* The objects of a bucket.  That pages cover a list is a matter of places:   *)
(* the rows below the prefix are numbered from 1 without a gap, and every     *)
(* number falls on a page.                                                    *)

ObjectsType ==
  /\ links \in Seq([path : Path, by : Callers, exp : Nat]) /\ time \in Nat
  /\ DOMAIN owners \subseteq Path

\* However it was asked for, what the last answer shows could be shown.
ShownInv ==
  \A n \in reply.shown :
    \/ public
    \/ reply.link = 0 /\ Authorized(reply.to, "read", n, owners[n])
    \/ reply.link > 0 /\ links[reply.link].path = n /\ time <= links[reply.link].exp

ObjectsInv == ObjectsType /\ ShownInv

\* A set of natural numbers has a least element.
LEMMA LeastNumber ==
  ASSUME NEW T \in SUBSET Nat, T # {}
  PROVE  \E n \in T : \A m \in T : n <= m
<1>1. PICK n \in T : \A m \in T : ~(<<m, n>> \in OpToRel(<, Nat))
  BY NatLessThanWellFounded, WFMin
<1>2. \A m \in T : ~(m < n)
  BY <1>1 DEF OpToRel
<1> QED
  BY <1>2

\* Pages of any size count every row once: a row's place is on one of them.
LEMMA SomePage ==
  ASSUME NEW limit \in Nat \ {0}, NEW last \in Nat, NEW place \in 1..last
  PROVE  \E k \in 0..last : k * limit < place /\ place <= k * limit + limit
<1> DEFINE T == {k \in Nat : place <= k * limit + limit}
<1>1. place <= place * limit + limit
  <2>1. \A x \in Nat, y \in Nat \ {0} : x <= x * y
    OBVIOUS
  <2> QED
    BY <2>1
<1>2. PICK k \in T : \A m \in T : k <= m
  <2>1. T \in SUBSET Nat /\ T # {}
    BY <1>1
  <2> HIDE DEF T
  <2> QED
    BY <2>1, LeastNumber
<1>3. k \in 0..last
  BY <1>1, <1>2
<1>4. k * limit < place
  <2>1. CASE k = 0
    BY <2>1
  <2>2. CASE k # 0
    <3>1. k - 1 \in Nat /\ k - 1 \notin T
      BY <1>2, <2>2
    <3>2. ~(place <= (k - 1) * limit + limit)
      BY <3>1
    <3>3. (k - 1) * limit + limit = k * limit
      OBVIOUS
    <3> QED
      BY <3>2, <3>3
  <2> QED
    BY <2>1, <2>2
<1> QED
  BY <1>2, <1>3, <1>4

\* A row's place among the rows of a listing is a number up to the number of names.
LEMMA PlaceOfRow ==
  ASSUME ObjectsAssumption, NEW prefix, NEW i \in ListRows(prefix)
  PROVE  Cardinality({j \in ListRows(prefix) : j <= i}) \in 1..Len(Names)
<1> DEFINE before == {j \in ListRows(prefix) : j <= i}
<1>1. Len(Names) \in Nat /\ DOMAIN Names = 1..Len(Names)
  BY DEF ObjectsAssumption
<1>2. before \subseteq 1..Len(Names) /\ i \in before
  BY <1>1 DEF ListRows
<1>3. IsFiniteSet(1..Len(Names)) /\ Cardinality(1..Len(Names)) = Len(Names)
  <2>1. /\ IsFiniteSet(1..Len(Names))
        /\ Cardinality(1..Len(Names)) = IF 1 > Len(Names) THEN 0 ELSE (Len(Names) - 1) + 1
    BY <1>1, FS_Interval
  <2> QED
    BY <1>1, <2>1
<1>4. IsFiniteSet(before) /\ Cardinality(before) <= Len(Names)
  BY <1>2, <1>3, FS_Subset
<1>5. Cardinality(before) \in Nat /\ Cardinality(before) # 0
  BY <1>2, <1>4, FS_CardinalityType, FS_EmptySet
<1> QED
  BY <1>1, <1>4, <1>5

\* Pages of any size, fetched to the end, list what there is to read below the prefix.
LEMMA PagesCover ==
  ASSUME ObjectsAssumption, NEW p, NEW prefix \in DOMAIN Listings, NEW limit \in 1..MaxLimit
  PROVE  UNION {ListPage(p, prefix, limit, k * limit) : k \in 0..Len(Names)}
           = {n \in DOMAIN owners : n \in Listings[prefix] /\ MayRead(p, n)}
<1> DEFINE pages == UNION {ListPage(p, prefix, limit, k * limit) : k \in 0..Len(Names)}
           readable == {n \in DOMAIN owners : n \in Listings[prefix] /\ MayRead(p, n)}
<1>1. Len(Names) \in Nat /\ MaxLimit \in Nat /\ Listings[prefix] \subseteq Path
  BY DEF ObjectsAssumption
<1>2. pages \subseteq readable
  <2>1. ASSUME NEW k \in 0..Len(Names), NEW n \in ListPage(p, prefix, limit, k * limit)
        PROVE  n \in readable
    <3>1. PICK i \in Cut(prefix, limit, k * limit) : n = Names[i] /\ MayRead(p, n)
      BY DEF ListPage
    <3>2. i \in ListRows(prefix)
      BY DEF Cut
    <3> QED
      BY <3>1, <3>2 DEF ListRows, ReadyAt
  <2> QED
    BY <2>1
<1>3. ASSUME NEW n \in readable PROVE n \in pages
  <2>1. PICK i \in DOMAIN Names : Names[i] = n
    BY <1>1 DEF Path
  <2>2. i \in ListRows(prefix)
    BY <2>1 DEF ListRows, ReadyAt
  <2> DEFINE place == Cardinality({j \in ListRows(prefix) : j <= i})
  <2>3. place \in 1..Len(Names)
    BY <2>2, PlaceOfRow
  <2> HIDE DEF place
  <2>4. PICK k \in 0..Len(Names) : k * limit < place /\ place <= k * limit + limit
    <3>1. limit \in Nat \ {0}
      BY <1>1
    <3> QED
      BY <1>1, <2>3, <3>1, SomePage
  <2>5. i \in Cut(prefix, limit, k * limit)
    BY <2>2, <2>4 DEF Cut, place
  <2>6. n \in ListPage(p, prefix, limit, k * limit)
    BY <2>1, <2>5 DEF ListPage
  <2> QED
    BY <2>4, <2>6
<1> QED
  BY <1>2, <1>3

--------------------------------------------------------------------------------
LEMMA ObjectsStarts == ObjectsAssumption /\ ObjectsInit => ObjectsInv
  BY DEF ObjectsAssumption, ObjectsInit, ObjectsInv, ObjectsType, ShownInv, Silence

\* Who may read what depends on the policies and the owners alone.
LEMMA SameRights ==
  ASSUME UNCHANGED <<grants, owners>>
  PROVE  \A p, n : Authorized(p, "read", n, owners[n])' <=> Authorized(p, "read", n, owners[n])
  BY DEF Authorized, AppliesTo

\* A request that answers shows what its own check let through.
LEMMA AnswersKeep ==
  ASSUME ObjectsAssumption, ObjectsInv,
         \/ \E i \in DOMAIN links : DownloadSigned(i)
         \/ \E n \in Path : PublicDownload(n) \/ \E p \in Callers : Download(p, n)
         \/ \E p \in Callers : \E prefix, limit, offset : List(p, prefix, limit, offset)
  PROVE  ObjectsInv'
<1>1. ObjectsType'
  BY DEF ObjectsInv, ObjectsType, DownloadSigned, PublicDownload, Download, List
<1>2. ASSUME NEW i \in DOMAIN links, DownloadSigned(i) PROVE ShownInv'
  <2>1. i > 0
    BY DEF ObjectsInv, ObjectsType
  <2> QED
    BY <1>2, <2>1 DEF DownloadSigned, Show, ShownInv
<1>3. ASSUME NEW n \in Path, PublicDownload(n) PROVE ShownInv'
  BY <1>3 DEF PublicDownload, Show, ShownInv
<1>4. ASSUME NEW n \in Path, NEW p \in Callers, Download(p, n) PROVE ShownInv'
  BY <1>4, SameRights DEF Download, Show, ShownInv, MayRead
<1>5. ASSUME NEW p \in Callers, NEW prefix, NEW limit, NEW offset, List(p, prefix, limit, offset)
      PROVE  ShownInv'
  <2>1. \A n \in ListPage(p, prefix, limit, offset) : public \/ Authorized(p, "read", n, owners[n])
    BY DEF ListPage, MayRead
  <2> QED
    BY <1>5, <2>1, SameRights DEF List, Show, ShownInv
<1> QED
  BY <1>1, <1>2, <1>3, <1>4, <1>5 DEF ObjectsInv

\* Any other request leaves the last answer behind.
LEMMA OthersKeep ==
  ASSUME ObjectsAssumption, ObjectsInv,
         \/ UpdateBucket \/ Later
         \/ \E p \in Callers, n \in Path : MintLink(p, n) \/ Upload(p, n) \/ Remove(p, n)
         \/ \E p \in Callers, from, to \in Path : Copy(p, from, to)
  PROVE  ObjectsInv'
<1>1. reply' = Silence
  BY DEF UpdateBucket, Later, MintLink, Upload, Remove, Copy
<1>2. ShownInv'
  BY <1>1 DEF ShownInv, Silence
<1>3. ASSUME UpdateBucket \/ Later PROVE ObjectsType'
  <2>1. UNCHANGED <<owners, links>> /\ (UNCHANGED time \/ time' = time + 1)
    BY <1>3 DEF UpdateBucket, Later
  <2> QED
    BY <2>1 DEF ObjectsInv, ObjectsType
<1>4. ASSUME NEW p \in Callers, NEW n \in Path, MintLink(p, n) PROVE ObjectsType'
  <2>1. [path |-> n, by |-> p, exp |-> time + Life] \in [path : Path, by : Callers, exp : Nat]
    BY DEF ObjectsInv, ObjectsType, ObjectsAssumption
  <2> QED
    BY <1>4, <2>1 DEF ObjectsInv, ObjectsType, MintLink
<1>5. ASSUME NEW p \in Callers, NEW n \in Path, Upload(p, n) \/ Remove(p, n) PROVE ObjectsType'
  BY <1>5 DEF ObjectsInv, ObjectsType, Upload, Remove, Stored
<1>6. ASSUME NEW p \in Callers, NEW from \in Path, NEW to \in Path, Copy(p, from, to)
      PROVE  ObjectsType'
  <2>1. DOMAIN owners' \subseteq DOMAIN owners \cup {to}
    BY <1>6 DEF Copy, Stored
  <2> QED
    BY <1>6, <2>1 DEF ObjectsInv, ObjectsType, Copy
<1> QED
  BY <1>2, <1>3, <1>4, <1>5, <1>6 DEF ObjectsInv

LEMMA ObjectsSteps ==
  ASSUME ObjectsAssumption, ObjectsInv, [ObjectsNext]_objectVars
  PROVE  ObjectsInv'
<1>1. CASE UNCHANGED objectVars
  BY <1>1, SameRights DEF objectVars, ObjectsInv, ObjectsType, ShownInv
<1>2. CASE ObjectsNext
  BY <1>2, AnswersKeep, OthersKeep DEF ObjectsNext
<1> QED
  BY <1>1, <1>2

\* Whatever the policies, the names and the number of links: an answer shows only what its caller
\* may read or a link still grants, and pages of any size together list for a caller everything
\* it may read below the prefix, although LIMIT counts the rows it may not (list).
THEOREM ObjectsShownAsAllowed == ObjectsAssumption => (ObjectsSpec => []ShownAsAllowed)
<1> SUFFICES ASSUME ObjectsAssumption PROVE ObjectsSpec => []ShownAsAllowed
  OBVIOUS
<1>1. ObjectsInv => ShownAsAllowed
  BY PagesCover DEF ObjectsInv, ShownInv, ShownAsAllowed
<1> QED
  BY ObjectsStarts, ObjectsSteps, <1>1, PTL DEF ObjectsSpec

--------------------------------------------------------------------------------
(* Requests of the Data API.  Until another request writes, the table is the  *)
(* one a select began with and the one in which the candidates of a mutation  *)
(* were checked: "raced" says from when on nothing is known of it.            *)

Selecting == {"count", "page", "embed"}
Mutating  == {"begin", "check", "write", "post", "commit", "pg"}

Fields == DOMAIN NoRequest

Shape == DOMAIN client = Clients /\ \A c \in Clients : DOMAIN client[c] = Fields

\* Where a request is, and what it has to be to get there.
WayOf(c) ==
  LET k == client[c]
  IN  /\ k.pc \in {"idle", "done"} \cup Selecting \cup Mutating
      /\ k.pc # "idle" => k.raw \in RawRequests
      /\ k.pc \in Selecting => k.raw.method = "GET"
      /\ k.pc \in Mutating => k.raw.method # "GET"
      /\ k.pc \in Selecting \cup Mutating => ParseStatus(k.raw) = 0 /\ PlanStatus(k.raw, k.p) = 0
      /\ k.pc \notin {"post", "commit", "done"} => k.wrote = <<>>
      /\ k.pc \in Selecting \cup Mutating => k.embeds = <<>>
      /\ tx.by = c => k.pc \in {"check", "write", "post", "commit"}
      /\ k.pc = "begin" => family = "sqlite"
      /\ k.pc \in {"check", "write", "post", "commit"} => family = "d1" \/ tx.by = c

\* A row of the body was checked before the write without all the columns of the check.
CheckedInPart(k, i) == k.raw.method = "POST" /\ \E r \in Incomplete(k.raw) : r.id = i

\* What a mutation has checked, until another request writes: its candidates; then the rows as
\* they were written, but for those checked in part; then those too, or it is refused on D1.
CheckedOf(c) ==
  LET k == client[c]
  IN  k.raw.method \in {"POST", "PATCH"} /\ ~k.raced =>
        /\ k.pc = "write" => \A r \in Candidates(c) : MayLeave(k.p, r)
        /\ k.pc \in {"post", "commit", "done"} =>
             \A i \in DOMAIN k.wrote :
               /\ docs[i] # Absent
               /\ k.pc = "post" => docs[i] = k.wrote[i] /\ (MayLeave(k.p, docs[i]) \/ CheckedInPart(k, i))
               /\ k.pc = "commit" => MayLeave(k.p, docs[i])
               /\ k.pc = "done" => MayLeave(k.p, docs[i]) \/ LeftOnD1(k, i)

\* The rows a select is about, and those of its window.
Listing(c) == Sorted(client[c].raw.order, Found(c, client[c].start))

Window(c) ==
  LET page == Page(client[c].raw)
      last == IF page.offset + page.limit < Len(Listing(c)) THEN page.offset + page.limit
              ELSE Len(Listing(c))
  IN  SubSeq(Listing(c), page.offset + 1, last)

Counted(c) == "exact" \in client[c].raw.prefer => client[c].total = Len(Listing(c))

\* What a select has found, until another request writes.
SelectOf(c) ==
  LET k == client[c]
  IN  k.raw.method = "GET" /\ ~k.raced /\ k.pc # "idle" =>
        /\ k.start = docs
        /\ k.raw.table = "docs" /\ ParseStatus(k.raw) = 0 /\ PlanStatus(k.raw, k.p) = 0 =>
             /\ k.pc \in {"page", "embed"} => Counted(c)
             /\ k.pc = "embed" => k.rows = Window(c)
             /\ k.pc = "done" =>
                  \/ Counted(c) /\ k.rows = Window(c) /\ k.status = ShapeSelect(c)
                  \/ k.status = 500 /\ family # "postgres" /\ k.raw.offset > 0

\* EmbedsOwn, of one request.
EmbedsOf(c) ==
  LET k == client[c]
  IN  Answered(c) /\ Returns(k.raw) /\ ~k.raced /\ Len(k.embeds) > 0 =>
        \A n \in DOMAIN k.rows : k.embeds[n] = Related(k.p, k.raw.embed, k.rows[n])

RequestInv(c) == WayOf(c) /\ CheckedOf(c) /\ SelectOf(c) /\ EmbedsOf(c)

DataInv ==
  /\ Shape /\ family \in {"postgres", "sqlite", "d1"} /\ (family # "sqlite" => tx.by = "none")
  /\ \A c \in Clients : RequestInv(c)

--------------------------------------------------------------------------------
LEMMA FieldsAre ==
  Fields = {"pc", "p", "raw", "start", "raced", "total", "rows", "embeds", "wrote", "status"}
  BY DEF Fields, NoRequest

\* A step of c that leaves the others alone, or tells them that the table has changed.
Beside(c) ==
  /\ \A d \in Clients \ {c} :
       \/ client'[d] = client[d] /\ docs' = docs
       \/ client'[d] = [client[d] EXCEPT !.raced = TRUE]
  /\ \/ tx' = tx
     \/ /\ tx.by \in {c, "none"} /\ tx'.by \in {c, "none"}
        /\ tx'.by = c => family = "sqlite"
  /\ family' = family

LEMMA OthersUndisturbed ==
  ASSUME DataAssumption, DataInv, NEW c \in Clients, Beside(c), NEW d \in Clients, d # c
  PROVE  RequestInv(d)'
<1>1. RequestInv(d) /\ DOMAIN client[d] = Fields
  BY DEF DataInv, Shape
<1>2. (tx'.by = d <=> tx.by = d) /\ family' = family
  BY DEF Beside, DataAssumption
<1>3. CASE client'[d] = client[d] /\ docs' = docs
  <2>1. WayOf(d)'
    BY <1>1, <1>2, <1>3 DEF RequestInv, WayOf
  <2>2. CheckedOf(d)'
    <3>1. Candidates(d)' = Candidates(d)
      BY <1>3 DEF Candidates, Raw, Found
    <3> QED
      BY <1>1, <1>2, <1>3, <3>1 DEF RequestInv, CheckedOf, CheckedInPart, LeftOnD1
  <2>3. SelectOf(d)'
    <3>1. Listing(d)' = Listing(d)
      BY <1>3 DEF Listing, Found
    <3>2. Window(d)' = Window(d) /\ Counted(d)' = Counted(d)
      BY <1>3, <3>1 DEF Window, Counted
    <3>3. ShapeSelect(d)' = ShapeSelect(d)
      BY <1>3 DEF ShapeSelect, Raw
    <3> QED
      BY <1>1, <1>3, <3>2, <3>3 DEF RequestInv, SelectOf, Beside
  <2>4. EmbedsOf(d)'
    <3>1. \A p, e, x : Related(p, e, x)' = Related(p, e, x)
      BY <1>3 DEF Related
    <3> QED
      BY <1>1, <1>3, <3>1 DEF RequestInv, EmbedsOf, Answered, At
  <2> QED
    BY <2>1, <2>2, <2>3, <2>4 DEF RequestInv
<1>4. CASE client'[d] = [client[d] EXCEPT !.raced = TRUE]
  <2>1. /\ client'[d].raced = TRUE
        /\ client'[d].pc = client[d].pc /\ client'[d].raw = client[d].raw /\ client'[d].p = client[d].p
        /\ client'[d].wrote = client[d].wrote /\ client'[d].embeds = client[d].embeds
    BY <1>1, <1>4, FieldsAre
  <2>2. WayOf(d)'
    BY <1>1, <1>2, <2>1 DEF RequestInv, WayOf
  <2>3. CheckedOf(d)' /\ SelectOf(d)' /\ EmbedsOf(d)'
    BY <2>1 DEF CheckedOf, SelectOf, EmbedsOf
  <2> QED
    BY <2>2, <2>3 DEF RequestInv
<1> QED
  BY <1>3, <1>4 DEF Beside

--------------------------------------------------------------------------------
LEMMA Submitting ==
  ASSUME DataAssumption, DataInv, NEW c \in Clients, NEW p \in Askers, NEW raw \in RawRequests,
         Submit(c, p, raw)
  PROVE  Shape' /\ Beside(c) /\ RequestInv(c)'
<1> DEFINE s == IF ParseStatus(raw) # 0 THEN ParseStatus(raw) ELSE PlanStatus(raw, p)
<1>1. Shape' /\ Beside(c)
  BY FieldsAre DEF Submit, DataInv, Shape, Beside, Fields
<1>2. /\ client'[c].pc = IF s # 0 THEN "done" ELSE FirstStep(raw)
      /\ client'[c].p = p /\ client'[c].raw = raw /\ client'[c].start = docs
      /\ client'[c].raced = FALSE /\ client'[c].total = 0 /\ client'[c].rows = <<>>
      /\ client'[c].embeds = <<>> /\ client'[c].wrote = <<>> /\ client'[c].status = s
  BY DEF Submit, DataInv, Shape, NoRequest
<1>3. tx' = tx /\ docs' = docs /\ family' = family /\ client[c].pc \in {"idle", "done"}
  BY DEF Submit
<1>4. /\ FirstStep(raw) \in {"count", "page", "begin", "check", "write", "pg"}
      /\ raw.method = "GET" => FirstStep(raw) = IF "exact" \in raw.prefer THEN "count" ELSE "page"
      /\ raw.method # "GET" => FirstStep(raw) \in Mutating
      /\ FirstStep(raw) = "write" => raw.method = "DELETE"
      /\ FirstStep(raw) = "begin" => family = "sqlite"
      /\ FirstStep(raw) \in {"check", "write"} => family = "d1"
  BY DEF FirstStep, Mutating, DataInv
<1>5. WayOf(c)'
  <2>1. tx'.by # c
    BY <1>3 DEF DataInv, RequestInv, WayOf
  <2>2. s = 0 => ParseStatus(raw) = 0 /\ PlanStatus(raw, p) = 0
    OBVIOUS
  <2> HIDE DEF s
  <2> QED
    BY <1>2, <1>3, <1>4, <2>1, <2>2 DEF WayOf, Selecting, Mutating
<1>6. CheckedOf(c)'
  BY <1>2, <1>4 DEF CheckedOf
<1>7. SelectOf(c)'
  <2>1. ParseStatus(raw) = 0 /\ PlanStatus(raw, p) = 0 => s = 0
    OBVIOUS
  <2> HIDE DEF s
  <2> QED
    BY <1>2, <1>3, <1>4, <2>1 DEF SelectOf, Counted
<1>8. EmbedsOf(c)'
  <2> HIDE DEF s
  <2> QED
    BY <1>2 DEF EmbedsOf
<1> QED
  BY <1>1, <1>5, <1>6, <1>7, <1>8 DEF RequestInv

--------------------------------------------------------------------------------
(* Selects.                                                                   *)

\* A request whose plan is made asks for no rows of its own table beside its rows.
LEMMA PlannedEmbed ==
  ASSUME NEW raw, NEW p, ParseStatus(raw) = 0, PlanStatus(raw, p) = 0, Returns(raw)
  PROVE  raw.table \in {"docs", "notes"} /\ raw.embed \in {"none", "notes", "docs"} \ {raw.table}
<1>1. raw.table \in {"docs", "notes"}
  BY DEF ParseStatus
<1>2. raw.embed \in {"none", "notes", "docs"} \ {raw.table}
  BY DEF PlanStatus
<1> QED
  BY <1>1, <1>2

\* attachEmbeds fetches the related rows by the keys of all its parents; each gets its own.
LEMMA EmbeddedRelated ==
  ASSUME NEW c \in Clients, ParseStatus(client[c].raw) = 0,
         PlanStatus(client[c].raw, client[c].p) = 0, Returns(client[c].raw)
  PROVE  \A n \in DOMAIN client[c].rows :
           Embedded(c)[n] = Related(client[c].p, client[c].raw.embed, client[c].rows[n])
<1> DEFINE raw == client[c].raw
           p == client[c].p
<1>1. raw.table \in {"docs", "notes"} /\ raw.embed \in {"none", "notes", "docs"} \ {raw.table}
  BY PlannedEmbed
<1> SUFFICES ASSUME NEW n \in DOMAIN client[c].rows
             PROVE  Embedded(c)[n] = Related(p, raw.embed, client[c].rows[n])
  OBVIOUS
<1> DEFINE x == client[c].rows[n]
<1>2. CASE raw.embed = "none"
  BY <1>2 DEF Embedded, Related, Raw
<1>3. CASE raw.embed = "notes"
  <2>1. x \in Keys(c)
    BY <1>1, <1>3 DEF Keys, Raw, Range
  <2>2. Embedded(c)[n] = {m \in NotesSeen[p] : NoteOf[m] = x /\ NoteOf[m] \in Keys(c)}
    BY <1>3 DEF Embedded, Raw
  <2>3. Related(p, raw.embed, x) = {m \in NotesSeen[p] : NoteOf[m] = x}
    BY <1>3 DEF Related
  <2> QED
    BY <2>1, <2>2, <2>3
<1>4. CASE raw.embed = "docs"
  <2>1. NoteOf[x] \in Keys(c)
    BY <1>1, <1>4 DEF Keys, Raw, Range
  <2>2. Embedded(c)[n] = {i \in Keys(c) : i = NoteOf[x] /\ docs[i] # Absent /\ Sees(p, docs[i])}
    BY <1>4 DEF Embedded, Raw
  <2>3. Related(p, raw.embed, x) = {i \in {NoteOf[x]} : docs[i] # Absent /\ Sees(p, docs[i])}
    BY <1>4 DEF Related
  <2> QED
    BY <2>1, <2>2, <2>3
<1> QED
  BY <1>1, <1>2, <1>3, <1>4

LEMMA Selected ==
  ASSUME DataAssumption, DataInv, NEW c \in Clients, Count(c) \/ SelectPage(c) \/ EmbedSelect(c)
  PROVE  Shape' /\ Beside(c) /\ RequestInv(c)'
<1> DEFINE k == client[c]
<1>1. RequestInv(c) /\ DOMAIN k = Fields
  BY DEF DataInv, Shape
<1>2. /\ k.raw.method = "GET" /\ k.raw \in RawRequests /\ ParseStatus(k.raw) = 0 /\ PlanStatus(k.raw, k.p) = 0
      /\ k.wrote = <<>> /\ k.embeds = <<>> /\ tx.by # c /\ k.pc \in Selecting
  BY <1>1 DEF RequestInv, WayOf, Count, SelectPage, EmbedSelect, At, Selecting, Mutating
<1>3. UNCHANGED <<family, docs, tx>>
  BY DEF Count, SelectPage, EmbedSelect, Respond
<1>4. /\ client'[c].p = k.p /\ client'[c].raw = k.raw /\ client'[c].start = k.start
      /\ client'[c].raced = k.raced /\ client'[c].wrote = k.wrote
      /\ client'[c].pc \in {"page", "embed", "done"}
      /\ client'[c].pc # "done" => client'[c].embeds = k.embeds
      /\ Shape' /\ Beside(c)
  BY <1>1, <1>3, FieldsAre DEF Count, SelectPage, EmbedSelect, Respond, DataInv, Shape, Beside
<1>5. WayOf(c)'
  BY <1>2, <1>3, <1>4 DEF WayOf, Selecting, Mutating
<1>6. CheckedOf(c)'
  BY <1>2, <1>4 DEF CheckedOf
<1>7. Listing(c)' = Listing(c)
  BY <1>4 DEF Listing, Found
<1>8. ~k.raced => k.start = docs /\ (k.raw.table = "docs" => Ordered(c) = Listing(c))
  <2>1. ~k.raced => k.start = docs
    BY <1>1, <1>2 DEF RequestInv, SelectOf, Selecting
  <2> QED
    BY <2>1 DEF Ordered, Listing
<1>9. CASE Count(c)
  <2>1. client'[c].pc = "page" /\ client'[c].total = Len(Ordered(c))
    BY <1>1, <1>9, FieldsAre DEF Count, DataInv, Shape
  <2>2. SelectOf(c)'
    BY <1>2, <1>3, <1>4, <1>7, <1>8, <2>1 DEF SelectOf, Counted
  <2>3. EmbedsOf(c)'
    BY <2>1 DEF EmbedsOf, Answered, At
  <2> QED
    BY <1>4, <1>5, <1>6, <2>2, <2>3 DEF RequestInv
<1>10. CASE SelectPage(c)
  <2> DEFINE page == Page(k.raw)
  <2>1. client'[c].total = k.total /\ k.pc = "page"
    BY <1>1, <1>10, FieldsAre DEF SelectPage, Respond, DataInv, Shape, At
  <2>2. \/ /\ client'[c].pc = "done" /\ client'[c].status = 500
           /\ family # "postgres" /\ page.offset > 0 /\ client'[c].embeds = <<>>
        \/ /\ client'[c].pc = "embed"
           /\ ~k.raced /\ k.raw.table = "docs" => client'[c].rows = Window(c)
    <3>1. CASE family # "postgres" /\ page.limit = MaxSafe /\ page.offset > 0
      BY <1>1, <1>2, <1>10, <3>1, FieldsAre DEF SelectPage, Respond, DataInv, Shape, Raw
    <3>2. CASE ~(family # "postgres" /\ page.limit = MaxSafe /\ page.offset > 0)
      <4> DEFINE ids == Ordered(c)
                 last == IF page.offset + page.limit < Len(ids) THEN page.offset + page.limit
                         ELSE Len(ids)
      <4>1. client'[c].pc = "embed" /\ client'[c].rows = SubSeq(ids, page.offset + 1, last)
        BY <1>1, <1>10, <3>2, FieldsAre DEF SelectPage, DataInv, Shape, Raw
      <4>2. ~k.raced /\ k.raw.table = "docs" => SubSeq(ids, page.offset + 1, last) = Window(c)
        BY <1>8 DEF Window
      <4> QED
        BY <4>1, <4>2
    <3> QED
      BY <3>1, <3>2
  <2>3. Window(c)' = Window(c) /\ Counted(c)' = Counted(c)
    BY <1>4, <1>7, <2>1 DEF Window, Counted
  <2>4. page.offset = k.raw.offset
    BY DEF Page
  <2>5. SelectOf(c)'
    BY <1>1, <1>2, <1>3, <1>4, <1>8, <2>1, <2>2, <2>3, <2>4 DEF SelectOf, RequestInv, Counted
  <2>6. EmbedsOf(c)'
    BY <2>2 DEF EmbedsOf, Answered, At
  <2> QED
    BY <1>4, <1>5, <1>6, <2>5, <2>6 DEF RequestInv
<1>11. CASE EmbedSelect(c)
  <2>1. /\ client'[c].pc = "done" /\ client'[c].embeds = Embedded(c)
        /\ client'[c].status = ShapeSelect(c) /\ client'[c].rows = k.rows /\ client'[c].total = k.total
        /\ k.pc = "embed"
    BY <1>1, <1>11, FieldsAre DEF EmbedSelect, DataInv, Shape, At
  <2>2. Window(c)' = Window(c) /\ Counted(c)' = Counted(c) /\ ShapeSelect(c)' = ShapeSelect(c)
    BY <1>4, <1>7, <2>1 DEF Window, Counted, ShapeSelect, Raw
  <2>3. SelectOf(c)'
    BY <1>1, <1>2, <1>3, <1>4, <2>1, <2>2 DEF SelectOf, RequestInv
  <2>4. EmbedsOf(c)'
    <3>1. \A n \in DOMAIN k.rows : Embedded(c)[n] = Related(k.p, k.raw.embed, k.rows[n])
      BY <1>2, EmbeddedRelated DEF Returns
    <3>2. \A p, e, x : Related(p, e, x)' = Related(p, e, x)
      BY <1>3 DEF Related
    <3> QED
      BY <1>4, <2>1, <3>1, <3>2 DEF EmbedsOf
  <2> QED
    BY <1>4, <1>5, <1>6, <2>3, <2>4 DEF RequestInv
<1> QED
  BY <1>9, <1>10, <1>11

--------------------------------------------------------------------------------
(* Mutations.                                                                 *)

\* A row that is given an id is given that of a doc, with ?columns= or without.
LEMMA GivenIds ==
  ASSUME DataAssumption, NEW raw \in RawRequests, NEW r \in NormalizedRows(raw), "id" \in DOMAIN r
  PROVE  r.id \in Ids
<1>1. CASE raw.columns = {}
  BY <1>1 DEF NormalizedRows, DataAssumption
<1>2. CASE raw.columns # {}
  <2>1. PICK b \in raw.body : r = [c \in DOMAIN b \cap raw.columns |-> b[c]]
    BY <1>2 DEF NormalizedRows
  <2>2. "id" \in DOMAIN b /\ r.id = b.id
    BY <2>1
  <2> QED
    BY <2>2 DEF DataAssumption
<1> QED
  BY <1>1, <1>2

\* What a statement writes is there, unless it deletes.
LEMMA WrittenRows ==
  ASSUME DataAssumption, NEW c \in Clients, client[c].raw \in RawRequests,
         client[c].raw.method \in {"POST", "PATCH"}, StatementError(c) = 0, NEW i \in Targets(c)
  PROVE  /\ i \in Ids /\ DOMAIN After(c)[i] = DocColumns /\ After(c)[i] # Absent
         /\ client[c].raw.method = "PATCH" =>
              i \in Found(c, docs) /\ After(c)[i] = Patched(client[c].raw, docs[i])
         /\ client[c].raw.method = "POST" =>
              \E r \in NormalizedRows(client[c].raw) :
                /\ r.id = i
                /\ After(c)[i] \in {FullRow(client[c].raw, r), Merged(client[c].raw, docs[i], r)}
<1> DEFINE raw == client[c].raw
<1>0. DOMAIN Absent # DocColumns
  BY DEF Absent, DocColumns
<1>1. CASE raw.method = "PATCH"
  <2>1. i \in Found(c, docs) /\ i \in Ids
    BY <1>1 DEF Targets, Raw, Found
  <2>2. After(c)[i] = Patched(raw, docs[i])
    BY <1>1, <2>1 DEF After, Raw
  <2> QED
    BY <1>0, <1>1, <2>1, <2>2 DEF Patched
<1>2. CASE raw.method = "POST"
  <2> DEFINE row == CHOOSE r \in InsertRows(raw) : r.id = i
  <2>1. \A r \in NormalizedRows(raw) : "id" \in DOMAIN r
    BY <1>2 DEF StatementError, Raw
  <2>2. \E r \in InsertRows(raw) : r.id = i
    BY <1>2 DEF Targets, Raw
  <2>3. row \in InsertRows(raw) /\ row.id = i
    BY <2>2
  <2> HIDE DEF row
  <2>4. row \in NormalizedRows(raw)
    BY <2>3 DEF InsertRows
  <2>5. i \in Ids
    BY <2>1, <2>3, <2>4, GivenIds
  <2>6. After(c)[i] = IF docs[i] = Absent THEN FullRow(raw, row) ELSE Merged(raw, docs[i], row)
    BY <1>2, <2>5 DEF After, Raw, row
  <2> QED
    BY <1>0, <1>2, <2>3, <2>4, <2>5, <2>6 DEF FullRow, Merged
<1> QED
  BY <1>1, <1>2

\* What is written passes the check that its candidates have passed, unless its row of the body
\* left a column of the check to a default or to the row it is merged into.
LEMMA WrittenPass ==
  ASSUME DataAssumption, NEW c \in Clients, client[c].raw \in RawRequests,
         client[c].raw.method \in {"POST", "PATCH"}, StatementError(c) = 0, NEW i \in Targets(c),
         \A r \in Candidates(c) : MayLeave(client[c].p, r)
  PROVE  MayLeave(client[c].p, After(c)[i]) \/ CheckedInPart(client[c], i)
<1> DEFINE raw == client[c].raw
           p == client[c].p
<1>1. CASE raw.method = "PATCH"
  <2>1. Patched(raw, docs[i]) \in Candidates(c)
    BY <1>1, WrittenRows DEF Candidates, Raw
  <2> QED
    BY <1>1, <2>1, WrittenRows
<1>2. CASE raw.method = "POST"
  <2>1. PICK r \in NormalizedRows(raw) :
          r.id = i /\ After(c)[i] \in {FullRow(raw, r), Merged(raw, docs[i], r)}
    BY <1>2, WrittenRows
  <2>2. CASE r \in Incomplete(raw)
    BY <1>2, <2>1, <2>2 DEF CheckedInPart
  <2>3. CASE r \notin Incomplete(raw)
    <3>1. MayLeave(p, r) /\ {"owner", "locked"} \subseteq DOMAIN r
      BY <1>2, <2>3 DEF Candidates, Raw, Incomplete
    <3>2. DOMAIN r \subseteq WriteColumns(raw)
      BY DEF WriteColumns
    <3>3. After(c)[i].owner = r.owner /\ After(c)[i].locked = r.locked
      BY <2>1, <3>1, <3>2 DEF FullRow, Merged, DocColumns
    <3>4. DOMAIN After(c)[i] = DocColumns
      BY WrittenRows
    <3> QED
      BY <3>1, <3>3, <3>4 DEF MayLeave, ValueIn, DocColumns
  <2> QED
    BY <2>2, <2>3
<1> QED
  BY <1>1, <1>2

LEMMA ErrorStatus ==
  ASSUME NEW c, client[c].raw.method \in {"POST", "PATCH", "DELETE"}
  PROVE  StatementError(c) \in {0, 400, 409, 500}
<1>1. CASE Raw(c).method = "POST"
  BY <1>1 DEF StatementError
<1>2. CASE Raw(c).method = "DELETE"
  BY <1>2 DEF StatementError
<1>3. CASE Raw(c).method = "PATCH"
  BY <1>3 DEF StatementError
<1> QED
  BY <1>1, <1>2, <1>3 DEF Raw

\* A mutation that ends with an error: its transaction leaves nothing, and without one it is
\* still true of the rows that they passed, or that they were checked in part.
LEMMA Thrown ==
  ASSUME DataAssumption, DataInv, NEW c \in Clients, NEW s \in Nat, s >= 400, Throw(c, s),
         UNCHANGED family, client[c].pc \in Mutating, client[c].pc = "post" => tx.by = c \/ s = 403
  PROVE  Shape' /\ Beside(c) /\ RequestInv(c)'
<1> DEFINE k == client[c]
<1>1. /\ RequestInv(c) /\ DOMAIN k = Fields /\ k.raw.method # "GET" /\ k.raw \in RawRequests
      /\ tx.by = c => family = "sqlite"
  BY DEF DataInv, Shape, RequestInv, WayOf, Mutating, DataAssumption
<1>2. /\ Shape' /\ Beside(c)
      /\ client'[c].pc = "done" /\ client'[c].status = s
      /\ client'[c].raw = k.raw /\ client'[c].p = k.p /\ client'[c].raced = k.raced
      /\ \/ client'[c].wrote = <<>> /\ tx'.by = "none"
         \/ client'[c].wrote = k.wrote /\ tx.by # c /\ UNCHANGED <<docs, tx>>
  <2>1. CASE tx.by = c
    <3>1. /\ tx'.by = "none"
          /\ Wrote(c, [k EXCEPT !.pc = "done", !.status = s, !.wrote = <<>>])
      BY <2>1 DEF Throw
    <3>2. DOMAIN client' = Clients /\ \A d \in Clients \ {c} : client'[d] = [client[d] EXCEPT !.raced = TRUE]
      BY <3>1 DEF Wrote
    <3>3. client'[c] = [k EXCEPT !.pc = "done", !.status = s, !.wrote = <<>>]
      BY <3>1 DEF Wrote
    <3>4. Shape'
      <4>1. DOMAIN client = Clients /\ \A d \in Clients : DOMAIN client[d] = Fields
        BY DEF DataInv, Shape
      <4>2. DOMAIN client'[c] = Fields
        BY <3>3, <4>1
      <4>3. \A d \in Clients \ {c} : DOMAIN client'[d] = Fields
        BY <3>2, <4>1
      <4> QED
        BY <3>2, <4>2, <4>3 DEF Shape
    <3>5. tx.by \in {c, "none"} /\ tx'.by \in {c, "none"} /\ (tx'.by = c => family = "sqlite")
      BY <1>1, <2>1, <3>1
    <3>6. Beside(c)
      BY <3>2, <3>5 DEF Beside
    <3> QED
      BY <1>1, <3>1, <3>3, <3>4, <3>6, FieldsAre
  <2>2. CASE tx.by # c
    BY <1>1, <2>2, FieldsAre DEF Throw, Respond, DataInv, Shape, Beside
  <2> QED
    BY <2>1, <2>2
<1>3. WayOf(c)'
  <2>1. tx'.by # c
    BY <1>2 DEF DataAssumption
  <2> QED
    BY <1>1, <1>2, <2>1 DEF WayOf, Selecting, Mutating
<1>4. CheckedOf(c)'
  <2>1. CASE client'[c].wrote = <<>>
    BY <1>2, <2>1 DEF CheckedOf
  <2>2. CASE client'[c].wrote = k.wrote /\ tx.by # c /\ UNCHANGED <<docs, tx>>
    <3>1. k.pc \notin {"post", "commit"} => k.wrote = <<>>
      BY <1>1 DEF RequestInv, WayOf, Mutating
    <3>2. CASE k.pc = "post"
      <4>1. family = "d1" /\ s = 403
        BY <1>1, <2>2, <3>2 DEF RequestInv, WayOf
      <4>2. \A i : CheckedInPart(k, i) => LeftOnD1(client[c], i)'
        BY <1>2, <4>1 DEF CheckedInPart, LeftOnD1
      <4> QED
        BY <1>1, <1>2, <2>2, <3>2, <4>2 DEF RequestInv, CheckedOf
    <3>3. CASE k.pc = "commit"
      BY <1>1, <1>2, <2>2, <3>3 DEF RequestInv, CheckedOf
    <3> QED
      BY <1>2, <2>2, <3>1, <3>2, <3>3 DEF CheckedOf
  <2> QED
    BY <1>2, <2>1, <2>2
<1>5. SelectOf(c)' /\ EmbedsOf(c)'
  BY <1>1, <1>2 DEF SelectOf, EmbedsOf, Answered, At
<1> QED
  BY <1>2, <1>3, <1>4, <1>5 DEF RequestInv

\* A mutation's own step that writes nothing.
LEMMA MutationGoes ==
  ASSUME DataAssumption, DataInv, NEW c \in Clients, client[c].pc \in Mutating,
         UNCHANGED <<family, docs>>, Shape', Beside(c),
         client'[c].pc \in {"check", "write", "commit", "done"},
         client'[c].raw = client[c].raw, client'[c].p = client[c].p,
         client'[c].raced = client[c].raced, client'[c].wrote = client[c].wrote,
         client'[c].pc = "done" => tx'.by # c,
         client'[c].pc # "done" => client'[c].embeds = client[c].embeds,
         client'[c].pc \in {"check", "write"} => client[c].pc \in {"begin", "check"},
         client'[c].pc = "write" /\ client[c].raw.method \in {"POST", "PATCH"} =>
           \A r \in Candidates(c) : MayLeave(client[c].p, r),
         client'[c].pc \in {"check", "write", "commit"} => family = "d1" \/ tx'.by = c,
         client'[c].pc = "done" => client[c].pc # "post",
         client'[c].pc = "commit" /\ client[c].raw.method \in {"POST", "PATCH"} =>
           client[c].pc = "post" /\ \A i \in DOMAIN client[c].wrote : MayLeave(client[c].p, client[c].wrote[i]),
         EmbedsOf(c)'
  PROVE  RequestInv(c)'
<1>1. RequestInv(c)
  BY DEF DataInv
<1>2. WayOf(c)'
  BY <1>1 DEF RequestInv, WayOf, Selecting, Mutating
<1>3. Candidates(c)' = Candidates(c)
  BY DEF Candidates, Raw, Found
<1>4. CheckedOf(c)'
  <2>1. client[c].pc \notin {"post", "commit"} => client[c].wrote = <<>>
    BY <1>1 DEF RequestInv, WayOf, Mutating
  <2> QED
    BY <1>1, <1>3, <2>1 DEF RequestInv, CheckedOf
<1>5. SelectOf(c)'
  BY <1>1 DEF RequestInv, WayOf, SelectOf
<1> QED
  BY <1>2, <1>4, <1>5 DEF RequestInv

LEMMA Begun ==
  ASSUME DataAssumption, DataInv, NEW c \in Clients, BeginMutation(c)
  PROVE  Shape' /\ Beside(c) /\ RequestInv(c)'
<1> DEFINE k == client[c]
<1>1. RequestInv(c) /\ DOMAIN k = Fields /\ k.pc = "begin" /\ k.pc \in Mutating
  BY DEF DataInv, Shape, BeginMutation, At, Mutating
<1>2. CASE tx.by # "none"
  <2>1. /\ Shape' /\ Beside(c) /\ UNCHANGED <<family, docs, tx>>
        /\ client'[c].pc = "done" /\ client'[c].status = 500 /\ client'[c].raw = k.raw
        /\ client'[c].p = k.p /\ client'[c].raced = k.raced /\ client'[c].wrote = k.wrote
    BY <1>1, <1>2, FieldsAre DEF BeginMutation, Respond, DataInv, Shape, Beside
  <2>2. tx'.by # c
    BY <1>1, <2>1 DEF RequestInv, WayOf
  <2>3. EmbedsOf(c)'
    BY <2>1 DEF EmbedsOf, Answered
  <2> QED
    BY <1>1, <2>1, <2>2, <2>3, MutationGoes
<1>3. CASE tx.by = "none"
  <2>1. /\ Shape' /\ Beside(c) /\ UNCHANGED <<family, docs>> /\ client'[c].embeds = k.embeds
        /\ client'[c].pc = IF k.raw.method = "DELETE" THEN "write" ELSE "check"
        /\ client'[c].raw = k.raw /\ tx'.by = c
        /\ client'[c].p = k.p /\ client'[c].raced = k.raced /\ client'[c].wrote = k.wrote
    BY <1>1, <1>3, FieldsAre DEF BeginMutation, Go, DataInv, Shape, Beside, Raw, RequestInv, WayOf
  <2>2. EmbedsOf(c)'
    BY <2>1 DEF EmbedsOf, Answered, At
  <2> QED
    BY <1>1, <2>1, <2>2, MutationGoes
<1> QED
  BY <1>2, <1>3

LEMMA CheckedBefore ==
  ASSUME DataAssumption, DataInv, NEW c \in Clients, CheckBefore(c)
  PROVE  Shape' /\ Beside(c) /\ RequestInv(c)'
<1> DEFINE k == client[c]
<1>1. DOMAIN k = Fields /\ k.pc = "check" /\ k.pc \in Mutating /\ UNCHANGED family
  BY DEF DataInv, Shape, CheckBefore, At, Mutating
<1>2. CASE \A r \in Candidates(c) : MayLeave(k.p, r)
  <2>1. /\ Shape' /\ Beside(c) /\ UNCHANGED <<family, docs>>
        /\ client'[c].pc = "write" /\ client'[c].raw = k.raw /\ client'[c].embeds = k.embeds
        /\ client'[c].p = k.p /\ client'[c].raced = k.raced /\ client'[c].wrote = k.wrote
    BY <1>1, <1>2, FieldsAre DEF CheckBefore, Go, DataInv, Shape, Beside
  <2>2. EmbedsOf(c)'
    BY <2>1 DEF EmbedsOf, Answered, At
  <2>3. UNCHANGED tx /\ (family = "d1" \/ tx.by = c)
    BY <1>1, <1>2 DEF CheckBefore, DataInv, RequestInv, WayOf
  <2> QED
    BY <1>1, <1>2, <2>1, <2>2, <2>3, MutationGoes
<1>3. CASE ~\A r \in Candidates(c) : MayLeave(k.p, r)
  <2>1. Throw(c, 403) /\ 403 \in Nat /\ 403 >= 400
    BY <1>3 DEF CheckBefore
  <2> QED
    BY <1>1, <2>1, Thrown
<1> QED
  BY <1>2, <1>3

LEMMA CheckedAfter ==
  ASSUME DataAssumption, DataInv, NEW c \in Clients, CheckAfter(c)
  PROVE  Shape' /\ Beside(c) /\ RequestInv(c)'
<1> DEFINE k == client[c]
           passes == Raw(c).method = "DELETE" \/ \A i \in DOMAIN k.wrote : MayLeave(k.p, k.wrote[i])
<1>1. DOMAIN k = Fields /\ k.pc = "post" /\ k.pc \in Mutating /\ UNCHANGED family
  BY DEF DataInv, Shape, CheckAfter, At, Mutating
<1>2. CASE passes
  <2>1. Go(c, "commit") /\ UNCHANGED <<docs, tx>>
    BY <1>2 DEF CheckAfter
  <2>2. /\ Shape' /\ Beside(c) /\ UNCHANGED <<family, docs>>
        /\ client'[c].pc = "commit" /\ client'[c].raw = k.raw /\ client'[c].embeds = k.embeds
        /\ client'[c].p = k.p /\ client'[c].raced = k.raced /\ client'[c].wrote = k.wrote
    BY <1>1, <2>1, FieldsAre DEF Go, DataInv, Shape, Beside
  <2>3. EmbedsOf(c)'
    BY <2>2 DEF EmbedsOf, Answered, At
  <2>4. family = "d1" \/ tx'.by = c
    BY <1>1, <2>1 DEF DataInv, RequestInv, WayOf
  <2> QED
    BY <1>1, <1>2, <2>2, <2>3, <2>4, MutationGoes DEF Raw
<1>3. CASE ~passes
  <2>1. Throw(c, 403) /\ 403 \in Nat /\ 403 >= 400
    BY <1>3 DEF CheckAfter
  <2> QED
    BY <1>1, <2>1, Thrown
<1> QED
  BY <1>2, <1>3

LEMMA Committed ==
  ASSUME DataAssumption, DataInv, NEW c \in Clients, Commit(c)
  PROVE  Shape' /\ Beside(c) /\ RequestInv(c)'
<1> DEFINE k == client[c]
<1>1. /\ RequestInv(c) /\ DOMAIN k = Fields /\ k.pc = "commit" /\ k.pc \in Mutating
      /\ UNCHANGED <<family, docs>> /\ tx'.by = "none" /\ tx.by \in {c, "none"}
  BY DEF DataInv, Shape, Commit, At, Mutating, RequestInv, WayOf
<1>2. /\ Shape' /\ Beside(c)
      /\ client'[c].pc = "done" /\ client'[c].raw = k.raw /\ client'[c].p = k.p
      /\ client'[c].raced = k.raced /\ client'[c].wrote = k.wrote /\ client'[c].rows = k.rows
      /\ client'[c].embeds = IF Returns(k.raw) THEN Embedded(c) ELSE <<>>
  BY <1>1, FieldsAre DEF Commit, DataInv, Shape, Beside, Raw, DataAssumption
<1>3. EmbedsOf(c)'
  <2>1. Returns(k.raw) =>
          \A n \in DOMAIN k.rows : Embedded(c)[n] = Related(k.p, k.raw.embed, k.rows[n])
    BY <1>1, EmbeddedRelated DEF RequestInv, WayOf
  <2>2. \A p, e, x : Related(p, e, x)' = Related(p, e, x)
    BY <1>1 DEF Related
  <2> QED
    BY <1>2, <2>1, <2>2 DEF EmbedsOf
<1>4. tx'.by # c
  BY <1>1 DEF DataAssumption
<1> QED
  BY <1>1, <1>2, <1>3, <1>4, MutationGoes

\* What a mutation writes: its own rows, which have passed unless the table changed meanwhile.
LEMMA Writes ==
  ASSUME DataAssumption, DataInv, NEW c \in Clients, NEW k,
         client[c].pc \in Mutating, docs' = After(c), UNCHANGED <<family, tx>>, Wrote(c, k),
         DOMAIN k = Fields, k.pc \in {"post", "done"}, k.pc = "done" => tx.by # c,
         k.raw = client[c].raw, k.p = client[c].p, k.raced = client[c].raced,
         k.wrote = Written(c), k.embeds = <<>>, StatementError(c) = 0,
         k.pc = "post" => family = "d1" \/ tx.by = c,
         k.raw.method \in {"POST", "PATCH"} /\ ~k.raced =>
           \A i \in Targets(c) :
             MayLeave(k.p, After(c)[i]) \/ (k.pc = "post" /\ CheckedInPart(k, i))
  PROVE  Shape' /\ Beside(c) /\ RequestInv(c)'
<1>1. RequestInv(c) /\ client[c].raw \in RawRequests /\ client[c].raw.method # "GET"
  BY DEF DataInv, RequestInv, WayOf, Mutating
<1>2. client'[c] = k /\ Shape' /\ Beside(c)
  BY DEF Wrote, DataInv, Shape, Beside
<1>3. WayOf(c)'
  BY <1>1, <1>2 DEF RequestInv, WayOf, Selecting, Mutating
<1>4. CheckedOf(c)'
  <2>1. k.raw.method \in {"POST", "PATCH"} =>
          \A i \in DOMAIN k.wrote :
            /\ i \in Targets(c) /\ docs'[i] = After(c)[i] /\ k.wrote[i] = After(c)[i]
            /\ After(c)[i] # Absent
    BY <1>1, WrittenRows DEF Written
  <2> QED
    BY <1>2, <2>1 DEF CheckedOf, CheckedInPart
<1>5. SelectOf(c)' /\ EmbedsOf(c)'
  BY <1>1, <1>2 DEF SelectOf, EmbedsOf
<1> QED
  BY <1>2, <1>3, <1>4, <1>5 DEF RequestInv

LEMMA RowsWritten ==
  ASSUME DataAssumption, DataInv, NEW c \in Clients, WriteRows(c)
  PROVE  Shape' /\ Beside(c) /\ RequestInv(c)'
<1> DEFINE k == [client[c] EXCEPT !.pc = "post", !.wrote = Written(c), !.rows = Sorted("asc", Targets(c))]
<1>1. /\ RequestInv(c) /\ DOMAIN client[c] = Fields /\ client[c].pc = "write"
      /\ client[c].pc \in Mutating /\ UNCHANGED family
  BY DEF DataInv, Shape, WriteRows, At, Mutating
<1>2. client[c].raw.method \in {"POST", "PATCH", "DELETE"} /\ client[c].raw \in RawRequests
  BY <1>1 DEF RequestInv, WayOf, Mutating, DataAssumption
<1>3. CASE StatementError(c) # 0
  <2>1. Throw(c, StatementError(c)) /\ StatementError(c) \in Nat /\ StatementError(c) >= 400
    BY <1>2, <1>3, ErrorStatus DEF WriteRows
  <2> QED
    BY <1>1, <2>1, Thrown
<1>4. CASE StatementError(c) = 0
  <2>1. docs' = After(c) /\ UNCHANGED <<family, tx>> /\ Wrote(c, k)
    BY <1>4 DEF WriteRows
  <2>2. /\ DOMAIN k = Fields /\ k.pc = "post" /\ k.raw = client[c].raw /\ k.p = client[c].p
        /\ k.raced = client[c].raced /\ k.wrote = Written(c) /\ k.embeds = client[c].embeds
    BY <1>1, FieldsAre
  <2>3. client[c].raw.method \in {"POST", "PATCH"} /\ ~client[c].raced =>
          \A i \in Targets(c) : MayLeave(client[c].p, After(c)[i]) \/ CheckedInPart(k, i)
    BY <1>1, <1>2, <1>4, <2>2, WrittenPass DEF RequestInv, CheckedOf, CheckedInPart
  <2>4. client[c].embeds = <<>> /\ (family = "d1" \/ tx.by = c)
    BY <1>1 DEF RequestInv, WayOf
  <2> HIDE DEF k
  <2>5. k.raw.method \in {"POST", "PATCH"} /\ ~k.raced =>
          \A i \in Targets(c) :
            MayLeave(k.p, After(c)[i]) \/ (k.pc = "post" /\ CheckedInPart(k, i))
    BY <2>2, <2>3
  <2> QED
    BY <1>1, <1>4, <2>1, <2>2, <2>4, <2>5, Writes
<1> QED
  BY <1>3, <1>4

LEMMA PgMutated ==
  ASSUME DataAssumption, DataInv, NEW c \in Clients, MutatePg(c)
  PROVE  Shape' /\ Beside(c) /\ RequestInv(c)'
<1> DEFINE k == [client[c] EXCEPT !.pc = "done", !.wrote = Written(c),
                   !.status = ShapeMutation(Raw(c), Cardinality(Targets(c)))]
           p == client[c].p
           refused == \E i \in Targets(c) :
                        \/ After(c)[i] # Absent /\ ~(MayLeave(p, After(c)[i]) /\ Sees(p, After(c)[i]))
                        \/ docs[i] # Absent /\ ~Sees(p, docs[i])
<1>1. /\ RequestInv(c) /\ DOMAIN client[c] = Fields /\ client[c].pc = "pg"
      /\ client[c].pc \in Mutating /\ UNCHANGED <<family, tx>>
  BY DEF DataInv, Shape, MutatePg, At, Mutating
<1>2. /\ client[c].raw.method \in {"POST", "PATCH", "DELETE"} /\ client[c].raw \in RawRequests
      /\ client[c].embeds = <<>> /\ tx.by # c
  BY <1>1 DEF RequestInv, WayOf, Mutating, DataAssumption
<1>3. ASSUME NEW s, s \in Nat, s >= 400, Respond(c, s), UNCHANGED docs
      PROVE  Shape' /\ Beside(c) /\ RequestInv(c)'
  <2>1. /\ Shape' /\ Beside(c)
        /\ client'[c].pc = "done" /\ client'[c].status = s /\ client'[c].raw = client[c].raw
        /\ client'[c].p = p /\ client'[c].raced = client[c].raced /\ client'[c].wrote = client[c].wrote
    BY <1>1, <1>3, FieldsAre DEF Respond, DataInv, Shape, Beside
  <2>2. EmbedsOf(c)'
    BY <1>3, <2>1 DEF EmbedsOf, Answered
  <2> QED
    BY <1>1, <1>2, <1>3, <2>1, <2>2, MutationGoes
<1>4. CASE StatementError(c) # 0
  <2>1. /\ Respond(c, StatementError(c)) /\ UNCHANGED docs
        /\ StatementError(c) \in Nat /\ StatementError(c) >= 400
    BY <1>2, <1>4, ErrorStatus DEF MutatePg
  <2> QED
    BY <1>3, <2>1
<1>5. CASE StatementError(c) = 0 /\ refused
  <2>1. Respond(c, 403) /\ UNCHANGED docs
    BY <1>5 DEF MutatePg
  <2> QED
    BY <1>3, <2>1
<1>6. CASE StatementError(c) = 0 /\ ~refused
  <2>1. docs' = After(c) /\ Wrote(c, k)
    BY <1>6 DEF MutatePg
  <2>2. /\ DOMAIN k = Fields /\ k.pc = "done" /\ k.raw = client[c].raw /\ k.p = client[c].p
        /\ k.raced = client[c].raced /\ k.wrote = Written(c) /\ k.embeds = client[c].embeds
    BY <1>1, FieldsAre
  <2>3. client[c].raw.method \in {"POST", "PATCH"} => \A i \in Targets(c) : MayLeave(p, After(c)[i])
    <3>1. \A i \in Targets(c) : After(c)[i] # Absent => MayLeave(p, After(c)[i])
      BY <1>6
    <3>2. client[c].raw.method \in {"POST", "PATCH"} =>
            \A i \in Targets(c) : DOMAIN After(c)[i] = DocColumns
      BY <1>2, <1>6, WrittenRows
    <3>3. DOMAIN Absent # DocColumns
      BY DEF Absent, DocColumns
    <3> QED
      BY <3>1, <3>2, <3>3
  <2> HIDE DEF k
  <2>4. k.raw.method \in {"POST", "PATCH"} /\ ~k.raced =>
          \A i \in Targets(c) :
            MayLeave(k.p, After(c)[i]) \/ (k.pc = "post" /\ CheckedInPart(k, i))
    BY <2>2, <2>3
  <2> QED
    BY <1>1, <1>2, <1>6, <2>1, <2>2, <2>4, Writes
<1> QED
  BY <1>4, <1>5, <1>6

\* A transaction that fails leaves nothing.
LEMMA Failed ==
  ASSUME DataAssumption, DataInv, NEW c \in Clients, Fail(c)
  PROVE  Shape' /\ Beside(c) /\ RequestInv(c)'
<1>1. client[c].pc \in Mutating
  BY DEF Fail, DataInv, RequestInv, WayOf, Mutating
<1>2. Throw(c, 500) /\ tx.by = c /\ UNCHANGED family /\ 500 \in Nat /\ 500 >= 400
  BY DEF Fail
<1> QED
  BY <1>1, <1>2, Thrown

--------------------------------------------------------------------------------
LEMMA DataStarts == DataAssumption /\ DataInit => DataInv
<1> SUFFICES ASSUME DataAssumption, DataInit PROVE DataInv
  OBVIOUS
<1>1. Shape
  BY DEF DataInit, Shape, Fields
<1>2. ASSUME NEW c \in Clients PROVE RequestInv(c)
  <2>1. /\ client[c].pc = "idle" /\ client[c].wrote = <<>> /\ tx.by = "none"
    BY DEF DataInit, NoRequest
  <2> QED
    BY <2>1 DEF RequestInv, WayOf, CheckedOf, SelectOf, EmbedsOf, Answered, At, DataAssumption,
                Selecting, Mutating
<1> QED
  BY <1>1, <1>2 DEF DataInit, DataInv

LEMMA DataSteps ==
  ASSUME DataAssumption, DataInv, [DataNext]_dataVars
  PROVE  DataInv'
<1>1. ASSUME NEW c \in Clients, Shape' /\ Beside(c) /\ RequestInv(c)' PROVE DataInv'
  <2>1. \A d \in Clients : RequestInv(d)'
    BY <1>1, OthersUndisturbed
  <2> QED
    BY <1>1, <2>1 DEF DataInv, Beside
<1>2. ASSUME NEW c \in Clients, NEW p \in Askers, NEW raw \in RawRequests, Submit(c, p, raw) PROVE DataInv'
  BY <1>1, <1>2, Submitting
<1>3. ASSUME NEW c \in Clients, Count(c) \/ SelectPage(c) \/ EmbedSelect(c) PROVE DataInv'
  BY <1>1, <1>3, Selected
<1>4. ASSUME NEW c \in Clients, BeginMutation(c) \/ CheckBefore(c) \/ WriteRows(c) PROVE DataInv'
  BY <1>1, <1>4, Begun, CheckedBefore, RowsWritten
<1>5. ASSUME NEW c \in Clients, CheckAfter(c) \/ Commit(c) \/ Fail(c) \/ MutatePg(c) PROVE DataInv'
  BY <1>1, <1>5, CheckedAfter, Committed, Failed, PgMutated
<1>6. CASE UNCHANGED dataVars
  <2>1. ASSUME NEW c \in Clients PROVE RequestInv(c)'
    <3>1. RequestInv(c) /\ UNCHANGED <<family, docs, tx, client>>
      BY <1>6 DEF DataInv, dataVars
    <3>2. /\ Candidates(c)' = Candidates(c) /\ Listing(c)' = Listing(c)
          /\ ShapeSelect(c)' = ShapeSelect(c) /\ \A p, e, x : Related(p, e, x)' = Related(p, e, x)
      BY <3>1 DEF Candidates, Listing, Found, ShapeSelect, Raw, Related
    <3>3. Window(c)' = Window(c) /\ Counted(c)' = Counted(c)
      BY <3>1, <3>2 DEF Window, Counted
    <3>4. WayOf(c)' /\ CheckedOf(c)'
      BY <3>1, <3>2 DEF RequestInv, WayOf, CheckedOf, CheckedInPart, LeftOnD1
    <3>5. SelectOf(c)' /\ EmbedsOf(c)'
      BY <3>1, <3>2, <3>3 DEF RequestInv, SelectOf, EmbedsOf, Answered, At
    <3> QED
      BY <3>4, <3>5 DEF RequestInv
  <2> QED
    BY <1>6, <2>1 DEF DataInv, Shape, dataVars
<1> QED
  BY <1>2, <1>3, <1>4, <1>5, <1>6 DEF DataNext

\* For every number of requests and any checks, of rows given in part too: a row that an insert
\* or update leaves behind passes the check of its principal whatever completed it, unless D1 has
\* answered 403 and its row of the body was incomplete (runMutation).
THEOREM DataChecksHold == DataAssumption => (DataSpec => []ChecksHold)
<1> SUFFICES ASSUME DataAssumption PROVE DataSpec => []ChecksHold
  OBVIOUS
<1>1. DataInv => ChecksHold
  BY DEF DataInv, RequestInv, CheckedOf, ChecksHold, At
<1> QED
  BY DataStarts, DataSteps, <1>1, PTL DEF DataSpec

--------------------------------------------------------------------------------
(* Pages.  The order of the keys is strict and total, so a finite set of them *)
(* is listed in one way, and a key's place in the list is the number of keys  *)
(* before it.                                                                 *)

LEMMA KeysOrdered ==
  ASSUME DataAssumption, NEW order
  PROVE  /\ IsFiniteSet(Range(IdOrder))
         /\ \A i \in Range(IdOrder) : ~Precedes(order, i, i)
         /\ \A i, j \in Range(IdOrder) : i # j => Precedes(order, i, j) \/ Precedes(order, j, i)
         /\ \A i, j, h \in Range(IdOrder) :
              Precedes(order, i, j) /\ Precedes(order, j, h) => Precedes(order, i, h)
<1>1. IdOrder \in Seq(STRING) /\ DOMAIN IdOrder = 1..Len(IdOrder) /\ Len(IdOrder) \in Nat
  BY LenProperties DEF DataAssumption
<1>2. IsFiniteSet(Range(IdOrder))
  <2>1. IsFiniteSet(DOMAIN IdOrder)
    BY <1>1, FS_Interval
  <2>2. IdOrder \in Surjection(DOMAIN IdOrder, Range(IdOrder))
    BY <1>1 DEF Surjection, Range
  <2> QED
    BY <2>1, <2>2, FS_Surjection
<1>3. \A i \in Range(IdOrder) : Place(i) \in Int /\ IdOrder[Place(i)] = i
  BY <1>1 DEF Range, Place
<1> QED
  BY <1>2, <1>3 DEF Precedes

Before(order, S, i) == {j \in S : Precedes(order, j, i)}

\* The earlier of two keys has fewer keys before it.
LEMMA FewerBefore ==
  ASSUME DataAssumption, NEW order, NEW S \in SUBSET Range(IdOrder), IsFiniteSet(S),
         NEW i \in S, NEW j \in S, Precedes(order, i, j)
  PROVE  Cardinality(Before(order, S, i)) < Cardinality(Before(order, S, j))
<1>1. Before(order, S, i) \subseteq Before(order, S, j)
  BY KeysOrdered DEF Before
<1>2. i \in Before(order, S, j) /\ i \notin Before(order, S, i)
  BY KeysOrdered DEF Before
<1>3. IsFiniteSet(Before(order, S, j)) /\ IsFiniteSet(Before(order, S, i))
  BY FS_Subset DEF Before
<1> QED
  BY <1>1, <1>2, <1>3, FS_Subset, FS_CardinalityType

\* A list of keys in order is as long as the set, and has each key at its place.
InOrder(order, s) == \A m, n \in DOMAIN s : m < n => Precedes(order, s[m], s[n])

LEMMA SortedExists ==
  ASSUME DataAssumption, NEW order, NEW S \in SUBSET Range(IdOrder)
  PROVE  /\ IsFiniteSet(S) /\ Cardinality(S) \in Nat
         /\ \E s \in [1..Cardinality(S) -> S] : InOrder(order, s)
<1> DEFINE N == Cardinality(S)
           rank(i) == Cardinality(Before(order, S, i))
           f == [i \in S |-> rank(i) + 1]
<1>1. IsFiniteSet(S) /\ N \in Nat
  BY KeysOrdered, FS_Subset, FS_CardinalityType
<1>2. ASSUME NEW i \in S PROVE rank(i) \in Nat /\ rank(i) < N
  <2>1. Before(order, S, i) \in SUBSET S /\ i \notin Before(order, S, i)
    BY KeysOrdered DEF Before
  <2> QED
    BY <1>1, <2>1, FS_Subset, FS_CardinalityType
<1>3. \A i, j \in S : i # j => (Precedes(order, i, j) /\ rank(i) < rank(j)) \/ rank(j) < rank(i)
  BY <1>1, FewerBefore, KeysOrdered
<1> HIDE DEF rank
<1>4. f \in Injection(S, 1..N)
  <2>1. f \in [S -> 1..N]
    BY <1>1, <1>2
  <2>2. \A i, j \in S : f[i] = f[j] => i = j
    BY <1>2, <1>3
  <2> QED
    BY <2>1, <2>2 DEF Injection, IsInjective
<1>5. f \in Surjection(S, 1..N)
  <2>1. IsFiniteSet(1..N) /\ Cardinality(1..N) = N
    <3>1. 1 \in Int /\ N \in Int
      BY <1>1
    <3> QED
      BY <1>1, <3>1, FS_Interval
  <2> HIDE DEF f
  <2> QED
    BY <1>4, <2>1, FS_Injection
<1> DEFINE s == [m \in 1..N |-> CHOOSE i \in S : f[i] = m]
<1>6. s \in [1..N -> S] /\ \A m \in 1..N : f[s[m]] = m
  <2> HIDE DEF f
  <2> QED
    BY <1>5 DEF Surjection
<1>7. ASSUME NEW m \in 1..N, NEW n \in 1..N, m < n PROVE Precedes(order, s[m], s[n])
  <2>1. s[m] \in S /\ s[n] \in S /\ rank(s[m]) + 1 = m /\ rank(s[n]) + 1 = n
    BY <1>6
  <2> HIDE DEF s
  <2> QED
    BY <1>2, <1>3, <1>7, <2>1
<1> QED
  <2>1. InOrder(order, s)
    BY <1>7 DEF InOrder
  <2> HIDE DEF s
  <2> QED
    BY <1>1, <1>6, <2>1

LEMMA SortedIs ==
  ASSUME DataAssumption, NEW order, NEW S \in SUBSET Range(IdOrder)
  PROVE  Sorted(order, S) \in [1..Cardinality(S) -> S] /\ InOrder(order, Sorted(order, S))
  BY SortedExists DEF Sorted, InOrder

\* A list in order names no key twice, so its length is the size of what it lists.
LEMMA ListLength ==
  ASSUME DataAssumption, NEW order, NEW n \in Nat, NEW S \in SUBSET Range(IdOrder),
         NEW s \in [1..n -> S], InOrder(order, s)
  PROVE  /\ \A m, h \in 1..n : s[m] = s[h] => m = h
         /\ IsFiniteSet(Range(s)) /\ Cardinality(Range(s)) = n
<1>1. \A m, h \in 1..n : s[m] = s[h] => m = h
  <2> SUFFICES ASSUME NEW m \in 1..n, NEW h \in 1..n, m < h PROVE s[m] # s[h]
    OBVIOUS
  <2>1. Precedes(order, s[m], s[h]) /\ s[m] \in Range(IdOrder)
    BY DEF InOrder
  <2> QED
    BY <2>1, KeysOrdered
<1>2. s \in Bijection(1..n, Range(s))
  BY <1>1 DEF Bijection, Injection, Surjection, IsInjective, Range
<1>3. IsFiniteSet(1..n) /\ Cardinality(1..n) = n
  <2>1. 1 \in Int /\ n \in Int
    OBVIOUS
  <2> QED
    BY <2>1, FS_Interval
<1> QED
  BY <1>1, <1>2, <1>3, FS_Bijection DEF ExistsBijection

LEMMA SortedPlaces ==
  ASSUME DataAssumption, NEW order, NEW S \in SUBSET Range(IdOrder), NEW n \in Nat,
         n = Cardinality(S), NEW s \in [1..n -> S], InOrder(order, s)
  PROVE  Range(s) = S /\ \A m \in 1..n : Cardinality(Before(order, S, s[m])) = m - 1
<1>1. Range(s) = S
  <2>1. IsFiniteSet(S) /\ Range(s) \in SUBSET S
    BY SortedExists DEF Range
  <2>2. Cardinality(Range(s)) = n
    BY ListLength
  <2> QED
    BY <2>1, <2>2, FS_Subset
<1>2. ASSUME NEW m \in 1..n PROVE Cardinality(Before(order, S, s[m])) = m - 1
  <2> DEFINE t == [h \in 1..(m - 1) |-> s[h]]
  <2>1. t \in [1..(m - 1) -> S] /\ InOrder(order, t) /\ m - 1 \in Nat
    BY DEF InOrder
  <2>2. Range(t) = Before(order, S, s[m])
    <3>1. \A h \in 1..n : Precedes(order, s[h], s[m]) <=> h < m
      <4> TAKE h \in 1..n
      <4>1. h < m => Precedes(order, s[h], s[m])
        BY DEF InOrder
      <4>2. m < h => Precedes(order, s[m], s[h])
        BY DEF InOrder
      <4>3. ~Precedes(order, s[m], s[m])
        BY KeysOrdered
      <4>4. Precedes(order, s[m], s[h]) => ~Precedes(order, s[h], s[m])
        BY KeysOrdered
      <4> QED
        BY <4>1, <4>2, <4>3, <4>4
    <3>2. Range(t) = {s[h] : h \in 1..(m - 1)}
      BY DEF Range
    <3>3. S = {s[h] : h \in 1..n}
      BY <1>1 DEF Range
    <3>4. \A h \in 1..n : h \in 1..(m - 1) <=> h < m
      OBVIOUS
    <3>5. 1..(m - 1) \subseteq 1..n
      OBVIOUS
    <3> HIDE DEF t
    <3>6. Before(order, S, s[m]) = {j \in {s[h] : h \in 1..n} : Precedes(order, j, s[m])}
      BY <3>3 DEF Before
    <3> QED
      BY <3>1, <3>2, <3>4, <3>5, <3>6
  <2> HIDE DEF t
  <2>3. Cardinality(Range(t)) = m - 1
    BY <2>1, ListLength
  <2> QED
    BY <2>2, <2>3
<1> QED
  BY <1>1, <1>2

\* LIMIT and OFFSET cut from the list the keys whose places are in the window.
LEMMA WindowIs ==
  ASSUME DataAssumption, NEW order, NEW S \in SUBSET Range(IdOrder), NEW from \in Nat, NEW limit \in Int
  PROVE  LET s == Sorted(order, S)
             last == IF from + limit < Len(s) THEN from + limit ELSE Len(s)
             rows == SubSeq(s, from + 1, last)
         IN  /\ Len(s) = Cardinality(S) /\ Cardinality(S) \in Nat /\ Len(rows) \in Nat
             /\ Len(rows) = (IF from < last THEN last - from ELSE 0)
             /\ Range(rows) = {i \in S : /\ from <= Cardinality(Before(order, S, i))
                                         /\ Cardinality(Before(order, S, i)) <= (from + limit) - 1}
             /\ Cardinality(Range(rows)) = Len(rows) /\ InOrder(order, rows)
<1> DEFINE s == Sorted(order, S)
           n == Cardinality(S)
           last == IF from + limit < Len(s) THEN from + limit ELSE Len(s)
           rows == SubSeq(s, from + 1, last)
           rank(i) == Cardinality(Before(order, S, i))
<1>1. n \in Nat /\ s \in [1..n -> S] /\ InOrder(order, s)
  BY SortedExists, SortedIs
<1>2. Range(s) = S /\ \A m \in 1..n : rank(s[m]) = m - 1
  BY <1>1, SortedPlaces
<1> HIDE DEF s, n, rank
<1>3. s \in Seq(S) /\ Len(s) = n
  BY <1>1
<1>4. last \in Int /\ last <= n /\ last <= from + limit /\ (last = n \/ last = from + limit)
  BY <1>1, <1>3
<1> HIDE DEF last
<1> DEFINE len == IF from < last THEN last - from ELSE 0
<1>5. /\ len \in Nat /\ rows \in Seq(S) /\ Len(rows) = len /\ rows \in [1..len -> S]
      /\ \A m \in 1..len : from + m \in 1..n /\ rows[m] = s[from + m]
  <2>1. \A m \in (from + 1)..last : s[m] \in S
    BY <1>1, <1>4
  <2>2. from + 1 \in Int /\ last \in Int
    BY <1>4
  <2>3. /\ rows \in Seq(S)
        /\ Len(rows) = IF from + 1 <= last THEN last - (from + 1) + 1 ELSE 0
        /\ \A m \in 1..(last - (from + 1) + 1) : rows[m] = s[(from + 1) + m - 1]
    BY <2>1, <2>2, SubSeqProperties
  <2> HIDE DEF rows
  <2>4. Len(rows) = len /\ len \in Nat
    BY <2>2, <2>3
  <2>5. \A m \in 1..len : from + m \in 1..n /\ m \in 1..(last - (from + 1) + 1) /\ (from + 1) + m - 1 = from + m
    BY <1>1, <1>4, <2>2
  <2>6. rows \in [1..len -> S]
    BY <2>3, <2>4, LenProperties
  <2> QED
    BY <2>3, <2>4, <2>5, <2>6
<1> HIDE DEF rows
<1>6. InOrder(order, rows)
  BY <1>1, <1>5 DEF InOrder
<1>7. Cardinality(Range(rows)) = len
  <2> HIDE DEF len
  <2> QED
    BY <1>5, <1>6, ListLength
<1>8. Range(rows) = {i \in S : from <= rank(i) /\ rank(i) <= (from + limit) - 1}
  <2>1. Range(rows) = {s[from + m] : m \in 1..len}
    BY <1>5 DEF Range
  <2>2. ASSUME NEW m \in 1..len
        PROVE  s[from + m] \in S /\ from <= rank(s[from + m]) /\ rank(s[from + m]) <= (from + limit) - 1
    BY <1>1, <1>2, <1>4, <1>5, <2>2
  <2>3. ASSUME NEW i \in S, from <= rank(i), rank(i) <= (from + limit) - 1
        PROVE  \E m \in 1..len : i = s[from + m]
    <3>1. PICK h \in 1..n : s[h] = i
      BY <1>1, <1>2 DEF Range
    <3>2. rank(i) = h - 1
      BY <1>2, <3>1
    <3>3. h - from \in 1..len /\ from + (h - from) = h
      BY <1>1, <1>4, <2>3, <3>2
    <3> QED
      BY <3>1, <3>3
  <2> QED
    BY <2>1, <2>2, <2>3
<1> QED
  BY <1>1, <1>3, <1>5, <1>6, <1>7, <1>8 DEF rows, last, s, n, rank

LEMMA PageOf ==
  ASSUME DataAssumption, NEW raw \in RawRequests
  PROVE  /\ raw.offset \in Nat /\ Page(raw).offset = raw.offset /\ Page(raw).limit \in Int
         /\ (raw.offset + Page(raw).limit) - 1 =
               IF raw.page = "range" THEN raw.limit ELSE (raw.offset + raw.limit) - 1
         /\ raw.page = "none" => raw.offset = 0 /\ Page(raw).limit = MaxSafe
<1>1. raw.limit \in Nat /\ raw.offset \in Nat /\ (raw.page = "none" => raw.limit = MaxSafe /\ raw.offset = 0)
  BY DEF DataAssumption
<1> QED
  BY <1>1 DEF Page

\* There are not as many keys as there are safe integers.
LEMMA FewKeys ==
  ASSUME DataAssumption, NEW S \in SUBSET Range(IdOrder)
  PROVE  IsFiniteSet(S) /\ Cardinality(S) \in Nat /\ Cardinality(S) <= MaxSafe /\ MaxSafe \in Nat
<1>1. IdOrder \in Seq(STRING) /\ DOMAIN IdOrder = 1..Len(IdOrder) /\ Len(IdOrder) \in Nat
  BY LenProperties DEF DataAssumption
<1>2. IsFiniteSet(DOMAIN IdOrder) /\ Cardinality(DOMAIN IdOrder) = Len(IdOrder)
  <2>1. 1 \in Int /\ Len(IdOrder) \in Int
    BY <1>1
  <2> QED
    BY <1>1, <2>1, FS_Interval
<1>3. IdOrder \in Surjection(DOMAIN IdOrder, Range(IdOrder))
  BY <1>1 DEF Surjection, Range
<1>4. IsFiniteSet(Range(IdOrder)) /\ Cardinality(Range(IdOrder)) <= Len(IdOrder)
  BY <1>2, <1>3, FS_Surjection
<1>5. IsFiniteSet(S) /\ Cardinality(S) <= Cardinality(Range(IdOrder))
  BY <1>4, FS_Subset
<1>6. Cardinality(S) \in Nat /\ Cardinality(Range(IdOrder)) \in Nat
  BY <1>4, <1>5, FS_CardinalityType
<1> QED
  BY <1>1, <1>4, <1>5, <1>6 DEF DataAssumption

LEMMA PageAnswered ==
  ASSUME DataAssumption, DataInv
  PROVE  PageTrue
<1> SUFFICES ASSUME NEW c \in Clients, At(c, "done"), client[c].raw.method = "GET",
                    client[c].raw.table = "docs", ~client[c].raced,
                    ParseStatus(client[c].raw) = 0, PlanStatus(client[c].raw, client[c].p) = 0,
                    ~(client[c].status = 500 /\ family # "postgres" /\ client[c].raw.offset > 0)
             PROVE  LET k == client[c]
                        all == Found(c, k.start)
                        from == k.raw.offset
                        to == IF k.raw.page = "range" THEN k.raw.limit ELSE (from + k.raw.limit) - 1
                        before(i) == Cardinality({j \in all : Precedes(k.raw.order, j, i)})
                        wanted == {i \in all : from <= before(i) /\ before(i) <= to}
                    IN  /\ Range(k.rows) = wanted
                        /\ \A m, n \in DOMAIN k.rows : m < n => Precedes(k.raw.order, k.rows[m], k.rows[n])
                        /\ k.status = 406 => Cardinality(wanted) # 1
                        /\ "exact" \in k.raw.prefer /\ k.status # 406 /\ wanted # {} =>
                             (k.status = 206 <=> Cardinality(wanted) < Cardinality(all))
  BY DEF PageTrue
<1> DEFINE k == client[c]
           all == Found(c, k.start)
           from == k.raw.offset
           to == IF k.raw.page = "range" THEN k.raw.limit ELSE (from + k.raw.limit) - 1
           before(i) == Cardinality({j \in all : Precedes(k.raw.order, j, i)})
           wanted == {i \in all : from <= before(i) /\ before(i) <= to}
           limit == Page(k.raw).limit
           n == Cardinality(all)
           len == Len(k.rows)
           last == IF from + limit < n THEN from + limit ELSE n
<1>1. /\ k.raw \in RawRequests /\ Counted(c) /\ k.rows = Window(c) /\ k.status = ShapeSelect(c)
  BY DEF DataInv, RequestInv, WayOf, SelectOf, At
<1>2. /\ from \in Nat /\ Page(k.raw).offset = from /\ limit \in Int /\ to = (from + limit) - 1
      /\ k.raw.page = "none" => from = 0 /\ limit = MaxSafe
  BY <1>1, PageOf
<1>3. all \in SUBSET Range(IdOrder)
  BY DEF Found, Ids
<1>4. /\ Len(Listing(c)) = n /\ n \in Nat /\ len \in Nat
      /\ len = (IF from < last THEN last - from ELSE 0)
      /\ Range(k.rows) = wanted /\ Cardinality(wanted) = len /\ InOrder(k.raw.order, k.rows)
  <2> DEFINE s == Sorted(k.raw.order, all)
             last2 == IF from + limit < Len(s) THEN from + limit ELSE Len(s)
             rows == SubSeq(s, from + 1, last2)
  <2>1. /\ Len(s) = n /\ n \in Nat /\ Len(rows) \in Nat
        /\ Len(rows) = (IF from < last2 THEN last2 - from ELSE 0)
        /\ Range(rows) = {i \in all : /\ from <= Cardinality(Before(k.raw.order, all, i))
                                      /\ Cardinality(Before(k.raw.order, all, i)) <= (from + limit) - 1}
        /\ Cardinality(Range(rows)) = Len(rows) /\ InOrder(k.raw.order, rows)
    BY <1>2, <1>3, WindowIs
  <2>2. k.rows = rows /\ Listing(c) = s
    BY <1>1, <1>2 DEF Window, Listing
  <2>3. \A i : before(i) = Cardinality(Before(k.raw.order, all, i))
    BY DEF Before
  <2> HIDE DEF rows, s, before, all
  <2> QED
    BY <1>2, <2>1, <2>2, <2>3
<1>5. "exact" \in k.raw.prefer => k.total = n
  BY <1>1, <1>4 DEF Counted
<1>6. k.status \in {200, 206, 406} /\ (k.status = 406 => len # 1)
  BY <1>1 DEF ShapeSelect, Raw
<1>7. k.status # 406 =>
        (k.status = 206 <=> /\ k.raw.page # "none" /\ len > 0
                            /\ from > 0 \/ IF "exact" \in k.raw.prefer THEN from + len < k.total ELSE len >= limit)
  BY <1>1, <1>2 DEF ShapeSelect, Raw, Partial
<1>8. wanted # {} => len > 0
  <2>1. IsFiniteSet(wanted)
    BY <1>3, FewKeys
  <2> HIDE DEF wanted
  <2> QED
    BY <1>4, <2>1, FS_EmptySet
<1>9. k.raw.page = "none" => len = n
  BY <1>2, <1>3, <1>4, FewKeys
<1>10. "exact" \in k.raw.prefer /\ k.status # 406 /\ wanted # {} => (k.status = 206 <=> len < n)
  <2> HIDE DEF wanted, all, n, len, limit, k
  <2> QED
    BY <1>2, <1>4, <1>5, <1>7, <1>8, <1>9
<1> QED
  BY <1>4, <1>6, <1>10 DEF InOrder

\* For every set of keys, of rows and of requests: the page that is answered is the window of all
\* the rows that match and may be seen, in order, and says rightly whether any is missing; with
\* its rows come the related rows the principal may see and no others (runSelect, attachEmbeds,
\* shapeResult).
THEOREM DataAnswersTrue == DataAssumption => (DataSpec => []AnswersTrue)
<1> SUFFICES ASSUME DataAssumption PROVE DataSpec => []AnswersTrue
  OBVIOUS
<1>1. DataInv => EmbedsOwn
  BY DEF DataInv, RequestInv, EmbedsOf, EmbedsOwn
<1>2. DataInv => AnswersTrue
  BY <1>1, PageAnswered DEF AnswersTrue
<1> QED
  BY DataStarts, DataSteps, <1>2, PTL DEF DataSpec

================================================================================
