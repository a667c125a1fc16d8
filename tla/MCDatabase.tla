------------------------------- MODULE MCDatabase -------------------------------
(******************************************************************************)
(* The instances TLC checks of what lies between a schema and its rows: the   *)
(* policies and the expressions they are compiled to, the Data API and the    *)
(* objects those policies show, the diff and the plan of a schema, the        *)
(* expressions of its checks, the run of a migration, the import and the      *)
(* export of an upgrade, and the conformance lab.  Each is a machine of its   *)
(* own; a behaviour chooses one of them and runs it.  The others rest: those  *)
(* this module extends in an initial state of theirs, those it instantiates   *)
(* switched off.                                                              *)
(******************************************************************************)
EXTENDS Policy, Data, Objects, SchemaPlan, Migration, Upgrade, Export, Integers, Sequences, TLC

VARIABLES
  part,
  expr, ops,                                                    \* PolicyExprs
  ast, depth,                                                   \* SchemaExprs
  task, pair, mode, nature, listed, verdict, walks, reduction   \* Conformance

exprVars        == <<expr, ops>>
checkVars       == <<ast, depth>>
conformanceVars == <<task, pair, mode, nature, listed, verdict, walks, reduction>>

--------------------------------------------------------------------------------
(* Policy: rules over old and new rows, by what their clauses say of each.    *)

Says(o, n) == [old |-> o, new |-> n]
Clauses  == {NoClause, Says("true", "true"), Says("false", "true"), Says("true", "false"),
             Says("null", "null")}
Checks   == {NoClause, Says("true", "true"), Says("false", "false"), Says("null", "null")}

RuleFor(action, role, m, using, check) ==
  [action |-> action, role |-> role, mode |-> m, using |-> using, check |-> check,
   read |-> {"*"}, write |-> {"*"}, immutable |-> {}]

\* Rules with a field list, on a plain update.
FieldRules ==
  {[RuleFor("update", "*", m, Says("true", "true"), Says("true", "true"))
      EXCEPT !.read = w, !.write = w, !.immutable = i] :
     m \in {"permissive", "restrictive"}, w \in {{"*"}, {"a"}}, i \in {{}, {"a"}}}

PolicyRules ==
  {RuleFor("select", r, m, u, NoClause) :
     r \in {"*", "authenticated"}, m \in {"permissive", "restrictive"}, u \in Clauses}
  \cup {RuleFor("insert", "*", m, NoClause, c) : m \in {"permissive", "restrictive"}, c \in Checks}
  \cup {RuleFor("update", "*", m, u, c) : m \in {"permissive", "restrictive"},
          u \in Clauses \ {Says("null", "null")}, c \in Checks}
  \cup {RuleFor("delete", "*", "permissive", u, c) : u, c \in {NoClause, Says("true", "true")}}
  \cup {RuleFor("subscribe", "*", "permissive", Says("true", "true"), NoClause)}
  \cup FieldRules

--------------------------------------------------------------------------------
(* PolicyExprs: comparisons of each kind of column, a pattern, a membership.  *)

Null    == <<"null">>
Str(t)  == <<"str", t>>
Num(n)  == <<"num", n>>
Bool(b) == <<"bool", b>>

Col(c)   == [k |-> "column", c |-> c]
Lit(v)   == [k |-> "literal", v |-> v]
Claim(v) == [k |-> "claim", v |-> v]
Cmp(op, c, r) == [k |-> "compare", op |-> op, l |-> Col(c), r |-> r]

PolicyAtoms ==
  {Cmp("eq", "owner", Claim(Str("a"))), Cmp("eq", "owner", Claim(Null)),
   Cmp("neq", "owner", Lit(Str("b"))), Cmp("is", "owner", Lit(Null)),
   Cmp("in", "owner", [k |-> "list", items |-> {Str("a"), Str("9")}]),
   Cmp("ilike", "owner", Lit(Str("A"))), Cmp("like", "owner", Lit(Str("a"))),
   Cmp("gt", "n", Lit(Num(9))), Cmp("eq", "n", Claim(Num(9))), Cmp("gt", "n", Claim(Num(9))),
   Cmp("gt", "big", Lit(Str("9"))), Cmp("eq", "big", Lit(Num(9))),
   Col("flag"), Cmp("eq", "flag", Lit(Bool(TRUE)))}

PolicyRows == [owner : {Str("a"), Str("A"), Null}, n : {Num(10), Num(9), Null}, big : {Str("10")},
               flag : {Bool(TRUE), Bool(FALSE), Null}]

--------------------------------------------------------------------------------
(* Data: two principals, three primary keys, and requests that read pages,    *)
(* embed, filter, write one row or several, and are refused for each reason.  *)

Doc(i, o, l) == [id |-> i, owner |-> o, locked |-> l]

Docs == {[d1 |-> Doc("d1", "p", "f"), d2 |-> Doc("d2", "q", "f"), d3 |-> [c \in {} |-> "null"]],
         [d1 |-> Doc("d1", "p", "f"), d2 |-> Doc("d2", "p", "f"), d3 |-> Doc("d3", "null", "f")]}

Term(c, op, values, negated) == [col |-> c, op |-> op, vs |-> values, neg |-> negated]

Exact  == [Plain EXCEPT !.prefer = {"exact"}]
First  == [Plain EXCEPT !.filters = {Term("id", "eq", {"d1"}, FALSE)}]
Patch  == [First EXCEPT !.method = "PATCH"]
Post   == [Plain EXCEPT !.method = "POST"]
Delete == [Plain EXCEPT !.method = "DELETE"]

Reads ==
  {Plain, [Exact EXCEPT !.page = "limit", !.limit = 1],
   [Exact EXCEPT !.page = "range", !.limit = 1, !.offset = 1], [Exact EXCEPT !.page = "range", !.limit = 1],
   [Plain EXCEPT !.page = "limit", !.offset = 1, !.order = "desc"],
   [Plain EXCEPT !.select = {"owner"}, !.embed = "notes", !.filters = {Term("owner", "neq", {"q"}, TRUE)}],
   [Plain EXCEPT !.table = "notes", !.embed = "docs"], [First EXCEPT !.object = TRUE],
   [Plain EXCEPT !.select = {"locked"}], [Plain EXCEPT !.filters = {Term("owner", "is", {"null"}, FALSE)}],
   [Plain EXCEPT !.filters = {Term("zz", "eq", {"a"}, FALSE)}]}

Edits ==
  {[Patch EXCEPT !.body = {[locked |-> "t"]}],
   [Patch EXCEPT !.body = {[owner |-> "p"]}, !.prefer = {"representation"}, !.embed = "notes"],
   [Patch EXCEPT !.body = {[owner |-> "q"]}, !.filters = {Term("locked", "eq", {"f"}, FALSE)}],
   Delete, [Delete EXCEPT !.filters = First.filters],
   [Delete EXCEPT !.filters = {Term("id", "in", {"d2", "d3"}, FALSE)}]}

Inserts ==
  {[Post EXCEPT !.body = {Doc("d3", "p", "f")}],
   [Post EXCEPT !.body = {Doc("d2", "p", "f")}, !.prefer = {"merge"}],
   [Post EXCEPT !.body = {Doc("d2", "p", "f"), Doc("d3", "p", "f")},
                !.prefer = {"ignore", "representation"}, !.object = TRUE],
   [Post EXCEPT !.body = {[id |-> "d3", owner |-> "p"]}],
   [Post EXCEPT !.body = {[id |-> "d2", owner |-> "p"], [id |-> "d3", owner |-> "q"]}, !.prefer = {"merge"}],
   [Post EXCEPT !.body = {[id |-> "d3", owner |-> "q"], Doc("d2", "q", "f")},
                !.columns = {"id", "owner", "locked"}, !.prefer = {"default", "merge"}]}

DataRequests == Reads \cup Edits \cup Inserts

DocKeys    == <<"d1", "d2", "d3", "n1", "n2">>
NoteOwner  == [n1 |-> "d1", n2 |-> "d1"]
UsingOf    == [p |-> {"p"}, q |-> {"p", "q"}]
NotesFor   == [p |-> {"n1"}, q |-> {"n1", "n2"}]
\* A check of both columns, and one that says "locked is null or owner = q".
CheckOf    == [p |-> {<<"p", "f">>},
               q |-> {"p", "q", "null", "undefined"} \X {"null", "undefined"} \cup {"q"} \X {"t", "f"}]
NoDeletion == {<<"q", "delete">>}

--------------------------------------------------------------------------------
(* SchemaPlan: a table with a column of each kind and each constraint, one    *)
(* that refers to it, and keys of one, two and no columns.                    *)

Column(type, clauses)      == [type |-> type, clauses |-> clauses]
Table(cols, key, cons)     == [cols |-> cols, key |-> key, cons |-> cons]
Constraint(k, on)          == [kind |-> k, name |-> "x", on |-> on, ref |-> "", action |-> ""]
References(action)         == [kind |-> "fk", name |-> "f", on |-> "r", ref |-> "t", action |-> action]
Keyed == Column("int4", {"primary key"})
Number == Column("int4", {})

ColumnTypes == {Number, Column("int4", {"not null"}), Column("varchar", {"lit"}),
          Column("int4", {"not null", "identity"}), Column("shade", {}), Column("int4", {"negative"}),
          Column("text", {"quoted"}), Column("text", {"unique"}), Column("money", {}),
          Column("float8", {}), Column("timestamptz", {}), Column("date", {})}

Constraints == {{}, {Constraint("unique", "a")}, {Constraint("check", "a")}, {Constraint("index", "a")},
                {Constraint("check", "id")}}

Bare    == Table([id |-> Keyed], {}, {})
TwoKeys == Table([id |-> Column("int4", {"not null"}), a |-> Number], {"id", "a"}, {})

FirstTables  == {Bare, TwoKeys, Table([id |-> Column("int4", {"not null"})], {}, {})}
           \cup {Table([id |-> Keyed, a |-> x], {}, k) : x \in {Number, Column("varchar", {"lit"})}, k \in Constraints}
           \cup {Table([id |-> Keyed, a |-> x], {}, {}) : x \in ColumnTypes}
Referring(cons) == Table([id |-> Keyed, r |-> Number], {}, cons)

Schemas ==
  {[t |-> x] : x \in FirstTables}
  \cup {[t |-> Bare, u |-> Referring(k)] : k \in {{}, {References("no-action")}, {References("cascade")}}}
  \cup {[u |-> Referring({})], [t |-> TwoKeys, u |-> Referring({})]}

RenameMappings == {{}, {<<"t", "a">>}}

--------------------------------------------------------------------------------
(* SchemaExprs: each comparison the parser knows, on each type of column.     *)

Node(k, op, c, values) == [k |-> k, op |-> op, c |-> c, v |-> values]
Op(op, c, value)       == Node("op", op, c, {value})

CheckNodes ==
  {Op("=", "name", Str("a")), Op("=", "name", Str("(")), Op("<>", "name", Str("(")),
   Op("=", "name", Str(")")), Op("=", "name", Null), Op("||", "name", Str("a")),
   Node("like", "~~", "name", {Str("a")}), Node("like", "!~~", "name", {Str("a")}),
   Node("ilike", "~~*", "name", {Str("a")}), Node("null", "", "name", {}), Node("null", "not", "name", {}),
   Node("in", "=", "name", {Str("a"), Str("b")}), Node("in", "<>", "name", {Str("a"), Str("b")}),
   Node("in", "=", "name", {Str("a")}), Node("in", "=", "flag", {Bool(TRUE), Bool(FALSE)}),
   Op(">", "n", Num(0)), Op("=", "n", Num(-1)), Op("=", "n", Bool(TRUE)), Op("=", "big", Num(9)),
   Op(">", "amt", Num(1)), Node("cast", "=", "n", {Bool(TRUE)}), Node("column", "", "flag", {}),
   Node("bool", "is true", "flag", {}), Node("bool", "is not false", "flag", {}),
   Op("=", "flag", Bool(TRUE)), Op("=", "flag", Num(1))}

CheckedRows == [name : {Str("a"), Str("("), Null}, n : {Num(-1), Num(2)}, big : {Num(9)},
                flag : {Bool(TRUE), Null}, amt : {Num(2)}]

--------------------------------------------------------------------------------
(* Conformance: small JSON values, and walks that meet up to three uuids or   *)
(* instants.                                                                  *)

Nil      == [t |-> "null"]
Text(s)  == [t |-> "str", s |-> s]
Arr(q)   == [t |-> "arr", items |-> q]
Obj(f)   == [t |-> "obj", fields |-> f]
NoFields == [k \in {} |-> Nil]

Leaves == {Nil, Text("x"), Text("y")}

Trees ==
  Leaves \cup {Arr(<<>>), Arr(<<Nil>>), Obj(NoFields), Obj([a |-> Nil]), Obj([a |-> Text("x")])}
  \cup {Arr(<<v>>) : v \in Leaves} \cup {Arr(<<Text("x"), v>>) : v \in Leaves} \cup {Arr(<<Text("y"), Text("x")>>)}
  \cup {Obj([a |-> v, b |-> w]) : v \in {Nil, Text("x")}, w \in {Nil, Text("y"), Arr(<<Nil>>), Arr(<<>>)}}
  \cup {Obj([b |-> Obj([a |-> Text("x")])]), Arr(<<Text("y"), Nil, Text("x")>>),
        Arr(<<Obj([a |-> Nil]), Text("x")>>)}

\* Of one kind three, or of both kinds two.
Walks == UNION {[1..n -> [kind : {"uuid"}, id : {1, 2, 3}]] \cup [1..n -> [kind : {"uuid", "ts"}, id : {1, 2}]] :
                  n \in 0..3}

--------------------------------------------------------------------------------
(* Objects: storage policies of nothing, one's own objects, one path, or all. *)

ReadRule(r, c)  == [action |-> "read", role |-> r, clause |-> c]
WriteRule(r, c) == [action |-> "write", role |-> r, clause |-> c]
PolicySets  == {{}, {ReadRule("authenticated", "own"), WriteRule("*", "true")},
                {ReadRule("authenticated", "true"), WriteRule("authenticated", "own")},
                {ReadRule("*", "own"), ReadRule("*", "b"), WriteRule("*", "a")}}

ObjectNames == <<"a", "b">>
Prefixes    == "" :> {"a", "b"} @@ "a" :> {"a"}

--------------------------------------------------------------------------------
(* Migration: a plan that creates, and one that rebuilds.                     *)

Plan == <<"create", "rebuild">>

--------------------------------------------------------------------------------
(* Upgrade: a bundle with something of every kind.                            *)

Bundle == [tables |-> 2, indexes |-> 1, users |-> 2, rows |-> 2, policies |-> 1, objects |-> 2]

--------------------------------------------------------------------------------
X == INSTANCE PolicyExprs WITH Atoms <- PolicyAtoms, TestRows <- PolicyRows, MaxOps <- 2
C == INSTANCE SchemaExprs WITH Nodes <- CheckNodes, CheckRows <- CheckedRows, MaxDepth <- 2
L == INSTANCE Conformance WITH Hidden <- "a", Ops <- {1, 2, 3}, Setup <- {1, 2}, Rows <- 2

ASSUME PolicyAssumption /\ DataAssumption /\ ObjectsAssumption
ASSUME PlanAssumption /\ MigrationAssumption /\ UpgradeAssumption /\ ExportAssumption

--------------------------------------------------------------------------------
Off == "off"

ExprsOff       == expr = Off /\ ops = Off
ChecksOff      == ast = Off /\ depth = Off
ConformanceOff == /\ task = Off /\ pair = Off /\ mode = Off /\ nature = Off /\ listed = Off
                  /\ verdict = Off /\ walks = Off /\ reduction = Off

Init ==
  /\ part \in {"policy", "exprs", "data", "plan", "checks", "migration", "upgrade", "export",
               "conformance", "objects"}
  /\ IF part = "exprs"       THEN X!ExprInit        ELSE ExprsOff
  /\ IF part = "checks"      THEN C!CheckInit       ELSE ChecksOff
  /\ PolicyInit
  /\ DataInit /\ (part # "data" => family = "d1" /\ docs = CHOOSE d \in Docs : TRUE)
  /\ ObjectsInit /\ (part # "objects" => grants = {} /\ ~public)
  /\ PlanInit /\ (part # "plan" => dialect = "sqlite")
  /\ MigInit /\ (part # "migration" => adapter = "callback" /\ ~dangling)
  /\ UpInit  /\ (part # "upgrade" => arrived.tables = 0 /\ others = 0 /\ lastValue = 1)
  /\ ExportInit /\ (part # "export" => refers = [t \in Tables |-> {}])
  /\ IF part = "conformance" THEN L!ConformanceInit ELSE ConformanceOff

\* The machines other than one, as they are.
Keep(p) ==
  /\ part = p /\ UNCHANGED part
  /\ IF p = "policy"      THEN TRUE ELSE UNCHANGED policyVars
  /\ IF p = "exprs"       THEN TRUE ELSE UNCHANGED exprVars
  /\ IF p = "data"        THEN TRUE ELSE UNCHANGED dataVars
  /\ IF p = "plan"        THEN TRUE ELSE UNCHANGED planVars
  /\ IF p = "checks"      THEN TRUE ELSE UNCHANGED checkVars
  /\ IF p = "migration"   THEN TRUE ELSE UNCHANGED migVars
  /\ IF p = "upgrade"     THEN TRUE ELSE UNCHANGED upVars
  /\ IF p = "export"      THEN TRUE ELSE UNCHANGED exportVars
  /\ IF p = "conformance" THEN TRUE ELSE UNCHANGED conformanceVars
  /\ IF p = "objects"     THEN TRUE ELSE UNCHANGED objectVars

Next ==
  \/ Keep("policy")      /\ PolicyNext
  \/ Keep("exprs")       /\ X!Connect
  \/ Keep("data")        /\ DataNext
  \/ Keep("plan")        /\ PlanNext
  \/ Keep("checks")      /\ C!Extend
  \/ Keep("migration")   /\ MigNext
  \/ Keep("upgrade")     /\ UpNext
  \/ Keep("export")      /\ ExportNext
  \/ Keep("conformance") /\ L!ConformanceNext
  \/ Keep("objects")     /\ ObjectsNext

Symmetry == Permutations(Clients)

--------------------------------------------------------------------------------
\* The evaluators of a policy's expression agree.
EvaluatorsAgree == part = "exprs" => X!EvaluatorsAgree

\* A check that is accepted keeps its meaning.
CheckKept == part = "checks" => C!CheckKept

\* The lab's verdicts, normal forms and reductions can be relied on.
LabVerdicts == part = "conformance" => L!LabVerdicts
================================================================================
