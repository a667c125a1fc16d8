------------------------------- MODULE SchemaPlan -------------------------------
(******************************************************************************)
(* Reading a schema (packages/schema: parse-pg), planning and applying its    *)
(* migration (diff, plan, rebuild, dialects) and reading the database back    *)
(* (introspect of db-sqlite and db-postgres).  Migration.tla has the journal  *)
(* and the lease; here a plan is applied in one transaction.                  *)
(*                                                                            *)
(* A schema maps its tables to records of columns, primary key and            *)
(* constraints (unique, fk, check and index, each on one column).  Literal    *)
(* defaults are told apart by how they are read back.  Sequences are those of *)
(* the identity columns; generated columns are left out.  What the databases  *)
(* make of a statement is external.                                           *)
(******************************************************************************)
EXTENDS Naturals, FiniteSets

CONSTANTS
  Sources,   \* the DDL of the schemas a developer asks for
  Mappings,  \* rename mappings: sets of <<table, column>> whose drop is mapped
  MaxPlans   \* bound

\* The constraints of the DDL are of four kinds.
PlanAssumption ==
  \A ddl \in Sources : \A t \in DOMAIN ddl : \A k \in ddl[t].cons :
    k.kind \in {"unique", "fk", "check", "index"}

VARIABLES
  dialect,   \* "postgres", "sqlite"
  db,        \* tables, sequences and which of these have an owner, the types of enum columns
  data,      \* the columns that hold values: <<table, column, "written">>, or "cut" where a
             \* cast has rounded or shortened them
  recorded,  \* the schema whose hash the journal holds
  plan,      \* goal, mapping, risk, steps left, status; from: the schema it starts from; insync:
             \* whether the database was as recorded; before, had: db and data to roll back to
  plans      \* how many plans have been made

planVars == <<dialect, db, data, recorded, plan, plans>>

Empty == [t \in {} |-> {}]

--------------------------------------------------------------------------------
(* parsePgSchema(): a column has a type and clauses; a table has columns, the *)
(* columns of its PRIMARY KEY clause, and constraints.                        *)

\* PG_TYPE_MAP, and the enums that were declared.
TypeNames == [int4 |-> "int32", int8 |-> "int64", float8 |-> "float64", text |-> "text", varchar |-> "text",
              timestamptz |-> "timestamptz", date |-> "date", shade |-> "enum"]

Accepted(ddl) == \A t \in DOMAIN ddl : \A c \in DOMAIN ddl[t].cols : ddl[t].cols[c].type \in DOMAIN TypeNames

\* parseColumn: only a clause of its own makes a column NOT NULL.
ParseColumn(col) ==
  [type     |-> TypeNames[col.type],
   nullable |-> col.clauses \cap {"not null", "primary key"} = {},
   def      |-> IF \E d \in {"lit", "quoted", "negative", "identity"} : d \in col.clauses
                THEN CHOOSE d \in {"lit", "quoted", "negative", "identity"} : d \in col.clauses
                ELSE "none"]

Having(table, clause) == {c \in DOMAIN table.cols : clause \in table.cols[c].clauses}

\* readCheck, readForeignKey, addIndex; the constraints of the columns are given names.
ParseCons(table) ==
  table.cons \cup {[kind |-> "unique", name |-> "key", on |-> c, ref |-> "", action |-> ""] :
                   c \in Having(table, "unique")}

ParseTable(table) ==
  [cols |-> [c \in DOMAIN table.cols |-> ParseColumn(table.cols[c])],
   pk   |-> table.key \cup Having(table, "primary key"),
   cons |-> ParseCons(table)]

Parse(ddl) == [t \in DOMAIN ddl |-> ParseTable(ddl[t])]

\* A sequence belongs to the column whose default it is.
Sequences(schema) ==
  UNION {{<<t, c>> : c \in {k \in DOMAIN schema[t].cols : schema[t].cols[k].def = "identity"}} :
         t \in DOMAIN schema}

\* enumTypeStatements: each enum column has a type of its own.
Enums(schema) ==
  UNION {{<<t, c>> : c \in {k \in DOMAIN schema[t].cols : schema[t].cols[k].type = "enum"}} :
         t \in DOMAIN schema}

\* Nothing is there, or only the enum types of tables that were dropped, which nothing drops.
PlanInit ==
  /\ dialect \in {"postgres", "sqlite"}
  /\ \E gone \in {{}} \cup {Enums(Parse(ddl)) : ddl \in {x \in Sources : Accepted(x)}} :
       /\ dialect = "sqlite" => gone = {}
       /\ db = [tables |-> Empty, seqs |-> {}, owned |-> {}, enums |-> gone]
  /\ data = {} /\ recorded = Empty
  /\ plan = [goal |-> Empty, mapping |-> {}, risk |-> "safe", steps |-> {}, status |-> "none",
             from |-> Empty, insync |-> TRUE, before |-> db, had |-> {}]
  /\ plans = 0

--------------------------------------------------------------------------------
(* diffSchemas().                                                             *)

NoCon == [kind |-> "none", name |-> "", on |-> "", ref |-> "", action |-> ""]

Change(k, t, c, con) == [kind |-> k, table |-> t, column |-> c, con |-> con]

\* What diffNamed tells constraints apart by: foreign keys by all they are, others by content.
Key(con) == IF con.kind = "fk" THEN con ELSE [con EXCEPT !.name = ""]

AddOf  == [unique |-> "add-unique", fk |-> "add-foreign-key", check |-> "add-check",
           index |-> "add-index"]
DropOf == [unique |-> "drop-unique", fk |-> "drop-foreign-key", check |-> "drop-check",
           index |-> "drop-index"]

DiffCons(t, x, y) ==
  LET keys(s) == {Key(k) : k \in s}
  IN  {Change(AddOf[k.kind], t, k.on, k) : k \in {i \in y : Key(i) \notin keys(x)}}
      \cup {Change(DropOf[k.kind], t, k.on, k) : k \in {i \in x : Key(i) \notin keys(y)}}

\* Mutant: the primary keys are not compared.
DiffTablePkUnseen(t, x, y) ==
  {Change("add-column", t, c, NoCon) : c \in DOMAIN y.cols \ DOMAIN x.cols}
  \cup {Change("drop-column", t, c, NoCon) : c \in DOMAIN x.cols \ DOMAIN y.cols}
  \cup {Change("alter-column", t, c, NoCon) :
          c \in {k \in DOMAIN x.cols \cap DOMAIN y.cols : x.cols[k] # y.cols[k]}}
  \cup DiffCons(t, x.cons, y.cons)

\* diffTable, diffNamed.
DiffTable(t, x, y) ==
  {Change("add-column", t, c, NoCon) : c \in DOMAIN y.cols \ DOMAIN x.cols}
  \cup {Change("drop-column", t, c, NoCon) : c \in DOMAIN x.cols \ DOMAIN y.cols}
  \cup {Change("alter-column", t, c, NoCon) :
          c \in {k \in DOMAIN x.cols \cap DOMAIN y.cols : x.cols[k] # y.cols[k]}}
  \cup (IF x.pk # y.pk THEN {Change("set-primary-key", t, "", NoCon)} ELSE {})
  \cup DiffCons(t, x.cons, y.cons)

Diff(a, b) ==
  {Change("create-sequence", s[1], s[2], NoCon) : s \in Sequences(b) \ Sequences(a)}
  \cup {Change("drop-sequence", s[1], s[2], NoCon) : s \in Sequences(a) \ Sequences(b)}
  \cup {Change("create-table", t, "", NoCon) : t \in DOMAIN b \ DOMAIN a}
  \cup {Change("drop-table", t, "", NoCon) : t \in DOMAIN a \ DOMAIN b}
  \cup UNION {DiffTable(t, a[t], b[t]) : t \in DOMAIN a \cap DOMAIN b}

\* Mutant: a dropped column is not counted.
DestructiveButColumns ==
  {"drop-sequence", "drop-table", "drop-unique", "drop-check", "drop-index", "rebuild-table"}

Destructive ==
  {"drop-sequence", "drop-table", "drop-column", "drop-unique", "drop-check", "drop-index",
   "rebuild-table"}

--------------------------------------------------------------------------------
(* introspectSqlite(), introspectPostgres().                                  *)

\* parseDefault of each adapter: a literal is read back from the text of the default.
SqliteDefault(def) == IF def = "quoted" THEN "other" ELSE def
PgDefault(def)     == IF def \in {"quoted", "negative"} THEN "other" ELSE def
DefaultRead(def)   == IF dialect = "sqlite" THEN SqliteDefault(def) ELSE PgDefault(def)

\* readTable of each adapter.
SqliteTable(table) ==
  [table EXCEPT !.cols = [c \in DOMAIN @ |-> [@[c] EXCEPT !.def = SqliteDefault(@)]]]
PgTable(table) == [table EXCEPT !.cols = [c \in DOMAIN @ |-> [@[c] EXCEPT !.def = PgDefault(@)]]]

Observed ==
  [t \in DOMAIN db.tables |->
     IF dialect = "sqlite" THEN SqliteTable(db.tables[t]) ELSE PgTable(db.tables[t])]

ObservedSequences == IF dialect = "sqlite" THEN Sequences(Observed) ELSE db.seqs \cap db.owned

InStep == Observed = recorded /\ ObservedSequences = Sequences(recorded)

--------------------------------------------------------------------------------
(* planMigration().                                                           *)

\* CHANGE_PHASE.
Phase(kind) ==
  CASE kind \in {"create-sequence", "drop-sequence"} -> 1
    [] kind \in {"create-table", "drop-table"} -> 2
    [] kind \in {"add-column", "drop-column", "alter-column", "rebuild-table"} -> 3
    [] kind \in {"add-index", "drop-index"} -> 5
    [] OTHER -> 4

\* applyRenames: the drop is left out, the addition kept as it is.
ApplyRenames(changes, mapping) ==
  {ch \in changes : ~(ch.kind \in {"drop-table", "drop-column"} /\ <<ch.table, ch.column>> \in mapping)}

RebuildKinds ==
  {"drop-column", "alter-column", "set-primary-key", "drop-check", "drop-unique",
   "add-foreign-key", "drop-foreign-key"}

RebuiltTables(changes) == {ch.table : ch \in {k \in changes : k.kind \in RebuildKinds}}

\* collapseSqliteRebuilds: one rebuild stands for all changes of the table.
Collapse(changes) ==
  {ch \in changes : ch.table \notin RebuiltTables(changes)
                    \/ ch.kind \in {"create-sequence", "drop-sequence"}}
  \cup {Change("rebuild-table", t, "", NoCon) : t \in RebuiltTables(changes)}

Changes(from, to, mapping) ==
  LET raw == ApplyRenames(Diff(from, to), mapping)
  IN  IF dialect = "sqlite" THEN Collapse(raw) ELSE raw

Risk(changes, allow) ==
  IF \A ch \in changes : ch.kind \notin Destructive THEN "safe"
  ELSE IF allow THEN "destructive-allowed" ELSE "destructive-refused"

\* A plan from the recorded schema; with no steps, nothing is applied and nothing recorded.
MakePlan(to, mapping, allow) ==
  LET changes == Changes(recorded, to, mapping)
      risk    == Risk(changes, allow)
  IN  /\ plan.status # "applying" /\ plans < MaxPlans /\ plans' = plans + 1
      /\ plan' = [goal |-> to, mapping |-> mapping, risk |-> risk,
                  steps |-> IF risk = "destructive-refused" THEN {} ELSE changes,
                  status |-> IF risk = "destructive-refused" THEN "refused"
                             ELSE IF changes = {} \/ to = recorded THEN "noop" ELSE "applying",
                  from |-> recorded, insync |-> InStep, before |-> db, had |-> data]
      /\ UNCHANGED <<dialect, db, data, recorded>>

--------------------------------------------------------------------------------
(* What the statements of a step do to the database.                          *)

Goal(t)   == plan.goal[t]
Present(t)  == t \in DOMAIN db.tables
Filled(t) == \E p \in data : p[1] = t
NotNull(cols, pk) ==
  [c \in DOMAIN cols |-> IF c \in pk THEN [cols[c] EXCEPT !.nullable = FALSE] ELSE cols[c]]

\* createTableStatement; PostgreSQL makes the columns of a primary key NOT NULL.
Created(table) ==
  IF dialect = "postgres" THEN [table EXCEPT !.cols = NotNull(table.cols, table.pk)] ELSE table

\* sqliteRebuildStatements: the new table takes the place of the old one.
Rebuilt(t) == Goal(t)

Named(t, con) == \E k \in db.tables[t].cons : k.kind = con.kind /\ k.name = con.name
RefersTo(t)   == {u \in DOMAIN db.tables \ {t} : \E k \in db.tables[u].cons : k.kind = "fk" /\ k.ref = t}
SetTable(t, table) == [db EXCEPT !.tables[t] = table]
Without(t) == [u \in DOMAIN db.tables \ {t} |-> db.tables[u]]
With(f, x, v) == [y \in DOMAIN f \cup {x} |-> IF y = x THEN v ELSE f[y]]

\* add-column declares neither a default nor labels.
AddedColumn(col) ==
  [type     |-> IF col.type # "enum" THEN col.type
               ELSE IF dialect = "postgres" THEN "text" ELSE "unlabelled",
   nullable |-> col.nullable, def |-> "none"]

\* SQLite: a NOT NULL column without a default becomes a comment.
OnlyComment(ch) ==
  /\ dialect = "sqlite" /\ ch.kind = "add-column"
  /\ LET col == Goal(ch.table).cols[ch.column] IN ~col.nullable /\ col.def = "none"

\* PG_TYPE: a column that becomes an enum is given the type text.
PgType(type) == IF type = "enum" THEN "text" ELSE type

\* The casts PostgreSQL has: to and from text, between numbers, between a day and an instant.
Castable(x, y) ==
  \/ x = y \/ "text" \in {x, y}
  \/ {x, y} \subseteq {"int32", "int64", "float64"} \/ {x, y} \subseteq {"timestamptz", "date"}

\* Those that keep every value they accept; the others round, cut off the time, or forget how
\* a text was written.
Lossless(x, y) ==
  \/ x = y \/ y = "text"
  \/ <<x, y>> \in {<<"int32", "int64">>, <<"int64", "int32">>, <<"int32", "float64">>, <<"date", "timestamptz">>}

\* ALTER COLUMN TYPE refuses a cast there is none of, and comes before DROP DEFAULT: the default
\* of old must be one the new type can be assigned.
NoTypeChange(col, type) ==
  \/ ~Castable(col.type, PgType(type))
  \/ col.type = "text" /\ PgType(type) # "text" /\ col.def \notin {"none", "identity"}

\* alter-column has the type among what is changed.
Retyped(from, to, t, c) == from[t].cols[c].type # to[t].cols[c].type

\* The statement is refused whatever the table holds, or because of what it holds.
Fails(ch) ==
  LET t == ch.table
      c == ch.column
      refs == {k.ref : k \in {i \in Goal(t).cons : i.kind = "fk"}}
  IN  CASE ch.kind = "drop-sequence" ->
             dialect = "postgres" /\ Present(t) /\ c \in DOMAIN db.tables[t].cols
             /\ db.tables[t].cols[c].def = "identity"
        [] ch.kind = "create-table" ->
             \/ Present(t)
             \/ dialect = "postgres" /\ \E u \in refs \ {t} : ~Present(u) \/ db.tables[u].pk = {}
             \/ dialect = "postgres" /\ ~({s \in Sequences(plan.goal) : s[1] = t} \subseteq db.seqs)
             \/ dialect = "postgres" /\ \E e \in db.enums : e \in Enums(plan.goal) /\ e[1] = t
        [] ch.kind = "drop-table" ->
             \/ ~Present(t)
             \/ dialect = "postgres" /\ RefersTo(t) # {}
             \/ dialect = "sqlite" /\ (\E u \in RefersTo(t) : Filled(u))
                /\ \A k \in plan.steps : k.kind # "rebuild-table"
        [] ch.kind = "rebuild-table" ->
             LET new == DOMAIN Goal(t).cols \ DOMAIN db.tables[t].cols
             IN  \/ new \cap DOMAIN recorded[t].cols # {}
                 \/ Filled(t) /\ \E k \in new : ~Goal(t).cols[k].nullable /\ Goal(t).cols[k].def = "none"
        [] ch.kind = "add-column" ->
             /\ ~OnlyComment(ch)
             /\ (c \in DOMAIN db.tables[t].cols) \/ (Filled(t) /\ ~Goal(t).cols[c].nullable)
        [] ch.kind = "drop-column" ->
             c \notin DOMAIN db.tables[t].cols \/ (c \in db.tables[t].pk /\ RefersTo(t) # {})
        [] ch.kind = "alter-column" ->
             \/ c \notin DOMAIN db.tables[t].cols
             \/ c \in db.tables[t].pk /\ Goal(t).cols[c].nullable /\ ~recorded[t].cols[c].nullable
             \/ Goal(t).cols[c].def = "identity" /\ <<t, c>> \notin db.seqs
             \/ Retyped(recorded, plan.goal, t, c) /\ NoTypeChange(db.tables[t].cols[c], Goal(t).cols[c].type)
        [] ch.kind = "set-primary-key" ->
             Goal(t).pk = {} \/ RefersTo(t) # {} \/ ~(Goal(t).pk \subseteq DOMAIN db.tables[t].cols)
        [] ch.kind \in {"add-unique", "add-check", "add-foreign-key", "add-index"} ->
             \/ dialect = "sqlite" /\ ch.kind # "add-index"
             \/ Named(t, ch.con) \/ c \notin DOMAIN db.tables[t].cols
             \/ ch.kind = "add-foreign-key" /\ (~Present(ch.con.ref) \/ db.tables[ch.con.ref].pk = {})
        [] ch.kind \in {"drop-unique", "drop-check", "drop-foreign-key", "drop-index"} ->
             ~Named(t, ch.con) /\ ~(dialect = "sqlite" /\ ch.kind = "drop-index")
        [] OTHER -> FALSE

\* A check or a key of a column need not make sense of another type.
Bound(tables, t, c) ==
  \/ \E k \in tables[t].cons : k.kind \in {"check", "fk"} /\ k.on = c
  \/ c \in tables[t].pk /\ \E u \in DOMAIN tables : \E k \in tables[u].cons : k.kind = "fk" /\ k.ref = t

\* The rows may have nulls, duplicates, or values of no use.
MayFail(ch) ==
  \/ Filled(ch.table) /\ ch.kind \in {"alter-column", "set-primary-key", "add-unique", "add-check",
                                      "add-foreign-key", "rebuild-table"}
  \/ /\ ch.kind = "alter-column" /\ Bound(db.tables, ch.table, ch.column)
     /\ Retyped(recorded, plan.goal, ch.table, ch.column)

AddCon(table, con) == [table EXCEPT !.cons = @ \cup {con}]
DropCon(table, con) == [table EXCEPT !.cons = {k \in @ : ~(k.kind = con.kind /\ k.name = con.name)}]

\* alter-column: the type, the nullability and the default, each only if it changes.
EffectOfAlter(t, c) ==
  LET x == recorded[t].cols[c]
      y == Goal(t).cols[c]
      z == db.tables[t].cols[c]
  IN  [type     |-> IF x.type = y.type THEN z.type ELSE PgType(y.type),
       nullable |-> IF x.nullable = y.nullable THEN z.nullable ELSE y.nullable,
       def      |-> IF x.def = y.def THEN z.def ELSE y.def]

Effect(ch) ==
  LET t == ch.table
      c == ch.column
      table == db.tables[t]
  IN  CASE ch.kind = "create-sequence" ->
             IF dialect = "postgres" THEN [db EXCEPT !.seqs = @ \cup {<<t, c>>}] ELSE db
        [] ch.kind = "drop-sequence" ->
             [db EXCEPT !.seqs = @ \ {<<t, c>>}, !.owned = @ \ {<<t, c>>}]
        [] ch.kind = "create-table" ->
             [db EXCEPT !.tables = With(@, t, Created(Goal(t))),
                        !.enums = @ \cup IF dialect = "postgres" THEN {e \in Enums(plan.goal) : e[1] = t} ELSE {},
                        !.owned = @ \cup {s \in db.seqs : s \in Sequences(plan.goal) /\ s[1] = t}]
        [] ch.kind = "drop-table" ->
             [db EXCEPT !.tables = Without(t), !.seqs = {s \in @ : ~(s[1] = t /\ s \in db.owned)},
                        !.owned = {s \in @ : s[1] # t}]
        [] ch.kind = "rebuild-table" -> SetTable(t, Rebuilt(t))
        [] ch.kind = "add-column" ->
             IF OnlyComment(ch) THEN db
             ELSE SetTable(t, [table EXCEPT !.cols = With(@, c, AddedColumn(Goal(t).cols[c]))])
        [] ch.kind = "drop-column" ->
             [SetTable(t, [cols |-> [k \in DOMAIN table.cols \ {c} |-> table.cols[k]],
                           pk   |-> IF c \in table.pk THEN {} ELSE table.pk,
                           cons |-> {k \in table.cons : k.on # c}])
                EXCEPT !.seqs = {s \in @ : ~(s = <<t, c>> /\ s \in db.owned)}, !.owned = @ \ {<<t, c>>}]
        [] ch.kind = "alter-column" ->
             SetTable(t, [table EXCEPT !.cols = With(@, c, EffectOfAlter(t, c))])
        [] ch.kind = "set-primary-key" ->
             SetTable(t, [table EXCEPT !.pk = Goal(t).pk, !.cols = NotNull(@, Goal(t).pk)])
        [] ch.kind \in {"add-unique", "add-check", "add-index"} ->
             SetTable(t, AddCon(table, ch.con))
        [] ch.kind = "add-foreign-key" ->
             SetTable(t, AddCon(table, [ch.con EXCEPT !.action = "no-action"]))
        [] OTHER -> SetTable(t, DropCon(table, ch.con))

\* The values that are still in the tables.
Kept(d, e) == {p \in d : p[1] \in DOMAIN e.tables /\ p[2] \in DOMAIN e.tables[p[1]].cols}

\* USING col::type may cut the values of its column.
Cuts(ch) ==
  /\ ch.kind = "alter-column" /\ Retyped(recorded, plan.goal, ch.table, ch.column)
  /\ ~Lossless(db.tables[ch.table].cols[ch.column].type, PgType(Goal(ch.table).cols[ch.column].type))

\* What a step makes of the values; a rebuild copies the columns of the recorded schema.
Cast(ch) ==
  IF ch.kind = "rebuild-table" THEN {p \in data : p[1] = ch.table => p[2] \in DOMAIN recorded[p[1]].cols}
  ELSE IF ~Cuts(ch) THEN data
  ELSE {IF p[1] = ch.table /\ p[2] = ch.column THEN <<p[1], p[2], "cut">> ELSE p : p \in data}

\* The transaction is rolled back.
Abort ==
  /\ db' = plan.before /\ data' = plan.had /\ plan' = [plan EXCEPT !.steps = {}, !.status = "failed"]
  /\ UNCHANGED <<dialect, recorded, plans>>

\* The next step: the first phase, and in it the order of the steps' hashes, that is, any.
ApplyStep(ch) ==
  /\ plan.status = "applying" /\ ch \in plan.steps
  /\ \A k \in plan.steps : Phase(ch.kind) <= Phase(k.kind)
  /\ IF Fails(ch) THEN Abort
     ELSE /\ db' = Effect(ch) /\ data' = Kept(Cast(ch), Effect(ch))
          /\ plan' = [plan EXCEPT !.steps = @ \ {ch}]
          /\ UNCHANGED <<dialect, recorded, plans>>

FailOnRows(ch) == plan.status = "applying" /\ ch \in plan.steps /\ MayFail(ch) /\ Abort

Record ==
  /\ plan.status = "applying" /\ plan.steps = {}
  /\ recorded' = plan.goal /\ plan' = [plan EXCEPT !.status = "applied"]
  /\ UNCHANGED <<dialect, db, data, plans>>

\* The application writes rows.
Fill(t) ==
  /\ plan.status # "applying" /\ Present(t) /\ ~Filled(t)
  /\ data' = data \cup {<<t, c, "written">> : c \in DOMAIN db.tables[t].cols}
  /\ UNCHANGED <<dialect, db, recorded, plan, plans>>

PlanNext ==
  \/ \E ddl \in Sources, m \in Mappings, allow \in BOOLEAN : Accepted(ddl) /\ MakePlan(Parse(ddl), m, allow)
  \/ \E ch \in plan.steps : ApplyStep(ch) \/ FailOnRows(ch)
  \/ Record
  \/ \E t \in DOMAIN db.tables : Fill(t)

PlanSpec == PlanInit /\ [][PlanNext]_planVars

--------------------------------------------------------------------------------

\* Every literal of the schema can be read back, and no primary key column is left nullable,
\* which PostgreSQL does not keep.
Readable(schema) ==
  \A t \in DOMAIN schema : \A c \in DOMAIN schema[t].cols :
    LET col == schema[t].cols[c]
    IN  /\ DefaultRead(col.def) = col.def
        /\ dialect = "postgres" => ~(c \in schema[t].pk /\ col.nullable)

\* Changes that are known to be carried out in part: a mapped drop; an added column that has a
\* default, labels or, on SQLite, NOT NULL; a column that is given labels or becomes an identity;
\* a foreign key with an action that is added; a constraint that only changes its name.
InPart(from, to) ==
  LET changes == Changes(from, to, plan.mapping)
      renamed(t) == \E x \in from[t].cons, y \in to[t].cons : x # y /\ Key(x) = Key(y)
  IN  \/ Diff(from, to) # ApplyRenames(Diff(from, to), plan.mapping)
      \/ \E ch \in changes :
           \/ /\ ch.kind = "add-column"
              /\ LET y == to[ch.table].cols[ch.column]
                 IN  y.def # "none" \/ y.type = "enum" \/ (dialect = "sqlite" /\ ~y.nullable)
           \/ /\ ch.kind = "alter-column"
              /\ LET x == from[ch.table].cols[ch.column]
                     y == to[ch.table].cols[ch.column]
                 IN  (x.type # y.type /\ y.type = "enum") \/ (x.def # y.def /\ y.def = "identity")
           \/ ch.kind = "add-foreign-key" /\ ch.con.action # "no-action"
      \/ \E t \in DOMAIN from \cap DOMAIN to :
           renamed(t) /\ Change("rebuild-table", t, "", NoCon) \notin changes

\* Safe changes the databases are known to refuse: SQLite has no ADD CONSTRAINT; PostgreSQL wants a
\* table before the ones that refer to it, a foreign key dropped before one of its name is added,
\* a primary key that is neither empty, nullable nor referred to when it changes, no enum type of
\* the name of one it has; and it changes a type only by a cast it has, if the default of old can
\* be assigned and the checks and keys of the column make sense of the new type.
Refused(from, to) ==
  LET changes == Changes(from, to, plan.mapping)
      refers(t) == {k.ref : k \in {i \in to[t].cons : i.kind = "fk"}}
  IN  \/ dialect = "sqlite" /\ \E ch \in changes : ch.kind \in {"add-unique", "add-check"}
      \/ dialect = "postgres" /\ \E ch \in changes :
           \/ /\ ch.kind = "create-table"
              /\ \E u \in refers(ch.table) \ {ch.table} : Change("create-table", u, "", NoCon) \in changes
           \/ /\ ch.kind = "add-foreign-key"
              /\ \E k \in from[ch.table].cons : k.kind = "fk" /\ k.name = ch.con.name
           \/ /\ ch.kind = "set-primary-key"
              /\ \/ to[ch.table].pk = {}
                 \/ \E t \in DOMAIN from : \E k \in from[t].cons : k.ref = ch.table
                 \/ \E t \in DOMAIN to : \E k \in to[t].cons : k.ref = ch.table
           \/ ch.kind = "create-table" /\ \E e \in plan.before.enums : e \in Enums(to) /\ e[1] = ch.table
           \/ /\ ch.kind = "alter-column" /\ Retyped(from, to, ch.table, ch.column)
              /\ \/ NoTypeChange(from[ch.table].cols[ch.column], to[ch.table].cols[ch.column].type)
                 \/ Bound(from, ch.table, ch.column)

\* "apply, then introspect converges": a plan made for a database that is as recorded leaves it
\* as the goal says, apart from the changes that are carried out in part; and a plan judged safe
\* can be applied, if there are no rows, apart from the changes that are known to be refused.
Converges ==
  plan.insync =>
    /\ plan.status = "applied" /\ Readable(plan.goal) /\ ~InPart(plan.from, plan.goal) => InStep
    /\ plan.status = "failed" /\ plan.risk = "safe" /\ plan.had = {} => Refused(plan.from, plan.goal)

\* The plan gives the column a type that does not hold all the values of the one it had.
Narrowed(t, c) ==
  /\ Change("alter-column", t, c, NoCon) \in Changes(plan.from, plan.goal, plan.mapping)
  /\ Retyped(plan.from, plan.goal, t, c)
  /\ ~Lossless(plan.before.tables[t].cols[c].type, PgType(plan.goal[t].cols[c].type))

\* What the risk "safe" promises: a plan that is applied takes no column of values away, and none
\* of its values but where it narrows their type, which is not among what is destructive.
SafeKeeps ==
  plan.status = "applied" /\ plan.risk = "safe" =>
    \A p \in plan.had : p \in data \/ (Narrowed(p[1], p[2]) /\ <<p[1], p[2], "cut">> \in data)
================================================================================
