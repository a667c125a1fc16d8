-------------------------------- MODULE Management -------------------------------
(******************************************************************************)
(* The Management API (packages/management): its routes, database/query and   *)
(* database/migrations, and the MCP tools that call them.                     *)
(*                                                                            *)
(* Transactions are the adapters' (Adapter): on SQLite and D1 a second one is *)
(* refused, on D1 each statement commits by itself; PGlite makes it wait; on  *)
(* Postgres they run side by side, and an INSERT of a version another one has *)
(* inserted waits for its end.  Of the four only Postgres knows a transaction *)
(* that is read only.  A statement is known by the request that brings it; it *)
(* does not end the transaction it runs in.                                   *)
(******************************************************************************)
EXTENDS Naturals, FiniteSets

CONSTANTS
  Admins,  \* concurrent requests
  MaxClock  \* bound: seconds

ManagementAssumption == MaxClock \in Nat

VARIABLES
  dialect,   \* "postgres", "pglite", "sqlite" or "d1"
  second,    \* the clock, as versions show it
  journal,   \* whether the table of migrations is there
  recorded,  \* rows of migrations: version and the request that made it
  effects,   \* requests whose statement is in effect
  calls,     \* the local state of each request
  answered   \* history: requests answered 201

managementVars == <<dialect, second, journal, recorded, effects, calls, answered>>

\* What a body holds: a statement that reads, one that writes with a word of the list WRITE_OR_DDL,
\* one that writes without (WITH ... REPLACE INTO on SQLite, SELECT ... INTO or a function on
\* PostgreSQL), or none or several.
Statements == {"reads", "listed", "unlisted", "several"}

Calm == [pc |-> "idle", query |-> FALSE, readOnly |-> FALSE, statement |-> "reads", version |-> 0,
         done |-> {}]

ManagementInit ==
  /\ dialect \in {"postgres", "pglite", "sqlite", "d1"} /\ second = 0 /\ journal = FALSE
  /\ recorded = {} /\ effects = {} /\ answered = {}
  /\ calls = [c \in Admins |-> Calm]

--------------------------------------------------------------------------------
(* routes.ts and mcp.ts.                                                      *)

\* v1(): the route of a method and the segments after the project.
RouteOf(method, sub) ==
  CASE method = "GET" /\ sub \in {"project", "api-keys", "migrations", "typescript"} -> "read"
    [] method = "POST" /\ sub = "query" -> "query"
    [] method = "POST" /\ sub = "migrations" -> "apply"
    [] OTHER -> "not found"

\* runTool(): the method and the segments each tool asks for.
Tool(name) ==
  CASE name = "get_project"     -> [method |-> "GET", sub |-> "project"]
    [] name = "list_migrations" -> [method |-> "GET", sub |-> "migrations"]
    [] name = "generate_typescript_types" -> [method |-> "GET", sub |-> "typescript"]
    [] name = "execute_sql"     -> [method |-> "POST", sub |-> "query"]
    [] name = "apply_migration" -> [method |-> "POST", sub |-> "migrations"]

Tools == {"get_project", "list_migrations", "generate_typescript_types", "execute_sql",
          "apply_migration"}

\* handle(): a tool that is not in the list is an error of its own.
Offered == {RouteOf(Tool(n).method, Tool(n).sub) : n \in Tools}

\* What validateManagementQuery() lets through: one statement, and when it is to read only, one
\* without a word of the list.
Admitted(readOnly, statement) == statement # "several" /\ ~(readOnly /\ statement = "listed")

CallAt(c, l)     == calls[c].pc = l
CallGoesOn(c, l) == calls' = [calls EXCEPT ![c].pc = l]

\* The token and the project are right; database/query is enabled and the peer is local.
TakeRequest(c) ==
  \E route \in Offered \cap {"query", "apply"}, readOnly \in BOOLEAN, statement \in Statements :
    /\ CallAt(c, "idle") /\ c \notin effects
    /\ route = "apply" => ~readOnly
    /\ route = "query" => Admitted(readOnly, statement)
    /\ calls' = [calls EXCEPT ![c] =
         [Calm EXCEPT !.pc = IF route = "query" THEN "begin" ELSE "ensure", !.query = route = "query",
                      !.readOnly = readOnly, !.statement = statement]]
    /\ UNCHANGED <<dialect, second, journal, recorded, effects, answered>>

--------------------------------------------------------------------------------
(* applyMigration(): the table, the version, the validation, then one         *)
(* transaction with the statement and the row; executeManagementQuery(): one  *)
(* transaction with the statement, which on Postgres may run out of time.  A  *)
(* migration that is refused may be sent again.                               *)

EnsureMigrationTable(c) ==
  /\ CallAt(c, "ensure") /\ CallGoesOn(c, "version") /\ journal' = TRUE
  /\ UNCHANGED <<dialect, second, recorded, effects, answered>>

Rolled(c) == calls' = [calls EXCEPT ![c] = Calm]

\* The version is the second, and the body is looked at.
TakeVersion(c) ==
  /\ CallAt(c, "version")
  /\ IF Admitted(FALSE, calls[c].statement)
     THEN calls' = [calls EXCEPT ![c].pc = "begin", ![c].version = second]
     ELSE Rolled(c)
  /\ UNCHANGED <<dialect, second, journal, recorded, effects, answered>>

InTx(c) == calls[c].pc \in {"run", "record", "commit"}

\* On SQLite and D1 it is refused while any request has a transaction open, one of these or another.
BeginMigration(c) ==
  /\ CallAt(c, "begin")
  /\ \/ dialect \in {"sqlite", "d1"} /\ Rolled(c)
     \/ (dialect # "postgres" => \A d \in Admins : ~InTx(d)) /\ CallGoesOn(c, "run")
  /\ UNCHANGED <<dialect, second, journal, recorded, effects, answered>>

\* Mutant: the statement runs before the transaction.
ExecuteOutside(c) ==
  /\ CallAt(c, "run") /\ effects' = effects \cup {c}
  /\ CallGoesOn(c, IF calls[c].query THEN "commit" ELSE "record")
  /\ UNCHANGED <<dialect, second, journal, recorded, answered>>

\* The statement, within the transaction: a write that it refuses, because it is read only, fails.
ExecuteStatements(c) ==
  LET writes == calls[c].statement # "reads"
      done   == IF calls[c].query /\ ~writes THEN {} ELSE {c}
  IN  /\ CallAt(c, "run")
      /\ ~(dialect = "postgres" /\ calls[c].readOnly /\ writes)
      /\ calls' = [calls EXCEPT ![c].pc = IF calls[c].query THEN "commit" ELSE "record", ![c].done = done]
      /\ effects' = IF dialect = "d1" THEN effects \cup done ELSE effects
      /\ UNCHANGED <<dialect, second, journal, recorded, answered>>

\* The statement fails or runs out of time, or the INSERT of the version fails: rolled back, and 500.
Fail(c) ==
  /\ calls[c].pc \in {"run", "record"} /\ Rolled(c)
  /\ UNCHANGED <<dialect, second, journal, recorded, effects, answered>>

\* INSERT of the version.
Row(c) == [version |-> calls[c].version, by |-> c]

Record(c) ==
  /\ CallAt(c, "record")
  /\ \A d \in Admins : CallAt(d, "commit") /\ ~calls[d].query => calls[d].version # calls[c].version
  /\ LET taken == \E r \in recorded : r.version = calls[c].version
     IN  /\ IF taken THEN Rolled(c) ELSE CallGoesOn(c, "commit")
         /\ recorded' = IF dialect = "d1" /\ ~taken THEN recorded \cup {Row(c)} ELSE recorded
  /\ UNCHANGED <<dialect, second, journal, effects, answered>>

CommitStatements(c) ==
  /\ CallAt(c, "commit") /\ CallGoesOn(c, "answer")
  /\ effects' = effects \cup calls[c].done
  /\ recorded' = IF calls[c].query THEN recorded ELSE recorded \cup {Row(c)}
  /\ UNCHANGED <<dialect, second, journal, answered>>

AnswerCall(c) ==
  /\ CallAt(c, "answer") /\ answered' = answered \cup {c}
  /\ CallGoesOn(c, "done")
  /\ UNCHANGED <<dialect, second, journal, recorded, effects>>

\* The process or the connection goes: what is not committed is rolled back.
Lose(c) ==
  /\ calls[c].pc \notin {"idle", "done"} /\ CallGoesOn(c, "done")
  /\ UNCHANGED <<dialect, second, journal, recorded, effects, answered>>

Second ==
  /\ second < MaxClock /\ second' = second + 1
  /\ UNCHANGED <<dialect, journal, recorded, effects, calls, answered>>

ManagementNext ==
  \/ Second
  \/ \E c \in Admins :
       \/ TakeRequest(c) \/ EnsureMigrationTable(c) \/ TakeVersion(c) \/ BeginMigration(c)
       \/ ExecuteStatements(c) \/ Fail(c) \/ Record(c) \/ CommitStatements(c)
       \/ AnswerCall(c) \/ Lose(c)

ManagementSpec == ManagementInit /\ [][ManagementNext]_managementVars

--------------------------------------------------------------------------------
\* Whatever fails, dies or runs in the same second, a migration is in effect exactly when it is
\* recorded (on D1, if it is recorded: a request that stops in between leaves it unrecorded), no
\* version names two of them, and one that was answered 201 is in effect; a query that was refused
\* or failed leaves nothing (but on D1), and one that was to read only leaves nothing on Postgres.
\* On the others its transaction is not read only, and a statement that writes without a word of
\* the list is carried out (migrations.ts, query.ts).
RecordedIffApplied ==
  LET migrations == {c \in Admins : ~calls[c].query}
      named      == {r.by : r \in recorded}
  IN  /\ named \subseteq effects
      /\ dialect # "d1" => effects \cap migrations \subseteq named
      /\ \A r, s \in recorded : r.version = s.version => r = s
      /\ \A c \in answered : c \in effects \/ calls[c].statement = "reads"
      /\ \A c \in effects \ migrations :
           /\ calls[c].statement # "reads"
           /\ calls[c].readOnly => dialect # "postgres" /\ calls[c].statement = "unlisted"
================================================================================
