---------------------------------- MODULE Data ----------------------------------
(******************************************************************************)
(* Requests of the Data API (packages/data): the URL, headers and body are    *)
(* parsed into an operation, a plan is made of it under the policies, the     *)
(* plan is executed statement by statement, and the outcome becomes a         *)
(* response.                                                                  *)
(*                                                                            *)
(* Two tables: docs, and notes, each of which references a doc.  A row is a   *)
(* function of the columns; every value is a word.  The statements' SQL       *)
(* semantics is external.                                                     *)
(******************************************************************************)
EXTENDS Integers, Sequences, FiniteSets, Functions, ThreeValued

CONSTANTS
  Clients,    \* requests in flight; on D1 each has an isolate, and an adapter, of its own
  Askers,     \* principals
  IdOrder,    \* the primary keys of both tables, in ascending order
  NoteOf,     \* notes: the doc each note belongs to
  InitDocs,   \* tables to begin with
  RawRequests, \* raw requests; those that write, write docs
  Using,      \* select, update and delete: the owners whose docs a principal sees
  NotesSeen,  \* the notes a principal sees
  Check,      \* insert and update: the <<owner, locked>> the check of a principal accepts
  Ungranted,  \* pairs of a principal and an action no permissive rule grants
  ReadableColumns, WritableColumns,  \* columns of docs
  MaxSafe,    \* Number.MAX_SAFE_INTEGER
  MaxRequests \* bound

Ids == Range(IdOrder) \ DOMAIN NoteOf

\* Keys are distinct and fewer than MaxSafe; every note is a row, of a doc; limits are
\* not negative, and missing ones are MaxSafe and 0; a row that is written names a doc.
DataAssumption ==
  /\ IdOrder \in Seq(STRING) /\ \A m, n \in DOMAIN IdOrder : IdOrder[m] = IdOrder[n] => m = n
  /\ MaxSafe \in Nat /\ Len(IdOrder) <= MaxSafe
  /\ DOMAIN NoteOf \subseteq Range(IdOrder) /\ \A p \in Askers : NotesSeen[p] \subseteq DOMAIN NoteOf
  /\ \A raw \in RawRequests :
       /\ raw.method \in {"GET", "POST", "PATCH", "DELETE"} /\ raw.limit \in Nat /\ raw.offset \in Nat
       /\ raw.page = "none" => raw.limit = MaxSafe /\ raw.offset = 0
       /\ \A r \in raw.body : "id" \in DOMAIN r => r.id \in Ids
  /\ "none" \notin Clients

VARIABLES
  family,  \* "postgres", "sqlite" (one connection, interactive), "d1"
  docs,    \* by primary key
  tx,      \* sqlite: the client whose transaction is open, and the table to roll back to
  client,  \* the local state of each request
  served   \* how many requests have been made

dataVars == <<family, docs, tx, client, served>>

DocColumns == {"id", "owner", "locked"}
Absent  == [c \in {} |-> "null"]
Default == [id |-> "null", owner |-> "null", locked |-> "f"]

\* A request with nothing special to it.
Plain ==
  [method |-> "GET", table |-> "docs", profile |-> "public", prefer |-> {}, filters |-> {},
   order |-> "asc", page |-> "none", limit |-> MaxSafe, offset |-> 0, select |-> {"*"},
   embed |-> "none", object |-> FALSE, body |-> {}, columns |-> {}]

NoRequest == [pc |-> "idle", p |-> "none", raw |-> Plain, start |-> Absent, raced |-> FALSE,
              total |-> 0, rows |-> <<>>, embeds |-> <<>>, wrote |-> <<>>, status |-> 0]

DataInit ==
  /\ family \in {"postgres", "sqlite", "d1"} /\ docs \in InitDocs
  /\ tx = [by |-> "none", before |-> Absent]
  /\ client = [c \in Clients |-> NoRequest] /\ served = 0

--------------------------------------------------------------------------------
(* parseRequest().                                                            *)

ActionOf == [GET |-> "select", POST |-> "insert", PATCH |-> "update", DELETE |-> "delete"]

\* buildCompare, coerce: a column, an operator of the subset, values (vs) of the column's type.
ValidTerm(t) ==
  /\ t.col \in DocColumns /\ t.op \in {"eq", "neq", "in", "is"}
  /\ t.op = "is" => t.vs = {"null"}
  /\ t.col = "locked" /\ t.op # "is" => t.vs \subseteq {"t", "f"}

\* Bulk rows have the same keys, unless ?columns= fixes them.
NormalizedRows(raw) ==
  IF raw.columns = {} THEN raw.body
  ELSE {[c \in DOMAIN r \cap raw.columns |-> r[c]] : r \in raw.body}

ValidBody(raw) ==
  CASE raw.method = "POST"  -> /\ raw.body # {}
                               /\ raw.columns = {} => \A r, s \in raw.body : DOMAIN r = DOMAIN s
    [] raw.method = "PATCH" -> Cardinality(raw.body) = 1
    [] OTHER -> TRUE

\* parseSelect: columns, and the embeds of one level.
ValidSelect(raw) == raw.embed # "nested"

\* parsePrefer refuses what it does not know.
Tokens == {"representation", "exact", "merge", "ignore", "default"}

ParseStatus(raw) ==
  IF raw.profile # "public" THEN 400
  ELSE IF raw.table \notin {"docs", "notes"} THEN 404
  ELSE IF \/ ~(raw.prefer \subseteq Tokens) \/ ~ValidSelect(raw) \/ ~ValidBody(raw)
          \/ raw.method # "POST" /\ \E t \in raw.filters : ~ValidTerm(t)
          \/ raw.method = "GET" /\ raw.order \notin {"asc", "desc"}
          \/ raw.method \in {"PATCH", "DELETE"} /\ raw.filters = {}
       THEN 400 ELSE 0

\* Mutant: a range ends before its last row.
PageExclusive(raw) ==
  IF raw.page = "range" THEN [limit |-> raw.limit - raw.offset, offset |-> raw.offset]
  ELSE [limit |-> raw.limit, offset |-> raw.offset]

\* parsePage: limit and offset, or else the Range header, whose end is inclusive and may be
\* missing.
Page(raw) ==
  IF raw.page = "range" THEN [limit |-> (raw.limit + 1) - raw.offset, offset |-> raw.offset]
  ELSE [limit |-> raw.limit, offset |-> raw.offset]

--------------------------------------------------------------------------------
(* planData(): what is read and written must be permitted.                    *)

WriteColumns(raw) == UNION {DOMAIN r : r \in NormalizedRows(raw)}

Returns(raw) == raw.method = "GET" \/ "representation" \in raw.prefer

PlanStatus(raw, p) ==
  IF \/ <<p, ActionOf[raw.method]>> \in Ungranted
     \/ raw.table = "docs" /\ Returns(raw) /\ ~(raw.select \ {"*"} \subseteq ReadableColumns)
     \/ raw.method \in {"POST", "PATCH"} /\ ~(WriteColumns(raw) \subseteq WritableColumns)
  THEN 403
  ELSE IF Returns(raw) /\ raw.embed \notin {"none", "notes", "docs"} \ {raw.table} THEN 404 ELSE 0

\* resolveProjection.
Projection(raw) == IF "*" \in raw.select THEN ReadableColumns ELSE raw.select

--------------------------------------------------------------------------------
(* What the statements find.                                                  *)

HoldsFor(t, row) ==
  LET v == row[t.col]
      is == IF t.op = "is" THEN TruthOf(v = "null") ELSE IF v = "null" THEN "null"
            ELSE TruthOf(IF t.op = "neq" THEN v \notin t.vs ELSE v \in t.vs)
  IN  IF t.neg THEN Not3(is) ELSE is

Passes(raw, row) == And3({HoldsFor(t, row) : t \in raw.filters}) = "true"
Sees(p, row)     == row.owner \in Using[p]

\* op.where AND plan.usingForSqlite; on PostgreSQL the policy is native.
Found(c, table) ==
  {i \in Ids : table[i] # Absent /\ Sees(client[c].p, table[i]) /\ Passes(client[c].raw, table[i])}

\* A column a row does not have is undefined: IS takes it for null, any other comparison with it
\* is undefined, and so is what is made of that.
ValueIn(row, c) == IF c \in DOMAIN row THEN row[c] ELSE "undefined"

\* checkRowAllowed: of a row of the body as it was given, or of a row as it is stored.
MayLeave(p, row) == <<ValueIn(row, "owner"), ValueIn(row, "locked")>> \in Check[p]

Place(i) == CHOOSE n \in DOMAIN IdOrder : IdOrder[n] = i

Precedes(order, i, j) == IF order = "desc" THEN Place(j) < Place(i) ELSE Place(i) < Place(j)

\* Keys in the order asked for.
Sorted(order, S) ==
  CHOOSE s \in [1..Cardinality(S) -> S] :
    \A m, n \in DOMAIN s : m < n => Precedes(order, s[m], s[n])

\* The rows of a request in order; a note's own columns are not looked at.
Ordered(c) ==
  Sorted(client[c].raw.order,
         IF client[c].raw.table = "docs" THEN Found(c, docs) ELSE NotesSeen[client[c].p])

--------------------------------------------------------------------------------

At(c, l)  == client[c].pc = l
Raw(c)    == client[c].raw
Go(c, l)  == client' = [client EXCEPT ![c].pc = l]
Respond(c, s) == client' = [client EXCEPT ![c].pc = "done", ![c].status = s]

\* c's record becomes k; every other request under way learns that the table has changed.
Wrote(c, k) ==
  client' = [d \in Clients |-> IF d = c THEN k ELSE [client[d] EXCEPT !.raced = TRUE]]

\* Inserts and updates on the SQLite family are checked before they are written.
FirstStep(raw) ==
  IF raw.method = "GET" THEN IF "exact" \in raw.prefer THEN "count" ELSE "page"
  ELSE CASE family = "postgres" -> "pg"
         [] family = "sqlite" -> "begin"
         [] family = "d1" -> IF raw.method = "DELETE" THEN "write" ELSE "check"

Submit(c, p, raw) ==
  /\ client[c].pc \in {"idle", "done"} /\ served < MaxRequests
  /\ served' = served + 1
  /\ LET s == IF ParseStatus(raw) # 0 THEN ParseStatus(raw) ELSE PlanStatus(raw, p)
     IN  client' = [client EXCEPT ![c] = [NoRequest EXCEPT
           !.pc = IF s # 0 THEN "done" ELSE FirstStep(raw), !.p = p, !.raw = raw,
           !.start = docs, !.status = s]]
  /\ UNCHANGED <<family, docs, tx>>

--------------------------------------------------------------------------------
(* runSelect(): the count, the page and each embed are statements of their    *)
(* own.                                                                       *)

Count(c) ==
  /\ At(c, "count")
  /\ client' = [client EXCEPT ![c].pc = "page", ![c].total = Len(Ordered(c))]
  /\ UNCHANGED <<family, docs, tx, served>>

\* buildSelect leaves LIMIT out when there is none, and SQLite knows no OFFSET without it.
SelectPage(c) ==
  LET page  == Page(Raw(c))
      ids   == Ordered(c)
      last  == IF page.offset + page.limit < Len(ids) THEN page.offset + page.limit ELSE Len(ids)
  IN  /\ At(c, "page")
      /\ IF family # "postgres" /\ page.limit = MaxSafe /\ page.offset > 0 THEN Respond(c, 500)
         ELSE client' = [client EXCEPT ![c].pc = "embed",
                                       ![c].rows = SubSeq(ids, page.offset + 1, last)]
      /\ UNCHANGED <<family, docs, tx, served>>

\* The values of the join column, fetched even when the projection leaves it out.
Keys(c) ==
  IF Raw(c).table = "notes" THEN {NoteOf[n] : n \in Range(client[c].rows)} ELSE Range(client[c].rows)

\* attachEmbeds: the related rows the principal sees, in one statement, handed to their parents.
Embedded(c) ==
  LET p == client[c].p
      attach(x) == CASE Raw(c).embed = "none"  -> {}
                     [] Raw(c).embed = "notes" ->
                          {n \in NotesSeen[p] : NoteOf[n] = x /\ NoteOf[n] \in Keys(c)}
                     [] Raw(c).embed = "docs"  ->
                          {i \in Keys(c) : i = NoteOf[x] /\ docs[i] # Absent /\ Sees(p, docs[i])}
  IN  [k \in DOMAIN client[c].rows |-> attach(client[c].rows[k])]

\* shapeResult: 206 for a window that does not span all rows, as far as it is known.
Partial(len, page, exact, total) ==
  len > 0 /\ (page.offset > 0 \/ IF exact THEN page.offset + len < total ELSE len >= page.limit)

ShapeSelect(c) ==
  LET raw == Raw(c)
      len == Len(client[c].rows)
  IN  IF raw.object /\ len # 1 THEN 406
      ELSE IF raw.page # "none" /\ Partial(len, Page(raw), "exact" \in raw.prefer, client[c].total)
           THEN 206 ELSE 200

EmbedSelect(c) ==
  /\ At(c, "embed") /\ Raw(c).method = "GET"
  /\ client' = [client EXCEPT ![c].pc = "done", ![c].embeds = Embedded(c),
                              ![c].status = ShapeSelect(c)]
  /\ UNCHANGED <<family, docs, tx, served>>

--------------------------------------------------------------------------------
(* runMutation().                                                             *)

\* A row of the body with what the statement and the table add to it.
FullRow(raw, r) ==
  [c \in DocColumns |-> IF c \in DOMAIN r THEN r[c]
                     ELSE IF c \in WriteColumns(raw) /\ "default" \notin raw.prefer THEN "null"
                     ELSE Default[c]]

TheRow(raw)  == CHOOSE r \in raw.body : TRUE
Patched(raw, row) == [c \in DocColumns |-> IF c \in DOMAIN TheRow(raw) THEN TheRow(raw)[c] ELSE row[c]]

\* EXCLUDED: only the columns of the statement are overwritten.
Merged(raw, old, r) == [c \in DocColumns |-> IF c \in WriteColumns(raw) THEN FullRow(raw, r)[c] ELSE old[c]]

\* The ids a statement writes, and what it makes of the table.
InsertRows(raw) ==
  {r \in NormalizedRows(raw) : ~("ignore" \in raw.prefer /\ docs[FullRow(raw, r).id] # Absent)}

Targets(c) ==
  IF Raw(c).method = "POST" THEN {r.id : r \in InsertRows(Raw(c))} ELSE Found(c, docs)

After(c) ==
  LET raw == Raw(c)
      row(i) == CHOOSE r \in InsertRows(raw) : r.id = i
  IN  [i \in Ids |->
         IF i \notin Targets(c) THEN docs[i]
         ELSE CASE raw.method = "DELETE" -> Absent
                [] raw.method = "PATCH"  -> Patched(raw, docs[i])
                [] raw.method = "POST"   -> IF docs[i] = Absent THEN FullRow(raw, row(i))
                                            ELSE Merged(raw, docs[i], row(i))]

\* RETURNING: the rows as this statement has left them.
Written(c) == [i \in Targets(c) |-> After(c)[i]]

\* A constraint, or a DEFAULT cell on SQLite, makes the statement fail.
StatementError(c) ==
  LET raw == Raw(c)
      rows == NormalizedRows(raw)
      clash == raw.prefer \cap {"merge", "ignore"} = {} /\ \E r \in rows : docs[r.id] # Absent
  IN  CASE raw.method = "POST" ->
             IF /\ "default" \in raw.prefer /\ family # "postgres"
                /\ \E r \in rows : DOMAIN r # WriteColumns(raw) THEN 500
             ELSE IF \E r \in rows : "id" \notin DOMAIN r THEN 400 ELSE IF clash THEN 409 ELSE 0
        [] raw.method = "DELETE" -> IF Range(NoteOf) \cap Targets(c) # {} THEN 409 ELSE 0
        [] raw.method = "PATCH" -> 0

BeginMutation(c) ==
  /\ At(c, "begin")
  /\ IF tx.by # "none" THEN Respond(c, 500) /\ UNCHANGED tx
     ELSE /\ tx' = [by |-> c, before |-> docs]
          /\ Go(c, IF Raw(c).method = "DELETE" THEN "write" ELSE "check")
  /\ UNCHANGED <<family, docs, served>>

\* The error leaves the transaction: rolled back, where there is one.
Throw(c, s) ==
  /\ IF tx.by = c
     THEN /\ docs' = tx.before /\ tx' = [by |-> "none", before |-> Absent]
          /\ Wrote(c, [client[c] EXCEPT !.pc = "done", !.status = s, !.wrote = <<>>])
     ELSE Respond(c, s) /\ UNCHANGED <<docs, tx>>

\* Mutant: the rows are checked as they are, without the patch.
CandidatesAsTheyAre(c) ==
  IF Raw(c).method = "POST" THEN NormalizedRows(Raw(c)) ELSE {docs[i] : i \in Found(c, docs)}

\* The rows given, or the rows found with the patch.
Candidates(c) ==
  IF Raw(c).method = "POST" THEN NormalizedRows(Raw(c))
  ELSE {Patched(Raw(c), docs[i]) : i \in Found(c, docs)}

CheckBefore(c) ==
  /\ At(c, "check")
  /\ IF \A r \in Candidates(c) : MayLeave(client[c].p, r) THEN Go(c, "write") /\ UNCHANGED <<docs, tx>>
     ELSE Throw(c, 403)
  /\ UNCHANGED <<family, served>>

WriteRows(c) ==
  /\ At(c, "write")
  /\ IF StatementError(c) # 0 THEN Throw(c, StatementError(c))
     ELSE /\ docs' = After(c) /\ UNCHANGED tx
          /\ Wrote(c, [client[c] EXCEPT !.pc = "post", !.wrote = Written(c),
                                        !.rows = Sorted("asc", Targets(c))])
  /\ UNCHANGED <<family, served>>

\* The rows that came back are checked once more: too late where there is no transaction.
CheckAfter(c) ==
  /\ At(c, "post")
  /\ IF Raw(c).method = "DELETE" \/ \A i \in DOMAIN client[c].wrote : MayLeave(client[c].p, client[c].wrote[i])
     THEN Go(c, "commit") /\ UNCHANGED <<docs, tx>> ELSE Throw(c, 403)
  /\ UNCHANGED <<family, served>>

\* single() is asked after the commit.
ShapeMutation(raw, n) ==
  IF Returns(raw) /\ raw.object /\ n # 1 THEN 406
  ELSE IF raw.method = "POST" THEN 201 ELSE IF Returns(raw) THEN 200 ELSE 204

\* The embeds of the representation are read inside the transaction.
Commit(c) ==
  /\ At(c, "commit")
  /\ tx' = [by |-> "none", before |-> Absent]
  /\ client' = [client EXCEPT ![c].pc = "done",
                  ![c].embeds = IF Returns(Raw(c)) THEN Embedded(c) ELSE <<>>,
                  ![c].status = ShapeMutation(Raw(c), Len(client[c].rows))]
  /\ UNCHANGED <<family, docs, served>>

\* The transaction fails: a busy file, a fault, a connection that is gone.
Fail(c) ==
  /\ tx.by = c /\ Throw(c, 500)
  /\ UNCHANGED <<family, served>>

\* PostgreSQL: one serializable transaction.  The native policies ask the same of the new
\* rows, want them visible, and want to see what a merge overwrites.
MutatePg(c) ==
  LET p == client[c].p
      refused == \E i \in Targets(c) :
                   \/ After(c)[i] # Absent /\ ~(MayLeave(p, After(c)[i]) /\ Sees(p, After(c)[i]))
                   \/ docs[i] # Absent /\ ~Sees(p, docs[i])
  IN  /\ At(c, "pg")
      /\ IF StatementError(c) # 0 THEN Respond(c, StatementError(c)) /\ UNCHANGED docs
         ELSE IF refused THEN Respond(c, 403) /\ UNCHANGED docs
         ELSE /\ docs' = After(c)
              /\ Wrote(c, [client[c] EXCEPT !.pc = "done", !.wrote = Written(c),
                             !.status = ShapeMutation(Raw(c), Cardinality(Targets(c)))])
      /\ UNCHANGED <<family, tx, served>>

DataNext ==
  \E c \in Clients :
    \/ \E p \in Askers, raw \in RawRequests : Submit(c, p, raw)
    \/ Count(c) \/ SelectPage(c) \/ EmbedSelect(c)
    \/ BeginMutation(c) \/ CheckBefore(c) \/ WriteRows(c) \/ CheckAfter(c) \/ Commit(c) \/ Fail(c)
    \/ MutatePg(c)

DataSpec == DataInit /\ [][DataNext]_dataVars

--------------------------------------------------------------------------------

Answered(c) == At(c, "done") /\ client[c].status < 400

\* A select nobody interferes with answers the rows of the window that were asked for, of all
\* that match and may be seen, in the order asked for; with an exact count it says whether any
\* is missing.  The one exception is an offset without a limit, which SQLite refuses.
PageTrue ==
  \A c \in Clients :
    LET k == client[c]
        all == Found(c, k.start)
        from == k.raw.offset
        to == IF k.raw.page = "range" THEN k.raw.limit ELSE (from + k.raw.limit) - 1
        before(i) == Cardinality({j \in all : Precedes(k.raw.order, j, i)})
        wanted == {i \in all : from <= before(i) /\ before(i) <= to}
    IN  At(c, "done") /\ k.raw.method = "GET" /\ k.raw.table = "docs" /\ ~k.raced
        /\ ParseStatus(k.raw) = 0 /\ PlanStatus(k.raw, k.p) = 0 =>
          \/ /\ Range(k.rows) = wanted
             /\ \A m, n \in DOMAIN k.rows : m < n => Precedes(k.raw.order, k.rows[m], k.rows[n])
             /\ k.status = 406 => Cardinality(wanted) # 1
             /\ "exact" \in k.raw.prefer /\ k.status # 406 /\ wanted # {} =>
                  (k.status = 206 <=> Cardinality(wanted) < Cardinality(all))
          \/ k.status = 500 /\ family # "postgres" /\ from > 0

\* What a principal may see of the rows that belong to x, a note or a doc.
Related(p, embed, x) ==
  CASE embed = "notes" -> {m \in NotesSeen[p] : NoteOf[m] = x}
    [] embed = "docs"  -> {i \in {NoteOf[x]} : docs[i] # Absent /\ Sees(p, docs[i])}
    [] OTHER -> {}

\* With its rows a request gets every related row its principal may see and no other, whether
\* the key that joins them is among the columns asked for or not.
EmbedsOwn ==
  \A c \in Clients :
    LET k == client[c]
    IN  Answered(c) /\ Returns(k.raw) /\ ~k.raced /\ Len(k.embeds) > 0 =>
          \A n \in DOMAIN k.rows : k.embeds[n] = Related(k.p, k.raw.embed, k.rows[n])

\* The rows of a body that leave out a column the check asks about.
Incomplete(raw) == {r \in NormalizedRows(raw) : ~({"owner", "locked"} \subseteq DOMAIN r)}

\* D1 has checked a row of the body without the columns it leaves out; the row the statement made
\* of it fails the check after the write, which is answered 403 and cannot undo it.
LeftOnD1(k, i) ==
  /\ family = "d1" /\ k.raw.method = "POST" /\ k.status = 403
  /\ \E r \in Incomplete(k.raw) : r.id = i

\* Unless another request wrote in between, a row that an insert or update leaves behind passes
\* the check of its principal, whatever default, merge or patch has completed it (runMutation).
\* On D1 this holds of an answered request too, and of a refused one but for the rows whose body
\* was incomplete.
ChecksHold ==
  \A c \in Clients :
    LET k == client[c]
    IN  At(c, "done") /\ ~k.raced /\ k.raw.method \in {"POST", "PATCH"} =>
          \A i \in DOMAIN k.wrote :
            docs[i] # Absent /\ (MayLeave(k.p, docs[i]) \/ LeftOnD1(k, i))

\* A select nobody interferes with answers what was asked for: its page and what is embedded in it.
AnswersTrue == PageTrue /\ EmbedsOwn
================================================================================
