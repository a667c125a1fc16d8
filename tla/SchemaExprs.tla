------------------------------ MODULE SchemaExprs ------------------------------
(******************************************************************************)
(* The expression of a CHECK on its way through packages/schema: the AST of   *)
(* libpg-query becomes a portable Expr (ast-expr), a dialect prints it        *)
(* (exprToSqlite, exprToPg), the database stores it, and the adapters read    *)
(* it back (check-parser, introspect of db-sqlite and db-postgres).           *)
(*                                                                            *)
(* A comparison is of a column and a literal; a printed expression is the     *)
(* tree its text is parsed into.  What the databases make of an expression is *)
(* external.  A table has one check, the last line of its CREATE TABLE.       *)
(******************************************************************************)
EXTENDS Integers, FiniteSets, ThreeValued

CONSTANTS
  Nodes,      \* the comparisons of the language that are connected
  CheckRows,  \* rows: a value for each column
  MaxDepth    \* bound: connectives of an expression

VARIABLES ast, depth

Null    == <<"null">>
Str(t)  == <<"str", t>>
Num(n)  == <<"num", n>>
Bool(b) == <<"bool", b>>

Huge == 9   \* stands for 2^53 + 1, which no JavaScript number is, and 8 for 2^53

TypeOf == [name |-> "text", n |-> "int32", big |-> "int64", flag |-> "bool", amt |-> "float64"]

\* AST: A_Expr, IN, NullTest, BooleanTest and a bare ColumnRef; v is a set of values.
Node(k, op, c, v) == [k |-> k, op |-> op, c |-> c, v |-> v]
Not(e)            == [k |-> "not", t |-> e]
Logic(op, S)      == [k |-> op, terms |-> S]

Refused == [k |-> "refused"]   \* recorded as unmodeled
Dropped == [k |-> "dropped"]   \* neither read nor recorded

--------------------------------------------------------------------------------
(* ast-expr.                                                                  *)

\* Expr: a compare, or a column.
Cmp(op, c, v) == [k |-> "compare", op |-> op, c |-> c, v |-> v]

\* AEXPR_OP.
OpName == [x \in {"=", "<>", ">", "~~", "~~*"} |->
             CASE x = "=" -> "eq" [] x = "<>" -> "neq" [] x = ">" -> "gt" [] x = "~~" -> "like"
               [] x = "~~*" -> "ilike"]

\* aConst: numbers become JavaScript's.
AConst(v) == IF v = Num(Huge) THEN Num(Huge - 1) ELSE v

Consts(v) == {AConst(x) : x \in v}

\* Mutant: NOT IN is taken as IN.
AExprInOnly(e) ==
  CASE e.k = "in"   -> Cmp("in", e.c, Consts(e.v))
    [] e.k \in {"like", "ilike"} -> Cmp(e.k, e.c, Consts(e.v))
    [] OTHER        -> IF e.op \in DOMAIN OpName THEN Cmp(OpName[e.op], e.c, Consts(e.v)) ELSE Refused

\* aExpr: only IN minds the name of the operator, LIKE does not.
AExpr(e) ==
  CASE e.k = "in"   -> IF e.op = "<>" THEN Not(Cmp("in", e.c, Consts(e.v))) ELSE Cmp("in", e.c, Consts(e.v))
    [] e.k \in {"like", "ilike"} -> Cmp(e.k, e.c, Consts(e.v))
    [] OTHER        -> IF e.op \in DOMAIN OpName THEN Cmp(OpName[e.op], e.c, Consts(e.v)) ELSE Refused

NullTest(e) == IF e.op = "not" THEN Not(Cmp("is", e.c, {Null})) ELSE Cmp("is", e.c, {Null})

\* booleanTest: the value is whether the name of the test has no NOT.
BooleanTest(e) == Cmp("eq", e.c, {Bool(e.op \in {"is true", "is false"})})

\* astToExpr: a cast is left out; one refused term refuses the expression.
RECURSIVE AstToExpr(_)
AstToExpr(e) ==
  CASE e.k \in {"and", "or"} ->
         LET ts == {AstToExpr(t) : t \in e.terms} IN IF Refused \in ts THEN Refused ELSE Logic(e.k, ts)
    [] e.k = "not" -> LET t == AstToExpr(e.t) IN IF t = Refused THEN Refused ELSE Not(t)
    [] e.k = "null"   -> NullTest(e)
    [] e.k = "bool"   -> BooleanTest(e)
    [] e.k = "column" -> e
    [] e.k = "cast"   -> AExpr([e EXCEPT !.k = "op"])
    [] OTHER -> AExpr(e)

\* normalizeExpr: nested logic is flattened.
RECURSIVE Normal(_)
Normal(e) ==
  CASE e.k \in {"and", "or"} ->
         LET ts == {Normal(t) : t \in e.terms}
         IN  Logic(e.k, UNION {IF t.k = e.k THEN t.terms ELSE {t} : t \in ts})
    [] e.k = "not" -> Not(Normal(e.t))
    [] OTHER -> e

--------------------------------------------------------------------------------
(* SQLite: the table keeps the text it was created with.                      *)

\* literal(): booleans are printed as 0 and 1.
SqliteLiteral(v) == IF v[1] = "bool" THEN Num(IF v[2] THEN 1 ELSE 0) ELSE v

\* exprToSqlite.
RECURSIVE ExprToSqlite(_)
ExprToSqlite(e) ==
  CASE e.k \in {"and", "or"} -> Logic(e.k, {ExprToSqlite(t) : t \in e.terms})
    [] e.k = "not"     -> Not(ExprToSqlite(e.t))
    [] e.k = "compare" -> [e EXCEPT !.v = {SqliteLiteral(v) : v \in @}]
    [] OTHER -> e

RECURSIVE Compares(_)
Compares(e) ==
  CASE e.k = "not" -> Compares(e.t)
    [] e.k \in {"and", "or"} -> UNION {Compares(t) : t \in e.terms}
    [] OTHER -> {e}

Literals(e) == UNION {c.v : c \in Compares(e)}
Opens(e)    == Cardinality({c \in Compares(e) : Str("(") \in c.v})

\* tokenize: there is no minus sign.
SqliteTokens(e) == Num(-1) \notin Literals(e)

\* Parser: no comparison without an operator, and no function, which ilike is printed as.
SqliteGrammar(e) == \A c \in Compares(e) : c.k = "compare" /\ c.op # "ilike"

ParseSqliteCheck(e) == IF SqliteTokens(e) /\ SqliteGrammar(e) THEN e ELSE Refused

\* extractParens counts the parentheses of the text, those in literals too.  What it makes of one
\* that is not closed, or closed early, does not parse; with two it finds no end.
ExtractParens(e) ==
  IF Opens(e) > 1 THEN Dropped
  ELSE IF Opens(e) = 1 \/ Str(")") \in Literals(e) THEN Refused
  ELSE ParseSqliteCheck(e)

\* coerceExprLiterals: 0 and 1 on the right of a bool column.
RECURSIVE CoerceExprLiterals(_)
CoerceExprLiterals(e) ==
  CASE e.k \in {"and", "or"} -> Logic(e.k, {CoerceExprLiterals(t) : t \in e.terms})
    [] e.k = "not" -> Not(CoerceExprLiterals(e.t))
    [] e.k = "compare" /\ e.op # "in" /\ TypeOf[e.c] = "bool" /\ e.v \in {{Num(0)}, {Num(1)}} ->
         [e EXCEPT !.v = {Bool(Num(1) \in @)}]
    [] OTHER -> e

ReadSqlite(e) == CoerceExprLiterals(ExtractParens(ExprToSqlite(e)))

--------------------------------------------------------------------------------
(* PostgreSQL: the table keeps the expression and prints it anew.             *)

\* exprToPg, and external: what pg_get_constraintdef prints.  A list of one is no list, and a
\* negative number is a quoted one with a cast.
RECURSIVE Deparsed(_)
Deparsed(e) ==
  CASE e.k \in {"and", "or"} -> Logic(e.k, {Deparsed(t) : t \in e.terms})
    [] e.k = "not" -> Not(Deparsed(e.t))
    [] e.k = "compare" ->
         [e EXCEPT !.op = IF @ = "in" /\ Cardinality(e.v) = 1 THEN "eq" ELSE @,
                   !.v  = {IF v = Num(-1) THEN Str("-1") ELSE v : v \in @}]
    [] OTHER -> e

\* Parser: a cast is to a name of one word, which "double precision" is not.
PgGrammar(e) ==
  \A c \in Compares(e) : c.k = "compare" /\ (TypeOf[c.c] = "float64" => c.op = "is")

\* parsePgCheck.
ParsePgCheck(e) == IF PgGrammar(e) THEN e ELSE Refused

ReadPg(e) == ParsePgCheck(Deparsed(e))

--------------------------------------------------------------------------------
(* Every expression over the nodes, one connective at a time.                 *)

CheckInit == ast \in Nodes /\ depth = 0

\* External: what a developer writes.  No node twice, nor parentheses of both kinds.
Extend ==
  /\ depth < MaxDepth /\ depth' = depth + 1
  /\ \/ ast' = Not(ast)
     \/ \E op \in {"and", "or"}, n \in Nodes \ Compares(ast) :
          /\ ast' = Logic(op, {ast, n})
          /\ ~({Str("("), Str(")")} \subseteq Literals(ast'))

CheckSpec == CheckInit /\ [][Extend]_<<ast, depth>>

--------------------------------------------------------------------------------

AsNumber(v) == IF v[1] = "bool" THEN IF v[2] THEN 1 ELSE 0 ELSE v[2]

\* What a comparison says of a value.
Holds(op, l, r) ==
  IF l = Null \/ r = Null THEN "null"
  ELSE TruthOf(CASE op = "gt"  -> AsNumber(l) > AsNumber(r)
                 [] op = "neq" -> AsNumber(l) # AsNumber(r)
                 [] OTHER      -> AsNumber(l) = AsNumber(r))

\* What an Expr says of a row.
RECURSIVE Says(_, _)
Says(e, row) ==
  CASE e.k = "and" -> And3({Says(t, row) : t \in e.terms})
    [] e.k = "or"  -> Or3({Says(t, row) : t \in e.terms})
    [] e.k = "not" -> Not3(Says(e.t, row))
    [] e.k = "column" -> IF row[e.c] = Null THEN "null" ELSE TruthOf(row[e.c] = Bool(TRUE))
    [] e.op = "is" -> TruthOf(row[e.c] = Null)
    [] OTHER -> Or3({Holds(e.op, row[e.c], v) : v \in e.v})

\* What the SQL says of it.
RECURSIVE Meaning(_, _)
Meaning(e, row) ==
  LET l == row[e.c]
      negated(t) == IF e.op \in {"<>", "!~~", "not"} THEN Not3(t) ELSE t
  IN  CASE e.k = "and" -> And3({Meaning(t, row) : t \in e.terms})
        [] e.k = "or"  -> Or3({Meaning(t, row) : t \in e.terms})
        [] e.k = "not" -> Not3(Meaning(e.t, row))
        [] e.k = "column" -> Says(e, row)
        [] e.k = "null" -> negated(TruthOf(l = Null))
        [] e.k = "bool" -> TruthOf(CASE e.op = "is true" -> l = Bool(TRUE) [] e.op = "is false" -> l = Bool(FALSE)
                                     [] e.op = "is not true" -> l # Bool(TRUE) [] OTHER -> l # Bool(FALSE))
        [] e.k = "cast" -> IF l = Null THEN "null" ELSE TruthOf((AsNumber(l) # 0) = e.v[2])
        [] OTHER -> negated(Or3({Holds(IF e.op = ">" THEN "gt" ELSE "eq", l, v) : v \in e.v}))

\* The Expr says of every row what the SQL says, or the check is refused: apart from NOT LIKE, the
\* tests of a boolean (IS TRUE where it is null), casts, and integers no JavaScript number is.
TakenAsMeant ==
  LET e == AstToExpr(ast)
      apart(c, row) ==
        \/ c.k = "like" /\ c.op = "!~~"
        \/ c.k = "bool" /\ (c.op # "is true" \/ row[c.c] = Null)
        \/ c.k = "cast" \/ Num(Huge) \in c.v
  IN  e.k # "refused" =>
        \A row \in CheckRows :
          (\E c \in Compares(ast) : apart(c, row)) \/ Says(e, row) = Meaning(ast, row)

\* "a check outside the grammar is recorded as an unmodeled refusal, not silently discarded": what
\* is read back is the Expr or a refusal, apart from a check with more than one open parenthesis
\* in its literals and booleans that are not right of "=" and a bool column on SQLite, and lists
\* of one and negative numbers on PostgreSQL.
ReadBack ==
  LET e == Normal(AstToExpr(ast))
      onSqlite(c) == \/ \E b \in BOOLEAN : Bool(b) \in c.v /\ (TypeOf[c.c] # "bool" \/ c.op = "in")
                     \/ TypeOf[c.c] = "bool" /\ c.v \cap {Num(0), Num(1)} # {}
      onPg(c)     == (c.op = "in" /\ Cardinality(c.v) = 1) \/ Num(-1) \in c.v
      apart(on(_)) == \E c \in Compares(e) : c.k = "compare" /\ on(c)
  IN  e.k # "refused" =>
        /\ Opens(e) < 2 /\ ~apart(onSqlite) => Normal(ReadSqlite(e)) \in {e, Refused}
        /\ ~apart(onPg) => Normal(ReadPg(e)) \in {e, Refused}

\* A check that is accepted means the same in SQL, as an Expr, and read back from the database.
CheckKept == TakenAsMeant /\ ReadBack
================================================================================
