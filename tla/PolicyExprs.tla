------------------------------ MODULE PolicyExprs ------------------------------
(******************************************************************************)
(* The expressions of policies and the three ways a row is held against one:  *)
(*                                                                            *)
(*   the predicate spliced into SQLite statements   (compile/sqlite-predicate)*)
(*   the evaluator that checks a row before and after a write (expr-sql)      *)
(*   the native policy of PostgreSQL                (compile/postgres-rls)    *)
(*                                                                            *)
(* What the databases make of the SQL is external.  Text is a handful of      *)
(* words, two of which are decimals; a pattern has no wildcard.               *)
(******************************************************************************)
EXTENDS Integers, Sequences, ThreeValued

CONSTANTS
  Atoms,      \* the comparisons and bare columns expressions are built from
  TestRows,   \* rows: a JSON value for each column
  MaxOps      \* bound: connectives of an expression

VARIABLES expr, ops

\* JSON values.
Null   == <<"null">>
Str(t) == <<"str", t>>
Num(n) == <<"num", n>>
Bool(b) == <<"bool", b>>
Undefined == <<"undefined">>

\* The columns and their portable types.
TypeOf == [owner |-> "text", n |-> "int32", big |-> "int64", flag |-> "bool"]

Lit(v)   == [k |-> "literal", v |-> v]
Col(c)   == [k |-> "column", c |-> c]
Claim(v) == [k |-> "claim", v |-> v]
List(S)  == [k |-> "list", items |-> S]
Cmp(op, c, r) == [k |-> "compare", op |-> op, l |-> Col(c), r |-> r]
Not(e)   == [k |-> "not", t |-> e]
Logic(op, a, b) == [k |-> op, a |-> a, b |-> b]

\* The words in the order of their characters, and what each is as a number and folded.
Words == <<"10", "9", "A", "a", "b">>

Place(t)   == CHOOSE i \in DOMAIN Words : Words[i] = t
Decimal(t) == CASE t = "10" -> 10 [] t = "9" -> 9 [] OTHER -> 0
Folded(t)  == IF t = "A" THEN "a" ELSE t
Digits(n)  == CASE n = 10 -> "10" [] n = 9 -> "9"

Ordered(op) == op \in {"gt", "lte"}

\* a and b are integers.
Holds(op, a, b) == CASE op = "eq" -> a = b [] op = "neq" -> a # b [] op = "gt" -> a > b
                     [] op = "lte" -> a <= b

--------------------------------------------------------------------------------
(* resolvePrincipalRefs: a claim becomes a literal.                           *)

RECURSIVE Resolve(_)
Resolve(e) ==
  CASE e.k = "claim"   -> Lit(e.v)
    [] e.k = "compare" -> [e EXCEPT !.r = Resolve(e.r)]
    [] e.k = "not"     -> Not(Resolve(e.t))
    [] e.k \in {"and", "or"} -> Logic(e.k, Resolve(e.a), Resolve(e.b))
    [] OTHER -> e

--------------------------------------------------------------------------------
(* SQLite.                                                                    *)

\* toPhysical, and the affinity of the column: booleans are 0 and 1, int64 is its digits.
Stored(c, v) ==
  CASE v[1] = "bool" -> Num(IF v[2] THEN 1 ELSE 0)
    [] v[1] = "num" /\ TypeOf[c] = "int64" -> Str(Digits(v[2]))
    [] OTHER -> v

\* emit(): a reference to a decimal column is cast.
SqlColumn(c, row) ==
  LET v == Stored(c, row[c])
  IN  IF TypeOf[c] = "int64" /\ v # Null THEN Num(Decimal(v[2])) ELSE v

\* External: the operand takes the affinity of the column it is compared with.
SqlOperand(c, v) ==
  LET p == IF v[1] = "bool" THEN Num(IF v[2] THEN 1 ELSE 0) ELSE v
  IN  CASE p[1] = "str" /\ TypeOf[c] # "text" -> Num(Decimal(p[2]))
        [] p[1] = "num" /\ TypeOf[c] = "text" -> Str(Digits(p[2]))
        [] OTHER -> p

SqlCompare(op, c, v, row) ==
  LET l == SqlColumn(c, row)
      r == SqlOperand(c, v)
      rank(x) == IF x[1] = "str" THEN Place(x[2]) ELSE x[2]
  IN  IF op = "is" THEN TruthOf(l = r)
      ELSE IF l = Null \/ r = Null THEN "null"
      ELSE IF op \in {"like", "ilike"} THEN TruthOf(Folded(l[2]) = Folded(r[2]))
      ELSE TruthOf(Holds(op, rank(l), rank(r)))

\* compileSqlitePredicate, and the value SQLite gives the predicate.
RECURSIVE Sqlite(_, _)
Sqlite(e, row) ==
  CASE e.k = "literal" -> IF e.v = Null THEN "null" ELSE TruthOf(e.v[2])
    [] e.k = "column"  -> IF row[e.c] = Null THEN "null" ELSE TruthOf(row[e.c][2])
    [] e.k = "not"     -> Not3(Sqlite(e.t, row))
    [] e.k = "and"     -> And3({Sqlite(e.a, row), Sqlite(e.b, row)})
    [] e.k = "or"      -> Or3({Sqlite(e.a, row), Sqlite(e.b, row)})
    [] e.k = "compare" -> IF e.op = "in" THEN Or3({SqlCompare("eq", e.l.c, v, row) : v \in e.r.items})
                                         ELSE SqlCompare(e.op, e.l.c, e.r.v, row)

--------------------------------------------------------------------------------
(* The evaluator.                                                             *)

\* Mutant: a null makes a comparison false rather than unknown.
JsCompareFalse(op, l, r) ==
  IF op = "is" THEN Bool(l = r)
  ELSE IF op = "in" THEN Bool(l \in r)
  ELSE IF l = Null \/ r = Null THEN Bool(FALSE)
  ELSE Bool(IF op = "like" THEN l = r ELSE IF op = "ilike" THEN Folded(l[2]) = Folded(r[2])
            ELSE IF Ordered(op) THEN Holds(op, l[2], r[2]) ELSE (op = "eq") = (l = r))

\* evalCompare: equality is JavaScript's, the order numeric only between two numbers.
JsCompare(op, l, r) ==
  LET text(v) == IF v[1] = "num" THEN Place(Digits(v[2])) ELSE Place(v[2])
      cmp     == IF l[1] = "num" /\ r[1] = "num" THEN Holds(op, l[2], r[2])
                 ELSE Holds(op, text(l), text(r))
  IN  IF op = "is" THEN Bool(l = r)
      ELSE IF op = "in" THEN IF l = Null THEN Undefined ELSE Bool(l \in r)
      ELSE IF l = Null \/ r = Null THEN Undefined
      ELSE Bool(CASE op = "like"  -> l = r
                  [] op = "ilike" -> Folded(l[2]) = Folded(r[2])
                  [] op = "eq"    -> l = r
                  [] op = "neq"   -> l # r
                  [] OTHER        -> cmp)

JsAnd(S) == IF Bool(FALSE) \in S THEN Bool(FALSE) ELSE IF Undefined \in S THEN Undefined
            ELSE Bool(S = {Bool(TRUE)})
JsOr(S)  == IF Bool(TRUE) \in S THEN Bool(TRUE) ELSE IF Undefined \in S THEN Undefined
            ELSE Bool(FALSE)
JsNot(v) == IF v = Undefined THEN Undefined ELSE Bool(v # Bool(TRUE))

\* evalNode.
RECURSIVE Js(_, _)
Js(e, row) ==
  CASE e.k = "literal" -> e.v
    [] e.k = "column"  -> row[e.c]
    [] e.k = "not"     -> JsNot(Js(e.t, row))
    [] e.k = "and"     -> JsAnd({Js(e.a, row), Js(e.b, row)})
    [] e.k = "or"      -> JsOr({Js(e.a, row), Js(e.b, row)})
    [] e.k = "compare" -> JsCompare(e.op, row[e.l.c], IF e.op = "in" THEN e.r.items ELSE e.r.v)

\* evalCheck.
EvalCheck(e, row) == Js(e, row) = Bool(TRUE)

--------------------------------------------------------------------------------
(* PostgreSQL.                                                                *)

\* compare() of postgres-rls: with a claim, which is text, the column is cast to text;
\* LIKE minds the case.  A missing claim is null.
PgCompare(op, c, right, row) ==
  LET l == row[c]
      r == right.v
      text(v) == CASE v[1] = "num" -> Digits(v[2]) [] v[1] = "str" -> v[2]
                   [] v[1] = "bool" -> TruthOf(v[2])
      number(v) == CASE v[1] = "num" -> v[2] [] v[1] = "str" -> Decimal(v[2])
                     [] v[1] = "bool" -> IF v[2] THEN 1 ELSE 0
      asText  == right.k = "claim" \/ TypeOf[c] = "text"
  IN  IF op = "is" THEN TruthOf(l = Null)
      ELSE IF l = Null \/ r = Null THEN "null"
      ELSE TruthOf(CASE op = "like"  -> text(l) = text(r)
                     [] op = "ilike" -> Folded(text(l)) = Folded(text(r))
                     [] op = "eq"    -> IF asText THEN text(l) = text(r) ELSE number(l) = number(r)
                     [] op = "neq"   -> IF asText THEN text(l) # text(r) ELSE number(l) # number(r)
                     [] OTHER -> IF asText THEN Holds(op, Place(text(l)), Place(text(r)))
                                           ELSE Holds(op, number(l), number(r)))

\* exprToPgPolicy, and the value PostgreSQL gives it.
RECURSIVE Pg(_, _)
Pg(e, row) ==
  CASE e.k \in {"literal", "column"} -> Sqlite(e, row)
    [] e.k = "not"     -> Not3(Pg(e.t, row))
    [] e.k = "and"     -> And3({Pg(e.a, row), Pg(e.b, row)})
    [] e.k = "or"      -> Or3({Pg(e.a, row), Pg(e.b, row)})
    [] e.k = "compare" -> IF e.op = "in"
                          THEN Or3({PgCompare("eq", e.l.c, Lit(v), row) : v \in e.r.items})
                          ELSE PgCompare(e.op, e.l.c, e.r, row)

--------------------------------------------------------------------------------
(* Every expression over the atoms, one connective at a time.                 *)

ExprInit == expr \in Atoms /\ ops = 0

Connect ==
  /\ ops < MaxOps /\ ops' = ops + 1
  /\ \/ expr' = Not(expr)
     \/ \E op \in {"and", "or"}, a \in Atoms : expr' = Logic(op, expr, a)

ExprSpec == ExprInit /\ [][Connect]_<<expr, ops>>

--------------------------------------------------------------------------------

RECURSIVE Compares(_)
Compares(e) ==
  CASE e.k = "not" -> Compares(e.t)
    [] e.k \in {"and", "or"} -> Compares(e.a) \cup Compares(e.b)
    [] OTHER -> {e}

\* A bare column that may be null is not negated.
RECURSIVE NegatesBare(_)
NegatesBare(e) ==
  CASE e.k = "not" -> (e.t.k # "compare" /\ e.t.k # "not" /\ \E c \in Compares(e.t) : c.k # "compare")
                        \/ NegatesBare(e.t)
    [] e.k \in {"and", "or"} -> NegatesBare(e.a) \/ NegatesBare(e.b)
    [] OTHER -> FALSE

\* The evaluator accepts a row exactly when the SQLite predicate is true of it and exactly
\* when the native policy is: in expressions that negate no bare column, compare no int64
\* column, order nothing by a claim, and match no pattern with "like".
EvaluatorsAgree ==
  LET plain == /\ ~NegatesBare(expr)
               /\ \A c \in Compares(expr) : c.k = "compare" =>
                    TypeOf[c.l.c] # "int64" /\ c.op # "like" /\ (Ordered(c.op) => c.r.k # "claim")
  IN  plain => \A row \in TestRows :
                 LET ok == EvalCheck(Resolve(expr), row)
                 IN  /\ ok <=> Sqlite(Resolve(expr), row) = "true"
                     /\ ok <=> Pg(expr, row) = "true"
================================================================================
