-------------------------------- MODULE Conformance -------------------------------
(******************************************************************************)
(* The conformance lab (labs/conformance): what one target answered is        *)
(* normalized (normalize.ts), compared with what the oracle answered          *)
(* (compare.ts), the differences are classified (classify.ts), and a scenario *)
(* that blocks is reduced (reduce.ts).                                        *)
(*                                                                            *)
(* The values compared are JSON trees; the identifiers and instants of one    *)
(* observation are the sequence of those its walk meets.  Whether a candidate *)
(* of the reduction still shows the same failure is anybody's guess, but the  *)
(* same each time it is asked.                                                *)
(******************************************************************************)
EXTENDS Naturals, Sequences, FiniteSets

CONSTANTS
  Trees,    \* the values compared
  Walks,    \* the sequences of identifiers and instants: [kind, id]
  Hidden,   \* the field a registered divergence, or a subset comparison, is about
  Ops,      \* the operations of the scenario to reduce, in order
  Setup,    \* its setup steps, in order
  Rows      \* the rows of the one that seeds: the first setup step

VARIABLES
  task,      \* what is under way: "compare", "normalize" or "reduce"
  pair,      \* the values: the oracle's and the target's
  mode,      \* how they are compared
  nature,    \* the target's
  listed,    \* whether a divergence at the field Hidden is registered
  verdict,   \* the classification, "none" before
  walks,     \* two sequences of identifiers, and their normal forms
  reduction  \* the state of reduceScenario()

conformanceVars == <<task, pair, mode, nature, listed, verdict, walks, reduction>>

Null     == [t |-> "null"]
Str(s)   == [t |-> "str", s |-> s]
Arr(q)   == [t |-> "arr", items |-> q]
Obj(f)   == [t |-> "obj", fields |-> f]
Index    == <<"0", "1", "2", "3">>

Larger(m, n) == IF m < n THEN n ELSE m

--------------------------------------------------------------------------------
(* compare.ts.                                                                *)

\* What is not there is taken for null.
Field(v, k) == IF k \in DOMAIN v.fields THEN v.fields[k] ELSE Null
Item(v, i)  == IF i \in DOMAIN v.items THEN v.items[i] ELSE Null

Children(v) == IF v.t = "obj" THEN DOMAIN v.fields ELSE DOMAIN v.items

RECURSIVE StripExtra(_)
StripExtra(v) ==
  CASE v.t = "arr" -> Arr([i \in DOMAIN v.items |-> StripExtra(v.items[i])])
    [] v.t = "obj" -> Obj([k \in DOMAIN v.fields \ {Hidden} |-> StripExtra(v.fields[k])])
    [] OTHER -> v

\* Mutant: an array is compared as far as the oracle's goes.
RECURSIVE DiffShort(_, _, _)
DiffShort(b, c, path) ==
  CASE b = c -> {}
    [] b # c /\ b.t = "obj" /\ c.t = "obj" ->
         UNION {DiffShort(Field(b, k), Field(c, k), Append(path, k)) : k \in Children(b) \cup Children(c)}
    [] b # c /\ b.t = "arr" /\ c.t = "arr" ->
         UNION {DiffShort(Item(b, i), Item(c, i), Append(path, Index[i])) : i \in 1..Len(b.items)}
    [] OTHER -> {[path |-> path, note |-> "value mismatch"]}

RECURSIVE DiffTrees(_, _, _)
DiffTrees(b, c, path) ==
  CASE b = c -> {}
    [] b # c /\ b.t = "obj" /\ c.t = "obj" ->
         UNION {DiffTrees(Field(b, k), Field(c, k), Append(path, k)) : k \in Children(b) \cup Children(c)}
    [] b # c /\ b.t = "arr" /\ c.t = "arr" ->
         UNION {DiffTrees(Item(b, i), Item(c, i), Append(path, Index[i])) :
                  i \in 1..Larger(Len(b.items), Len(c.items))}
    [] OTHER -> {[path |-> path, note |-> "value mismatch"]}

DiffExact(b, c) == DiffTrees(b, c, <<>>)

Count(v, x) == Cardinality({i \in DOMAIN v.items : v.items[i] = x})

\* All the differences of a multiset are at the root.
DiffMultiset(b, c) ==
  LET values == {v.items[i] : <<v, i>> \in {<<w, j>> \in {b, c} \X (1..4) : j \in DOMAIN w.items}}
  IN  UNION {IF Count(b, x) > Count(c, x) THEN {[path |-> <<>>, note |-> "missing"]}
             ELSE IF Count(b, x) < Count(c, x) THEN {[path |-> <<>>, note |-> "extra"]}
             ELSE {} : x \in values}

Modes == {"exact", "ordered-sequence", "unordered-multiset", "subset", "predicate", "state-invariant"}

Compare(m, b, c) ==
  CASE m \in {"exact", "ordered-sequence", "state-invariant"} -> DiffExact(b, c)
    [] m = "unordered-multiset" -> IF b.t = "arr" /\ c.t = "arr" THEN DiffMultiset(b, c)
                                   ELSE {[path |-> <<>>, note |-> "multiset compare needs arrays"]}
    [] m = "subset" -> DiffExact(StripExtra(b), StripExtra(c))
    [] m = "predicate" -> IF b = c THEN {} ELSE {[path |-> <<>>, note |-> "predicate not satisfied"]}

--------------------------------------------------------------------------------
(* classify.ts.                                                               *)

\* A registered divergence explains the differences whose path holds its own.
Explained(diff) == listed /\ \E i \in DOMAIN diff.path : diff.path[i] = Hidden

Classify(diffs) ==
  CASE diffs = {} -> "match"
    [] diffs # {} /\ \A d \in diffs : Explained(d) -> "intentional_divergence"
    [] OTHER -> CASE nature = "product"  -> "kernel_regression"
                  [] nature = "blackbox" -> "supalite_divergence"
                  [] OTHER -> "vendor_divergence"

\* The target failed before it answered, or its answer is judged.
Judge ==
  /\ task = "compare" /\ verdict = "none"
  /\ \/ verdict' = "environment_failure"
     \/ verdict' = Classify(Compare(mode, pair.oracle, pair.target))
  /\ UNCHANGED <<task, pair, mode, nature, listed, walks, reduction>>

--------------------------------------------------------------------------------
(* normalize.ts: identifiers, and instants, become the ordinal of their first *)
(* appearance.                                                                *)

Ordinals(w) ==
  LET met(i)   == {w[j].id : j \in {n \in 1..i : w[n].kind = w[i].kind}}
      first(i) == CHOOSE j \in 1..i : w[j] = w[i] /\ \A n \in 1..(j - 1) : w[n] # w[i]
  IN  [i \in DOMAIN w |-> [kind |-> w[i].kind, id |-> Cardinality(met(first(i)))]]

Normalize ==
  /\ task = "normalize" /\ walks.normal = <<>>
  /\ walks' = [walks EXCEPT !.normal = <<Ordinals(walks.oracle), Ordinals(walks.target)>>]
  /\ UNCHANGED <<task, pair, mode, nature, listed, verdict, reduction>>

--------------------------------------------------------------------------------
(* reduceScenario(): operations, then setup steps, are dropped one at a time, *)
(* last to first, over and over until a pass drops none; then the seed rows.  *)

Largest(S) == IF S = {} THEN 0 ELSE CHOOSE x \in S : \A y \in S : y <= x
Below(S, x) == {y \in S : y < x}

ReduceInit == [pc |-> "ops", at |-> Largest(Ops), changed |-> FALSE, keep |-> 0,
               now |-> [ops |-> Ops, setup |-> Setup, rows |-> Rows],
               yes |-> {[ops |-> Ops, setup |-> Setup, rows |-> Rows]}, no |-> {}]

\* evaluate(): the candidate shows the failure, or it does not.
Evaluated(candidate, kept, left) ==
  \/ /\ candidate \notin reduction.no
     /\ reduction' = [kept EXCEPT !.now = candidate, !.yes = @ \cup {candidate}]
  \/ /\ candidate \notin reduction.yes
     /\ reduction' = [left EXCEPT !.no = @ \cup {candidate}]

\* With one operation left, no pass drops any.
TryOperation ==
  LET r == reduction
      after == [r EXCEPT !.at = Largest(Below(r.now.ops, r.at))]
  IN  /\ task = "reduce" /\ r.pc = "ops" /\ r.at > 0 /\ Cardinality(r.now.ops) > 1
      /\ Evaluated([r.now EXCEPT !.ops = @ \ {r.at}], [after EXCEPT !.changed = TRUE], after)
      /\ UNCHANGED <<task, pair, mode, nature, listed, verdict, walks>>

TrySetup ==
  LET r == reduction
      after == [r EXCEPT !.at = Largest(Below(r.now.setup, r.at))]
  IN  /\ task = "reduce" /\ r.pc = "setup" /\ r.at > 0
      /\ Evaluated([r.now EXCEPT !.setup = @ \ {r.at}], [after EXCEPT !.changed = TRUE], after)
      /\ UNCHANGED <<task, pair, mode, nature, listed, verdict, walks>>

\* The end of a pass: another one if it has changed something.
PassEnd ==
  LET r == reduction
  IN  /\ task = "reduce"
      /\ \/ /\ r.pc = "ops" /\ (r.at = 0 \/ Cardinality(r.now.ops) <= 1)
            /\ reduction' = IF r.changed THEN [r EXCEPT !.at = Largest(r.now.ops), !.changed = FALSE]
                            ELSE [r EXCEPT !.pc = "setup", !.at = Largest(r.now.setup)]
         \/ /\ r.pc = "setup" /\ r.at = 0
            /\ reduction' = IF r.changed THEN [r EXCEPT !.at = Largest(r.now.setup), !.changed = FALSE]
                            ELSE [r EXCEPT !.pc = "rows"]
      /\ UNCHANGED <<task, pair, mode, nature, listed, verdict, walks>>

\* The fewest rows that still show it.
TrimRows ==
  LET r == reduction
  IN  /\ task = "reduce" /\ r.pc = "rows"
      /\ IF 1 \in r.now.setup /\ r.keep < Rows
         THEN Evaluated([r.now EXCEPT !.rows = r.keep], [r EXCEPT !.pc = "done"], [r EXCEPT !.keep = @ + 1])
         ELSE reduction' = [r EXCEPT !.pc = "done"]
      /\ UNCHANGED <<task, pair, mode, nature, listed, verdict, walks>>

--------------------------------------------------------------------------------
NoPair == [oracle |-> Null, target |-> Null]

ConformanceInit ==
  /\ verdict = "none" /\ reduction = ReduceInit
  /\ \/ /\ task = "compare" /\ pair \in [oracle : Trees, target : Trees] /\ mode \in Modes
        /\ nature \in {"product", "vendor", "blackbox", "external"} /\ listed \in BOOLEAN
        /\ walks = [oracle |-> <<>>, target |-> <<>>, normal |-> <<>>]
     \/ /\ task = "normalize" /\ pair = NoPair /\ mode = "exact" /\ nature = "product" /\ listed = FALSE
        /\ walks \in [oracle : Walks, target : Walks, normal : {<<>>}]
     \/ /\ task = "reduce" /\ pair = NoPair /\ mode = "exact" /\ nature = "product" /\ listed = FALSE
        /\ walks = [oracle |-> <<>>, target |-> <<>>, normal |-> <<>>]

ConformanceNext == Judge \/ Normalize \/ TryOperation \/ TrySetup \/ PassEnd \/ TrimRows

ConformanceSpec == ConformanceInit /\ [][ConformanceNext]_conformanceVars

--------------------------------------------------------------------------------
\* A value without its null fields and without the nulls its arrays end with.
RECURSIVE Filled(_)
Filled(v) ==
  CASE v.t = "arr" ->
         LET full == {i \in DOMAIN v.items : v.items[i] # Null}
             last == IF full = {} THEN 0 ELSE CHOOSE i \in full : \A j \in full : j <= i
         IN  Arr([i \in 1..last |-> Filled(v.items[i])])
    [] v.t = "obj" -> Obj([k \in {l \in DOMAIN v.fields : v.fields[l] # Null} |-> Filled(v.fields[k])])
    [] OTHER -> v

\* Two arrays hold the same values equally often.
SameBag(b, c) ==
  /\ b.t = "arr" /\ c.t = "arr" /\ Len(b.items) = Len(c.items)
  /\ \E f \in [DOMAIN b.items -> DOMAIN b.items] :
       /\ \A i, j \in DOMAIN b.items : f[i] = f[j] => i = j
       /\ \A i \in DOMAIN b.items : b.items[i] = c.items[f[i]]

\* A product that answered blocks exactly when its answer is not the oracle's in the sense of the
\* mode, or differs elsewhere than where a divergence is registered; nothing but null against
\* nothing passes for the same (compare.ts, classify.ts).
BlocksOnDifference ==
  LET b == pair.oracle
      c == pair.target
      same == CASE mode = "unordered-multiset" -> SameBag(b, c)
                [] mode = "predicate" -> b = c
                [] mode = "subset" \/ listed -> Filled(StripExtra(b)) = Filled(StripExtra(c))
                [] OTHER -> Filled(b) = Filled(c)
  IN  nature = "product" /\ verdict \notin {"none", "environment_failure"} =>
        (verdict = "kernel_regression" <=> ~same)

\* Two observations have the same normal form exactly when one becomes the other by exchanging
\* identifiers for identifiers and instants for instants, one for one (normalize.ts).
NormalUpToRenaming ==
  walks.normal # <<>> =>
    LET o == walks.oracle
        t == walks.target
    IN  walks.normal[1] = walks.normal[2] <=>
          /\ Len(o) = Len(t)
          /\ \A i \in DOMAIN o : o[i].kind = t[i].kind
          /\ \A i, j \in DOMAIN o : o[i] = o[j] <=> t[i] = t[j]

\* What reduceScenario() returns still fails the same way; dropping any one more operation, with
\* the setup it was tried with, would not, nor would dropping any one more setup step (reduce.ts).
ReducedMinimal ==
  LET r == reduction
      full == [ops |-> r.now.ops, setup |-> Setup, rows |-> Rows]
  IN  r.pc = "done" =>
        /\ r.now \in r.yes
        /\ Cardinality(r.now.ops) > 1 => \A o \in r.now.ops : [full EXCEPT !.ops = @ \ {o}] \in r.no
        /\ \A s \in r.now.setup : [full EXCEPT !.setup = r.now.setup \ {s}] \in r.no

\* What the lab reports can be relied on: the verdict, the normal forms it compares, and the scenario
\* it reduces a failure to.
LabVerdicts == BlocksOnDifference /\ NormalUpToRenaming /\ ReducedMinimal
================================================================================
