---------------------------------- MODULE Export ---------------------------------
(******************************************************************************)
(* The export of a source for an upgrade (packages/schema/src/upgrade:        *)
(* export.ts, and the comparison verify.ts makes with it): the tables read    *)
(* one after the other in the order of their foreign keys, then the           *)
(* sequences, the users and the objects, then everything once more for the    *)
(* fingerprint.  Nothing holds the writers back meanwhile.                    *)
(*                                                                            *)
(* The content of a table is a version number: a write gives it a content it  *)
(* never had.  That the source is stopped in between and restored to an       *)
(* earlier content is out of the model.                                       *)
(******************************************************************************)
EXTENDS Naturals, Sequences, FiniteSets, FiniteSetsExt

CONSTANTS
  Tables,    \* the tables, by their place in the schema and by name
  MaxWrites  \* bound: writes meanwhile

ExportAssumption ==
  IsFiniteSet(Tables) /\ Tables = 1 .. Cardinality(Tables) /\ MaxWrites \in Nat

VARIABLES
  refers,   \* foreign keys: which tables each one references
  content,  \* the content of each table
  writes,   \* writes so far
  moments,  \* history: the contents there have been
  order,    \* topoOrder()
  reader,   \* where the export stands, and how many tables it has read
  bundle,   \* the rows exported, by table
  print     \* the fingerprint

exportVars == <<refers, content, writes, moments, order, reader, bundle, print>>

None == MaxWrites + 1  \* not read yet

--------------------------------------------------------------------------------
(* topoOrder(): Kahn's algorithm; what is on a cycle comes last, by name.     *)

\* What t references, itself aside.
Deps(graph, t) == graph[t] \ {t}

\* Mutant: a table is ready when one of its references is out.
ReadyAny(graph, out) ==
  {t \in Tables \ out : Deps(graph, t) = {} \/ Deps(graph, t) \cap out # {}}

Ready(graph, out) == {t \in Tables \ out : Deps(graph, t) \subseteq out}

\* The tables that are out before the i-th.
OutBefore(out, i) == {out[j] : j \in 1..(i - 1)}

\* The loop has ended: at some point up to the i-th table none was ready.
Stuck(graph, out, i) == \E k \in 1..i : Ready(graph, OutBefore(out, k)) = {}

\* What may come next: what is ready, and behind the loop whatever is left.
NextTables(graph, out, i) ==
  IF Stuck(graph, out, i) THEN Tables \ OutBefore(out, i) ELSE Ready(graph, OutBefore(out, i))

\* The order in which each table is the first of the candidates by name.
TopoOrder(graph) ==
  CHOOSE out \in [1..Cardinality(Tables) -> Tables] :
    \A i \in DOMAIN out : out[i] = Min(NextTables(graph, out, i))

ExportInit ==
  /\ refers \in [Tables -> SUBSET Tables]
  /\ content = [t \in Tables |-> 0] /\ writes = 0 /\ moments = {content}
  /\ order = TopoOrder(refers)
  /\ reader = [pc |-> "idle", at |-> 1]
  /\ bundle = [t \in Tables |-> None] /\ print = [t \in Tables |-> None]

--------------------------------------------------------------------------------
Write(t) ==
  /\ writes < MaxWrites /\ reader.pc # "verified"
  /\ writes' = writes + 1
  /\ content' = [content EXCEPT ![t] = writes + 1]
  /\ moments' = moments \cup {content'}
  /\ UNCHANGED <<refers, order, reader, bundle, print>>

ExportSource ==
  /\ reader.pc = "idle" /\ reader' = [pc |-> "rows", at |-> 1]
  /\ UNCHANGED <<refers, content, writes, moments, order, bundle, print>>

Following(pc, then) ==
  IF reader.at < Cardinality(Tables) THEN [pc |-> pc, at |-> reader.at + 1] ELSE [pc |-> then, at |-> 1]

\* SELECT * of one table.
ReadRows ==
  LET t == order[reader.at]
  IN  /\ reader.pc = "rows" /\ reader' = Following("rows", "rest")
      /\ bundle' = [bundle EXCEPT ![t] = content[t]]
      /\ UNCHANGED <<refers, content, writes, moments, order, print>>

\* readSequences(), readAuthUsers(), storage.objects(): nothing here depends on them.
ReadRest ==
  /\ reader.pc = "rest" /\ reader' = [pc |-> "print", at |-> 1]
  /\ UNCHANGED <<refers, content, writes, moments, order, bundle, print>>

\* Mutant: the fingerprint is that of the rows that were exported.
FingerprintExported ==
  LET t == reader.at
  IN  /\ reader.pc = "print" /\ reader' = Following("print", "exported")
      /\ print' = [print EXCEPT ![t] = bundle[t]]
      /\ UNCHANGED <<refers, content, writes, moments, order, bundle>>

\* fingerprintSource(): the tables once more, in the order of the schema.
Fingerprint ==
  LET t == reader.at
  IN  /\ reader.pc = "print" /\ reader' = Following("print", "exported")
      /\ print' = [print EXCEPT ![t] = content[t]]
      /\ UNCHANGED <<refers, content, writes, moments, order, bundle>>

\* verifyUpgrade(): the target, which holds the rows exported, against the fingerprint.
VerifyUpgrade ==
  /\ reader.pc = "exported" /\ bundle = print
  /\ reader' = [reader EXCEPT !.pc = "verified"]
  /\ UNCHANGED <<refers, content, writes, moments, order, bundle, print>>

ExportNext ==
  \/ ExportSource \/ ReadRows \/ ReadRest \/ Fingerprint \/ VerifyUpgrade
  \/ \E t \in Tables : Write(t)

ExportSpec == ExportInit /\ [][ExportNext]_exportVars

--------------------------------------------------------------------------------
\* An export made while others write either fails its verification or holds what the tables had
\* at one and the same moment: no writer barrier is needed for that (export.ts, verify.ts).
SnapshotOrRefused == reader.pc = "verified" => bundle \in moments

\* Every table comes exactly once, and after those it references, so that the import can insert
\* the rows in this order, unless it is on a cycle or behind one (topoOrder).
ReferencedFirst ==
  /\ Len(order) = Cardinality(Tables) /\ {order[i] : i \in DOMAIN order} = Tables
  /\ \A i \in DOMAIN order :
       \/ Deps(refers, order[i]) \subseteq {order[j] : j \in 1..(i - 1)}
       \/ \E S \in SUBSET Tables : order[i] \in S /\ \A t \in S : Deps(refers, t) \cap S # {}
================================================================================
