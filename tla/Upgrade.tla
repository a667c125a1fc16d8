--------------------------------- MODULE Upgrade --------------------------------
(******************************************************************************)
(* The upgrade of a project into a Supabase-compatible Postgres               *)
(* (packages/schema/src/upgrade): planUpgrade(), the write phases of          *)
(* importBundle(), their journal and their observable postconditions,         *)
(* interruption and resume, verifyUpgrade() and buildReceipt().               *)
(*                                                                            *)
(* The target holds, for each kind of thing the bundle carries, how many of   *)
(* them have arrived; each statement or transfer is one step.  Nobody else    *)
(* writes to the target, but it may hold users of its own before, and tables  *)
(* under the names of the bundle's.  The first import follows a plan that can *)
(* proceed, as in labs/faults; one that is resumed asks for none.             *)
(******************************************************************************)
EXTENDS Naturals, Sequences, FiniteSets

CONSTANTS
  Carried,   \* the bundle: how many of each kind
  MaxOthers, \* bound: users the target has had before
  MaxLast    \* bound: the last value of the sequence

Kinds == {"tables", "indexes", "users", "rows", "policies", "objects"}

UpgradeAssumption ==
  /\ Carried \in [Kinds -> Nat] /\ Carried.tables > 0
  /\ MaxOthers \in Nat /\ MaxLast \in Nat

\* WRITE_PHASES, and the kinds each one writes, in order.  The sequence is not a kind.
Phases == <<"schema", "auth", "table-data", "sequences", "policies-grants", "storage">>
Writes ==
  [p \in {Phases[i] : i \in DOMAIN Phases} |->
     CASE p = "schema"          -> <<"tables", "indexes">>
       [] p = "auth"            -> <<"users">>
       [] p = "table-data"      -> <<"rows">>
       [] p = "sequences"       -> <<>>
       [] p = "policies-grants" -> <<"policies">>
       [] p = "storage"         -> <<"objects">>]

VARIABLES
  arrived,   \* of each kind, how many the target has
  others,    \* users the target has had before
  lastValue, \* the bundle's last value of the sequence
  sequence,  \* the target's: last_value and is_called
  entries,   \* the phase journal: each phase's state, and its postcondition
  importer,  \* where importBundle() stands: the phase, and what of it is under way
  receipt,   \* the status of the receipt: "none", "complete", "incomplete"
  proceed,   \* canProceed of the last plan, and whether it was given a mapping file
  made       \* history: tables the import created

upVars == <<arrived, others, lastValue, sequence, entries, importer, receipt, proceed, made>>

PhaseSet == DOMAIN Writes
Pending  == [state |-> "pending", post |-> FALSE]
Away     == [pc |-> "idle", at |-> 1]

UpInit ==
  /\ \E n \in {0, Carried.tables} : arrived = [[k \in Kinds |-> 0] EXCEPT !.tables = n]
  /\ others \in 0 .. MaxOthers
  /\ lastValue \in 1 .. MaxLast
  /\ sequence = [last |-> 1, called |-> FALSE]
  /\ entries = [p \in PhaseSet |-> Pending]
  /\ importer = Away /\ receipt = "none"
  /\ proceed = [can |-> FALSE, mapping |-> FALSE] /\ made = 0

--------------------------------------------------------------------------------
(* Postconditions.                                                            *)

\* Users are counted, whosever they are; indexes and policies are not looked at.
Holds(p) ==
  CASE p = "schema"     -> arrived.tables = Carried.tables
    [] p = "auth"       -> arrived.users + others >= Carried.users
    [] p = "table-data" -> arrived.rows = Carried.rows
    [] p = "sequences"  -> sequence.last >= lastValue
    [] p = "storage"    -> arrived.objects = Carried.objects
    [] OTHER            -> TRUE

--------------------------------------------------------------------------------
(* planUpgrade().                                                             *)

Resumed == \E p \in PhaseSet : entries[p] # Pending

\* The reasons found in the bundle and in what the operator asks for.
Reasons == {"unsupported type", "weak legacy secret", "missing blob"}

\* inspectTarget(): it looks at tables, not at users.
NonEmpty == arrived.tables > 0

Refusals(mapping, reasons) ==
  reasons \cup IF NonEmpty /\ ~mapping THEN {"target not empty"} ELSE {}

PlanUpgrade ==
  /\ ~Resumed /\ importer.pc = "idle" /\ receipt = "none"
  /\ \E mapping \in BOOLEAN, reasons \in SUBSET Reasons :
       proceed' = [can |-> Refusals(mapping, reasons) = {}, mapping |-> mapping]
  /\ UNCHANGED <<arrived, others, lastValue, sequence, entries, importer, receipt, made>>

--------------------------------------------------------------------------------
(* importBundle().                                                            *)

Current == Phases[importer.at]

\* The kinds of the current phase of which something is missing, by their places.
ToDo == {i \in DOMAIN Writes[Current] : arrived[Writes[Current][i]] < Carried[Writes[Current][i]]}

Import ==
  /\ importer.pc = "idle" /\ receipt = "none"
  /\ proceed.can \/ Resumed
  /\ importer' = [pc |-> "consider", at |-> 1]
  /\ UNCHANGED <<arrived, others, lastValue, sequence, entries, receipt, proceed, made>>

Advance == [pc |-> IF importer.at = Len(Phases) THEN "imported" ELSE "consider",
            at |-> IF importer.at = Len(Phases) THEN importer.at ELSE importer.at + 1]

\* A phase that is applied is passed over; one that was left running is applied if its
\* postcondition holds.
PassOver ==
  /\ importer.pc = "consider" /\ entries[Current].state = "applied"
  /\ importer' = Advance
  /\ UNCHANGED <<arrived, others, lastValue, sequence, entries, receipt, proceed, made>>

ResumeApplied ==
  /\ importer.pc = "consider" /\ entries[Current].state = "running" /\ Holds(Current)
  /\ entries' = [entries EXCEPT ![Current] = [state |-> "applied", post |-> TRUE]]
  /\ importer' = Advance
  /\ UNCHANGED <<arrived, others, lastValue, sequence, receipt, proceed, made>>

RunPhase ==
  /\ importer.pc = "consider" /\ entries[Current].state # "applied"
  /\ ~(entries[Current].state = "running" /\ Holds(Current))
  /\ entries' = [entries EXCEPT ![Current] = [@ EXCEPT !.state = "running"]]
  /\ importer' = [importer EXCEPT !.pc = IF Current = "schema" /\ arrived.tables > 0
                                         THEN "thrown" ELSE "run"]
  /\ UNCHANGED <<arrived, others, lastValue, sequence, receipt, proceed, made>>

\* One statement.  What has arrived is passed over by ON CONFLICT DO NOTHING or by an upsert;
\* a table that exists is an error (RunPhase).
WriteOne ==
  /\ importer.pc = "run"
  /\ \E i \in ToDo :
       LET k == Writes[Current][i]
       IN  /\ \A j \in ToDo : i <= j
           /\ arrived' = [arrived EXCEPT ![k] = @ + 1]
           /\ made' = IF k = "tables" THEN made + 1 ELSE made
  /\ UNCHANGED <<others, lastValue, sequence, entries, importer, receipt, proceed>>

SetVal ==
  /\ importer.pc = "run" /\ Current = "sequences"
  /\ sequence # [last |-> lastValue, called |-> TRUE]
  /\ sequence' = [last |-> lastValue, called |-> TRUE]
  /\ UNCHANGED <<arrived, others, lastValue, entries, importer, receipt, proceed, made>>

\* All statements are through: the postcondition is evaluated and recorded.
EndPhase ==
  /\ importer.pc = "run" /\ ToDo = {}
  /\ Current = "sequences" => sequence = [last |-> lastValue, called |-> TRUE]
  /\ entries' = [entries EXCEPT ![Current] =
       [state |-> IF Holds(Current) THEN "applied" ELSE "failed", post |-> Holds(Current)]]
  /\ importer' = IF Holds(Current) THEN Advance ELSE [importer EXCEPT !.pc = "thrown"]
  /\ UNCHANGED <<arrived, others, lastValue, sequence, receipt, proceed, made>>

\* The process dies, a fault point throws, or the caller takes note of an error.
Interrupt ==
  /\ importer.pc # "idle" /\ receipt = "none"
  /\ importer' = Away
  /\ UNCHANGED <<arrived, others, lastValue, sequence, entries, receipt, proceed, made>>

--------------------------------------------------------------------------------
(* verifyUpgrade(), without the optional probes, and buildReceipt().          *)

NextVal == IF sequence.called THEN sequence.last + 1 ELSE sequence.last

Invariants ==
  /\ arrived.rows = Carried.rows      \* count and multiset
  /\ arrived.tables = Carried.tables  \* constraints
  /\ NextVal = lastValue + 1
  /\ arrived.users + others >= Carried.users
  /\ arrived.objects = Carried.objects

\* Mutant: the phases alone decide.
CompleteByJournal ==
  LET ran == {p \in PhaseSet : entries[p].state # "pending"}
  IN  ran # {} /\ \A p \in ran : entries[p].state = "applied"

Complete ==
  LET ran == {p \in PhaseSet : entries[p].state # "pending"}
  IN  Invariants /\ ran # {} /\ \A p \in ran : entries[p].state = "applied"

\* A table that is missing makes the verification throw: no receipt.
Verify ==
  /\ importer.pc = "imported" \/ importer.pc = "idle"
  /\ receipt = "none" /\ arrived.tables = Carried.tables
  /\ receipt' = IF Complete THEN "complete" ELSE "incomplete"
  /\ sequence' = [last |-> lastValue, called |-> TRUE]
  /\ UNCHANGED <<arrived, others, lastValue, entries, importer, proceed, made>>

UpNext ==
  \/ PlanUpgrade
  \/ Import \/ PassOver \/ ResumeApplied \/ RunPhase
  \/ WriteOne \/ SetVal \/ EndPhase \/ Interrupt
  \/ Verify

UpSpec == UpInit /\ [][UpNext]_upVars

--------------------------------------------------------------------------------

\* A receipt that says complete, however often the import was interrupted: all tables, rows and
\* objects of the bundle are in the target, the sequence goes on after the last value, and the
\* users are there if the target had none of its own.  The tables are those the import made,
\* never some the target had before, unless the operator mapped these.
ReceiptTrue ==
  receipt = "complete" =>
    /\ \A k \in {"tables", "rows", "objects"} : arrived[k] = Carried[k]
    /\ NextVal = lastValue + 1
    /\ others = 0 => arrived.users = Carried.users
    /\ ~proceed.mapping => made = Carried.tables
================================================================================
