-------------------------------- MODULE Migration -------------------------------
(******************************************************************************)
(* applyMigration() of packages/schema/src/apply.ts with the lease and the    *)
(* journal of journal.ts: runners that apply one plan to one database.        *)
(*                                                                            *)
(* On an adapter with transactions the whole plan is one transaction.  On D1  *)
(* every statement, and every atomic batch, commits by itself; a lease that   *)
(* is taken over after ten minutes keeps runners apart, and a journal lets a  *)
(* run go on where another one stopped.  A runner may stop anywhere.          *)
(******************************************************************************)
EXTENDS Naturals, Sequences, FiniteSets

CONSTANTS
  Runners,  \* processes that apply the plan
  Steps,    \* plan.steps: a sequence of kinds of change
  Adapters  \* adapter.capabilities.transactions: "atomic-batch", "callback"

(* A create fails when what it makes is there, a drop when it is gone; a      *)
(* rebuild can be repeated.  A comment is what SQLite gets for a column that  *)
(* is NOT NULL without a default: no statement at all.                        *)
StepKinds == {"create", "drop", "rebuild", "comment"}

NoRunner == "none"

MigrationAssumption ==
  /\ NoRunner \notin Runners /\ Steps \in Seq(StepKinds)
  /\ Adapters \subseteq {"atomic-batch", "callback"}

VARIABLES
  adapter,  \* capabilities.transactions
  hash,     \* _sk_schema_lock: "from" the plan's, or "to"
  effects,  \* steps the schema shows
  journal,  \* steps journaled as applied
  lease,    \* _sk_migration_lease: the holder, and whether ten minutes have passed
  runner,   \* the local state of each runner
  dangling  \* rows whose references a rebuild leaves dangling

migVars == <<adapter, hash, effects, journal, lease, runner, dangling>>

NoLease == [holder |-> NoRunner, stale |-> FALSE]
Resting == [pc |-> "idle", step |-> 0, done |-> {}, lost |-> FALSE]

MigInit ==
  /\ adapter \in Adapters /\ hash = "from" /\ effects = {} /\ journal = {}
  /\ lease = NoLease /\ runner = [r \in Runners |-> Resting] /\ dangling \in BOOLEAN

On(r, l)   == runner[r].pc = l
Goto(r, l) == runner' = [runner EXCEPT ![r].pc = l]

\* Whether the statements of a step can be executed on the schema as it is.
Executable(s) ==
  Steps[s] \in {"create", "drop"} => s \notin effects

\* The steps among S that a run of their statements brings into effect.
Effective(S) == {s \in S : Steps[s] # "comment"}

\* postconditionHolds(): only what a step creates is looked at.
PostconditionHolds(s) == Steps[s] \in {"create", "comment"} => s \in effects

--------------------------------------------------------------------------------
(* The hash is compared first.                                                *)

Begin(r) ==
  /\ On(r, "idle")
  /\ \/ (hash = "to" \/ Steps = <<>>) /\ Goto(r, "noop")
     \/ /\ hash = "from" /\ Steps # <<>>
        /\ Goto(r, IF adapter = "callback" THEN "transaction" ELSE "lease")
  /\ UNCHANGED <<adapter, hash, effects, journal, lease, dangling>>

\* The plan, the journal and the hash in one transaction.  SQLite looks for dangling
\* references after the commit.
Transaction(r) ==
  /\ On(r, "transaction")
  /\ IF \A s \in DOMAIN Steps : Executable(s)
     THEN /\ effects' = Effective(DOMAIN Steps) /\ journal' = DOMAIN Steps /\ hash' = "to"
          /\ Goto(r, IF dangling /\ \E s \in DOMAIN Steps : Steps[s] = "rebuild"
                     THEN "failed" ELSE "applied")
     ELSE UNCHANGED <<effects, journal, hash>> /\ Goto(r, "failed")
  /\ UNCHANGED <<adapter, lease, dangling>>

--------------------------------------------------------------------------------
(* acquireLease().                                                            *)

\* r is given the lease; whoever had it has lost it.
TakeFor(r, l) ==
  /\ lease' = [holder |-> r, stale |-> FALSE]
  /\ runner' = [q \in Runners |->
                  IF q = r THEN [runner[r] EXCEPT !.pc = l, !.lost = FALSE]
                  ELSE IF q = lease.holder THEN [runner[q] EXCEPT !.lost = TRUE]
                  ELSE runner[q]]

InsertLease(r) ==
  /\ On(r, "lease")
  /\ IF lease = NoLease THEN TakeFor(r, "done")
                        ELSE Goto(r, "stale") /\ UNCHANGED lease
  /\ UNCHANGED <<adapter, hash, effects, journal, dangling>>

ReadLease(r) ==
  /\ On(r, "stale")
  /\ Goto(r, IF lease.stale THEN "takeover" ELSE "refused")
  /\ UNCHANGED <<adapter, hash, effects, journal, lease, dangling>>

\* The UPDATE has no condition, and nobody looks whether there was still a row.
TakeOver(r) ==
  /\ On(r, "takeover")
  /\ IF lease # NoLease
     THEN TakeFor(r, "done")
     ELSE runner' = [runner EXCEPT ![r].pc = "done", ![r].lost = TRUE] /\ UNCHANGED lease
  /\ UNCHANGED <<adapter, hash, effects, journal, dangling>>

--------------------------------------------------------------------------------
(* The steps of a plan on D1.                                                 *)

NextStep(r, s) ==
  runner' = [runner EXCEPT ![r].step = s, ![r].pc = IF s > Len(Steps) THEN "record" ELSE "step"]

\* appliedStepIds()
ReadJournal(r) ==
  /\ On(r, "done")
  /\ runner' = [runner EXCEPT ![r].pc = "step", ![r].step = 1, ![r].done = journal]
  /\ UNCHANGED <<adapter, hash, effects, journal, lease, dangling>>

\* Mutant: a step is skipped as soon as its postcondition holds.
SkipUnjournaled(r) == LET s == runner[r].step IN PostconditionHolds(s)

\* done.has(step.id) && postconditionHolds()
Skip(r) == LET s == runner[r].step IN s \in runner[r].done /\ PostconditionHolds(s)

Consider(r) ==
  /\ On(r, "step")
  /\ IF Skip(r) THEN NextStep(r, runner[r].step + 1) ELSE Goto(r, "batch")
  /\ UNCHANGED <<adapter, hash, effects, journal, lease, dangling>>

\* atomicBatch(): the statements of the step and its journal row, or nothing.
Batch(r) ==
  LET s == runner[r].step IN
  /\ On(r, "batch")
  /\ IF Executable(s)
     THEN /\ effects' = effects \cup Effective({s}) /\ journal' = journal \cup {s}
          /\ Goto(r, "check")
     ELSE UNCHANGED <<effects, journal>> /\ Goto(r, "fail")
  /\ UNCHANGED <<adapter, hash, lease, dangling>>

CheckStep(r) ==
  /\ On(r, "check")
  /\ IF PostconditionHolds(runner[r].step) THEN NextStep(r, runner[r].step + 1)
                                           ELSE Goto(r, "fail")
  /\ UNCHANGED <<adapter, hash, effects, journal, lease, dangling>>

RecordHash(r) ==
  /\ On(r, "record")
  /\ hash' = "to" /\ Goto(r, "finish")
  /\ UNCHANGED <<adapter, effects, journal, lease, dangling>>

\* Mutant: whoever holds the lease, it is deleted.
ReleaseAny(r) ==
  /\ On(r, "fail") \/ On(r, "finish")
  /\ lease' = NoLease
  /\ Goto(r, IF On(r, "fail") THEN "failed" ELSE "applied")
  /\ UNCHANGED <<adapter, hash, effects, journal, dangling>>

\* releaseLease() in the finally block.
Release(r) ==
  /\ On(r, "fail") \/ On(r, "finish")
  /\ lease' = IF lease.holder = r THEN NoLease ELSE lease
  /\ Goto(r, IF On(r, "fail") THEN "failed" ELSE "applied")
  /\ UNCHANGED <<adapter, hash, effects, journal, dangling>>

--------------------------------------------------------------------------------
(* Time and failures.                                                         *)

Expire ==
  /\ lease # NoLease /\ ~lease.stale
  /\ lease' = [lease EXCEPT !.stale = TRUE]
  /\ UNCHANGED <<adapter, hash, effects, journal, runner, dangling>>

\* The process dies, or a statement of it fails for good, or its caller is done with it.
Stop(r) ==
  /\ ~On(r, "idle")
  /\ runner' = [runner EXCEPT ![r] = Resting]
  /\ UNCHANGED <<adapter, hash, effects, journal, lease, dangling>>

--------------------------------------------------------------------------------

MigNext ==
  \/ \E r \in Runners :
       \/ Begin(r) \/ Transaction(r)
       \/ InsertLease(r) \/ ReadLease(r) \/ TakeOver(r)
       \/ ReadJournal(r) \/ Consider(r) \/ Batch(r) \/ CheckStep(r) \/ RecordHash(r)
       \/ Release(r) \/ Stop(r)
  \/ Expire

MigSpec == MigInit /\ [][MigNext]_migVars

--------------------------------------------------------------------------------

\* The hash on record describes the schema, whatever runners came and went: every step of
\* the plan has taken effect.
HashTrue == hash = "to" => effects = DOMAIN Steps

\* Wherever a run stops, another one can go on: each step is passed over, or its statements
\* can be executed.
Resumable ==
  \A s \in DOMAIN Steps : (s \in journal /\ PostconditionHolds(s)) \/ Executable(s)

\* Runners that were given the lease and whom nobody has taken it from.
Migrating ==
  {r \in Runners : /\ runner[r].pc \in {"done", "step", "batch", "check", "record"}
                   /\ ~runner[r].lost}

\* One runner at a time, but for those that lost the lease while they were paused, or took over
\* one that was no longer there.
OneMigrating == adapter = "atomic-batch" => Cardinality(Migrating) <= 1

\* Whatever stops a run, the hash does not claim more than the schema shows, and the plan can be
\* carried on from there (apply.ts, journal.ts).
PlanCarriedOut == HashTrue /\ Resumable
================================================================================
