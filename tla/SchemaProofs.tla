----------------------------- MODULE SchemaProofs ------------------------------
(******************************************************************************)
(* What the changes of a schema and the upgrade of a project promise: the     *)
(* properties of Migration, for any plan and any number of runners; SafeKeeps *)
(* of SchemaPlan, for any schemas and renames; ReceiptTrue of Upgrade, for    *)
(* any bundle; SnapshotOrRefused and ReferencedFirst of Export, for any       *)
(* tables and any writes meanwhile.                                           *)
(******************************************************************************)
EXTENDS SchemaPlan, Migration, Upgrade, Export, FiniteSetTheorems, WellFoundedInduction, TLAPS

--------------------------------------------------------------------------------
(* The migration: OneMigrating, that a plan can be carried on from wherever   *)
(* runs stop, and that the hash on record describes the schema, but for the   *)
(* plan's comments.                                                           *)
(*                                                                            *)
(* The lease alone keeps no two runners apart after it was taken over; what a *)
(* runner that lost it still does is harmless because what it has passed over *)
(* is in effect, and nothing that is in effect ever goes.                     *)

RunnerRecord ==
  [pc : {"idle", "noop", "transaction", "lease", "stale", "takeover", "refused", "done", "step",
         "batch", "check", "record", "fail", "finish", "failed", "applied"},
   step : Nat, done : SUBSET DOMAIN Steps, lost : BOOLEAN]

MigType ==
  /\ adapter \in Adapters /\ hash \in {"from", "to"}
  /\ effects \subseteq DOMAIN Steps /\ journal \subseteq DOMAIN Steps
  /\ lease \in [holder : Runners \cup {NoRunner}, stale : BOOLEAN]
  /\ runner \in [Runners -> RunnerRecord]

\* Where a runner is in the plan.
PositionInv ==
  \A r \in Runners :
    /\ runner[r].pc \notin {"idle", "noop"} => Steps # <<>>
    /\ runner[r].pc \in {"step", "batch", "check"} => runner[r].step \in DOMAIN Steps
    /\ runner[r].pc = "record" => runner[r].step = Len(Steps) + 1

\* Whoever migrates and has not lost the lease is its holder.
LeaseInv == \A r \in Migrating : lease.holder = r

\* What is in effect is what was journaled, in the same transaction or batch, but for comments.
JournalInv == effects = Effective(journal)

\* A runner has in effect what lies behind it, and the hash on record describes the schema, but
\* for the comments of the plan.
CarriedInv ==
  /\ hash = "to" => effects = Effective(DOMAIN Steps)
  /\ \A r \in Runners :
       /\ runner[r].done \subseteq journal
       /\ runner[r].pc \in {"step", "batch", "check", "record"} =>
            \A s \in DOMAIN Steps : s < runner[r].step => s \in effects
       /\ runner[r].pc = "check" => runner[r].step \in journal

MigInv == MigType /\ PositionInv /\ LeaseInv /\ JournalInv /\ CarriedInv

--------------------------------------------------------------------------------
LEMMA StepsShape ==
  ASSUME MigrationAssumption
  PROVE  /\ Len(Steps) \in Nat /\ DOMAIN Steps = 1..Len(Steps)
         /\ Steps # <<>> => 1 \in DOMAIN Steps
         /\ NoRunner \notin Runners
  BY DEF MigrationAssumption

LEMMA MigStarts == MigrationAssumption /\ MigInit => MigInv
  BY DEF MigrationAssumption, MigInit, MigInv, MigType, PositionInv, LeaseInv, JournalInv, CarriedInv,
         RunnerRecord, NoLease, Resting, Migrating, Effective

\* A runner that only goes on, keeping its place, its list of steps and what it knows of the lease.
LEMMA WentOn ==
  ASSUME MigType, NEW r \in Runners,
         NEW l \in {"noop", "transaction", "lease", "stale", "takeover", "refused", "batch", "check",
                    "finish", "fail", "failed", "applied"},
         Goto(r, l)
  PROVE  /\ runner' \in [Runners -> RunnerRecord]
         /\ runner'[r].pc = l /\ runner'[r].step = runner[r].step
         /\ runner'[r].done = runner[r].done /\ runner'[r].lost = runner[r].lost
         /\ \A q \in Runners : q # r => runner'[q] = runner[q]
  BY DEF MigType, RunnerRecord, Goto

\* A runner that goes to another step, or to the end.
LEMMA SteppedOn ==
  ASSUME MigrationAssumption, MigType, NEW r \in Runners, NEW s \in Nat, NextStep(r, s)
  PROVE  /\ runner' \in [Runners -> RunnerRecord]
         /\ runner'[r].pc = IF s > Len(Steps) THEN "record" ELSE "step"
         /\ runner'[r].step = s
         /\ runner'[r].done = runner[r].done /\ runner'[r].lost = runner[r].lost
         /\ \A q \in Runners : q # r => runner'[q] = runner[q]
  BY StepsShape, ZenonT(60) DEF MigType, RunnerRecord, NextStep

\* The lease is given to r: only r holds it now, and whoever held it knows no longer to.
LEMMA Taken ==
  ASSUME MigType, NEW r \in Runners, TakeFor(r, "done")
  PROVE  /\ runner' \in [Runners -> RunnerRecord]
         /\ runner'[r].pc = "done" /\ ~runner'[r].lost
         /\ runner'[r].step = runner[r].step /\ runner'[r].done = runner[r].done
         /\ \A q \in Runners : q # r =>
              /\ runner'[q].pc = runner[q].pc /\ runner'[q].step = runner[q].step
              /\ runner'[q].done = runner[q].done
              /\ runner'[q].lost = (runner[q].lost \/ q = lease.holder)
         /\ lease' = [holder |-> r, stale |-> FALSE]
  BY ZenonT(60) DEF MigType, RunnerRecord, TakeFor

--------------------------------------------------------------------------------
(* The steps, each with what it keeps.                                        *)

\* What is in effect, journaled and on record goes with a transaction, a batch or a hash only.
LEMMA Quiet ==
  ASSUME MigrationAssumption, MigInv, NEW r \in Runners,
         \/ Begin(r) \/ InsertLease(r) \/ ReadLease(r) \/ TakeOver(r) \/ ReadJournal(r)
         \/ Consider(r) \/ CheckStep(r) \/ Release(r) \/ Stop(r)
  PROVE  UNCHANGED <<adapter, hash, effects, journal>>
  BY DEF Begin, InsertLease, ReadLease, TakeOver, ReadJournal, Consider, CheckStep, Release, Stop

LEMMA BeginKeeps ==
  ASSUME MigrationAssumption, MigInv, NEW r \in Runners, Begin(r)
  PROVE  MigInv'
<1>1. PICK l \in {"noop", "transaction", "lease"} : Goto(r, l) /\ (l # "noop" => Steps # <<>>)
  BY DEF Begin
<1>2. UNCHANGED <<adapter, hash, effects, journal, lease, dangling>>
  BY DEF Begin
<1>3. /\ runner' \in [Runners -> RunnerRecord] /\ runner'[r].pc = l
      /\ runner'[r].step = runner[r].step /\ runner'[r].done = runner[r].done
      /\ \A q \in Runners : q # r => runner'[q] = runner[q]
  BY <1>1, WentOn DEF MigInv
<1>4. MigType' /\ PositionInv' /\ LeaseInv' /\ JournalInv'
  BY <1>1, <1>2, <1>3 DEF MigInv, MigType, PositionInv, LeaseInv, JournalInv, Migrating
<1>5. CarriedInv'
  BY <1>1, <1>2, <1>3 DEF MigInv, CarriedInv
<1> QED
  BY <1>4, <1>5 DEF MigInv

\* All steps at once; the runner is done with either way.
LEMMA TransactionKeeps ==
  ASSUME MigrationAssumption, MigInv, NEW r \in Runners, Transaction(r)
  PROVE  MigInv'
<1>1. PICK l \in {"failed", "applied"} : Goto(r, l)
  BY DEF Transaction
<1>2. /\ UNCHANGED <<adapter, lease>> /\ runner[r].pc = "transaction"
      /\ \/ UNCHANGED <<effects, journal, hash>>
         \/ effects' = Effective(DOMAIN Steps) /\ journal' = DOMAIN Steps /\ hash' = "to"
  BY DEF Transaction, On
<1>3. /\ runner' \in [Runners -> RunnerRecord] /\ runner'[r].pc = l
      /\ runner'[r].step = runner[r].step /\ runner'[r].done = runner[r].done
      /\ \A q \in Runners : q # r => runner'[q] = runner[q]
  BY <1>1, WentOn DEF MigInv
<1>4. MigType' /\ PositionInv' /\ LeaseInv' /\ JournalInv'
  BY <1>1, <1>2, <1>3 DEF MigInv, MigType, PositionInv, LeaseInv, JournalInv, Migrating, Effective
<1>5. CarriedInv'
  <2>1. effects \subseteq effects' /\ journal \subseteq journal'
    BY <1>2 DEF MigInv, MigType, JournalInv, Effective
  <2>2. hash' = "to" => effects' = Effective(DOMAIN Steps)
    BY <1>2 DEF MigInv, CarriedInv
  <2> QED
    BY <1>1, <1>3, <2>1, <2>2 DEF MigInv, CarriedInv
<1> QED
  BY <1>4, <1>5 DEF MigInv

\* The lease is refused, read, or taken: a runner that is given it leaves no other one with it.
LEMMA LeaseKeeps ==
  ASSUME MigrationAssumption, MigInv, NEW r \in Runners,
         InsertLease(r) \/ ReadLease(r) \/ TakeOver(r)
  PROVE  MigInv'
<1>0. /\ UNCHANGED <<adapter, hash, effects, journal>> /\ NoRunner \notin Runners
      /\ runner[r].pc \in {"lease", "stale", "takeover"}
  BY Quiet, StepsShape DEF InsertLease, ReadLease, TakeOver, On
<1>1. CASE TakeFor(r, "done")
  <2>1. /\ runner' \in [Runners -> RunnerRecord]
        /\ runner'[r].pc = "done" /\ runner'[r].done = runner[r].done
        /\ \A q \in Runners : q # r =>
             /\ runner'[q].pc = runner[q].pc /\ runner'[q].step = runner[q].step
             /\ runner'[q].done = runner[q].done
             /\ runner'[q].lost = (runner[q].lost \/ q = lease.holder)
        /\ lease' = [holder |-> r, stale |-> FALSE]
    BY <1>1, Taken DEF MigInv
  <2>2. MigType' /\ PositionInv' /\ JournalInv'
    BY <1>0, <2>1 DEF MigInv, MigType, PositionInv, JournalInv
  <2>3. LeaseInv'
    BY <1>0, <2>1 DEF MigInv, LeaseInv, Migrating
  <2>4. CarriedInv'
    BY <1>0, <2>1 DEF MigInv, CarriedInv
  <2> QED
    BY <2>2, <2>3, <2>4 DEF MigInv
<1>2. CASE \E l \in {"stale", "takeover", "refused"} : Goto(r, l) /\ UNCHANGED lease
  <2>1. PICK l \in {"stale", "takeover", "refused"} : Goto(r, l) /\ UNCHANGED lease
    BY <1>2
  <2>2. /\ runner' \in [Runners -> RunnerRecord] /\ runner'[r].pc = l
        /\ runner'[r].done = runner[r].done
        /\ \A q \in Runners : q # r => runner'[q] = runner[q]
    BY <2>1, WentOn DEF MigInv
  <2>3. MigType' /\ PositionInv' /\ LeaseInv' /\ JournalInv'
    BY <1>0, <2>1, <2>2 DEF MigInv, MigType, PositionInv, LeaseInv, JournalInv, Migrating
  <2>4. CarriedInv'
    BY <1>0, <2>1, <2>2 DEF MigInv, CarriedInv
  <2> QED
    BY <2>3, <2>4 DEF MigInv
<1>3. CASE /\ runner' = [runner EXCEPT ![r].pc = "done", ![r].lost = TRUE]
           /\ UNCHANGED lease
  <2>1. /\ runner' \in [Runners -> RunnerRecord]
        /\ runner'[r].pc = "done" /\ runner'[r].lost /\ runner'[r].done = runner[r].done
        /\ \A q \in Runners : q # r => runner'[q] = runner[q]
    BY <1>3, ZenonT(60) DEF MigInv, MigType, RunnerRecord
  <2>2. MigType' /\ PositionInv' /\ LeaseInv' /\ JournalInv'
    BY <1>0, <1>3, <2>1 DEF MigInv, MigType, PositionInv, LeaseInv, JournalInv, Migrating
  <2>3. CarriedInv'
    BY <1>0, <2>1 DEF MigInv, CarriedInv
  <2> QED
    BY <2>2, <2>3 DEF MigInv
<1> QED
  BY <1>1, <1>2, <1>3 DEF InsertLease, ReadLease, TakeOver

LEMMA ReadJournalKeeps ==
  ASSUME MigrationAssumption, MigInv, NEW r \in Runners, ReadJournal(r)
  PROVE  MigInv'
<1>1. /\ UNCHANGED <<adapter, hash, effects, journal, lease>> /\ runner[r].pc = "done"
      /\ runner' = [runner EXCEPT ![r].pc = "step", ![r].step = 1, ![r].done = journal]
  BY DEF ReadJournal, On
<1>2. /\ runner' \in [Runners -> RunnerRecord]
      /\ runner'[r].pc = "step" /\ runner'[r].step = 1 /\ runner'[r].done = journal
      /\ runner'[r].lost = runner[r].lost
      /\ \A q \in Runners : q # r => runner'[q] = runner[q]
  BY <1>1 DEF MigInv, MigType, RunnerRecord
<1>3. Steps # <<>> /\ 1 \in DOMAIN Steps /\ DOMAIN Steps = 1..Len(Steps)
  BY <1>1, StepsShape DEF MigInv, PositionInv
<1>4. MigType' /\ PositionInv' /\ LeaseInv' /\ JournalInv'
  BY <1>1, <1>2, <1>3 DEF MigInv, MigType, PositionInv, LeaseInv, JournalInv, Migrating
<1>5. CarriedInv'
  BY <1>1, <1>2, <1>3 DEF MigInv, CarriedInv
<1> QED
  BY <1>4, <1>5 DEF MigInv

\* A step that is passed over, or found in effect, lies behind.
LEMMA PassKeeps ==
  ASSUME MigrationAssumption, MigInv, NEW r \in Runners, Consider(r) \/ CheckStep(r)
  PROVE  MigInv'
<1>0. /\ UNCHANGED <<adapter, hash, effects, journal, lease>>
      /\ runner[r].pc \in {"step", "check"} /\ runner[r].step \in DOMAIN Steps
      /\ Len(Steps) \in Nat /\ DOMAIN Steps = 1..Len(Steps)
  BY StepsShape DEF Consider, CheckStep, On, MigInv, PositionInv
<1>1. CASE /\ NextStep(r, runner[r].step + 1) /\ PostconditionHolds(runner[r].step)
           /\ Consider(r) => runner[r].step \in runner[r].done
  <2>1. runner[r].step + 1 \in Nat
    BY <1>0
  <2>2. /\ runner' \in [Runners -> RunnerRecord]
        /\ runner'[r].pc = IF runner[r].step + 1 > Len(Steps) THEN "record" ELSE "step"
        /\ runner'[r].step = runner[r].step + 1
        /\ runner'[r].done = runner[r].done /\ runner'[r].lost = runner[r].lost
        /\ \A q \in Runners : q # r => runner'[q] = runner[q]
    BY <1>1, <2>1, SteppedOn DEF MigInv
  <2>3. MigType' /\ LeaseInv' /\ JournalInv'
    BY <1>0, <2>2 DEF MigInv, MigType, LeaseInv, JournalInv, Migrating
  <2>4. PositionInv'
    BY <1>0, <2>2 DEF MigInv, PositionInv
  <2>5. CarriedInv'
    <3>1. runner[r].step \in effects
      <4>1. runner[r].step \in journal /\ PostconditionHolds(runner[r].step)
        BY <1>0, <1>1 DEF Consider, CheckStep, On, MigInv, CarriedInv
      <4> QED
        BY <1>0, <4>1 DEF MigInv, JournalInv, Effective, PostconditionHolds
    <3>2. \A s \in DOMAIN Steps : s < runner[r].step + 1 => s \in effects
      BY <1>0, <3>1 DEF MigInv, CarriedInv
    <3> QED
      BY <1>0, <2>2, <3>2 DEF MigInv, CarriedInv
  <2> QED
    BY <2>3, <2>4, <2>5 DEF MigInv
<1>2. CASE (Consider(r) /\ Goto(r, "batch")) \/ (CheckStep(r) /\ Goto(r, "fail"))
  <2>1. PICK l \in {"batch", "fail"} : Goto(r, l)
    BY <1>2
  <2>2. /\ runner' \in [Runners -> RunnerRecord] /\ runner'[r].pc = l
        /\ runner'[r].step = runner[r].step
        /\ runner'[r].done = runner[r].done /\ runner'[r].lost = runner[r].lost
        /\ \A q \in Runners : q # r => runner'[q] = runner[q]
    BY <2>1, WentOn DEF MigInv
  <2>3. MigType' /\ PositionInv' /\ LeaseInv' /\ JournalInv'
    BY <1>0, <2>2 DEF MigInv, MigType, PositionInv, LeaseInv, JournalInv, Migrating
  <2>4. CarriedInv'
    BY <1>0, <2>2 DEF MigInv, CarriedInv
  <2> QED
    BY <2>3, <2>4 DEF MigInv
<1> QED
  BY <1>1, <1>2 DEF Consider, CheckStep, Skip

\* The statements of a step and its journal row.
LEMMA BatchKeeps ==
  ASSUME MigrationAssumption, MigInv, NEW r \in Runners, Batch(r)
  PROVE  MigInv'
<1> DEFINE s == runner[r].step
<1>1. PICK l \in {"check", "fail"} :
        /\ Goto(r, l)
        /\ \/ /\ l = "check" /\ journal' = journal \cup {s}
              /\ effects' = effects \cup Effective({s})
           \/ l = "fail" /\ UNCHANGED <<effects, journal>>
  BY DEF Batch
<1>2. UNCHANGED <<adapter, hash, lease>> /\ runner[r].pc = "batch" /\ s \in DOMAIN Steps
  BY DEF Batch, On, MigInv, PositionInv
<1>3. /\ runner' \in [Runners -> RunnerRecord] /\ runner'[r].pc = l
      /\ runner'[r].step = s
      /\ runner'[r].done = runner[r].done /\ runner'[r].lost = runner[r].lost
      /\ \A q \in Runners : q # r => runner'[q] = runner[q]
  BY <1>1, WentOn DEF MigInv
<1>4. Effective(journal \cup {s}) = Effective(journal) \cup Effective({s})
  BY DEF Effective
<1>5. Effective(DOMAIN Steps) \cup Effective({s}) = Effective(DOMAIN Steps)
  BY <1>2 DEF Effective
<1> HIDE DEF s
<1>6. Effective({s}) \subseteq {s}
  BY DEF Effective
<1>7. MigType' /\ PositionInv' /\ LeaseInv' /\ JournalInv'
  BY <1>1, <1>2, <1>3, <1>4, <1>6
  DEF MigInv, MigType, PositionInv, LeaseInv, JournalInv, Migrating
<1>8. CarriedInv'
  <2>1. effects \subseteq effects' /\ journal \subseteq journal'
    BY <1>1
  <2>2. hash' = "to" => effects' = Effective(DOMAIN Steps)
    BY <1>1, <1>2, <1>5 DEF MigInv, CarriedInv
  <2>3. l = "check" => s \in journal'
    BY <1>1
  <2> QED
    BY <1>1, <1>2, <1>3, <2>1, <2>2, <2>3 DEF MigInv, CarriedInv, s
<1> QED
  BY <1>7, <1>8 DEF MigInv

\* The hash is put on record behind the last step.
LEMMA RecordHashKeeps ==
  ASSUME MigrationAssumption, MigInv, NEW r \in Runners, RecordHash(r)
  PROVE  MigInv'
<1>1. /\ UNCHANGED <<adapter, effects, journal, lease>> /\ runner[r].pc = "record"
      /\ hash' = "to" /\ Goto(r, "finish")
  BY DEF RecordHash, On
<1>2. /\ runner' \in [Runners -> RunnerRecord] /\ runner'[r].pc = "finish"
      /\ runner'[r].step = runner[r].step
      /\ runner'[r].done = runner[r].done /\ runner'[r].lost = runner[r].lost
      /\ \A q \in Runners : q # r => runner'[q] = runner[q]
  BY <1>1, WentOn DEF MigInv
<1>3. MigType' /\ PositionInv' /\ LeaseInv' /\ JournalInv'
  BY <1>1, <1>2 DEF MigInv, MigType, PositionInv, LeaseInv, JournalInv, Migrating
<1>4. CarriedInv'
  <2>1. /\ runner[r].step = Len(Steps) + 1 /\ DOMAIN Steps = 1..Len(Steps) /\ Len(Steps) \in Nat
    BY <1>1, StepsShape DEF MigInv, PositionInv
  <2>2. effects = DOMAIN Steps
    <3>1. effects \subseteq DOMAIN Steps
      BY DEF MigInv, MigType
    <3>2. \A s \in DOMAIN Steps : s < runner[r].step => s \in effects
      BY <1>1 DEF MigInv, CarriedInv
    <3>3. \A s \in DOMAIN Steps : s < runner[r].step
      BY <2>1
    <3> QED
      BY <3>1, <3>2, <3>3
  <2>3. effects = Effective(DOMAIN Steps)
    BY <2>2 DEF MigInv, JournalInv, MigType, Effective
  <2> QED
    BY <1>1, <1>2, <2>2, <2>3 DEF MigInv, CarriedInv
<1> QED
  BY <1>3, <1>4 DEF MigInv

\* Only its holder gives the lease back, and migrates no more.
LEMMA ReleaseKeeps ==
  ASSUME MigrationAssumption, MigInv, NEW r \in Runners, Release(r)
  PROVE  MigInv'
<1>1. PICK l \in {"failed", "applied"} : Goto(r, l)
  BY DEF Release
<1>2. /\ UNCHANGED <<adapter, hash, effects, journal>> /\ runner[r].pc \in {"fail", "finish"}
      /\ lease' = IF lease.holder = r THEN NoLease ELSE lease
  BY DEF Release, On
<1>3. /\ runner' \in [Runners -> RunnerRecord] /\ runner'[r].pc = l
      /\ runner'[r].done = runner[r].done
      /\ \A q \in Runners : q # r => runner'[q] = runner[q]
  BY <1>1, WentOn DEF MigInv
<1>4. MigType' /\ PositionInv' /\ LeaseInv' /\ JournalInv'
  BY <1>1, <1>2, <1>3
  DEF MigInv, MigType, PositionInv, LeaseInv, JournalInv, Migrating, NoLease
<1>5. CarriedInv'
  BY <1>1, <1>2, <1>3 DEF MigInv, CarriedInv
<1> QED
  BY <1>4, <1>5 DEF MigInv

\* A runner may stop anywhere: its lease stays behind.
LEMMA StopKeeps ==
  ASSUME MigrationAssumption, MigInv, NEW r \in Runners, Stop(r)
  PROVE  MigInv'
<1>1. /\ UNCHANGED <<adapter, hash, effects, journal, lease>>
      /\ runner' = [runner EXCEPT ![r] = Resting]
  BY DEF Stop
<1>2. /\ runner' \in [Runners -> RunnerRecord] /\ runner'[r] = Resting
      /\ \A q \in Runners : q # r => runner'[q] = runner[q]
  BY <1>1 DEF MigInv, MigType, RunnerRecord, Resting
<1>3. MigType' /\ PositionInv' /\ LeaseInv' /\ JournalInv'
  BY <1>1, <1>2 DEF MigInv, MigType, PositionInv, LeaseInv, JournalInv, Migrating, Resting
<1>4. CarriedInv'
  BY <1>1, <1>2 DEF MigInv, CarriedInv, Resting
<1> QED
  BY <1>3, <1>4 DEF MigInv

LEMMA MigSteps ==
  ASSUME MigrationAssumption, MigInv, [MigNext]_migVars
  PROVE  MigInv'
<1>1. CASE Expire \/ UNCHANGED migVars
  <2>1. /\ UNCHANGED <<adapter, hash, effects, journal, runner>>
        /\ lease' \in [holder : Runners \cup {NoRunner}, stale : BOOLEAN]
        /\ lease'.holder = lease.holder
    BY <1>1 DEF Expire, migVars, MigInv, MigType
  <2>2. MigType' /\ PositionInv' /\ LeaseInv' /\ JournalInv'
    BY <2>1 DEF MigInv, MigType, PositionInv, LeaseInv, JournalInv, Migrating
  <2>3. CarriedInv'
    BY <2>1 DEF MigInv, CarriedInv
  <2> QED
    BY <2>2, <2>3 DEF MigInv
<1>2. ASSUME NEW r \in Runners,
             \/ Begin(r) \/ Transaction(r) \/ InsertLease(r) \/ ReadLease(r) \/ TakeOver(r)
             \/ ReadJournal(r) \/ Consider(r) \/ Batch(r) \/ CheckStep(r) \/ RecordHash(r)
             \/ Release(r) \/ Stop(r)
      PROVE  MigInv'
  BY <1>2, BeginKeeps, TransactionKeeps, LeaseKeeps, ReadJournalKeeps, PassKeeps, BatchKeeps,
     RecordHashKeeps, ReleaseKeeps, StopKeeps
<1> QED
  BY <1>1, <1>2 DEF MigNext

--------------------------------------------------------------------------------
\* One runner at a time migrates, but for those that lost the lease while they were paused or
\* took over one that was gone: for every plan, and any number of runners that stop anywhere
\* (journal.ts, acquireLease, releaseLease).
THEOREM MigrationOneMigrating == MigrationAssumption => (MigSpec => []OneMigrating)
<1> SUFFICES ASSUME MigrationAssumption PROVE MigSpec => []OneMigrating
  OBVIOUS
<1>1. MigInv => OneMigrating
  <2> SUFFICES ASSUME MigInv PROVE Cardinality(Migrating) <= 1
    BY DEF OneMigrating
  <2>1. Migrating \subseteq {lease.holder}
    BY DEF MigInv, LeaseInv
  <2>2. IsFiniteSet({lease.holder}) /\ Cardinality({lease.holder}) = 1
    BY FS_Singleton
  <2>3. Cardinality(Migrating) <= Cardinality({lease.holder})
    BY <2>1, <2>2, FS_Subset
  <2> QED
    BY <2>2, <2>3
<1>2. MigInit => MigInv
  BY MigStarts
<1>3. MigInv /\ [MigNext]_migVars => MigInv'
  BY MigSteps
<1> QED
  BY <1>1, <1>2, <1>3, PTL DEF MigSpec

\* Wherever runs stop, the plan can be carried on: each of its steps is passed over, or its
\* statements can be executed (apply.ts, journal.ts).
THEOREM MigrationResumable == MigrationAssumption => (MigSpec => []Resumable)
<1> SUFFICES ASSUME MigrationAssumption PROVE MigSpec => []Resumable
  OBVIOUS
<1>1. MigInv => Resumable
  BY DEF MigInv, JournalInv, Resumable, Executable, PostconditionHolds, Effective
<1>2. MigInit => MigInv
  BY MigStarts
<1>3. MigInv /\ [MigNext]_migVars => MigInv'
  BY MigSteps
<1> QED
  BY <1>1, <1>2, <1>3, PTL DEF MigSpec

\* The schema on record is the schema there is, less the comments of the plan.
OnRecord == hash = "to" => effects = Effective(DOMAIN Steps)

\* The hash on record promises every step but the comments, also after runners that lost the
\* lease went on (apply.ts, applyMigration).
THEOREM MigrationOnRecord == MigrationAssumption => (MigSpec => []OnRecord)
<1> SUFFICES ASSUME MigrationAssumption PROVE MigSpec => []OnRecord
  OBVIOUS
<1>1. MigInv => OnRecord
  BY DEF MigInv, CarriedInv, OnRecord
<1>2. MigInit => MigInv
  BY MigStarts
<1>3. MigInv /\ [MigNext]_migVars => MigInv'
  BY MigSteps
<1> QED
  BY <1>1, <1>2, <1>3, PTL DEF MigSpec

\* Plans of which every step takes effect.
NoComments == \A s \in DOMAIN Steps : Steps[s] # "comment"

\* So of a plan without comments the hash on record describes the schema.
THEOREM MigrationCarriedOut == MigrationAssumption /\ NoComments => (MigSpec => []PlanCarriedOut)
<1> SUFFICES ASSUME MigrationAssumption, NoComments PROVE MigSpec => []PlanCarriedOut
  OBVIOUS
<1>1. Effective(DOMAIN Steps) = DOMAIN Steps
  BY DEF NoComments, Effective
<1>2. OnRecord /\ Resumable => PlanCarriedOut
  BY <1>1 DEF OnRecord, PlanCarriedOut, HashTrue
<1>3. (MigSpec => []OnRecord) /\ (MigSpec => []Resumable)
  BY MigrationOnRecord, MigrationResumable
<1> QED
  BY <1>2, <1>3, PTL

--------------------------------------------------------------------------------
(* The upgrade.  Nothing arrives but what is missing, so counts never exceed  *)
(* the bundle's; a plan without a mapping goes ahead only on a target without *)
(* tables, so the tables there are those the import made; and nothing is      *)
(* written once there is a receipt.                                           *)

PhasesOf == {"schema", "auth", "table-data", "sequences", "policies-grants", "storage"}

UpType ==
  /\ arrived \in [Kinds -> Nat] /\ others \in Nat /\ lastValue \in Nat /\ made \in Nat
  /\ entries \in [PhasesOf -> [state : {"pending", "running", "applied", "failed"}, post : BOOLEAN]]
  /\ importer \in [pc : {"idle", "consider", "run", "thrown", "imported"}, at : 1..6]

ArrivedInv == \A k \in Kinds : arrived[k] <= Carried[k]

\* The import has begun, or has left traces.
Begun == importer.pc # "idle" \/ \E p \in PhasesOf : entries[p] # Pending

PlanInv ==
  /\ Begun => proceed.can
  /\ made <= arrived.tables
  /\ proceed.can /\ ~proceed.mapping => made = arrived.tables

ReceiptInv ==
  /\ receipt # "none" => importer.pc \in {"imported", "idle"}
  /\ receipt = "complete" =>
       /\ \A k \in {"tables", "rows", "objects"} : arrived[k] = Carried[k]
       /\ sequence = [last |-> lastValue, called |-> TRUE]
       /\ arrived.users + others >= Carried.users
       /\ proceed.can

UpInv == UpType /\ ArrivedInv /\ PlanInv /\ ReceiptInv

--------------------------------------------------------------------------------
LEMMA PhasesAre ==
  /\ Len(Phases) = 6 /\ DOMAIN Phases = 1..6 /\ PhaseSet = PhasesOf
  /\ \A i \in 1..6 : Phases[i] \in PhasesOf
<1>1. Len(Phases) = 6 /\ DOMAIN Phases = 1..6
  BY DEF Phases
<1>2. {Phases[i] : i \in DOMAIN Phases} = PhasesOf
  BY <1>1 DEF Phases, PhasesOf
<1> QED
  BY <1>1, <1>2 DEF PhaseSet, Writes

LEMMA WritesKinds == \A p \in PhasesOf : \A i \in DOMAIN Writes[p] : Writes[p][i] \in Kinds
<1>1. \A p \in PhasesOf : p \in {Phases[i] : i \in DOMAIN Phases}
  BY PhasesAre DEF PhaseSet, Writes
<1>2. /\ Writes["schema"] = <<"tables", "indexes">> /\ Writes["auth"] = <<"users">>
      /\ Writes["table-data"] = <<"rows">> /\ Writes["sequences"] = <<>>
      /\ Writes["policies-grants"] = <<"policies">> /\ Writes["storage"] = <<"objects">>
  BY <1>1 DEF Writes, PhasesOf
<1> QED
  BY <1>2 DEF PhasesOf, Kinds

LEMMA UpStarts ==
  ASSUME UpgradeAssumption, UpInit
  PROVE  UpInv
<1>1. PICK n \in {0, Carried.tables} : arrived = [[k \in Kinds |-> 0] EXCEPT !.tables = n]
  BY DEF UpInit
<1>2. n \in Nat /\ "tables" \in Kinds
  BY DEF UpgradeAssumption, Kinds
<1>3. arrived \in [Kinds -> Nat] /\ arrived.tables = n /\ \A k \in Kinds \ {"tables"} : arrived[k] = 0
  BY <1>1, <1>2
<1>4. ArrivedInv
  BY <1>1, <1>2, <1>3 DEF ArrivedInv, UpgradeAssumption
<1>5. entries = [p \in PhasesOf |-> Pending] /\ importer = Away
  BY PhasesAre DEF UpInit
<1>6. UpType
  <2>1. others \in Nat /\ lastValue \in Nat /\ made \in Nat
    BY DEF UpInit, UpgradeAssumption
  <2>2. importer \in [pc : {"idle", "consider", "run", "thrown", "imported"}, at : 1..6]
    BY <1>5 DEF Away
  <2>3. entries \in [PhasesOf -> [state : {"pending", "running", "applied", "failed"}, post : BOOLEAN]]
    BY <1>5 DEF Pending
  <2> QED
    BY <1>3, <2>1, <2>2, <2>3 DEF UpType
<1>7. ~Begun
  BY <1>5 DEF Begun, Away
<1> QED
  BY <1>2, <1>3, <1>4, <1>6, <1>7 DEF UpInv, PlanInv, ReceiptInv, UpInit

LEMMA PlanKeeps ==
  ASSUME UpInv, PlanUpgrade
  PROVE  UpInv'
<1> USE DEF UpInv
<1>1. PICK mapping \in BOOLEAN, reasons \in SUBSET Reasons :
        proceed' = [can |-> Refusals(mapping, reasons) = {}, mapping |-> mapping]
  BY DEF PlanUpgrade
<1>2. /\ importer.pc = "idle" /\ receipt = "none" /\ ~Resumed
      /\ UNCHANGED <<arrived, others, lastValue, sequence, entries, importer, receipt, made>>
  BY DEF PlanUpgrade
<1>3. proceed'.can /\ ~proceed'.mapping => arrived.tables = 0
  <2>1. arrived.tables \in Nat
    BY DEF UpType, Kinds
  <2>2. proceed'.can => Refusals(mapping, reasons) = {}
    BY ONLY <1>1, Zenon
  <2>3. proceed'.mapping = mapping
    BY ONLY <1>1
  <2>4. NonEmpty /\ ~mapping => "target not empty" \in Refusals(mapping, reasons)
    BY DEF Refusals
  <2> QED
    <3>1. ~NonEmpty => arrived.tables = 0
      BY <2>1 DEF NonEmpty
    <3> QED
      BY <2>2, <2>3, <2>4, <3>1, Zenon
<1>4. ~Begun'
  BY <1>2, PhasesAre DEF Begun, Resumed
<1>5. PlanInv'
  BY <1>2, <1>3, <1>4 DEF PlanInv, UpType
<1> QED
  BY <1>2, <1>5 DEF UpType, ArrivedInv, ReceiptInv

\* Of the importer and its journal nothing matters but that a plan goes ahead of them.
LEMMA ImporterMoves ==
  ASSUME UpInv, UNCHANGED <<arrived, others, lastValue, receipt, proceed, made>>,
         sequence' = sequence \/ receipt = "none",
         entries' \in [PhasesOf -> [state : {"pending", "running", "applied", "failed"}, post : BOOLEAN]],
         importer' \in [pc : {"idle", "consider", "run", "thrown", "imported"}, at : 1..6],
         receipt # "none" => importer'.pc \in {"imported", "idle"},
         Begun' => proceed.can
  PROVE  UpInv'
  BY DEF UpInv, UpType, ArrivedInv, PlanInv, ReceiptInv

LEMMA ImportKeeps ==
  ASSUME UpInv, Import \/ PassOver \/ ResumeApplied \/ RunPhase \/ SetVal \/ EndPhase \/ Interrupt
  PROVE  UpInv'
<1> USE DEF UpInv
<1> DEFINE Places == [pc : {"idle", "consider", "run", "thrown", "imported"}, at : 1..6]
           Entries == [state : {"pending", "running", "applied", "failed"}, post : BOOLEAN]
<1>1. importer \in Places /\ entries \in [PhasesOf -> Entries] /\ Current \in PhasesOf
  BY PhasesAre DEF UpType, Current
<1>2. Advance \in Places
  <2>1. importer.at \in 1..6 /\ (importer.at # 6 => importer.at + 1 \in 1..6)
    BY <1>1
  <2> QED
    BY <2>1, PhasesAre DEF Advance
<1>3. receipt # "none" => importer.pc \in {"imported", "idle"}
  BY DEF ReceiptInv
<1>4. CASE Import
  <2>1. proceed.can
    BY <1>1, <1>4, PhasesAre DEF Import, Resumed, PlanInv, Begun
  <2> QED
    BY <1>1, <1>4, <2>1, ImporterMoves DEF Import
<1>5. CASE PassOver
  BY <1>1, <1>2, <1>3, <1>5, ImporterMoves DEF PassOver, PlanInv, Begun
<1>6. CASE ResumeApplied
  BY <1>1, <1>2, <1>3, <1>6, ImporterMoves DEF ResumeApplied, PlanInv, Begun
<1>7. CASE RunPhase
  <2>1. [entries[Current] EXCEPT !.state = "running"] \in Entries
    BY <1>1
  <2>2. [importer EXCEPT !.pc = "thrown"] \in Places /\ [importer EXCEPT !.pc = "run"] \in Places
    BY <1>1
  <2>3. entries' \in [PhasesOf -> Entries] /\ importer' \in Places
    BY <1>1, <1>7, <2>1, <2>2 DEF RunPhase
  <2> QED
    BY <1>3, <1>7, <2>3, ImporterMoves DEF RunPhase, PlanInv, Begun
<1>8. CASE SetVal
  BY <1>1, <1>3, <1>8, ImporterMoves DEF SetVal, PlanInv, Begun
<1>9. CASE EndPhase
  <2>1. [state |-> IF Holds(Current) THEN "applied" ELSE "failed", post |-> Holds(Current)] \in Entries
    <3>1. Holds(Current) \in BOOLEAN
      <4>1. /\ Holds("schema") \in BOOLEAN /\ Holds("auth") \in BOOLEAN /\ Holds("table-data") \in BOOLEAN
            /\ Holds("sequences") \in BOOLEAN /\ Holds("storage") \in BOOLEAN
        BY DEF Holds
      <4>2. Holds("policies-grants") \in BOOLEAN
        BY DEF Holds
      <4> QED
        BY <1>1, <4>1, <4>2 DEF PhasesOf
    <3> DEFINE h == Holds(Current)
    <3> HIDE DEF h
    <3>2. [state |-> IF h THEN "applied" ELSE "failed", post |-> h] \in Entries
      BY <3>1 DEF h
    <3> QED
      BY <3>2 DEF h
  <2>2. [importer EXCEPT !.pc = "thrown"] \in Places
    BY <1>1
  <2>3. entries' \in [PhasesOf -> Entries] /\ importer' \in Places
    BY <1>1, <1>2, <1>9, <2>1, <2>2 DEF EndPhase
  <2> QED
    BY <1>3, <1>9, <2>3, ImporterMoves DEF EndPhase, PlanInv, Begun
<1>10. CASE Interrupt
  BY <1>1, <1>10, ImporterMoves DEF Interrupt, Away, PlanInv, Begun
<1> QED
  BY <1>4, <1>5, <1>6, <1>7, <1>8, <1>9, <1>10

LEMMA WriteKeeps ==
  ASSUME UpgradeAssumption, UpInv, WriteOne
  PROVE  UpInv'
<1> USE DEF UpInv
<1>1. Current \in PhasesOf /\ importer.pc = "run"
  BY PhasesAre DEF UpType, Current, WriteOne
<1>2. PICK i \in ToDo : /\ arrived' = [arrived EXCEPT ![Writes[Current][i]] = @ + 1]
                        /\ made' = IF Writes[Current][i] = "tables" THEN made + 1 ELSE made
  BY DEF WriteOne
<1> DEFINE k == Writes[Current][i]
<1>3. k \in Kinds /\ arrived[k] < Carried[k]
  BY <1>1, WritesKinds DEF ToDo
<1>4. \A j \in Kinds : arrived[j] \in Nat /\ Carried[j] \in Nat /\ arrived[j] <= Carried[j]
  BY DEF UpgradeAssumption, UpType, ArrivedInv
<1>5. arrived' = [arrived EXCEPT ![k] = arrived[k] + 1] /\ made' = IF k = "tables" THEN made + 1 ELSE made
  BY <1>2
<1> HIDE DEF k
<1>6. /\ arrived' \in [Kinds -> Nat] /\ arrived'[k] = arrived[k] + 1
      /\ \A j \in Kinds \ {k} : arrived'[j] = arrived[j]
  BY <1>3, <1>4, <1>5 DEF UpType
<1>7. UNCHANGED <<others, lastValue, sequence, entries, importer, receipt, proceed>>
  BY DEF WriteOne
<1>8. UpType' /\ ArrivedInv'
  BY <1>3, <1>4, <1>5, <1>6, <1>7 DEF UpType, ArrivedInv
<1>9. PlanInv'
  <2>1. "tables" \in Kinds /\ made \in Nat
    BY DEF Kinds, UpType
  <2>2. Begun' <=> Begun
    BY <1>7 DEF Begun
  <2> QED
    BY <1>4, <1>5, <1>6, <1>7, <2>1, <2>2 DEF PlanInv
<1>10. ReceiptInv'
  BY <1>1, <1>7 DEF ReceiptInv
<1> QED
  BY <1>8, <1>9, <1>10

LEMMA VerifyKeeps ==
  ASSUME UpInv, Verify
  PROVE  UpInv'
<1> USE DEF UpInv
<1>1. /\ importer.pc \in {"imported", "idle"} /\ receipt' \in {"complete", "incomplete"}
      /\ receipt' = "complete" => Complete
      /\ sequence' = [last |-> lastValue, called |-> TRUE]
      /\ UNCHANGED <<arrived, others, lastValue, entries, importer, proceed, made>>
  BY DEF Verify
<1>2. Complete => Invariants /\ Begun
  BY PhasesAre DEF Complete, Begun, Pending
<1>3. ReceiptInv'
  BY <1>1, <1>2 DEF ReceiptInv, Invariants, PlanInv
<1> QED
  BY <1>1, <1>3 DEF UpType, ArrivedInv, PlanInv, Begun

LEMMA UpSteps ==
  ASSUME UpgradeAssumption, UpInv, [UpNext]_upVars
  PROVE  UpInv'
<1>1. CASE UNCHANGED upVars
  BY <1>1 DEF upVars, UpInv, UpType, ArrivedInv, PlanInv, Begun, ReceiptInv
<1> QED
  BY <1>1, PlanKeeps, ImportKeeps, WriteKeeps, VerifyKeeps DEF UpNext

\* For any bundle, any users the target had and any interruptions of the import: a receipt says
\* "complete" only of a target that has all tables, rows and objects, goes on after the last value
\* of the sequence, has the users if it had none before, and whose tables the import itself made
\* unless a mapping said otherwise (importBundle, verifyUpgrade, buildReceipt).
THEOREM UpgradeReceiptTrue == UpgradeAssumption => (UpSpec => []ReceiptTrue)
<1> SUFFICES ASSUME UpgradeAssumption PROVE UpSpec => []ReceiptTrue
  OBVIOUS
<1>1. UpInv => ReceiptTrue
  <2> SUFFICES ASSUME UpInv, receipt = "complete"
               PROVE  /\ \A k \in {"tables", "rows", "objects"} : arrived[k] = Carried[k]
                      /\ NextVal = lastValue + 1
                      /\ others = 0 => arrived.users = Carried.users
                      /\ ~proceed.mapping => made = Carried.tables
    BY DEF ReceiptTrue
  <2>1. arrived.users \in Nat /\ Carried.users \in Nat /\ arrived.users <= Carried.users
    BY DEF UpInv, UpType, ArrivedInv, UpgradeAssumption, Kinds
  <2> QED
    BY <2>1 DEF UpInv, ReceiptInv, PlanInv, NextVal
<1> QED
  BY <1>1, UpStarts, UpSteps, PTL DEF UpSpec

--------------------------------------------------------------------------------
(* The export.  Between the last row read and the first fingerprint there is  *)
(* a moment whose contents no row read is ahead of and no fingerprint is      *)
(* behind: if both agree, they are that moment's.                             *)

ExportType ==
  /\ writes \in 0..MaxWrites
  /\ content \in [Tables -> 0..writes] /\ content \in moments /\ moments \subseteq [Tables -> Nat]
  /\ bundle \in [Tables -> Nat] /\ print \in [Tables -> Nat]
  /\ reader \in [pc : {"idle", "rows", "rest", "print", "exported", "verified"}, at : Nat]

Reading == reader.pc \in {"idle", "rows", "rest"}

ReadInv ==
  Reading => \A t \in Tables : /\ bundle[t] = None \/ bundle[t] <= content[t]
                               /\ print[t] = None

\* The contents m lie between what was exported and the fingerprint.
Between(m) ==
  \A t \in Tables : /\ bundle[t] = None \/ bundle[t] <= m[t]
                    /\ m[t] <= content[t]
                    /\ print[t] = None \/ (m[t] <= print[t] /\ print[t] <= MaxWrites)

MomentInv == ~Reading => \E m \in moments : Between(m)

\* Which tables the fingerprint covers.
CoverInv ==
  /\ reader.pc = "print" => \A t \in Tables : t < reader.at => print[t] # None
  /\ reader.pc \in {"exported", "verified"} => \A t \in Tables : print[t] # None
  /\ reader.pc = "verified" => bundle = print

ExportInv == ExportType /\ ReadInv /\ MomentInv /\ CoverInv

--------------------------------------------------------------------------------
LEMMA TablesAre ==
  ASSUME ExportAssumption
  PROVE  /\ Cardinality(Tables) \in Nat /\ MaxWrites \in Nat /\ None \in Nat /\ None > MaxWrites
         /\ \A t \in Tables : t \in Nat /\ 1 <= t /\ t <= Cardinality(Tables)
  BY FS_CardinalityType DEF ExportAssumption, None

LEMMA ExportStarts ==
  ASSUME ExportAssumption, ExportInit
  PROVE  ExportInv
<1>1. ExportType
  <2>1. content = [t \in Tables |-> 0] /\ writes = 0 /\ moments = {content}
    BY DEF ExportInit
  <2>2. reader = [pc |-> "idle", at |-> 1]
    BY DEF ExportInit
  <2>3. bundle \in [Tables -> Nat] /\ print \in [Tables -> Nat]
    BY TablesAre DEF ExportInit
  <2> QED
    BY <2>1, <2>2, <2>3, TablesAre DEF ExportType
<1> QED
  BY <1>1 DEF ExportInit, ExportInv, ReadInv, MomentInv, CoverInv, Reading

\* A write gives a table a content above all it had.
LEMMA SourceWriteKeeps ==
  ASSUME ExportAssumption, ExportInv, NEW t \in Tables, Write(t)
  PROVE  ExportInv'
<1> USE DEF ExportInv
<1>1. /\ writes < MaxWrites /\ writes' = writes + 1 /\ content' = [content EXCEPT ![t] = writes + 1]
      /\ moments' = moments \cup {content'} /\ UNCHANGED <<reader, bundle, print>>
  BY DEF Write
<1>2. writes \in Nat /\ writes' \in 0..MaxWrites /\ content \in [Tables -> 0..writes] /\ MaxWrites \in Nat
  BY <1>1, TablesAre DEF ExportType
<1>3. /\ content' \in [Tables -> 0..writes'] /\ content' \in [Tables -> Nat]
      /\ \A u \in Tables : content[u] \in Nat /\ content'[u] \in Nat /\ content[u] <= content'[u]
  BY <1>1, <1>2
<1>4. ExportType'
  BY <1>1, <1>2, <1>3 DEF ExportType
<1>5. ReadInv'
  <2>1. \A u \in Tables : bundle[u] \in Nat
    BY DEF ExportType
  <2> QED
    BY <1>1, <1>3, <2>1 DEF ReadInv, Reading, None
<1>6. MomentInv'
  <2> SUFFICES ASSUME ~Reading' PROVE \E m \in moments' : Between(m)'
    BY DEF MomentInv, Reading
  <2>1. PICK m \in moments : Between(m)
    BY <1>1 DEF MomentInv, Reading
  <2>2. m \in [Tables -> Nat]
    BY DEF ExportType
  <2>3. Between(m)'
    BY <1>1, <1>3, <2>1, <2>2 DEF Between, None
  <2> QED
    BY <1>1, <2>3
<1>7. CoverInv'
  BY <1>1 DEF CoverInv, None
<1> QED
  BY <1>4, <1>5, <1>6, <1>7

LEMMA FollowingType ==
  ASSUME ExportAssumption, ExportType, NEW p, NEW q
  PROVE  \/ reader.at < Cardinality(Tables) /\ Following(p, q) = [pc |-> p, at |-> reader.at + 1]
         \/ reader.at >= Cardinality(Tables) /\ Following(p, q) = [pc |-> q, at |-> 1]
  BY TablesAre DEF Following, ExportType

LEMMA ReaderKeeps ==
  ASSUME ExportAssumption, ExportInv, ExportSource \/ ReadRows \/ ReadRest \/ VerifyUpgrade
  PROVE  ExportInv'
<1> USE DEF ExportInv
<1>0. reader.at \in Nat /\ \A t \in Tables : content[t] \in Nat /\ bundle[t] \in Nat
  BY DEF ExportType
<1>1. CASE ExportSource
  BY <1>1, <1>0 DEF ExportSource, ExportType, ReadInv, MomentInv, CoverInv, Reading, None
<1>2. CASE ReadRows
  <2> DEFINE t == order[reader.at]
  <2>1. /\ reader.pc = "rows" /\ reader' = Following("rows", "rest")
        /\ bundle' = [bundle EXCEPT ![t] = content[t]]
        /\ UNCHANGED <<content, writes, moments, print>>
    BY <1>2 DEF ReadRows
  <2> HIDE DEF t
  <2>2. /\ bundle' \in [Tables -> Nat]
        /\ \A u \in Tables : bundle'[u] = bundle[u] \/ bundle'[u] = content[u]
    BY <1>0, <2>1 DEF ExportType
  <2>3. /\ reader'.pc \in {"rows", "rest"} /\ reader'.at \in Nat
        /\ reader' \in [pc : {"idle", "rows", "rest", "print", "exported", "verified"}, at : Nat]
    BY <1>0, <2>1, FollowingType
  <2>4. ExportType'
    BY <2>1, <2>2, <2>3 DEF ExportType
  <2>5. ReadInv'
    <3>1. \A u \in Tables : (bundle[u] = None \/ bundle[u] <= content[u]) /\ print[u] = None
      BY <2>1 DEF ReadInv, Reading
    <3> QED
      BY <1>0, <2>1, <2>2, <3>1 DEF ReadInv, None
  <2> QED
    BY <2>3, <2>4, <2>5 DEF MomentInv, CoverInv, Reading
<1>3. CASE ReadRest
  <2>1. /\ reader.pc = "rest" /\ reader' = [pc |-> "print", at |-> 1]
        /\ UNCHANGED <<content, writes, moments, bundle, print>>
    BY <1>3 DEF ReadRest
  <2>2. ExportType'
    BY <2>1 DEF ExportType
  <2>3. \A t \in Tables : (bundle[t] = None \/ bundle[t] <= content[t]) /\ print[t] = None
    BY <2>1 DEF ReadInv, Reading
  <2>4. MomentInv'
    <3>1. PICK m \in moments : m = content
      BY DEF ExportType
    <3>2. m \in moments' /\ Between(m)'
      BY <1>0, <2>1, <2>3, <3>1 DEF Between, None
    <3> QED
      BY <3>2 DEF MomentInv
  <2>5. ReadInv' /\ CoverInv'
    BY <2>1, TablesAre DEF ReadInv, CoverInv, Reading
  <2> QED
    BY <2>2, <2>4, <2>5
<1>4. CASE VerifyUpgrade
  <2>1. /\ reader.pc = "exported" /\ bundle = print /\ reader' = [reader EXCEPT !.pc = "verified"]
        /\ UNCHANGED <<content, writes, moments, bundle, print>>
    BY <1>4 DEF VerifyUpgrade
  <2>2. ExportType' /\ reader'.pc = "verified"
    BY <2>1 DEF ExportType
  <2>3. MomentInv'
    <3>1. PICK m \in moments : Between(m)
      BY <2>1 DEF MomentInv, Reading
    <3>2. m \in moments' /\ Between(m)'
      BY <2>1, <3>1 DEF Between, None
    <3> QED
      BY <3>2 DEF MomentInv
  <2> QED
    BY <2>1, <2>2, <2>3 DEF ReadInv, CoverInv, Reading, None
<1> QED
  BY <1>1, <1>2, <1>3, <1>4

LEMMA FingerprintKeeps ==
  ASSUME ExportAssumption, ExportInv, Fingerprint
  PROVE  ExportInv'
<1> USE DEF ExportInv
<1> DEFINE t == reader.at
<1>1. /\ reader.pc = "print" /\ reader' = Following("print", "exported")
      /\ print' = [print EXCEPT ![t] = content[t]]
      /\ UNCHANGED <<content, writes, moments, bundle>>
  BY DEF Fingerprint
<1>2. t \in Nat /\ \A u \in Tables : content[u] \in Nat /\ content[u] <= MaxWrites /\ print[u] \in Nat
  BY TablesAre DEF ExportType
<1>3. /\ print' \in [Tables -> Nat]
      /\ \A u \in Tables : IF u = t THEN print'[u] = content[u] ELSE print'[u] = print[u]
  BY <1>1, <1>2 DEF ExportType
<1>4. /\ reader' \in [pc : {"idle", "rows", "rest", "print", "exported", "verified"}, at : Nat]
      /\ reader'.pc \in {"print", "exported"}
      /\ reader'.pc = "print" => reader'.at = t + 1
      /\ reader'.pc = "exported" => t >= Cardinality(Tables)
  BY <1>1, <1>2, FollowingType
<1> HIDE DEF t
<1>5. ExportType'
  BY <1>1, <1>3, <1>4 DEF ExportType
<1>6. MomentInv'
  <2>1. PICK m \in moments : Between(m)
    BY <1>1 DEF MomentInv, Reading
  <2>2. m \in moments' /\ Between(m)'
    BY <1>1, <1>2, <1>3, <2>1 DEF Between, None
  <2> QED
    BY <2>2 DEF MomentInv
<1>7. CoverInv'
  <2>1. \A u \in Tables : u < t => print[u] # None
    BY <1>1 DEF CoverInv, t
  <2>2. \A u \in Tables : u <= t => print'[u] # None'
    BY <1>2, <1>3, <2>1, TablesAre DEF None
  <2> QED
    BY <1>2, <1>4, <2>2, TablesAre DEF CoverInv
<1> QED
  BY <1>4, <1>5, <1>6, <1>7 DEF ReadInv, Reading

LEMMA ExportSteps ==
  ASSUME ExportAssumption, ExportInv, [ExportNext]_exportVars
  PROVE  ExportInv'
<1>1. CASE UNCHANGED exportVars
  BY <1>1 DEF exportVars, ExportInv, ExportType, ReadInv, MomentInv, Between, CoverInv, Reading, None
<1> QED
  BY <1>1, SourceWriteKeeps, ReaderKeeps, FingerprintKeeps DEF ExportNext

\* For any tables, foreign keys and writes meanwhile: what a verified export holds is what all
\* tables held at one moment (exportSource, fingerprintSource, verifyUpgrade).
THEOREM ExportSnapshotOrRefused == ExportAssumption => (ExportSpec => []SnapshotOrRefused)
<1> SUFFICES ASSUME ExportAssumption PROVE ExportSpec => []SnapshotOrRefused
  OBVIOUS
<1>1. ExportInv => SnapshotOrRefused
  <2> SUFFICES ASSUME ExportInv, reader.pc = "verified" PROVE bundle \in moments
    BY DEF SnapshotOrRefused
  <2>1. PICK m \in moments : Between(m)
    BY DEF ExportInv, MomentInv, Reading
  <2>2. m \in [Tables -> Nat] /\ bundle \in [Tables -> Nat]
    BY DEF ExportInv, ExportType
  <2>3. ASSUME NEW t \in Tables PROVE bundle[t] = m[t]
    BY <2>1, <2>2 DEF ExportInv, CoverInv, Between
  <2> QED
    BY <2>1, <2>2, <2>3
<1> QED
  BY <1>1, ExportStarts, ExportSteps, PTL DEF ExportSpec

--------------------------------------------------------------------------------
(* The order of the tables: each of its places can be filled, so there is one *)
(* that topoOrder builds, and it has every table once.                        *)

\* A set of natural numbers has a least element.
LEMMA LeastNumber ==
  ASSUME NEW T \in SUBSET Nat, T # {}
  PROVE  \E n \in T : \A m \in T : n <= m
<1>1. PICK n \in T : \A m \in T : ~(<<m, n>> \in OpToRel(<, Nat))
  BY NatLessThanWellFounded, WFMin
<1>2. \A m \in T : ~(m < n)
  BY <1>1 DEF OpToRel
<1> QED
  BY <1>2

\* The first i tables of an order that topoOrder may build.
Built(graph, out, i) == \A k \in 1..i : out[k] = Min(NextTables(graph, out, k))

LEMMA FirstOf ==
  ASSUME ExportAssumption, NEW S \in SUBSET Tables, S # {}
  PROVE  Min(S) \in S
<1>1. S \in SUBSET Nat
  BY TablesAre
<1>2. \E x \in S : \A y \in S : x <= y
  BY <1>1, LeastNumber
<1> QED
  BY <1>2 DEF Min

\* Fewer places than tables leave one over.
LEMMA SomeLeft ==
  ASSUME ExportAssumption, NEW i \in 1..Cardinality(Tables), NEW n \in Nat, i <= n + 1,
         NEW out \in [1..n -> Tables]
  PROVE  Tables \ OutBefore(out, i) # {}
<1> SUFFICES ASSUME Tables \subseteq OutBefore(out, i) PROVE FALSE
  OBVIOUS
<1> DEFINE part == [j \in 1..(i - 1) |-> out[j]]
<1>1. Cardinality(Tables) \in Nat
  BY TablesAre
<1>2. IsFiniteSet(1..(i - 1)) /\ Cardinality(1..(i - 1)) = i - 1
  <2>1. /\ IsFiniteSet(1..(i - 1))
        /\ Cardinality(1..(i - 1)) = IF 1 > i - 1 THEN 0 ELSE (i - 1 - 1) + 1
    <3>1. 1 \in Int /\ i - 1 \in Int
      BY <1>1
    <3> HIDE DEF part
    <3> QED
      BY <3>1, FS_Interval
  <2> QED
    BY <1>1, <2>1
<1>3. part \in Surjection(1..(i - 1), Tables)
  <2>1. part \in [1..(i - 1) -> Tables]
    BY <1>1
  <2>2. ASSUME NEW t \in Tables PROVE \E j \in 1..(i - 1) : part[j] = t
    BY DEF OutBefore
  <2> QED
    BY <2>1, <2>2 DEF Surjection
<1>4. Cardinality(Tables) <= i - 1
  <2> HIDE DEF part
  <2> QED
    BY <1>2, <1>3, FS_Surjection
<1> QED
  BY <1>1, <1>4

\* There is always a candidate, and it is not out yet.
LEMMA CandidatesLeft ==
  ASSUME ExportAssumption, NEW graph, NEW n \in Nat, NEW out \in [1..n -> Tables],
         NEW i \in 1..Cardinality(Tables), i <= n + 1
  PROVE  /\ NextTables(graph, out, i) # {}
         /\ NextTables(graph, out, i) \subseteq Tables \ OutBefore(out, i)
<1>1. Ready(graph, OutBefore(out, i)) \subseteq Tables \ OutBefore(out, i)
  BY DEF Ready
<1>2. ~Stuck(graph, out, i) => Ready(graph, OutBefore(out, i)) # {}
  BY TablesAre DEF Stuck
<1> QED
  BY <1>1, <1>2, SomeLeft DEF NextTables

\* topoOrder builds an order.
LEMMA OrderExists ==
  ASSUME ExportAssumption, NEW graph
  PROVE  \E out \in [1..Cardinality(Tables) -> Tables] : Built(graph, out, Cardinality(Tables))
<1> DEFINE N == Cardinality(Tables)
           T == {n \in 0..N : ~\E out \in [1..n -> Tables] : Built(graph, out, n)}
<1>1. N \in Nat
  BY TablesAre
<1>2. SUFFICES ASSUME T # {} PROVE FALSE
  BY <1>1
<1>3. PICK n \in T : \A m \in T : n <= m
  <2>1. T \in SUBSET Nat
    BY <1>1
  <2> HIDE DEF T
  <2> QED
    BY <1>2, <2>1, LeastNumber
<1>4. n \in 1..N
  <2>1. n # 0
    <3>1. [j \in 1..0 |-> 0] \in [1..0 -> Tables] /\ Built(graph, [j \in 1..0 |-> 0], 0)
      BY DEF Built
    <3> QED
      BY <3>1
  <2> QED
    BY <1>1, <2>1
<1>5. PICK out \in [1..(n - 1) -> Tables] : Built(graph, out, n - 1)
  <2>1. n - 1 \in 0..N /\ n - 1 \notin T
    BY <1>1, <1>3, <1>4
  <2> QED
    BY <2>1
<1> DEFINE next == Min(NextTables(graph, out, n))
           longer == [j \in 1..n |-> IF j = n THEN next ELSE out[j]]
<1>6. next \in Tables
  <2>1. NextTables(graph, out, n) \in SUBSET Tables /\ NextTables(graph, out, n) # {}
    BY <1>1, <1>4, CandidatesLeft
  <2> QED
    BY <2>1, FirstOf
<1>7. longer \in [1..n -> Tables]
  BY <1>4, <1>5, <1>6
<1>8. ASSUME NEW i \in 1..n PROVE NextTables(graph, longer, i) = NextTables(graph, out, i)
  <2>1. \A k \in 1..i : OutBefore(longer, k) = OutBefore(out, k)
    <3>1. ASSUME NEW k \in 1..i, NEW j \in 1..(k - 1) PROVE longer[j] = out[j]
      BY <1>1, <1>4
    <3> HIDE DEF longer
    <3> QED
      BY <3>1 DEF OutBefore
  <2>2. i \in 1..i
    BY <1>1, <1>4
  <2> HIDE DEF longer
  <2> QED
    BY <2>1, <2>2 DEF NextTables, Stuck
<1>9. Built(graph, longer, n)
  <2>1. \A i \in 1..(n - 1) : longer[i] = out[i] /\ i \in 1..n
    BY <1>1, <1>4
  <2>2. longer[n] = next /\ n \in 1..n
    BY <1>1, <1>4
  <2>3. \A i \in 1..n : i \in 1..(n - 1) \/ i = n
    BY <1>1, <1>4
  <2> HIDE DEF longer
  <2> QED
    BY <1>5, <1>8, <2>1, <2>2, <2>3 DEF Built
<1> QED
  BY <1>4, <1>7, <1>9

LEMMA OrderBuilt ==
  ASSUME ExportAssumption, NEW graph
  PROVE  /\ TopoOrder(graph) \in [1..Cardinality(Tables) -> Tables]
         /\ Built(graph, TopoOrder(graph), Cardinality(Tables))
<1> DEFINE N == Cardinality(Tables)
<1>1. \E out \in [1..N -> Tables] : \A i \in DOMAIN out : out[i] = Min(NextTables(graph, out, i))
  BY OrderExists DEF Built
<1> QED
  BY <1>1 DEF TopoOrder, Built

\* No table comes twice, so every one comes.
LEMMA OrderCovers ==
  ASSUME ExportAssumption, NEW graph, NEW out \in [1..Cardinality(Tables) -> Tables],
         Built(graph, out, Cardinality(Tables))
  PROVE  {out[i] : i \in 1..Cardinality(Tables)} = Tables
<1> DEFINE N == Cardinality(Tables)
<1>1. N \in Nat /\ IsFiniteSet(Tables)
  BY TablesAre DEF ExportAssumption
<1>2. ASSUME NEW i \in 1..N PROVE out[i] \notin OutBefore(out, i)
  <2>1. NextTables(graph, out, i) # {} /\ NextTables(graph, out, i) \subseteq Tables \ OutBefore(out, i)
    BY <1>1, CandidatesLeft
  <2> QED
    BY <2>1, FirstOf DEF Built
<1>3. ASSUME NEW i \in 1..N, NEW j \in 1..N, out[i] = out[j] PROVE i = j
  <2>1. \A a, b \in 1..N : a < b => out[a] \in OutBefore(out, b)
    BY <1>1 DEF OutBefore
  <2> QED
    BY <1>1, <1>2, <1>3, <2>1
<1>4. out \in Injection(1..N, Tables)
  BY <1>3 DEF Injection, IsInjective
<1>5. IsFiniteSet(1..N) /\ Cardinality(1..N) = N
  <2>1. IsFiniteSet(1..N) /\ Cardinality(1..N) = IF 1 > N THEN 0 ELSE (N - 1) + 1
    BY <1>1, FS_Interval
  <2> QED
    BY <1>1, <2>1
<1>6. out \in Surjection(1..N, Tables)
  BY <1>1, <1>4, <1>5, FS_Injection
<1> QED
  BY <1>6 DEF Surjection

\* What comes before its references is on a cycle or behind one: none of what was left when the
\* loop ended was ready.
LEMMA OrderReferences ==
  ASSUME ExportAssumption, NEW graph \in [Tables -> SUBSET Tables], NEW out \in [1..Cardinality(Tables) -> Tables],
         Built(graph, out, Cardinality(Tables)), NEW i \in 1..Cardinality(Tables)
  PROVE  \/ Deps(graph, out[i]) \subseteq OutBefore(out, i)
         \/ \E S \in SUBSET Tables : out[i] \in S /\ \A t \in S : Deps(graph, t) \cap S # {}
<1>1. Cardinality(Tables) \in Nat
  BY TablesAre
<1>2. out[i] \in NextTables(graph, out, i) /\ NextTables(graph, out, i) \subseteq Tables \ OutBefore(out, i)
  <2>1. NextTables(graph, out, i) # {} /\ NextTables(graph, out, i) \subseteq Tables \ OutBefore(out, i)
    BY <1>1, CandidatesLeft
  <2> QED
    BY <2>1, FirstOf DEF Built
<1>3. CASE ~Stuck(graph, out, i)
  BY <1>2, <1>3 DEF NextTables, Ready
<1>4. CASE Stuck(graph, out, i)
  <2>1. PICK k \in 1..i : Ready(graph, OutBefore(out, k)) = {}
    BY <1>4 DEF Stuck
  <2> DEFINE S == Tables \ OutBefore(out, k)
  <2>2. OutBefore(out, k) \subseteq OutBefore(out, i)
    BY <1>1 DEF OutBefore
  <2>3. out[i] \in S
    BY <1>2, <2>2
  <2>4. \A t \in S : Deps(graph, t) \cap S # {}
    <3>1. \A t \in S : ~(Deps(graph, t) \subseteq OutBefore(out, k))
      BY <2>1 DEF Ready
    <3>2. \A t \in Tables : Deps(graph, t) \subseteq Tables
      BY DEF Deps
    <3> QED
      BY <3>1, <3>2
  <2> QED
    BY <2>3, <2>4
<1> QED
  BY <1>3, <1>4

\* Whatever the foreign keys: every table comes once, and after those it references unless it is on
\* a cycle or behind one (topoOrder).
THEOREM ExportReferencedFirst == ExportAssumption => (ExportSpec => []ReferencedFirst)
<1> SUFFICES ASSUME ExportAssumption PROVE ExportSpec => []ReferencedFirst
  OBVIOUS
<1> DEFINE OrderInv == refers \in [Tables -> SUBSET Tables] /\ order = TopoOrder(refers)
<1>1. ExportInit => OrderInv
  BY DEF ExportInit
<1>2. OrderInv /\ [ExportNext]_exportVars => OrderInv'
  BY DEF ExportNext, ExportSource, ReadRows, ReadRest, Fingerprint, VerifyUpgrade, Write, exportVars
<1>3. OrderInv => ReferencedFirst
  <2> SUFFICES ASSUME OrderInv PROVE ReferencedFirst
    OBVIOUS
  <2> DEFINE N == Cardinality(Tables)
  <2>1. N \in Nat /\ order \in [1..N -> Tables] /\ Built(refers, order, N)
    BY TablesAre, OrderBuilt
  <2>2. Len(order) = N /\ DOMAIN order = 1..N
    BY <2>1
  <2>3. {order[i] : i \in 1..N} = Tables
    BY <2>1, OrderCovers
  <2>4. ASSUME NEW i \in 1..N
        PROVE  \/ Deps(refers, order[i]) \subseteq {order[j] : j \in 1..(i - 1)}
               \/ \E S \in SUBSET Tables : order[i] \in S /\ \A t \in S : Deps(refers, t) \cap S # {}
    <3>1. \/ Deps(refers, order[i]) \subseteq OutBefore(order, i)
          \/ \E S \in SUBSET Tables : order[i] \in S /\ \A t \in S : Deps(refers, t) \cap S # {}
      BY <2>1, OrderReferences
    <3>2. OutBefore(order, i) = {order[j] : j \in 1..(i - 1)}
      BY DEF OutBefore
    <3> QED
      BY <3>1, <3>2
  <2> QED
    BY <2>2, <2>3, <2>4 DEF ReferencedFirst
<1> QED
  BY <1>1, <1>2, <1>3, PTL DEF ExportSpec

--------------------------------------------------------------------------------
(* The plan: SafeKeeps.                                                       *)
(*                                                                            *)
(* Risk looks at the kinds of the changes only, so the proof has to find of   *)
(* each kind that is not destructive that its statements leave every table    *)
(* and every column.  That is so of a step that is not refused: CREATE TABLE  *)
(* over a table that is there would lose it.                                  *)

\* The fields that are written one at a time are there.
Typed(cols)   == \A c \in DOMAIN cols : "type" \in DOMAIN cols[c]
IsSchema(s)   == \A t \in DOMAIN s : "cols" \in DOMAIN s[t] /\ Typed(s[t].cols)
IsDatabase(d) == {"tables", "seqs", "owned"} \subseteq DOMAIN d /\ IsSchema(d.tables)
IsPlan(p)     == {"goal", "mapping", "risk", "steps", "status", "from", "before", "had"} \subseteq DOMAIN p

\* The constraints are of the four kinds, so no other change has the kind of a constraint's.
OfKinds(s) == \A t \in DOMAIN s : \A k \in s[t].cons : k.kind \in {"unique", "fk", "check", "index"}

\* The values of d are in the tables of e.
InTables(d, e) == \A p \in d : p[1] \in DOMAIN e.tables /\ p[2] \in DOMAIN e.tables[p[1]].cols

\* No table and no column of d is missing in e.
Extends(d, e) ==
  \A t \in DOMAIN d.tables :
    t \in DOMAIN e.tables /\ DOMAIN d.tables[t].cols \subseteq DOMAIN e.tables[t].cols

\* The type of a column is as it was.
SameType(d, e, t, c) == e.tables[t].cols[c].type = d.tables[t].cols[c].type

Alters(ch, t, c) == ch.kind = "alter-column" /\ ch.table = t /\ ch.column = c

ShapeInv ==
  /\ IsDatabase(db) /\ IsPlan(plan) /\ IsSchema(plan.goal) /\ IsDatabase(plan.before)
  /\ OfKinds(recorded) /\ OfKinds(plan.goal)

\* A step makes no table but one of the goal, and none of a safe plan is destructive.
StepsInv ==
  \A ch \in plan.steps :
    /\ ch.kind \in {"create-table", "rebuild-table"} => ch.table \in DOMAIN plan.goal
    /\ plan.risk = "safe" => ch.kind \notin Destructive

\* A safe plan under way has lost no column, and one it has yet to alter is of the type it had.
AltersInv ==
  plan.status = "applying" /\ plan.risk = "safe" =>
    /\ recorded = plan.from /\ Extends(plan.before, db)
    /\ \A ch \in plan.steps :
         ch.kind = "alter-column" =>
           /\ ch = Change("alter-column", ch.table, ch.column, NoCon)
           /\ ch \in Changes(plan.from, plan.goal, plan.mapping)
           /\ ch.table \in DOMAIN plan.before.tables
              /\ ch.column \in DOMAIN plan.before.tables[ch.table].cols =>
                SameType(plan.before, db, ch.table, ch.column)

\* A value is there, or what the plan has narrowed it to.
StillThere(p) == p \in data \/ (Narrowed(p[1], p[2]) /\ <<p[1], p[2], "cut">> \in data)

\* Values are in tables that are there, and those a safe plan started from are all still there.
ValuesInv ==
  /\ InTables(data, db) /\ InTables(plan.had, plan.before)
  /\ plan.status \in {"applying", "applied"} /\ plan.risk = "safe" => \A p \in plan.had : StillThere(p)

PlannedInv == ShapeInv /\ StepsInv /\ AltersInv /\ ValuesInv

--------------------------------------------------------------------------------
LEMMA ParseIsSchema ==
  ASSUME NEW ddl
  PROVE  IsSchema(Parse(ddl))
BY DEF Parse, ParseTable, ParseColumn, IsSchema, Typed

LEMMA ParseOfKinds ==
  ASSUME PlanAssumption, NEW ddl \in Sources
  PROVE  OfKinds(Parse(ddl))
<1> SUFFICES ASSUME NEW t \in DOMAIN ddl, NEW k \in ParseCons(ddl[t])
             PROVE  k.kind \in {"unique", "fk", "check", "index"}
  BY DEF Parse, ParseTable, OfKinds
<1>1. CASE k \in ddl[t].cons
  BY <1>1 DEF PlanAssumption
<1>2. ASSUME NEW c, NEW none, k = [kind |-> "unique", name |-> "key", on |-> c, ref |-> none, action |-> none]
      PROVE  k.kind = "unique"
  BY <1>2
<1> QED BY <1>1, <1>2, Zenon DEF ParseCons

\* A change bears its kind and its table.
LEMMA ChangeOf ==
  ASSUME NEW k, NEW t, NEW c, NEW con
  PROVE  Change(k, t, c, con).kind = k /\ Change(k, t, c, con).table = t
BY DEF Change

LEMMA DiffTableOfTable ==
  ASSUME NEW t, NEW x, NEW y, NEW ch \in DiffTable(t, x, y)
  PROVE  ch.table = t
<1>1. \E k, c, con : ch = Change(k, t, c, con)
  BY DEF DiffTable, DiffCons
<1> QED BY <1>1, ChangeOf

LEMMA DiffTables ==
  ASSUME NEW a, NEW b, NEW ch \in Diff(a, b)
  PROVE  ch.kind \in {"create-table", "rebuild-table"} \cup RebuildKinds => ch.table \in DOMAIN b
<1>1. CASE \E t \in DOMAIN a \cap DOMAIN b : ch \in DiffTable(t, a[t], b[t])
  BY <1>1, DiffTableOfTable
<1>2. CASE \E t \in DOMAIN b \ DOMAIN a : ch = Change("create-table", t, "", NoCon)
  <2>1. PICK t \in DOMAIN b \ DOMAIN a : ch = Change("create-table", t, "", NoCon)
    BY <1>2
  <2>2. ch.table = t
    BY <2>1 DEF Change
  <2> QED BY <2>1, <2>2
<1>3. CASE \E k \in {"create-sequence", "drop-sequence", "drop-table"} :
             \E t, c : ch = Change(k, t, c, NoCon)
  BY <1>3, ChangeOf DEF RebuildKinds
<1> QED BY <1>1, <1>2, <1>3 DEF Diff

LEMMA ChangesTables ==
  ASSUME NEW a, NEW b, NEW m, NEW ch \in Changes(a, b, m)
  PROVE  ch.kind \in {"create-table", "rebuild-table"} => ch.table \in DOMAIN b
<1> DEFINE raw == ApplyRenames(Diff(a, b), m)
<1>1. \A k \in raw : k \in Diff(a, b)
  BY DEF ApplyRenames
<1>2. \A k \in raw : k.kind \in {"create-table", "rebuild-table"} \cup RebuildKinds => k.table \in DOMAIN b
  BY <1>1, DiffTables
<1>3. CASE ch \in raw
  BY <1>2, <1>3
<1>4. CASE ch \in {Change("rebuild-table", t, "", NoCon) : t \in RebuiltTables(raw)}
  <2>1. PICK t \in RebuiltTables(raw) : ch = Change("rebuild-table", t, "", NoCon)
    BY <1>4
  <2>2. ch.table = t
    BY <2>1 DEF Change
  <2>3. t \in DOMAIN b
    BY <1>2, <2>1 DEF RebuiltTables
  <2> QED BY <2>2, <2>3
<1> QED BY <1>3, <1>4 DEF Changes, Collapse

\* Every change of a column is the one change of that column.
LEMMA AlterIs ==
  ASSUME NEW a, NEW b, OfKinds(a), OfKinds(b), NEW m, NEW ch \in Changes(a, b, m),
         ch.kind = "alter-column"
  PROVE  ch = Change("alter-column", ch.table, ch.column, NoCon)
<1> DEFINE raw == ApplyRenames(Diff(a, b), m)
<1>1. ch \in Diff(a, b)
  <2>1. ch \in raw \/ \E t : ch = Change("rebuild-table", t, "", NoCon)
    BY DEF Changes, Collapse
  <2>2. ASSUME NEW t, NEW c PROVE ch # Change("rebuild-table", t, c, NoCon)
    BY DEF Change
  <2> QED BY <2>1, <2>2 DEF ApplyRenames
<1>2. \E t \in DOMAIN a \cap DOMAIN b : ch \in DiffTable(t, a[t], b[t])
  <2>1. ASSUME NEW k \in {"create-sequence", "drop-sequence", "create-table", "drop-table"}, NEW t, NEW c
        PROVE  ch # Change(k, t, c, NoCon)
    BY DEF Change
  <2> QED BY <1>1, <2>1 DEF Diff
<1>3. PICK t \in DOMAIN a \cap DOMAIN b : ch \in DiffTable(t, a[t], b[t])
  BY <1>2
<1>4. ch \notin DiffCons(t, a[t].cons, b[t].cons)
  <2>1. \A k \in a[t].cons \cup b[t].cons :
          AddOf[k.kind] # "alter-column" /\ DropOf[k.kind] # "alter-column"
    BY DEF OfKinds, AddOf, DropOf
  <2> QED BY <2>1, ChangeOf DEF DiffCons
<1>5. \E c : ch = Change("alter-column", t, c, NoCon)
  <2>1. ASSUME NEW k \in {"add-column", "drop-column", "set-primary-key"}, NEW c
        PROVE  ch # Change(k, t, c, NoCon)
    BY DEF Change
  <2> QED BY <1>3, <1>4, <2>1 DEF DiffTable
<1> QED BY <1>5 DEF Change

LEMMA EmptyDatabase ==
  ASSUME NEW gone
  PROVE  LET d == [tables |-> Empty, seqs |-> {}, owned |-> {}, enums |-> gone]
         IN  IsDatabase(d) /\ IsSchema(Empty) /\ OfKinds(Empty) /\ InTables({}, d)
BY DEF IsDatabase, IsSchema, OfKinds, Empty, InTables

\* A step that changes one table.
LEMMA SetTableKeeps ==
  ASSUME IsDatabase(db), NEW t, NEW x, t \in DOMAIN db.tables => "cols" \in DOMAIN x /\ Typed(x.cols)
  PROVE  /\ IsDatabase(SetTable(t, x))
         /\ DOMAIN SetTable(t, x).tables = DOMAIN db.tables
         /\ \A u \in DOMAIN db.tables : SetTable(t, x).tables[u] = IF u = t THEN x ELSE db.tables[u]
<1>1. SetTable(t, x).tables = [db.tables EXCEPT ![t] = x] /\ DOMAIN SetTable(t, x) = DOMAIN db
  BY DEF SetTable, IsDatabase
<1>2. \A u \in DOMAIN db.tables : [db.tables EXCEPT ![t] = x][u] = IF u = t THEN x ELSE db.tables[u]
  OBVIOUS
<1>3. IsSchema([db.tables EXCEPT ![t] = x])
  BY <1>2 DEF IsDatabase, IsSchema
<1> QED BY <1>1, <1>2, <1>3 DEF IsDatabase

\* What a step that is not destructive leaves: every table and column, and every type but that of
\* the column it alters.
Leaves(ch, e) ==
  /\ Extends(db, e)
  /\ \A t \in DOMAIN db.tables : \A c \in DOMAIN db.tables[t].cols :
       ~Alters(ch, t, c) => SameType(db, e, t, c)

LEMMA SetTableLeaves ==
  ASSUME IsDatabase(db), NEW ch, NEW t, NEW x,
         t \in DOMAIN db.tables =>
           /\ "cols" \in DOMAIN x /\ Typed(x.cols)
           /\ DOMAIN db.tables[t].cols \subseteq DOMAIN x.cols
           /\ \A c \in DOMAIN db.tables[t].cols :
                ~Alters(ch, t, c) => x.cols[c].type = db.tables[t].cols[c].type
  PROVE  IsDatabase(SetTable(t, x)) /\ Leaves(ch, SetTable(t, x))
<1>1. /\ IsDatabase(SetTable(t, x))
      /\ DOMAIN SetTable(t, x).tables = DOMAIN db.tables
      /\ \A u \in DOMAIN db.tables : SetTable(t, x).tables[u] = IF u = t THEN x ELSE db.tables[u]
  BY SetTableKeeps
<1>2. Extends(db, SetTable(t, x))
  BY <1>1 DEF Extends
<1>3. ASSUME NEW u \in DOMAIN db.tables, NEW c \in DOMAIN db.tables[u].cols, ~Alters(ch, u, c)
      PROVE  SameType(db, SetTable(t, x), u, c)
  BY <1>1, <1>3 DEF SameType
<1> QED BY <1>1, <1>2, <1>3 DEF Leaves

\* What a primary key makes of its columns.
LEMMA NotNullTyped ==
  ASSUME NEW cols, Typed(cols), NEW pk
  PROVE  /\ DOMAIN NotNull(cols, pk) = DOMAIN cols /\ Typed(NotNull(cols, pk))
         /\ \A c \in DOMAIN cols : NotNull(cols, pk)[c].type = cols[c].type
<1>1. DOMAIN NotNull(cols, pk) = DOMAIN cols
  BY DEF NotNull
<1>2. ASSUME NEW c \in DOMAIN cols
      PROVE  "type" \in DOMAIN NotNull(cols, pk)[c] /\ NotNull(cols, pk)[c].type = cols[c].type
  <2>1. "type" \in DOMAIN cols[c]
    BY DEF Typed
  <2>2. NotNull(cols, pk)[c] \in {cols[c], [cols[c] EXCEPT !.nullable = FALSE]}
    BY DEF NotNull
  <2> QED BY <2>1, <2>2
<1> QED BY <1>1, <1>2 DEF Typed

--------------------------------------------------------------------------------
\* A step that is carried out leaves tables and columns in the shape they have; one that is not
\* destructive leaves every one of them, and its type unless it alters it.
LEMMA EffectShape ==
  ASSUME ShapeInv, StepsInv, NEW ch \in plan.steps, ~Fails(ch)
  PROVE  /\ IsDatabase(Effect(ch))
         /\ ch.kind \notin Destructive => Leaves(ch, Effect(ch))
<1> DEFINE t == ch.table
<1> DEFINE table == db.tables[t]
<1>1. IsDatabase(db) /\ (t \in DOMAIN db.tables => "cols" \in DOMAIN table /\ Typed(table.cols))
  BY DEF ShapeInv, IsDatabase, IsSchema
<1>2. ASSUME NEW d, d.tables = db.tables, DOMAIN d = DOMAIN db
      PROVE  IsDatabase(d) /\ Leaves(ch, d)
  BY <1>1, <1>2 DEF IsDatabase, Leaves, Extends, SameType
<1>3. ASSUME NEW x, t \in DOMAIN db.tables => "cols" \in DOMAIN x /\ Typed(x.cols) /\ DOMAIN table.cols \subseteq DOMAIN x.cols,
             t \in DOMAIN db.tables =>
               \A c \in DOMAIN table.cols : ~Alters(ch, t, c) => x.cols[c].type = table.cols[c].type
      PROVE  IsDatabase(SetTable(t, x)) /\ Leaves(ch, SetTable(t, x))
  BY <1>1, <1>3, SetTableLeaves
<1>4. CASE ch.kind \in {"create-sequence", "drop-sequence"}
  <2>1. Effect(ch).tables = db.tables /\ DOMAIN Effect(ch) = DOMAIN db
    BY <1>1, <1>4 DEF Effect, IsDatabase
  <2> QED BY <1>2, <2>1
<1>5. CASE ch.kind = "create-table"
  <2>1. t \in DOMAIN plan.goal /\ t \notin DOMAIN db.tables
    BY <1>5 DEF StepsInv, Fails, Present
  <2>2. "cols" \in DOMAIN Created(Goal(t)) /\ Typed(Created(Goal(t)).cols)
    <3>1. "cols" \in DOMAIN Goal(t) /\ Typed(Goal(t).cols)
      BY <2>1 DEF ShapeInv, IsSchema, Goal
    <3>2. CASE dialect = "postgres"
      <4>1. "cols" \in DOMAIN Created(Goal(t)) /\ Created(Goal(t)).cols = NotNull(Goal(t).cols, Goal(t).pk)
        BY <3>1, <3>2 DEF Created
      <4> QED BY <3>1, <4>1, NotNullTyped
    <3> QED BY <3>1, <3>2 DEF Created
  <2>3. Effect(ch).tables = With(db.tables, t, Created(Goal(t))) /\ DOMAIN Effect(ch) = DOMAIN db
    BY <1>1, <1>5 DEF Effect, IsDatabase
  <2>4. /\ DOMAIN Effect(ch).tables = DOMAIN db.tables \cup {t}
        /\ Effect(ch).tables[t] = Created(Goal(t))
        /\ \A u \in DOMAIN db.tables : Effect(ch).tables[u] = db.tables[u]
    BY <2>1, <2>3 DEF With
  <2>5. IsDatabase(Effect(ch))
    BY <1>1, <2>2, <2>3, <2>4 DEF IsDatabase, IsSchema
  <2>6. Leaves(ch, Effect(ch))
    BY <2>4 DEF Leaves, Extends, SameType
  <2> QED BY <2>5, <2>6
<1>6. CASE ch.kind = "drop-table"
  <2>1. Effect(ch).tables = Without(t) /\ DOMAIN Effect(ch) = DOMAIN db
    BY <1>1, <1>6 DEF Effect, IsDatabase
  <2>2. IsSchema(Without(t))
    BY <1>1 DEF Without, IsDatabase, IsSchema
  <2>3. ch.kind \in Destructive
    BY <1>6 DEF Destructive
  <2> QED BY <1>1, <2>1, <2>2, <2>3 DEF IsDatabase
<1>7. CASE ch.kind = "rebuild-table"
  <2>1. Effect(ch) = SetTable(t, Goal(t))
    BY <1>7 DEF Effect, Rebuilt
  <2>2. "cols" \in DOMAIN Goal(t) /\ Typed(Goal(t).cols)
    BY <1>7 DEF StepsInv, ShapeInv, IsSchema, Goal
  <2>3. ch.kind \in Destructive
    BY <1>7 DEF Destructive
  <2> QED BY <1>1, <2>1, <2>2, <2>3, SetTableKeeps
<1>8. CASE ch.kind = "add-column"
  <2> DEFINE new == AddedColumn(Goal(t).cols[ch.column])
  <2> DEFINE x == [table EXCEPT !.cols = With(@, ch.column, new)]
  <2>1. Effect(ch) = IF OnlyComment(ch) THEN db ELSE SetTable(t, x)
    BY <1>8 DEF Effect
  <2>2. CASE OnlyComment(ch)
    BY <1>1, <1>2, <2>1, <2>2
  <2>3. CASE ~OnlyComment(ch)
    <3>1. ch.column \notin DOMAIN table.cols
      BY <1>8, <2>3 DEF Fails
    <3>2. "type" \in DOMAIN new
      BY DEF AddedColumn
    <3> HIDE DEF new
    <3>3. t \in DOMAIN db.tables =>
            /\ "cols" \in DOMAIN x /\ DOMAIN x.cols = DOMAIN table.cols \cup {ch.column}
            /\ x.cols[ch.column] = new /\ \A c \in DOMAIN table.cols : x.cols[c] = table.cols[c]
      BY <1>1, <3>1 DEF With
    <3> HIDE DEF x
    <3>4. t \in DOMAIN db.tables => Typed(x.cols)
      BY <1>1, <3>2, <3>3 DEF Typed
    <3> QED BY <1>3, <2>1, <2>3, <3>3, <3>4
  <2> QED BY <2>2, <2>3
<1>9. CASE ch.kind = "drop-column"
  <2> DEFINE x == [cols |-> [k \in DOMAIN table.cols \ {ch.column} |-> table.cols[k]],
                   pk   |-> IF ch.column \in table.pk THEN {} ELSE table.pk,
                   cons |-> {k \in table.cons : k.on # ch.column}]
  <2> DEFINE e == SetTable(t, x)
  <2>1. IsDatabase(e)
    <3>1. t \in DOMAIN db.tables => "cols" \in DOMAIN x /\ Typed(x.cols)
      BY <1>1 DEF Typed
    <3> QED BY <1>1, <3>1, SetTableKeeps
  <2>2. Effect(ch) = [e EXCEPT !.seqs = {s \in @ : ~(s = <<t, ch.column>> /\ s \in db.owned)},
                               !.owned = @ \ {<<t, ch.column>>}]
    BY <1>9 DEF Effect
  <2>3. ch.kind \in Destructive
    BY <1>9 DEF Destructive
  <2> HIDE DEF e
  <2> QED BY <2>1, <2>2, <2>3 DEF IsDatabase
<1>10. CASE ch.kind = "alter-column"
  <2> DEFINE new == EffectOfAlter(t, ch.column)
  <2> DEFINE x == [table EXCEPT !.cols = With(@, ch.column, new)]
  <2>1. Effect(ch) = SetTable(t, x)
    BY <1>10 DEF Effect
  <2>2. "type" \in DOMAIN new
    BY DEF EffectOfAlter
  <2> HIDE DEF new
  <2>3. t \in DOMAIN db.tables =>
          /\ "cols" \in DOMAIN x /\ DOMAIN x.cols = DOMAIN table.cols \cup {ch.column}
          /\ x.cols[ch.column] = new
          /\ \A c \in DOMAIN table.cols \ {ch.column} : x.cols[c] = table.cols[c]
    BY <1>1 DEF With
  <2> HIDE DEF x
  <2>4. t \in DOMAIN db.tables => Typed(x.cols)
    BY <1>1, <2>2, <2>3 DEF Typed
  <2>5. t \in DOMAIN db.tables =>
          \A c \in DOMAIN table.cols : ~Alters(ch, t, c) => x.cols[c].type = table.cols[c].type
    BY <1>10, <2>3 DEF Alters
  <2> QED BY <1>3, <2>1, <2>3, <2>4, <2>5
<1>11. CASE ch.kind = "set-primary-key"
  <2> DEFINE x == [table EXCEPT !.pk = Goal(t).pk, !.cols = NotNull(@, Goal(t).pk)]
  <2>1. Effect(ch) = SetTable(t, x)
    BY <1>11 DEF Effect
  <2>2. t \in DOMAIN db.tables => "cols" \in DOMAIN x /\ x.cols = NotNull(table.cols, Goal(t).pk)
    BY <1>1
  <2> HIDE DEF x
  <2>3. t \in DOMAIN db.tables =>
          /\ DOMAIN x.cols = DOMAIN table.cols /\ Typed(x.cols)
          /\ \A c \in DOMAIN table.cols : x.cols[c].type = table.cols[c].type
    BY <1>1, <2>2, NotNullTyped
  <2> QED BY <1>3, <2>1, <2>2, <2>3
<1>12. CASE ch.kind \notin {"create-sequence", "drop-sequence", "create-table", "drop-table",
                            "rebuild-table", "add-column", "drop-column", "alter-column",
                            "set-primary-key"}
  <2>1. \E k : Effect(ch) \in {SetTable(t, AddCon(table, k)), SetTable(t, DropCon(table, k))}
    BY <1>12 DEF Effect
  <2>2. ASSUME NEW k, t \in DOMAIN db.tables
        PROVE  /\ "cols" \in DOMAIN AddCon(table, k) /\ AddCon(table, k).cols = table.cols
               /\ "cols" \in DOMAIN DropCon(table, k) /\ DropCon(table, k).cols = table.cols
    BY <1>1, <2>2 DEF AddCon, DropCon
  <2> QED BY <1>1, <1>3, <2>1, <2>2
<1> QED BY <1>4, <1>5, <1>6, <1>7, <1>8, <1>9, <1>10, <1>11, <1>12

\* The values of a column a step cuts are still there, cut, and all others as they were.
LEMMA CastKeeps ==
  ASSUME NEW ch
  PROVE  /\ ch.kind \notin Destructive =>
              /\ \A p \in data :
                   p \in Cast(ch) \/ (Cuts(ch) /\ Alters(ch, p[1], p[2]) /\ <<p[1], p[2], "cut">> \in Cast(ch))
              /\ \A t, c : <<t, c, "cut">> \in data => <<t, c, "cut">> \in Cast(ch)
         /\ \A q \in Cast(ch) : \E p \in data : q[1] = p[1] /\ q[2] = p[2]
<1>0. CASE ch.kind = "rebuild-table"
  BY <1>0 DEF Cast, Destructive
<1>1. CASE ch.kind # "rebuild-table" /\ ~Cuts(ch)
  BY <1>1 DEF Cast
<1>2. CASE ch.kind # "rebuild-table" /\ Cuts(ch)
  <2> DEFINE to(p) == IF p[1] = ch.table /\ p[2] = ch.column THEN <<p[1], p[2], "cut">> ELSE p
  <2>1. Cast(ch) = {to(p) : p \in data}
    BY <1>2 DEF Cast
  <2>2. ch.kind = "alter-column"
    BY <1>2 DEF Cuts
  <2>3. \A p \in data : to(p) \in Cast(ch)
    BY <2>1
  <2>4. \A p \in data : to(p) = p \/ (Alters(ch, p[1], p[2]) /\ to(p) = <<p[1], p[2], "cut">>)
    BY <2>2 DEF Alters
  <2>5. \A p \in data : p \in Cast(ch) \/ (Cuts(ch) /\ Alters(ch, p[1], p[2]) /\ <<p[1], p[2], "cut">> \in Cast(ch))
    BY <1>2, <2>3, <2>4
  <2>6. \A t, c : <<t, c, "cut">> \in data => <<t, c, "cut">> \in Cast(ch)
    <3>1. \A t, c : to(<<t, c, "cut">>) = <<t, c, "cut">>
      OBVIOUS
    <3> QED BY <2>3, <3>1
  <2>7. \A p \in data : to(p)[1] = p[1] /\ to(p)[2] = p[2]
    OBVIOUS
  <2>8. \A q \in Cast(ch) : \E p \in data : q[1] = p[1] /\ q[2] = p[2]
    BY <2>1, <2>7
  <2> QED BY <2>5, <2>6, <2>8
<1> QED BY <1>0, <1>1, <1>2

--------------------------------------------------------------------------------
LEMMA PlanInitInv ==
  ASSUME PlanInit
  PROVE  PlannedInv
<1>1. \E gone : db = [tables |-> Empty, seqs |-> {}, owned |-> {}, enums |-> gone]
  BY DEF PlanInit
<1>2. IsDatabase(db) /\ IsSchema(Empty) /\ OfKinds(Empty) /\ InTables({}, db)
  BY <1>1, EmptyDatabase
<1>3. /\ plan.goal = Empty /\ plan.steps = {} /\ plan.status = "none" /\ plan.before = db
      /\ plan.had = {} /\ data = {} /\ recorded = Empty /\ IsPlan(plan)
  BY DEF PlanInit, IsPlan
<1> QED BY <1>2, <1>3 DEF PlannedInv, ShapeInv, StepsInv, AltersInv, ValuesInv

LEMMA MakePlanInv ==
  ASSUME PlanAssumption, PlannedInv, NEW ddl \in Sources, NEW m, NEW allow, MakePlan(Parse(ddl), m, allow)
  PROVE  PlannedInv'
<1> DEFINE changes == Changes(recorded, Parse(ddl), m)
<1>1. /\ db' = db /\ data' = data /\ recorded' = recorded /\ dialect' = dialect
      /\ plan'.goal = Parse(ddl) /\ plan'.before = db /\ plan'.had = data /\ IsPlan(plan')
      /\ plan'.from = recorded /\ plan'.mapping = m
      /\ plan'.steps \in {{}, changes} /\ plan'.risk = Risk(changes, allow)
  BY DEF MakePlan, IsPlan
<1>2. ShapeInv'
  BY <1>1, ParseIsSchema, ParseOfKinds DEF PlannedInv, ShapeInv
<1>3. StepsInv'
  <2>1. Risk(changes, allow) = "safe" => \A ch \in changes : ch.kind \notin Destructive
    BY DEF Risk
  <2>2. \A ch \in changes :
          ch.kind \in {"create-table", "rebuild-table"} => ch.table \in DOMAIN Parse(ddl)
    BY ChangesTables
  <2> QED BY <1>1, <2>1, <2>2 DEF StepsInv
<1>4. AltersInv'
  <2>1. Extends(db, db) /\ \A t, c : SameType(db, db, t, c)
    BY DEF Extends, SameType
  <2>2. changes = Changes(recorded, Parse(ddl), m)'
    BY <1>1 DEF Changes, Collapse
  <2>3. OfKinds(recorded) /\ OfKinds(Parse(ddl))
    BY ParseOfKinds DEF PlannedInv, ShapeInv
  <2>4. \A ch \in changes :
          ch.kind = "alter-column" => ch = Change("alter-column", ch.table, ch.column, NoCon)
    BY <2>3, AlterIs
  <2> HIDE DEF changes
  <2>5. Changes(plan.from, plan.goal, plan.mapping)' = changes
    BY <1>1, <2>2
  <2>6. (db' = db /\ plan'.before = db) => Extends(plan.before, db)' /\ \A t, c : SameType(plan.before, db, t, c)'
    BY <2>1 DEF Extends, SameType
  <2> QED BY <1>1, <2>4, <2>5, <2>6 DEF AltersInv
<1>5. ValuesInv'
  BY <1>1 DEF PlannedInv, ValuesInv, StillThere
<1> QED BY <1>2, <1>3, <1>4, <1>5 DEF PlannedInv

LEMMA AbortInv ==
  ASSUME PlannedInv, Abort
  PROVE  PlannedInv'
<1>1. /\ db' = plan.before /\ data' = plan.had /\ recorded' = recorded
      /\ plan' = [plan EXCEPT !.steps = {}, !.status = "failed"]
  BY DEF Abort
<1>2. /\ plan'.goal = plan.goal /\ plan'.before = plan.before /\ plan'.had = plan.had
      /\ plan'.steps = {} /\ plan'.status = "failed" /\ IsPlan(plan')
  BY <1>1 DEF PlannedInv, ShapeInv, IsPlan
<1> QED BY <1>1, <1>2 DEF PlannedInv, ShapeInv, StepsInv, AltersInv, ValuesInv

LEMMA ApplyStepInv ==
  ASSUME PlannedInv, NEW ch \in plan.steps, ApplyStep(ch)
  PROVE  PlannedInv'
<1>1. CASE Fails(ch)
  BY <1>1, AbortInv DEF ApplyStep
<1>2. CASE ~Fails(ch)
  <2>1. /\ db' = Effect(ch) /\ data' = Kept(Cast(ch), Effect(ch)) /\ recorded' = recorded
        /\ dialect' = dialect /\ plan' = [plan EXCEPT !.steps = @ \ {ch}] /\ plan.status = "applying"
    BY <1>2 DEF ApplyStep
  <2>2. /\ plan'.goal = plan.goal /\ plan'.before = plan.before /\ plan'.had = plan.had
        /\ plan'.from = plan.from /\ plan'.mapping = plan.mapping
        /\ plan'.steps = plan.steps \ {ch} /\ plan'.status = "applying" /\ plan'.risk = plan.risk
        /\ IsPlan(plan')
    BY <2>1 DEF PlannedInv, ShapeInv, IsPlan
  <2>3. IsDatabase(db') /\ (plan.risk = "safe" => Leaves(ch, db'))
    BY <1>2, <2>1, EffectShape DEF PlannedInv, StepsInv
  <2>4. ShapeInv'
    BY <2>1, <2>2, <2>3 DEF PlannedInv, ShapeInv
  <2>5. StepsInv'
    BY <2>2 DEF PlannedInv, StepsInv
  <2>6. Changes(plan.from, plan.goal, plan.mapping)' = Changes(plan.from, plan.goal, plan.mapping)
    BY <2>1, <2>2 DEF Changes, Collapse
  <2>7. AltersInv'
    <3> SUFFICES ASSUME plan.risk = "safe"
                 PROVE  AltersInv'
      BY <2>2 DEF AltersInv
    <3>1. /\ recorded = plan.from /\ Extends(plan.before, db) /\ Extends(db, db')
          /\ ch.kind = "alter-column" => ch = Change("alter-column", ch.table, ch.column, NoCon)
      BY <2>1, <2>3 DEF PlannedInv, AltersInv, Leaves
    <3>2. Extends(plan.before, db)'
      BY <2>2, <3>1 DEF Extends
    <3>3. ASSUME NEW k \in plan.steps \ {ch}, k.kind = "alter-column",
                 k.table \in DOMAIN plan.before.tables,
                 k.column \in DOMAIN plan.before.tables[k.table].cols
          PROVE  SameType(plan.before, db', k.table, k.column)
      <4>1. k = Change("alter-column", k.table, k.column, NoCon) /\ SameType(plan.before, db, k.table, k.column)
        BY <2>1, <3>3 DEF PlannedInv, AltersInv
      <4>2. ~Alters(ch, k.table, k.column)
        BY <3>1, <3>3, <4>1 DEF Alters
      <4>3. k.table \in DOMAIN db.tables /\ k.column \in DOMAIN db.tables[k.table].cols
        BY <3>1, <3>3 DEF Extends
      <4>4. SameType(db, db', k.table, k.column)
        BY <2>3, <4>2, <4>3 DEF Leaves
      <4> QED BY <4>1, <4>4 DEF SameType
    <3>4. \A t, c : SameType(plan.before, db, t, c)' <=> SameType(plan.before, db', t, c)
      BY <2>2 DEF SameType
    <3>5. \A k \in plan.steps : k.kind = "alter-column" =>
            /\ k = Change("alter-column", k.table, k.column, NoCon)
            /\ k \in Changes(plan.from, plan.goal, plan.mapping)
      BY <2>1 DEF PlannedInv, AltersInv
    <3> QED BY <2>1, <2>2, <2>6, <3>1, <3>2, <3>3, <3>4, <3>5 DEF AltersInv
  <2>8. data' = {p \in Cast(ch) : p[1] \in DOMAIN db'.tables /\ p[2] \in DOMAIN db'.tables[p[1]].cols}
    BY <2>1 DEF Kept
  <2>9. InTables(data', db')
    BY <2>8 DEF InTables
  <2>10. ASSUME plan.risk = "safe", NEW p \in plan.had
         PROVE  StillThere(p)'
    <3>1. /\ StillThere(p) /\ InTables(data, db) /\ InTables(plan.had, plan.before)
          /\ ch.kind \notin Destructive
      BY <2>1, <2>10 DEF PlannedInv, ValuesInv, StepsInv
    <3>2. \A q \in Cast(ch) : q \in data'
      <4>1. \A q \in Cast(ch) : q[1] \in DOMAIN db.tables /\ q[2] \in DOMAIN db.tables[q[1]].cols
        BY <3>1, CastKeeps DEF InTables
      <4> QED BY <2>3, <2>8, <2>10, <4>1 DEF Leaves, Extends
    <3>3. \A t, c : Narrowed(t, c)' <=> Narrowed(t, c)
      BY <2>2, <2>6 DEF Narrowed
    <3>4. ASSUME Cuts(ch), Alters(ch, p[1], p[2])
          PROVE  Narrowed(p[1], p[2])
      <4>1. /\ p[1] = ch.table /\ p[2] = ch.column /\ ch.kind = "alter-column"
            /\ p[1] \in DOMAIN plan.before.tables /\ p[2] \in DOMAIN plan.before.tables[p[1]].cols
        BY <3>1, <3>4 DEF Alters, InTables
      <4>2. /\ recorded = plan.from /\ ch = Change("alter-column", ch.table, ch.column, NoCon)
            /\ ch \in Changes(plan.from, plan.goal, plan.mapping)
            /\ SameType(plan.before, db, ch.table, ch.column)
        BY <2>1, <2>10, <4>1 DEF PlannedInv, AltersInv
      <4> QED BY <3>4, <4>1, <4>2 DEF Narrowed, Cuts, SameType, Goal
    <3>5. CASE p \in data
      BY <3>1, <3>2, <3>3, <3>4, <3>5, CastKeeps DEF StillThere
    <3>6. CASE Narrowed(p[1], p[2]) /\ <<p[1], p[2], "cut">> \in data
      BY <3>1, <3>2, <3>3, <3>6, CastKeeps DEF StillThere
    <3> QED BY <3>1, <3>5, <3>6 DEF StillThere
  <2>11. ValuesInv'
    BY <2>2, <2>9, <2>10 DEF PlannedInv, ValuesInv
  <2> QED BY <2>4, <2>5, <2>7, <2>11 DEF PlannedInv
<1> QED BY <1>1, <1>2

LEMMA PlanNextInv ==
  ASSUME PlanAssumption, PlannedInv, [PlanNext]_planVars
  PROVE  PlannedInv'
<1>0. ASSUME dialect' = dialect, plan'.from = plan.from, plan'.goal = plan.goal,
             plan'.mapping = plan.mapping, plan'.before = plan.before
      PROVE  \A t, c : Narrowed(t, c)' <=> Narrowed(t, c)
  <2>1. Changes(plan.from, plan.goal, plan.mapping)' = Changes(plan.from, plan.goal, plan.mapping)
    BY <1>0 DEF Changes, Collapse
  <2> QED BY <1>0, <2>1 DEF Narrowed
<1>1. ASSUME NEW ddl \in Sources, NEW m, NEW allow, MakePlan(Parse(ddl), m, allow)
      PROVE  PlannedInv'
  BY <1>1, MakePlanInv
<1>2. ASSUME NEW ch \in plan.steps, ApplyStep(ch) \/ FailOnRows(ch)
      PROVE  PlannedInv'
  BY <1>2, ApplyStepInv, AbortInv DEF FailOnRows
<1>3. CASE Record
  <2>1. /\ db' = db /\ data' = data /\ plan' = [plan EXCEPT !.status = "applied"]
        /\ plan.status = "applying" /\ recorded' = plan.goal /\ dialect' = dialect
    BY <1>3 DEF Record
  <2>2. /\ plan'.goal = plan.goal /\ plan'.before = plan.before /\ plan'.had = plan.had
        /\ plan'.from = plan.from /\ plan'.mapping = plan.mapping /\ plan'.status = "applied"
        /\ plan'.steps = plan.steps /\ plan'.risk = plan.risk /\ IsPlan(plan')
    BY <2>1 DEF PlannedInv, ShapeInv, IsPlan
  <2>3. \A p : StillThere(p)' <=> StillThere(p)
    BY <1>0, <2>1, <2>2 DEF StillThere
  <2>4. ShapeInv' /\ StepsInv' /\ AltersInv'
    BY <2>1, <2>2 DEF PlannedInv, ShapeInv, StepsInv, AltersInv
  <2>5. ValuesInv'
    BY <2>1, <2>2, <2>3 DEF PlannedInv, ValuesInv
  <2> QED BY <2>4, <2>5 DEF PlannedInv
<1>4. ASSUME NEW t, Fill(t)
      PROVE  PlannedInv'
  <2>1. /\ t \in DOMAIN db.tables /\ db' = db /\ plan' = plan /\ recorded' = recorded
        /\ dialect' = dialect /\ plan.status # "applying"
        /\ data' = data \cup {<<t, c, "written">> : c \in DOMAIN db.tables[t].cols}
    BY <1>4 DEF Fill, Present
  <2>2. InTables(data', db')
    BY <2>1 DEF PlannedInv, ValuesInv, InTables
  <2>3. \A p : StillThere(p) => StillThere(p)'
    BY <1>0, <2>1 DEF StillThere
  <2>4. ShapeInv' /\ StepsInv' /\ AltersInv'
    BY <2>1 DEF PlannedInv, ShapeInv, StepsInv, AltersInv
  <2>5. ValuesInv'
    BY <2>1, <2>2, <2>3 DEF PlannedInv, ValuesInv
  <2> QED BY <2>4, <2>5 DEF PlannedInv
<1>5. CASE UNCHANGED planVars
  <2>1. \A p : StillThere(p)' <=> StillThere(p)
    BY <1>0, <1>5 DEF StillThere, planVars
  <2>2. Changes(plan.from, plan.goal, plan.mapping)' = Changes(plan.from, plan.goal, plan.mapping)
    BY <1>5 DEF planVars, Changes, Collapse
  <2>3. ShapeInv' /\ StepsInv' /\ AltersInv'
    BY <1>5, <2>2 DEF planVars, PlannedInv, ShapeInv, StepsInv, AltersInv
  <2>4. ValuesInv'
    BY <1>5, <2>1 DEF planVars, PlannedInv, ValuesInv
  <2> QED BY <2>3, <2>4 DEF PlannedInv
<1> QED BY <1>1, <1>2, <1>3, <1>4, <1>5 DEF PlanNext

\* A plan whose risk is "safe" takes no column of values away: whatever the two schemas, the
\* renames, the rows and the order of the steps in a phase, what was in the tables when the plan
\* was made is in them when it is applied, as it was, or cut where the plan gives its column a
\* type that does not hold it.  (planMigration judges each kind of change by itself, and
\* alter-column whatever the type; applyMigration trusts it.)
THEOREM PlanSafeKeeps == PlanAssumption => (PlanSpec => []SafeKeeps)
<1> SUFFICES ASSUME PlanAssumption PROVE PlanSpec => []SafeKeeps
  OBVIOUS
<1>1. PlanInit => PlannedInv
  BY PlanInitInv
<1>2. PlannedInv /\ [PlanNext]_planVars => PlannedInv'
  BY PlanNextInv
<1>3. PlannedInv => SafeKeeps
  BY DEF PlannedInv, ValuesInv, StillThere, SafeKeeps
<1> QED BY <1>1, <1>2, <1>3, PTL DEF PlanSpec
================================================================================
