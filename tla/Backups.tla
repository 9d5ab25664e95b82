------------------------------ MODULE Backups ------------------------------
(***************************************************************************)
(* Encrypted database backups: the job that dumps, encrypts and uploads    *)
(* one, the retention job that deletes old ones, and the restore drill     *)
(* that records its success as a row of its own among the backup runs. The *)
(* jobs are processes of their own, started by a workflow or by hand, and  *)
(* share the bucket and the table; each may be killed at any point.        *)
(***************************************************************************)
EXTENDS Integers, FiniteSets, Sequences, Functions

CONSTANTS
    MaxRuns,        \* bound: backup jobs started
    MaxDay,         \* bound: days
    MaxDrills,      \* bound: successful restore drills
    MonthDays,      \* days in a month
    RetentionDays,  \* BACKUP_RETENTION_DAYS
    MonthlyKeep,    \* BACKUP_RETENTION_MONTHLY_KEEP
    Sweepers        \* retention jobs at the same time (a bound)

ASSUME BackupsAssumption ==
    /\ MaxRuns \in Nat /\ MaxDay \in Nat /\ MaxDrills \in Nat
    /\ MonthDays \in Nat \ {0} /\ RetentionDays \in Nat \ {0} /\ MonthlyKeep \in Nat

\* Backup jobs are numbered in the order in which they start; an object is known
\* by the job that made it, whose start its key names.
Runs == 1..MaxRuns
Days == 0..MaxDay
Drill == 0

VARIABLES
    today,
    started,        \* started[r]: the day job r started
    stage,          \* stage[r]: how far job r is
    upload,         \* upload[r]: upload_status of its row
    whole,          \* rows with finished_at and restore_format_ok
    rows,           \* backup_runs by started_at: a job, or Drill for a drill
    uploads,        \* the uploads there have been, in their order (LastModified)
    bucket,         \* objects stored
    plan,           \* plan[s]: objects retention job s is about to delete
    drilling        \* the object a drill has picked, or none

backupVars == <<today, started, stage, upload, whole, rows, uploads, bucket, plan, drilling>>

Ever == Range(uploads)
Month(r) == started[r] \div MonthDays
None == {}

BackupsInit ==
    /\ today = 0
    /\ started = [r \in Runs |-> 0] /\ stage = [r \in Runs |-> "idle"]
    /\ upload = [r \in Runs |-> "none"] /\ whole = {}
    /\ rows = <<>> /\ uploads = <<>> /\ bucket = {}
    /\ plan = [s \in Sweepers |-> {}] /\ drilling = None

Tick ==
    /\ today < MaxDay /\ today' = today + 1
    /\ UNCHANGED <<started, stage, upload, whole, rows, uploads, bucket, plan, drilling>>

-----------------------------------------------------------------------------
(***************************************************************************)
(* run_r2_backup_job.                                                      *)
(***************************************************************************)
\* The row is written as pending and committed.
Start(r) ==
    /\ upload[r] = "none" /\ \A q \in Runs : q < r => upload[q] # "none"
    /\ started' = [started EXCEPT ![r] = today]
    /\ stage' = [stage EXCEPT ![r] = "dumping"]
    /\ upload' = [upload EXCEPT ![r] = "pending"]
    /\ rows' = Append(rows, r)
    /\ UNCHANGED <<today, whole, uploads, bucket, plan, drilling>>

\* _mark_failed: a setting is missing, or a command, the upload or the last
\* commit failed.
MarkFailed(r) ==
    /\ stage[r] # "idle"
    /\ stage' = [stage EXCEPT ![r] = "idle"]
    /\ upload' = [upload EXCEPT ![r] = "failed"]
    /\ whole' = whole \ {r}
    /\ UNCHANGED <<today, started, rows, uploads, bucket, plan, drilling>>

\* The dump is made, listed, encrypted and uploaded.
Upload(r) ==
    /\ stage[r] = "dumping"
    /\ uploads' = Append(uploads, r) /\ bucket' = bucket \union {r}
    /\ stage' = [stage EXCEPT ![r] = "uploaded"]
    /\ UNCHANGED <<today, started, upload, whole, rows, plan, drilling>>

\* (Deviation: a status the column does not have.)
FinishOdd(r) ==
    /\ stage[r] = "uploaded"
    /\ upload' = [upload EXCEPT ![r] = "finished"]
    /\ stage' = [stage EXCEPT ![r] = "idle"]
    /\ UNCHANGED <<today, started, whole, rows, uploads, bucket, plan, drilling>>

\* The row is completed. When the rows cannot be counted the rollback takes
\* finished_at and restore_format_ok along, and the rest is committed.
Finish(r) ==
    /\ stage[r] = "uploaded"
    /\ \E counted \in BOOLEAN : whole' = IF counted THEN whole \union {r} ELSE whole
    /\ upload' = [upload EXCEPT ![r] = "uploaded"]
    /\ stage' = [stage EXCEPT ![r] = "idle"]
    /\ UNCHANGED <<today, started, rows, uploads, bucket, plan, drilling>>

\* The job is killed, or cannot even mark its row.
Die(r) ==
    /\ stage[r] # "idle"
    /\ stage' = [stage EXCEPT ![r] = "idle"]
    /\ UNCHANGED <<today, started, upload, whole, rows, uploads, bucket, plan, drilling>>

-----------------------------------------------------------------------------
(***************************************************************************)
(* run_backup_retention_job.                                               *)
(***************************************************************************)
\* (Deviation: the last day of the window is not part of it.)
RecentStrict == {r \in bucket : started[r] > today - RetentionDays}

Recent == {r \in bucket : started[r] >= today - RetentionDays}

\* (Deviation: the oldest of a month represents it.)
EarliestByMonth ==
    {r \in bucket \ Recent : \A q \in bucket \ Recent : Month(q) = Month(r) => q >= r}

LatestByMonth ==
    {r \in bucket \ Recent : \A q \in bucket \ Recent : Month(q) = Month(r) => q <= r}

\* The latest MonthlyKeep of the months that have one.
Monthly ==
    {r \in LatestByMonth :
        Cardinality({q \in LatestByMonth : Month(q) > Month(r)}) < MonthlyKeep}

\* The bucket is listed and the deletions are planned.
Sweep(s) ==
    /\ plan[s] = {} /\ plan' = [plan EXCEPT ![s] = bucket \ (Recent \union Monthly)]
    /\ UNCHANGED <<today, started, stage, upload, whole, rows, uploads, bucket, drilling>>

\* One object after the other, in the order of the keys.
Delete(s) ==
    /\ \E r \in plan[s] :
         /\ \A q \in plan[s] : r <= q
         /\ bucket' = bucket \ {r}
         /\ plan' = [plan EXCEPT ![s] = @ \ {r}]
    /\ UNCHANGED <<today, started, stage, upload, whole, rows, uploads, drilling>>

\* A deletion fails and ends the job, or the job is killed.
SweepFails(s) ==
    /\ plan[s] # {} /\ plan' = [plan EXCEPT ![s] = {}]
    /\ UNCHANGED <<today, started, stage, upload, whole, rows, uploads, bucket, drilling>>

-----------------------------------------------------------------------------
(***************************************************************************)
(* run_restore_drill, against a target database.                           *)
(***************************************************************************)
Drills == Len(SelectSeq(rows, LAMBDA r : r = Drill))

Before(q, r) ==
    \E i, j \in DOMAIN uploads : i < j /\ uploads[i] = q /\ uploads[j] = r

\* latest_encrypted_backup: by the time of the upload.
PickLatest ==
    /\ drilling = None /\ bucket # {} /\ Drills < MaxDrills
    /\ drilling' = {r \in bucket : \A q \in bucket \ {r} : Before(q, r)}
    /\ UNCHANGED <<today, started, stage, upload, whole, rows, uploads, bucket, plan>>

\* It was downloaded, decrypted and restored: the success is a row like that of
\* a backup, uploaded and finished.
DrillPasses ==
    /\ drilling # None /\ drilling \subseteq bucket
    /\ rows' = Append(rows, Drill) /\ drilling' = None
    /\ UNCHANGED <<today, started, stage, upload, whole, uploads, bucket, plan>>

\* A step fails or the object is gone, or there is no target: no row is written.
DrillEnds ==
    /\ drilling # None /\ drilling' = None
    /\ UNCHANGED <<today, started, stage, upload, whole, rows, uploads, bucket, plan>>

-----------------------------------------------------------------------------
BackupsNext ==
    \/ Tick
    \/ \E r \in Runs : Start(r) \/ MarkFailed(r) \/ Upload(r) \/ Finish(r) \/ Die(r)
    \/ \E s \in Sweepers : Sweep(s) \/ Delete(s) \/ SweepFails(s)
    \/ PickLatest \/ DrillPasses \/ DrillEnds

BackupsSpec == BackupsInit /\ [][BackupsNext]_backupVars

-----------------------------------------------------------------------------
BackupsTypeOK ==
    /\ today \in Days
    /\ started \in [Runs -> Days]
    /\ stage \in [Runs -> {"idle", "dumping", "uploaded"}]
    /\ upload \in [Runs -> {"none", "pending", "uploaded", "failed"}]
    /\ whole \subseteq Runs
    /\ rows \in Seq(Runs \union {Drill}) /\ uploads \in Seq(Runs) /\ bucket \subseteq Runs
    /\ plan \in [Sweepers -> SUBSET Runs]
    /\ drilling \subseteq Runs

LaterMonths(r) == {Month(q) : q \in {p \in bucket : Month(p) > Month(r)}}

Outlived(r) ==
    \/ \E q \in bucket : q > r /\ Month(q) = Month(r)
    \/ Cardinality(LaterMonths(r)) >= MonthlyKeep

(***************************************************************************)
(* Retention thins out, it does not forget: an object that is gone left a  *)
(* newer one of the same month behind, or one in each of MonthlyKeep later *)
(* months. So it is whatever jobs overlap, die or upload late, and however *)
(* old the listing is they delete by.                                      *)
(***************************************************************************)
HistoryKept == \A r \in Ever \ bucket : Outlived(r)

(***************************************************************************)
(* No step deletes an object younger than the retention period.            *)
(***************************************************************************)
RecentKept == [][\A r \in bucket \ bucket' : started[r] < today - RetentionDays]_backupVars
=============================================================================
