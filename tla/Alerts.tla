------------------------------- MODULE Alerts -------------------------------
(***************************************************************************)
(* Alerts: a handler that has written an audit event of a watched kind     *)
(* raises an alert for it and mails the recipients; asking for the backup  *)
(* status raises one when the status is not ok; administrators acknowledge *)
(* and resolve alerts.                                                     *)
(*                                                                         *)
(* An alert is found again by its source, and the source and event number  *)
(* are unique in the database. Every handler commits through               *)
(* record_audit_event, whose failure rolls back all that is pending.       *)
(* Writing an alert and mailing are done "safely": the failure is          *)
(* swallowed and the handler goes on with the session as it is.            *)
(***************************************************************************)
EXTENDS Naturals, FiniteSets

CONSTANTS
    Events,         \* watched audit events whose handler asks for the alert twice:
                    \* break-glass opened, admin role granted, gateway disabled
    Backup,         \* the source of the alert on the backup status
    Recipients,     \* who may be mailed
    Handlers,       \* requests being served at the same time (a bound)
    NoRecipient,    \* no mail under way
    MaxRequests     \* bound: requests served

ASSUME AlertsAssumption ==
    /\ Backup \notin Events
    /\ NoRecipient \notin Recipients /\ MaxRequests \in Nat

VARIABLES
    row,            \* row[k]: status of the stored alert of source k
    note,           \* note[k][r]: the stored notification to r, by its status
    bounced,        \* stored alerts on a mail that failed, by source and recipient
    job,            \* job[h]: how far handler h is
    occurred,       \* audit events written
    answered,       \* events whose handler has given its answer (history)
    missed,         \* events both attempts failed for (history)
    mailed,         \* mailed[k][r]: mails the provider took (history)
    raced,          \* alerts decided by two handlers at once (history)
    begun           \* requests served so far

alertVars == <<row, note, bounced, job, occurred, answered, missed, mailed, raced>>
stored == <<row, note, bounced>>
history == <<answered, missed, mailed, raced>>

Sources == Events \union {Backup}
Statuses == {"open", "acknowledged", "resolved"}
Idle == [stage |-> "idle"]
Raising == {"finding", "inserting", "auditing", "mailing", "notified", "sent", "failed",
            "warning", "broken"}
Job == [stage : Raising, on : Sources, todo : SUBSET Recipients,
        to : Recipients \union {NoRecipient}, kept : BOOLEAN, left : 1..2, failures : 0..2]
Decision == [stage : {"acknowledging", "resolving"}, on : Sources, read : Statuses]

Begins == begun < MaxRequests /\ begun' = begun + 1

AlertsInit ==
    /\ begun = 0
    /\ row = [k \in Sources |-> "none"]
    /\ note = [k \in Sources |-> [r \in Recipients |-> "none"]]
    /\ bounced = {} /\ occurred = {}
    /\ job = [h \in Handlers |-> Idle]
    /\ answered = {} /\ missed = {} /\ raced = {}
    /\ mailed = [k \in Sources |-> [r \in Recipients |-> 0]]

At(h, stage) == job[h] # Idle /\ job[h].stage = stage

-----------------------------------------------------------------------------
(***************************************************************************)
(* create_alert. The handler asks for the alert once its audit event is    *)
(* committed: inside _record_user_audit_required, and again by itself.      *)
(***************************************************************************)
\* (Deviation: nobody asks again.)
AsksOnce(k) == 1

Asks(k) == IF k \in Events THEN 2 ELSE 1

Raise(h, k) ==
    /\ job[h] = Idle
    /\ job' = [job EXCEPT ![h] = [stage |-> "finding", on |-> k, todo |-> {},
                                  to |-> NoRecipient, kept |-> FALSE,
                                  left |-> Asks(k), failures |-> 0]]

\* The audit event k is committed, and its handler looks for an alert on it.
Occurs(h, k) ==
    /\ k \in Events \ occurred
    /\ occurred' = occurred \union {k}
    /\ Raise(h, k)
    /\ UNCHANGED <<stored, history>>

\* admin_backups_status: the status is missing or degraded.
AskStatus(h) == Raise(h, Backup) /\ Begins /\ UNCHANGED <<stored, occurred, history>>

Goes(h, stage, todo, to, kept) ==
    job' = [job EXCEPT ![h] = [stage |-> stage, on |-> job[h].on, todo |-> todo, to |-> to,
                               kept |-> kept, left |-> job[h].left,
                               failures |-> job[h].failures]]

Advances(h, stage) == Goes(h, stage, job[h].todo, job[h].to, job[h].kept)

FindNone(h) ==
    /\ At(h, "finding") /\ row[job[h].on] = "none"
    /\ Advances(h, "inserting")
    /\ UNCHANGED <<stored, occurred, history>>

\* One attempt is over; after the last one the handler gives its answer.
Attempted(h, failed) ==
    LET failures == job[h].failures + (IF failed THEN 1 ELSE 0)
    IN IF job[h].left = 1
       THEN /\ job' = [job EXCEPT ![h] = Idle]
            /\ answered' = answered \union {job[h].on}
            /\ missed' = IF failures = 2 THEN missed \union {job[h].on} ELSE missed
       ELSE /\ job' = [job EXCEPT ![h] =
                 [stage |-> "finding", on |-> job[h].on, todo |-> {},
                  to |-> NoRecipient, kept |-> FALSE, left |-> job[h].left - 1,
                  failures |-> failures]]
            /\ UNCHANGED <<answered, missed>>

\* (Deviation: an alert found is mailed once more.)
FindAndMail(h) ==
    /\ At(h, "finding") /\ row[job[h].on] # "none"
    /\ Goes(h, "mailing", Recipients, NoRecipient, TRUE)
    /\ UNCHANGED <<stored, occurred, history>>

\* _find_existing_alert finds one: it is returned, whatever its status.
FindExisting(h) ==
    /\ At(h, "finding") /\ row[job[h].on] # "none"
    /\ Attempted(h, FALSE)
    /\ UNCHANGED <<stored, occurred, mailed, raced>>

\* The insert waits for one of the same source that is not committed yet, and
\* fails if that one made it: the request for the status then ends in an error.
Insert(h) ==
    /\ At(h, "inserting")
    /\ \A g \in Handlers \ {h} : ~(At(g, "auditing") /\ job[g].on = job[h].on)
    /\ Advances(h, IF row[job[h].on] = "none" THEN "auditing" ELSE "broken")
    /\ UNCHANGED <<stored, occurred, history>>

\* Who is mailed: the administrators there are, nobody if mail is switched off or
\* the severity too low.
StartsMailing(h, kept) ==
    \E todo \in SUBSET Recipients : Goes(h, "mailing", todo, NoRecipient, kept)

\* system.alert.created is written and commits the alert.
Create(h) ==
    /\ At(h, "auditing")
    /\ row' = [row EXCEPT ![job[h].on] = "open"]
    /\ StartsMailing(h, TRUE)
    /\ UNCHANGED <<note, bounced, occurred, history>>

\* It cannot be written: the alert is rolled back, and the handler goes on.
CreateFails(h) ==
    /\ At(h, "auditing") /\ StartsMailing(h, FALSE)
    /\ UNCHANGED <<stored, occurred, history>>

-----------------------------------------------------------------------------
(***************************************************************************)
(* _send_email_notifications_if_needed, one recipient after the other.     *)
(***************************************************************************)
MailsDone(h) ==
    /\ At(h, "mailing") /\ job[h].todo = {}
    /\ Attempted(h, ~job[h].kept)
    /\ UNCHANGED <<stored, occurred, mailed, raced>>

\* The notification is written, not committed: it refers to the alert, which
\* has to be there. If that one was rolled back the session is of no use any more.
Notify(h, r) ==
    /\ At(h, "mailing") /\ r \in job[h].todo
    /\ Goes(h, IF job[h].kept THEN "notified" ELSE "broken",
            job[h].todo \ {r}, r, job[h].kept)
    /\ UNCHANGED <<stored, occurred, history>>

\* send_alert_email: an error may follow a mail that was taken.
Send(h) ==
    /\ At(h, "notified")
    /\ \E taken, ok \in BOOLEAN :
         /\ ok => taken
         /\ mailed' = IF taken THEN [mailed EXCEPT ![job[h].on][job[h].to] = @ + 1] ELSE mailed
         /\ Advances(h, IF ok THEN "sent" ELSE "failed")
    /\ UNCHANGED <<stored, occurred, answered, missed, raced>>

\* The outcome is written with its audit event, which commits the notification
\* or, when it fails, loses it.
Note(h, outcome, next) ==
    /\ At(h, outcome)
    /\ \/ note' = [note EXCEPT ![job[h].on][job[h].to] = outcome]
       \/ UNCHANGED note
    /\ Advances(h, next)
    /\ UNCHANGED <<row, bounced, occurred, history>>

NoteSent(h) == Note(h, "sent", "mailing")
NoteFailed(h) == Note(h, "failed", "warning")

\* _create_email_delivery_failed_alert: an alert of its own, which is not mailed.
Warn(h) ==
    /\ At(h, "warning")
    /\ \/ bounced' = bounced \union {<<job[h].on, job[h].to>>}
       \/ UNCHANGED bounced
    /\ Advances(h, "mailing")
    /\ UNCHANGED <<row, note, occurred, history>>

\* Asking again and the handler's last commit raise: the request ends in an error.
Break(h) ==
    /\ At(h, "broken")
    /\ job' = [job EXCEPT ![h] = Idle]
    /\ UNCHANGED <<stored, occurred, history>>

-----------------------------------------------------------------------------
(***************************************************************************)
(* acknowledge_alert and resolve_alert.                                    *)
(***************************************************************************)
Deciding(k) == {h \in Handlers : job[h] # Idle
                                 /\ job[h].stage \in {"acknowledging", "resolving"}
                                 /\ job[h].on = k}

\* The alert is read.
Decide(h, k, stage) ==
    /\ job[h] = Idle /\ row[k] # "none" /\ Begins
    /\ job' = [job EXCEPT ![h] = [stage |-> stage, on |-> k, read |-> row[k]]]
    /\ raced' = IF Deciding(k) # {} THEN raced \union {k} ELSE raced
    /\ UNCHANGED <<stored, occurred, answered, missed, mailed>>

\* Only a status that differs from the one read is written, and the audit
\* event may fail and take it along.
Writes(h, stage, status) ==
    /\ At(h, stage)
    /\ \/ row' = IF job[h].read # status THEN [row EXCEPT ![job[h].on] = status] ELSE row
       \/ UNCHANGED row
    /\ job' = [job EXCEPT ![h] = Idle]
    /\ UNCHANGED <<note, bounced, occurred, history>>

\* (Deviation: a resolved alert is acknowledged as well.)
AcknowledgeAny(h) == Writes(h, "acknowledging", "acknowledged")

\* A resolved alert is returned as it is.
Acknowledge(h) ==
    /\ At(h, "acknowledging") /\ job[h].read # "resolved"
    /\ Writes(h, "acknowledging", "acknowledged")

LeaveResolved(h) ==
    /\ At(h, "acknowledging") /\ job[h].read = "resolved"
    /\ job' = [job EXCEPT ![h] = Idle]
    /\ UNCHANGED <<stored, occurred, history>>

Resolve(h) == Writes(h, "resolving", "resolved")

-----------------------------------------------------------------------------
\* The process ends: what is not committed is gone, so are the mails left.
Dies == [h \in Handlers |-> Idle]

AlertRequest(h) ==
    \/ AskStatus(h)
    \/ \E k \in Sources : Decide(h, k, "acknowledging") \/ Decide(h, k, "resolving")

AlertStep(h) ==
    \/ FindNone(h) \/ FindExisting(h) \/ Insert(h) \/ Create(h) \/ CreateFails(h)
    \/ MailsDone(h) \/ Send(h) \/ NoteSent(h) \/ NoteFailed(h) \/ Warn(h) \/ Break(h)
    \/ \E r \in Recipients : Notify(h, r)
    \/ Acknowledge(h) \/ LeaveResolved(h) \/ Resolve(h)

AlertsTypeOK ==
    /\ row \in [Sources -> Statuses \union {"none"}]
    /\ note \in [Sources -> [Recipients -> {"none", "sent", "failed"}]]
    /\ bounced \subseteq Sources \X Recipients
    /\ job \in [Handlers -> Job \union Decision \union {Idle}]
    /\ occurred \subseteq Events
    /\ answered \subseteq Sources /\ missed \subseteq Sources /\ raced \subseteq Sources
    /\ mailed \in [Sources -> [Recipients -> Nat]]
    /\ begun \in 0..MaxRequests

(***************************************************************************)
(* A handler never gives a good answer while its alert is neither stored   *)
(* nor refused by the audit trail both times: one failing audit event does *)
(* not lose the alert silently.                                            *)
(***************************************************************************)
AnsweredIsAlerted ==
    \A k \in answered \intersect Events : row[k] # "none" \/ k \in missed

(***************************************************************************)
(* However often the source comes up, and whatever fails, a recipient gets *)
(* at most one mail about an alert, and only about one that is stored; a   *)
(* notification stored as sent was taken by the provider.                  *)
(***************************************************************************)
MailFollowsAlert ==
    \A k \in Sources, r \in Recipients :
        /\ mailed[k][r] <= 1
        /\ mailed[k][r] > 0 => row[k] # "none"
        /\ note[k][r] = "sent" => mailed[k][r] = 1

(***************************************************************************)
(* A resolved alert stays resolved, unless two requests decided on it at   *)
(* the same time: an acknowledgement that read it open reopens it then.    *)
(***************************************************************************)
ResolutionStays ==
    [][\A k \in Sources \ raced' : row[k] = "resolved" => row'[k] = "resolved"]_alertVars
=============================================================================
