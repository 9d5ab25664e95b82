-------------------------- MODULE BreakGlassProofs --------------------------
(***************************************************************************)
(* Proofs about BreakGlass and the alerts it raises, for any number of     *)
(* windows, recipients, handlers and requests.                             *)
(*                                                                         *)
(* The argument is about what a handler knows between its read and its     *)
(* commit, and about which handlers can be at the same alert or the same   *)
(* window together.                                                        *)
(***************************************************************************)
EXTENDS BreakGlass, TLAPS

Mails == {"mailing", "notified", "sent", "failed", "warning"}
Decides == {"acknowledging", "resolving"}

\* What handler h knows. Before an alert is committed there is none; a mail is
\* about a stored alert and goes to who had none before; the first attempt left an
\* alert or failed; and a decision read the status that still stands.
Informed(h) ==
    job[h] # Idle =>
        /\ job[h].stage = "auditing" => row[job[h].on] = "none"
        /\ job[h].stage \in Mails \ {"mailing"} =>
             job[h].kept /\ job[h].to \in Recipients \ job[h].todo
        /\ job[h].stage \in Mails /\ job[h].kept =>
             row[job[h].on] # "none" /\ \A r \in job[h].todo : mailed[job[h].on][r] = 0
        /\ job[h].stage = "notified" => mailed[job[h].on][job[h].to] = 0
        /\ job[h].stage = "sent" => mailed[job[h].on][job[h].to] = 1
        /\ job[h].stage \in Raising =>
             /\ job[h].failures + job[h].left <= 2
             /\ job[h].left = 1 /\ job[h].failures = 0 /\ job[h].on \in Events =>
                  row[job[h].on] # "none"
        /\ job[h].stage \in Decides =>
             /\ row[job[h].on] # "none"
             /\ job[h].on \in raced \/ row[job[h].on] = job[h].read

\* Two handlers never store or mail the same alert, and decide on it together
\* only on record.
Apart(g, h) ==
    (job[g] # Idle /\ job[h] # Idle /\ job[g].on = job[h].on) =>
        /\ ~(job[g].stage = "auditing" /\ job[h].stage = "auditing")
        /\ ~(job[g].stage \in Mails /\ job[h].stage \in Mails /\ job[g].kept /\ job[h].kept)
        /\ job[g].stage \in Decides /\ job[h].stage \in Decides => job[h].on \in raced

JobsOK ==
    /\ \A h \in Handlers : Informed(h)
    /\ \A g, h \in Handlers : g # h => Apart(g, h)

\* A window that is being opened is not there yet, one that is being closed is; the
\* former is crowded if another one is being opened, or is active already.
OpeningOK ==
    /\ \A h \in Handlers : desk[h].does = "closing" => win[desk[h].window] # "none"
    /\ \A h \in Handlers : desk[h].does = "opening" =>
         /\ win[desk[h].window] = "none"
         /\ \A v \in Active : v \in crowded /\ desk[h].window \in crowded
    /\ \A g, h \in Handlers :
         (g # h /\ desk[g].does = "opening" /\ desk[h].does = "opening") =>
            desk[g].window # desk[h].window /\ desk[g].window \in crowded

IInv ==
    /\ TypeOK
    /\ JobsOK
    /\ OpeningOK
    /\ AnsweredIsAlerted
    /\ MailFollowsAlert
    /\ OneWindowAtATime

USE AlertsAssumption DEF Sources, Windows

\* What a step does to the alerts: one of their own actions, a watched event, or less.
LEMMA AlertSide ==
    ASSUME [Next]_vars
    PROVE  \/ UNCHANGED alertVars /\ (begun \in 0..MaxRequests => begun' \in 0..MaxRequests)
           \/ \E h \in Handlers, k \in Events : Occurs(h, k) /\ begun' = begun
           \/ \E h \in Handlers : AlertRequest(h)
           \/ \E h \in Handlers : AlertStep(h) /\ begun' = begun
           \/ job' = Dies /\ UNCHANGED <<stored, occurred, history, begun>>
<1>1. CASE UNCHANGED vars
    BY <1>1 DEF vars
<1>2. ASSUME NEW h \in Handlers, NEW w \in Windows, Open(h, w) \/ CloseFound(h, w)
      PROVE  UNCHANGED alertVars /\ (begun \in 0..MaxRequests => begun' \in 0..MaxRequests)
    BY <1>2 DEF Open, Opens, CloseFound, Begins
<1>3. ASSUME NEW h \in Handlers, StoreOpen(h)
      PROVE  \E k \in Events : Occurs(h, k) /\ begun' = begun
    BY <1>3 DEF StoreOpen, Occurs
<1>4. ASSUME NEW h \in Handlers,
             OpenFails(h) \/ CloseNone(h) \/ CloseAmbiguous(h) \/ StoreClose(h) \/ CloseFails(h)
      PROVE  UNCHANGED alertVars /\ (begun \in 0..MaxRequests => begun' \in 0..MaxRequests)
    BY <1>4 DEF OpenFails, CloseNone, CloseAmbiguous, StoreClose, CloseFails, Answers, Begins
<1>5. ASSUME NEW w \in Windows, Expire(w)
      PROVE  UNCHANGED alertVars /\ begun' = begun
    BY <1>5 DEF Expire
<1>6. CASE Crash
    BY <1>6 DEF Crash
<1> QED
    BY <1>1, <1>2, <1>3, <1>4, <1>5, <1>6 DEF Next

LEMMA WindowSide ==
    ASSUME [Next]_vars
    PROVE  \/ UNCHANGED windowVars
           \/ \E h \in Handlers, w \in Windows : Open(h, w) \/ CloseFound(h, w)
           \/ \E h \in Handlers : StoreOpen(h)
           \/ \E h \in Handlers : OpenFails(h) \/ CloseNone(h) \/ CloseAmbiguous(h)
                                  \/ StoreClose(h) \/ CloseFails(h)
           \/ \E w \in Windows : Expire(w)
           \/ desk' = [h \in Handlers |-> Nothing] /\ UNCHANGED <<win, crowded, verdict>>
BY DEF Next, Crash, vars

\* A job is on its way to an alert, or a decision about one.
LEMMA JobType ==
    ASSUME AlertsTypeOK, NEW h \in Handlers, job[h] # Idle
    PROVE  /\ job[h].on \in Sources
           /\ job[h].stage \in Raising => job[h] \in Job
           /\ job[h].stage \in Decides => job[h] \in Decision
           /\ job[h].stage \in Raising \union Decides
BY DEF AlertsTypeOK, Job, Decision, Raising, Decides

-----------------------------------------------------------------------------
(***************************************************************************)
(* Type correctness.                                                       *)
(***************************************************************************)
\* A job that goes on is still a job.
LEMMA GoesType ==
    ASSUME AlertsTypeOK, NEW h \in Handlers, job[h] \in Job, NEW s \in Raising,
           NEW todo \in SUBSET Recipients, NEW to \in Recipients \union {NoRecipient},
           NEW kept \in BOOLEAN, Goes(h, s, todo, to, kept)
    PROVE  job' \in [Handlers -> Job \union Decision \union {Idle}]
<1>1. [stage |-> s, on |-> job[h].on, todo |-> todo, to |-> to, kept |-> kept,
       left |-> job[h].left, failures |-> job[h].failures] \in Job
    BY DEF Job
<1> QED
    BY <1>1 DEF Goes, AlertsTypeOK

\* So is one that only changes its stage.
LEMMA AdvancesType ==
    ASSUME AlertsTypeOK, NEW h \in Handlers, job[h] \in Job, NEW s \in Raising,
           Advances(h, s)
    PROVE  job' \in [Handlers -> Job \union Decision \union {Idle}]
<1>1. /\ job[h].todo \in SUBSET Recipients /\ job[h].to \in Recipients \union {NoRecipient}
      /\ job[h].kept \in BOOLEAN
    BY DEF Job
<1> QED
    BY <1>1, GoesType DEF Advances

\* After an attempt a handler is idle or at its second one.
LEMMA AttemptedType ==
    ASSUME AlertsTypeOK, NEW h \in Handlers, job[h] \in Job,
           job[h].failures + job[h].left <= 2, NEW failed \in BOOLEAN, Attempted(h, failed)
    PROVE  /\ job' \in [Handlers -> Job \union Decision \union {Idle}]
           /\ answered' \subseteq Sources /\ missed' \subseteq Sources
<1> DEFINE failures == job[h].failures + (IF failed THEN 1 ELSE 0)
<1>1. job[h].left \in 1..2 /\ job[h].failures \in 0..2 /\ job[h].on \in Sources
    BY DEF Job
<1>2. CASE job[h].left = 1
    BY <1>1, <1>2 DEF Attempted, AlertsTypeOK
<1>3. CASE job[h].left # 1
    <2>1. job[h].left - 1 \in 1..2 /\ failures \in 0..2
        BY <1>1, <1>3
    <2>2. [stage |-> "finding", on |-> job[h].on, todo |-> {}, to |-> NoRecipient,
           kept |-> FALSE, left |-> job[h].left - 1, failures |-> failures] \in Job
        BY <1>1, <2>1 DEF Job, Raising
    <2> QED
        <3> DEFINE next == [stage |-> "finding", on |-> job[h].on, todo |-> {},
                            to |-> NoRecipient, kept |-> FALSE, left |-> job[h].left - 1,
                            failures |-> failures]
        <3>1. job' = [job EXCEPT ![h] = next] /\ UNCHANGED <<answered, missed>>
            BY <1>3 DEF Attempted
        <3>2. next \in Job
            BY <2>2
        <3> HIDE DEF next
        <3> QED
            BY <3>1, <3>2 DEF AlertsTypeOK
<1> QED
    BY <1>2, <1>3

\* A raised alert is a job at its beginning.
LEMMA RaiseType ==
    ASSUME AlertsTypeOK, NEW h \in Handlers, NEW k \in Sources, Raise(h, k)
    PROVE  job' \in [Handlers -> Job \union Decision \union {Idle}]
<1>1. [stage |-> "finding", on |-> k, todo |-> {}, to |-> NoRecipient, kept |-> FALSE,
       left |-> Asks(k), failures |-> 0] \in Job
    BY DEF Job, Raising, Asks
<1> QED
    BY <1>1 DEF Raise, AlertsTypeOK

\* Requests keep the types.
LEMMA RequestType ==
    ASSUME AlertsTypeOK, NEW h \in Handlers, AlertRequest(h)
    PROVE  AlertsTypeOK'
<1>1. CASE AskStatus(h)
    <2>1. job' \in [Handlers -> Job \union Decision \union {Idle}]
        BY <1>1, RaiseType DEF AskStatus
    <2> QED
        BY <1>1, <2>1 DEF AskStatus, Begins, AlertsTypeOK, stored, history
<1>2. ASSUME NEW k \in Sources, NEW s \in Decides, Decide(h, k, s) PROVE AlertsTypeOK'
    <2>1. [stage |-> s, on |-> k, read |-> row[k]] \in Decision
        BY <1>2 DEF Decide, Decision, Decides, AlertsTypeOK
    <2> QED
        BY <1>2, <2>1 DEF Decide, Begins, AlertsTypeOK, stored
<1> QED
    BY <1>1, <1>2 DEF AlertRequest, Decides

\* So do the steps of a handler.
LEMMA StepType ==
    ASSUME AlertsTypeOK, NEW h \in Handlers, Informed(h), AlertStep(h), begun' = begun
    PROVE  AlertsTypeOK'
<1> USE DEF stored, history
<1>1. CASE FindNone(h) \/ Insert(h)
    <2>1. job[h] \in Job
        BY <1>1, JobType DEF FindNone, Insert, At, Raising
    <2>2. PICK s \in {"inserting", "auditing", "broken"} : Advances(h, s)
        BY <1>1 DEF FindNone, Insert
    <2>3. job' \in [Handlers -> Job \union Decision \union {Idle}]
        BY <2>1, <2>2, AdvancesType DEF Raising
    <2> QED
        BY <1>1, <2>3 DEF FindNone, Insert, AlertsTypeOK
<1>2. CASE FindExisting(h) \/ MailsDone(h)
    <2>1. job[h] \in Job /\ job[h].failures + job[h].left <= 2
        BY <1>2, JobType DEF FindExisting, MailsDone, At, Raising, Informed
    <2>2. PICK failed \in BOOLEAN : Attempted(h, failed)
        BY <1>2, <2>1 DEF FindExisting, MailsDone, Job
    <2>3. /\ job' \in [Handlers -> Job \union Decision \union {Idle}]
          /\ answered' \subseteq Sources /\ missed' \subseteq Sources
        BY <2>1, <2>2, AttemptedType
    <2> QED
        BY <1>2, <2>3 DEF FindExisting, MailsDone, AlertsTypeOK
<1>3. CASE Create(h) \/ CreateFails(h)
    <2>1. job[h] \in Job
        BY <1>3, JobType DEF Create, CreateFails, At, Raising
    <2>2. \E kept \in BOOLEAN, todo \in SUBSET Recipients :
             Goes(h, "mailing", todo, NoRecipient, kept)
        BY <1>3 DEF Create, CreateFails, StartsMailing
    <2>3. job' \in [Handlers -> Job \union Decision \union {Idle}]
        BY <2>1, <2>2, GoesType DEF Raising
    <2>4. row' \in [Sources -> Statuses \union {"none"}]
        BY <1>3, <2>1 DEF Create, CreateFails, AlertsTypeOK, Job, Statuses
    <2> QED
        BY <1>3, <2>3, <2>4 DEF Create, CreateFails, AlertsTypeOK
<1>4. ASSUME NEW r \in Recipients, Notify(h, r) PROVE AlertsTypeOK'
    <2>1. job[h] \in Job
        BY <1>4, JobType DEF Notify, At, Raising
    <2>2. job[h].todo \ {r} \in SUBSET Recipients /\ job[h].kept \in BOOLEAN
        BY <2>1 DEF Job
    <2>3. PICK s \in Raising, todo \in SUBSET Recipients, kept \in BOOLEAN :
             Goes(h, s, todo, r, kept)
        BY <1>4, <2>2 DEF Notify, Raising
    <2>4. job' \in [Handlers -> Job \union Decision \union {Idle}]
        BY <2>1, <2>3, GoesType
    <2> QED
        BY <1>4, <2>4 DEF Notify, AlertsTypeOK
<1>5. CASE Send(h) \/ NoteSent(h) \/ NoteFailed(h) \/ Warn(h)
    <2>1. job[h] \in Job /\ job[h].to \in Recipients /\ job[h].on \in Sources
        BY <1>5, JobType DEF Send, NoteSent, NoteFailed, Note, Warn, At, Raising, Informed, Mails
    <2>2. PICK s \in Raising : Advances(h, s)
        BY <1>5 DEF Send, NoteSent, NoteFailed, Note, Warn, Raising
    <2>3. job' \in [Handlers -> Job \union Decision \union {Idle}]
        BY <2>1, <2>2, AdvancesType
    <2>4. mailed' \in [Sources -> [Recipients -> Nat]]
        BY <1>5, <2>1 DEF Send, NoteSent, NoteFailed, Note, Warn, AlertsTypeOK
    <2>5. note' \in [Sources -> [Recipients -> {"none", "sent", "failed"}]]
        BY <1>5, <2>1 DEF Send, NoteSent, NoteFailed, Note, Warn, AlertsTypeOK
    <2>6. bounced' \subseteq Sources \X Recipients
        BY <1>5, <2>1 DEF Send, NoteSent, NoteFailed, Note, Warn, AlertsTypeOK
    <2> QED
        BY <1>5, <2>3, <2>4, <2>5, <2>6
           DEF Send, NoteSent, NoteFailed, Note, Warn, AlertsTypeOK
<1>6. CASE Break(h) \/ LeaveResolved(h)
    BY <1>6 DEF Break, LeaveResolved, AlertsTypeOK
<1>7. ASSUME NEW s \in Decides, NEW status \in Statuses, Writes(h, s, status)
      PROVE  AlertsTypeOK'
    <2>1. job[h].on \in Sources
        BY <1>7, JobType DEF Writes, At
    <2> QED
        BY <1>7, <2>1 DEF Writes, AlertsTypeOK, Statuses
<1> QED
    BY <1>1, <1>2, <1>3, <1>4, <1>5, <1>6, <1>7
       DEF AlertStep, Acknowledge, Resolve, Decides, Statuses

\* And every step of the system.
LEMMA TypeStep ==
    ASSUME TypeOK, JobsOK, [Next]_vars
    PROVE  TypeOK'
<1>1. AlertsTypeOK
    BY DEF TypeOK
<1>2. AlertsTypeOK'
    <2>1. CASE UNCHANGED alertVars /\ begun' \in 0..MaxRequests
        BY <1>1, <2>1 DEF alertVars, stored, history, AlertsTypeOK
    <2>2. ASSUME NEW h \in Handlers, NEW k \in Events, Occurs(h, k), begun' = begun
          PROVE  AlertsTypeOK'
        <3>1. job' \in [Handlers -> Job \union Decision \union {Idle}]
            BY <1>1, <2>2, RaiseType DEF Occurs
        <3> QED
            BY <1>1, <2>2, <3>1 DEF Occurs, stored, history, AlertsTypeOK
    <2>3. CASE job' = Dies /\ UNCHANGED <<stored, occurred, history, begun>>
        BY <1>1, <2>3 DEF Dies, stored, history, AlertsTypeOK
    <2>4. begun \in 0..MaxRequests
        BY <1>1 DEF AlertsTypeOK
    <2> QED
        BY <1>1, <2>1, <2>2, <2>3, <2>4, AlertSide, RequestType, StepType DEF JobsOK
<1>3. /\ win' \in [Windows -> {"none", "active", "expired", "closed"}]
      /\ desk' \in [Handlers -> [does : {"opening", "closing"}, window : Windows]
                                \union {Nothing}]
      /\ crowded' \subseteq Windows
      /\ verdict' \in [Handlers -> {"none", "closed", "refused", "error"}]
    <2> DEFINE Desks == [does : {"opening", "closing"}, window : Windows] \union {Nothing}
    <2>1. CASE UNCHANGED windowVars
        BY <2>1 DEF windowVars, TypeOK
    <2>2. ASSUME NEW h \in Handlers, NEW w \in Windows, Open(h, w) \/ CloseFound(h, w)
          PROVE  desk' \in [Handlers -> Desks] /\ crowded' \subseteq Windows
                 /\ UNCHANGED <<win, verdict>>
        <3>1. Opening \subseteq Windows
            BY DEF Opening, TypeOK, Nothing
        <3> QED
            BY <2>2, <3>1 DEF Open, Opens, CloseFound, TypeOK
    <2>3. ASSUME NEW h \in Handlers,
                 StoreOpen(h) \/ OpenFails(h) \/ CloseNone(h) \/ CloseAmbiguous(h)
                 \/ StoreClose(h) \/ CloseFails(h)
          PROVE  /\ win' \in [Windows -> {"none", "active", "expired", "closed"}]
                 /\ desk' \in [Handlers -> Desks] /\ crowded' = crowded
                 /\ verdict' \in [Handlers -> {"none", "closed", "refused", "error"}]
        BY <2>3 DEF StoreOpen, OpenFails, CloseNone, CloseAmbiguous, StoreClose, CloseFails,
                    Answers, TypeOK, Nothing
    <2>4. ASSUME NEW w \in Windows, Expire(w)
          PROVE  /\ win' \in [Windows -> {"none", "active", "expired", "closed"}]
                 /\ UNCHANGED <<desk, crowded, verdict>>
        BY <2>4 DEF Expire, TypeOK
    <2> QED
        BY <2>1, <2>2, <2>3, <2>4, WindowSide DEF TypeOK
<1> QED
    BY <1>2, <1>3 DEF TypeOK

-----------------------------------------------------------------------------
(***************************************************************************)
(* How a step changes the jobs.                                            *)
(***************************************************************************)
\* A job that goes on keeps its alert, its attempts and the other handlers.
LEMMA GoesFields ==
    ASSUME AlertsTypeOK, NEW h \in Handlers, NEW s \in Raising, NEW todo, NEW to, NEW kept,
           Goes(h, s, todo, to, kept)
    PROVE  /\ job'[h] # Idle /\ job'[h].stage = s /\ job'[h].on = job[h].on
           /\ job'[h].todo = todo /\ job'[h].to = to /\ job'[h].kept = kept
           /\ job'[h].left = job[h].left /\ job'[h].failures = job[h].failures
           /\ \A g \in Handlers : g # h => job'[g] = job[g]
<1>1. job'[h] = [stage |-> s, on |-> job[h].on, todo |-> todo, to |-> to, kept |-> kept,
                 left |-> job[h].left, failures |-> job[h].failures]
    BY DEF Goes, AlertsTypeOK
<1>2. job'[h].stage # "idle"
    BY <1>1 DEF Raising
<1> QED
    BY <1>1, <1>2 DEF Goes, AlertsTypeOK, Idle

\* An attempt that is over ends the job or begins the second attempt.
LEMMA AttemptedFields ==
    ASSUME AlertsTypeOK, NEW h \in Handlers, job[h] \in Job, NEW failed \in BOOLEAN,
           Attempted(h, failed)
    PROVE  /\ \A g \in Handlers : g # h => job'[g] = job[g]
           /\ \/ job'[h] = Idle /\ job[h].left = 1
              \/ /\ job'[h] # Idle /\ job'[h].stage = "finding" /\ job'[h].on = job[h].on
                 /\ job[h].left = 2 /\ job'[h].left = 1 /\ UNCHANGED <<answered, missed>>
                 /\ job'[h].failures = job[h].failures + (IF failed THEN 1 ELSE 0)
<1> DEFINE failures == job[h].failures + (IF failed THEN 1 ELSE 0)
<1>1. job[h].left \in 1..2 /\ job[h].failures \in 0..2
    BY DEF Job
<1>2. CASE job[h].left = 1
    BY <1>2 DEF Attempted, AlertsTypeOK
<1>3. CASE job[h].left # 1
    <2>1. job'[h] = [stage |-> "finding", on |-> job[h].on, todo |-> {}, to |-> NoRecipient,
                     kept |-> FALSE, left |-> job[h].left - 1, failures |-> failures]
        BY <1>3 DEF Attempted, AlertsTypeOK
    <2>2. /\ job'[h].stage = "finding" /\ job'[h].on = job[h].on
          /\ job'[h].left = job[h].left - 1 /\ job'[h].failures = failures
        BY <2>1
    <2>3. job'[h] # Idle
        BY <2>2 DEF Idle
    <2>4. \A g \in Handlers : g # h => job'[g] = job[g]
        BY <1>3 DEF Attempted, AlertsTypeOK
    <2>5. job[h].left = 2
        BY <1>1, <1>3
    <2> QED
        BY <1>3, <2>2, <2>3, <2>4, <2>5 DEF Attempted
<1> QED
    BY <1>2, <1>3

\* A raised alert begins with nothing known.
LEMMA RaiseFields ==
    ASSUME AlertsTypeOK, NEW h \in Handlers, NEW k \in Sources, Raise(h, k)
    PROVE  /\ job[h] = Idle
           /\ job'[h] # Idle /\ job'[h].stage = "finding" /\ job'[h].on = k
           /\ job'[h].left = Asks(k) /\ job'[h].failures = 0
           /\ \A g \in Handlers : g # h => job'[g] = job[g]
<1>1. job'[h] = [stage |-> "finding", on |-> k, todo |-> {}, to |-> NoRecipient,
                 kept |-> FALSE, left |-> Asks(k), failures |-> 0]
    BY DEF Raise, AlertsTypeOK
<1>2. /\ job'[h].stage = "finding" /\ job'[h].on = k
      /\ job'[h].left = Asks(k) /\ job'[h].failures = 0
    BY <1>1
<1> QED
    BY <1>2 DEF Raise, AlertsTypeOK, Idle

\* What the handlers know about is left as it is.
Quiet == UNCHANGED <<row, mailed, raced>>

\* Four steps change what the others know; none changes the others' jobs.
LEMMA StepFrame ==
    ASSUME AlertsTypeOK, NEW h \in Handlers, AlertStep(h)
    PROVE  /\ \A g \in Handlers : g # h => job'[g] = job[g]
           /\ job[h] # Idle /\ raced' = raced
           /\ Quiet \/ Create(h) \/ Send(h) \/ Acknowledge(h) \/ Resolve(h)
<1> USE DEF stored, history, Quiet
<1>1. CASE FindNone(h) \/ Insert(h) \/ Create(h) \/ CreateFails(h) \/ Send(h) \/ NoteSent(h)
           \/ NoteFailed(h) \/ Warn(h)
    <2>1. \E s \in Raising : \E todo, to, kept : Goes(h, s, todo, to, kept)
        BY <1>1 DEF FindNone, Insert, Create, CreateFails, Send, NoteSent, NoteFailed, Note,
                    Warn, StartsMailing, Advances, Raising
    <2> QED
        BY <1>1, <2>1, GoesFields
           DEF FindNone, Insert, Create, CreateFails, Send, NoteSent, NoteFailed, Note, Warn, At
<1>2. CASE FindExisting(h) \/ MailsDone(h)
    <2>1. job[h] \in Job
        BY <1>2, JobType DEF FindExisting, MailsDone, At, Raising
    <2>2. \E failed \in BOOLEAN : Attempted(h, failed)
        BY <1>2, <2>1 DEF FindExisting, MailsDone, Job
    <2> QED
        BY <1>2, <2>1, <2>2, AttemptedFields DEF FindExisting, MailsDone, At
<1>3. ASSUME NEW r \in Recipients, Notify(h, r)
      PROVE  /\ \A g \in Handlers : g # h => job'[g] = job[g]
             /\ job[h] # Idle /\ Quiet
    <2>1. \E s \in Raising : \E todo, to, kept : Goes(h, s, todo, to, kept)
        BY <1>3 DEF Notify, Raising
    <2> QED
        BY <1>3, <2>1, GoesFields DEF Notify, At
<1>4. CASE Break(h) \/ LeaveResolved(h) \/ Acknowledge(h) \/ Resolve(h)
    BY <1>4 DEF Break, LeaveResolved, Acknowledge, Resolve, Writes, At, AlertsTypeOK
<1> QED
    BY <1>1, <1>2, <1>3, <1>4 DEF AlertStep

\* What a decision writes.
LEMMA WritesRow ==
    ASSUME AlertsTypeOK, NEW h \in Handlers, Acknowledge(h) \/ Resolve(h)
    PROVE  /\ job[h] # Idle /\ job[h].stage \in Decides /\ job[h].on \in Sources
           /\ \A k \in Sources : k # job[h].on => row'[k] = row[k]
           /\ row'[job[h].on] \in {row[job[h].on], "acknowledged", "resolved"}
           /\ row'[job[h].on] = "acknowledged" => job[h].read # "resolved"
                                                  \/ row'[job[h].on] = row[job[h].on]
           /\ job'[h] = Idle /\ UNCHANGED <<mailed, raced, answered, missed>>
<1>1. job[h] # Idle /\ job[h].stage \in Decides
    BY DEF Acknowledge, Resolve, Writes, At, Decides
<1>2. job[h].on \in Sources
    BY <1>1, JobType
<1> QED
    BY <1>1, <1>2 DEF Acknowledge, Resolve, Writes, AlertsTypeOK, history

\* Alerts are never deleted, and the history only grows.
LEMMA Growth ==
    ASSUME TypeOK, [Next]_vars
    PROVE  /\ \A k \in Sources : row[k] # "none" => row'[k] # "none"
           /\ raced \subseteq raced' /\ answered \subseteq answered' /\ missed \subseteq missed'
<1> DEFINE Grown == /\ \A k \in Sources : row[k] # "none" => row'[k] # "none"
                    /\ raced \subseteq raced' /\ answered \subseteq answered'
                    /\ missed \subseteq missed'
<1>0. AlertsTypeOK
    BY DEF TypeOK
<1>1. ASSUME NEW h \in Handlers, AlertRequest(h) PROVE Grown
    BY <1>1 DEF AlertRequest, AskStatus, Decide, stored, history
<1>2. ASSUME NEW h \in Handlers, AlertStep(h) PROVE Grown
    <2>1. CASE Acknowledge(h) \/ Resolve(h)
        BY <1>0, <2>1, WritesRow
    <2>2. CASE Create(h)
        BY <1>0, <2>2 DEF Create, history, AlertsTypeOK
    <2>3. CASE FindExisting(h) \/ MailsDone(h)
        <3>1. row' = row /\ raced' = raced
            BY <2>3 DEF FindExisting, MailsDone, stored
        <3>2. answered \subseteq answered' /\ missed \subseteq missed'
            BY <2>3 DEF FindExisting, MailsDone, Attempted
        <3> QED
            BY <3>1, <3>2
    <2>4. CASE UNCHANGED <<row, raced, answered, missed>>
        BY <2>4
    <2>5. ASSUME NEW r \in Recipients, Notify(h, r) PROVE UNCHANGED <<row, raced, answered, missed>>
        BY <2>5 DEF Notify, stored, history
    <2> QED
        BY <1>2, <2>1, <2>2, <2>3, <2>4, <2>5
           DEF AlertStep, FindNone, Insert, CreateFails, Send, NoteSent, NoteFailed, Note, Warn,
               Break, LeaveResolved, stored, history
<1>3. CASE UNCHANGED <<row, raced, answered, missed>>
    BY <1>3
<1> QED
    BY <1>1, <1>2, <1>3, AlertSide DEF alertVars, stored, history, Occurs

-----------------------------------------------------------------------------
(***************************************************************************)
(* What handlers know.                                                     *)
(***************************************************************************)
\* A handler that does nothing keeps what it knows, if others keep off its alert.
LEMMA InformedStays ==
    ASSUME AlertsTypeOK, NEW g \in Handlers, Informed(g), job'[g] = job[g], job[g] # Idle,
           LET k == job[g].on IN
             /\ row[k] # "none" => row'[k] # "none"
             /\ job[g].stage = "auditing" => row'[k] = row[k]
             /\ job[g].stage \in Mails /\ job[g].kept => mailed'[k] = mailed[k]
             /\ job[g].stage \in Decides => row'[k] = row[k] \/ k \in raced'
             /\ k \in raced => k \in raced'
    PROVE  Informed(g)'
BY DEF Informed, Mails

\* What the other handlers know holds after a step of handler h.
LEMMA OthersInformed ==
    ASSUME AlertsTypeOK, JobsOK, NEW h \in Handlers, AlertStep(h),
           NEW g \in Handlers, g # h,
           \A k \in Sources : row[k] # "none" => row'[k] # "none"
    PROVE  Informed(g)'
<1>1. job'[g] = job[g] /\ job[h] # Idle /\ raced' = raced
    BY StepFrame
<1>2. CASE job[g] = Idle
    BY <1>1, <1>2 DEF Informed
<1>3. CASE job[g] # Idle
    <2> DEFINE k == job[g].on
    <2>1. Informed(g) /\ Informed(h) /\ Apart(g, h) /\ k \in Sources
        BY <1>3, JobType DEF JobsOK
    <2>2. row[k] # "none" => row'[k] # "none"
        BY <2>1
    <2>3. CASE Quiet
        BY <1>1, <1>3, <2>1, <2>2, <2>3, InformedStays DEF Quiet
    <2>4. CASE Create(h)
        <3>1. row' = [row EXCEPT ![job[h].on] = "open"] /\ mailed' = mailed
            BY <2>4 DEF Create, history
        <3>2. job[h].stage = "auditing" /\ row[job[h].on] = "none"
            BY <1>1, <2>1, <2>4 DEF Create, At, Informed
        <3>3. job[g].stage = "auditing" => k # job[h].on
            BY <1>1, <1>3, <2>1, <3>2 DEF Apart
        <3>4. job[g].stage \in Decides => k # job[h].on
            BY <1>3, <2>1, <3>2 DEF Informed
        <3>5. k # job[h].on => row'[k] = row[k]
            BY <2>1, <3>1 DEF AlertsTypeOK
        <3> QED
            BY <1>1, <1>3, <2>1, <2>2, <3>1, <3>3, <3>4, <3>5, InformedStays
    <2>5. CASE Send(h)
        <3>1. row' = row
            BY <2>5 DEF Send, stored
        <3>2. job[h].stage = "notified" /\ job[h].kept
            BY <1>1, <2>1, <2>5 DEF Send, At, Informed, Mails
        <3>3. job[g].stage \in Mails /\ job[g].kept => k # job[h].on
            BY <1>1, <1>3, <2>1, <3>2 DEF Apart, Mails
        <3>4. k # job[h].on => mailed'[k] = mailed[k]
            BY <2>1, <2>5 DEF Send, AlertsTypeOK
        <3> QED
            BY <1>1, <1>3, <2>1, <2>2, <3>1, <3>3, <3>4, InformedStays
    <2>6. CASE Acknowledge(h) \/ Resolve(h)
        <3>1. /\ job[h].stage \in Decides /\ mailed' = mailed
              /\ k # job[h].on => row'[k] = row[k]
            BY <2>1, <2>6, WritesRow
        <3>2. job[g].stage \in Decides /\ k = job[h].on => k \in raced'
            BY <1>1, <1>3, <2>1, <3>1 DEF Apart
        <3>3. job[g].stage = "auditing" => k # job[h].on
            BY <1>1, <1>3, <2>1, <3>1 DEF Informed
        <3> QED
            BY <1>1, <1>3, <2>1, <2>2, <3>1, <3>2, <3>3, InformedStays
    <2> QED
        BY <2>3, <2>4, <2>5, <2>6, StepFrame
<1> QED
    BY <1>2, <1>3

\* What the handler itself knows after its step.
LEMMA OwnInformed ==
    ASSUME AlertsTypeOK, MailFollowsAlert, NEW h \in Handlers, Informed(h), AlertStep(h)
    PROVE  Informed(h)'
<1> USE DEF stored, history
<1>1. CASE FindNone(h) \/ Insert(h)
    <2>1. PICK s \in {"inserting", "auditing", "broken"} :
             Advances(h, s) /\ (s = "auditing" => row[job[h].on] = "none")
        BY <1>1 DEF FindNone, Insert
    <2>2. /\ job'[h].stage = s /\ job'[h].on = job[h].on
          /\ job'[h].left = job[h].left /\ job'[h].failures = job[h].failures
        BY <2>1, GoesFields DEF Advances, Raising
    <2>3. job[h] # Idle /\ job[h].stage \in Raising /\ row' = row
        BY <1>1 DEF FindNone, Insert, At, Raising
    <2> QED
        BY <2>1, <2>2, <2>3 DEF Informed, Mails, Decides, Raising
<1>2. CASE FindExisting(h)
    <2>1. /\ job[h] \in Job /\ Attempted(h, FALSE) /\ row' = row /\ row[job[h].on] # "none"
          /\ job[h].failures + job[h].left <= 2
        BY <1>2, JobType DEF FindExisting, At, Raising, Informed
    <2>2. job[h].failures \in Nat
        BY <2>1 DEF Job
    <2>3. CASE job'[h] = Idle
        BY <2>3 DEF Informed
    <2>4. CASE job'[h] # Idle
        <3>0. PICK failed \in BOOLEAN : Attempted(h, failed) /\ ~failed
            BY <2>1
        <3>1. /\ job'[h].stage = "finding" /\ job'[h].on = job[h].on
              /\ job[h].left = 2 /\ job'[h].left = 1 /\ job'[h].failures = job[h].failures
            BY <2>1, <2>2, <2>4, <3>0, AttemptedFields
        <3>2. job'[h].failures + job'[h].left <= 2
            BY <2>1, <2>2, <3>1
        <3> QED
            BY <2>1, <3>1, <3>2 DEF Informed, Mails, Decides
    <2> QED
        BY <2>3, <2>4
<1>3. CASE MailsDone(h)
    <2>1. /\ job[h] \in Job /\ Attempted(h, ~job[h].kept) /\ row' = row
          /\ job[h].failures + job[h].left <= 2
          /\ job[h].kept => row[job[h].on] # "none"
        BY <1>3, JobType DEF MailsDone, At, Raising, Informed, Mails
    <2>2. job[h].failures \in Nat /\ job[h].kept \in BOOLEAN
        BY <2>1 DEF Job
    <2>3. CASE job'[h] = Idle
        BY <2>3 DEF Informed
    <2>4. CASE job'[h] # Idle
        <3>1. /\ job'[h].stage = "finding" /\ job'[h].on = job[h].on
              /\ job[h].left = 2 /\ job'[h].left = 1
              /\ job'[h].failures = job[h].failures + (IF ~job[h].kept THEN 1 ELSE 0)
            BY <2>1, <2>2, <2>4, AttemptedFields
        <3>2. job'[h].failures + job'[h].left <= 2
            BY <2>1, <2>2, <3>1
        <3>3. job'[h].failures = 0 => row'[job'[h].on] # "none"
            BY <2>1, <2>2, <3>1
        <3> QED
            BY <3>1, <3>2, <3>3 DEF Informed, Mails, Decides
    <2> QED
        BY <2>3, <2>4
<1>4. CASE Create(h)
    <2>1. /\ job[h] # Idle /\ job[h].stage = "auditing" /\ row[job[h].on] = "none"
          /\ job[h].on \in Sources /\ job[h].failures + job[h].left <= 2
        BY <1>4, JobType DEF Create, At, Informed, Raising
    <2>2. row'[job[h].on] # "none" /\ mailed' = mailed
        BY <1>4, <2>1 DEF Create, AlertsTypeOK
    <2>3. \A r \in Recipients : mailed[job[h].on][r] = 0
        BY <2>1 DEF MailFollowsAlert, AlertsTypeOK
    <2>4. PICK todo \in SUBSET Recipients : Goes(h, "mailing", todo, NoRecipient, TRUE)
        BY <1>4 DEF Create, StartsMailing
    <2>5. /\ job'[h].stage = "mailing" /\ job'[h].on = job[h].on /\ job'[h].todo = todo
          /\ job'[h].left = job[h].left /\ job'[h].failures = job[h].failures
        <3>1. job' = [job EXCEPT ![h] =
                        [stage |-> "mailing", on |-> job[h].on, todo |-> todo,
                         to |-> NoRecipient, kept |-> TRUE, left |-> job[h].left,
                         failures |-> job[h].failures]]
            BY <2>4 DEF Goes
        <3>2. h \in DOMAIN job
            BY DEF AlertsTypeOK
        <3> QED
            BY <3>1, <3>2
    <2> QED
        BY <2>1, <2>2, <2>3, <2>5 DEF Informed, Mails, Decides
<1>5. CASE CreateFails(h)
    <2>1. job[h] # Idle /\ job[h].stage = "auditing" /\ row' = row
        BY <1>5 DEF CreateFails, At
    <2>2. PICK todo \in SUBSET Recipients : Goes(h, "mailing", todo, NoRecipient, FALSE)
        BY <1>5 DEF CreateFails, StartsMailing
    <2>3. /\ job'[h].stage = "mailing" /\ job'[h].on = job[h].on /\ ~job'[h].kept
          /\ job'[h].left = job[h].left /\ job'[h].failures = job[h].failures
        BY <2>2, GoesFields DEF Raising
    <2> QED
        BY <2>1, <2>3 DEF Informed, Mails, Decides, Raising
<1>6. ASSUME NEW r \in Recipients, Notify(h, r) PROVE Informed(h)'
    <2>1. /\ job[h] # Idle /\ job[h].stage = "mailing" /\ r \in job[h].todo
          /\ row' = row /\ mailed' = mailed
        BY <1>6 DEF Notify, At
    <2>2. PICK s \in Raising : /\ Goes(h, s, job[h].todo \ {r}, r, job[h].kept)
                               /\ s = IF job[h].kept THEN "notified" ELSE "broken"
        BY <1>6 DEF Notify, Raising
    <2>3. /\ job'[h].stage = s /\ job'[h].on = job[h].on /\ job'[h].todo = job[h].todo \ {r}
          /\ job'[h].to = r /\ job'[h].kept = job[h].kept
          /\ job'[h].left = job[h].left /\ job'[h].failures = job[h].failures
        BY <2>2, GoesFields
    <2> QED
        BY <2>1, <2>2, <2>3 DEF Informed, Mails, Decides, Raising
<1>7. CASE Send(h)
    <2>1. /\ job[h] # Idle /\ job[h].stage = "notified" /\ row' = row /\ job[h].kept
          /\ job[h].to \in Recipients \ job[h].todo /\ mailed[job[h].on][job[h].to] = 0
          /\ job[h].on \in Sources /\ \A r \in job[h].todo : mailed[job[h].on][r] = 0
          /\ job[h].todo \subseteq Recipients
        BY <1>7, JobType DEF Send, At, Informed, Mails, Raising, Job
    <2>2. PICK taken \in BOOLEAN, ok \in BOOLEAN :
             /\ ok => taken
             /\ mailed' = IF taken THEN [mailed EXCEPT ![job[h].on][job[h].to] = @ + 1]
                          ELSE mailed
             /\ Advances(h, IF ok THEN "sent" ELSE "failed")
        BY <1>7 DEF Send
    <2>3. PICK s \in {"sent", "failed"} : Advances(h, s) /\ s = IF ok THEN "sent" ELSE "failed"
        BY <2>2
    <2>4. /\ job'[h].stage = s /\ job'[h].on = job[h].on /\ job'[h].todo = job[h].todo
          /\ job'[h].to = job[h].to /\ job'[h].kept = job[h].kept
          /\ job'[h].left = job[h].left /\ job'[h].failures = job[h].failures
        BY <2>3, GoesFields DEF Advances, Raising
    <2>5. \A r \in job[h].todo : mailed'[job[h].on][r] = 0
        BY <2>1, <2>2 DEF AlertsTypeOK
    <2>6. ok => mailed'[job[h].on][job[h].to] = 1
        BY <2>1, <2>2 DEF AlertsTypeOK
    <2> QED
        BY <2>1, <2>3, <2>4, <2>5, <2>6 DEF Informed, Mails, Decides, Raising
<1>8. CASE NoteSent(h) \/ NoteFailed(h) \/ Warn(h)
    <2>1. PICK s \in {"mailing", "warning"} : Advances(h, s)
        BY <1>8 DEF NoteSent, NoteFailed, Note, Warn
    <2>2. /\ job[h] # Idle /\ job[h].stage \in Mails \ {"mailing"} /\ UNCHANGED <<row, mailed>>
        BY <1>8 DEF NoteSent, NoteFailed, Note, Warn, At, Mails
    <2>3. /\ job'[h].stage = s /\ job'[h].on = job[h].on /\ job'[h].todo = job[h].todo
          /\ job'[h].to = job[h].to /\ job'[h].kept = job[h].kept
          /\ job'[h].left = job[h].left /\ job'[h].failures = job[h].failures
        BY <2>1, GoesFields DEF Advances, Raising
    <2> QED
        BY <2>1, <2>2, <2>3 DEF Informed, Mails, Decides, Raising
<1>9. CASE Break(h) \/ LeaveResolved(h) \/ Acknowledge(h) \/ Resolve(h)
    <2>1. job'[h] = Idle
        BY <1>9 DEF Break, LeaveResolved, Acknowledge, Resolve, Writes, AlertsTypeOK
    <2> QED
        BY <2>1 DEF Informed
<1> QED
    BY <1>1, <1>2, <1>3, <1>4, <1>5, <1>6, <1>7, <1>8, <1>9 DEF AlertStep

\* A handler that does not move keeps apart from one that does.
LEMMA ApartStep ==
    ASSUME AlertsTypeOK, JobsOK, NEW h \in Handlers, AlertStep(h),
           NEW g \in Handlers, g # h
    PROVE  Apart(g, h)' /\ Apart(h, g)'
<1> USE DEF stored, history
<1>1. job'[g] = job[g] /\ job[h] # Idle /\ raced' = raced
    BY StepFrame
<1>2. Apart(g, h) /\ Apart(h, g) /\ Informed(g) /\ Informed(h)
    BY DEF JobsOK
<1>3. CASE FindNone(h) \/ CreateFails(h) \/ Break(h) \/ FindExisting(h) \/ MailsDone(h)
           \/ LeaveResolved(h) \/ Acknowledge(h) \/ Resolve(h)
    <2>1. job'[h] = Idle \/ /\ job'[h] # Idle /\ job'[h].stage \in Raising \ {"auditing"}
                            /\ job'[h].stage \in Mails => ~job'[h].kept
        <3>1. CASE FindNone(h)
            <4>1. Advances(h, "inserting")
                BY <3>1 DEF FindNone
            <4> QED
                BY <4>1, GoesFields DEF Advances, Raising, Mails
        <3>2. CASE CreateFails(h)
            <4>1. \E todo \in SUBSET Recipients : Goes(h, "mailing", todo, NoRecipient, FALSE)
                BY <3>2 DEF CreateFails, StartsMailing
            <4> QED
                BY <4>1, GoesFields DEF Raising
        <3>3. CASE FindExisting(h) \/ MailsDone(h)
            <4>1. job[h] \in Job
                BY <3>3, JobType DEF FindExisting, MailsDone, At, Raising
            <4>2. \E failed \in BOOLEAN : Attempted(h, failed)
                BY <3>3, <4>1 DEF FindExisting, MailsDone, Job
            <4> QED
                BY <4>1, <4>2, AttemptedFields DEF Raising, Mails
        <3>4. CASE Break(h) \/ LeaveResolved(h) \/ Acknowledge(h) \/ Resolve(h)
            BY <3>4 DEF Break, LeaveResolved, Acknowledge, Resolve, Writes, AlertsTypeOK
        <3> QED
            BY <1>3, <3>1, <3>2, <3>3, <3>4
    <2> QED
        BY <1>1, <2>1 DEF Apart, Raising, Mails, Decides
<1>4. CASE Insert(h)
    <2>1. PICK s \in {"auditing", "broken"} : Advances(h, s)
        BY <1>4 DEF Insert
    <2>2. job'[h].stage = s /\ job'[h].on = job[h].on
        BY <2>1, GoesFields DEF Advances, Raising
    <2>3. ~(job[g] # Idle /\ job[g].stage = "auditing" /\ job[g].on = job[h].on)
        BY <1>4 DEF Insert, At
    <2> QED
        BY <1>1, <2>2, <2>3 DEF Apart, Mails, Decides
<1>5. CASE Create(h)
    <2>1. \E todo \in SUBSET Recipients : Goes(h, "mailing", todo, NoRecipient, TRUE)
        BY <1>5 DEF Create, StartsMailing
    <2>2. job'[h].stage = "mailing" /\ job'[h].on = job[h].on
        BY <2>1, GoesFields DEF Raising
    <2>3. row[job[h].on] = "none"
        BY <1>1, <1>2, <1>5 DEF Create, At, Informed
    <2>4. ~(job[g] # Idle /\ job[g].stage \in Mails /\ job[g].kept /\ job[g].on = job[h].on)
        BY <1>2, <2>3 DEF Informed
    <2> QED
        BY <1>1, <2>2, <2>4 DEF Apart, Mails, Decides
<1>6. CASE Send(h) \/ NoteSent(h) \/ NoteFailed(h) \/ Warn(h) \/ \E r \in Recipients : Notify(h, r)
    <2>1. job[h].stage \in Mails
        BY <1>6 DEF Send, NoteSent, NoteFailed, Note, Warn, Notify, At, Mails
    <2>2. \E s \in Mails \union {"broken"} : \E todo, to : Goes(h, s, todo, to, job[h].kept)
        BY <1>6 DEF Send, NoteSent, NoteFailed, Note, Warn, Notify, Advances, Mails
    <2>3. /\ job'[h].stage \in Mails \union {"broken"} /\ job'[h].on = job[h].on
          /\ job'[h].kept = job[h].kept
        BY <2>2, GoesFields DEF Raising, Mails
    <2> QED
        BY <1>1, <1>2, <2>1, <2>3 DEF Apart, Mails, Decides
<1> QED
    BY <1>3, <1>4, <1>5, <1>6 DEF AlertStep

\* Handlers that begin know nothing yet; what they find is the alert that stands.
LEMMA JobsStep ==
    ASSUME IInv, [Next]_vars
    PROVE  JobsOK'
<1>0. /\ AlertsTypeOK /\ JobsOK /\ MailFollowsAlert
      /\ \A k \in Sources : row[k] # "none" => row'[k] # "none"
    BY Growth DEF IInv, TypeOK
<1>1. CASE UNCHANGED alertVars
    BY <1>0, <1>1 DEF alertVars, stored, history, JobsOK, Informed, Apart
<1>2. CASE job' = Dies /\ UNCHANGED <<stored, occurred, history>>
    BY <1>2 DEF Dies, JobsOK, Informed, Apart
<1>3. ASSUME NEW h \in Handlers, NEW k \in Sources, Raise(h, k),
             UNCHANGED <<row, mailed, raced>>
      PROVE  JobsOK'
    <2>1. /\ job'[h].stage = "finding" /\ job'[h].on = k
          /\ job'[h].left = Asks(k) /\ job'[h].failures = 0
          /\ \A g \in Handlers : g # h => job'[g] = job[g]
        BY <1>0, <1>3, RaiseFields
    <2>2. Informed(h)'
        BY <1>3, <2>1 DEF Informed, Mails, Decides, Asks
    <2>3. ASSUME NEW g \in Handlers, g # h PROVE Informed(g)'
        <3>1. CASE job[g] = Idle
            BY <2>1, <2>3, <3>1 DEF Informed
        <3>2. CASE job[g] # Idle
            BY <1>0, <1>3, <2>1, <2>3, <3>2, InformedStays DEF JobsOK
        <3> QED
            BY <3>1, <3>2
    <2>4. ASSUME NEW f \in Handlers, NEW g \in Handlers, f # g PROVE Apart(f, g)'
        <3>1. CASE f # h /\ g # h
            BY <1>0, <1>3, <2>1, <2>4, <3>1 DEF JobsOK, Apart
        <3>2. CASE f = h \/ g = h
            BY <2>1, <2>4, <3>2 DEF Apart, Mails, Decides
        <3> QED
            BY <3>1, <3>2
    <2> QED
        BY <2>2, <2>3, <2>4 DEF JobsOK
<1>4. ASSUME NEW h \in Handlers, NEW k \in Sources, NEW s \in Decides, Decide(h, k, s)
      PROVE  JobsOK'
    <2>1. job' = [job EXCEPT ![h] = [stage |-> s, on |-> k, read |-> row[k]]]
        BY <1>4 DEF Decide
    <2>2. job'[h] = [stage |-> s, on |-> k, read |-> row[k]]
        BY <1>0, <2>1 DEF AlertsTypeOK
    <2>3. /\ job'[h].stage = s /\ job'[h].on = k /\ job'[h].read = row[k]
          /\ \A g \in Handlers : g # h => job'[g] = job[g]
        BY <1>0, <2>1, <2>2 DEF AlertsTypeOK
    <2>4. job[h] = Idle /\ row[k] # "none" /\ UNCHANGED <<row, mailed>> /\ raced \subseteq raced'
        BY <1>4 DEF Decide, stored
    <2>5. Informed(h)'
        BY <2>3, <2>4 DEF Informed, Mails, Decides, Raising
    <2>6. ASSUME NEW g \in Handlers, g # h PROVE Informed(g)'
        <3>1. CASE job[g] = Idle
            BY <2>3, <2>6, <3>1 DEF Informed
        <3>2. CASE job[g] # Idle
            BY <1>0, <2>3, <2>4, <2>6, <3>2, InformedStays DEF JobsOK
        <3> QED
            BY <3>1, <3>2
    <2>7. ASSUME NEW g \in Handlers, g # h,
                 job[g] # Idle, job[g].stage \in Decides, job[g].on = k
          PROVE  k \in raced'
        <3>1. g \in Deciding(k)
            BY <2>7 DEF Deciding, Decides
        <3> QED
            BY <1>4, <3>1 DEF Decide
    <2>8. ASSUME NEW f \in Handlers, NEW g \in Handlers, f # g PROVE Apart(f, g)'
        <3>1. CASE f # h /\ g # h
            BY <1>0, <2>3, <2>4, <2>8, <3>1 DEF JobsOK, Apart
        <3>2. CASE f = h
            BY <2>3, <2>7, <2>8, <3>2 DEF Apart, Mails, Decides
        <3>3. CASE g = h
            BY <2>3, <2>7, <2>8, <3>3 DEF Apart, Mails, Decides
        <3> QED
            BY <3>1, <3>2, <3>3
    <2> QED
        BY <2>5, <2>6, <2>8 DEF JobsOK
<1>5. ASSUME NEW h \in Handlers, AlertStep(h) PROVE JobsOK'
    <2>1. \A g \in Handlers : Informed(g)'
        BY <1>0, <1>5, OwnInformed, OthersInformed DEF JobsOK
    <2>2. \A g \in Handlers : g # h => Apart(g, h)' /\ Apart(h, g)'
        BY <1>0, <1>5, ApartStep
    <2>3. ASSUME NEW f \in Handlers, NEW g \in Handlers, f # g, f # h, g # h PROVE Apart(f, g)'
        <3>1. job'[f] = job[f] /\ job'[g] = job[g] /\ raced' = raced
            BY <1>0, <1>5, <2>3, StepFrame
        <3> QED
            BY <1>0, <2>3, <3>1 DEF JobsOK, Apart
    <2> QED
        BY <2>1, <2>2, <2>3 DEF JobsOK
<1> QED
    BY <1>1, <1>2, <1>3, <1>4, <1>5, AlertSide
       DEF Occurs, AlertRequest, AskStatus, stored, history, Decides

-----------------------------------------------------------------------------
(***************************************************************************)
(* Alerts and mails.                                                       *)
(***************************************************************************)
\* The last attempt found the alert, left it, or was the second failure.
LEMMA AnsweredStep ==
    ASSUME IInv, [Next]_vars
    PROVE  AnsweredIsAlerted'
<1>0. /\ AlertsTypeOK /\ JobsOK /\ AnsweredIsAlerted /\ missed \subseteq missed'
      /\ \A k \in Sources : row[k] # "none" => row'[k] # "none"
    BY Growth DEF IInv, TypeOK
<1>1. CASE answered' = answered
    BY <1>0, <1>1 DEF AnsweredIsAlerted
<1>2. ASSUME NEW h \in Handlers, FindExisting(h) \/ MailsDone(h) PROVE AnsweredIsAlerted'
    <2>1. job[h] \in Job /\ Informed(h) /\ job[h] # Idle /\ job[h].on \in Sources
        BY <1>0, <1>2, JobType DEF FindExisting, MailsDone, At, Raising, JobsOK
    <2>2. job[h].kept \in BOOLEAN /\ job[h].failures \in Nat
        BY <2>1 DEF Job
    <2>3. PICK failed \in BOOLEAN :
             Attempted(h, failed) /\ (~failed => row[job[h].on] # "none")
        BY <1>2, <2>1, <2>2 DEF FindExisting, MailsDone, At, Informed, Mails
    <2>4. CASE job[h].left # 1
        BY <1>1, <2>3, <2>4 DEF Attempted
    <2>5. CASE job[h].left = 1
        <3>1. /\ answered' = answered \union {job[h].on}
              /\ job[h].failures + (IF failed THEN 1 ELSE 0) = 2 => job[h].on \in missed'
            BY <2>3, <2>5 DEF Attempted
        <3>2. job[h].failures \in 0..1
            <4>1. job[h].failures + job[h].left <= 2
                BY <1>2, <2>1 DEF FindExisting, MailsDone, At, Informed, Raising
            <4> QED
                BY <2>2, <2>5, <4>1
        <3>3. job[h].on \in Events => row[job[h].on] # "none" \/ job[h].on \in missed'
            <4>1. CASE failed /\ job[h].failures = 1
                BY <3>1, <4>1
            <4>2. CASE failed /\ job[h].failures = 0
                BY <1>2, <2>1, <2>5, <4>2 DEF FindExisting, MailsDone, At, Informed, Raising
            <4>3. CASE ~failed
                BY <2>3, <4>3
            <4> QED
                BY <3>2, <4>1, <4>2, <4>3
        <3> QED
            BY <1>0, <2>1, <3>1, <3>3 DEF AnsweredIsAlerted
    <2> QED
        BY <2>4, <2>5
<1>3. ASSUME NEW h \in Handlers, AlertStep(h),
             ~(FindExisting(h) \/ MailsDone(h))
      PROVE  answered' = answered
    BY <1>3 DEF AlertStep, FindNone, Insert, Create, CreateFails, Notify, Send, NoteSent,
                NoteFailed, Note, Warn, Break, Acknowledge, LeaveResolved, Resolve, Writes, history
<1>4. ASSUME NEW h \in Handlers, AlertRequest(h) PROVE answered' = answered
    BY <1>4 DEF AlertRequest, AskStatus, Decide, history
<1> QED
    BY <1>1, <1>2, <1>3, <1>4, AlertSide DEF Occurs, alertVars, history

\* A mail goes to one who had none, and is noted after it was taken.
LEMMA MailStep ==
    ASSUME IInv, [Next]_vars
    PROVE  MailFollowsAlert'
<1>0. /\ AlertsTypeOK /\ JobsOK /\ MailFollowsAlert
      /\ \A k \in Sources : row[k] # "none" => row'[k] # "none"
    BY Growth DEF IInv, TypeOK
<1>1. CASE UNCHANGED <<mailed, note>>
    BY <1>0, <1>1 DEF MailFollowsAlert
<1>2. ASSUME NEW h \in Handlers, Send(h) PROVE MailFollowsAlert'
    <2>1. /\ job[h] # Idle /\ job[h].stage = "notified" /\ Informed(h)
          /\ job[h].on \in Sources
        BY <1>0, <1>2, JobType DEF Send, At, JobsOK
    <2>2. /\ job[h].to \in Recipients /\ mailed[job[h].on][job[h].to] = 0
          /\ row[job[h].on] # "none"
        BY <2>1 DEF Informed, Mails
    <2>3. UNCHANGED <<row, note>>
        BY <1>2 DEF Send, stored
    <2>4. mailed' \in {mailed, [mailed EXCEPT ![job[h].on][job[h].to] = @ + 1]}
        BY <1>2 DEF Send
    <2>5. ASSUME NEW k \in Sources, NEW r \in Recipients, k # job[h].on \/ r # job[h].to
          PROVE  mailed'[k][r] = mailed[k][r]
        BY <2>1, <2>2, <2>4, <2>5 DEF AlertsTypeOK, IInv, TypeOK
    <2>6. mailed'[job[h].on][job[h].to] \in {0, 1}
        BY <1>0, <2>1, <2>2, <2>4 DEF AlertsTypeOK
    <2>7. note[job[h].on][job[h].to] # "sent"
        BY <1>0, <2>1, <2>2 DEF MailFollowsAlert
    <2> QED
        BY <1>0, <2>1, <2>2, <2>3, <2>5, <2>6, <2>7 DEF MailFollowsAlert
<1>3. ASSUME NEW h \in Handlers, NoteSent(h) \/ NoteFailed(h) PROVE MailFollowsAlert'
    <2>1. job[h] # Idle /\ Informed(h) /\ job[h].on \in Sources
        BY <1>0, <1>3, JobType DEF NoteSent, NoteFailed, Note, At, JobsOK
    <2>2. /\ job[h].to \in Recipients
          /\ NoteSent(h) => mailed[job[h].on][job[h].to] = 1
        BY <1>3, <2>1 DEF NoteSent, NoteFailed, Note, At, Informed, Mails
    <2>3. UNCHANGED <<row, mailed>>
        BY <1>3 DEF NoteSent, NoteFailed, Note, history
    <2>4. PICK outcome \in {"sent", "failed"} :
             /\ outcome = "sent" => mailed[job[h].on][job[h].to] = 1
             /\ note' \in {note, [note EXCEPT ![job[h].on][job[h].to] = outcome]}
        BY <1>3, <2>2 DEF NoteSent, NoteFailed, Note
    <2>5. ASSUME NEW k \in Sources, NEW r \in Recipients, note'[k][r] = "sent"
          PROVE  mailed[k][r] = 1
        BY <1>0, <2>1, <2>2, <2>4, <2>5 DEF AlertsTypeOK, MailFollowsAlert
    <2> QED
        BY <1>0, <2>3, <2>5 DEF MailFollowsAlert
<1>4. ASSUME NEW h \in Handlers, AlertStep(h), ~(Send(h) \/ NoteSent(h) \/ NoteFailed(h))
      PROVE  UNCHANGED <<mailed, note>>
    BY <1>4 DEF AlertStep, FindNone, Insert, Create, CreateFails, Notify, FindExisting, MailsDone,
                Warn, Break, Acknowledge, LeaveResolved, Resolve, Writes, history, stored
<1>5. ASSUME NEW h \in Handlers, AlertRequest(h) PROVE UNCHANGED <<mailed, note>>
    BY <1>5 DEF AlertRequest, AskStatus, Decide, history, stored
<1> QED
    BY <1>1, <1>2, <1>3, <1>4, <1>5, AlertSide DEF Occurs, alertVars, history, stored

-----------------------------------------------------------------------------
(***************************************************************************)
(* Windows.                                                                *)
(***************************************************************************)
\* A handler at a window is at one there is a row for, or will be.
LEMMA Desks ==
    ASSUME IInv, NEW g \in Handlers, desk[g].does \in {"opening", "closing"}
    PROVE  desk[g].window \in Windows
BY DEF IInv, TypeOK, Nothing

\* A window made active while another one is was crowded when its opening began.
LEMMA WindowsStep ==
    ASSUME IInv, [Next]_vars
    PROVE  OpeningOK' /\ OneWindowAtATime'
<1> USE DEF OpeningOK, OneWindowAtATime, Active
<1>0. OpeningOK /\ OneWindowAtATime
    BY DEF IInv
<1>1. CASE UNCHANGED windowVars
    BY <1>0, <1>1 DEF windowVars
<1>2. ASSUME NEW h \in Handlers, NEW w \in Windows, Open(h, w)
      PROVE  OpeningOK' /\ OneWindowAtATime'
    <2>1. /\ desk' = [desk EXCEPT ![h] = [does |-> "opening", window |-> w]] /\ win' = win
          /\ win[w] = "none" /\ w \notin Opening /\ Active = {}
        BY <1>2 DEF Open, Opens
    <2>2. /\ desk'[h].does = "opening" /\ desk'[h].window = w
          /\ \A g \in Handlers : g # h => desk'[g] = desk[g]
        BY <2>1 DEF IInv, TypeOK
    <2>3. crowded' = IF Opening # {} THEN crowded \union Opening \union {w} ELSE crowded
        BY <1>2 DEF Open, Opens
    <2>4. ASSUME NEW g \in Handlers, g # h, desk[g].does = "opening"
          PROVE  desk[g].window # w /\ desk[g].window \in crowded' /\ w \in crowded'
        <3>1. desk[g].window \in Opening
            BY <2>4 DEF Opening
        <3> QED
            BY <2>1, <2>3, <3>1
    <2> QED
        BY <1>0, <2>1, <2>2, <2>3, <2>4
<1>3. ASSUME NEW h \in Handlers, StoreOpen(h) PROVE OpeningOK' /\ OneWindowAtATime'
    <2>1. /\ desk[h].does = "opening" /\ desk[h] # Nothing
          /\ win' = [win EXCEPT ![desk[h].window] = "active"]
          /\ desk' = [desk EXCEPT ![h] = Nothing] /\ crowded' = crowded
        BY <1>3 DEF StoreOpen, Nothing
    <2>2. desk[h].window \in Windows
        BY <2>1 DEF IInv, TypeOK
    <2>3. \A v \in Windows : win'[v] = "active" => v \in Active \/ v = desk[h].window
        BY <2>1, <2>2 DEF IInv, TypeOK
    <2>4. \A v \in Windows : v # desk[h].window => win'[v] = win[v]
        BY <2>1, <2>2 DEF IInv, TypeOK
    <2>5. desk'[h] = Nothing /\ \A g \in Handlers : g # h => desk'[g] = desk[g]
        BY <2>1 DEF IInv, TypeOK
    <2>6. \A g \in Handlers : desk'[g].does = "opening" => g # h /\ desk[g].does = "opening"
        BY <2>5 DEF Nothing
    <2>7. ASSUME NEW g \in Handlers, desk'[g].does = "opening"
          PROVE  desk[g].window \in Windows
        BY <2>6, <2>7 DEF IInv, TypeOK, Nothing
    <2>8. OneWindowAtATime'
        BY <1>0, <2>1, <2>3
    <2>9. OpeningOK'
        <3>1. \A g \in Handlers : desk'[g].does = "opening" =>
                 /\ g # h /\ desk'[g] = desk[g] /\ desk[g].window \in Windows
                 /\ desk[g].window # desk[h].window
                 /\ desk[g].window \in crowded /\ desk[h].window \in crowded
            BY <1>0, <2>1, <2>5, <2>6, <2>7
        <3>2. ASSUME NEW g \in Handlers, desk'[g].does = "opening"
              PROVE  /\ win'[desk'[g].window] = "none"
                     /\ \A v \in Active' : v \in crowded' /\ desk'[g].window \in crowded'
            BY <1>0, <2>1, <2>3, <2>4, <3>1, <3>2
        <3>3. ASSUME NEW g \in Handlers, desk'[g].does = "closing"
              PROVE  win'[desk'[g].window] # "none"
            <4>1. desk'[g] = desk[g] /\ win[desk[g].window] # "none"
                BY <1>0, <2>5, <3>3 DEF Nothing
            <4>2. desk[g].window \in Windows
                BY <3>3, <4>1, Desks
            <4>3. win'[desk[h].window] = "active"
                BY <2>1, <2>2 DEF IInv, TypeOK
            <4> QED
                BY <2>4, <4>1, <4>2, <4>3
        <3>4. \A f, g \in Handlers :
                 (f # g /\ desk'[f].does = "opening" /\ desk'[g].does = "opening") =>
                    desk'[f].window # desk'[g].window /\ desk'[f].window \in crowded'
            BY <1>0, <2>1, <3>1
        <3> QED
            BY <3>2, <3>3, <3>4
    <2> QED
        BY <2>8, <2>9
\* Whatever is left of the windows' steps opens nothing and starts no opening.
<1>4. ASSUME \A v \in Windows : win'[v] = "active" => win[v] = "active",
             \A v \in Windows : win[v] # "none" => win'[v] # "none",
             \A g \in Handlers : desk'[g].does = "opening" =>
                 desk'[g] = desk[g] /\ win'[desk[g].window] = "none",
             \A g \in Handlers : desk'[g].does = "closing" =>
                 desk'[g].window \in Windows /\ win[desk'[g].window] # "none",
             crowded' = crowded
      PROVE  OpeningOK' /\ OneWindowAtATime'
    BY <1>0, <1>4
<1>5. ASSUME NEW h \in Handlers, NEW w \in Windows, CloseFound(h, w)
      PROVE  OpeningOK' /\ OneWindowAtATime'
    <2>1. /\ desk' = [desk EXCEPT ![h] = [does |-> "closing", window |-> w]]
          /\ win' = win /\ crowded' = crowded /\ win[w] # "none"
        BY <1>5 DEF CloseFound, Unclosed
    <2>2. /\ desk'[h].does = "closing" /\ desk'[h].window = w
          /\ \A g \in Handlers : g # h => desk'[g] = desk[g]
        BY <2>1 DEF IInv, TypeOK
    <2>3. \A g \in Handlers : desk[g].does = "closing" => desk[g].window \in Windows
        BY Desks
    <2> QED
        BY <1>0, <1>4, <2>1, <2>2, <2>3
<1>6. ASSUME NEW h \in Handlers, OpenFails(h) \/ CloseFails(h)
      PROVE  OpeningOK' /\ OneWindowAtATime'
    <2>1. /\ desk' = [desk EXCEPT ![h] = Nothing] /\ win' = win /\ crowded' = crowded
        BY <1>6 DEF OpenFails, CloseFails, Answers
    <2>2. desk'[h] = Nothing /\ \A g \in Handlers : g # h => desk'[g] = desk[g]
        BY <2>1 DEF IInv, TypeOK
    <2>3. \A g \in Handlers : desk[g].does = "closing" => desk[g].window \in Windows
        BY Desks
    <2> QED
        BY <1>0, <1>4, <2>1, <2>2, <2>3 DEF Nothing
<1>7. ASSUME NEW h \in Handlers, CloseNone(h) \/ CloseAmbiguous(h)
      PROVE  OpeningOK' /\ OneWindowAtATime'
    BY <1>0, <1>7 DEF CloseNone, CloseAmbiguous, Answers
<1>8. ASSUME NEW h \in Handlers, StoreClose(h)
      PROVE  OpeningOK' /\ OneWindowAtATime'
    <2>1. /\ desk[h].does = "closing" /\ win' = [win EXCEPT ![desk[h].window] = "closed"]
          /\ desk' = [desk EXCEPT ![h] = Nothing] /\ crowded' = crowded
        BY <1>8 DEF StoreClose, Answers
    <2>2. desk'[h] = Nothing /\ \A g \in Handlers : g # h => desk'[g] = desk[g]
        BY <2>1 DEF IInv, TypeOK
    <2>3. /\ desk[h].window \in Windows /\ win[desk[h].window] # "none"
          /\ \A g \in Handlers : desk[g].does = "closing" => desk[g].window \in Windows
        BY <1>0, <2>1, Desks
    <2>4. /\ win'[desk[h].window] = "closed"
          /\ \A v \in Windows : v # desk[h].window => win'[v] = win[v]
        BY <2>1, <2>3 DEF IInv, TypeOK
    <2>5. \A g \in Handlers : desk'[g].does = "opening" =>
             desk'[g] = desk[g] /\ win'[desk[g].window] = "none"
        <3>1. \A g \in Handlers : desk[g].does = "opening" =>
                 desk[g].window \in Windows /\ win[desk[g].window] = "none"
            BY <1>0, Desks
        <3> QED
            BY <2>2, <2>3, <2>4, <3>1 DEF Nothing
    <2>6. \A g \in Handlers : desk'[g].does = "closing" =>
             desk'[g].window \in Windows /\ win[desk'[g].window] # "none"
        BY <1>0, <2>2, <2>3 DEF Nothing
    <2> QED
        BY <1>4, <2>1, <2>3, <2>4, <2>5, <2>6
<1>9. ASSUME NEW w \in Windows, Expire(w) PROVE OpeningOK' /\ OneWindowAtATime'
    <2>1. win[w] = "active" /\ win' = [win EXCEPT ![w] = "expired"]
          /\ desk' = desk /\ crowded' = crowded
        BY <1>9 DEF Expire
    <2>2. win'[w] = "expired" /\ \A v \in Windows : v # w => win'[v] = win[v]
        BY <2>1 DEF IInv, TypeOK
    <2>3. \A g \in Handlers : desk[g].does \in {"opening", "closing"} => desk[g].window \in Windows
        BY Desks
    <2> QED
        BY <1>0, <1>4, <2>1, <2>2, <2>3
<1>10. CASE Crash
    <2>1. win' = win /\ crowded' = crowded /\ \A g \in Handlers : desk'[g] = Nothing
        BY <1>10 DEF Crash
    <2> QED
        BY <1>0, <1>4, <2>1 DEF Nothing
<1>11. CASE UNCHANGED vars
    BY <1>0, <1>11 DEF vars, windowVars
<1> QED
    BY <1>1, <1>2, <1>3, <1>5, <1>6, <1>7, <1>8, <1>9, <1>10, <1>11 DEF Next

-----------------------------------------------------------------------------
(***************************************************************************)
(* The invariant and what it promises.                                     *)
(***************************************************************************)
\* The invariant holds at the start,
LEMMA InitIInv == Init => IInv
<1> SUFFICES ASSUME Init PROVE IInv
    OBVIOUS
<1>1. TypeOK
    BY AlertsAssumption DEF Init, AlertsInit, TypeOK, AlertsTypeOK, Windows, Statuses, Nothing
<1>2. JobsOK
    BY DEF Init, AlertsInit, JobsOK, Informed, Apart
<1>3. OpeningOK /\ OneWindowAtATime
    BY DEF Init, OpeningOK, OneWindowAtATime, Active, Nothing
<1>4. AnsweredIsAlerted /\ MailFollowsAlert
    BY DEF Init, AlertsInit, AnsweredIsAlerted, MailFollowsAlert
<1> QED
    BY <1>1, <1>2, <1>3, <1>4 DEF IInv

\* and every step keeps it.
LEMMA Invariance == Spec => []IInv
<1>1. IInv /\ [Next]_vars => IInv'
    BY TypeStep, JobsStep, AnsweredStep, MailStep, WindowsStep DEF IInv
<1> QED
    BY InitIInv, <1>1, PTL DEF Spec

\* Everything a handler holds and every stored row has the form the code gives it.
THEOREM TypeCorrect == Spec => []TypeOK
<1>1. IInv => TypeOK
    BY DEF IInv
<1> QED
    BY Invariance, <1>1, PTL

\* A handler that answers has left a stored alert, or the audit trail failed it twice
\* (create_alert and its two callers).
THEOREM AnswersAreAlerted == Spec => []AnsweredIsAlerted
<1>1. IInv => AnsweredIsAlerted
    BY DEF IInv
<1> QED
    BY Invariance, <1>1, PTL

\* A recipient gets at most one mail about an alert, and only about a stored one
\* (_send_email_notifications_if_needed after _find_existing_alert).
THEOREM MailsFollowAlerts == Spec => []MailFollowsAlert
<1>1. IInv => MailFollowsAlert
    BY DEF IInv
<1> QED
    BY Invariance, <1>1, PTL

\* Two windows are active together only if their openings overlapped
\* (admin_break_glass_open).
THEOREM OneWindow == Spec => []OneWindowAtATime
<1>1. IInv => OneWindowAtATime
    BY DEF IInv
<1> QED
    BY Invariance, <1>1, PTL

\* Without two decisions at the same time a resolved alert stays resolved
\* (acknowledge_alert, resolve_alert).
THEOREM ResolutionsStay == Spec => ResolutionStays
<1> DEFINE Stays == \A k \in Sources \ raced' : row[k] = "resolved" => row'[k] = "resolved"
<1>1. ASSUME IInv, [Next]_vars PROVE [Stays]_alertVars
    <2>0. AlertsTypeOK /\ JobsOK
        BY <1>1 DEF IInv, TypeOK
    <2>1. CASE row' = row
        BY <2>1
    <2>2. ASSUME NEW h \in Handlers, AlertStep(h) PROVE Stays
        <3>1. CASE Create(h)
            <4>1. row' = [row EXCEPT ![job[h].on] = "open"] /\ row[job[h].on] = "none"
                BY <2>0, <3>1 DEF Create, At, JobsOK, Informed
            <4> QED
                BY <2>0, <4>1 DEF AlertsTypeOK
        <3>2. CASE Acknowledge(h)
            <4>1. /\ job[h] # Idle /\ job[h].stage \in Decides /\ Informed(h)
                  /\ job[h].read # "resolved" /\ raced' = raced
                  /\ row' \in {row, [row EXCEPT ![job[h].on] = "acknowledged"]}
                BY <2>0, <3>2 DEF Acknowledge, Writes, At, JobsOK, Decides, history
            <4>2. job[h].on \in raced \/ row[job[h].on] # "resolved"
                BY <4>1 DEF Informed
            <4> QED
                BY <2>0, <4>1, <4>2 DEF AlertsTypeOK
        <3>3. CASE Resolve(h)
            <4>1. row' \in {row, [row EXCEPT ![job[h].on] = "resolved"]}
                BY <3>3 DEF Resolve, Writes
            <4> QED
                BY <2>0, <4>1 DEF AlertsTypeOK
        <3>4. CASE ~(Create(h) \/ Acknowledge(h) \/ Resolve(h))
            <4>1. row' = row
                BY <2>2, <3>4 DEF AlertStep, FindNone, FindExisting, Insert, CreateFails,
                    MailsDone, Send, NoteSent, NoteFailed, Note, Warn, Break, Notify,
                    LeaveResolved, stored
            <4> QED
                BY <4>1
        <3> QED
            BY <3>1, <3>2, <3>3, <3>4
    <2>3. ASSUME NEW h \in Handlers, AlertRequest(h) PROVE row' = row
        BY <2>3 DEF AlertRequest, AskStatus, Decide, stored
    <2> QED
        BY <1>1, <2>1, <2>2, <2>3, AlertSide DEF Occurs, alertVars, stored
<1> QED
    BY Invariance, <1>1, PTL DEF Spec, ResolutionStays
=============================================================================
