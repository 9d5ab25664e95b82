---------------------------- MODULE PublishState ----------------------------
(***************************************************************************)
(* The row of camera_publish_states of one camera, and everybody who       *)
(* writes it: LiveKit webhooks, the view-token endpoint, and the           *)
(* maintenance job, scheduled or started by an administrator.              *)
(*                                                                         *)
(* Webhooks and the scheduled job run on the event loop of the server, one *)
(* at a time; the other handlers run on threads. Nobody locks the row: a   *)
(* request reads it, decides, and writes back the columns it changed. A    *)
(* request that starts the gateway commits twice: the row (with the stream *)
(* grant), then the start command (with the audit row).                    *)
(*                                                                         *)
(* One camera and its gateway are enough: rows of different cameras are    *)
(* never read together but by the maintenance job, whose passes over other *)
(* cameras only make the time between its read and its write longer.       *)
(***************************************************************************)
EXTENDS Naturals, FiniteSets

CONSTANTS
    Events,         \* webhook events LiveKit may emit (a bound)
    Loop,           \* the event loop of the server
    Threads,        \* requests on the thread pool at the same time (a bound)
    NoEvent,        \* "this request is no webhook"
    NoTime,         \* NULL in a time column
    Scheduler,      \* ENABLE_MAINTENANCE_SCHEDULER
    Grace,          \* STOP_GRACE_SECONDS
    Window,         \* LIVEKIT_WEBHOOK_TIMESTAMP_WINDOW_SECONDS
    MaxTime,        \* bound: last instant of the clock
    MaxViewers,     \* bound: viewers in the room at the same time
    MaxFaults       \* bound: requests that fail in the middle

ASSUME LoopAssumption == Loop \notin Threads
ASSUME NoEventAssumption == NoEvent \notin Events
ASSUME NoTimeAssumption == NoTime \notin Nat
ASSUME SchedulerAssumption == Scheduler \in BOOLEAN
ASSUME BoundsAssumption ==
    Grace \in Nat /\ Window \in Nat /\ MaxTime \in Nat /\ MaxViewers \in Nat /\ MaxFaults \in Nat

VARIABLES
    now,            \* the clock
    viewers,        \* viewers in the LiveKit room
    enabled,        \* camera active, gateway enabled and assigned to it
    sent,           \* sent[e]: kind and time of an event LiveKit emitted
    seen,           \* webhook_replay_cache
    row,            \* the row of camera_publish_states
    job,            \* job[w]: what worker w read and is about to write
    last,           \* the last command enqueued for the gateway
    raised,         \* raised[e]: commands enqueued on behalf of event e
    faults          \* requests that failed in the middle so far

world == <<now, viewers, enabled, sent>>
vars == <<world, seen, row, job, last, raised, faults>>

Workers == Threads \union {Loop}
Kinds == {"unsent", "joined", "left", "emptied", "finished"}
Statuses == {"idle", "starting", "publishing", "stop_pending"}
Live == {"starting", "publishing"}
Times == 0..MaxTime
Row == [there : BOOLEAN, status : Statuses, started : BOOLEAN,
        due : 0..(MaxTime + Grace) \union {NoTime}]
Columns == {"there", "status", "started", "due"}

\* A request: the row it read, the row it wants, the columns it writes
\* although they may look unchanged (they get a fresh timestamp), the command
\* it enqueues, and how far it is.
Idle == [stage |-> "idle"]
Job == [stage : {"read", "granted"}, event : Events \union {NoEvent}, old : Row,
        new : Row, forced : SUBSET Columns, sends : {"none", "start", "stop"}]

NoRow == [there |-> FALSE, status |-> "idle", started |-> FALSE, due |-> NoTime]

Init ==
    /\ now = 0
    /\ viewers = 0
    /\ enabled = TRUE
    /\ sent = [e \in Events |-> [kind |-> "unsent", at |-> 0]]
    /\ seen = {}
    /\ row = NoRow
    /\ job = [w \in Workers |-> Idle]
    /\ last = "none"
    /\ raised = [e \in Events |-> 0]
    /\ faults = 0

-----------------------------------------------------------------------------
(***************************************************************************)
(* What the functions of publish_state.py make of a row.                   *)
(***************************************************************************)

\* cancel_pending_stop, on a row that is stop_pending.
Cancelled(r) ==
    [r EXCEPT !.status = IF r.started THEN "publishing" ELSE "starting", !.due = NoTime]

\* mark_publish_starting, on a row that is not live yet.
Starting(r) == [there |-> TRUE, status |-> "starting", started |-> TRUE, due |-> NoTime]

\* (Deviations: no due time is written; the grace period is forgotten.)
ScheduledUndated(r, at) == [r EXCEPT !.there = TRUE, !.status = "stop_pending"]

ScheduledAtOnce(r, at) ==
    [r EXCEPT !.there = TRUE, !.status = "stop_pending", !.due = at]

\* schedule_publish_stop, for a webhook whose event happened at this time.
Scheduled(r, at) ==
    [r EXCEPT !.there = TRUE, !.status = "stop_pending", !.due = at + Grace]

\* (Deviation: a status the column does not have.)
ResetStopped(r) == [there |-> TRUE, status |-> "stopped", started |-> FALSE, due |-> NoTime]

\* reset_publish_state_for_immediate_stop.
Reset(r) == [there |-> TRUE, status |-> "idle", started |-> FALSE, due |-> NoTime]

\* (Deviation: the due time is cleared, the status is not.)
SweptPending(r) == [r EXCEPT !.started = ~enabled /\ r.started, !.due = NoTime]

\* enqueue_due_publish_stops: without an active camera and an enabled gateway
\* the row becomes idle with no command, and keeps started_at.
Swept(r) == [r EXCEPT !.status = "idle", !.started = ~enabled /\ r.started, !.due = NoTime]

\* The UPDATE names only the columns that differ from what was read.
Merge(old, new, forced, cur) ==
    [f \in Columns |-> IF new[f] # old[f] \/ f \in forced THEN new[f] ELSE cur[f]]

-----------------------------------------------------------------------------
(***************************************************************************)
(* The world: time, viewers, LiveKit and administrators.                   *)
(***************************************************************************)

Tick ==
    /\ now < MaxTime
    /\ now' = now + 1
    /\ UNCHANGED <<viewers, enabled, sent, seen, row, job, last, raised, faults>>

\* Events happen early enough for their grace period to end within MaxTime.
Emit(e, kind) ==
    /\ sent[e].kind = "unsent"
    /\ now + Grace <= MaxTime
    /\ sent' = [sent EXCEPT ![e] = [kind |-> kind, at |-> now]]
    /\ UNCHANGED <<now, enabled, seen, row, job, last, raised, faults>>

ViewerJoins(e) ==
    /\ viewers < MaxViewers
    /\ viewers' = viewers + 1
    /\ Emit(e, "joined")

ViewerLeaves(e) ==
    /\ viewers > 0
    /\ viewers' = viewers - 1
    /\ Emit(e, IF viewers = 1 THEN "emptied" ELSE "left")

\* The gateway's own connection is a participant that joins.
GatewayJoins(e) ==
    /\ last = "start"
    /\ viewers' = viewers
    /\ Emit(e, "joined")

RoomFinishes(e) ==
    /\ viewers = 0
    /\ viewers' = viewers
    /\ Emit(e, "finished")

\* A camera is retired or a gateway disabled or unassigned, and back.
AdminSwitches ==
    /\ enabled' = ~enabled
    /\ UNCHANGED <<now, viewers, sent, seen, row, job, last, raised, faults>>

-----------------------------------------------------------------------------
(***************************************************************************)
(* Requests. A request first reads ...                                     *)
(***************************************************************************)

Begin(w, e, new, forced, sends) ==
    /\ job[w] = Idle
    /\ job' = [job EXCEPT ![w] = [stage |-> "read", event |-> e, old |-> row,
                                  new |-> new, forced |-> forced, sends |-> sends]]
    /\ UNCHANGED <<world, seen, row, last, raised, faults>>

\* (Deviation: the replay cache is not consulted.)
AcceptsReplays(e) == sent[e].kind # "unsent" /\ now - sent[e].at <= Window

\* A webhook that is neither stale nor a replay. LiveKit may deliver an event
\* any number of times and in any order.
Accepts(e) ==
    /\ sent[e].kind # "unsent"
    /\ now - sent[e].at <= Window
    /\ e \notin seen

JoinWebhook(e) ==
    /\ Accepts(e)
    /\ enabled /\ sent[e].kind = "joined"
    /\ \/ /\ row.status = "stop_pending"
          /\ Begin(Loop, e, Cancelled(row), {}, "none")
       \/ /\ row.status \in Live
          /\ Begin(Loop, e, row, {}, "none")
       \/ /\ row.status = "idle"
          /\ Begin(Loop, e, Starting(row), {"started"}, "start")

LeaveWebhook(e) ==
    /\ Accepts(e)
    /\ enabled /\ sent[e].kind \in {"emptied", "finished"}
    /\ IF Scheduler /\ sent[e].kind = "emptied"
       THEN Begin(Loop, e, Scheduled(row, sent[e].at), {"due"}, "none")
       ELSE Begin(Loop, e, Reset(row), {}, "stop")

\* Nothing to do for the gateway: the event is only remembered.
OtherWebhook(e) ==
    /\ Accepts(e)
    /\ ~enabled \/ sent[e].kind = "left"
    /\ Begin(Loop, e, row, {}, "none")

\* A viewer asks for a token: a pending stop is cancelled, then the row is
\* marked starting unless it is live, and a start command follows in any case.
ViewToken(w) ==
    /\ w \in Threads
    /\ enabled
    /\ LET kept == IF row.status = "stop_pending" THEN Cancelled(row) ELSE row
       IN  IF kept.status \in Live
           THEN Begin(w, NoEvent, kept, {}, "start")
           ELSE Begin(w, NoEvent, Starting(kept), {"started"}, "start")

\* The maintenance job finds a stop that is due.
Maintain(w) ==
    /\ w \in Threads \/ Scheduler
    /\ row.status = "stop_pending"
    /\ row.due # NoTime /\ row.due <= now
    /\ Begin(w, NoEvent, Swept(row), {}, IF enabled THEN "stop" ELSE "none")

(***************************************************************************)
(* ... then commits, ...                                                   *)
(***************************************************************************)

\* Two requests insert the row of the camera: the second one fails.
InsertConflict(w) == job[w].new.there /\ ~job[w].old.there /\ row.there

Raised(e) == IF e = NoEvent THEN raised ELSE [raised EXCEPT ![e] = @ + 1]

Commit(w) ==
    /\ job[w].stage = "read"
    /\ ~InsertConflict(w)
    /\ row' = Merge(job[w].old, job[w].new, job[w].forced, row)
    /\ seen' = seen \union ({job[w].event} \ {NoEvent})
    /\ IF job[w].sends = "start"
       THEN /\ job' = [job EXCEPT ![w].stage = "granted"]
            /\ UNCHANGED <<last, raised>>
       ELSE /\ job' = [job EXCEPT ![w] = Idle]
            /\ IF job[w].sends = "stop"
               THEN last' = "stop" /\ raised' = Raised(job[w].event)
               ELSE UNCHANGED <<last, raised>>
    /\ UNCHANGED <<world, faults>>

\* ... and, when it starts the gateway, commits the command.
CommitStart(w) ==
    /\ job[w].stage = "granted"
    /\ last' = "start"
    /\ raised' = Raised(job[w].event)
    /\ job' = [job EXCEPT ![w] = Idle]
    /\ UNCHANGED <<world, seen, row, faults>>

\* The request fails: what is not committed yet is lost, what is committed
\* stays. The caller gets a 5xx answer.
Fail(w) ==
    /\ job[w] # Idle
    /\ \/ faults < MaxFaults /\ faults' = faults + 1
       \/ job[w].stage = "read" /\ InsertConflict(w) /\ faults' = faults
    /\ job' = [job EXCEPT ![w] = Idle]
    /\ UNCHANGED <<world, seen, row, last, raised>>

-----------------------------------------------------------------------------
Next ==
    \/ Tick
    \/ \E e \in Events : ViewerJoins(e) \/ ViewerLeaves(e) \/ GatewayJoins(e) \/ RoomFinishes(e)
    \/ AdminSwitches
    \/ \E e \in Events : JoinWebhook(e) \/ LeaveWebhook(e) \/ OtherWebhook(e)
    \/ \E w \in Workers : ViewToken(w) \/ Maintain(w) \/ Commit(w) \/ CommitStart(w) \/ Fail(w)

Spec == Init /\ [][Next]_vars

(***************************************************************************)
(* Time passes, a request that began ends, and with the scheduler the      *)
(* event loop comes back to the maintenance job although webhooks keep it  *)
(* busy now and then (its ready queue is first-in first-out).              *)
(***************************************************************************)
Fairness ==
    /\ WF_vars(Tick)
    /\ SF_vars(Maintain(Loop))
    /\ \A w \in Workers : WF_vars(Commit(w) \/ CommitStart(w) \/ Fail(w))

FairSpec == Spec /\ Fairness

-----------------------------------------------------------------------------
(***************************************************************************)
(* Properties.                                                             *)
(***************************************************************************)

\* Every variable keeps to the values its columns can have.
TypeOK ==
    /\ now \in Times
    /\ viewers \in 0..MaxViewers
    /\ enabled \in BOOLEAN
    /\ sent \in [Events -> [kind : Kinds, at : Times]]
    /\ seen \subseteq Events
    /\ row \in Row
    /\ job \in [Workers -> Job \union {Idle}]
    /\ last \in {"none", "start", "stop"}
    /\ raised \in [Events -> Nat]
    /\ faults \in 0..MaxFaults

\* A pending stop always has a due time, although columns of several requests
\* are mixed: otherwise the maintenance job, which asks for stop_due_at IS NOT
\* NULL, would never find it (schedule_publish_stop, enqueue_due_publish_stops).
PendingHasDue == row.status = "stop_pending" => row.there /\ row.due # NoTime

\* A webhook event moves the gateway at most once, however often LiveKit
\* delivers it and wherever a delivery fails (webhook_replay_cache).
RaisedOnce == \A e \in Events : raised[e] <= 1

\* The maintenance job stops a camera only when the grace period after some
\* "room is empty" event is over, whatever was mixed into the row meanwhile.
Sweeping(w) == job[w] # Idle /\ job[w].event = NoEvent /\ job[w].sends = "stop"

GraceRespected ==
    \A w \in Workers :
        Sweeping(w) => \E e \in seen : sent[e].kind = "emptied" /\ sent[e].at + Grace <= now

\* With the scheduler a pending stop does not stay pending: it is carried out
\* or cancelled.
StopResolved == row.status = "stop_pending" ~> row.status # "stop_pending"
=============================================================================
