# Panoptix: specifications, model checking and proofs

Panoptix is a CCTV control plane: a FastAPI server on PostgreSQL, LiveKit as
media plane, one edge agent per gateway that pulls RTSP from cameras with
ffmpeg and publishes it to LiveKit while somebody watches. The modules in this
directory model its control logic in TLA+, TLC checks them on small instances
and TLAPS proves the main safety properties for every value of the constants.

Paths below are relative to the repository; `API` stands for
`apps/api/src/cctv_api` and `EDGE` for
`apps/cctv-edge/agent/src/panoptix_edge_agent`.

## 1. Inventory

| Component | State it keeps | Operations | Talks to | What is hard |
|---|---|---|---|---|
| Command queue (`API/gateway/command_queue.py`, `API/api/gateways.py`, parts of `API/api/router.py`) | rows of `gateway_command_queue` | enqueue, hand out, acknowledge, cancel, expire | edge loops, alerts, audit | two transports, lost and late acknowledgements, read-then-write without a lock |
| Edge loops (`EDGE/supervisor.py`, `runner.py`, `control.py`, `client.py`, `commands.py`) | nothing between cycles | heartbeat, control session, reconnect, verify | command queue, executor | timeouts, retries, redelivery |
| Publish state (`API/gateway/publish_state.py`, `API/api/livekit_webhooks.py`, `get_camera_view_token`, `API/jobs/maintenance.py`) | one row per camera, replay cache | webhook, view token, maintenance pass | command queue, LiveKit | events repeated and out of order, two commits per request, no lock |
| Edge publishing (`EDGE/executor.py`, `livekit_publisher.py`, `ffmpeg_rtsp_frame_source.py`, `command_execution.py`) | three registries, media sessions, ffmpeg processes | start_publish, stop_publish, frame pump | edge loops, LiveKit, ffmpeg | cleanup that fails half-way, commands against a failing pump, blocking calls on the event loop |
| Audit trail (`API/security/audit.py`) | `audit_log`, `audit_hmac_keys` | record, verify | every handler | concurrent writers of a hash chain |
| Break-glass windows (`API/security/break_glass.py`) | rows of `break_glass_usage` | open, close, status | audit, alerts | look and insert are two steps, expired windows stay unclosed |
| Alerts (`API/security/alerts.py`, `API/integrations/email_alerts.py`) | `alerts`, `alert_notifications` | detect, deduplicate, mail, acknowledge, resolve | audit, mail provider | a failing audit event takes the caller's work along and is swallowed, mails cannot be rolled back |
| Rate limiter (`API/security/rate_limit.py`) | timestamps per key | check | view tokens, administration | the clock is read before the lock, boundary instants, lost at a restart |
| Sessions and users (`API/security/sessions.py`, `dependencies.py`, `users.py`, `stream_access.py`) | `sessions`, `users`, ACLs, stream grants | authenticate, touch, revoke, disable, grant | LiveKit | a request that passed its checks while the user is disabled |
| Administration of gateways, cameras, ACLs (`API/api/router.py`, `API/security/livekit_rooms.py`) | tables of that name, `system_config` | create, assign, retire, rename, disable, permit, switch the media plane | publish state, LiveKit, audit | racing edits, an edit while the camera is published, LiveKit removals that cannot be rolled back |
| Access requests and invitations (`API/api/visitors.py`, `API/integrations/github_invites.py`, `admin_invite_user`) | `visitor_access_requests`, `users`, `user_roles` | submit, approve, reject, invite | GitHub, audit | a call to GitHub inside a transaction, answers that are lost, decisions and submissions that overlap |
| Visits (`API/api/visitors.py`, `API/security/visitor_visits.py`) | `visitor_visits` | collect, link to a session, purge | alerts, sessions, maintenance | an alert that fails after the visit is stored, retention against linking |
| MediaMTX process (`EDGE/mediamtx_process.py`) | one child process | start, stop | supervisor | terminate, kill, second timeout |
| Discovery (`EDGE/discovery.py`) | none | scan, report | API | none that concerns state |
| Backup jobs (`API/jobs/*_r2.py`) | objects in a bucket, rows of `backup_runs` | back up, retain, restore drill | storage | deletions by a stale listing, jobs that overlap or are killed |
| Privacy and compliance records (`API/api/router.py`) | one table each | write a row with its audit event | audit | none |
| Assistant, profiles, investigation | none | read and summarise | database | none |
| Identity, CSRF, headers, IP intelligence | none | check one request | every handler | none that spans requests |
| Web front end (`apps/web`) | browser state | presentation | API | not control logic |

What makes each of the modelled components correct:

- *Command queue*: a verdict in the table is what the gateway did; a rejection
  is alerted; a command declared expired is not started; nothing stays pending.
- *Publish state*: a scheduled stop can be found and is resolved; an event acts
  once; the grace period is kept.
- *Edge publishing*: the registries agree, nothing that runs is forgotten, an
  accepted start is connected and watched over, every command is answered.
- *Audit trail*: rows are signed over committed history with stored keys; a
  chain without races verifies; a break does not heal.
- *Access requests*: an approved request is carried out entirely, a failed
  approval leaves no account, decisions and answers to duplicates hold as long as
  two handlers do not overlap.
- *Break-glass and alerts*: one window at a time, an opening is alerted, an alert
  is mailed once, a resolved alert stays resolved, unless requests overlap.
- *Backups*: nothing recent is deleted, and what is deleted has a successor kept.
- *Sessions, users, limiter*: a disabled user has nothing but what was in flight;
  no window of time lets more requests through than configured, as long as the
  process lives.
- *Administration with rooms*: the audit trail says how things are; a room that
  somebody watches is not told to stop.

## 2. Modules

| Module | Models | Kind |
|---|---|---|
| `CommandPromise` | what the queue promises: hand out what is open, perform what was handed out, verdicts that tell the truth | abstract |
| `CommandQueue` | table, both transports, acknowledgements, cancel, expiry, edge loops | detailed, implements `CommandPromise` |
| `PublishState` | the row of one camera and all its writers | detailed |
| `EdgeAgent` | executor, controller, publisher, session, pump, ffmpeg of one camera | detailed |
| `AuditTrail` | writers of the audit log, its chain and its verifier | detailed |
| `AccessRequests` | submissions, decisions, invitations and the accounts they give | detailed |
| `Alerts` | alerts, their mails, decisions about them | detailed, no `Spec` of its own |
| `BreakGlass` | break-glass windows; extends `Alerts` | composition |
| `Backups` | backup jobs, retention jobs, restore drill, bucket | detailed |
| `RateLimiter` | the sliding window of one key | detailed, no `Spec` of its own |
| `Access` | authentication, sessions, view tokens, disabling; extends `RateLimiter` | composition |
| `Administration` | what administrators edit | detailed, no `Spec` of its own |
| `RoomPresence` | rooms, viewers, publishers, publish state and orders; extends `Administration` | composition |
| `MC<module>` | constants for TLC | instances |
| `<module>Proofs` | theorems and their proofs | proofs |

Operators marked *Deviation* in a comment are variants of the definition that
follows them with one plausible mistake. No specification uses them; they are
there to see that each property can fail (`mutants` in `PROJECT.json`).

### CommandQueue

`status`, `issuedAt`, `expiresAt` are columns of `gateway_command_queue`;
`alerted` stands for the alert rows, `cancelling` for administrators between
the read and the commit of `cancel_gateway_command`. `phase`, `attempt`,
`handled`, `batch`, `down` are local variables of the agent's loops, `acks` the
acknowledgements on the wire. `executed` and `refused` record what the gateway
did. Each handler of the server is one action, but for the cancel, whose read
and write are two; each iteration of the agent's loops is split at its network
calls and at the executor: a command is verified (`VerifyPolled`, `VerifySession`),
is `running` while the control plane goes on, and ends (`FinishPolled`,
`FinishSession`). It may expire meanwhile; its acknowledgement is applied all the
same. `RecordAck` has no look at the old status, as `db_ack_sink` has none. A
failing audit of a new alert rolls the acknowledgement back
(`RecordAckRolledBack`).

One gateway is modelled (rows of different gateways never meet), both ends read
the same clock, and a signature is always right: what can fail in
`verify_gateway_command` is freshness. An execution succeeds or fails; what it
does is the subject of `EdgeAgent`.

### PublishState

`row` is the row of `camera_publish_states`, without the columns no decision
reads (`last_viewer_count`, `stop_requested_at`, room and gateway). A request
is a worker that reads the row, decides (`Begin` with the row it wants and the
columns it writes), commits the columns that differ from what it read
(`Merge`, because SQLAlchemy updates only those, under READ COMMITTED and
without a version column), and, when it starts the gateway, commits a second
time: `record_stream_grant` commits the row before the command is enqueued. A
request may fail before either commit. Timestamps are always written
(`forced`): two of them are never equal.

The server is one uvicorn process (`apps/api/Dockerfile`): webhooks and the
scheduled job are coroutines that do not await while they use the database, so
they are one worker (`Loop`); view tokens and the manual maintenance endpoint
run on the thread pool (`Threads`). Rooms, viewers and LiveKit's delivery of
events (any number of times, any order, within the timestamp window) are
external.

### EdgeAgent

`local`, `ctrl`, `sdk` are the registries of `PublishState` (edge),
`LiveKitMediaController` and `LiveKitSdkPublisherClient`. Each media session has
a room, a frame pump at some stage and an ffmpeg process. A command is split
where it awaits something during which the pump or ffmpeg can move:
the stop of an old session, the connection, the first frame, the track, the cleanup.
A start that finds an unhealthy session lets it go in two ways. When the stop works,
publisher and controller drop their entries without an await between them
(`StartReplaced`); when it fails, the controller drops its own at once
(`StartHalfReplaced`), and the publisher stops the session a second time and
disconnects before it follows (`StartDropped`). `Healthy` is the code's health check:
it asks for the frame task, not for frames.
`CloseSource` models `aclose`: `stdout.close()` takes the lock of the buffered
reader, which a worker thread holds while it is blocked in `read`, so the event
loop waits (`blocked`) until ffmpeg sends data or ends. End of file is treated
as the end of the process, and `kill` always works.

### AuditTrail

A writer reads the newest committed hash (`Sign`), draws an id (`Insert`),
commits. A hash stands for the id of its row. `version` and `keys` are the
configured key version and `audit_hmac_keys`; a second transaction that stores
the same key waits for the first. `Valid` is the verifier. `overlapped` records
whether two writers were ever at work together.

### AccessRequests

`state[q]` is the answer to submission `q` until its row exists, then the status
of the row; `account`, `role` are the rows of `users` and `user_roles` with one
address (the role is `viewer`, the only one a request can ask for), `invited`
what GitHub knows. A submission is two steps, the read and the commit. A
decision is split where other transactions can come between: the row is read
(`Read`), the account is read (`Look`), what is missing is inserted (`Insert`,
which waits for a transaction that has inserted the same key and fails if that
one commits), GitHub answers (`Invited`, `InviteFails`), everything is committed
(`Commit`, `CommitFails`). `record_audit_event` commits or rolls back all that
is pending, so it is the commit. A rollback does not reach GitHub.

An answer without a row (`StoreFails` at the audit event) and an error are one
state, `gone`: nothing tells them apart afterwards. The limiter in front of the
form, the notes and the invitation columns of the row are left out, and nobody
deletes a user or a role.

### Alerts and BreakGlass

`row[k]` is the row of `alerts` with source `k`: an audit event, or the backup
status. `note` and `bounced` are the notifications and the alerts about mails
that failed; `job[h]` is the handler on its way through `create_alert` and
`_send_email_notifications_if_needed`. A handler with a watched event asks for
the alert twice (`Asks`): inside `_record_user_audit_required` and, for these
three events, again by itself. `Insert` waits for an uncommitted row of the same
source, because the index is unique. What `_record_system_audit_safely` swallows
is a choice in `Create`/`CreateFails` and `Note`: the failed audit event has
rolled the session back, and the handler goes on with it (`kept` says whether
the alert is still there; a notification that refers to one that is not breaks
the session). `mailed` counts what the provider took, which no rollback reaches.

`BreakGlass` adds the windows. Opening reads (`Open`) and commits (`StoreOpen`)
in two steps; an `expired` window is one whose `auto_disable_at` is past and
whose `closed_at` is empty. The event that opens a window is the one the alert
is raised for, so an opening ends in `Occurs` of `Alerts`. `CloseAmbiguous` is
`scalar_one_or_none` with two rows. The clock itself, the reason and the
rotation checklist are left out, and so is the alert of a visit, which has no
source event and is therefore never found again.

### Backups

Jobs are numbered by the order in which they start, as their keys are. `upload`
and `whole` are columns of `backup_runs`, `rows` its order, which the restore
drill joins with a row of its own; `bucket` holds the objects stored, `uploads`
says in which order they came (`LastModified`), `plan` is what a retention job
has planned to delete from its listing. `Finish` has the
rollback that loses `finished_at` when the rows cannot be counted. Each job may
be killed between any two steps (`Die`, `SweepFails`, `DrillEnds`). Objects are
dated by the start of their job, as their keys are.

### RateLimiter and Access

`Allow` and `Refuse` are what happens under the lock, with the time `at` that was read
before it. `served[k]` numbers the requests that were let through, each with the time it
was judged by, the `life` of the process it fell into and whether one with a later time
was there before it (`overtaken`); `timestamps[k]` says which of them the limiter still
keeps, and `told` is the instant its last answer named. `Access` uses the limiter with
the user as key. A request is `ReadUser` (the row of the user), then `Find`, `SignIn`,
`Expire`, `Deny` or `TurnAway` (the session), `Touch`, and then the handler: `Answer`,
`Revoke`, or the view token, step by step: the user's row again (`ReadAgain`), the
limiter's clock (`ReadClock`), the limiter (`Admit`, `Limited`), the permission
(`Permit`), grant and token (`Issue`). Disabling is split at the row lock (`Disable`),
the calls to LiveKit (`RemoveUserParticipants`) and the commit, which the audit event
may turn into a rollback. `strays` and `excused` record what was in flight: sessions of
requests that had passed the check, viewers LiveKit failed to remove, whose permission
was gone, or who came with a token from before. A crash empties the limiter (`Restart`),
not the tables and not the history `served`: a window with a restart in it may let as
many again through, and `RateRespected` says so by counting each life for itself. The
development mode and the comparison with earlier logins are left out.

### Administration and RoomPresence

An edit is a read with its decision (`Create`, `Switch`, `SwitchPair`, `Rename`,
`UpdateGateway`, `RotateCredential`, `SwitchPlane`) and a `Commit` together with
its audit event; where participants are removed from LiveKit the row is flushed
and locked first (`Flush`). A unique index makes the later of two equal inserts
fail (`Conflicts`); a revocation hits the row that was read (`PairRow`). The
media-plane mode is stored and audited; no other code asks for it. A new
certificate or credential changes no state another part of the model reads.

`RoomPresence` puts this beside the rooms. `pub[c]` is the row of
`camera_publish_states` with the columns `PublishState` leaves out, room and
gateway; here its statuses starting and live are one. `publisher` are the sessions
the agents hold, `present` those LiveKit has in their rooms: a pump that gave up
(`Breaks`) and a removal by an administrator take a session out of the room and not
out of the agent. `came`, `left` and `finished` are webhooks under way, `order`
commands under way, delivered in any order or lost, never to a disabled gateway.

A departure carries the number of participants that remain, the gateway among them:
its token is not hidden (`mint_gateway_publish_token`). `AsksToStop` is the look at
`participant_count == 0`, and `room_finished` needs a room without anybody. A webhook
may find no camera or gateway, be refused as stale, or fail and be rolled back until
LiveKit gives up (`MissWebhook`), and a handler that starts the gateway may fail after
its first commit. Each handler looks up camera and gateway as they are by then
(`CamerasOf`, `Assigned`), as the code does.

## 3. Runs

| Run | Instance | Shows |
|---|---|---|
| `queue` | 2 commands, 1 administrator, clock 0..2, lifetime 1, 1 message per session (the agent's default), 2 attempts; fairness (707,899 states) | verdicts, alerts, expiry, refinement of `CommandPromise`, nothing stays pending |
| `publish_state` | 2 events, 1 thread beside the loop, clock 0..3, grace 1, window 1, 1 failing request; fairness | due times, one command per event, grace period, stops are resolved |
| `edge_agent` | 2 rooms, 2 sessions; fairness (36,187 states) | registries, nothing forgotten, accepted starts, answers |
| `audit_trail` | 3 writers, 2 keys, 4 rows | signatures, serial chain, breaks stay |
| `access_requests` | 1 address, 3 submissions, 2 handlers | approvals are whole, accounts are backed, duplicates, decisions |
| `break_glass` | 2 windows, 1 recipient, 2 handlers, 3 requests (792,779 states) | openings are alerted, mails go out once, one window, resolved stays resolved |
| `backups` | 3 backup jobs, 2 retention jobs, 1 drill, 5 days in months of 2, 1 day and 1 month kept (2,332,455 states) | recent backups are kept, deleted ones have successors |
| `access` | 1 user, 1 camera, 1 session, 2 handlers, clock 0..3, 2 lives of the process, 2 requests in a window of 2, 3 let through in all, seconds of 2, tokens of 1, sessions of 1 without idling (1,816,684 states) | limit and retry time, disabled users are shut out |
| `room_presence` | 1 user, 1 camera, 2 gateways, 2 rooms, 2 administrators, 3 edits and tokens, of which 1 token (468,145 states) | audit events agree, no stop sets out while somebody watches |
| `edge_agent_stop_means_stopped`, `audit_trail_chain_verifies`, `break_glass_closing_works` | as above, the last with a third handler so that no request overlaps | a statement of a document that the code does not keep; the trace is the argument, `findings` quotes the line |

Other statements the code does not keep are reachable in the models and are not
runs of their own: a redelivered command runs again (`CommandQueue`, against
`docs/runbooks/gateway-control-channel.md:14`); a cancel overwrites a verdict
(against `apps/api/tests/test_gateway_command_queue.py:579`); a maintenance pass
that read the row before a rejoin stops the camera after it (`PublishState`,
against `docs/system-analysis/04-use-cases.md:99`); a row says starting and no
command was enqueued (against BR-012); closing a stalled ffmpeg's pipe blocks the
event loop (`EdgeAgent`, against
`apps/cctv-edge/agent/tests/test_livekit_publisher.py:1021`); the row of a restore
drill is the newest of `backup_runs`, so that a failed backup before it is
reported as ok (`Backups`, against `docs/implementation/api-reference.md:149`).
`hazards` in `PROJECT.json` says which actions show them.

*Why the bounds are enough.* Two commands are one more than a session carries, so one
waits while the other travels; a clock up to 2 lets one outlive the other and lets both
expire with an acknowledgement still under way. Two webhook events are a join and the
leave that empties the room, delivered in either order, and repeatedly; further joins
and starts come from view tokens; a clock up to 3 lets a grace period end and time go
on. Two sessions are the one being replaced and its successor, two rooms a rename. Four
rows and three writers give a fork, a late commit below a signed row and a lost id. Two
addresses never meet, so one is enough; three submissions are the two that overlap and
the one that then finds two rows; two handlers are all that can collide on one key,
because a third waits like the second. Two windows are the expired one and its
successor, or two opened at once; three requests let one more ask, decide or close
meanwhile. Three backups in months of two days give two of one month and one of another,
and two retention jobs one with an older listing. A limit of 2 in a window of 2 keeps
lists of more than one entry: a request that read the clock first and takes the lock
last is let in out of order, and the next refusal names its time by it; seconds of 2
ticks have the wait rounded, and a clock up to 3 has a full window, its boundary and
what follows. Two lives have a window with a restart in it, and three requests let
through are one more than a window may have. A session that lives on for a tick carries
a request that is refused by a list out of order. No request begins in the last tick, in
which those of before end. Two handlers are the request and the one that disables its
user, or two requests that take the lock in another order than they read the clock. Two
gateways are the one that publishes and its successor, two rooms a rename, and three
edits an assignment, a removal and one that races them; a token takes the place of one
of them. The viewer comes and goes any number of times with one token, and a gateway
that leaves before or after the viewer gives every count a departure can have. Every
safety property of these runs is also proved without the bounds (section 4).

*Fairness.* `CommandQueue`: time passes and the maintenance loop keeps running
(`maintenance_scheduler_loop` catches failures and sleeps); nothing is assumed
of gateway, network or administrators. `PublishState`: time passes, a request
ends, and, with the scheduler, the loop returns to the maintenance job although
webhooks keep it busy now and then (strong fairness: its ready queue is first-in
first-out). The scheduler is off by default (`ENABLE_MAINTENANCE_SCHEDULER`);
both liveness properties are about a deployment that turned it on.
`EdgeAgent`: the event loop takes the steps it can take, and a pump whose ffmpeg
stalls or exits gives up, after `frame_stall_timeout` or at the end of the pipe; nothing
is assumed of ffmpeg.

Deadlock is not checked in the other runs: these systems may stop, because the
bounds end them (clock, events, sessions, ids) and because nobody has to ask for
anything. `access_requests` checks it and has no fairness: that handlers end is
left to the timeout of the call to GitHub. The runs of `BreakGlass`, `Backups`,
`Access` and `RoomPresence` have no fairness and no liveness: whether a webhook
comes, an order arrives or a job is started is for others to decide, and what the
scheduler owes is in `PublishState`.

## 4. Proofs

The theorems hold for any number of commands, administrators, threads, events,
rooms, sessions, writers, rows, submissions, addresses, windows, recipients,
backup and retention jobs, users, cameras, gateways, tokens and handlers, and for
any limit, window, lifetime and retention period, from the assumptions named in
the modules: what bounds TLC are constants like the others and may have any value.
Each safety theorem goes through an inductive invariant, whose first part is the
type invariant; TLC checked it on the instance of the run before it was proved.

- `CommandQueueProofs`: an acknowledgement under way is about something the
  agent did (`AcksAreHonest`), only issued commands are handled (`OnlyIssued`),
  a row closed as expired is past its time (`ExpiredIsPast`, which is why the
  agent finds it stale when it verifies it), and only one transport holds commands at a time
  (`OneTransport`, needed by the step to `CommandPromise!Perform`).
  `QueueKeepsPromise` is the refinement.
- `PublishStateProofs`: what a request is about to write (`HonestJob`). Columns
  of two requests mix, so almost no relation between columns survives by
  itself: only the loop writes `stop_pending`, always with a due time; a thread
  clears the due time only together with the status (`ThreadJob`); and the loop
  knows whether the row is pending (`LoopJob`). A due time comes from an accepted
  event (`DueIsGraced`), an event that was not accepted raised no command
  (`SeenOnce`).
- `EdgeAgentProofs`: where a command is, what the registries and the session it
  works on look like, and that every pump that is not over belongs to the
  registered session. A start that replaces a session is the only place where the
  publisher holds one the controller does not (stage `drop`).
- `RecordsProofs`, of `AuditTrail`: what a writer signed over is committed and older than the
  id it draws; without overlap it is still the newest row when the writer
  commits. `BreaksNeverHeal` uses a lemma on the newest element of a set that
  grows by one.
- `AccessRequestsProofs`: what a handler knows when it commits (`Known`): what it
  found is still there or was revoked on record, what it did not find it inserts
  itself, and GitHub has answered. `Growth` says what never goes away, so that
  only a commit can make a request approved or an account appear. Two stored or
  half-stored submissions with one address have met (`SubmissionsOK`).
- `BreakGlassProofs`: what a handler knows between its read and its commit
  (`Informed`): no alert before one is committed, nobody left to mail has had a
  mail, after a good first attempt the alert is there, and a decision read what
  still stands or was raced. `Apart` keeps two handlers from storing or mailing
  the same alert. `OpeningOK` carries the race of two openings from the look at
  the rows to the insert: a window being opened beside an active one is crowded.

- `RecordsProofs`, of `Backups`: being outlived, the condition of `HistoryKept`, is
  handed down. What outlives an object may be deleted in its turn,
  but only by a plan whose objects are outlived themselves (`PlanOK`), and what
  outlives it outlives the first one (`StillOutlived`). Where that is another month,
  months are counted: a month that loses its last object has `MonthlyKeep` later ones,
  and a plan spares as many months as it spares objects, because the latest objects
  of a month are one (`PlannedOutlived`, an injection). `RunsOK` fixes the month of
  an object once it is uploaded.
- `AccessProofs`: the limiter first. `LimiterOK` says why what it no longer keeps does
  not count: a request that was forgotten had left the window of one that is kept, or
  is older than all that are kept while these are as many as are allowed
  (`Forgotten`). From this follows that no window gets too full (`Windows`), and from
  the answer naming the end of the oldest one kept that who waited is let in
  (`Promised`). A handler between the row lock of a disabling, the calls to LiveKit
  and the commit holds the sessions it will revoke (`RevokingOK`); who is then still
  in a room is one LiveKit did not remove or who came with an older token
  (`RemovedOK`); and only a request that read the user before the commit can still
  get something (`AdmittedOK`).
- `RoomPresenceProofs`: administration first. An edit of a pair that nobody overtook
  still finds the row it read (`Decided`), so the event committed with it says how
  things are; this needs that rows of different tables are different things
  (`KindsAssumption`). Then the rooms: who enters or departs changes
  only what LiveKit knows (`EntersType`, `DepartsType`), a departure with nobody left
  is told only of rooms without a viewer (`DepartsCount`), and a stop comes from such a
  departure, from the end of a room nobody is in, or from a stop that was under way
  (`NoStopSetsOut`, one step per action). That there is a latest assignment
  at all (`Latest`), as that there is a first request (`First` of the limiter), is
  well-founded induction, cited from the library.

Only model-checked are the liveness properties (`SettledEventually`,
`StopResolved`, `CommandsAnswered`), which are beyond the proof system, and the
statements of the refuted runs, which are false.

## 5. Not modelled, and the plan

Not modelled for good: the assistant, profiles and investigation views (they
only read), request checks without memory (Access tokens, CSRF, headers, IP
lookups), the web front end, settings validation (the settings that matter are
CONSTANTS), discovery (a sequential scan), the records of privacy and compliance
(one row with its audit event each, no other code reads them), and the ingest
tokens of gateways, which the agent of this repository does not ask for.

Not modelled yet: visits and their retention, MediaMTX and the rest of the
supervisor, the detection of suspicious logins, the sessions of the development
mode.

Planned, in this order:

1. Theorems about what no run states yet: what the row of a restore drill hides
   (`Backups`), and the statements of the refuted runs under the conditions that
   make them true.
2. `PublishSystem`: `RoomPresence` with the queue and the agent as they are in
   `CommandQueue` and `EdgeAgent` instead of orders that arrive in any order or
   never; an abstract specification of "published while watched".
3. `GatewayRuntime`: supervisor, MediaMTX process, executor thread.
4. `Visits` and the retention job; of the access requests, what the documents say
   and the code does not keep (a decision that is overwritten, an answer without a
   row, an invitation to a user disabled meanwhile).

Known gaps of the modules that exist: start and stop are not told apart in
`CommandQueue`; `RoomPresence` keeps neither the two commits of a token in full nor
the races of two webhooks (`PublishState` has them).

What the modules reach and the code does not prevent, so that no property claims
it: an ffmpeg whose kill is skipped because a stop cancelled the wait for its exit
(process state `orphaned` of `EdgeAgent`, which `NothingForgotten` excepts by name);
a stalled ffmpeg that holds up the event loop (`blocked`; `CommandsAnswered` has the
premise that none stays stalled); an accepted start whose ffmpeg has stopped
delivering frames; in `RoomPresence` a gateway that goes on publishing for nobody:

- after the last viewer left, because the gateway is a participant and
  `participant_count` is not 0
  (`docs/planning/cctv-core-functionality-features.md:173` says it stops then,
  `HANDOFF.md:1398` and the code say `participant_count == 0`);
- because the viewer of a token never came, or a webhook was missed, or a command
  was lost;
- because the camera was given to another gateway, renamed or retired, or the
  gateway disabled, while it published.

The races that `SerialSubmissionsAreUnique`, `SettledStays`, `OneWindowAtATime`,
`ResolutionStays`, `AuditAgrees` and `SerialChainIsValid` except (requests that
overlapped) are races the code has; `ChainVerifies` and its run show one of them.
