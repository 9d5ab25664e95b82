---------------------------- MODULE CommandQueue ----------------------------
(***************************************************************************)
(* The command path between the control plane and one edge gateway: the    *)
(* gateway_command_queue table, the handlers that insert, cancel, expire   *)
(* and settle its rows, the two transports that hand them to the gateway   *)
(* (heartbeat response and control WebSocket), and the supervisor loop of  *)
(* the edge agent that drains them.                                        *)
(*                                                                         *)
(* Rows of different gateways never meet: every query filters on           *)
(* gateway_id and the agent checks the target, so one gateway is enough.   *)
(* What a command does to the camera is the subject of EdgeAgent; here an  *)
(* execution just succeeds or fails.                                       *)
(***************************************************************************)
EXTENDS Naturals, FiniteSets

CONSTANTS
    Commands,       \* identifiers of rows of gateway_command_queue
    Admins,         \* administrators that may be cancelling at the same time
    NoCommand,      \* nothing being cancelled, or nothing being executed
    Lifetimes,      \* the seconds a command may live (60 start, 30 stop, ...)
    MaxTime,        \* bound: last instant of the clock
    MaxMessages,    \* max_messages of a control session
    MaxAttempts     \* PANOPTIX_GATEWAY_CONTROL_RECONNECT_ATTEMPTS

ASSUME CommandsAssumption == NoCommand \notin Commands
ASSUME LifetimesAssumption == Lifetimes \subseteq Nat \ {0}
ASSUME MaxTimeAssumption == MaxTime \in Nat
ASSUME MaxMessagesAssumption == MaxMessages \in Nat \ {0}
ASSUME MaxAttemptsAssumption == MaxAttempts \in Nat \ {0}

VARIABLES
    now,            \* the clock of control plane and gateway
    status,         \* status[c]: CommandStatus, or "none" before the insert
    issuedAt,       \* issuedAt[c], the order rows are handed out in
    expiresAt,      \* expiresAt[c]
    alerted,        \* the commands with a "Gateway command rejected" alert
    cancelling,     \* cancelling[a]: the row a cancel request read as pending
    phase,          \* where the supervisor loop of the agent is
    attempt,        \* connection attempt of the current control cycle
    handled,        \* commands processed in the current control session
    batch,          \* commands of a heartbeat response still to be run
    down,           \* commands of the control session still to be received
    running,        \* the verified command in the executor, or NoCommand
    acks,           \* acknowledgements on their way to the control plane
    executed,       \* commands the executor accepted at least once
    refused         \* commands the agent rejected over the WebSocket

tableVars == <<status, issuedAt, expiresAt, alerted>>
agentVars == <<phase, attempt, handled, batch, down, running>>
vars == <<now, tableVars, cancelling, agentVars, acks, executed, refused>>

CommandStatus == {"none", "pending", "accepted", "rejected", "expired", "cancelled"}
Phases == {"heartbeat", "polled", "connect", "session"}
Ack == [cmd : Commands, ok : BOOLEAN]

Init ==
    /\ now = 0
    /\ status = [c \in Commands |-> "none"]
    /\ issuedAt = [c \in Commands |-> 0]
    /\ expiresAt = [c \in Commands |-> 0]
    /\ alerted = {}
    /\ cancelling = [a \in Admins |-> NoCommand]
    /\ phase = "heartbeat"
    /\ attempt = 1
    /\ handled = 0
    /\ batch = {}
    /\ down = {}
    /\ running = NoCommand
    /\ acks = {}
    /\ executed = {}
    /\ refused = {}

-----------------------------------------------------------------------------
(***************************************************************************)
(* The control plane.                                                      *)
(***************************************************************************)

Tick ==
    /\ now < MaxTime
    /\ now' = now + 1
    /\ UNCHANGED <<tableVars, cancelling, agentVars, acks, executed, refused>>

\* A row is inserted with status pending and an absolute expiry.
EnqueueCommand(c) ==
    /\ status[c] = "none"
    /\ \E ttl \in Lifetimes :
         /\ now + ttl <= MaxTime
         /\ expiresAt' = [expiresAt EXCEPT ![c] = now + ttl]
    /\ status' = [status EXCEPT ![c] = "pending"]
    /\ issuedAt' = [issuedAt EXCEPT ![c] = now]
    /\ UNCHANGED <<now, alerted, cancelling, agentVars, acks, executed, refused>>

\* (Deviation: the query forgets to ask for pending rows.)
DeliverableUnfiltered == {c \in Commands : status[c] # "none" /\ expiresAt[c] > now}

\* The rows a heartbeat response or a new control session carries. Handing a
\* row out does not change it.
Deliverable == {c \in Commands : status[c] = "pending" /\ expiresAt[c] > now}

\* Rows that the maintenance job or the cleanup endpoint closes.
Stale == {c \in Commands : status[c] = "pending" /\ expiresAt[c] <= now}

\* (Deviation: the maintenance job does not commit.)
ExpireUncommitted == Stale # {} /\ UNCHANGED vars

\* One bulk UPDATE ... WHERE status = pending AND expires_at <= now.
ExpireStaleCommands ==
    /\ Stale # {}
    /\ status' = [c \in Commands |-> IF c \in Stale THEN "expired" ELSE status[c]]
    /\ UNCHANGED <<now, issuedAt, expiresAt, alerted, cancelling, agentVars, acks,
                   executed, refused>>

\* A cancel request reads the row and goes on only if it is pending ...
CancelRead(a, c) ==
    /\ cancelling[a] = NoCommand
    /\ status[c] = "pending"
    /\ cancelling' = [cancelling EXCEPT ![a] = c]
    /\ UNCHANGED <<now, tableVars, agentVars, acks, executed, refused>>

\* ... and writes it by primary key when its audit row is committed, whatever
\* the row has become meanwhile.
CancelCommit(a) ==
    /\ cancelling[a] # NoCommand
    /\ status' = [status EXCEPT ![cancelling[a]] = "cancelled"]
    /\ cancelling' = [cancelling EXCEPT ![a] = NoCommand]
    /\ UNCHANGED <<now, issuedAt, expiresAt, alerted, agentVars, acks, executed, refused>>

\* The audit row cannot be written: the request is rolled back.
CancelRollback(a) ==
    /\ cancelling[a] # NoCommand
    /\ cancelling' = [cancelling EXCEPT ![a] = NoCommand]
    /\ UNCHANGED <<now, tableVars, agentVars, acks, executed, refused>>

\* (Deviation: the sink takes every acknowledgement for a success.)
RecordAckAccepts(ack) ==
    /\ ack \in acks
    /\ status' = [status EXCEPT ![ack.cmd] = "accepted"]
    /\ acks' = acks \ {ack}
    /\ UNCHANGED <<now, issuedAt, expiresAt, alerted, cancelling, agentVars, executed, refused>>

\* (Deviation: the sink commits although the alert failed.)
RecordAckUnalerted(ack) ==
    /\ ack \in acks
    /\ status' = [status EXCEPT ![ack.cmd] = IF ack.ok THEN "accepted" ELSE "rejected"]
    /\ acks' = acks \ {ack}
    /\ UNCHANGED <<now, issuedAt, expiresAt, alerted, cancelling, agentVars, executed, refused>>

\* The ack sink looks the row up by id and gateway and overwrites its status
\* without asking what it was; a rejection raises an alert, once per command,
\* in the same transaction.
RecordAck(ack) ==
    /\ ack \in acks
    /\ status' = [status EXCEPT ![ack.cmd] = IF ack.ok THEN "accepted" ELSE "rejected"]
    /\ alerted' = IF ack.ok THEN alerted ELSE alerted \union {ack.cmd}
    /\ acks' = acks \ {ack}
    /\ UNCHANGED <<now, issuedAt, expiresAt, cancelling, agentVars, executed, refused>>

\* When the audit row of a new alert cannot be written, record_audit_event
\* rolls the whole session back, the acknowledgement with it, and the "safely"
\* wrapper hides the failure: the sink then commits nothing.
RecordAckRolledBack(ack) ==
    /\ ack \in acks
    /\ ~ack.ok /\ ack.cmd \notin alerted
    /\ acks' = acks \ {ack}
    /\ UNCHANGED <<now, tableVars, cancelling, agentVars, executed, refused>>

-----------------------------------------------------------------------------
(***************************************************************************)
(* The edge agent: heartbeat, one control cycle, sleep, for ever.          *)
(***************************************************************************)

\* Rows are handed out, and run, in the order of issued_at.
Earliest(c, S) == c \in S /\ \A d \in S : issuedAt[c] <= issuedAt[d]

\* (Deviation: the boundary instant belongs to the life of the command.)
FreshInclusive(c) == now <= expiresAt[c]

\* Signature and target always match here; what can fail is freshness.
Fresh(c) == now < expiresAt[c]

\* The heartbeat answer carries every deliverable command. The request reports
\* the gateway and its cameras, and nothing about earlier commands.
Heartbeat ==
    /\ phase = "heartbeat"
    /\ batch' = Deliverable
    /\ phase' = "polled"
    /\ UNCHANGED <<now, tableVars, cancelling, attempt, handled, down, running, acks,
                   executed, refused>>

\* The heartbeat fails; the loop ignores that and goes on.
HeartbeatFails ==
    /\ phase = "heartbeat"
    /\ phase' = "connect"
    /\ UNCHANGED <<now, tableVars, cancelling, attempt, handled, batch, down, running,
                   acks, executed, refused>>

\* The next command of the heartbeat answer is verified. A fresh one goes to
\* the executor; of one that is not, nothing is sent back.
VerifyPolled(c) ==
    /\ phase = "polled"
    /\ running = NoCommand
    /\ Earliest(c, batch)
    /\ batch' = batch \ {c}
    /\ running' = IF Fresh(c) THEN c ELSE NoCommand
    /\ UNCHANGED <<now, tableVars, cancelling, phase, attempt, handled, down, acks,
                   executed, refused>>

\* The executor is done, after seconds of publishing or stopping during which
\* the control plane went on. Nothing is sent back here either.
FinishPolled(ok) ==
    /\ phase = "polled"
    /\ running # NoCommand
    /\ running' = NoCommand
    /\ executed' = IF ok THEN executed \union {running} ELSE executed
    /\ UNCHANGED <<now, tableVars, cancelling, phase, attempt, handled, batch, down, acks, refused>>

HeartbeatDone ==
    /\ phase = "polled"
    /\ batch = {}
    /\ running = NoCommand
    /\ phase' = "connect"
    /\ UNCHANGED <<now, tableVars, cancelling, attempt, handled, batch, down, running,
                   acks, executed, refused>>

\* A control session opens: hello, then every command deliverable right now.
Connect ==
    /\ phase = "connect"
    /\ phase' = "session"
    /\ down' = Deliverable
    /\ UNCHANGED <<now, tableVars, cancelling, attempt, handled, batch, running, acks,
                   executed, refused>>

\* The control cycle is over: its counters are local to it.
CycleOver ==
    /\ phase' = "heartbeat"
    /\ attempt' = 1
    /\ handled' = 0

\* (Deviation: one attempt too many.)
RetryOnceMore ==
    \/ /\ attempt <= MaxAttempts
       /\ attempt' = attempt + 1
       /\ phase' = "connect"
       /\ handled' = 0
    \/ CycleOver

\* A retryable failure is tried again after a back-off; the last attempt and a
\* failure that is not retryable end the control cycle.
Retry ==
    \/ /\ attempt < MaxAttempts
       /\ attempt' = attempt + 1
       /\ phase' = "connect"
       /\ handled' = 0
    \/ CycleOver

ConnectFails ==
    /\ phase = "connect"
    /\ Retry
    /\ UNCHANGED <<now, tableVars, cancelling, batch, down, running, acks, executed, refused>>

\* The agent has a verdict on c, counts it and acknowledges it.
Answer(c, ok) ==
    /\ handled' = handled + 1
    /\ acks' = acks \union {[cmd |-> c, ok |-> ok]}
    /\ executed' = IF ok THEN executed \union {c} ELSE executed
    /\ refused' = IF ok THEN refused ELSE refused \union {c}

\* The next command of the session is received and verified: a fresh one goes
\* to the executor, any other is refused at once.
VerifySession(c) ==
    /\ phase = "session"
    /\ running = NoCommand
    /\ handled < MaxMessages
    /\ Earliest(c, down)
    /\ down' = down \ {c}
    /\ \/ /\ Fresh(c)
          /\ running' = c
          /\ UNCHANGED <<handled, acks, executed, refused>>
       \/ /\ ~Fresh(c)
          /\ Answer(c, FALSE)
          /\ UNCHANGED running
    /\ UNCHANGED <<now, tableVars, cancelling, phase, attempt, batch>>

\* The executor is done and the session acknowledges, however late it is.
FinishSession(ok) ==
    /\ phase = "session"
    /\ running # NoCommand
    /\ Answer(running, ok)
    /\ running' = NoCommand
    /\ UNCHANGED <<now, tableVars, cancelling, phase, attempt, batch, down>>

\* The session ends after max_messages commands or when the next message does
\* not arrive in time. Commands not received yet are dropped; a control plane
\* still busy sending them finds the connection closed and reads no
\* acknowledgement.
SessionEnd ==
    /\ phase = "session"
    /\ running = NoCommand
    /\ CycleOver
    /\ down' = {}
    /\ acks' \in SUBSET acks
    /\ UNCHANGED <<now, tableVars, cancelling, batch, running, executed, refused>>

\* The connection breaks: acknowledgements in flight may be lost. The agent
\* finds out at the next message it receives or sends.
SessionBreaks ==
    /\ phase = "session"
    /\ running = NoCommand
    /\ Retry
    /\ down' = {}
    /\ acks' \in SUBSET acks
    /\ UNCHANGED <<now, tableVars, cancelling, batch, running, executed, refused>>

\* The agent process is restarted, perhaps in the middle of a command.
Restart ==
    /\ phase # "heartbeat"
    /\ CycleOver
    /\ batch' = {}
    /\ down' = {}
    /\ running' = NoCommand
    /\ acks' \in SUBSET acks
    /\ UNCHANGED <<now, tableVars, cancelling, executed, refused>>

-----------------------------------------------------------------------------
Next ==
    \/ Tick
    \/ \E c \in Commands : EnqueueCommand(c)
    \/ ExpireStaleCommands
    \/ \E a \in Admins, c \in Commands : CancelRead(a, c)
    \/ \E a \in Admins : CancelCommit(a) \/ CancelRollback(a)
    \/ \E ack \in acks : RecordAck(ack) \/ RecordAckRolledBack(ack)
    \/ Heartbeat
    \/ HeartbeatFails
    \/ \E c \in batch : VerifyPolled(c)
    \/ \E ok \in BOOLEAN : FinishPolled(ok)
    \/ HeartbeatDone
    \/ Connect
    \/ ConnectFails
    \/ \E c \in down : VerifySession(c)
    \/ \E ok \in BOOLEAN : FinishSession(ok)
    \/ SessionEnd
    \/ SessionBreaks
    \/ Restart

Spec == Init /\ [][Next]_vars

(***************************************************************************)
(* Time passes, and the maintenance loop keeps running (it does so every   *)
(* MAINTENANCE_INTERVAL_SECONDS). Nothing is assumed of the gateway, the   *)
(* network or the administrators.                                          *)
(***************************************************************************)
Fairness == WF_vars(Tick) /\ WF_vars(ExpireStaleCommands)

FairSpec == Spec /\ Fairness

-----------------------------------------------------------------------------
(***************************************************************************)
(* Properties.                                                             *)
(***************************************************************************)

\* Every variable keeps to the values its column or local variable can have.
TypeOK ==
    /\ now \in 0..MaxTime
    /\ status \in [Commands -> CommandStatus]
    /\ issuedAt \in [Commands -> 0..MaxTime]
    /\ expiresAt \in [Commands -> 0..MaxTime]
    /\ alerted \subseteq Commands
    /\ cancelling \in [Admins -> Commands \union {NoCommand}]
    /\ phase \in Phases
    /\ attempt \in 1..MaxAttempts
    /\ handled \in 0..MaxMessages
    /\ batch \subseteq Commands
    /\ down \subseteq Commands
    /\ running \in Commands \union {NoCommand}
    /\ acks \subseteq Ack
    /\ executed \subseteq Commands
    /\ refused \subseteq Commands

\* The verdict in the table tells what the gateway did: "accepted" is only
\* written for a command the executor accepted, "rejected" only for one the
\* agent refused, however acknowledgements of several sessions, cancels and
\* expiry interleave (db_ack_sink, GatewayControlClient._handle_command).
VerdictFollowsGateway ==
    \A c \in Commands :
        /\ status[c] = "accepted" => c \in executed
        /\ status[c] = "rejected" => c \in refused

\* A rejection is never visible without its alert: both are one transaction,
\* and a failing audit row takes the verdict back with the alert (create_alert
\* called by db_ack_sink, record_audit_event).
RejectedIsAlerted == \A c \in Commands : status[c] = "rejected" => c \in alerted

\* Once the control plane declared a command expired, the gateway takes it up
\* no more, neither from a heartbeat answer nor from a session that was
\* already holding it: the two ends agree on the boundary instant. All that can
\* still happen to it is that an execution begun in time comes to its end, for
\* the check is made before the execution and never again
\* (expire_stale_commands, verify_gateway_command).
ExpiredIsNotStarted ==
    [][\A c \in Commands :
          status[c] = "expired" =>
              /\ running' = c => running = c
              /\ c \in executed' => c \in executed \/ running = c]_vars

\* The queue implements CommandPromise: the gateway's hands are the rest of
\* the heartbeat answer and of the control session, and the command in the
\* executor.
Promise == INSTANCE CommandPromise
    WITH verdict <- status,
         held <- batch \union down \union ({running} \ {NoCommand}),
         done <- executed

PromiseKept == Promise!Spec

\* With the maintenance loop running, no command stays pending for ever,
\* whatever the gateway does (expire_stale_commands).
SettledEventually ==
    \A c \in Commands : status[c] = "pending" ~> status[c] # "pending"
=============================================================================
