------------------------- MODULE CommandQueueProofs -------------------------
(***************************************************************************)
(* Proofs about CommandQueue, for any number of commands, administrators,  *)
(* lifetimes, instants and attempts.                                       *)
(*                                                                         *)
(* The inductive invariant says, beside the types, what the interleavings  *)
(* cannot destroy: an acknowledgement in flight tells the truth about the  *)
(* agent, a verdict in the table tells the truth about the agent, and the  *)
(* agent never has both a heartbeat answer and a control session at hand,  *)
(* nor a command that is in the executor and still to be verified.         *)
(***************************************************************************)
EXTENDS CommandQueue, TLAPS

\* An acknowledgement on its way is about something the agent did.
AcksAreHonest ==
    \A ack \in acks : IF ack.ok THEN ack.cmd \in executed ELSE ack.cmd \in refused

\* The agent is busy with one transport at a time.
OneTransport ==
    /\ phase # "polled" => batch = {}
    /\ phase # "session" => down = {}
    /\ running # NoCommand => /\ phase \in {"polled", "session"}
                              /\ running \notin batch \union down
                              /\ phase = "session" => handled < MaxMessages

\* Only commands that exist are handled, acknowledged or cancelled.
OnlyIssued ==
    \A c \in Commands :
        status[c] = "none" =>
            /\ c \notin batch \union down \union executed \union refused
            /\ running # c
            /\ \A a \in Admins : cancelling[a] # c
            /\ \A ack \in acks : ack.cmd # c

\* A row is only closed as expired when its time is over.
ExpiredIsPast == \A c \in Commands : status[c] = "expired" => expiresAt[c] <= now

IInv ==
    /\ TypeOK
    /\ AcksAreHonest
    /\ VerdictFollowsGateway
    /\ RejectedIsAlerted
    /\ OneTransport
    /\ OnlyIssued
    /\ ExpiredIsPast

-----------------------------------------------------------------------------
USE CommandsAssumption, LifetimesAssumption, MaxTimeAssumption,
    MaxMessagesAssumption, MaxAttemptsAssumption

\* The empty table and the idle agent satisfy the invariant.
LEMMA InitIInv == Init => IInv
  BY DEF Init, IInv, TypeOK, AcksAreHonest, VerdictFollowsGateway, RejectedIsAlerted,
         OneTransport, OnlyIssued, ExpiredIsPast, CommandStatus, Phases, Ack

\* Every step keeps the types.
LEMMA TypeStep == TypeOK /\ OneTransport /\ [Next]_vars => TypeOK'
<1> SUFFICES ASSUME TypeOK, OneTransport, [Next]_vars PROVE TypeOK'
  OBVIOUS
<1> USE DEF TypeOK, CommandStatus, Phases, Ack, tableVars, agentVars
<1>1. CASE Tick
  BY <1>1 DEF Tick
<1>2. ASSUME NEW c \in Commands, EnqueueCommand(c) PROVE TypeOK'
  BY <1>2 DEF EnqueueCommand
<1>3. CASE ExpireStaleCommands
  BY <1>3 DEF ExpireStaleCommands
<1>4. ASSUME NEW a \in Admins, NEW c \in Commands, CancelRead(a, c) PROVE TypeOK'
  BY <1>4 DEF CancelRead
<1>5. ASSUME NEW a \in Admins, CancelCommit(a) \/ CancelRollback(a) PROVE TypeOK'
  BY <1>5 DEF CancelCommit, CancelRollback
<1>6. ASSUME NEW ack \in acks, RecordAck(ack) \/ RecordAckRolledBack(ack) PROVE TypeOK'
  BY <1>6 DEF RecordAck, RecordAckRolledBack
<1>7. CASE Heartbeat
  BY <1>7 DEF Heartbeat, Deliverable
<1>8. CASE HeartbeatFails \/ HeartbeatDone
  BY <1>8 DEF HeartbeatFails, HeartbeatDone
<1>9. ASSUME NEW c \in batch, VerifyPolled(c) PROVE TypeOK'
  BY <1>9 DEF VerifyPolled
<1>9a. ASSUME NEW ok \in BOOLEAN, FinishPolled(ok) PROVE TypeOK'
  BY <1>9a DEF FinishPolled
<1>10. CASE Connect
  BY <1>10 DEF Connect, Deliverable
<1>11. CASE ConnectFails
  BY <1>11 DEF ConnectFails, Retry, CycleOver
<1>12. ASSUME NEW c \in down, VerifySession(c) PROVE TypeOK'
  <2>1. CASE Fresh(c)
    BY <1>12, <2>1 DEF VerifySession
  <2>2. CASE ~Fresh(c)
    <3>1. Answer(c, FALSE) /\ handled < MaxMessages
      BY <1>12, <2>2 DEF VerifySession
    <3>a. [cmd |-> c, ok |-> FALSE] \in Ack
      OBVIOUS
    <3>2. handled' \in 0..MaxMessages /\ acks' \subseteq Ack
      <4>1. handled' = handled + 1 /\ acks' = acks \union {[cmd |-> c, ok |-> FALSE]}
        BY <3>1 DEF Answer
      <4>2. handled' \in 0..MaxMessages
        BY <3>1, <4>1
      <4>3. acks' \subseteq Ack
        BY <3>a, <4>1
      <4> QED
        BY <4>2, <4>3
    <3>3. executed' \subseteq Commands /\ refused' \subseteq Commands
      BY <3>1 DEF Answer
    <3> QED
      BY <1>12, <2>2, <3>2, <3>3 DEF VerifySession
  <2> QED
    BY <2>1, <2>2
<1>12a. ASSUME NEW ok \in BOOLEAN, FinishSession(ok) PROVE TypeOK'
  BY <1>12a DEF FinishSession, Answer, OneTransport
<1>13. CASE SessionEnd
  BY <1>13 DEF SessionEnd, CycleOver
<1>14. CASE SessionBreaks
  BY <1>14 DEF SessionBreaks, Retry, CycleOver
<1>15. CASE Restart
  BY <1>15 DEF Restart, CycleOver
<1>16. CASE UNCHANGED vars
  BY <1>16 DEF vars
<1> QED
  BY <1>1, <1>2, <1>3, <1>4, <1>5, <1>6, <1>7, <1>8, <1>9, <1>9a, <1>10, <1>11, <1>12,
     <1>12a, <1>13, <1>14, <1>15, <1>16 DEF Next

\* A step of the control plane or of the agent that neither settles a row nor
\* gives the agent something to do keeps the invariant.
LEMMA QuietStep ==
    ASSUME IInv, TypeOK',
           UNCHANGED <<status, expiresAt, executed, refused>>,
           now' >= now, alerted \subseteq alerted', acks' \subseteq acks,
           \A a \in Admins : cancelling'[a] \in {cancelling[a], NoCommand} \union
                                                {c \in Commands : status[c] # "none"},
           batch' \union down' \subseteq batch \union down \union Deliverable,
           running' \in {running, NoCommand} \union batch \union down,
           OneTransport'
    PROVE  IInv'
<1> USE DEF IInv
<1>1. AcksAreHonest'
  BY DEF AcksAreHonest
<1>2. VerdictFollowsGateway'
  BY DEF VerdictFollowsGateway
<1>3. RejectedIsAlerted'
  BY DEF RejectedIsAlerted
<1>4. OnlyIssued'
  BY DEF OnlyIssued, Deliverable, TypeOK
<1>5. ExpiredIsPast'
  BY DEF ExpiredIsPast, TypeOK
<1> QED
  BY <1>1, <1>2, <1>3, <1>4, <1>5

\* An answer to a command the agent had in its hands keeps the invariant.
LEMMA AnswerStep ==
    ASSUME IInv, TypeOK', NEW c \in Commands, NEW ok \in BOOLEAN, Answer(c, ok),
           c \in down \/ c = running,
           UNCHANGED <<now, tableVars, cancelling, batch>>,
           down' \subseteq down, running' = NoCommand, OneTransport'
    PROVE  IInv'
<1> USE DEF IInv, Answer, TypeOK, tableVars
<1>1. AcksAreHonest' /\ VerdictFollowsGateway'
  BY DEF AcksAreHonest, VerdictFollowsGateway
<1>2. RejectedIsAlerted' /\ ExpiredIsPast'
  BY DEF RejectedIsAlerted, ExpiredIsPast
<1>3. OnlyIssued'
  BY DEF OnlyIssued
<1> QED
  BY <1>1, <1>2, <1>3

\* Every step keeps the invariant.
LEMMA StepIInv == IInv /\ [Next]_vars => IInv'
<1> SUFFICES ASSUME IInv, [Next]_vars PROVE IInv'
  OBVIOUS
<1>t. TypeOK /\ TypeOK'
  BY TypeStep DEF IInv
<1> USE <1>t DEF IInv, tableVars, agentVars
<1>1. CASE Tick
  BY <1>1, QuietStep DEF Tick, OneTransport, TypeOK
<1>2. ASSUME NEW c \in Commands, EnqueueCommand(c) PROVE IInv'
  <2> USE <1>2 DEF EnqueueCommand, TypeOK
  <2>1. AcksAreHonest'
    BY DEF AcksAreHonest
  <2>2. VerdictFollowsGateway' /\ RejectedIsAlerted'
    BY DEF VerdictFollowsGateway, RejectedIsAlerted
  <2>3. OneTransport' /\ OnlyIssued'
    BY DEF OneTransport, OnlyIssued
  <2>4. ExpiredIsPast'
    BY DEF ExpiredIsPast
  <2> QED
    BY <2>1, <2>2, <2>3, <2>4
<1>3. CASE ExpireStaleCommands
  <2> USE <1>3 DEF ExpireStaleCommands, Stale, TypeOK
  <2>1. VerdictFollowsGateway' /\ RejectedIsAlerted'
    BY DEF VerdictFollowsGateway, RejectedIsAlerted
  <2>2. AcksAreHonest' /\ OneTransport' /\ OnlyIssued'
    BY DEF AcksAreHonest, OneTransport, OnlyIssued
  <2>3. ExpiredIsPast'
    BY DEF ExpiredIsPast
  <2> QED
    BY <2>1, <2>2, <2>3
<1>4. ASSUME NEW a \in Admins, NEW c \in Commands, CancelRead(a, c) PROVE IInv'
  BY <1>4, QuietStep DEF CancelRead, OneTransport, TypeOK
<1>5. ASSUME NEW a \in Admins, CancelCommit(a) PROVE IInv'
  <2> USE <1>5 DEF CancelCommit, TypeOK
  <2>1. VerdictFollowsGateway' /\ RejectedIsAlerted'
    BY DEF VerdictFollowsGateway, RejectedIsAlerted
  <2>2. AcksAreHonest' /\ OneTransport' /\ ExpiredIsPast'
    BY DEF AcksAreHonest, OneTransport, ExpiredIsPast
  <2>3. OnlyIssued'
    BY DEF OnlyIssued
  <2> QED
    BY <2>1, <2>2, <2>3
<1>6. ASSUME NEW a \in Admins, CancelRollback(a) PROVE IInv'
  BY <1>6, QuietStep DEF CancelRollback, OneTransport, TypeOK
<1>7. ASSUME NEW ack \in acks, RecordAck(ack) PROVE IInv'
  <2> USE <1>7 DEF RecordAck, TypeOK, Ack
  <2>1. VerdictFollowsGateway'
    BY DEF VerdictFollowsGateway, AcksAreHonest
  <2>2. RejectedIsAlerted'
    BY DEF RejectedIsAlerted
  <2>3. AcksAreHonest' /\ OneTransport' /\ ExpiredIsPast'
    BY DEF AcksAreHonest, OneTransport, ExpiredIsPast
  <2>4. OnlyIssued'
    BY DEF OnlyIssued
  <2> QED
    BY <2>1, <2>2, <2>3, <2>4
<1>8. ASSUME NEW ack \in acks, RecordAckRolledBack(ack) PROVE IInv'
  BY <1>8, QuietStep DEF RecordAckRolledBack, OneTransport, TypeOK
<1>9. CASE Heartbeat
  BY <1>9, QuietStep DEF Heartbeat, OneTransport, TypeOK
<1>10. CASE HeartbeatFails
  BY <1>10, QuietStep DEF HeartbeatFails, OneTransport, TypeOK
<1>11. ASSUME NEW c \in batch, VerifyPolled(c) PROVE IInv'
  BY <1>11, QuietStep DEF VerifyPolled, OneTransport, TypeOK
<1>11a. ASSUME NEW ok \in BOOLEAN, FinishPolled(ok) PROVE IInv'
  <2> USE <1>11a DEF FinishPolled, TypeOK
  <2>1. AcksAreHonest' /\ VerdictFollowsGateway'
    BY DEF AcksAreHonest, VerdictFollowsGateway
  <2>2. RejectedIsAlerted' /\ OneTransport' /\ ExpiredIsPast'
    BY DEF RejectedIsAlerted, OneTransport, ExpiredIsPast
  <2>3. OnlyIssued'
    BY DEF OnlyIssued
  <2> QED
    BY <2>1, <2>2, <2>3
<1>12. CASE HeartbeatDone
  BY <1>12, QuietStep DEF HeartbeatDone, OneTransport, TypeOK
<1>13. CASE Connect
  BY <1>13, QuietStep DEF Connect, OneTransport, TypeOK
<1>14. CASE ConnectFails
  BY <1>14, QuietStep DEF ConnectFails, Retry, CycleOver, OneTransport, TypeOK
<1>15. ASSUME NEW c \in down, VerifySession(c) PROVE IInv'
  <2>1. CASE Fresh(c)
    BY <1>15, <2>1, QuietStep DEF VerifySession, OneTransport, TypeOK
  <2>2. CASE ~Fresh(c)
    <3>1. Answer(c, FALSE) /\ UNCHANGED running
      BY <1>15, <2>2 DEF VerifySession
    <3>2. OneTransport'
      BY <1>15, <3>1 DEF VerifySession, OneTransport, Answer
    <3>3. UNCHANGED <<now, tableVars, cancelling, batch>> /\ down' \subseteq down
      BY <1>15 DEF VerifySession
    <3>4. running' = NoCommand /\ c \in Commands
      BY <1>15, <3>1 DEF VerifySession, TypeOK
    <3> QED
      BY <3>1, <3>2, <3>3, <3>4, AnswerStep
  <2> QED
    BY <2>1, <2>2
<1>15a. ASSUME NEW ok \in BOOLEAN, FinishSession(ok) PROVE IInv'
  <2>1. running \in Commands
    BY <1>15a DEF FinishSession, TypeOK
  <2> QED
    BY <1>15a, <2>1, AnswerStep DEF FinishSession, OneTransport
<1>16. CASE SessionEnd
  BY <1>16, QuietStep DEF SessionEnd, CycleOver, OneTransport, TypeOK
<1>17. CASE SessionBreaks
  BY <1>17, QuietStep DEF SessionBreaks, Retry, CycleOver, OneTransport, TypeOK
<1>18. CASE Restart
  BY <1>18, QuietStep DEF Restart, CycleOver, OneTransport, TypeOK
<1>19. CASE UNCHANGED vars
  BY <1>19, QuietStep DEF vars, OneTransport, TypeOK
<1> QED
  BY <1>1, <1>2, <1>3, <1>4, <1>5, <1>6, <1>7, <1>8, <1>9, <1>10, <1>11, <1>11a, <1>12,
     <1>13, <1>14, <1>15, <1>15a, <1>16, <1>17, <1>18, <1>19 DEF Next

\* Whatever the administrators, the maintenance loop, the connections and the
\* agent do, every variable keeps its type.
THEOREM TypeCorrect == Spec => []TypeOK
<1>1. IInv => TypeOK
  BY DEF IInv
<1> QED
  BY <1>1, InitIInv, StepIInv, PTL DEF Spec

\* The verdict in the table always tells what the gateway did.
THEOREM VerdictSound == Spec => []VerdictFollowsGateway
<1>1. IInv => VerdictFollowsGateway
  BY DEF IInv
<1> QED
  BY <1>1, InitIInv, StepIInv, PTL DEF Spec

\* No rejection is ever recorded without its alert.
THEOREM RejectionAlerted == Spec => []RejectedIsAlerted
<1>1. IInv => RejectedIsAlerted
  BY DEF IInv
<1> QED
  BY <1>1, InitIInv, StepIInv, PTL DEF Spec

-----------------------------------------------------------------------------
\* The executor is only given a command whose time is not over.
LEMMA OnlyFreshStart ==
    ASSUME IInv, [Next]_vars, NEW c \in Commands, running' = c, running # c
    PROVE  now < expiresAt[c]
<1> USE DEF tableVars, agentVars
<1>1. \/ \E d \in batch : VerifyPolled(d)
      \/ \E d \in down : VerifySession(d)
  BY DEF Next, vars, Tick, EnqueueCommand, ExpireStaleCommands, CancelRead,
         CancelCommit, CancelRollback, RecordAck, RecordAckRolledBack, Heartbeat,
         HeartbeatFails, FinishPolled, HeartbeatDone, Connect, ConnectFails,
         FinishSession, SessionEnd, SessionBreaks, Restart
<1> QED
  BY <1>1 DEF VerifyPolled, VerifySession, Fresh

\* The executor only finishes what it was given.
LEMMA OnlyStartedRun ==
    ASSUME IInv, [Next]_vars, NEW c \in executed', c \notin executed
    PROVE  running = c
<1> USE DEF tableVars, agentVars
<1>1. \E ok \in BOOLEAN : FinishPolled(ok) \/ FinishSession(ok)
  BY DEF Next, vars, Tick, EnqueueCommand, ExpireStaleCommands, CancelRead,
         CancelCommit, CancelRollback, RecordAck, RecordAckRolledBack, Heartbeat,
         HeartbeatFails, VerifyPolled, HeartbeatDone, Connect, ConnectFails,
         VerifySession, Answer, SessionEnd, SessionBreaks, Restart
<1> QED
  BY <1>1 DEF FinishPolled, FinishSession, Answer

\* What the control plane declared expired is not taken up any more: the row
\* expired at or before the instant the agent checks. Only an execution that
\* was under way by then still ends.
THEOREM ExpiryRespected == Spec => ExpiredIsNotStarted
<1>1. ASSUME IInv, [Next]_vars
      PROVE  \A c \in Commands :
                status[c] = "expired" =>
                    /\ running' = c => running = c
                    /\ c \in executed' => c \in executed \/ running = c
  <2> SUFFICES ASSUME NEW c \in Commands, status[c] = "expired"
               PROVE  /\ running' = c => running = c
                      /\ c \in executed' => c \in executed \/ running = c
    OBVIOUS
  <2>1. expiresAt[c] <= now
    BY <1>1 DEF IInv, ExpiredIsPast
  <2>2. ~(now < expiresAt[c])
    BY <1>1, <2>1 DEF IInv, TypeOK
  <2> QED
    BY <1>1, <2>2, OnlyFreshStart, OnlyStartedRun
<1>2. IInv /\ [Next]_vars =>
        [\A c \in Commands :
            status[c] = "expired" =>
                /\ running' = c => running = c
                /\ c \in executed' => c \in executed \/ running = c]_vars
  BY <1>1
<1> QED
  BY <1>2, InitIInv, StepIInv, PTL DEF Spec, ExpiredIsNotStarted

-----------------------------------------------------------------------------
(***************************************************************************)
(* The queue implements its promise.                                       *)
(***************************************************************************)

\* The initial states of the queue are initial states of the promise.
LEMMA InitPromise == Init => Promise!Init
  BY DEF Init, Promise!Init

\* Every step is a step of the promise or leaves it alone.
LEMMA StepPromise == IInv /\ [Next]_vars => [Promise!Next]_(Promise!promiseVars)
<1> SUFFICES ASSUME IInv, [Next]_vars PROVE Promise!Next \/ UNCHANGED Promise!promiseVars
  OBVIOUS
<1> USE DEF IInv, tableVars, agentVars, Promise!promiseVars
<1>h. ASSUME batch' \union down' \subseteq batch \union down \union Deliverable,
             running' \in {running, NoCommand} \union batch \union down,
             UNCHANGED <<status, executed, refused>>
      PROVE  Promise!Next
  BY <1>h DEF Promise!Next, Promise!Handle, Promise!Open, Deliverable
<1>1. CASE Tick
  BY <1>1 DEF Tick
<1>2. ASSUME NEW c \in Commands, EnqueueCommand(c) PROVE Promise!Next
  <2>1. Promise!Issue(c)
    BY <1>2 DEF EnqueueCommand, Promise!Issue
  <2> QED
    BY <2>1 DEF Promise!Next
<1>3. CASE ExpireStaleCommands
  <2>1. Promise!ExpireAll(Stale)
    BY <1>3 DEF ExpireStaleCommands, Stale, Promise!ExpireAll, Promise!Open
  <2> QED
    BY <2>1 DEF Promise!Next, Stale
<1>4. ASSUME NEW a \in Admins, NEW c \in Commands, CancelRead(a, c)
      PROVE  UNCHANGED Promise!promiseVars
  BY <1>4 DEF CancelRead
<1>5. ASSUME NEW a \in Admins, CancelCommit(a) PROVE Promise!Next
  <2>1. Promise!Settle(cancelling[a], "cancelled")
    BY <1>5 DEF CancelCommit, Promise!Settle, TypeOK, OnlyIssued
  <2>2. cancelling[a] \in Commands
    BY <1>5 DEF CancelCommit, TypeOK
  <2> QED
    BY <2>1, <2>2 DEF Promise!Next, Promise!Verdicts
<1>6. ASSUME NEW a \in Admins, CancelRollback(a) PROVE UNCHANGED Promise!promiseVars
  BY <1>6 DEF CancelRollback
<1>7. ASSUME NEW ack \in acks, RecordAck(ack) PROVE Promise!Next
  <2>1. Promise!Settle(ack.cmd, IF ack.ok THEN "accepted" ELSE "rejected")
    BY <1>7 DEF RecordAck, Promise!Settle, TypeOK, Ack, OnlyIssued, AcksAreHonest
  <2>2. ack.cmd \in Commands
    BY DEF TypeOK, Ack
  <2> QED
    BY <2>1, <2>2 DEF Promise!Next, Promise!Verdicts
<1>8. ASSUME NEW ack \in acks, RecordAckRolledBack(ack) PROVE UNCHANGED Promise!promiseVars
  BY <1>8 DEF RecordAckRolledBack
<1>9. CASE Heartbeat
  BY <1>9, <1>h DEF Heartbeat
<1>10. CASE HeartbeatFails \/ HeartbeatDone
  BY <1>10, <1>h DEF HeartbeatFails, HeartbeatDone
<1>11. ASSUME NEW c \in batch, VerifyPolled(c) PROVE Promise!Next
  BY <1>11, <1>h DEF VerifyPolled
<1>11a. ASSUME NEW ok \in BOOLEAN, FinishPolled(ok) PROVE Promise!Next
  <2>1. CASE ok
    <3>1. Promise!Perform(running)
      BY <1>11a, <2>1 DEF FinishPolled, Promise!Perform, OneTransport
    <3> QED
      BY <1>11a, <3>1 DEF FinishPolled, Promise!Next, TypeOK
  <2>2. CASE ~ok
    BY <1>11a, <2>2, <1>h DEF FinishPolled
  <2> QED
    BY <2>1, <2>2
<1>12. CASE Connect
  BY <1>12, <1>h DEF Connect
<1>13. CASE ConnectFails
  BY <1>13, <1>h DEF ConnectFails
<1>14. ASSUME NEW c \in down, VerifySession(c) PROVE Promise!Next
  <2>1. CASE Fresh(c)
    BY <1>14, <2>1, <1>h DEF VerifySession
  <2>2. CASE ~Fresh(c)
    <3>1. Promise!Refuse(c)
      BY <1>14, <2>2 DEF VerifySession, Answer, Promise!Refuse, OneTransport
    <3> QED
      BY <3>1 DEF Promise!Next, TypeOK
  <2> QED
    BY <2>1, <2>2
<1>14a. ASSUME NEW ok \in BOOLEAN, FinishSession(ok) PROVE Promise!Next
  <2>0. running \in Commands
    BY <1>14a DEF FinishSession, TypeOK
  <2>1. CASE ok
    <3>1. Promise!Perform(running)
      BY <1>14a, <2>1 DEF FinishSession, Answer, Promise!Perform, OneTransport
    <3> QED
      BY <2>0, <3>1 DEF Promise!Next
  <2>2. CASE ~ok
    <3>1. Promise!Refuse(running)
      BY <1>14a, <2>2 DEF FinishSession, Answer, Promise!Refuse, OneTransport
    <3> QED
      BY <2>0, <3>1 DEF Promise!Next
  <2> QED
    BY <2>1, <2>2
<1>15. CASE SessionEnd \/ SessionBreaks \/ Restart
  BY <1>15, <1>h DEF SessionEnd, SessionBreaks, Restart
<1>16. CASE UNCHANGED vars
  BY <1>16 DEF vars
<1> QED
  BY <1>1, <1>2, <1>3, <1>4, <1>5, <1>6, <1>7, <1>8, <1>9, <1>10, <1>11, <1>11a, <1>12,
     <1>13, <1>14, <1>14a, <1>15, <1>16 DEF Next

\* The command queue, with all its transports and races, implements what
\* CommandPromise states.
THEOREM QueueKeepsPromise == Spec => PromiseKept
<1> QED
  BY InitPromise, StepPromise, InitIInv, StepIInv, PTL
     DEF Spec, PromiseKept, Promise!Spec
=============================================================================
