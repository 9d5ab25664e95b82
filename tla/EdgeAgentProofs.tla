--------------------------- MODULE EdgeAgentProofs ---------------------------
(***************************************************************************)
(* Theorems about EdgeAgent for any number of rooms and sessions.          *)
(*                                                                         *)
(* The registries are separate dictionaries of three objects, and a start  *)
(* or stop updates them at different moments. That they agree is not       *)
(* inductive: one has to know which session a command in progress is       *)
(* busy with, and what has already happened to it (CommandSession), that a *)
(* registered session that was not stopped is connected (Backed), and that *)
(* a session not yet used is in no set (Unused).                           *)
(***************************************************************************)
EXTENDS EdgeAgent, TLAPS

Working == {"running", "failing", "closing", "leaving"}

Stage == IF cmd = NoCommand THEN "none" ELSE cmd.stage

\* What a command in progress is busy with.
CommandSession ==
    /\ Stage \in {"replace", "drop", "stop"} =>
         /\ sdk # NoSession /\ cmd.session = sdk /\ sdk \in stopped
         /\ pump[sdk] = "ended"
    /\ Stage \in {"open", "first", "track", "fail"} => sdk = NoSession /\ local = NoRoom
    /\ Stage \in {"first", "track", "fail"} =>
         /\ cmd.session \in Sessions
         /\ room[cmd.session] = cmd.room
         /\ pump[cmd.session] = "none"
    /\ Stage \in {"first", "track"} => cmd.session \in connected \ stopped
    /\ Stage \in {"replace", "drop"} => local = NoRoom
    /\ Stage = "replace" => ctrl = cmd.room
    /\ Stage = "drop" => ctrl = NoRoom /\ ffmpeg[cmd.session] \notin Running
    /\ Stage # "none" => answer = NoAnswer

\* A registered session was used, and was stopped unless it is connected and
\* its frame pump runs; a frame pump that has hung up really did, or the failure
\* was ignored.
Backed ==
    /\ sdk # NoSession => pump[sdk] # "none"
    /\ (sdk # NoSession /\ sdk \notin stopped) => sdk \in connected /\ pump[sdk] = "running"
    /\ \A s \in Sessions : pump[s] \in {"failing", "closing", "leaving", "crashed"} => s \in stopped
    /\ gone \intersect connected \subseteq lost

\* A session that was never created has left no trace.
Unused ==
    \A s \in Sessions : room[s] = NoRoom =>
        /\ pump[s] = "none" /\ ffmpeg[s] = "none"
        /\ s \notin connected \union stopped \union closed \union gone \union lost

IInv == TypeOK /\ RegistriesAgree /\ NothingForgotten /\ CommandSession /\ Backed /\ Unused

USE RoomAssumption, SessionAssumption

\* The initial state satisfies the inductive invariant.
LEMMA InitIInv == Init => IInv
BY SMTT(30) DEF Init, IInv, TypeOK, RegistriesAgree, NothingForgotten, Opening, CommandSession, Stage,
    Backed, Unused, PumpStages, ProcessStates, Command, NoCommand, Answer, NoAnswer, Running

\* Every step of a command, a frame pump, ffmpeg or the process preserves it.
LEMMA StepIInv == IInv /\ [Next]_vars => IInv'
<1> SUFFICES ASSUME IInv, [Next]_vars PROVE IInv'
    OBVIOUS
<1> USE DEF IInv, TypeOK, RegistriesAgree, NothingForgotten, Opening, CommandSession, Stage,
    Backed, Unused, PumpStages, ProcessStates, Command, NoCommand, Answer, NoAnswer, Running
<1>1. CASE \E op \in {"start", "stop"}, r \in Rooms : Receive(op, r)
    BY <1>1 DEF Receive, registries, session
<1>2. CASE StartAlreadyLive
    BY <1>2 DEF StartAlreadyLive, At, Reply, GoTo, StopSession, CloseSource, Reaped, HangUp,
        Healthy, FfmpegChanges, registries, session
<1>3. CASE StartRefused
    <2>0. cmd \in Command
        BY <1>3 DEF StartRefused, At
    <2>1. TypeOK'
        BY <1>3, <2>0 DEF StartRefused, At, Reply, GoTo, StopSession, CloseSource,
            Reaped, HangUp, Healthy, FfmpegChanges, registries, session
    <2>2. RegistriesAgree'
        BY <1>3, <2>0 DEF StartRefused, At, Reply, GoTo, StopSession, CloseSource,
            Reaped, HangUp, Healthy, FfmpegChanges, registries, session
    <2>3. NothingForgotten'
        BY <1>3, <2>0 DEF StartRefused, At, Reply, GoTo, StopSession, CloseSource,
            Reaped, HangUp, Healthy, FfmpegChanges, registries, session
    <2>4. CommandSession'
        BY <1>3, <2>0 DEF StartRefused, At, Reply, GoTo, StopSession, CloseSource,
            Reaped, HangUp, Healthy, FfmpegChanges, registries, session
    <2>5. Backed'
        BY <1>3, <2>0 DEF StartRefused, At, Reply, GoTo, StopSession, CloseSource,
            Reaped, HangUp, Healthy, FfmpegChanges, registries, session
    <2>6. Unused'
        BY <1>3, <2>0 DEF StartRefused, At, Reply, GoTo, StopSession, CloseSource,
            Reaped, HangUp, Healthy, FfmpegChanges, registries, session
    <2> QED
        BY <2>1, <2>2, <2>3, <2>4, <2>5, <2>6
<1>4. CASE StartReplaces
    <2>0. cmd \in Command
        BY <1>4 DEF StartReplaces, At
    <2>1. TypeOK'
        BY <1>4, <2>0 DEF StartReplaces, At, Reply, GoTo, StopSession, CloseSource,
            Reaped, HangUp, Healthy, FfmpegChanges, registries, session
    <2>2. RegistriesAgree'
        BY <1>4, <2>0 DEF StartReplaces, At, Reply, GoTo, StopSession, CloseSource,
            Reaped, HangUp, Healthy, FfmpegChanges, registries, session
    <2>3. NothingForgotten'
        BY <1>4, <2>0 DEF StartReplaces, At, Reply, GoTo, StopSession, CloseSource,
            Reaped, HangUp, Healthy, FfmpegChanges, registries, session
    <2>4. CommandSession'
        BY <1>4, <2>0 DEF StartReplaces, At, Reply, GoTo, StopSession, CloseSource,
            Reaped, HangUp, Healthy, FfmpegChanges, registries, session
    <2>5. Backed'
        BY <1>4, <2>0 DEF StartReplaces, At, Reply, GoTo, StopSession, CloseSource,
            Reaped, HangUp, Healthy, FfmpegChanges, registries, session
    <2>6. Unused'
        BY <1>4, <2>0 DEF StartReplaces, At, Reply, GoTo, StopSession, CloseSource,
            Reaped, HangUp, Healthy, FfmpegChanges, registries, session
    <2> QED
        BY <2>1, <2>2, <2>3, <2>4, <2>5, <2>6
<1>5. CASE StartReplaced
    <2>0. cmd \in Command
        BY <1>5 DEF StartReplaced, At
    <2>1. TypeOK'
        BY <1>5, <2>0 DEF StartReplaced, At, Reply, GoTo, StopSession, CloseSource,
            Reaped, HangUp, Healthy, FfmpegChanges, registries, session
    <2>2. RegistriesAgree'
        BY <1>5, <2>0 DEF StartReplaced, At, Reply, GoTo, StopSession, CloseSource,
            Reaped, HangUp, Healthy, FfmpegChanges, registries, session
    <2>3. NothingForgotten'
        BY <1>5, <2>0 DEF StartReplaced, At, Reply, GoTo, StopSession, CloseSource,
            Reaped, HangUp, Healthy, FfmpegChanges, registries, session
    <2>4. CommandSession'
        BY <1>5, <2>0 DEF StartReplaced, At, Reply, GoTo, StopSession, CloseSource,
            Reaped, HangUp, Healthy, FfmpegChanges, registries, session
    <2>5. Backed'
        BY <1>5, <2>0 DEF StartReplaced, At, Reply, GoTo, StopSession, CloseSource,
            Reaped, HangUp, Healthy, FfmpegChanges, registries, session
    <2>6. Unused'
        BY <1>5, <2>0 DEF StartReplaced, At, Reply, GoTo, StopSession, CloseSource,
            Reaped, HangUp, Healthy, FfmpegChanges, registries, session
    <2> QED
        BY <2>1, <2>2, <2>3, <2>4, <2>5, <2>6
<1>5a. CASE StartHalfReplaced
    <2>0. cmd \in Command
        BY <1>5a DEF StartHalfReplaced, At
    <2>1. TypeOK'
        BY <1>5a, <2>0 DEF StartHalfReplaced, At, Reply, GoTo, StopSession, CloseSource,
            Reaped, HangUp, Healthy, FfmpegChanges, registries, session
    <2>2. RegistriesAgree'
        BY <1>5a, <2>0 DEF StartHalfReplaced, At, Reply, GoTo, StopSession, CloseSource,
            Reaped, HangUp, Healthy, FfmpegChanges, registries, session
    <2>3. NothingForgotten'
        BY <1>5a, <2>0 DEF StartHalfReplaced, At, Reply, GoTo, StopSession, CloseSource,
            Reaped, HangUp, Healthy, FfmpegChanges, registries, session
    <2>4. CommandSession'
        BY <1>5a, <2>0 DEF StartHalfReplaced, At, Reply, GoTo, StopSession, CloseSource,
            Reaped, HangUp, Healthy, FfmpegChanges, registries, session
    <2>5. Backed'
        BY <1>5a, <2>0 DEF StartHalfReplaced, At, Reply, GoTo, StopSession, CloseSource,
            Reaped, HangUp, Healthy, FfmpegChanges, registries, session
    <2>6. Unused'
        BY <1>5a, <2>0 DEF StartHalfReplaced, At, Reply, GoTo, StopSession, CloseSource,
            Reaped, HangUp, Healthy, FfmpegChanges, registries, session
    <2> QED
        BY <2>1, <2>2, <2>3, <2>4, <2>5, <2>6
<1>5b. CASE StartDropped
    <2>0. cmd \in Command
        BY <1>5b DEF StartDropped, At
    <2>1. TypeOK'
        BY <1>5b, <2>0 DEF StartDropped, At, Reply, GoTo, StopSession, CloseSource,
            Reaped, HangUp, Healthy, FfmpegChanges, registries, session
    <2>2. RegistriesAgree'
        BY <1>5b, <2>0 DEF StartDropped, At, Reply, GoTo, StopSession, CloseSource,
            Reaped, HangUp, Healthy, FfmpegChanges, registries, session
    <2>3. NothingForgotten'
        BY <1>5b, <2>0 DEF StartDropped, At, Reply, GoTo, StopSession, CloseSource,
            Reaped, HangUp, Healthy, FfmpegChanges, registries, session
    <2>4. CommandSession'
        BY <1>5b, <2>0 DEF StartDropped, At, Reply, GoTo, StopSession, CloseSource,
            Reaped, HangUp, Healthy, FfmpegChanges, registries, session
    <2>5. Backed'
        BY <1>5b, <2>0 DEF StartDropped, At, Reply, GoTo, StopSession, CloseSource,
            Reaped, HangUp, Healthy, FfmpegChanges, registries, session
    <2>6. Unused'
        BY <1>5b, <2>0 DEF StartDropped, At, Reply, GoTo, StopSession, CloseSource,
            Reaped, HangUp, Healthy, FfmpegChanges, registries, session
    <2> QED
        BY <2>1, <2>2, <2>3, <2>4, <2>5, <2>6
<1>6. CASE StartOpens
    BY <1>6 DEF StartOpens, At, Reply, GoTo, StopSession, CloseSource, Reaped, HangUp,
        Healthy, FfmpegChanges, registries, session
<1>7. CASE ConnectFails
    BY <1>7 DEF ConnectFails, At, Reply, GoTo, StopSession, CloseSource, Reaped, HangUp,
        Healthy, FfmpegChanges, registries, session
<1>8. CASE \E s \in Sessions : Connects(s)
    <2> PICK s \in Sessions : Connects(s)
        BY <1>8
    <2>0. cmd \in Command
        BY <1>8 DEF Connects, At
    <2>1. TypeOK'
        BY <2>0 DEF Connects, At, Reply, GoTo, StopSession, CloseSource, Reaped, HangUp,
            Healthy, FfmpegChanges, registries, session
    <2>2. RegistriesAgree'
        BY <2>0 DEF Connects, At, Reply, GoTo, StopSession, CloseSource, Reaped, HangUp,
            Healthy, FfmpegChanges, registries, session
    <2>3. NothingForgotten'
        BY <2>0 DEF Connects, At, Reply, GoTo, StopSession, CloseSource, Reaped, HangUp,
            Healthy, FfmpegChanges, registries, session
    <2>4. CommandSession'
        BY <2>0 DEF Connects, At, Reply, GoTo, StopSession, CloseSource, Reaped, HangUp,
            Healthy, FfmpegChanges, registries, session
    <2>5. Backed'
        BY <2>0 DEF Connects, At, Reply, GoTo, StopSession, CloseSource, Reaped, HangUp,
            Healthy, FfmpegChanges, registries, session
    <2>6. Unused'
        BY <2>0 DEF Connects, At, Reply, GoTo, StopSession, CloseSource, Reaped, HangUp,
            Healthy, FfmpegChanges, registries, session
    <2> QED
        BY <2>1, <2>2, <2>3, <2>4, <2>5, <2>6
<1>9a. CASE FirstFrame
    BY <1>9a DEF FirstFrame, At, Reply, GoTo, StopSession, CloseSource, Reaped, HangUp,
        Healthy, FfmpegChanges, registries, session
<1>9. CASE Publishes
    BY <1>9 DEF Publishes, At, Reply, GoTo, StopSession, CloseSource, Reaped, HangUp,
        Healthy, FfmpegChanges, registries, session
<1>10. CASE PublishFails
    <2>0. cmd \in Command
        BY <1>10 DEF PublishFails, At
    <2>1. TypeOK'
        BY <1>10, <2>0 DEF PublishFails, At, Reply, GoTo, StopSession, CloseSource,
            Reaped, HangUp, Healthy, FfmpegChanges, registries, session
    <2>2. RegistriesAgree'
        BY <1>10, <2>0 DEF PublishFails, At, Reply, GoTo, StopSession, CloseSource,
            Reaped, HangUp, Healthy, FfmpegChanges, registries, session
    <2>3. NothingForgotten'
        BY <1>10, <2>0 DEF PublishFails, At, Reply, GoTo, StopSession, CloseSource,
            Reaped, HangUp, Healthy, FfmpegChanges, registries, session
    <2>4. CommandSession'
        BY <1>10, <2>0 DEF PublishFails, At, Reply, GoTo, StopSession, CloseSource,
            Reaped, HangUp, Healthy, FfmpegChanges, registries, session
    <2>5. Backed'
        BY <1>10, <2>0 DEF PublishFails, At, Reply, GoTo, StopSession, CloseSource,
            Reaped, HangUp, Healthy, FfmpegChanges, registries, session
    <2>6. Unused'
        BY <1>10, <2>0 DEF PublishFails, At, Reply, GoTo, StopSession, CloseSource,
            Reaped, HangUp, Healthy, FfmpegChanges, registries, session
    <2> QED
        BY <2>1, <2>2, <2>3, <2>4, <2>5, <2>6
<1>11. CASE StartFails
    BY <1>11 DEF StartFails, At, Reply, GoTo, StopSession, CloseSource, Reaped, HangUp,
        Healthy, FfmpegChanges, registries, session
<1>12. CASE StopUnknown
    BY <1>12 DEF StopUnknown, At, Reply, GoTo, StopSession, CloseSource, Reaped, HangUp,
        Healthy, FfmpegChanges, registries, session
<1>13. CASE StopMismatch
    BY <1>13 DEF StopMismatch, At, Reply, GoTo, StopSession, CloseSource, Reaped, HangUp,
        Healthy, FfmpegChanges, registries, session
<1>14. CASE StopBegins
    <2>0. cmd \in Command
        BY <1>14 DEF StopBegins, At
    <2>1. TypeOK'
        BY <1>14, <2>0 DEF StopBegins, At, Reply, GoTo, StopSession, CloseSource,
            Reaped, HangUp, Healthy, FfmpegChanges, registries, session
    <2>2. RegistriesAgree'
        BY <1>14, <2>0 DEF StopBegins, At, Reply, GoTo, StopSession, CloseSource,
            Reaped, HangUp, Healthy, FfmpegChanges, registries, session
    <2>3. NothingForgotten'
        BY <1>14, <2>0 DEF StopBegins, At, Reply, GoTo, StopSession, CloseSource,
            Reaped, HangUp, Healthy, FfmpegChanges, registries, session
    <2>4. CommandSession'
        BY <1>14, <2>0 DEF StopBegins, At, Reply, GoTo, StopSession, CloseSource,
            Reaped, HangUp, Healthy, FfmpegChanges, registries, session
    <2>5. Backed'
        BY <1>14, <2>0 DEF StopBegins, At, Reply, GoTo, StopSession, CloseSource,
            Reaped, HangUp, Healthy, FfmpegChanges, registries, session
    <2>6. Unused'
        BY <1>14, <2>0 DEF StopBegins, At, Reply, GoTo, StopSession, CloseSource,
            Reaped, HangUp, Healthy, FfmpegChanges, registries, session
    <2> QED
        BY <2>1, <2>2, <2>3, <2>4, <2>5, <2>6
<1>15. CASE StopSucceeds
    <2>0. cmd \in Command
        BY <1>15 DEF StopSucceeds, At
    <2>1. TypeOK'
        BY <1>15, <2>0 DEF StopSucceeds, At, Reply, GoTo, StopSession, CloseSource,
            Reaped, HangUp, Healthy, FfmpegChanges, registries, session
    <2>2. RegistriesAgree'
        BY <1>15, <2>0 DEF StopSucceeds, At, Reply, GoTo, StopSession, CloseSource,
            Reaped, HangUp, Healthy, FfmpegChanges, registries, session
    <2>3. NothingForgotten'
        BY <1>15, <2>0 DEF StopSucceeds, At, Reply, GoTo, StopSession, CloseSource,
            Reaped, HangUp, Healthy, FfmpegChanges, registries, session
    <2>4. CommandSession'
        BY <1>15, <2>0 DEF StopSucceeds, At, Reply, GoTo, StopSession, CloseSource,
            Reaped, HangUp, Healthy, FfmpegChanges, registries, session
    <2>5. Backed'
        BY <1>15, <2>0 DEF StopSucceeds, At, Reply, GoTo, StopSession, CloseSource,
            Reaped, HangUp, Healthy, FfmpegChanges, registries, session
    <2>6. Unused'
        BY <1>15, <2>0 DEF StopSucceeds, At, Reply, GoTo, StopSession, CloseSource,
            Reaped, HangUp, Healthy, FfmpegChanges, registries, session
    <2> QED
        BY <2>1, <2>2, <2>3, <2>4, <2>5, <2>6
<1>16. CASE StopFails
    BY <1>16 DEF StopFails, At, Reply, GoTo, StopSession, CloseSource, Reaped, HangUp,
        Healthy, FfmpegChanges, registries, session
<1>17. CASE \E s \in Sessions : PumpFails(s)
    BY <1>17 DEF PumpFails, At, Reply, GoTo, StopSession, CloseSource, Reaped, HangUp,
        Healthy, FfmpegChanges, registries, session
<1>18. CASE \E s \in Sessions : PumpCloses(s)
    BY <1>18 DEF PumpCloses, At, Reply, GoTo, StopSession, CloseSource, Reaped, HangUp,
        Healthy, FfmpegChanges, registries, session
<1>19. CASE \E s \in Sessions : PumpCrashes(s)
    BY <1>19 DEF PumpCrashes, At, Reply, GoTo, StopSession, CloseSource, Reaped, HangUp,
        Healthy, FfmpegChanges, registries, session
<1>20. CASE \E s \in Sessions : PumpReaps(s)
    BY <1>20 DEF PumpReaps, At, Reply, GoTo, StopSession, CloseSource, Reaped, HangUp,
        Healthy, FfmpegChanges, registries, session
<1>21. CASE \E s \in Sessions : PumpLeaves(s)
    BY <1>21 DEF PumpLeaves, At, Reply, GoTo, StopSession, CloseSource, Reaped, HangUp,
        Healthy, FfmpegChanges, registries, session
<1>22. CASE \E s \in Sessions : FfmpegStalls(s)
    BY <1>22 DEF FfmpegStalls, At, Reply, GoTo, StopSession, CloseSource, Reaped, HangUp,
        Healthy, FfmpegChanges, registries, session
<1>23. CASE \E s \in Sessions : FfmpegResumes(s)
    BY <1>23 DEF FfmpegResumes, At, Reply, GoTo, StopSession, CloseSource, Reaped, HangUp,
        Healthy, FfmpegChanges, registries, session
<1>24. CASE \E s \in Sessions : FfmpegExits(s)
    BY <1>24 DEF FfmpegExits, At, Reply, GoTo, StopSession, CloseSource, Reaped, HangUp,
        Healthy, FfmpegChanges, registries, session
<1>25. CASE LoopResumes
    BY <1>25 DEF LoopResumes, At, Reply, GoTo, StopSession, CloseSource, Reaped, HangUp,
        Healthy, FfmpegChanges, registries, session
<1>26. CASE Restart
    BY <1>26 DEF Restart, At, Reply, GoTo, StopSession, CloseSource, Reaped, HangUp,
        Healthy, FfmpegChanges, registries, session
<1>27. CASE UNCHANGED vars
    BY <1>27 DEF vars, registries, session
<1> QED
    BY <1>1, <1>2, <1>3, <1>4, <1>5, <1>5a, <1>5b, <1>6, <1>7, <1>8, <1>9, <1>9a, <1>10,
        <1>11, <1>12, <1>13, <1>14, <1>15, <1>16, <1>17, <1>18, <1>19, <1>20, <1>21, <1>22, <1>23, <1>24, <1>25,
        <1>26, <1>27, Zenon DEF Next, StartSteps, StopSteps, PumpSteps

\* The inductive invariant holds in every reachable state.
LEMMA Invariance == Spec => []IInv
<1>1. Init => IInv
    BY InitIInv
<1>2. IInv /\ [Next]_vars => IInv'
    BY StepIInv
<1> QED
    BY <1>1, <1>2, PTL DEF Spec

\* The attributes of executor, controller, publisher and sessions keep to their
\* values (TypeOK).
THEOREM TypeCorrect == Spec => []TypeOK
<1>1. IInv => TypeOK
    BY DEF IInv
<1> QED
    BY Invariance, <1>1, PTL

\* The three registries agree at every stage of every command, but for the
\* session the publisher alone still stops in a start (RegistriesAgree).
THEOREM RegistriesStayInAgreement == Spec => []RegistriesAgree
<1>1. IInv => RegistriesAgree
    BY DEF IInv
<1> QED
    BY Invariance, <1>1, PTL

\* No connection, ffmpeg process or frame pump is forgotten (NothingForgotten).
THEOREM NothingIsForgotten == Spec => []NothingForgotten
<1>1. IInv => NothingForgotten
    BY DEF IInv
<1> QED
    BY Invariance, <1>1, PTL

\* What AcceptedStartIsWatched says of one step.
AcceptWatched ==
    \A r \in Rooms :
        (cmd # NoCommand /\ answer' = [op |-> "start", room |-> r, accepted |-> TRUE]) =>
            local' = r /\ Healthy(r)' /\ sdk' \in connected'

\* Only two actions accept a start; both leave a session with a frame task.
LEMMA WatchedStep == IInv /\ [Next]_vars => [AcceptWatched]_vars
<1> SUFFICES ASSUME IInv, Next, NEW r \in Rooms, cmd # NoCommand,
                    answer' = [op |-> "start", room |-> r, accepted |-> TRUE]
             PROVE local' = r /\ Healthy(r)' /\ sdk' \in connected'
    BY DEF AcceptWatched
<1>1. cmd \in Command /\ answer = NoAnswer
    BY DEF IInv, TypeOK, CommandSession, Stage, NoCommand, Command
<1>2. CASE StartAlreadyLive
    BY <1>1, <1>2 DEF IInv, TypeOK, RegistriesAgree, Backed, StartAlreadyLive, At, Reply,
        Healthy, session
<1>3. CASE Publishes
    BY <1>1, <1>3 DEF IInv, TypeOK, CommandSession, Stage, Publishes, At, Reply, Healthy,
        Command
<1>4. StartAlreadyLive \/ Publishes
    BY <1>1 DEF Next, StartSteps, StopSteps, PumpSteps, Receive, StartRefused,
        StartReplaces, StartReplaced, StartHalfReplaced, StartDropped,
        StartOpens, FirstFrame, ConnectFails, Connects, PublishFails, StartFails, StopUnknown, StopMismatch,
        StopBegins, StopSucceeds, StopFails, PumpFails, PumpCloses, PumpCrashes, PumpReaps,
        PumpLeaves, FfmpegStalls, FfmpegResumes, FfmpegExits, FfmpegChanges, LoopResumes, Restart,
        At, Reply, GoTo, StopSession, NoAnswer, Command
<1> QED
    BY <1>2, <1>3, <1>4

\* An accepted start leaves the camera connected and watched over in the room it
\* names, whatever was failing meanwhile (AcceptedStartIsWatched).
THEOREM AcceptedStartsAreWatched == Spec => AcceptedStartIsWatched
<1>1. AcceptedStartIsWatched <=> [][AcceptWatched]_vars
    BY DEF AcceptedStartIsWatched, AcceptWatched
<1>2. IInv /\ [Next]_vars => [AcceptWatched]_vars
    BY WatchedStep
<1> QED
    BY Invariance, <1>1, <1>2, PTL DEF Spec

=============================================================================
