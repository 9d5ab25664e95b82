------------------------------ MODULE EdgeAgent ------------------------------
(***************************************************************************)
(* How the edge agent carries out start_publish and stop_publish for one   *)
(* camera: the executor with its publish state, the LiveKit media          *)
(* controller, the SDK publisher, the media session with its frame pump,   *)
(* and the ffmpeg process the frames come from.                            *)
(*                                                                         *)
(* Three registries say what is being published: that of the executor, of  *)
(* the controller and of the publisher. Commands come one after the other  *)
(* (the supervisor waits for each result) and run on one event loop, which *)
(* they share with the frame pump of the registered session. Every path    *)
(* that awaits first cancels and joins that pump, so a command and a pump  *)
(* interleave only at the stages below.                                    *)
(*                                                                         *)
(* Cameras meet in no registry, so one is enough. A room is what the       *)
(* camera's livekit_room_name was when the command was issued; it can be   *)
(* edited. Rooms and ffmpeg are external: connecting, publishing and       *)
(* disconnecting may fail, ffmpeg may stall or exit.                       *)
(***************************************************************************)
EXTENDS Naturals, FiniteSets

CONSTANTS
    Rooms,          \* rooms a command may name
    Sessions,       \* media sessions of one life of the gateway (a bound)
    NoRoom,         \* "not registered", or "session not used yet"
    NoSession       \* "none"

ASSUME RoomAssumption == NoRoom \notin Rooms
ASSUME SessionAssumption == NoSession \notin Sessions

VARIABLES
    local,          \* PublishState: the room the executor believes in
    ctrl,           \* LiveKitMediaController.active_sessions: its room
    sdk,            \* LiveKitSdkPublisherClient.active_sessions: its session
    room,           \* room[s]: the room session s was created for
    connected,      \* sessions whose room the agent connected, not disconnected
    gone,           \* sessions with room_disconnected set
    stopped,        \* sessions with _stopped set
    closed,         \* sessions whose frame source is closed
    pump,           \* pump[s]: how far the frame task of s is
    ffmpeg,         \* ffmpeg[s]: the process of s
    lost,           \* sessions whose disconnect failed and was ignored
    blocked,        \* the session whose stdout.close() holds up the event loop
    cmd,            \* the command being executed
    answer          \* the result of the last command

registries == <<local, ctrl, sdk>>
session == <<room, connected, gone, stopped, closed, pump, ffmpeg, lost, blocked>>
vars == <<registries, session, cmd, answer>>

PumpStages == {"none", "running", "failing", "closing", "leaving", "crashed", "ended"}
ProcessStates == {"none", "streaming", "stalled", "orphaned", "exited"}
Running == {"streaming", "stalled"}

NoCommand == [op |-> "none"]
Command == [op : {"start", "stop"}, room : Rooms,
            stage : {"decide", "replace", "drop", "stop", "open", "first", "track", "fail"},
            session : Sessions \union {NoSession}, err : BOOLEAN]
NoAnswer == [op |-> "none"]
Answer == [op : {"start", "stop"}, room : Rooms, accepted : BOOLEAN]

Init ==
    /\ local = NoRoom
    /\ ctrl = NoRoom
    /\ sdk = NoSession
    /\ room = [s \in Sessions |-> NoRoom]
    /\ connected = {}
    /\ gone = {}
    /\ stopped = {}
    /\ closed = {}
    /\ pump = [s \in Sessions |-> "none"]
    /\ ffmpeg = [s \in Sessions |-> "none"]
    /\ lost = {}
    /\ blocked = NoSession
    /\ cmd = NoCommand
    /\ answer = NoAnswer

\* (Deviation: the registries are asked, the frame pump is not.)
HealthyByName(r) == ctrl = r /\ sdk # NoSession /\ room[sdk] = r

\* is_publishing_healthy of the controller: its room, the session's room, and
\* a frame task that is neither over nor cleaning up.
Healthy(r) ==
    /\ ctrl = r
    /\ sdk # NoSession
    /\ room[sdk] = r
    /\ sdk \notin stopped
    /\ pump[sdk] = "running"

-----------------------------------------------------------------------------
(***************************************************************************)
(* A command arrives, is decided, and ends with an answer.                 *)
(***************************************************************************)

Receive(op, r) ==
    /\ cmd = NoCommand
    /\ cmd' = [op |-> op, room |-> r, stage |-> "decide", session |-> NoSession, err |-> FALSE]
    /\ answer' = NoAnswer
    /\ UNCHANGED <<registries, session>>

\* The command is at this stage and the event loop is free to go on.
At(op, stage) == cmd # NoCommand /\ cmd.op = op /\ cmd.stage = stage /\ blocked = NoSession

\* (Deviation: the answer names the registered room.)
ReplyFromRegistry(ok) ==
    /\ cmd' = NoCommand
    /\ answer' = [op |-> cmd.op, room |-> local, accepted |-> ok]

Reply(ok) ==
    /\ cmd' = NoCommand
    /\ answer' = [op |-> cmd.op, room |-> cmd.room, accepted |-> ok]

GoTo(stage, s, err) ==
    /\ cmd' = [op |-> cmd.op, room |-> cmd.room, stage |-> stage, session |-> s, err |-> err]
    /\ UNCHANGED answer

\* Closing a frame source: stdout is closed first, and that waits for the
\* thread that is reading it, on the event loop itself.
CloseSource(s) ==
    /\ closed' = closed \union {s}
    /\ blocked' = IF s \notin closed /\ ffmpeg[s] = "stalled" THEN s ELSE NoSession

\* aclose leaves no process behind if it is not cancelled: ffmpeg is terminated,
\* and killed when it has not exited in time.
Reaped(s) == IF ffmpeg[s] \in Running THEN [ffmpeg EXCEPT ![s] = "exited"] ELSE ffmpeg

\* LiveKitVideoTrackMediaSession.stop: the frame task is cancelled and joined,
\* which raises if it has crashed, then track, video source and frame source
\* are let go; any of that may fail. A frame task cancelled while it waits for
\* ffmpeg to exit waits no longer, and nobody will kill ffmpeg.
StopSession(s, stage) ==
    /\ stopped' = stopped \union {s}
    /\ CloseSource(s)
    /\ \E err \in BOOLEAN :
         /\ pump[s] = "crashed" => err
         /\ GoTo(stage, s, err)
    /\ pump' = [pump EXCEPT ![s] = "ended"]
    /\ ffmpeg' = IF pump[s] = "closing" /\ ffmpeg[s] \in Running
                 THEN [ffmpeg EXCEPT ![s] = "orphaned"] ELSE ffmpeg
    /\ UNCHANGED <<room, connected, gone, lost>>

\* _safe_disconnect_room: a failure is ignored, and the session forgotten.
HangUp(s) ==
    \/ connected' = connected \ {s} /\ UNCHANGED lost
    \/ s \in connected /\ lost' = lost \union {s} /\ UNCHANGED connected

-----------------------------------------------------------------------------
(***************************************************************************)
(* start_publish.                                                          *)
(***************************************************************************)

\* The camera is published and healthy in this room already: the executor sees
\* it, or the controller does when the executor had forgotten the camera.
StartAlreadyLive ==
    /\ At("start", "decide")
    /\ Healthy(cmd.room)
    /\ local' = IF local = NoRoom THEN cmd.room ELSE local
    /\ Reply(TRUE)
    /\ UNCHANGED <<ctrl, sdk, session>>

\* Otherwise the executor forgets the camera; then its credentials may turn out
\* to be missing, or the controller may hold another room.
StartRefused ==
    /\ At("start", "decide")
    /\ local = NoRoom \/ ~Healthy(cmd.room)
    /\ local' = NoRoom
    /\ Reply(FALSE)
    /\ UNCHANGED <<ctrl, sdk, session>>

\* The controller stops a session that is not healthy any more. ...
StartReplaces ==
    /\ At("start", "decide")
    /\ ctrl = cmd.room /\ ~Healthy(cmd.room)
    /\ local' = NoRoom
    /\ StopSession(sdk, "replace")
    /\ UNCHANGED <<ctrl, sdk>>

\* ... When that worked and the room is disconnected, publisher and controller
\* let the session go without a step in between.
StartReplaced ==
    /\ At("start", "replace")
    /\ ~cmd.err
    /\ ffmpeg' = Reaped(cmd.session)
    /\ connected' = IF cmd.session \in gone THEN connected ELSE connected \ {cmd.session}
    /\ ctrl' = NoRoom
    /\ sdk' = NoSession
    /\ GoTo("open", NoSession, FALSE)
    /\ UNCHANGED <<local, room, gone, stopped, closed, pump, lost, blocked>>

\* (Deviation: the controller keeps its entry when the stop failed.)
StartHalfReplacedKeeps ==
    /\ At("start", "replace")
    /\ cmd.err \/ cmd.session \notin gone
    /\ ffmpeg' = Reaped(cmd.session)
    /\ GoTo("drop", cmd.session, FALSE)
    /\ UNCHANGED <<registries, room, connected, gone, stopped, closed, pump, lost, blocked>>

\* When stopping the session failed, or disconnecting does, the controller
\* ignores that and lets go all the same; the publisher still has the session,
\* finds it dead and stops it once more, ...
StartHalfReplaced ==
    /\ At("start", "replace")
    /\ cmd.err \/ cmd.session \notin gone
    /\ ffmpeg' = Reaped(cmd.session)
    /\ ctrl' = NoRoom
    /\ GoTo("drop", cmd.session, FALSE)
    /\ UNCHANGED <<local, sdk, room, connected, gone, stopped, closed, pump, lost, blocked>>

\* ... disconnects its room unless the frame pump did that, and lets it go.
StartDropped ==
    /\ At("start", "drop")
    /\ IF cmd.session \in gone THEN UNCHANGED <<connected, lost>> ELSE HangUp(cmd.session)
    /\ sdk' = NoSession
    /\ GoTo("open", NoSession, FALSE)
    /\ UNCHANGED <<local, ctrl, room, gone, stopped, closed, pump, ffmpeg, blocked>>

\* (Deviation: the controller does not compare rooms.)
StartOpensAnyway ==
    /\ At("start", "decide")
    /\ ctrl # cmd.room
    /\ local' = NoRoom
    /\ GoTo("open", NoSession, FALSE)
    /\ UNCHANGED <<ctrl, sdk, session>>

StartOpens ==
    /\ At("start", "decide")
    /\ ctrl = NoRoom
    /\ local' = NoRoom
    /\ GoTo("open", NoSession, FALSE)
    /\ UNCHANGED <<ctrl, sdk, session>>

\* The SDK is missing, or the room cannot be connected.
ConnectFails ==
    /\ At("start", "open")
    /\ Reply(FALSE)
    /\ UNCHANGED <<registries, session>>

\* The room is connected and ffmpeg started for the first frame.
Connects(s) ==
    /\ At("start", "open")
    /\ room[s] = NoRoom
    /\ room' = [room EXCEPT ![s] = cmd.room]
    /\ connected' = connected \union {s}
    /\ ffmpeg' = [ffmpeg EXCEPT ![s] = "streaming"]
    /\ GoTo("first", s, FALSE)
    /\ UNCHANGED <<registries, gone, stopped, closed, pump, lost, blocked>>

\* The first frame is read, and the track is being published.
FirstFrame ==
    /\ At("start", "first")
    /\ ffmpeg[cmd.session] = "streaming"
    /\ GoTo("track", cmd.session, FALSE)
    /\ UNCHANGED <<registries, session>>

\* The track is published, whatever has become of ffmpeg meanwhile: the frame
\* pump starts and the session is entered in all three registries.
Publishes ==
    /\ At("start", "track")
    /\ pump' = [pump EXCEPT ![cmd.session] = "running"]
    /\ sdk' = cmd.session
    /\ ctrl' = cmd.room
    /\ local' = cmd.room
    /\ Reply(TRUE)
    /\ UNCHANGED <<room, connected, gone, stopped, closed, ffmpeg, lost, blocked>>

\* No first frame in time, no frame at all, or the track is not published: the
\* frame source is closed ...
PublishFails ==
    /\ At("start", "first") \/ At("start", "track")
    /\ stopped' = stopped \union {cmd.session}
    /\ CloseSource(cmd.session)
    /\ GoTo("fail", cmd.session, TRUE)
    /\ UNCHANGED <<registries, room, connected, gone, pump, ffmpeg, lost>>

\* ... and the room disconnected.
StartFails ==
    /\ At("start", "fail")
    /\ ffmpeg' = Reaped(cmd.session)
    /\ HangUp(cmd.session)
    /\ Reply(FALSE)
    /\ UNCHANGED <<registries, room, gone, stopped, closed, pump, blocked>>

-----------------------------------------------------------------------------
(***************************************************************************)
(* stop_publish.                                                           *)
(***************************************************************************)

\* The executor does not know the camera as published: nothing is asked of the
\* controller.
StopUnknown ==
    /\ At("stop", "decide")
    /\ local = NoRoom
    /\ Reply(TRUE)
    /\ UNCHANGED <<registries, session>>

StopMismatch ==
    /\ At("stop", "decide")
    /\ local # NoRoom /\ ctrl # cmd.room
    /\ Reply(FALSE)
    /\ UNCHANGED <<registries, session>>

StopBegins ==
    /\ At("stop", "decide")
    /\ local # NoRoom /\ ctrl = cmd.room
    /\ StopSession(sdk, "stop")
    /\ UNCHANGED registries

\* Session stopped and room disconnected: all three registries forget it.
StopSucceeds ==
    /\ At("stop", "stop")
    /\ ~cmd.err
    /\ ffmpeg' = Reaped(cmd.session)
    /\ connected' = IF cmd.session \in gone THEN connected ELSE connected \ {cmd.session}
    /\ local' = NoRoom
    /\ ctrl' = NoRoom
    /\ sdk' = NoSession
    /\ Reply(TRUE)
    /\ UNCHANGED <<room, gone, stopped, closed, pump, lost, blocked>>

\* (Deviation: only a failing disconnect is reported.)
StopFailsHangingUp ==
    /\ At("stop", "stop")
    /\ cmd.session \notin gone
    /\ ffmpeg' = Reaped(cmd.session)
    /\ Reply(FALSE)
    /\ UNCHANGED <<registries, room, connected, gone, stopped, closed, pump, lost, blocked>>

\* Stopping the session failed, or disconnecting does: nothing is forgotten, so
\* the stop can be tried again.
StopFails ==
    /\ At("stop", "stop")
    /\ cmd.err \/ cmd.session \notin gone
    /\ ffmpeg' = Reaped(cmd.session)
    /\ Reply(FALSE)
    /\ UNCHANGED <<registries, room, connected, gone, stopped, closed, pump, lost, blocked>>

-----------------------------------------------------------------------------
(***************************************************************************)
(* The frame pump of a session: it fails, unpublishes its track, closes    *)
(* the frame source, disconnects the room. It does not touch a registry.   *)
(***************************************************************************)

\* ffmpeg is gone, sends no frame for frame_stall_timeout, or a frame cannot be
\* captured.
PumpFails(s) ==
    /\ blocked = NoSession
    /\ pump[s] = "running"
    /\ pump' = [pump EXCEPT ![s] = "failing"]
    /\ stopped' = stopped \union {s}
    /\ UNCHANGED <<registries, room, connected, gone, closed, ffmpeg, lost, blocked, cmd, answer>>

\* The video source is closed, then the frame source ...
PumpCloses(s) ==
    /\ blocked = NoSession
    /\ pump[s] = "failing"
    /\ pump' = [pump EXCEPT ![s] = "closing"]
    /\ CloseSource(s)
    /\ UNCHANGED <<registries, room, connected, gone, stopped, ffmpeg, lost, cmd, answer>>

\* ... unless closing the video source raises, which ends the task then and there.
PumpCrashes(s) ==
    /\ blocked = NoSession
    /\ pump[s] = "failing"
    /\ pump' = [pump EXCEPT ![s] = "crashed"]
    /\ UNCHANGED <<registries, room, connected, gone, stopped, closed, ffmpeg, lost, blocked,
                   cmd, answer>>

PumpReaps(s) ==
    /\ blocked = NoSession
    /\ pump[s] = "closing"
    /\ pump' = [pump EXCEPT ![s] = "leaving"]
    /\ ffmpeg' = Reaped(s)
    /\ UNCHANGED <<registries, room, connected, gone, stopped, closed, lost, blocked, cmd, answer>>

PumpLeaves(s) ==
    /\ blocked = NoSession
    /\ pump[s] = "leaving"
    /\ pump' = [pump EXCEPT ![s] = "ended"]
    /\ HangUp(s)
    /\ gone' = gone \union {s}
    /\ UNCHANGED <<registries, room, stopped, closed, ffmpeg, blocked, cmd, answer>>

-----------------------------------------------------------------------------
(***************************************************************************)
(* ffmpeg, the event loop and the process of the agent.                    *)
(***************************************************************************)

FfmpegChanges(s, from, to) ==
    /\ ffmpeg[s] \in from
    /\ ffmpeg' = [ffmpeg EXCEPT ![s] = to]
    /\ UNCHANGED <<registries, room, connected, gone, stopped, closed, pump, lost, blocked,
                   cmd, answer>>

FfmpegStalls(s) == FfmpegChanges(s, {"streaming"}, "stalled")
FfmpegResumes(s) == FfmpegChanges(s, {"stalled"}, "streaming")
FfmpegExits(s) == FfmpegChanges(s, Running \union {"orphaned"}, "exited")

\* stdout.close() returns once the reading thread got its data or an end of file.
LoopResumes ==
    /\ blocked # NoSession
    /\ ffmpeg[blocked] # "stalled"
    /\ blocked' = NoSession
    /\ UNCHANGED <<registries, room, connected, gone, stopped, closed, pump, ffmpeg, lost,
                   cmd, answer>>

\* The agent's process ends and is started again: the registries are in memory,
\* connections and child processes end with it.
Restart ==
    /\ local' = NoRoom
    /\ ctrl' = NoRoom
    /\ sdk' = NoSession
    /\ connected' = {}
    /\ lost' = {}
    /\ pump' = [s \in Sessions |-> IF pump[s] = "none" THEN "none" ELSE "ended"]
    /\ ffmpeg' = [s \in Sessions |-> IF ffmpeg[s] = "none" THEN "none" ELSE "exited"]
    /\ blocked' = NoSession
    /\ cmd' = NoCommand
    /\ answer' = NoAnswer
    /\ UNCHANGED <<room, gone, stopped, closed>>

-----------------------------------------------------------------------------
StartSteps ==
    \/ StartAlreadyLive \/ StartRefused \/ StartReplaces \/ StartReplaced
    \/ StartHalfReplaced \/ StartDropped \/ StartOpens
    \/ ConnectFails \/ FirstFrame \/ Publishes \/ PublishFails \/ StartFails
    \/ \E s \in Sessions : Connects(s)

StopSteps == StopUnknown \/ StopMismatch \/ StopBegins \/ StopSucceeds \/ StopFails

PumpSteps(s) == PumpCloses(s) \/ PumpCrashes(s) \/ PumpReaps(s) \/ PumpLeaves(s)

Next ==
    \/ \E op \in {"start", "stop"}, r \in Rooms : Receive(op, r)
    \/ StartSteps
    \/ StopSteps
    \/ \E s \in Sessions : PumpFails(s) \/ PumpSteps(s)
    \/ \E s \in Sessions : FfmpegStalls(s) \/ FfmpegResumes(s) \/ FfmpegExits(s)
    \/ LoopResumes
    \/ Restart

Spec == Init /\ [][Next]_vars

(***************************************************************************)
(* The event loop goes on with what it can go on with, and a frame pump    *)
(* without frames gives up: at the end of the pipe when ffmpeg has exited, *)
(* after frame_stall_timeout (which the runtime always sets) when it has   *)
(* stalled. Nothing is assumed of ffmpeg.                                  *)
(***************************************************************************)
Fairness ==
    /\ WF_vars(StartSteps \/ StopSteps)
    /\ WF_vars(LoopResumes)
    /\ \A s \in Sessions :
         /\ WF_vars(PumpSteps(s))
         /\ WF_vars(ffmpeg[s] \in {"stalled", "exited"} /\ PumpFails(s))

FairSpec == Spec /\ Fairness

-----------------------------------------------------------------------------
(***************************************************************************)
(* Properties.                                                             *)
(***************************************************************************)

\* Every variable keeps to the values its attribute can have.
TypeOK ==
    /\ local \in Rooms \union {NoRoom}
    /\ ctrl \in Rooms \union {NoRoom}
    /\ sdk \in Sessions \union {NoSession}
    /\ room \in [Sessions -> Rooms \union {NoRoom}]
    /\ connected \subseteq Sessions
    /\ gone \subseteq Sessions
    /\ stopped \subseteq Sessions
    /\ closed \subseteq Sessions
    /\ pump \in [Sessions -> PumpStages]
    /\ ffmpeg \in [Sessions -> ProcessStates]
    /\ lost \subseteq Sessions
    /\ blocked \in Sessions \union {NoSession}
    /\ cmd \in Command \union {NoCommand}
    /\ answer \in Answer \union {NoAnswer}

\* The registries agree, also in the middle of a command and whatever failed in
\* the layers below: a camera the executor calls published is registered for
\* that room by the controller, and the controller's room is the room of the
\* publisher's session. The publisher alone may hold a session, but only while
\* a start is stopping that very session for the second time, and a session
\* that is stopped is never taken for a live one
\* (CommandExecutor, LiveKitMediaController, LiveKitSdkPublisherClient keep
\* their registries separately and let go at different awaits).
RegistriesAgree ==
    /\ local # NoRoom => ctrl = local
    /\ ctrl # NoRoom => sdk # NoSession /\ room[sdk] = ctrl
    /\ (sdk # NoSession /\ ctrl = NoRoom) =>
          /\ sdk \in stopped
          /\ cmd # NoCommand /\ cmd.stage = "drop"
          /\ cmd.session = sdk /\ cmd.room = room[sdk]

\* Nothing that works is forgotten: a connected session is the registered one,
\* the one a start is still opening, or one whose disconnect failed; an ffmpeg
\* that somebody is still to close belongs to one of the first two; and only the
\* registered session has a frame task that is not over (start_publish and
\* stop_publish of the publisher, _pump_frames).
Opening == IF cmd # NoCommand /\ cmd.stage \in {"first", "track", "fail"} THEN {cmd.session} ELSE {}

NothingForgotten ==
    /\ connected \subseteq {sdk} \union Opening \union lost
    /\ \A s \in Sessions :
         /\ ffmpeg[s] \in Running => s \in {sdk} \union Opening
         /\ pump[s] \in {"running", "failing", "closing", "leaving"} => s = sdk

\* A start that is accepted leaves the camera watched over in the room it names:
\* all registries know it, the room is connected, and a frame task reads its
\* frames that is neither over nor cleaning up, although the pump of an earlier
\* session may have been in the middle of failing. It does not promise frames:
\* ffmpeg may have stalled or exited since the first one, and it is for the
\* frame task to find out (_execute_start_publish, start_publish of controller
\* and publisher).
AcceptedStartIsWatched ==
    [][\A r \in Rooms :
          (cmd # NoCommand /\ answer' = [op |-> "start", room |-> r, accepted |-> TRUE]) =>
              local' = r /\ Healthy(r)' /\ sdk' \in connected']_vars

\* Every command gets its answer once no ffmpeg is stalled any more: whatever
\* fails on the way, no path waits for a step that nobody takes (execute,
\* the safe_ helpers; the supervisor sends nothing more until it has the answer).
CommandsAnswered ==
    <>[](\A s \in Sessions : ffmpeg[s] # "stalled") =>
        [](cmd # NoCommand => <>(cmd = NoCommand))

(***************************************************************************)
(* What the documents and tests say and the code does not do.              *)
(***************************************************************************)

\* docs/planning/cctv-core-functionality-features.md: the gateway stops
\* streaming; so after an accepted stop the camera is not published any more.
StopMeansStopped ==
    (answer.op = "stop" /\ answer.accepted) => connected \subseteq lost
=============================================================================
