---------------------------- MODULE RoomPresence ----------------------------
(***************************************************************************)
(* Who is in the LiveKit rooms, composed with what administrators edit     *)
(* meanwhile: viewers come with tokens, a gateway is told to publish, a    *)
(* room that nobody is left in asks for a stop, which follows a grace      *)
(* period later. Each step looks up camera and gateway anew, as they are   *)
(* by then.                                                                *)
(*                                                                         *)
(* Races inside a row of camera_publish_states are in PublishState, those  *)
(* of the command queue in CommandQueue, those inside the agent in         *)
(* EdgeAgent: here the handlers of tokens and webhooks are one step each,  *)
(* the maintenance scheduler runs, and events of LiveKit and orders to the *)
(* agents are delivered in any order and possibly never.                   *)
(***************************************************************************)
EXTENDS Administration

CONSTANTS
    NoGateway,
    MaxViews,       \* bound: tokens asked for
    MaxRequests     \* bound: tokens asked for and edits begun

ASSUME RoomAssumption == NoGateway \notin Gateways /\ MaxViews \in Nat

VARIABLES
    token,          \* viewer tokens; that they expire changes nothing here and is left out
    views,          \* tokens asked for so far
    viewer,         \* viewers in rooms (external)
    publisher,      \* sessions the agents hold for published
    present,        \* those of them LiveKit has in their rooms (external)
    open,           \* rooms that LiveKit has not closed yet (external)
    came,           \* rooms with a participant_joined under way
    left,           \* participant_left under way, of those that left one or nobody behind
    finished,       \* rooms with a room_finished under way
    pub,            \* pub[c]: its row of camera_publish_states
    order           \* commands for the agents that are under way

livekitVars == <<viewer, present, open, came, left, finished>>
roomVars == <<token, views, publisher, livekitVars, pub, order>>
vars == <<adminVars, roomVars>>

View == [user : Users, camera : Cameras, room : Rooms]
Session == [gateway : Gateways, camera : Cameras, room : Rooms]
Departure == [room : Rooms, count : 0..1]
NoState == [status |-> "idle", gateway |-> NoGateway, room |-> FirstRoom]
State == [status : {"idle", "live", "pending"}, gateway : Gateways \union {NoGateway},
          room : Rooms]
Order == [kind : {"start", "stop"}, session : Session]

Init ==
    /\ AdminInit
    /\ token = {} /\ views = 0 /\ viewer = {} /\ publisher = {} /\ present = {}
    /\ open = {} /\ came = {} /\ left = {} /\ finished = {}
    /\ pub = [c \in Cameras |-> NoState]
    /\ order = {}

Watched(r) == \E v \in viewer : v.room = r
Occupied(r) == Watched(r) \/ \E s \in present : s.room = r
To(g, c, r) == [gateway |-> g, camera |-> c, room |-> r]

\* _assigned_enabled_gateway: enabled, and the latest that was assigned.
Serving(c) == {g \in Gateways : On(g) /\ link[<<g, c>>].active}
Latest(c, gateways, rows) ==
    CHOOSE g \in gateways : \A f \in gateways : rows[<<f, c>>].at <= rows[<<g, c>>].at
Assigned(c) == IF Serving(c) = {} THEN NoGateway ELSE Latest(c, Serving(c), link)

\* _camera_for_room.
CamerasOf(r) == {c \in Cameras : On(c) /\ camera[c].room = r}

-----------------------------------------------------------------------------
(***************************************************************************)
(* LiveKit.                                                                *)
(***************************************************************************)
Enters(viewers, sessions) ==
    LET rooms == {x.room : x \in viewers \union sessions} IN
    /\ viewer' = viewer \union viewers /\ present' = present \union sessions
    /\ open' = open \union rooms /\ came' = came \union rooms
    /\ UNCHANGED <<left, finished>>

\* participant_count counts a gateway, whose token is not hidden, like a viewer. Of
\* departures that leave two or more behind nothing follows: they are left out.
Departs(viewers, sessions) ==
    LET others(r) == {x \in (viewer \ viewers) \union (present \ sessions) : x.room = r}
        rooms == {x.room : x \in viewers \union sessions}
    IN /\ viewer' = viewer \ viewers /\ present' = present \ sessions
       /\ left' = left
            \union {[room |-> r, count |-> 0] : r \in {q \in rooms : others(q) = {}}}
            \union {[room |-> r, count |-> 1] : r \in {q \in rooms : \E x \in others(q) : others(q) = {x}}}
       /\ UNCHANGED <<open, came, finished>>

Join ==
    /\ \E t \in token \ viewer : Enters({t}, {})
    /\ UNCHANGED <<adminVars, token, views, publisher, pub, order>>

Leave ==
    /\ \E v \in viewer : Departs({v}, {})
    /\ UNCHANGED <<adminVars, token, views, publisher, pub, order>>

\* LiveKit closes a room that has been empty for a while.
RoomFinishes(r) ==
    /\ r \in open /\ ~Occupied(r)
    /\ open' = open \ {r} /\ finished' = finished \union {r}
    /\ UNCHANGED <<adminVars, token, views, publisher, viewer, present, came, left, pub, order>>

-----------------------------------------------------------------------------
(***************************************************************************)
(* Tokens.                                                                 *)
(***************************************************************************)
Asks == views < MaxViews /\ begun + views < MaxRequests /\ views' = views + 1

Live(c, g, r) == [pub EXCEPT ![c] = [status |-> "live", gateway |-> g, room |-> r]]

\* get_camera_view_token: a pending stop is cancelled and the gateway told to start.
IssueToken(u, c) ==
    /\ Asks /\ On(c) /\ On(<<u, c>>)
    /\ LET r == camera[c].room
           g == Assigned(c)
       IN /\ token' = token \union {[user |-> u, camera |-> c, room |-> r]}
          /\ IF g = NoGateway THEN UNCHANGED <<pub, order>>
             ELSE /\ pub' = Live(c, g, r)
                  /\ order' = order \union {[kind |-> "start", session |-> To(g, c, r)]}
    /\ UNCHANGED <<adminVars, publisher, livekitVars>>

\* It fails after the grant of the gateway's token committed the row.
IssueFails(u, c) ==
    /\ Asks /\ On(c) /\ On(<<u, c>>) /\ Assigned(c) # NoGateway
    /\ pub' = Live(c, Assigned(c), camera[c].room)
    /\ UNCHANGED <<adminVars, token, publisher, livekitVars, order>>

-----------------------------------------------------------------------------
(***************************************************************************)
(* Webhooks. They act for the camera that has the room by now and for the  *)
(* gateway that serves it; without either they change nothing.             *)
(***************************************************************************)
Concerns(r, c) == c \in CamerasOf(r) /\ Assigned(c) # NoGateway

\* participant_joined: a pending stop is cancelled, an idle camera started; the
\* start is missing when the handler fails after the grant committed the row.
HandleJoined(r) ==
    /\ r \in came /\ came' = came \ {r}
    /\ \E c \in Cameras :
         /\ Concerns(r, c)
         /\ pub' = Live(c, Assigned(c), r)
         /\ \/ UNCHANGED order
            \/ /\ pub[c].status = "idle"
               /\ order' = order \union {[kind |-> "start", session |-> To(Assigned(c), c, r)]}
    /\ UNCHANGED <<adminVars, token, views, publisher, viewer, present, open, left, finished>>

\* (Deviation: the one who is left is taken for the gateway.)
AsksToStopEarly(e) == e.count <= 1

\* _publish_command_kind: participant_count == 0.
AsksToStop(e) == e.count = 0

\* participant_left of the last participant: the stop is scheduled.
HandleLeft(e) ==
    /\ e \in left /\ left' = left \ {e}
    /\ IF AsksToStop(e)
       THEN \E c \in Cameras :
              /\ Concerns(e.room, c)
              /\ pub' = [pub EXCEPT ![c] = [status |-> "pending", gateway |-> Assigned(c),
                                            room |-> e.room]]
       ELSE UNCHANGED pub
    /\ UNCHANGED <<adminVars, token, views, publisher, viewer, present, open, came, finished, order>>

\* room_finished: the stop is ordered at once.
HandleFinished(r) ==
    /\ r \in finished /\ finished' = finished \ {r}
    /\ \E c \in Cameras :
         /\ Concerns(r, c)
         /\ pub' = [pub EXCEPT ![c] = [status |-> "idle", gateway |-> Assigned(c), room |-> r]]
         /\ order' = order \union {[kind |-> "stop", session |-> To(Assigned(c), c, r)]}
    /\ UNCHANGED <<adminVars, token, views, publisher, viewer, present, open, came, left>>

\* A webhook that concerns no camera; or it is refused (stale, unsigned), or fails
\* and is rolled back until LiveKit gives up.
MissWebhook ==
    /\ \/ \E r \in came : came' = came \ {r} /\ UNCHANGED <<left, finished>>
       \/ \E e \in left : left' = left \ {e} /\ UNCHANGED <<came, finished>>
       \/ \E r \in finished : finished' = finished \ {r} /\ UNCHANGED <<came, left>>
    /\ UNCHANGED <<adminVars, token, views, publisher, viewer, present, open, pub, order>>

-----------------------------------------------------------------------------
(***************************************************************************)
(* Maintenance.                                                            *)
(***************************************************************************)
\* (Deviation: a status the column does not have.)
MaintainOdd(c) ==
    /\ pub[c].status = "pending"
    /\ pub' = [pub EXCEPT ![c].status = "stopped"]
    /\ UNCHANGED <<adminVars, token, views, publisher, livekitVars, order>>

\* enqueue_due_publish_stops: nothing is sent for a retired camera or to a
\* gateway that is disabled or no longer assigned.
Maintain(c) ==
    /\ pub[c].status = "pending"
    /\ pub' = [pub EXCEPT ![c].status = "idle"]
    /\ order' = IF On(c) /\ pub[c].gateway \in Serving(c)
                THEN order \union {[kind |-> "stop",
                                    session |-> To(pub[c].gateway, c, pub[c].room)]}
                ELSE order
    /\ UNCHANGED <<adminVars, token, views, publisher, livekitVars>>

-----------------------------------------------------------------------------
(***************************************************************************)
(* Agents. A disabled gateway gets no orders.                              *)
(***************************************************************************)
Carries(o) == o \in order /\ order' = order \ {o} /\ On(o.session.gateway)

\* The camera is not published, or in this very room by a session that broke.
Start(o) ==
    /\ Carries(o) /\ o.kind = "start" /\ o.session \notin present
    /\ \A s \in publisher :
         s.gateway = o.session.gateway /\ s.camera = o.session.camera => s = o.session
    /\ publisher' = publisher \union {o.session} /\ Enters({}, {o.session})
    /\ UNCHANGED <<adminVars, token, views, pub>>

Stop(o) ==
    /\ Carries(o) /\ o.kind = "stop" /\ o.session \in publisher
    /\ publisher' = publisher \ {o.session}
    /\ Departs({}, {o.session} \intersect present)
    /\ UNCHANGED <<adminVars, token, views, pub>>

\* An order expires, fails or does nothing: a start of a camera that is published,
\* here or elsewhere; a stop of one that is not, or not for all the agent knows. A
\* session that was removed from its room may look published, too.
Lose(o) ==
    /\ o \in order /\ order' = order \ {o}
    /\ UNCHANGED <<adminVars, token, views, publisher, livekitVars, pub>>

\* The frame pump gives up and disconnects; the session is still held.
Breaks(s) ==
    /\ s \in present /\ Departs({}, {s})
    /\ UNCHANGED <<adminVars, token, views, publisher, pub, order>>

\* The agent ends.
AgentEnds(g) ==
    /\ \E s \in publisher : s.gateway = g
    /\ publisher' = {s \in publisher : s.gateway # g}
    /\ Departs({}, {s \in present : s.gateway = g})
    /\ UNCHANGED <<adminVars, token, views, pub, order>>

-----------------------------------------------------------------------------
(***************************************************************************)
(* Administrators.                                                         *)
(***************************************************************************)
\* remove_room_viewers, from the room the camera had when it was read; what
\* LiveKit fails to remove stays.
RemoveRoomViewers(h) ==
    /\ job[h].on \in Cameras
    /\ \E gone \in SUBSET {v \in viewer : v.room = job[h].room} : Departs(gone, {})

\* remove_gateway_participants, from the rooms its cameras have now. The agent goes
\* on holding the session.
RemoveGatewayParticipants(h) ==
    LET g == job[h].on
        assigned == {camera[c].room : c \in {d \in Cameras : On(d) /\ link[<<g, d>>].active}}
    IN
    /\ g \in Gateways
    /\ \E gone \in SUBSET {s \in present : s.gateway = g /\ s.room \in assigned} :
         Departs({}, gone)

Remove(h) ==
    /\ Flush(h)
    /\ RemoveRoomViewers(h) \/ RemoveGatewayParticipants(h)
    /\ UNCHANGED <<token, views, publisher, pub, order>>

AdminStep(h) ==
    /\ Edit(h) \/ Commit(h)
    /\ begun' + views <= MaxRequests
    /\ UNCHANGED roomVars

Next ==
    \/ Join \/ Leave \/ MissWebhook
    \/ \E u \in Users, c \in Cameras : IssueToken(u, c) \/ IssueFails(u, c)
    \/ \E r \in Rooms : RoomFinishes(r) \/ HandleJoined(r) \/ HandleFinished(r)
    \/ \E e \in left : HandleLeft(e)
    \/ \E c \in Cameras : Maintain(c)
    \/ \E o \in order : Start(o) \/ Stop(o) \/ Lose(o)
    \/ \E s \in present : Breaks(s)
    \/ \E g \in Gateways : AgentEnds(g)
    \/ \E h \in Handlers : AdminStep(h) \/ Remove(h)

Spec == Init /\ [][Next]_vars

-----------------------------------------------------------------------------
TypeOK ==
    /\ AdminTypeOK
    /\ token \subseteq View /\ viewer \subseteq View /\ views \in 0..MaxViews
    /\ publisher \subseteq Session /\ present \subseteq publisher
    /\ open \subseteq Rooms /\ came \subseteq Rooms /\ finished \subseteq Rooms
    /\ left \subseteq Departure
    /\ pub \in [Cameras -> State]
    /\ order \subseteq Order

\* A stop for the room is on its way: as a webhook, a grace period or a command.
StopUnderway(r) ==
    \/ r \in finished
    \/ \E e \in left : e.room = r /\ AsksToStop(e)
    \/ \E c \in Cameras : pub[c].status = "pending" /\ pub[c].room = r
    \/ \E o \in order : o.kind = "stop" /\ o.session.room = r

(***************************************************************************)
(* While a viewer is in a room, no stop for it sets out, whoever leaves    *)
(* and whatever is renamed, reassigned, disabled or retired meanwhile: a   *)
(* stop that cuts off a viewer was under way before the viewer came. That  *)
(* a gateway leaves last does not tell that no viewer is there, nor does a *)
(* room that once was empty.                                               *)
(***************************************************************************)
WatchedIsNotStopped ==
    [][\A r \in Rooms : Watched(r) /\ Watched(r)' /\ StopUnderway(r)' => StopUnderway(r)]_vars
=============================================================================
