--------------------------- MODULE Administration ---------------------------
(***************************************************************************)
(* What administrators switch and edit: gateways, cameras, roles, who may  *)
(* view a camera, which gateway serves it, and the media plane in use.     *)
(* Every edit reads what there is, decides, and writes; the change and its *)
(* audit event are committed together. Two administrators may decide at    *)
(* the same time (READ COMMITTED, no row locks but those of an update).    *)
(***************************************************************************)
EXTENDS Naturals, FiniteSets

CONSTANTS
    Users, Gateways, Cameras,
    Rooms,          \* names a LiveKit room can have
    Handlers,       \* requests being served at the same time (a bound)
    MediaPlane,     \* the key media_plane_mode of system_config
    MaxEdits,       \* bound: edits begun
    FirstUser, FirstGateway, FirstCamera, FirstRoom  \* what was set up before

ASSUME AdministrationAssumption ==
    /\ MaxEdits \in Nat
    /\ FirstUser \in Users /\ FirstGateway \in Gateways
    /\ FirstCamera \in Cameras /\ FirstRoom \in Rooms

VARIABLES
    gateway,        \* gateway[g]: status of its row
    camera,         \* camera[c]: status and LiveKit room of its row
    link,           \* link[x]: the newest row of a permission or an assignment
    role,           \* users with the role that is edited
    plane,          \* value of MediaPlane; "none" while there is no row
    job,            \* job[h]: what handler h has decided
    begun,          \* edits begun; they number them
    log,            \* log[x]: what the last audit event about x says
    stale           \* pairs whose last event another edit overtook (history)

recordVars == <<gateway, camera, link, role, plane>>
adminVars == <<recordVars, job, begun, log, stale>>

Permissions == Users \X Cameras
Assignments == Gateways \X Cameras
Pairs == Permissions \union Assignments
Things == Gateways \union Cameras \union Users \union Pairs \union {MediaPlane}

\* Rows of different tables are different things.
ASSUME KindsAssumption ==
    /\ Users \intersect Gateways = {} /\ Users \intersect Cameras = {}
    /\ Gateways \intersect Cameras = {}
    /\ Pairs \intersect (Users \union Gateways \union Cameras) = {}
    /\ MediaPlane \notin Users \union Gateways \union Cameras \union Pairs

\* Rows of a pair are told apart by granted_at: the number of the edit.
Row == [at : 0..MaxEdits, active : BOOLEAN]
Idle == [stage |-> "idle"]
Job == [stage : {"decided", "removed"}, does : {"switch", "update"},
        on : Things, want : BOOLEAN, room : Rooms, at : 0..MaxEdits, saw : 0..MaxEdits,
        stale : BOOLEAN]

SetUp == {<<FirstUser, FirstCamera>>, <<FirstGateway, FirstCamera>>}

AdminInit ==
    /\ gateway = [g \in Gateways |-> IF g = FirstGateway THEN "enabled" ELSE "none"]
    /\ camera = [c \in Cameras |-> [status |-> IF c = FirstCamera THEN "active" ELSE "none",
                                    room |-> FirstRoom]]
    /\ link = [x \in Pairs |-> [at |-> 0, active |-> x \in SetUp]]
    /\ role = {} /\ plane = "none"
    /\ job = [h \in Handlers |-> Idle] /\ begun = 0
    /\ log = [x \in Things |-> x \in SetUp \union {FirstGateway, FirstCamera}]
    /\ stale = {}

On(x) ==
    \/ x \in Gateways /\ gateway[x] = "enabled"
    \/ x \in Cameras /\ camera[x].status = "active"
    \/ x \in role
    \/ x = MediaPlane /\ plane = "fallback"
    \/ x \in Pairs /\ link[x].active

Exists(x) ==
    \/ x \in Gateways /\ gateway[x] # "none"
    \/ x \in Cameras /\ camera[x].status # "none"
    \/ x \in Users

\* livekit_room_name is unique; retired cameras keep theirs.
Taken(r) == \E c \in Cameras : camera[c].status # "none" /\ camera[c].room = r

-----------------------------------------------------------------------------
(***************************************************************************)
(* Deciding: 404 and 409 are not shown, they change nothing.               *)
(***************************************************************************)
At(h, stage) == job[h] # Idle /\ job[h].stage = stage
Works(h, x) == job[h] # Idle /\ job[h].on = x

\* The row of a pair that is read; of the media plane, whether there is one.
Seen(x) ==
    IF x \in Pairs THEN link[x].at
    ELSE IF x = MediaPlane /\ plane # "none" THEN 1 ELSE 0

Decide(h, does, x, want, room) ==
    /\ begun' = begun + 1
    /\ job' = [job EXCEPT ![h] =
                 [stage |-> "decided", does |-> does, on |-> x, want |-> want, room |-> room,
                  at |-> IF x \in Pairs THEN begun + 1 ELSE 0, saw |-> Seen(x),
                  stale |-> FALSE]]
    /\ UNCHANGED <<recordVars, log, stale>>

\* create_gateway, create_camera: the row gets an id nobody else knows.
Create(h, x, room) ==
    /\ x \in Gateways \union Cameras /\ ~Exists(x) /\ \A g \in Handlers : ~Works(g, x)
    /\ IF x \in Cameras THEN ~Taken(room) ELSE room = FirstRoom
    /\ Decide(h, "switch", x, TRUE, room)

\* enable_gateway, disable_gateway, enable_camera, disable_camera, admin_user_role.
Switch(h, x, want) ==
    /\ x \notin Pairs /\ Exists(x) /\ On(x) # want
    /\ Decide(h, "switch", x, want, IF x \in Cameras /\ ~want THEN camera[x].room ELSE FirstRoom)

\* admin_livekit_fallback: the mode is stored; nothing in the program asks for it.
SwitchPlane(h, want) ==
    /\ On(MediaPlane) # want
    /\ Decide(h, "switch", MediaPlane, want, FirstRoom)

\* manage_camera_acl, manage_gateway_camera_assignment: only the latter looks
\* whether the camera is retired.
SwitchPair(h, x, want) ==
    /\ x \in Pairs /\ Exists(x[1]) /\ Exists(x[2])
    /\ x \in Assignments => On(x[2])
    /\ On(x) # want
    /\ Decide(h, "switch", x, want, FirstRoom)

\* update_camera; display name and source type are left out.
Rename(h, c, room) ==
    /\ c \in Cameras /\ Exists(c) /\ ~Taken(room)
    /\ Decide(h, "update", c, TRUE, room)

\* update_gateway, rotate_gateway_credential: what they write - name, certificate,
\* credential - is left out. The ORM names no other column in the update, so a
\* gateway switched off in between stays off.
UpdateGateway(h, g) ==
    /\ g \in Gateways /\ Exists(g)
    /\ Decide(h, "update", g, TRUE, FirstRoom)

RotateCredential(h, g) ==
    /\ g \in Gateways /\ On(g)
    /\ Decide(h, "update", g, TRUE, FirstRoom)

-----------------------------------------------------------------------------
(***************************************************************************)
(* Writing.                                                                *)
(***************************************************************************)
\* Before participants are removed from rooms the update is flushed: until the
\* commit the row is locked.
Locked(x) == \E h \in Handlers : Works(h, x) /\ At(h, "removed")

Removes(h) ==
    /\ job[h].does = "switch" /\ ~job[h].want
    /\ job[h].on \in Gateways \union Cameras

Flush(h) ==
    /\ At(h, "decided") /\ Removes(h) /\ ~Locked(job[h].on)
    /\ job' = [job EXCEPT ![h].stage = "removed"]
    /\ UNCHANGED <<recordVars, begun, log, stale>>

\* A unique index or key is in the way: an active row of the pair, a role
\* assigned, a room name, or the media plane's first row.
Conflicts(h) ==
    \/ job[h].does = "switch" /\ job[h].want /\ job[h].on \in Pairs \union Users /\ On(job[h].on)
    \/ /\ job[h].on \in Cameras /\ (job[h].does = "update" \/ ~Exists(job[h].on))
       /\ Taken(job[h].room)
    \/ job[h].on = MediaPlane /\ job[h].saw = 0 /\ plane # "none"

\* Only the row that was read is revoked.
PairRow(h) ==
    IF job[h].want THEN [at |-> job[h].at, active |-> TRUE]
    ELSE IF link[job[h].on].at = job[h].saw THEN [at |-> job[h].saw, active |-> FALSE]
    ELSE link[job[h].on]

WriteGateway(h) ==
    /\ job[h].on \in Gateways
    /\ gateway' = [gateway EXCEPT ![job[h].on] =
                     IF job[h].does = "update" THEN @
                     ELSE IF job[h].want THEN "enabled" ELSE "disabled"]
    /\ UNCHANGED <<camera, link, role, plane>>

WriteCamera(h) ==
    /\ job[h].on \in Cameras
    /\ LET c == job[h].on IN
       camera' = [camera EXCEPT ![c] =
                    [status |-> IF job[h].does = "update" THEN camera[c].status
                                ELSE IF job[h].want THEN "active" ELSE "retired",
                     room |-> IF job[h].does = "update" \/ ~Exists(c)
                              THEN job[h].room ELSE camera[c].room]]
    /\ UNCHANGED <<gateway, link, role, plane>>

WriteRole(h) ==
    /\ job[h].on \in Users
    /\ role' = IF job[h].want THEN role \union {job[h].on} ELSE role \ {job[h].on}
    /\ UNCHANGED <<gateway, camera, link, plane>>

WritePair(h) ==
    /\ job[h].on \in Pairs
    /\ link' = [link EXCEPT ![job[h].on] = PairRow(h)]
    /\ UNCHANGED <<gateway, camera, role, plane>>

WritePlane(h) ==
    /\ job[h].on = MediaPlane
    /\ plane' = IF job[h].want THEN "fallback" ELSE "cloud"
    /\ UNCHANGED <<gateway, camera, link, role>>

\* The audit event is committed with the change. Who decided on the same pair
\* before and writes after it does so on old grounds.
Audited(h) ==
    LET x == job[h].on IN
    /\ log' = IF job[h].does = "switch" THEN [log EXCEPT ![x] = job[h].want] ELSE log
    /\ stale' = IF job[h].stale THEN stale \union {x} ELSE stale \ {x}
    /\ job' = [g \in Handlers |->
                 IF g = h THEN Idle
                 ELSE IF x \in Pairs /\ Works(g, x) THEN [job[g] EXCEPT !.stale = TRUE]
                 ELSE job[g]]
    /\ UNCHANGED begun

Ready(h) == IF At(h, "decided") THEN ~Removes(h) /\ ~Locked(job[h].on) ELSE At(h, "removed")

\* (Deviation: the event is recorded, the change rolled back.)
CommitEventOnly(h) ==
    /\ Ready(h) /\ ~Conflicts(h)
    /\ Audited(h) /\ UNCHANGED recordVars

Commit(h) ==
    /\ Ready(h) /\ ~Conflicts(h)
    /\ WriteGateway(h) \/ WriteCamera(h) \/ WriteRole(h) \/ WritePair(h) \/ WritePlane(h)
    /\ Audited(h)

\* The audit event or a unique index fails and takes the change along, or the
\* process ends.
Fail(h) ==
    /\ job[h] # Idle /\ job' = [job EXCEPT ![h] = Idle]
    /\ UNCHANGED <<recordVars, begun, log, stale>>

Edit(h) ==
    \/ /\ job[h] = Idle /\ begun < MaxEdits
       /\ \/ \E x \in Gateways \union Cameras, r \in Rooms : Create(h, x, r)
          \/ \E x \in Things, want \in BOOLEAN : Switch(h, x, want) \/ SwitchPair(h, x, want)
          \/ \E want \in BOOLEAN : SwitchPlane(h, want)
          \/ \E c \in Cameras, r \in Rooms : Rename(h, c, r)
          \/ \E g \in Gateways : UpdateGateway(h, g) \/ RotateCredential(h, g)
    \/ Fail(h)

-----------------------------------------------------------------------------
AdminTypeOK ==
    /\ gateway \in [Gateways -> {"none", "enabled", "disabled"}]
    /\ camera \in [Cameras -> [status : {"none", "active", "retired"}, room : Rooms]]
    /\ link \in [Pairs -> Row]
    /\ role \subseteq Users /\ plane \in {"none", "cloud", "fallback"}
    /\ job \in [Handlers -> Job \union {Idle}]
    /\ begun \in 0..MaxEdits
    /\ log \in [Things -> BOOLEAN]
    /\ stale \subseteq Pairs

(***************************************************************************)
(* The last audit event about a gateway, a camera, a role or a pair says   *)
(* how it is, however the edits of two administrators overlap. For a pair  *)
(* this fails only when the event is of a request that another overtook: a *)
(* late revocation hits the row it read, not the one granted since.        *)
(***************************************************************************)
AuditAgrees ==
    \A x \in Things : (log[x] <=> On(x)) \/ x \in stale
=============================================================================
