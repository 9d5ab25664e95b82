------------------------- MODULE RoomPresenceProofs -------------------------
(***************************************************************************)
(* Proofs about RoomPresence and the edits of Administration, for any      *)
(* number of users, cameras, gateways, rooms, administrators and views.    *)
(*                                                                         *)
(* Edits: an edit of a pair that nobody overtook still finds the row it    *)
(* read. Rooms: whatever brings a stop on its way towards a room is        *)
(* brought by something that was under way already, or by LiveKit saying   *)
(* that nobody is there.                                                   *)
(***************************************************************************)
EXTENDS RoomPresence, WellFoundedInduction, NaturalsInduction, TLAPS

USE AdministrationAssumption, KindsAssumption DEF Permissions, Assignments, Pairs, Things

\* What handler h has decided: only a pair can be overtaken, only gateways and cameras
\* are updated, and a pair that was not overtaken has the row that was read.
Decided(h) ==
    job[h] # Idle =>
        /\ job[h].stale => job[h].on \in Pairs
        /\ job[h].does = "update" => job[h].on \in Gateways \union Cameras
        /\ job[h].on \in Pairs /\ ~job[h].stale => link[job[h].on].at = job[h].saw

EditsOK == \A h \in Handlers : Decided(h)

AdminInv == AdminTypeOK /\ EditsOK /\ AuditAgrees
IInv == TypeOK /\ AdminInv

-----------------------------------------------------------------------------
(***************************************************************************)
(* Deciding and writing.                                                   *)
(***************************************************************************)
\* A thing is of one kind.
LEMMA Kinds ==
    ASSUME NEW x \in Things
    PROVE  /\ x \in Gateways => x \notin Cameras \union Users \union Pairs \union {MediaPlane}
           /\ x \in Cameras => x \notin Gateways \union Users \union Pairs \union {MediaPlane}
           /\ x \in Users => x \notin Gateways \union Cameras \union Pairs \union {MediaPlane}
           /\ x \in Pairs => x \notin Gateways \union Cameras \union Users \union {MediaPlane}
           /\ x = MediaPlane => x \notin Gateways \union Cameras \union Users \union Pairs
OBVIOUS

\* So it is on by the row of its kind, before a step
LEMMA OnIs ==
    ASSUME role \subseteq Users, NEW x \in Things
    PROVE  /\ x \in Gateways => (On(x) <=> gateway[x] = "enabled")
           /\ x \in Cameras => (On(x) <=> camera[x].status = "active")
           /\ x \in Users => (On(x) <=> x \in role)
           /\ x \in Pairs => (On(x) <=> link[x].active)
           /\ x = MediaPlane => (On(x) <=> plane = "fallback")
BY Kinds DEF On

\* and after it.
LEMMA OnIsThen ==
    ASSUME role' \subseteq Users, NEW x \in Things
    PROVE  /\ x \in Gateways => (On(x)' <=> gateway'[x] = "enabled")
           /\ x \in Cameras => (On(x)' <=> camera'[x].status = "active")
           /\ x \in Users => (On(x)' <=> x \in role')
           /\ x \in Pairs => (On(x)' <=> link'[x].active)
           /\ x = MediaPlane => (On(x)' <=> plane' = "fallback")
BY Kinds DEF On

\* What is read of a pair is the row it has.
LEMMA SeenType ==
    ASSUME AdminTypeOK, NEW x \in Things
    PROVE  Seen(x) \in 0..MaxEdits \union {1}
           /\ (x \in Pairs => Seen(x) = link[x].at /\ Seen(x) \in 0..MaxEdits)
BY DEF Seen, AdminTypeOK, Row

\* A decision leaves everything as it is but the handler's own job.
LEMMA DecideStep ==
    ASSUME AdminInv, NEW h \in Handlers, begun < MaxEdits,
           NEW does \in {"switch", "update"}, NEW x \in Things, NEW want \in BOOLEAN,
           NEW room \in Rooms, does = "update" => x \in Gateways \union Cameras,
           Decide(h, does, x, want, room)
    PROVE  AdminInv'
<1> DEFINE new == [stage |-> "decided", does |-> does, on |-> x, want |-> want, room |-> room,
                   at |-> IF x \in Pairs THEN begun + 1 ELSE 0, saw |-> Seen(x),
                   stale |-> FALSE]
<1>1. job' = [job EXCEPT ![h] = new] /\ begun' = begun + 1 /\ UNCHANGED <<recordVars, log, stale>>
    BY DEF Decide
<1>2. begun + 1 \in 0..MaxEdits /\ Seen(x) \in 0..MaxEdits
    BY SeenType DEF AdminInv, AdminTypeOK
<1>3. new \in Job
    BY <1>2 DEF Job
<1>4. AdminTypeOK'
    BY <1>1, <1>2, <1>3 DEF AdminInv, AdminTypeOK, recordVars
<1>5. job'[h] = new /\ \A g \in Handlers : g # h => job'[g] = job[g]
    BY <1>1 DEF AdminInv, AdminTypeOK
<1>6. EditsOK'
    <2>1. ASSUME NEW g \in Handlers, g # h PROVE Decided(g)'
        BY <1>1, <1>5, <2>1 DEF AdminInv, EditsOK, Decided, recordVars
    <2>2. Decided(h)'
        BY <1>1, <1>5, SeenType DEF AdminInv, Decided, recordVars
    <2> QED
        BY <2>1, <2>2 DEF EditsOK
<1>7. AuditAgrees'
    BY <1>1 DEF AdminInv, AuditAgrees, On, recordVars
<1> QED
    BY <1>4, <1>6, <1>7 DEF AdminInv

\* Every way to begin an edit is a decision of that kind.
LEMMA EditStep ==
    ASSUME AdminInv, NEW h \in Handlers, Edit(h)
    PROVE  AdminInv' /\ UNCHANGED recordVars
<1>1. CASE Fail(h)
    <2>1. job' = [job EXCEPT ![h] = Idle] /\ UNCHANGED <<recordVars, begun, log, stale>>
        BY <1>1 DEF Fail
    <2>2. job'[h] = Idle /\ \A g \in Handlers : g # h => job'[g] = job[g]
        BY <2>1 DEF AdminInv, AdminTypeOK
    <2>3. AdminTypeOK'
        BY <2>1 DEF AdminInv, AdminTypeOK, recordVars
    <2>4. EditsOK'
        BY <2>1, <2>2 DEF AdminInv, EditsOK, Decided, recordVars
    <2>5. AuditAgrees'
        BY <2>1 DEF AdminInv, AuditAgrees, On, recordVars
    <2> QED
        BY <2>1, <2>3, <2>4, <2>5 DEF AdminInv
<1>2. ASSUME begun < MaxEdits,
             NEW does \in {"switch", "update"}, NEW x \in Things, NEW want \in BOOLEAN,
             NEW room \in Rooms, does = "update" => x \in Gateways \union Cameras,
             Decide(h, does, x, want, room)
      PROVE  AdminInv' /\ UNCHANGED recordVars
    <2>1. AdminInv'
        BY <1>2, DecideStep
    <2>2. UNCHANGED recordVars
        BY <1>2 DEF Decide, recordVars
    <2> QED
        BY <2>1, <2>2
<1>3. ASSUME begun < MaxEdits, NEW x \in Gateways \union Cameras, NEW r \in Rooms, Create(h, x, r)
      PROVE  AdminInv' /\ UNCHANGED recordVars
    BY <1>2, <1>3 DEF Create
<1>4. ASSUME begun < MaxEdits, NEW x \in Things, NEW want \in BOOLEAN, Switch(h, x, want)
      PROVE  AdminInv' /\ UNCHANGED recordVars
    <2>1. (IF x \in Cameras /\ ~want THEN camera[x].room ELSE FirstRoom) \in Rooms
        BY DEF AdminInv, AdminTypeOK
    <2> QED
        BY <1>2, <1>4, <2>1 DEF Switch
<1>5. ASSUME begun < MaxEdits, NEW x \in Things, NEW want \in BOOLEAN,
             SwitchPair(h, x, want) \/ SwitchPlane(h, want)
      PROVE  AdminInv' /\ UNCHANGED recordVars
    BY <1>2, <1>5 DEF SwitchPair, SwitchPlane
<1>6. ASSUME begun < MaxEdits, NEW c \in Cameras, NEW r \in Rooms, Rename(h, c, r)
      PROVE  AdminInv' /\ UNCHANGED recordVars
    BY <1>2, <1>6 DEF Rename
<1>7. ASSUME begun < MaxEdits, NEW g \in Gateways, UpdateGateway(h, g) \/ RotateCredential(h, g)
      PROVE  AdminInv' /\ UNCHANGED recordVars
    BY <1>2, <1>7 DEF UpdateGateway, RotateCredential
<1> QED
    BY <1>1, <1>3, <1>4, <1>5, <1>6, <1>7 DEF Edit

\* A flush only moves the job.
LEMMA FlushStep ==
    ASSUME AdminInv, NEW h \in Handlers, Flush(h)
    PROVE  AdminInv' /\ UNCHANGED recordVars
<1>1. /\ job[h] # Idle /\ job' = [job EXCEPT ![h].stage = "removed"]
      /\ UNCHANGED <<recordVars, begun, log, stale>>
    BY DEF Flush, At
<1>2. job[h] \in Job
    BY <1>1 DEF AdminInv, AdminTypeOK
<1>3. [job[h] EXCEPT !.stage = "removed"] \in Job
    BY <1>2 DEF Job
<1>4. /\ job'[h] = [job[h] EXCEPT !.stage = "removed"]
      /\ \A g \in Handlers : g # h => job'[g] = job[g]
    BY <1>1 DEF AdminInv, AdminTypeOK
<1>5. AdminTypeOK'
    BY <1>1, <1>3 DEF AdminInv, AdminTypeOK, recordVars
<1>6. /\ job'[h].stale = job[h].stale /\ job'[h].on = job[h].on
      /\ job'[h].does = job[h].does /\ job'[h].saw = job[h].saw
    BY <1>2, <1>4 DEF Job
<1>7. EditsOK'
    BY <1>1, <1>4, <1>6 DEF AdminInv, EditsOK, Decided, recordVars
<1>8. AuditAgrees'
    BY <1>1 DEF AdminInv, AuditAgrees, On, recordVars
<1> QED
    BY <1>1, <1>5, <1>7, <1>8 DEF AdminInv

\* A commit of handler h: what it writes is of the kind its job is about.
LEMMA CommitWrites ==
    ASSUME AdminInv, NEW h \in Handlers, Commit(h)
    PROVE  /\ job[h] # Idle /\ job[h] \in Job /\ job[h].on \in Things
           /\ \/ job[h].on \in Gateways /\ WriteGateway(h)
              \/ job[h].on \in Cameras /\ WriteCamera(h)
              \/ job[h].on \in Users /\ WriteRole(h)
              \/ job[h].on \in Pairs /\ WritePair(h)
              \/ job[h].on = MediaPlane /\ WritePlane(h)
           /\ Audited(h) /\ ~Conflicts(h)
<1>1. job[h] # Idle
    BY DEF Commit, Ready, At
<1>2. job[h] \in Job
    BY <1>1 DEF AdminInv, AdminTypeOK
<1>3. job[h].on \in Things
    BY <1>2 DEF Job
<1>4. WriteGateway(h) \/ WriteCamera(h) \/ WriteRole(h) \/ WritePair(h) \/ WritePlane(h)
    BY DEF Commit
<1>5. /\ WriteGateway(h) => job[h].on \in Gateways
      /\ WriteCamera(h) => job[h].on \in Cameras
      /\ WriteRole(h) => job[h].on \in Users
      /\ WritePair(h) => job[h].on \in Pairs
      /\ WritePlane(h) => job[h].on = MediaPlane
    BY DEF WriteGateway, WriteCamera, WriteRole, WritePair, WritePlane
<1> QED
    BY <1>1, <1>2, <1>3, <1>4, <1>5 DEF Commit

\* The jobs after a commit: the handler's own is over, those on the same pair are overtaken.
LEMMA AuditedJobs ==
    ASSUME AdminInv, NEW h \in Handlers, Audited(h), NEW g \in Handlers
    PROVE  /\ job'[g] \in Job \union {Idle}
           /\ g = h => job'[g] = Idle
           /\ job'[g] # Idle =>
                /\ g # h /\ job[g] # Idle /\ job'[g].on = job[g].on
                /\ job'[g].does = job[g].does /\ job'[g].saw = job[g].saw
                /\ job'[g].stale <=> job[g].stale \/ (job[h].on \in Pairs /\ job[g].on = job[h].on)
<1>1. job[g] \in Job \union {Idle}
    BY DEF AdminInv, AdminTypeOK
<1>2. job'[g] = IF g = h THEN Idle
                ELSE IF job[h].on \in Pairs /\ Works(g, job[h].on)
                     THEN [job[g] EXCEPT !.stale = TRUE]
                ELSE job[g]
    BY DEF Audited
<1>3. CASE g # h /\ job[h].on \in Pairs /\ Works(g, job[h].on)
    <2>1. job[g] \in Job /\ job[g] # Idle /\ job[g].on = job[h].on
        BY <1>1, <1>3 DEF Works
    <2>2. job'[g] = [job[g] EXCEPT !.stale = TRUE]
        BY <1>2, <1>3
    <2>3. job'[g] \in Job
        BY <2>1, <2>2 DEF Job
    <2>4. /\ job'[g].on = job[g].on /\ job'[g].does = job[g].does /\ job'[g].saw = job[g].saw
          /\ job'[g].stale = TRUE
        BY <2>1, <2>2 DEF Job
    <2> QED
        BY <1>3, <2>1, <2>3, <2>4
<1>4. CASE ~(g # h /\ job[h].on \in Pairs /\ Works(g, job[h].on))
    <2>1. job'[g] = IF g = h THEN Idle ELSE job[g]
        BY <1>2, <1>4
    <2>2. job'[g] # Idle => job[g].stale \in BOOLEAN
        BY <1>1, <2>1 DEF Job
    <2>3. job'[g] # Idle => ~(job[h].on \in Pairs /\ job[g].on = job[h].on)
        BY <1>4, <2>1 DEF Works
    <2>4. job'[g] # Idle => g # h /\ job'[g] = job[g]
        BY <2>1
    <2>5. job'[g] # Idle =>
             (job'[g].stale <=> job[g].stale \/ (job[h].on \in Pairs /\ job[g].on = job[h].on))
        BY <2>3, <2>4, Zenon
    <2> QED
        BY <1>1, <2>1, <2>4, <2>5
<1> QED
    BY <1>3, <1>4

\* The row a switched pair has afterwards.
LEMMA PairRowType ==
    ASSUME AdminInv, NEW h \in Handlers, job[h] \in Job, job[h].on \in Pairs
    PROVE  /\ PairRow(h) \in Row
           /\ job[h].want => PairRow(h).active
           /\ ~job[h].want /\ link[job[h].on].at = job[h].saw => ~PairRow(h).active
BY DEF AdminInv, AdminTypeOK, PairRow, Row, Job

\* A commit writes rows of the types their columns have.
LEMMA CommitType ==
    ASSUME AdminInv, NEW h \in Handlers, Commit(h)
    PROVE  AdminTypeOK'
<1>1. /\ job[h] # Idle /\ job[h] \in Job /\ job[h].on \in Things /\ Audited(h)
    BY CommitWrites
<1>2. AdminTypeOK /\ Decided(h)
    BY DEF AdminInv, EditsOK
<1>3. job' \in [Handlers -> Job \union {Idle}]
    <2>1. \A g \in Handlers : job'[g] \in Job \union {Idle}
        BY <1>1, AuditedJobs
    <2>2. job' = [g \in Handlers |-> job'[g]]
        BY <1>1 DEF Audited
    <2> QED
        BY <2>1, <2>2
<1>4. log' \in [Things -> BOOLEAN] /\ stale' \subseteq Pairs /\ begun' = begun
    BY <1>1, <1>2 DEF Audited, AdminTypeOK, Decided, Job
<1>5. CASE job[h].on \in Gateways /\ WriteGateway(h)
    <2>1. gateway' \in [Gateways -> {"none", "enabled", "disabled"}]
        BY <1>2, <1>5 DEF WriteGateway, AdminTypeOK
    <2> QED
        BY <1>2, <1>3, <1>4, <1>5, <2>1 DEF WriteGateway, AdminTypeOK
<1>6. CASE job[h].on \in Cameras /\ WriteCamera(h)
    <2>1. camera' \in [Cameras -> [status : {"none", "active", "retired"}, room : Rooms]]
        BY <1>1, <1>2, <1>6 DEF WriteCamera, AdminTypeOK, Job
    <2> QED
        BY <1>2, <1>3, <1>4, <1>6, <2>1 DEF WriteCamera, AdminTypeOK
<1>7. CASE job[h].on \in Users /\ WriteRole(h)
    BY <1>2, <1>3, <1>4, <1>7 DEF WriteRole, AdminTypeOK
<1>8. CASE job[h].on \in Pairs /\ WritePair(h)
    <2>1. link' \in [Pairs -> Row]
        BY <1>1, <1>2, <1>8, PairRowType DEF WritePair, AdminTypeOK
    <2> QED
        BY <1>2, <1>3, <1>4, <1>8, <2>1 DEF WritePair, AdminTypeOK
<1>9. CASE job[h].on = MediaPlane /\ WritePlane(h)
    BY <1>2, <1>3, <1>4, <1>9 DEF WritePlane, AdminTypeOK
<1> QED
    BY <1>5, <1>6, <1>7, <1>8, <1>9, CommitWrites

\* A switch says how its thing is afterwards, unless another edit of the pair came between;
\* an update leaves that as it is; other things are not touched.
LEMMA CommitOn ==
    ASSUME AdminInv, NEW h \in Handlers, Commit(h)
    PROVE  \A x \in Things :
              IF x # job[h].on \/ job[h].does = "update" THEN On(x)' <=> On(x)
              ELSE job[h].stale \/ (On(x)' <=> job[h].want)
<1>0. PICK y \in Things : y = job[h].on
    BY CommitWrites
<1>1. job[h] \in Job /\ Decided(h) /\ job[h] # Idle
    BY CommitWrites DEF AdminInv, EditsOK
<1>2. job[h].want \in BOOLEAN /\ job[h].stale \in BOOLEAN /\ job[h].does \in {"switch", "update"}
    BY <1>0, <1>1 DEF Job
<1>3. AdminTypeOK /\ AdminTypeOK' /\ role \subseteq Users /\ role' \subseteq Users
    BY CommitType DEF AdminInv, AdminTypeOK
<1>4. CASE y \in Gateways /\ WriteGateway(h)
    <2>1. /\ gateway'[y] = IF job[h].does = "update" THEN gateway[y]
                           ELSE IF job[h].want THEN "enabled" ELSE "disabled"
          /\ \A g \in Gateways : g # y => gateway'[g] = gateway[g]
          /\ UNCHANGED <<camera, link, role, plane>>
        BY <1>0, <1>3, <1>4 DEF WriteGateway, AdminTypeOK
    <2>2. \A x \in Things : x # y => (On(x)' <=> On(x))
        BY <1>0, <1>3, <1>4, <2>1 DEF On
    <2>3. (On(y)' <=> gateway'[y] = "enabled") /\ (On(y) <=> gateway[y] = "enabled")
        BY <1>0, <1>1, <1>3, <1>4, OnIs, OnIsThen
    <2> QED
        BY <1>0, <1>2, <2>1, <2>2, <2>3
<1>5. CASE y \in Cameras /\ WriteCamera(h)
    <2>1. /\ camera'[y].status = IF job[h].does = "update" THEN camera[y].status
                                 ELSE IF job[h].want THEN "active" ELSE "retired"
          /\ \A c \in Cameras : c # y => camera'[c] = camera[c]
          /\ UNCHANGED <<gateway, link, role, plane>>
        BY <1>0, <1>3, <1>5 DEF WriteCamera, AdminTypeOK
    <2>2. \A x \in Things : x # y => (On(x)' <=> On(x))
        BY <1>0, <1>3, <1>5, <2>1 DEF On
    <2>3. (On(y)' <=> camera'[y].status = "active") /\ (On(y) <=> camera[y].status = "active")
        BY <1>0, <1>1, <1>3, <1>5, OnIs, OnIsThen
    <2> QED
        BY <1>0, <1>2, <2>1, <2>2, <2>3
<1>6. CASE y \in Users /\ WriteRole(h)
    <2>1. /\ role' = IF job[h].want THEN role \union {y} ELSE role \ {y}
          /\ UNCHANGED <<gateway, camera, link, plane>> /\ job[h].does = "switch"
        BY <1>0, <1>1, <1>2, <1>6 DEF WriteRole, Decided
    <2>2. \A x \in Things : x # y => (On(x)' <=> On(x))
        BY <1>0, <1>3, <1>6, <2>1 DEF On
    <2>3. On(y)' <=> y \in role'
        BY <1>0, <1>1, <1>3, <1>6, OnIs, OnIsThen
    <2> QED
        BY <1>0, <1>2, <2>1, <2>2, <2>3
<1>7. CASE y \in Pairs /\ WritePair(h)
    <2>1. /\ link'[y] = PairRow(h) /\ \A p \in Pairs : p # y => link'[p] = link[p]
          /\ UNCHANGED <<gateway, camera, role, plane>> /\ job[h].does = "switch"
        BY <1>0, <1>1, <1>2, <1>3, <1>7 DEF WritePair, AdminTypeOK, Decided
    <2>2. \A x \in Things : x # y => (On(x)' <=> On(x))
        BY <1>0, <1>3, <1>7, <2>1 DEF On
    <2>3. On(y)' <=> PairRow(h).active
        BY <1>0, <1>1, <1>3, <1>7, <2>1, OnIsThen
    <2>4. ~job[h].stale => (PairRow(h).active <=> job[h].want)
        <3>1. ~job[h].stale => link[y].at = job[h].saw
            BY <1>0, <1>1, <1>7 DEF Decided
        <3>2. PairRow(h).active \in BOOLEAN
            BY <1>0, <1>1, <1>7, PairRowType DEF Row
        <3> QED
            BY <1>0, <1>1, <1>2, <1>7, <3>1, <3>2, PairRowType
    <2> QED
        BY <1>0, <1>2, <2>1, <2>2, <2>3, <2>4
<1>8. CASE y = MediaPlane /\ WritePlane(h)
    <2>1. /\ plane' = IF job[h].want THEN "fallback" ELSE "cloud"
          /\ UNCHANGED <<gateway, camera, link, role>> /\ job[h].does = "switch"
        BY <1>0, <1>1, <1>2, <1>8 DEF WritePlane, Decided
    <2>2. \A x \in Things : x # y => (On(x)' <=> On(x))
        BY <1>0, <1>3, <1>8, <2>1 DEF On
    <2>3. On(y)' <=> plane' = "fallback"
        BY <1>0, <1>1, <1>3, <1>8, OnIs, OnIsThen
    <2> QED
        BY <1>0, <1>2, <2>1, <2>2, <2>3
<1> QED
    BY <1>0, <1>4, <1>5, <1>6, <1>7, <1>8, CommitWrites

\* The commit of an edit keeps what the editors know and what the trail says.
LEMMA CommitStep ==
    ASSUME AdminInv, NEW h \in Handlers, Commit(h)
    PROVE  AdminInv'
<1>0. PICK y \in Things : y = job[h].on
    BY CommitWrites
<1>1. /\ job[h] # Idle /\ job[h] \in Job /\ Audited(h)
      /\ AdminTypeOK /\ EditsOK /\ AuditAgrees /\ Decided(h)
    BY CommitWrites DEF AdminInv, EditsOK
<1>2. job[h].want \in BOOLEAN /\ job[h].stale \in BOOLEAN /\ job[h].does \in {"switch", "update"}
    BY <1>0, <1>1 DEF Job
<1>3. EditsOK'
    <2>1. ASSUME NEW g \in Handlers, job'[g] # Idle PROVE Decided(g)'
        <3>1. /\ job[g] # Idle /\ job'[g].on = job[g].on /\ job'[g].does = job[g].does
              /\ job'[g].saw = job[g].saw /\ job[g] \in Job
              /\ job'[g].stale <=> job[g].stale \/ (y \in Pairs /\ job[g].on = y)
            BY <1>0, <1>1, <2>1, AuditedJobs DEF AdminTypeOK
        <3>2. \A p \in Pairs : p # y => link'[p] = link[p]
            <4>1. CASE WritePair(h)
                BY <1>0, <1>1, <4>1 DEF WritePair, AdminTypeOK
            <4>2. CASE UNCHANGED link
                BY <4>2
            <4> QED
                BY <4>1, <4>2, CommitWrites DEF WriteGateway, WriteCamera, WriteRole, WritePlane
        <3>3. Decided(g) /\ job[g].stale \in BOOLEAN
            BY <1>0, <1>1, <3>1 DEF EditsOK, Job
        <3> QED
            BY <3>1, <3>2, <3>3 DEF Decided
    <2> QED
        BY <2>1 DEF EditsOK, Decided
<1>4. AuditAgrees'
    <2>1. /\ log' = IF job[h].does = "switch" THEN [log EXCEPT ![y] = job[h].want] ELSE log
          /\ stale' = IF job[h].stale THEN stale \union {y} ELSE stale \ {y}
        BY <1>0, <1>1 DEF Audited
    <2>2. ASSUME NEW x \in Things, x # y PROVE (log'[x] <=> On(x)') \/ x \in stale'
        <3>1. log'[x] = log[x] /\ (x \in stale => x \in stale')
            BY <1>0, <1>1, <2>1, <2>2 DEF AdminTypeOK
        <3>2. On(x)' <=> On(x)
            BY <1>0, <2>2, CommitOn
        <3> QED
            BY <1>0, <1>1, <3>1, <3>2 DEF AuditAgrees
    <2>3. (log'[y] <=> On(y)') \/ y \in stale'
        <3>1. CASE job[h].stale
            BY <2>1, <3>1
        <3>2. CASE ~job[h].stale /\ job[h].does = "switch"
            <4>1. log'[y] = job[h].want
                BY <1>0, <1>1, <2>1, <3>2 DEF AdminTypeOK
            <4> QED
                BY <1>0, <3>2, <4>1, CommitOn
        <3>3. CASE ~job[h].stale /\ job[h].does = "update"
            <4>1. y \notin stale
                BY <1>0, <1>1, <3>3 DEF Decided, AdminTypeOK
            <4>2. log'[y] = log[y] /\ (On(y)' <=> On(y))
                BY <1>0, <2>1, <3>3, CommitOn
            <4> QED
                BY <1>0, <1>1, <4>1, <4>2 DEF AuditAgrees
        <3> QED
            BY <1>2, <3>1, <3>2, <3>3
    <2> QED
        BY <2>2, <2>3 DEF AuditAgrees
<1> QED
    BY <1>3, <1>4, CommitType DEF AdminInv

-----------------------------------------------------------------------------
(***************************************************************************)
(* Who serves a camera.                                                    *)
(***************************************************************************)
\* A set of numbers up to a bound has a greatest one.
LEMMA Greatest ==
    ASSUME NEW n \in Nat, NEW S \in SUBSET (0..n), S # {}
    PROVE  \E m \in S : \A k \in S : k <= m
<1> DEFINE T == {n - k : k \in S}
<1>1. T \in SUBSET Nat /\ T # {}
    OBVIOUS
<1>2. PICK t \in T : \A u \in T : ~ (<<u, t>> \in OpToRel(<, Nat))
    BY <1>1, NatLessThanWellFounded, WFMin
<1>3. \A u \in T : ~ (u < t)
    BY <1>1, <1>2 DEF OpToRel
<1>4. PICK m \in S : t = n - m
    OBVIOUS
<1>5. ASSUME NEW k \in S PROVE k <= m
    <2>1. n - k \in T
        OBVIOUS
    <2> QED
        BY <1>3, <1>4, <2>1
<1> QED
    BY <1>5

\* If some enabled gateway is assigned, the one that serves is.
LEMMA AssignedServes ==
    ASSUME AdminTypeOK, NEW c \in Cameras, Assigned(c) # NoGateway
    PROVE  Assigned(c) \in Serving(c)
<1> DEFINE S == {link[<<g, c>>].at : g \in Serving(c)}
<1>1. Serving(c) # {} /\ \A g \in Serving(c) : <<g, c>> \in Pairs
    BY DEF Assigned, Serving
<1>2. S \in SUBSET (0..MaxEdits) /\ S # {}
    <2>1. \A p \in Pairs : link[p].at \in 0..MaxEdits
        BY DEF AdminTypeOK, Row
    <2>2. \A g \in Serving(c) : link[<<g, c>>].at \in 0..MaxEdits
        BY <1>1, <2>1
    <2>3. PICK g \in Serving(c) : TRUE
        BY <1>1
    <2>4. link[<<g, c>>].at \in S
        BY <2>3
    <2> QED
        BY <2>2, <2>4
<1>3. PICK m \in S : \A k \in S : k <= m
    BY <1>2, Greatest
<1>4. PICK g \in Serving(c) : m = link[<<g, c>>].at
    BY <1>3
<1>5. \A f \in Serving(c) : link[<<f, c>>].at <= link[<<g, c>>].at
    BY <1>3, <1>4
<1>6. (CHOOSE e \in Serving(c) :
          \A f \in Serving(c) : link[<<f, c>>].at <= link[<<e, c>>].at) \in Serving(c)
    BY <1>5
<1> QED
    BY <1>1, <1>6 DEF Assigned, Latest

\* The gateway that serves a camera, if any, is a gateway.
LEMMA AssignedType ==
    ASSUME AdminTypeOK, NEW c \in Cameras
    PROVE  Assigned(c) \in Gateways \union {NoGateway}
BY AssignedServes DEF Serving

-----------------------------------------------------------------------------
(***************************************************************************)
(* The invariant and what follows from it.                                 *)
(***************************************************************************)
\* Nothing is edited by what happens in the rooms.
LEMMA AdminStays ==
    ASSUME AdminInv, UNCHANGED adminVars
    PROVE  AdminInv'
<1>1. \A x : On(x)' <=> On(x)
    BY DEF On, adminVars, recordVars
<1>2. AdminTypeOK'
    BY DEF AdminInv, AdminTypeOK, adminVars, recordVars
<1>3. EditsOK'
    BY DEF AdminInv, EditsOK, Decided, adminVars, recordVars
<1>4. AuditAgrees'
    BY <1>1 DEF AdminInv, AuditAgrees, adminVars
<1> QED
    BY <1>2, <1>3, <1>4 DEF AdminInv

\* Every step keeps what the editors know and what the trail says.
LEMMA AdminKeeps ==
    ASSUME AdminInv, Next
    PROVE  AdminInv'
<1>1. CASE \E h \in Handlers : AdminStep(h) \/ Remove(h)
    BY <1>1, EditStep, CommitStep, FlushStep DEF AdminStep, Remove
<1>2. CASE UNCHANGED adminVars
    BY <1>2, AdminStays
<1> QED
    BY <1>1, <1>2 DEF Next, Join, Leave, MissWebhook, IssueToken, IssueFails, RoomFinishes,
                      HandleJoined, HandleFinished, HandleLeft, Maintain, Start, Stop, Lose,
                      Breaks, AgentEnds

-----------------------------------------------------------------------------
(***************************************************************************)
(* Rooms: types.                                                           *)
(***************************************************************************)
\* The variables of the rooms have their types.
RoomTypeOK ==
    /\ token \subseteq View /\ viewer \subseteq View /\ views \in 0..MaxViews
    /\ publisher \subseteq Session /\ present \subseteq publisher
    /\ open \subseteq Rooms /\ came \subseteq Rooms /\ finished \subseteq Rooms
    /\ left \subseteq Departure
    /\ pub \in [Cameras -> State]
    /\ order \subseteq Order

\* Who enters is known to LiveKit from then on,
LEMMA EntersType ==
    ASSUME RoomTypeOK, NEW viewers \in SUBSET View, NEW sessions \in SUBSET Session,
           Enters(viewers, sessions)
    PROVE  /\ viewer' \subseteq View /\ present' = present \union sessions
           /\ open' \subseteq Rooms /\ came' \subseteq Rooms
           /\ left' = left /\ finished' = finished
<1> DEFINE rooms == {x.room : x \in viewers \union sessions}
<1>1. \A x \in View \union Session : x.room \in Rooms
    BY DEF View, Session
<1>2. rooms \subseteq Rooms
    BY <1>1
<1>3. /\ viewer' = viewer \union viewers /\ present' = present \union sessions
      /\ open' = open \union rooms /\ came' = came \union rooms
      /\ left' = left /\ finished' = finished
    BY DEF Enters
<1> HIDE DEF rooms
<1> QED
    BY <1>2, <1>3 DEF RoomTypeOK

\* What is told of several rooms are departures,
LEMMA CountedType ==
    ASSUME NEW rooms \in SUBSET Rooms, NEW k \in 0..1,
           NEW told, told = {[room |-> r, count |-> k] : r \in rooms}
    PROVE  told \subseteq Departure
<1> SUFFICES ASSUME NEW e \in told PROVE e \in Departure
    OBVIOUS
<1>1. PICK r \in rooms : e = [room |-> r, count |-> k]
    OBVIOUS
<1> QED
    BY <1>1 DEF Departure

\* and of who departs it tells in which room, and how many are left.
LEMMA DepartsType ==
    ASSUME RoomTypeOK, NEW viewers \in SUBSET View, NEW sessions \in SUBSET Session,
           Departs(viewers, sessions)
    PROVE  /\ viewer' \subseteq View /\ present' = present \ sessions
           /\ left' \subseteq Departure
           /\ open' = open /\ came' = came /\ finished' = finished
<1> DEFINE others(r) == {x \in (viewer \ viewers) \union (present \ sessions) : x.room = r}
           rooms == {x.room : x \in viewers \union sessions}
           none == {q \in rooms : others(q) = {}}
           one == {q \in rooms : \E x \in others(q) : others(q) = {x}}
           emptied == {[room |-> r, count |-> 0] : r \in none}
           alone == {[room |-> r, count |-> 1] : r \in one}
<1>1. \A x \in View \union Session : x.room \in Rooms
    BY DEF View, Session
<1>2. rooms \subseteq Rooms
    BY <1>1
<1>3. none \subseteq Rooms /\ one \subseteq Rooms
    BY <1>2
<1>4. /\ viewer' = viewer \ viewers /\ present' = present \ sessions
      /\ left' = left \union emptied \union alone
      /\ open' = open /\ came' = came /\ finished' = finished
    BY DEF Departs
<1> HIDE DEF none, one
<1>5. emptied = {[room |-> r, count |-> 0] : r \in none}
      /\ alone = {[room |-> r, count |-> 1] : r \in one}
    OBVIOUS
<1> HIDE DEF emptied, alone
<1>6. 0 \in 0..1 /\ 1 \in 0..1
    OBVIOUS
<1>7. none \in SUBSET Rooms /\ one \in SUBSET Rooms
    BY <1>3
<1>8. emptied \subseteq Departure
    BY Zenon, <1>5, <1>6, <1>7, CountedType
<1>9. alone \subseteq Departure
    BY Zenon, <1>5, <1>6, <1>7, CountedType
<1>10. left \subseteq Departure
    BY DEF RoomTypeOK
<1> QED
    BY <1>4, <1>8, <1>9, <1>10 DEF RoomTypeOK

\* An order is one about a session.
LEMMA OrderType ==
    ASSUME NEW g \in Gateways, NEW c \in Cameras, NEW r \in Rooms, NEW k \in {"start", "stop"}
    PROVE  [kind |-> k, session |-> To(g, c, r)] \in Order
BY DEF To, Session, Order

\* A row is written with a status, a gateway and a room.
LEMMA RowType ==
    ASSUME RoomTypeOK, NEW c \in Cameras, NEW st \in {"idle", "live", "pending"},
           NEW g \in Gateways \union {NoGateway}, NEW r \in Rooms
    PROVE  [pub EXCEPT ![c] = [status |-> st, gateway |-> g, room |-> r]] \in [Cameras -> State]
BY DEF RoomTypeOK, State

\* Handlers, webhooks, maintenance and agents write tokens, rows and orders of their types.
LEMMA RoomTypes ==
    ASSUME IInv, Next
    PROVE  RoomTypeOK'
<1>1. RoomTypeOK /\ AdminTypeOK /\ MaxViews \in Nat
    BY RoomAssumption DEF IInv, TypeOK, RoomTypeOK
<1>2. \A c \in Cameras : camera[c].room \in Rooms
    BY <1>1 DEF AdminTypeOK
<1>3. \A c \in Cameras : Assigned(c) \in Gateways \union {NoGateway}
    BY <1>1, AssignedType
<1>4. \A o \in order : o.session \in Session /\ o.session.room \in Rooms
    BY <1>1 DEF RoomTypeOK, Order, Session
<1>5. ASSUME Join PROVE RoomTypeOK'
    <2>1. PICK t \in token \ viewer : Enters({t}, {})
        BY <1>5 DEF Join
    <2>2. {t} \in SUBSET View
        BY <1>1, <2>1 DEF RoomTypeOK
    <2>3. /\ viewer' \subseteq View /\ present' = present \union {} /\ open' \subseteq Rooms
          /\ came' \subseteq Rooms /\ left' = left /\ finished' = finished
        BY <1>1, <2>1, <2>2, EntersType
    <2> QED
        BY <1>1, <1>5, <2>3 DEF Join, RoomTypeOK
<1>6. ASSUME NEW viewers \in SUBSET View, NEW sessions \in SUBSET Session,
             Departs(viewers, sessions),
             UNCHANGED <<token, views, pub>>, publisher' \subseteq publisher,
             present \ sessions \subseteq publisher', order' \subseteq order
      PROVE  RoomTypeOK'
    <2>1. /\ viewer' \subseteq View /\ present' = present \ sessions /\ left' \subseteq Departure
          /\ open' = open /\ came' = came /\ finished' = finished
        BY <1>1, <1>6, DepartsType
    <2> QED
        BY <1>1, <1>6, <2>1 DEF RoomTypeOK
<1>7. ASSUME Leave PROVE RoomTypeOK'
    <2>1. PICK v \in viewer : Departs({v}, {})
        BY <1>7 DEF Leave
    <2>2. {v} \in SUBSET View /\ present \ {} \subseteq publisher
        BY <1>1, <2>1 DEF RoomTypeOK
    <2> QED
        BY <1>6, <1>7, <2>1, <2>2 DEF Leave
<1>8. ASSUME MissWebhook PROVE RoomTypeOK'
    BY <1>1, <1>8 DEF MissWebhook, RoomTypeOK
<1>9. ASSUME NEW u \in Users, NEW c \in Cameras, IssueToken(u, c) \/ IssueFails(u, c)
      PROVE  RoomTypeOK'
    <2>1. PICK g \in Gateways \union {NoGateway} : g = Assigned(c)
        BY <1>3
    <2>2. PICK r \in Rooms : r = camera[c].room
        BY <1>2
    <2>3. /\ views' = views + 1 /\ views < MaxViews
          /\ token' \subseteq token \union {[user |-> u, camera |-> c, room |-> r]}
          /\ pub' = pub \/ pub' = [pub EXCEPT ![c] = [status |-> "live", gateway |-> g, room |-> r]]
          /\ \/ order' = order
             \/ /\ g # NoGateway
                /\ order' = order \union {[kind |-> "start", session |-> To(g, c, r)]}
          /\ UNCHANGED <<publisher, viewer, present, open, came, left, finished>>
        BY <1>9, <2>1, <2>2 DEF IssueToken, IssueFails, Asks, Live, livekitVars
    <2>4. [user |-> u, camera |-> c, room |-> r] \in View
        BY DEF View
    <2>5. pub' \in [Cameras -> State]
        BY <1>1, <2>3, RowType DEF RoomTypeOK
    <2>6. order' \subseteq Order
        <3> DEFINE told == [kind |-> "start", session |-> To(g, c, r)]
        <3>1. (g # NoGateway) => told \in Order
            BY OrderType
        <3>2. order' = order \/ ((g # NoGateway) /\ order' = order \union {told})
            BY <2>3
        <3> HIDE DEF told
        <3> QED
            BY <1>1, <3>1, <3>2 DEF RoomTypeOK
    <2> QED
        BY <1>1, <2>3, <2>4, <2>5, <2>6 DEF RoomTypeOK
<1>10. ASSUME NEW r \in Rooms, RoomFinishes(r) PROVE RoomTypeOK'
    BY <1>1, <1>10 DEF RoomFinishes, RoomTypeOK
<1>11. ASSUME NEW r \in Rooms, NEW c \in Cameras, NEW st \in {"idle", "live", "pending"},
              NEW k \in {"start", "stop"}, Concerns(r, c),
              pub' = [pub EXCEPT ![c] = [status |-> st, gateway |-> Assigned(c), room |-> r]],
              \/ order' = order
              \/ order' = order \union {[kind |-> k, session |-> To(Assigned(c), c, r)]},
              UNCHANGED <<token, views, publisher, viewer, present, open>>,
              came' \subseteq came, left' \subseteq left, finished' \subseteq finished
       PROVE  RoomTypeOK'
    <2>1. PICK g \in Gateways : g = Assigned(c)
        BY <1>3, <1>11 DEF Concerns
    <2>2. pub' \in [Cameras -> State]
        BY <1>1, <1>11, <2>1, RowType
    <2>3. order' \subseteq Order
        <3> DEFINE told == [kind |-> k, session |-> To(g, c, r)]
        <3>1. told \in Order
            BY OrderType
        <3>2. order' = order \/ order' = order \union {told}
            BY <1>11, <2>1
        <3> HIDE DEF told
        <3> QED
            BY <1>1, <3>1, <3>2 DEF RoomTypeOK
    <2> QED
        BY <1>1, <1>11, <2>2, <2>3 DEF RoomTypeOK
<1>12. ASSUME NEW r \in Rooms, HandleJoined(r) PROVE RoomTypeOK'
    <2>1. PICK c \in Cameras :
              /\ Concerns(r, c)
              /\ pub' = [pub EXCEPT ![c] = [status |-> "live", gateway |-> Assigned(c), room |-> r]]
              /\ \/ order' = order
                 \/ order' = order \union {[kind |-> "start", session |-> To(Assigned(c), c, r)]}
        BY <1>12 DEF HandleJoined, Live
    <2> QED
        BY <1>11, <1>12, <2>1 DEF HandleJoined
<1>13. ASSUME NEW e \in left, HandleLeft(e) PROVE RoomTypeOK'
    <2>1. CASE AsksToStop(e)
        <3>1. PICK c \in Cameras :
                  /\ Concerns(e.room, c)
                  /\ pub' = [pub EXCEPT ![c] = [status |-> "pending", gateway |-> Assigned(c),
                                                room |-> e.room]]
            BY <1>13, <2>1 DEF HandleLeft
        <3>2. e.room \in Rooms
            BY <1>1 DEF RoomTypeOK, Departure
        <3>3. /\ order' = order /\ UNCHANGED <<token, views, publisher, viewer, present, open>>
              /\ came' \subseteq came /\ left' \subseteq left /\ finished' \subseteq finished
            BY <1>13 DEF HandleLeft
        <3> QED
            BY <1>11, <3>1, <3>2, <3>3
    <2>2. CASE ~AsksToStop(e)
        BY <1>1, <1>13, <2>2 DEF HandleLeft, RoomTypeOK
    <2> QED
        BY <2>1, <2>2
<1>14. ASSUME NEW r \in Rooms, HandleFinished(r) PROVE RoomTypeOK'
    <2>1. PICK c \in Cameras :
              /\ Concerns(r, c)
              /\ pub' = [pub EXCEPT ![c] = [status |-> "idle", gateway |-> Assigned(c), room |-> r]]
              /\ order' = order \union {[kind |-> "stop", session |-> To(Assigned(c), c, r)]}
        BY <1>14 DEF HandleFinished
    <2> QED
        BY <1>11, <1>14, <2>1 DEF HandleFinished
<1>15. ASSUME NEW c \in Cameras, Maintain(c) PROVE RoomTypeOK'
    <2>1. pub[c] \in State /\ pub[c].room \in Rooms
        BY <1>1 DEF State, RoomTypeOK
    <2>2. [pub[c] EXCEPT !.status = "idle"] \in State
        BY <2>1 DEF State
    <2>3. pub' \in [Cameras -> State]
        BY <1>1, <1>15, <2>2 DEF Maintain, RoomTypeOK
    <2>4. order' \subseteq Order
        <3> DEFINE told == [kind |-> "stop", session |-> To(pub[c].gateway, c, pub[c].room)]
        <3>1. (pub[c].gateway \in Gateways) => told \in Order
            BY <2>1, OrderType
        <3>2. order' = order \/ ((pub[c].gateway \in Gateways) /\ order' = order \union {told})
            BY <1>15 DEF Maintain, Serving
        <3> HIDE DEF told
        <3> QED
            BY <1>1, <3>1, <3>2 DEF RoomTypeOK
    <2> QED
        BY <1>1, <1>15, <2>3, <2>4 DEF Maintain, RoomTypeOK, livekitVars
<1>16. ASSUME NEW o \in order, Start(o) PROVE RoomTypeOK'
    <2>1. {o.session} \in SUBSET Session /\ Enters({}, {o.session})
        BY <1>4, <1>16 DEF Start
    <2>2. /\ viewer' \subseteq View /\ present' = present \union {o.session} /\ open' \subseteq Rooms
          /\ came' \subseteq Rooms /\ left' = left /\ finished' = finished
        BY <1>1, <2>1, EntersType
    <2> QED
        BY <1>1, <1>16, <2>1, <2>2 DEF Start, Carries, RoomTypeOK
<1>17. ASSUME NEW o \in order, Stop(o) PROVE RoomTypeOK'
    <2> DEFINE gone == {o.session} \intersect present
    <2>1. gone \in SUBSET Session /\ present \ gone \subseteq publisher \ {o.session}
        BY <1>1, <1>4 DEF RoomTypeOK
    <2>2. /\ Departs({}, gone) /\ UNCHANGED <<token, views, pub>>
          /\ publisher' = publisher \ {o.session} /\ order' = order \ {o}
        BY <1>17 DEF Stop, Carries
    <2> HIDE DEF gone
    <2> QED
        BY <1>6, <2>1, <2>2
<1>18. ASSUME NEW o \in order, Lose(o) PROVE RoomTypeOK'
    BY <1>1, <1>18 DEF Lose, RoomTypeOK, livekitVars
<1>19. ASSUME NEW s \in present, Breaks(s) PROVE RoomTypeOK'
    <2>1. {s} \in SUBSET Session /\ present \ {s} \subseteq publisher
        BY <1>1 DEF RoomTypeOK
    <2> QED
        BY <1>6, <1>19, <2>1 DEF Breaks
<1>20. ASSUME NEW g \in Gateways, AgentEnds(g) PROVE RoomTypeOK'
    <2> DEFINE gone == {s \in present : s.gateway = g}
    <2>1. /\ gone \in SUBSET Session
          /\ present \ gone \subseteq {s \in publisher : s.gateway # g}
        BY <1>1 DEF RoomTypeOK
    <2>2. /\ Departs({}, gone) /\ UNCHANGED <<token, views, pub, order>>
          /\ publisher' = {s \in publisher : s.gateway # g}
        BY <1>20 DEF AgentEnds
    <2> HIDE DEF gone
    <2> QED
        BY <1>6, <2>1, <2>2
<1>21. ASSUME NEW h \in Handlers, AdminStep(h) PROVE RoomTypeOK'
    BY <1>1, <1>21 DEF AdminStep, RoomTypeOK, roomVars, livekitVars
<1>22. ASSUME NEW h \in Handlers, Remove(h) PROVE RoomTypeOK'
    <2>1. PICK viewers \in SUBSET viewer, sessions \in SUBSET present : Departs(viewers, sessions)
        <3>1. CASE RemoveRoomViewers(h)
            BY <3>1 DEF RemoveRoomViewers
        <3>2. CASE RemoveGatewayParticipants(h)
            <4> DEFINE known(s) == s.room \in {camera[c].room : c \in {d \in Cameras :
                                       On(d) /\ link[<<job[h].on, d>>].active}}
            <4>1. PICK gone \in SUBSET {s \in present : s.gateway = job[h].on /\ known(s)} :
                      Departs({}, gone)
                BY <3>2 DEF RemoveGatewayParticipants
            <4> HIDE DEF known
            <4>2. gone \in SUBSET present
                OBVIOUS
            <4> QED
                BY <4>1, <4>2
        <3> QED
            BY <1>22, <3>1, <3>2 DEF Remove
    <2>2. /\ viewers \in SUBSET View /\ sessions \in SUBSET Session
          /\ present \ sessions \subseteq publisher
        BY <1>1 DEF RoomTypeOK
    <2> QED
        BY <1>6, <1>22, <2>1, <2>2 DEF Remove
<1> QED
    BY <1>5, <1>7, <1>8, <1>9, <1>10, <1>12, <1>13, <1>14, <1>15, <1>16, <1>17, <1>18, <1>19,
       <1>20, <1>21, <1>22 DEF Next

\* What was set up before satisfies it
LEMMA InitIInv ==
    ASSUME Init
    PROVE  IInv
<1>1. AdminTypeOK
    BY DEF Init, AdminInit, AdminTypeOK, Row
<1>2. EditsOK
    BY DEF Init, AdminInit, EditsOK, Decided
<1>3. ASSUME NEW x \in Things PROVE log[x] <=> On(x)
    <2>1. log[x] <=> x \in SetUp \union {FirstGateway, FirstCamera}
        BY DEF Init, AdminInit
    <2>2. role = {} /\ plane = "none"
        BY DEF Init, AdminInit
    <2>3. CASE x \in Gateways
        <3>1. On(x) <=> x = FirstGateway
            BY <2>2, <2>3, OnIs DEF Init, AdminInit
        <3> QED
            BY <2>1, <2>3, <3>1, Kinds DEF SetUp
    <2>4. CASE x \in Cameras
        <3>1. On(x) <=> x = FirstCamera
            BY <2>2, <2>4, OnIs DEF Init, AdminInit
        <3> QED
            BY <2>1, <2>4, <3>1, Kinds DEF SetUp
    <2>5. CASE x \in Users \/ x = MediaPlane
        <3>1. ~On(x)
            BY <2>2, <2>5, OnIs
        <3> QED
            BY <2>1, <2>5, <3>1, Kinds DEF SetUp
    <2>6. CASE x \in Pairs
        <3>1. On(x) <=> x \in SetUp
            BY <2>2, <2>6, OnIs DEF Init, AdminInit
        <3> QED
            BY <2>1, <2>6, <3>1, Kinds
    <2> QED
        BY <2>3, <2>4, <2>5, <2>6
<1>4. AuditAgrees
    BY <1>3 DEF AuditAgrees
<1>5. TypeOK
    BY <1>1, RoomAssumption DEF Init, AdminInit, TypeOK, NoState, State
<1> QED
    BY <1>1, <1>2, <1>4, <1>5 DEF Init, IInv, AdminInv

\* and every step keeps it.
LEMMA Invariance == Spec => []IInv
<1>1. ASSUME IInv, Next PROVE IInv'
    <2>1. AdminInv'
        BY <1>1, AdminKeeps DEF IInv
    <2>2. RoomTypeOK'
        BY <1>1, RoomTypes
    <2> QED
        BY <2>1, <2>2 DEF IInv, TypeOK, AdminInv, RoomTypeOK
<1>2. ASSUME IInv, UNCHANGED vars PROVE IInv'
    <2>1. AdminInv'
        BY <1>2, AdminStays DEF IInv, vars
    <2>2. RoomTypeOK'
        BY <1>2 DEF IInv, TypeOK, RoomTypeOK, vars, roomVars, livekitVars
    <2> QED
        BY <2>1, <2>2 DEF IInv, TypeOK, AdminInv, RoomTypeOK
<1>3. QED
    BY <1>1, <1>2, InitIInv, PTL DEF Spec

-----------------------------------------------------------------------------
(***************************************************************************)
(* Rooms: stops.                                                           *)
(***************************************************************************)
\* No stop sets out for a room when no webhook, row or order of the kind is new.
LEMMA NothingNew ==
    ASSUME NEW r, ~StopUnderway(r),
           r \in finished' => r \in finished,
           \A e \in left' : e \in left \/ e.room # r \/ ~AsksToStop(e),
           \A c \in Cameras : \/ pub'[c] = pub[c] \/ pub'[c].status # "pending"
                              \/ pub'[c].room # r,
           \A o \in order' : o \in order \/ o.kind # "stop" \/ o.session.room # r
    PROVE  ~StopUnderway(r)'
BY DEF StopUnderway, AsksToStop

\* While a viewer is left in a room, LiveKit does not say that nobody is.
LEMMA DepartsCount ==
    ASSUME NEW viewers, NEW sessions, Departs(viewers, sessions), NEW r, Watched(r)'
    PROVE  \A e \in left' : e \in left \/ e.room # r \/ ~AsksToStop(e)
<1> DEFINE others(q) == {x \in (viewer \ viewers) \union (present \ sessions) : x.room = q}
           rooms == {x.room : x \in viewers \union sessions}
           none == {q \in rooms : others(q) = {}}
           one == {q \in rooms : \E x \in others(q) : others(q) = {x}}
<1>1. /\ viewer' = viewer \ viewers
      /\ left' = left \union {[room |-> q, count |-> 0] : q \in none}
                      \union {[room |-> q, count |-> 1] : q \in one}
    BY DEF Departs
<1>2. r \notin none
    <2>1. PICK v \in viewer \ viewers : v.room = r
        BY <1>1 DEF Watched
    <2>2. v \in others(r)
        BY <2>1
    <2> QED
        BY <2>2
<1> HIDE DEF none, one
<1>3. SUFFICES ASSUME NEW e \in left', e \notin left, e.room = r
               PROVE  ~AsksToStop(e)
    OBVIOUS
<1>4. (\E q \in none : e = [room |-> q, count |-> 0]) \/ (\E q \in one : e = [room |-> q, count |-> 1])
    BY <1>1, <1>3
<1>5. \E q \in one : e = [room |-> q, count |-> 1]
    BY <1>2, <1>3, <1>4
<1> QED
    BY <1>5 DEF AsksToStop

\* A room without a stop under way that has a viewer left after a step has none after it.
LEMMA NoStopSetsOut ==
    ASSUME IInv, Next, NEW r \in Rooms, Watched(r), Watched(r)', ~StopUnderway(r)
    PROVE  ~StopUnderway(r)'
<1>1. RoomTypeOK
    BY DEF IInv, TypeOK, RoomTypeOK
<1>2. pub \in [Cameras -> State]
    BY <1>1 DEF RoomTypeOK
<1>3. ASSUME Join \/ (\E o \in order : Start(o)) PROVE ~StopUnderway(r)'
    BY <1>3, NothingNew DEF Join, Start, Enters, Carries
<1>4. ASSUME NEW viewers, NEW sessions, Departs(viewers, sessions), pub' = pub, order' \subseteq order
      PROVE  ~StopUnderway(r)'
    <2>1. finished' = finished
        BY <1>4 DEF Departs
    <2> QED
        BY <1>4, <2>1, DepartsCount, NothingNew
<1>5. ASSUME Leave \/ (\E s \in present : Breaks(s)) \/ (\E g \in Gateways : AgentEnds(g))
             \/ (\E o \in order : Stop(o)) \/ (\E h \in Handlers : Remove(h))
      PROVE  ~StopUnderway(r)'
    <2>1. pub' = pub /\ order' \subseteq order
        BY <1>5 DEF Leave, Breaks, AgentEnds, Stop, Carries, Remove
    <2>2. \E viewers, sessions : Departs(viewers, sessions)
        BY <1>5 DEF Leave, Breaks, AgentEnds, Stop, Remove, RemoveRoomViewers,
                    RemoveGatewayParticipants
    <2> QED
        BY <1>4, <2>1, <2>2
<1>6. ASSUME MissWebhook \/ (\E o \in order : Lose(o)) \/ (\E h \in Handlers : AdminStep(h))
      PROVE  ~StopUnderway(r)'
    BY <1>6, NothingNew DEF MissWebhook, Lose, AdminStep, roomVars, livekitVars
<1>7. ASSUME NEW q \in Rooms, RoomFinishes(q) PROVE ~StopUnderway(r)'
    <2>1. q # r
        BY <1>7 DEF RoomFinishes, Occupied
    <2>2. finished' = finished \union {q} /\ left' = left /\ pub' = pub /\ order' = order
        BY <1>7 DEF RoomFinishes
    <2> QED
        BY <2>1, <2>2, NothingNew
<1>8. ASSUME NEW u \in Users, NEW c \in Cameras, IssueToken(u, c) \/ IssueFails(u, c)
      PROVE  ~StopUnderway(r)'
    <2>1. finished' = finished /\ left' = left
        BY <1>8 DEF IssueToken, IssueFails, livekitVars
    <2>2. \A d \in Cameras : pub'[d] = pub[d] \/ pub'[d].status # "pending"
        BY <1>2, <1>8 DEF IssueToken, IssueFails, Live
    <2>3. \A o \in order' : o \in order \/ o.kind # "stop"
        BY <1>8 DEF IssueToken, IssueFails
    <2> QED
        BY <2>1, <2>2, <2>3, NothingNew
<1>9. ASSUME NEW q \in Rooms, HandleJoined(q) PROVE ~StopUnderway(r)'
    <2>1. finished' = finished /\ left' = left
        BY <1>9 DEF HandleJoined
    <2>2. \A d \in Cameras : pub'[d] = pub[d] \/ pub'[d].status # "pending"
        BY <1>2, <1>9 DEF HandleJoined, Live
    <2>3. \A o \in order' : o \in order \/ o.kind # "stop"
        BY <1>9 DEF HandleJoined
    <2> QED
        BY <2>1, <2>2, <2>3, NothingNew
<1>10. ASSUME NEW e \in left, HandleLeft(e) PROVE ~StopUnderway(r)'
    <2>1. finished' = finished /\ left' = left \ {e} /\ order' = order
        BY <1>10 DEF HandleLeft
    <2>2. AsksToStop(e) => e.room # r
        BY DEF StopUnderway
    <2>3. \A d \in Cameras : pub'[d] = pub[d] \/ pub'[d].room # r
        BY <1>2, <1>10, <2>2 DEF HandleLeft
    <2> QED
        BY <2>1, <2>3, NothingNew
<1>11. ASSUME NEW q \in Rooms, HandleFinished(q) PROVE ~StopUnderway(r)'
    <2>1. q # r
        BY <1>11 DEF HandleFinished, StopUnderway
    <2>2. finished' = finished \ {q} /\ left' = left
        BY <1>11 DEF HandleFinished
    <2>3. \A d \in Cameras : pub'[d] = pub[d] \/ pub'[d].status # "pending"
        BY <1>2, <1>11 DEF HandleFinished
    <2>4. \A o \in order' : o \in order \/ o.session.room # r
        BY <1>11, <2>1 DEF HandleFinished, To
    <2> QED
        BY <2>2, <2>3, <2>4, NothingNew
<1>12. ASSUME NEW c \in Cameras, Maintain(c) PROVE ~StopUnderway(r)'
    <2>1. finished' = finished /\ left' = left
        BY <1>12 DEF Maintain, livekitVars
    <2>2. pub[c].room # r
        BY <1>12 DEF Maintain, StopUnderway
    <2>3. \A d \in Cameras : pub'[d] = pub[d] \/ pub'[d].status # "pending"
        BY <1>2, <1>12 DEF Maintain, State
    <2>4. \A o \in order' : o \in order \/ o.session.room # r
        BY <1>12, <2>2 DEF Maintain, To
    <2> QED
        BY <2>1, <2>3, <2>4, NothingNew
<1> QED
    BY <1>3, <1>5, <1>6, <1>7, <1>8, <1>9, <1>10, <1>11, <1>12 DEF Next

-----------------------------------------------------------------------------
\* TypeOK: rows, jobs, sessions, webhooks and orders have the shapes the code gives them.
THEOREM TypeCorrect == Spec => []TypeOK
<1>1. IInv => TypeOK
    BY DEF IInv
<1> QED
    BY <1>1, Invariance, PTL

\* AuditAgrees: however edits overlap, the last audit event about a thing says how it is,
\* but for a pair when the edit it is of was overtaken.
THEOREM TrailAgrees == Spec => []AuditAgrees
<1>1. IInv => AuditAgrees
    BY DEF IInv, AdminInv
<1> QED
    BY <1>1, Invariance, PTL

\* WatchedIsNotStopped: a stop that cuts off a viewer was under way before the viewer came.
THEOREM WatchedNotStopped == Spec => WatchedIsNotStopped
<1> DEFINE A == \A r \in Rooms :
                    Watched(r) /\ Watched(r)' /\ StopUnderway(r)' => StopUnderway(r)
<1>1. IInv /\ [Next]_vars => [A]_vars
    BY NoStopSetsOut
<1> QED
    BY <1>1, Invariance, PTL DEF Spec, WatchedIsNotStopped
=============================================================================
