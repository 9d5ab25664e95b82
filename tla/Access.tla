------------------------------- MODULE Access -------------------------------
(***************************************************************************)
(* A user's way to a camera, and how it ends: the authentication every     *)
(* request passes, with its session; the token for a camera, handed out    *)
(* behind the rate limiter; the viewer in the LiveKit room; the            *)
(* administrator who disables the user.                                    *)
(*                                                                         *)
(* Requests are served on the thread pool at the same time and read what   *)
(* others have committed (READ COMMITTED, no row locks but those of an     *)
(* update). LiveKit is outside: it lets in whoever shows a token that has  *)
(* not expired, and asks nobody whether its holder is still a user.        *)
(***************************************************************************)
EXTENDS RateLimiter

CONSTANTS
    Users,
    Cameras,
    Sessions,       \* bound: sessions that can be created
    Handlers,       \* requests being served at the same time (a bound)
    NoSession,      \* no session, or no cookie
    IdleLimit,      \* SESSION_IDLE_TIMEOUT_SECONDS, in ticks
    AbsoluteLimit,  \* SESSION_ABSOLUTE_TIMEOUT_SECONDS, in ticks
    TokenLife       \* how long a LiveKit token is good for, in ticks

ASSUME AccessAssumption ==
    /\ Users \subseteq Keys /\ NoSession \notin Sessions
    /\ IdleLimit \in Nat /\ AbsoluteLimit \in Nat /\ TokenLife \in Nat

VARIABLES
    disabled,       \* users with disabled_at
    session,        \* session[s]: its row
    acl,            \* active permissions, by user and camera
    token,          \* tokens handed out that have not expired
    present,        \* viewers in LiveKit rooms, by user and camera (external)
    job,            \* job[h]: how far handler h is
    strays,         \* sessions of requests begun before the user was disabled (history)
    excused         \* viewers no disabling could reach: LiveKit failed, the permission
                    \* was gone, or they came with a token from before (history)

accessVars == <<disabled, session, acl, token, present, job, strays, excused>>
vars == <<now, rateVars, accessVars>>

Views == Users \X Cameras
NotCreated == [status |-> "none"]
Row == [status : {"active", "revoked"}, owner : Users, created : Times, last : Times]
Token == [user : Users, camera : Cameras, until : Nat, late : BOOLEAN]  \* late: see Issue
Idle == [stage |-> "idle"]
Request == [stage : {"known", "found", "admitted", "welcome", "asking", "timed", "granting",
                     "permitted"},
            user : Users, cookie : Sessions \union {NoSession}, disabled : BOOLEAN,
            camera : Cameras, at : Times]
Disabling == [stage : {"asked", "disabling", "removed"}, user : Users,
              revoking : SUBSET Sessions]

Active == {s \in Sessions : session[s].status = "active"}
ActiveOf(u) == {s \in Active : session[s].owner = u}

Init ==
    /\ RateInit
    /\ disabled = {} /\ acl = {} /\ token = {} /\ present = {}
    /\ session = [s \in Sessions |-> NotCreated]
    /\ job = [h \in Handlers |-> Idle]
    /\ strays = {} /\ excused = {}

At(h, stage) == job[h] # Idle /\ job[h].stage = stage
Ends(h) == job' = [job EXCEPT ![h] = Idle]

Goes(h, stage, cookie) ==
    job' = [job EXCEPT ![h] =
              [stage |-> stage, user |-> job[h].user, cookie |-> cookie,
               disabled |-> job[h].disabled, camera |-> job[h].camera, at |-> 0]]

\* Sessions a disabling has revoked and not committed: another update waits.
Underway(h) == job[h] # Idle /\ job[h].stage \in {"disabling", "removed"}
Missed(u) == u \in disabled \/ \E h \in Handlers : Underway(h) /\ job[h].user = u
Locked(s) == \E h \in Handlers : Underway(h) /\ s \in job[h].revoking

\* (Deviation: a revoked session is told from an expired one.)
RevokedOdd(S) == [s \in Sessions |-> IF s \in S /\ session[s].status = "active"
                                     THEN [status |-> "expired", owner |-> session[s].owner,
                                           created |-> 0, last |-> 0]
                                     ELSE session[s]]

\* Nobody looks at the times of a revoked session: they are left out.
Revoked(S) == [s \in Sessions |-> IF s \in S /\ session[s].status = "active"
                                  THEN [status |-> "revoked", owner |-> session[s].owner,
                                        created |-> 0, last |-> 0]
                                  ELSE session[s]]

-----------------------------------------------------------------------------
(***************************************************************************)
(* require_authenticated_user.                                             *)
(***************************************************************************)
\* The user's row is read. The cookie of a revoked session counts as none.
ReadUser(h, u, s, c) ==
    /\ job[h] = Idle /\ now < MaxTime
    /\ job' = [job EXCEPT ![h] =
                 [stage |-> "known", user |-> u, cookie |-> s,
                  disabled |-> u \in disabled, camera |-> c, at |-> 0]]
    /\ UNCHANGED <<now, rateVars, disabled, session, acl, token, present, strays, excused>>

\* The session is read: it counts if it is not revoked.
Found(h) == IF job[h].cookie \in Active THEN job[h].cookie ELSE NoSession

Expired(s) ==
    \/ now - session[s].created > AbsoluteLimit
    \/ now - session[s].last > IdleLimit

Proceeds(h) == UNCHANGED <<now, rateVars, disabled, acl, token, present, strays, excused>>

\* A disabled user is refused, the session in use revoked.
Deny(h) ==
    /\ At(h, "known") /\ job[h].disabled /\ ~Locked(job[h].cookie)
    /\ session' = Revoked({Found(h)} \intersect ActiveOf(job[h].user))
    /\ Ends(h) /\ Proceeds(h)

Find(h) ==
    /\ At(h, "known") /\ ~job[h].disabled /\ Found(h) # NoSession /\ ~Expired(Found(h))
    /\ Goes(h, "found", Found(h))
    /\ UNCHANGED session /\ Proceeds(h)

\* It was idle or alive for too long: it is revoked and the request refused.
Expire(h) ==
    /\ At(h, "known") /\ ~job[h].disabled /\ Found(h) # NoSession /\ Expired(Found(h))
    /\ ~Locked(Found(h))
    /\ session' = Revoked({Found(h)})
    /\ Ends(h) /\ Proceeds(h)

\* Without a session only a request that changes nothing goes on, and create_session
\* makes it one.
SignIn(h) ==
    /\ At(h, "known") /\ ~job[h].disabled /\ Found(h) = NoSession
    /\ \E s \in Sessions :
         /\ session[s] = NotCreated
         /\ session' = [session EXCEPT ![s] = [status |-> "active", owner |-> job[h].user,
                                               created |-> now, last |-> now]]
         /\ strays' = IF Missed(job[h].user) THEN strays \union {s} ELSE strays
    /\ Goes(h, "welcome", NoSession)
    /\ UNCHANGED <<now, rateVars, disabled, acl, token, present, excused>>

\* csrf-token-required, without a session; with one, if the token does not match.
TurnAway(h) ==
    /\ At(h, "known") /\ ~job[h].disabled /\ (Found(h) # NoSession => ~Expired(Found(h)))
    /\ Ends(h) /\ UNCHANGED session /\ Proceeds(h)

\* touch_session: nothing, if the session was revoked in between.
Touch(h) ==
    /\ At(h, "found") /\ ~Locked(job[h].cookie)
    /\ session' = IF job[h].cookie \in Active
                  THEN [session EXCEPT ![job[h].cookie].last = now] ELSE session
    /\ Goes(h, "admitted", NoSession)
    /\ Proceeds(h)

\* A request that has just got its session changes nothing.
Admitted(h) == At(h, "admitted") \/ At(h, "welcome")

\* A request for anything else than a token.
Answer(h) ==
    /\ Admitted(h) /\ Ends(h)
    /\ UNCHANGED session /\ Proceeds(h)

\* revoke_user_session: one of the user's own that the request found active, or, for
\* an administrator, anyone's.
Revoke(h) ==
    /\ At(h, "admitted")
    /\ \/ \E s \in Active : ~Locked(s) /\ session' = Revoked({s})
       \/ UNCHANGED session
    /\ Ends(h) /\ Proceeds(h)

-----------------------------------------------------------------------------
(***************************************************************************)
(* get_camera_view_token.                                                  *)
(***************************************************************************)
\* The user's row is read anew.
ReadAgain(h) ==
    /\ Admitted(h)
    /\ job' = [job EXCEPT ![h] =
                 [stage |-> "asking", user |-> job[h].user, cookie |-> NoSession,
                  disabled |-> job[h].user \in disabled, camera |-> job[h].camera, at |-> 0]]
    /\ UNCHANGED session /\ Proceeds(h)

\* The limiter's clock, in front of its lock.
ReadClock(h) ==
    /\ At(h, "asking")
    /\ job' = [job EXCEPT ![h] =
                 [stage |-> "timed", user |-> job[h].user, cookie |-> NoSession,
                  disabled |-> job[h].disabled, camera |-> job[h].camera, at |-> now]]
    /\ UNCHANGED session /\ Proceeds(h)

Untouched == UNCHANGED <<now, disabled, session, acl, present, strays, excused>>

Limited(h) ==
    /\ At(h, "timed") /\ Refuse(job[h].user, job[h].at)
    /\ Ends(h) /\ UNCHANGED token /\ Untouched

\* Who was disabled when read is refused behind the limiter.
Admit(h) ==
    /\ At(h, "timed") /\ Allow(job[h].user, job[h].at)
    /\ IF job[h].disabled THEN Ends(h) ELSE Goes(h, "granting", NoSession)
    /\ UNCHANGED token /\ Untouched

Permit(h) ==
    /\ At(h, "granting") /\ <<job[h].user, job[h].camera>> \in acl
    /\ Goes(h, "permitted", NoSession)
    /\ UNCHANGED session /\ Proceeds(h)

\* The grant is recorded and audited and the token handed out; it is late when the
\* user was disabled before the request read so.
Issue(h) ==
    /\ At(h, "permitted")
    /\ token' = token \union {[user |-> job[h].user, camera |-> job[h].camera,
                               until |-> now + TokenLife, late |-> job[h].disabled]}
    /\ Ends(h) /\ UNCHANGED rateVars /\ Untouched

\* No permission (403); no credentials for LiveKit or no audit event (503).
IssueFails(h) ==
    /\ \/ At(h, "granting") /\ <<job[h].user, job[h].camera>> \notin acl
       \/ At(h, "permitted")
    /\ Ends(h)
    /\ UNCHANGED session /\ Proceeds(h)

-----------------------------------------------------------------------------
(***************************************************************************)
(* LiveKit, and the administrator.                                         *)
(***************************************************************************)
Viewing == UNCHANGED <<now, rateVars, disabled, session, acl, token, job, strays>>

\* Viewers of u are no longer looked for.
Overlooked(u) ==
    u \in disabled \/ \E h \in Handlers : At(h, "removed") /\ job[h].user = u

Join ==
    /\ \E t \in token :
         LET v == <<t.user, t.camera>> IN
         /\ v \notin present /\ present' = present \union {v}
         /\ excused' = IF Overlooked(t.user) /\ ~t.late THEN excused \union {v} ELSE excused
    /\ Viewing

Leave ==
    /\ \E v \in present : present' = present \ {v} /\ excused' = excused \ {v}
    /\ Viewing

Administers == UNCHANGED <<now, rateVars, acl, token>>

\* admin_disable_user: the row is read, and 409 if the user is disabled.
AskDisable(h, u) ==
    /\ job[h] = Idle /\ now < MaxTime /\ u \notin disabled
    /\ job' = [job EXCEPT ![h] = [stage |-> "asked", user |-> u, revoking |-> {}]]
    /\ UNCHANGED <<disabled, session, present, excused, strays>> /\ Administers

\* The user's row is locked, and revoke_all_user_sessions locks those it finds.
Disable(h) ==
    /\ At(h, "asked")
    /\ \A g \in Handlers : Underway(g) => job[g].user # job[h].user
    /\ job' = [job EXCEPT ![h] = [stage |-> "disabling", user |-> job[h].user,
                                  revoking |-> ActiveOf(job[h].user)]]
    /\ UNCHANGED <<disabled, session, present, excused, strays>> /\ Administers

\* remove_user_participants, from the rooms of cameras the user may view; what
\* LiveKit fails to list or remove stays.
RemoveUserParticipants(h) ==
    /\ At(h, "disabling")
    /\ LET u == job[h].user
           viewers == {v \in present : v[1] = u}
       IN \E removed \in SUBSET (viewers \intersect acl) :
            /\ present' = present \ removed
            /\ excused' = (excused \ removed) \union (viewers \ removed)
    /\ job' = [job EXCEPT ![h] = [stage |-> "removed", user |-> job[h].user,
                                  revoking |-> job[h].revoking]]
    /\ UNCHANGED <<disabled, session, strays>> /\ Administers

\* (Deviation: the sessions are left as they are.)
CommitUserOnly(h) ==
    /\ At(h, "removed")
    /\ disabled' = disabled \union {job[h].user}
    /\ Ends(h) /\ UNCHANGED <<session, present, excused, strays>> /\ Administers

CommitDisable(h) ==
    /\ At(h, "removed")
    /\ disabled' = disabled \union {job[h].user}
    /\ session' = Revoked(job[h].revoking)
    /\ strays' = strays \ job[h].revoking
    /\ Ends(h) /\ UNCHANGED <<present, excused>> /\ Administers

\* The audit event fails: everything is rolled back but the removal, 503.
DisableFails(h) ==
    /\ At(h, "removed") /\ Ends(h)
    /\ UNCHANGED <<disabled, session, present, excused, strays>> /\ Administers

AclGrant(u, c) ==
    /\ <<u, c>> \notin acl /\ acl' = acl \union {<<u, c>>}
    /\ UNCHANGED <<now, rateVars, disabled, session, token, present, job, strays, excused>>

\* Viewers stay in the room.
AclRevoke(u, c) ==
    /\ <<u, c>> \in acl /\ acl' = acl \ {<<u, c>>}
    /\ UNCHANGED <<now, rateVars, disabled, session, token, present, job, strays, excused>>

-----------------------------------------------------------------------------
Tick ==
    /\ now < MaxTime /\ now' = now + 1
    /\ token' = {t \in token : t.until > now + 1}
    /\ UNCHANGED <<rateVars, disabled, session, acl, present, job, strays, excused>>

\* The process ends; the limiter's memory goes with it.
Crash ==
    /\ Restart
    /\ job' = [h \in Handlers |-> Idle]
    /\ UNCHANGED <<now, disabled, session, acl, token, present, strays, excused>>

Next ==
    \/ \E h \in Handlers :
         \/ \E u \in Users, c \in Cameras, s \in Active \union {NoSession} :
              ReadUser(h, u, s, c)
         \/ Deny(h) \/ TurnAway(h) \/ Find(h) \/ Expire(h) \/ SignIn(h) \/ Touch(h)
         \/ Answer(h) \/ Revoke(h)
         \/ ReadAgain(h) \/ ReadClock(h) \/ Limited(h) \/ Admit(h)
         \/ Permit(h) \/ Issue(h) \/ IssueFails(h)
         \/ \E u \in Users : AskDisable(h, u)
         \/ Disable(h) \/ RemoveUserParticipants(h) \/ CommitDisable(h) \/ DisableFails(h)
    \/ \E u \in Users, c \in Cameras : AclGrant(u, c) \/ AclRevoke(u, c)
    \/ Join \/ Leave
    \/ Tick
    \/ Crash

Spec == Init /\ [][Next]_vars

-----------------------------------------------------------------------------
TypeOK ==
    /\ RateTypeOK
    /\ disabled \subseteq Users /\ acl \subseteq Views /\ present \subseteq Views
    /\ session \in [Sessions -> Row \union {NotCreated}]
    /\ token \subseteq Token
    /\ job \in [Handlers -> Request \union Disabling \union {Idle}]
    /\ strays \subseteq Sessions /\ excused \subseteq present

(***************************************************************************)
(* Once a user is disabled, no request that begins later gets past the     *)
(* authentication, none of the user's sessions is good but those of        *)
(* requests that were being served when it happened, no token was handed   *)
(* out to a later request, and the user is in a room only where the        *)
(* disabling could not see to it: see `excused`.                           *)
(***************************************************************************)
DisabledIsShutOut ==
    /\ \A h \in Handlers :
         job[h] # Idle /\ job[h].stage \in {"found", "admitted", "welcome"} => ~job[h].disabled
    /\ \A t \in token : ~t.late
    /\ \A u \in disabled : ActiveOf(u) \subseteq strays
    /\ \A v \in present : v[1] \in disabled => v \in excused
=============================================================================
