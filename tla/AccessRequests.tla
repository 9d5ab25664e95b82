--------------------------- MODULE AccessRequests ---------------------------
(***************************************************************************)
(* Requests for access: the public form that stores one, the administrators *)
(* who approve or reject it, the invitation to the GitHub organisation that *)
(* an approval sends, and the account and role it gives. Inviting a user    *)
(* without a request takes the same path and is modelled with it.           *)
(*                                                                         *)
(* Handlers run on the thread pool, each in a transaction (READ COMMITTED, *)
(* no row locks). record_audit_event commits all a handler has pending, or *)
(* rolls all of it back: it is the commit of every handler here. GitHub is *)
(* outside: an invitation it has accepted is not undone by a rollback.     *)
(***************************************************************************)
EXTENDS Naturals, FiniteSets

CONSTANTS
    MaxRequests,    \* bound: submissions of the public form
    Emails,         \* addresses, in lower case as the form stores them
    Handlers        \* admin requests being served at the same time (a bound)

ASSUME MaxRequestsAssumption == MaxRequests \in Nat

\* Submissions are numbered in the order in which they arrive.
Requests == 1..MaxRequests
NoRequest == 0

VARIABLES
    email,          \* email[q]: the address given in submission q
    state,          \* state[q]: how far submission q is, then the status of its row
    account,        \* account[e]: the row of users with that address
    role,           \* addresses whose account has the role viewer
    invited,        \* addresses GitHub has an invitation or a member for
    job,            \* job[h]: how far handler h is
    signedIn,       \* addresses that got an account by signing in (history)
    revoked,        \* addresses whose role was taken away once (history)
    crowded         \* addresses with two submissions at once (history)

history == <<signedIn, revoked, crowded>>
vars == <<email, state, account, role, invited, job, signedIn, revoked, crowded>>

Stored == {"pending", "approved", "rejected"}
States == Stored \union {"unsent", "checked", "merged", "gone"}
Idle == [stage |-> "idle"]
Job == [stage : {"looking", "inserting", "inviting", "deciding"},
        kind : {"approve", "reject", "invite"}, on : Requests \union {NoRequest},
        to : Emails, newAccount : BOOLEAN, newRole : BOOLEAN]

Busy == {h \in Handlers : job[h] # Idle}
Pending(e) == {q \in Requests : email[q] = e /\ state[q] = "pending"}

Init ==
    /\ email \in [Requests -> Emails]
    /\ state = [q \in Requests |-> "unsent"]
    /\ account = [e \in Emails |-> "none"]
    /\ role = {} /\ invited = {}
    /\ job = [h \in Handlers |-> Idle]
    /\ signedIn = {} /\ revoked = {} /\ crowded = {}

-----------------------------------------------------------------------------
(***************************************************************************)
(* create_visitor_access_request. The row with this address and status     *)
(* pending is read; if there is none, one is inserted and committed.       *)
(***************************************************************************)
Arrives(q) == state[q] = "unsent" /\ \A p \in Requests : p < q => state[p] # "unsent"

Becomes(q, s) ==
    /\ state' = [state EXCEPT ![q] = s]
    /\ UNCHANGED <<email, account, role, invited, job, signedIn, revoked>>

Crowds(q) ==
    crowded' = crowded \union
        (IF \E p \in Requests : email[p] = email[q] /\ state[p] = "checked"
         THEN {email[q]} ELSE {})

\* (Deviation: no look at what is stored.)
CheckNothing(q) == Arrives(q) /\ Crowds(q) /\ Becomes(q, "checked")

CheckFresh(q) ==
    /\ Arrives(q) /\ Pending(email[q]) = {}
    /\ Crowds(q) /\ Becomes(q, "checked")

\* (Deviation: a row that is not committed yet is found.)
CheckDuplicateDirty(q) ==
    /\ Arrives(q)
    /\ \E p \in Requests : email[p] = email[q] /\ state[p] \in {"checked", "pending"}
    /\ Becomes(q, "merged") /\ UNCHANGED crowded

\* One is there: answered like a new one, nothing is stored.
CheckDuplicate(q) ==
    /\ Arrives(q) /\ Cardinality(Pending(email[q])) = 1
    /\ Becomes(q, "merged") /\ UNCHANGED crowded

\* scalar_one_or_none raises when there are two.
CheckAmbiguous(q) ==
    /\ Arrives(q) /\ Pending(email[q]) # {}
    /\ Cardinality(Pending(email[q])) # 1
    /\ Becomes(q, "gone") /\ UNCHANGED crowded

Store(q) == state[q] = "checked" /\ Becomes(q, "pending") /\ UNCHANGED crowded

\* The insert or its audit event cannot be written: rolled back. If it is the
\* audit event the handler goes on and gives the usual answer.
StoreFails(q) == state[q] = "checked" /\ Becomes(q, "gone") /\ UNCHANGED crowded

-----------------------------------------------------------------------------
(***************************************************************************)
(* approve_access_request, reject_access_request, admin_invite_user.       *)
(***************************************************************************)
Starts(h, kind, q, e) ==
    /\ job[h] = Idle
    /\ job' = [job EXCEPT ![h] =
         [stage |-> IF kind = "reject" THEN "deciding" ELSE "looking", kind |-> kind,
          on |-> q, to |-> e, newAccount |-> FALSE, newRole |-> FALSE]]
    /\ UNCHANGED <<email, state, account, role, invited, history>>

\* (Deviation: a decided request is accepted as well.)
ReadAny(h, kind, q) == state[q] \in Stored /\ Starts(h, kind, q, email[q])

\* The row is read and has to be pending.
Read(h, kind, q) == state[q] = "pending" /\ Starts(h, kind, q, email[q])

Invite(h, e) == Starts(h, "invite", NoRequest, e)

Moves(h, stage, newAccount, newRole) ==
    job' = [job EXCEPT ![h] =
              [stage |-> stage, kind |-> job[h].kind, on |-> job[h].on, to |-> job[h].to,
               newAccount |-> newAccount, newRole |-> newRole]]

Advances(h, stage) == Moves(h, stage, job[h].newAccount, job[h].newRole)

At(h, stage) == job[h] # Idle /\ job[h].stage = stage

\* The account and its roles are read: what is missing will be inserted.
Look(h) ==
    /\ At(h, "looking") /\ account[job[h].to] # "disabled"
    /\ Moves(h, "inserting", account[job[h].to] = "none", job[h].to \notin role)
    /\ UNCHANGED <<email, state, account, role, invited, history>>

Ends(h) ==
    /\ job' = [job EXCEPT ![h] = Idle]
    /\ UNCHANGED <<email, state, account, role, history>>

LookDisabled(h) ==
    /\ At(h, "looking") /\ account[job[h].to] = "disabled"
    /\ Ends(h) /\ UNCHANGED invited

\* What transaction x has inserted for the address: users.email is unique and
\* user_roles has a primary key, so a second insert waits for x to end.
Open(x, e) == job[x] # Idle /\ job[x].to = e /\ job[x].stage \in {"inviting", "deciding"}
HoldsAccount(e, X) == \E x \in X : Open(x, e) /\ job[x].newAccount
HoldsRole(e, X) == \E x \in X : Open(x, e) /\ job[x].newRole

MustWait(h) ==
    \/ job[h].newAccount /\ HoldsAccount(job[h].to, Handlers \ {h})
    \/ job[h].newRole /\ HoldsRole(job[h].to, Handlers \ {h})

Clash(h) ==
    \/ job[h].newAccount /\ account[job[h].to] # "none"
    \/ job[h].newRole /\ job[h].to \in role

\* (Deviation: the account is committed at once, as get_or_create_user does.)
InsertCommitted(h) ==
    /\ At(h, "inserting") /\ ~MustWait(h) /\ ~Clash(h)
    /\ account' = [account EXCEPT ![job[h].to] = IF @ = "none" THEN "active" ELSE @]
    /\ Advances(h, "inviting")
    /\ UNCHANGED <<email, state, role, invited, history>>

Insert(h) ==
    /\ At(h, "inserting") /\ ~MustWait(h) /\ ~Clash(h)
    /\ Advances(h, "inviting")
    /\ UNCHANGED <<email, state, account, role, invited, history>>

\* IntegrityError: somebody else has committed it in the meantime.
InsertClash(h) ==
    /\ At(h, "inserting") /\ ~MustWait(h) /\ Clash(h)
    /\ Ends(h) /\ UNCHANGED invited

\* (Deviation: an error of GitHub is passed over.)
InviteIgnored(h) ==
    /\ At(h, "inviting") /\ Advances(h, "deciding")
    /\ UNCHANGED <<email, state, account, role, invited, history>>

\* GitHub answers: invited now, or invited already.
Invited(h) ==
    /\ At(h, "inviting")
    /\ invited' = invited \union {job[h].to}
    /\ Advances(h, "deciding")
    /\ UNCHANGED <<email, state, account, role, history>>

\* GitHub refuses or is not configured, or its answer does not arrive in time,
\* whether it has invited or not: rolled back.
InviteFails(h) ==
    /\ At(h, "inviting") /\ Ends(h)
    /\ invited' \in {invited, invited \union {job[h].to}}

\* (Deviation: the verb is stored for the status.)
CommitVerb(h) ==
    /\ At(h, "deciding")
    /\ state' = [q \in Requests |-> IF q = job[h].on THEN job[h].kind ELSE state[q]]
    /\ job' = [job EXCEPT ![h] = Idle]
    /\ UNCHANGED <<email, account, role, invited, history>>

\* The decision is written, without another look at the status, and audited.
Commit(h) ==
    /\ At(h, "deciding")
    /\ state' = [q \in Requests |->
                   IF q # job[h].on THEN state[q]
                   ELSE IF job[h].kind = "reject" THEN "rejected" ELSE "approved"]
    /\ account' = [account EXCEPT ![job[h].to] = IF job[h].newAccount THEN "active" ELSE @]
    /\ role' = role \union (IF job[h].newRole THEN {job[h].to} ELSE {})
    /\ job' = [job EXCEPT ![h] = Idle]
    /\ UNCHANGED <<email, invited, history>>

CommitFails(h) == At(h, "deciding") /\ Ends(h) /\ UNCHANGED invited

-----------------------------------------------------------------------------
(***************************************************************************)
(* Other handlers that touch the same account, one transaction each.       *)
(***************************************************************************)
\* get_or_create_user, when somebody signs in for the first time.
SignIn(e) ==
    /\ account[e] = "none" /\ ~HoldsAccount(e, Handlers)
    /\ account' = [account EXCEPT ![e] = "active"]
    /\ signedIn' = signedIn \union {e}
    /\ UNCHANGED <<email, state, role, invited, job, revoked, crowded>>

\* admin_disable_user. Nothing enables an account again.
Disable(e) ==
    /\ account[e] = "active"
    /\ account' = [account EXCEPT ![e] = "disabled"]
    /\ UNCHANGED <<email, state, role, invited, job, history>>

\* admin_user_role.
GrantRole(e) ==
    /\ account[e] # "none" /\ e \notin role /\ ~HoldsRole(e, Handlers)
    /\ role' = role \union {e}
    /\ UNCHANGED <<email, state, account, invited, job, history>>

RevokeRole(e) ==
    /\ e \in role
    /\ role' = role \ {e} /\ revoked' = revoked \union {e}
    /\ UNCHANGED <<email, state, account, invited, job, signedIn, crowded>>

-----------------------------------------------------------------------------
Submission(q) ==
    \/ CheckFresh(q) \/ CheckDuplicate(q) \/ CheckAmbiguous(q)
    \/ Store(q) \/ StoreFails(q)

Serve(h) ==
    \/ Look(h) \/ LookDisabled(h) \/ Insert(h) \/ InsertClash(h)
    \/ Invited(h) \/ InviteFails(h) \/ Commit(h) \/ CommitFails(h)

Next ==
    \/ \E q \in Requests : Submission(q)
    \/ \E h \in Handlers, q \in Requests : Read(h, "approve", q) \/ Read(h, "reject", q)
    \/ \E h \in Handlers, e \in Emails : Invite(h, e)
    \/ \E h \in Handlers : Serve(h)
    \/ \E e \in Emails : SignIn(e) \/ Disable(e) \/ GrantRole(e) \/ RevokeRole(e)

Spec == Init /\ [][Next]_vars

-----------------------------------------------------------------------------
(***************************************************************************)
(* Properties.                                                             *)
(***************************************************************************)

Settled(q, verdict) == state[q] = verdict /\ \A h \in Busy : job[h].on # q

\* Every variable keeps to the values its column can have.
TypeOK ==
    /\ email \in [Requests -> Emails]
    /\ state \in [Requests -> States]
    /\ account \in [Emails -> {"none", "active", "disabled"}]
    /\ role \subseteq Emails /\ invited \subseteq Emails
    /\ job \in [Handlers -> Job \union {Idle}]
    /\ signedIn \subseteq Emails /\ revoked \subseteq Emails /\ crowded \subseteq Emails

\* A request that reads "approved" is carried out entirely, whoever else decided
\* it, invited, granted or signed in meanwhile: GitHub has an invitation, there
\* is an account, and it has the role unless somebody took it away
\* (approve_access_request against itself and admin_invite_user).
ApprovedIsWhole ==
    \A q \in Requests : state[q] = "approved" =>
        /\ email[q] \in invited
        /\ account[email[q]] # "none"
        /\ email[q] \in role \union revoked

\* Nobody gets an account from an approval or invitation that came to nothing:
\* the account of somebody who never signed in belongs to an invitation that
\* GitHub has (rollback after GitHubInviteError).
AccountIsBacked ==
    \A e \in Emails : account[e] # "none" => e \in signedIn \union invited

\* Who is told that the request was received because there is one already is
\* told the truth: a row with the address was stored and stays
\* (create_visitor_access_request, existing is not None).
DuplicateHasOriginal ==
    \A q \in Requests : state[q] = "merged" =>
        \E p \in Requests : email[p] = email[q] /\ state[p] \in Stored

\* Only two submissions at once can leave two pending rows with one address, the
\* state in which every further submission fails; nothing an administrator does
\* or leaves unfinished leads there.
SerialSubmissionsAreUnique ==
    \A p, q \in Requests :
        (p # q /\ email[p] = email[q] /\ {state[p], state[q]} = {"pending"})
            => email[p] \in crowded

\* A decision stands once no other handler has the request in hand: it is not
\* decided again and nobody begins to (_require_pending_access_request).
SettledStays ==
    [][\A q \in Requests, verdict \in {"approved", "rejected"} :
         Settled(q, verdict) => Settled(q, verdict)']_vars
=============================================================================
